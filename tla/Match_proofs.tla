------------------------------ MODULE Match_proofs ------------------------------
(***************************************************************************)
(* Facts about streams and the lines in them, for the proofs about the     *)
(* matches of Gomoku and TicTacToe.                                        *)
(***************************************************************************)
EXTENDS Match, FiniteSetTheorems, SequenceTheorems, TLAPS

-----------------------------------------------------------------------------
(* Streams.                                                                *)

\* What is left of a sequence whose first element is read.
LEMMA HeadAndTail ==
  ASSUME NEW S, NEW s \in Seq(S), s # <<>>
  PROVE  /\ Head(s) = s[1] /\ s[1] \in S
         /\ Tail(s) \in Seq(S) /\ Len(s) \in Nat \ {0} /\ Len(Tail(s)) = Len(s) - 1
         /\ \A k \in 1 .. Len(s) - 1 : Tail(s)[k] = s[k + 1]
         /\ Len(s) = 1 => Tail(s) = <<>>
         /\ Len(s) > 1 => Tail(s) # <<>>
<1>1. Len(s) \in Nat \ {0} /\ s[1] \in S
  BY EmptySeq
<1>2. Tail(s) \in Seq(S) /\ Len(Tail(s)) = Len(s) - 1
  BY <1>1
<1>3. \A k \in 1 .. Len(s) - 1 : Tail(s)[k] = s[k + 1]
  BY <1>1
<1>4. Tail(s) = <<>> <=> Len(Tail(s)) = 0
  BY <1>2, EmptySeq
<1> QED
  BY <1>1, <1>2, <1>3, <1>4

\* One element more, and a first one.
LEMMA Longer ==
  ASSUME NEW S, NEW s \in Seq(S), NEW x \in S
  PROVE  /\ Append(s, x) \in Seq(S)
         /\ s = <<>> => Append(s, x) = <<x>> /\ Len(Append(s, x)) = 1 /\ Append(s, x)[1] = x
<1>1. Append(s, x) \in Seq(S)
  OBVIOUS
<1>2. Append(<<>>, x) = <<x>> /\ Len(<<x>>) = 1 /\ <<x>>[1] = x
  OBVIOUS
<1> QED
  BY <1>1, <1>2

\* A second element.
LEMMA AppendTwo == ASSUME NEW e, NEW m PROVE Append(<<e>>, m) = <<e, m>>
<1>1. ASSUME NEW S, NEW s \in Seq(S), NEW x \in S, NEW t \in Seq(S),
             Len(s) = 1, Len(t) = 2, t[1] = s[1], t[2] = x
      PROVE  Append(s, x) = t
  <2>1. /\ Append(s, x) \in Seq(S) /\ Len(Append(s, x)) = 2
        /\ Append(s, x)[1] = s[1] /\ Append(s, x)[2] = x
    <3>1. /\ Append(s, x) \in Seq(S)
          /\ Len(Append(s, x)) = Len(s) + 1
          /\ \A k \in 1 .. Len(s) : Append(s, x)[k] = s[k]
          /\ Append(s, x)[Len(s) + 1] = x
      BY AppendProperties
    <3> QED
      BY <1>1, <3>1
  <2> QED
    BY <1>1, <2>1, SeqEqual
<1>2. /\ <<e>> \in Seq({e, m}) /\ <<e, m>> \in Seq({e, m}) /\ m \in {e, m}
      /\ Len(<<e>>) = 1 /\ Len(<<e, m>>) = 2
      /\ <<e, m>>[1] = <<e>>[1] /\ <<e, m>>[2] = m
  OBVIOUS
<1> QED
  BY <1>1, <1>2

\* One line and two more.
LEMMA ThreeLines ==
  ASSUME NEW S, NEW a \in S, NEW b \in S, NEW c \in S
  PROVE  LET s == <<a>> \o <<b, c>> IN
         s \in Seq(S) /\ Len(s) = 3 /\ s[1] = a /\ s[2] = b /\ s[3] = c
OBVIOUS

\* Two lines, in the forms the judger prints them in.
LEMMA TwoLines ==
  ASSUME NEW a, NEW b
  PROVE  /\ <<a>> \o <<b>> = <<a, b>> /\ <<a, b>> \o <<>> = <<a, b>>
         /\ Len(<<a, b>>) = 2 /\ <<a, b>>[1] = a /\ <<a, b>>[2] = b
         /\ <<a, b>> # <<>>
<1>1. /\ <<a>> \in Seq({a, b}) /\ <<b>> \in Seq({a, b}) /\ <<a, b>> \in Seq({a, b})
      /\ Len(<<a>>) = 1 /\ Len(<<b>>) = 1 /\ <<a>>[1] = a /\ <<b>>[1] = b
  OBVIOUS
<1>2. /\ Len(<<a, b>>) = 2 /\ <<a, b>>[1] = a /\ <<a, b>>[2] = b /\ <<a, b>> # <<>>
  OBVIOUS
<1>3. ASSUME NEW S, NEW s \in Seq(S), NEW t \in Seq(S), NEW u \in Seq(S),
             Len(s) = 1, Len(t) = 1, Len(u) = 2, u[1] = s[1], u[2] = t[1]
      PROVE  s \o t = u
  <2>1. /\ s \o t \in Seq(S) /\ Len(s \o t) = Len(s) + Len(t)
        /\ \A k \in 1 .. Len(s) + Len(t) :
             (s \o t)[k] = IF k <= Len(s) THEN s[k] ELSE t[k - Len(s)]
    BY ConcatProperties
  <2>2. (s \o t)[1] = s[1] /\ (s \o t)[2] = t[2 - 1] /\ Len(s \o t) = 2
    BY <1>3, <2>1
  <2>3. \A k \in 1 .. Len(s \o t) : (s \o t)[k] = u[k]
    BY <1>3, <2>2
  <2> QED
    BY <1>3, <2>1, <2>2, <2>3, SeqEqual
<1>4. <<a>> \o <<b>> = <<a, b>>
  BY <1>1, <1>2, <1>3
<1>5. <<a, b>> \o <<>> = <<a, b>>
  BY <1>1, ConcatEmptySeq
<1> QED
  BY <1>2, <1>4, <1>5

\* There are two players, each the other's other.
LEMMA Others ==
  \A p \in Players : /\ Other(p) \in Players /\ Other(p) # p /\ Other(Other(p)) = p
                     /\ \A q \in Players : q = p \/ q = Other(p)
BY DEF Players, Other

\* What each line says of itself.
LEMMA Kinds ==
  /\ Log.cmd = "log" /\ Blank.cmd = "blank" /\ Draw.cmd = "draw"
  /\ \A p : Win(p).cmd = "win" /\ Win(p).to = p
  /\ \A p : Continue(p).cmd = "continue" /\ Continue(p).to = p
  /\ \A p, m : Send(p, m).cmd = "send" /\ Send(p, m).to = p /\ Send(p, m).msg = m
BY DEF Log, Blank, Draw, Win, Continue, Send

\* The last line of what is printed is the one appended.
LEMMA LastLine ==
  ASSUME NEW S, NEW s \in Seq(S), NEW x \in S
  PROVE  (s \o <<x>>)[Len(s \o <<x>>)] = x
OBVIOUS

\* Appending nothing, and appending two sequences.
LEMMA Appending ==
  ASSUME NEW S, NEW s \in Seq(S), NEW t \in Seq(S)
  PROVE  s \o t \in Seq(S) /\ s \o <<>> = s
OBVIOUS

\* The relay starts no program and ends none.
LEMMA RelayRunsNothing ==
  ASSUME NEW ready, Relay(ready)
  PROVE  UNCHANGED <<up, stuck>>
BY DEF Relay, ObeySend, ObeyContinue, Skip, Verdict, NextCommand, PassAnswer, PlayerFails,
  JudgerFails

-----------------------------------------------------------------------------
(* Streams of tokens.                                                      *)

\* A line that ends the match.
Final(line) == line.cmd \in {"win", "draw"}

\* A line that is one answer, or half of one.
Brief == {line \in Seq(Tokens) : Len(line) \in 1 .. 2}

\* Such a line is what a stranger prints that gives one answer a line.
LEMMA OneAnswerIsBrief == OneAnswer \subseteq Brief
<1> SUFFICES ASSUME NEW n \in 1 .. 2, NEW line \in [1 .. n -> Numbers \cup {Word}]
             PROVE  line \in Brief
  BY DEF OneAnswer
<1>1. n \in Nat
  OBVIOUS
<1>2. Numbers \cup {Word} \subseteq Tokens
  BY TokensAssumption DEF Tokens
<1>3. line \in [1 .. n -> Tokens]
  BY <1>2
<1>4. line \in Seq(Tokens) /\ Len(line) = n
  BY <1>1, <1>3
<1> QED
  BY <1>4 DEF Brief

\* What strangers print, whether they give one answer a line or more.
LEMMA LinesAreTokens == \A type : LinesOf(type) \subseteq Seq(Tokens)
BY TokensAssumption, OneAnswerIsBrief DEF LinesOf, Brief

\* What is left of a stream behind an answer.
LEMMA BehindAnAnswer ==
  ASSUME NEW S, NEW s \in Seq(S), Len(s) >= 3
  PROVE  /\ SubSeq(s, 4, Len(s)) \in Seq(S)
         /\ Len(s) = 3 => SubSeq(s, 4, Len(s)) = <<>>
<1>1. Len(s) \in Nat
  OBVIOUS
<1>2. SubSeq(s, 4, Len(s)) \in Seq(S)
  BY <1>1
<1>3. Len(s) = 3 => Len(SubSeq(s, 4, Len(s))) = 0
  BY <1>1
<1> QED
  BY <1>2, <1>3, EmptySeq

\* Two streams, one behind the other.
LEMMA Joined ==
  ASSUME NEW S, NEW s \in Seq(S), NEW t \in Seq(S)
  PROVE  /\ s \o t \in Seq(S) /\ Len(s \o t) = Len(s) + Len(t)
         /\ \A k \in 1 .. Len(s) : (s \o t)[k] = s[k]
         /\ \A k \in 1 .. Len(s \o t) : ~(k <= Len(s)) =>
              k - Len(s) \in 1 .. Len(t) /\ (s \o t)[k] = t[k - Len(s)]
<1>1. Len(s) \in Nat /\ Len(t) \in Nat
  OBVIOUS
<1>2. /\ s \o t \in Seq(S) /\ Len(s \o t) = Len(s) + Len(t)
      /\ \A k \in 1 .. Len(s) + Len(t) :
           (s \o t)[k] = IF k <= Len(s) THEN s[k] ELSE t[k - Len(s)]
  BY ConcatProperties
<1> QED
  BY <1>1, <1>2

\* A line that is handed over stands behind the id, in a stream that was empty.
LEMMA Handed ==
  ASSUME NEW a \in Tokens, NEW line \in Seq(Tokens), NEW stream,
         stream = <<>> \o <<a>> \o line
  PROVE  /\ stream \in Seq(Tokens) /\ Len(stream) = Len(line) + 1 /\ stream[1] = a
         /\ \A k \in 1 .. Len(line) : stream[k + 1] = line[k]
<1> DEFINE f == <<a>>
<1>1. f \in Seq(Tokens) /\ Len(f) = 1 /\ f[1] = a
  OBVIOUS
<1>2. <<>> \o f = f
  BY <1>1, ConcatEmptySeq
<1> HIDE DEF f
<1> DEFINE s == f \o line
<1>3. Len(line) \in Nat
  OBVIOUS
<1>4. /\ s \in Seq(Tokens) /\ Len(s) = Len(f) + Len(line)
      /\ \A k \in 1 .. Len(f) + Len(line) :
           s[k] = IF k <= Len(f) THEN f[k] ELSE line[k - Len(f)]
  BY <1>1, ConcatProperties
<1> HIDE DEF s
<1>5. s \in Seq(Tokens) /\ Len(s) = Len(line) + 1 /\ s[1] = a
  BY <1>1, <1>3, <1>4
<1>6. ASSUME NEW k \in 1 .. Len(line) PROVE s[k + 1] = line[k]
  <2>1. k + 1 \in 1 .. Len(f) + Len(line) /\ ~(k + 1 <= Len(f)) /\ (k + 1) - Len(f) = k
    BY <1>1, <1>3
  <2> QED
    BY <1>4, <2>1
<1> QED
  BY <1>2, <1>5, <1>6 DEF s, f

\* What its last line is decides whether it goes on.
LEMMA Prints ==
  ASSUME NEW lines, JudgerPrints(lines)
  PROVE  /\ jout' = jout \o lines
         /\ Final(lines[Len(lines)]) => up' = up \ {Judger}
         /\ ~Final(lines[Len(lines)]) => up' = up
BY DEF JudgerPrints, Final
=============================================================================
