---------------------------- MODULE LGame_delivers ----------------------------
(***************************************************************************)
(* The proof that #send delivers: for every number of players and every    *)
(* shuffle, a player that runs has been written exactly the messages the   *)
(* judger addressed to the id it was told.                                 *)
(*                                                                         *)
(* It holds of the judgers whose #send lines are lists of numbers that an  *)
(* int can hold.  A word in the list leaves `id` at 0, and a message       *)
(* addressed to some players goes to all of them: then it is false.        *)
(***************************************************************************)
EXTENDS LGame_proofs, SequenceTheorems

SendsAreLists == \A line \in JudgerLines : line.cmd = "send" => line.tail = "end"

\* What is written and not yet flushed to player p.
GameWrites(writes, p) == {k \in DOMAIN writes : writes[k].to = p /\ writes[k].msg.kind = "game"}
Pending(p) == Cardinality(GameWrites(todo, p))

FromJudger == \A k \in DOMAIN stdout[0] : stdout[0][k] \in JudgerLines
LastIsId   == pc = "message" /\ playerList # <<>> => id = playerList[Len(playerList)]

\* What a player is owed is what it was given and what is still to be written.
Owing == pc \in Reading => \A p \in Players : up[p] => owed[p] = given[p] + Pending(p)

\* A player that runs has been told its id, or is about to be.
Introduced ==
  pc \in Reading => \A p \in Players : up[p] =>
    \/ told[p] = peopleIndex[p]
    \/ \E k \in DOMAIN todo : todo[k].to = p /\ todo[k].msg.kind = "id"

Delivery == FromJudger /\ LastIsId /\ Owing /\ Introduced

-----------------------------------------------------------------------------
(* Counting.                                                               *)

LEMMA OneElement ==
  ASSUME NEW S, NEW s \in Seq(S), Len(s) = 1
  PROVE  s = <<s[1]>> /\ s # <<>>
<1>1. s[1] \in S /\ s # <<>>
  <2>1. s[1] \in S
    BY ElementOfSeq
  <2>2. s # <<>>
    BY EmptySeq
  <2> QED
    BY <2>1, <2>2
<1>2. <<s[1]>> \in Seq(S) /\ Len(<<s[1]>>) = 1 /\ <<s[1]>>[1] = s[1]
  BY <1>1
<1>3. \A k \in 1 .. Len(s) : s[k] = <<s[1]>>[k]
  BY <1>2
<1> QED
  BY <1>1, <1>2, <1>3, SeqEqual

USE GameAssumption

\* A set of positions, and the same set once the first position is gone.
LEMMA OneFewer ==
  ASSUME NEW n \in Nat, NEW A \in SUBSET (1 .. n + 1), NEW B, B = {k \in 1 .. n : k + 1 \in A}
  PROVE  /\ Cardinality(A) \in Nat /\ Cardinality(B) \in Nat
         /\ Cardinality(A) = Cardinality(B) + (IF 1 \in A THEN 1 ELSE 0)
<1>1. IsFiniteSet(1 .. n + 1)
  BY FS_Interval
<1>2. IsFiniteSet(A) /\ B \in SUBSET (1 .. n + 1)
  <2>1. IsFiniteSet(A)
    BY <1>1, FS_Subset
  <2>2. B \in SUBSET (1 .. n + 1)
    OBVIOUS
  <2> QED
    BY <2>1, <2>2
<1>3. IsFiniteSet(B)
  BY <1>1, <1>2, FS_Subset
<1>4. IsFiniteSet(A \ {1})
  BY <1>2, FS_RemoveElement
<1>5. Cardinality(A \ {1}) = Cardinality(B)
  <2> DEFINE next == [k \in B |-> k + 1]
             C == A \ {1}
  <2>1. next \in [B -> C]
    OBVIOUS
  <2>2. \A a, b \in B : next[a] = next[b] => a = b
    OBVIOUS
  <2>3. \A c \in C : \E b \in B : next[b] = c
    <3> SUFFICES ASSUME NEW c \in C PROVE \E b \in B : next[b] = c
      OBVIOUS
    <3>1. c \in 2 .. n + 1 /\ c - 1 \in 1 .. n /\ (c - 1) + 1 = c
      OBVIOUS
    <3>2. c - 1 \in B
      BY <3>1
    <3> QED
      BY <3>1, <3>2
  <2> HIDE DEF next, C
  <2>4. next \in Bijection(B, C)
    BY <2>1, <2>2, <2>3 DEF Bijection, Injection, Surjection, IsInjective
  <2>5. ExistsBijection(B, C)
    BY <2>4 DEF ExistsBijection
  <2> QED
    BY <1>3, <2>5, FS_Bijection DEF C
<1>6. Cardinality(A) \in Nat /\ Cardinality(B) \in Nat
  BY <1>2, <1>3, FS_CardinalityType
<1>7. Cardinality(A \ {1}) = IF 1 \in A THEN Cardinality(A) - 1 ELSE Cardinality(A)
  BY <1>2, FS_RemoveElement
<1> QED
  BY <1>5, <1>6, <1>7

LEMMA PendingTail ==
  ASSUME Types, todo # <<>>, NEW p \in Players
  PROVE  /\ Pending(p) \in Nat
         /\ Cardinality(GameWrites(Tail(todo), p)) \in Nat
         /\ Pending(p) = Cardinality(GameWrites(Tail(todo), p))
                        + (IF First.to = p /\ First.msg.kind = "game" THEN 1 ELSE 0)
<1> DEFINE n == Len(todo) - 1
           A == GameWrites(todo, p)
           B == GameWrites(Tail(todo), p)
<1>1. /\ n \in Nat /\ DOMAIN todo = 1 .. n + 1 /\ DOMAIN Tail(todo) = 1 .. n /\ First = todo[1]
      /\ \A k \in 1 .. n : Tail(todo)[k] = todo[k + 1] /\ k + 1 \in DOMAIN todo
  BY FirstFacts
<1>2. A \in SUBSET (1 .. n + 1) /\ (1 \in A <=> First.to = p /\ First.msg.kind = "game")
  BY <1>1 DEF GameWrites
<1>3. B = {k \in 1 .. n : k + 1 \in A}
  BY <1>1 DEF GameWrites
<1> HIDE DEF n, A, B
<1>4. Cardinality(A) \in Nat /\ Cardinality(B) \in Nat
      /\ Cardinality(A) = Cardinality(B) + (IF 1 \in A THEN 1 ELSE 0)
  BY <1>1, <1>2, <1>3, OneFewer
<1> QED
  BY <1>2, <1>4 DEF A, B, Pending

LEMMA NothingPending ==
  ASSUME NEW writes, \A k \in DOMAIN writes : writes[k].msg.kind # "game", NEW p
  PROVE  Cardinality(GameWrites(writes, p)) = 0
<1>1. GameWrites(writes, p) = {}
  BY DEF GameWrites
<1> QED
  BY <1>1, FS_EmptySet

LEMMA SetUpKinds ==
  ASSUME Shuffled
  PROVE  /\ \A k \in DOMAIN SetUpAll : SetUpAll[k].msg.kind # "game"
         /\ \A p \in Players : \E k \in DOMAIN SetUpAll : SetUpAll[k].to = p /\ SetUpAll[k].msg.kind = "id"
<1>1. ASSUME NEW i \in Procs, NEW k \in 1 .. 3, i # 0 \/ k # 3 PROVE SetUp(i)[k].msg.kind # "game"
  <2>1. CASE i = 0
    <3>1. SetUp(i) = <<Write(i, "n", N), Write(i, "folder", 0)>> /\ (k = 1 \/ k = 2)
      BY <1>1, <2>1 DEF SetUp
    <3> QED
      BY <3>1 DEF Write
  <2>2. CASE i # 0
    <3>1. SetUp(i) = <<Write(i, "n", N), Write(i, "id", peopleIndex[i]), Write(i, "folder", 0)>>
          /\ (k = 1 \/ k = 2 \/ k = 3)
      BY <1>1, <2>2 DEF SetUp
    <3> QED
      BY <3>1 DEF Write
  <2> QED
    BY <2>1, <2>2
<1>2. ASSUME NEW k \in DOMAIN SetUpAll PROVE SetUpAll[k].msg.kind # "game"
  <2>1. k \in 1 .. 3 * N + 2
    BY DEF SetUpAll
  <2>2. PICK i \in Procs : \E j \in 1 .. 3 : (i # 0 \/ j # 3) /\ SetUpAll[k] = SetUp(i)[j]
    BY <2>1, SetUpPlaces
  <2> QED
    BY <1>1, <2>2
<1>3. ASSUME NEW p \in Players
      PROVE  \E k \in DOMAIN SetUpAll : SetUpAll[k].to = p /\ SetUpAll[k].msg.kind = "id"
  <2> DEFINE k == 3 * p + 1
  <2>1. k \in 1 .. 3 * N + 2 /\ ~(k < 3) /\ k \div 3 = p /\ k % 3 = 1
    BY DEF Players
  <2>2. SetUpAll[k] = SetUp(p)[2] /\ k \in DOMAIN SetUpAll
    BY <2>1 DEF SetUpAll
  <2>3. SetUp(p)[2] = Write(p, "id", peopleIndex[p])
    BY DEF SetUp, Players
  <2> QED
    BY <2>2, <2>3 DEF Write
<1> QED
  BY <1>2, <1>3

LEMMA InitDelivery == Init => Delivery
<1> SUFFICES ASSUME Init PROVE Delivery
  OBVIOUS
<1>1. Shuffled /\ todo = SetUpAll
  BY DEF Init, Shuffled
<1>2. \A k \in DOMAIN todo : todo[k].msg.kind # "game"
  BY <1>1, SetUpKinds
<1>3. FromJudger
  BY ProcsFacts DEF Init, FromJudger
<1>4. LastIsId
  BY DEF Init, LastIsId
<1>5. Owing
  <2>1. \A p \in Players : Pending(p) = 0
    BY <1>2, NothingPending DEF Pending
  <2>2. \A p \in Players : owed[p] = 0 /\ given[p] = 0
    BY DEF Init
  <2> QED
    BY <2>1, <2>2 DEF Owing
<1>6. Introduced
  BY <1>1, SetUpKinds DEF Introduced
<1> QED
  BY <1>3, <1>4, <1>5, <1>6 DEF Delivery

-----------------------------------------------------------------------------
(* The steps.                                                              *)

\* Steps that leave the writes, the debts and main's reading alone.
LEMMA QuietDelivery ==
  ASSUME Delivery, UNCHANGED <<peopleIndex, todo, owed, given, told>>,
         FromJudger', LastIsId',
         pc' \in Reading => pc \in Reading,
         \A i \in Procs : up'[i] => up[i]
  PROVE  Delivery'
<1>1. Owing'
  BY ProcsFacts DEF Delivery, Owing, Pending
<1>2. Introduced'
  BY ProcsFacts DEF Delivery, Introduced
<1> QED
  BY <1>1, <1>2 DEF Delivery

\* A step that takes a line at most leaves lines of the judger's.
LEMMA GetsFromJudger ==
  ASSUME Types, FromJudger, NEW i \in Procs, NEW line, Gets(i, line)
  PROVE  FromJudger' /\ (i = 0 => line \in JudgerLines \cup {BlankLine})
<1>1. stdout \in [Procs -> Seq(Lines)] /\ stdout[0] \in Seq(Lines)
  BY ProcsFacts DEF Types, ChildTypes
<1>2. CASE stdout[i] # <<>> /\ line = Head(stdout[i]) /\ stdout' = [stdout EXCEPT ![i] = Tail(@)]
  <2>1. CASE i = 0
    <3>1. /\ line = stdout[0][1] /\ 1 \in DOMAIN stdout[0] /\ stdout'[0] = Tail(stdout[0])
          /\ \A k \in DOMAIN Tail(stdout[0]) : Tail(stdout[0])[k] = stdout[0][k + 1]
                                              /\ k + 1 \in DOMAIN stdout[0]
      BY <1>1, <1>2, <2>1, Ends, ProcsFacts
    <3> QED
      BY <3>1 DEF FromJudger
  <2>2. CASE i # 0
    <3>1. stdout'[0] = stdout[0]
      BY <1>1, <1>2, <2>2, ProcsFacts
    <3> QED
      BY <2>2, <3>1 DEF FromJudger
  <2> QED
    BY <2>1, <2>2
<1>3. CASE line = BlankLine /\ UNCHANGED stdout
  BY <1>3 DEF FromJudger
<1> QED
  BY <1>2, <1>3 DEF Gets

LEMMA ChildDelivery == ASSUME Types, Delivery, NEW i \in Procs, Child(i) PROVE Delivery'
<1>1. UNCHANGED <<peopleIndex, todo, owed, given, told, pc, playerList, id>>
  BY DEF Child, localVars, historyVars
<1>2. \A j \in Procs : up'[j] => up[j]
  BY DEF Child, ChildPrints, ChildReads, ChildClosesStdout, ChildExits, Types, ChildTypes
<1>3. stdout \in [Procs -> Seq(Lines)] /\ stdout[0] \in Seq(Lines)
  BY ProcsFacts DEF Types, ChildTypes
<1>4. FromJudger'
  <2>1. CASE UNCHANGED stdout
    BY <2>1 DEF Delivery, FromJudger
  <2>2. ASSUME NEW line \in IF i = 0 THEN JudgerLines ELSE PlayerLines, ChildPrints(i, line)
        PROVE  FromJudger'
    <3>1. stdout' = [stdout EXCEPT ![i] = Append(@, line)]
      BY <2>2 DEF ChildPrints
    <3>2. CASE i = 0
      <4>1. line \in JudgerLines /\ line \in Lines
        BY <2>2, <3>2
      <4>2. stdout'[0] = Append(stdout[0], line)
        BY <1>3, <3>1, <3>2, ProcsFacts
      <4>3. /\ DOMAIN Append(stdout[0], line) = 1 .. Len(stdout[0]) + 1
            /\ Append(stdout[0], line)[Len(stdout[0]) + 1] = line
            /\ DOMAIN stdout[0] = 1 .. Len(stdout[0]) /\ Len(stdout[0]) \in Nat
            /\ \A k \in 1 .. Len(stdout[0]) : Append(stdout[0], line)[k] = stdout[0][k]
        BY <1>3, <4>1, Longer
      <4> DEFINE longer == Append(stdout[0], line)
      <4> HIDE DEF longer
      <4>4. ASSUME NEW k \in DOMAIN longer PROVE longer[k] \in JudgerLines
        <5>1. k = Len(stdout[0]) + 1 \/ k \in 1 .. Len(stdout[0])
          BY <4>3 DEF longer
        <5> QED
          BY <4>1, <4>3, <5>1 DEF longer, Delivery, FromJudger
      <4> QED
        BY <4>2, <4>4 DEF FromJudger, longer
    <3>3. CASE i # 0
      <4>1. stdout'[0] = stdout[0]
        BY <1>3, <3>1, <3>3, ProcsFacts
      <4> QED
        BY <4>1 DEF Delivery, FromJudger
    <3> QED
      BY <3>2, <3>3
  <2> QED
    BY <2>1, <2>2 DEF Child, ChildReads, ChildClosesStdout, ChildExits
<1>5. LastIsId'
  BY <1>1 DEF Delivery, LastIsId
<1> QED
  BY <1>1, <1>2, <1>4, <1>5, QuietDelivery

LEMMA WritesDelivery == ASSUME Types, Shuffled, Stage, Identity, Delivery, Writes PROVE Delivery'
<1>1. /\ UNCHANGED <<peopleIndex, up, stdout, owed, playerList, id>> /\ todo # <<>>
      /\ pc' = pc \/ pc' \in {"closing", "over"}
  BY DEF Writes, PickStream, NoSuchPlayer, WriteLine, WriteBreaks, Throw, Killed, childVars, localVars,
         historyVars, Stage
<1>2. FromJudger' /\ LastIsId'
  BY <1>1 DEF Delivery, FromJudger, LastIsId
<1>3. CASE pc' \notin Reading
  BY <1>2, <1>3 DEF Delivery, Owing, Introduced
<1>4. CASE PickStream /\ todo' = todo
  BY <1>1, <1>2, <1>4, QuietDelivery DEF PickStream, historyVars
<1>5. First.to \in Procs \cup {Nobody} /\ First = todo[1] /\ DOMAIN todo = 1 .. Len(todo)
      /\ DOMAIN Tail(todo) = 1 .. Len(todo) - 1 /\ Len(todo) \in Nat \ {0}
      /\ \A k \in 1 .. Len(todo) - 1 : Tail(todo)[k] = todo[k + 1]
  BY <1>1, FirstFacts
\* What is left of an introduction once the first write is gone.
<1>6. ASSUME NEW p \in Players, NEW k \in DOMAIN todo, todo[k].to = p, todo[k].msg.kind = "id",
             ~(First.to = p /\ First.msg.kind = "id")
      PROVE  \E j \in DOMAIN Tail(todo) : Tail(todo)[j].to = p /\ Tail(todo)[j].msg.kind = "id"
  <2>1. k # 1 /\ k - 1 \in 1 .. Len(todo) - 1 /\ (k - 1) + 1 = k
    BY <1>5, <1>6
  <2>2. Tail(todo)[k - 1] = todo[k]
    BY <1>5, <2>1
  <2> QED
    BY <1>5, <1>6, <2>1, <2>2
<1>7. CASE PickStream /\ pc' \in Reading /\ todo' = Tail(todo) /\ ~up[First.to]
  <2>1. UNCHANGED <<given, told, pc>>
    BY <1>7 DEF PickStream, historyVars
  <2>2. ASSUME NEW p \in Players, up[p] PROVE owed[p] = given[p] + Pending(p)'
    <3>1. First.to # p
      BY <1>7, <2>2
    <3>2. Pending(p)' = Cardinality(GameWrites(Tail(todo), p))
      BY <1>7 DEF Pending
    <3> QED
      BY <1>1, <1>7, <2>1, <2>2, <3>1, <3>2, PendingTail DEF Delivery, Owing
  <2>3. ASSUME NEW p \in Players, up[p]
        PROVE  \/ told[p] = peopleIndex[p]
               \/ \E j \in DOMAIN Tail(todo) : Tail(todo)[j].to = p /\ Tail(todo)[j].msg.kind = "id"
    <3>1. First.to # p
      BY <1>7, <2>3
    <3> QED
      BY <1>6, <1>7, <2>1, <2>3, <3>1 DEF Delivery, Introduced
  <2> QED
    BY <1>1, <1>2, <1>7, <2>1, <2>2, <2>3 DEF Delivery, Owing, Introduced
<1>8. CASE WriteLine /\ pc' \in Reading
  <2>1. /\ todo' = Tail(todo) /\ pc' = pc
        /\ told' = IF First.msg.kind = "id" THEN [told EXCEPT ![First.to] = First.msg.id] ELSE told
        /\ given' = IF First.msg.kind = "game" /\ First.to # 0
                    THEN [given EXCEPT ![First.to] = @ + 1] ELSE given
    BY <1>8 DEF WriteLine
  <2>2. First.to \in Procs /\ told \in [Procs -> Procs] /\ given \in [Players -> Nat]
    BY <1>5, <1>8 DEF WriteLine, Stage, Types, HistoryTypes
  <2>3. ASSUME NEW p \in Players, up[p] PROVE owed[p] = given'[p] + Pending(p)'
    <3>1. Pending(p)' = Cardinality(GameWrites(Tail(todo), p))
      BY <2>1 DEF Pending
    <3>2. given'[p] = given[p] + (IF First.to = p /\ First.msg.kind = "game" THEN 1 ELSE 0)
      <4>1. given[p] \in Nat /\ p # 0
        BY <2>2 DEF Players
      <4>2. CASE First.to = p /\ First.msg.kind = "game"
        BY <2>1, <2>2, <4>1, <4>2
      <4>3. CASE ~(First.to = p /\ First.msg.kind = "game")
        <5>1. given'[p] = given[p]
          BY <2>1, <2>2, <4>3
        <5> QED
          BY <4>1, <4>3, <5>1
      <4> QED
        BY <4>2, <4>3
    <3>3. owed[p] = given[p] + Pending(p) /\ given[p] \in Nat
      BY <1>8, <2>1, <2>2, <2>3 DEF Delivery, Owing
    <3> QED
      BY <1>1, <3>1, <3>2, <3>3, PendingTail
  <2>4. ASSUME NEW p \in Players, up[p]
        PROVE  \/ told'[p] = peopleIndex[p]
               \/ \E j \in DOMAIN Tail(todo) : Tail(todo)[j].to = p /\ Tail(todo)[j].msg.kind = "id"
    <3>1. CASE First.to = p /\ First.msg.kind = "id"
      <4>1. First.msg.id = peopleIndex[p]
        BY <1>5, <3>1 DEF Identity, Addressed, Genuine
      <4> QED
        BY <2>1, <2>2, <3>1, <4>1
    <3>2. CASE ~(First.to = p /\ First.msg.kind = "id")
      <4>1. told'[p] = told[p]
        BY <2>1, <2>2, <3>2, ProcsFacts
      <4> QED
        BY <1>6, <1>8, <2>1, <2>4, <3>2, <4>1 DEF Delivery, Introduced
    <3> QED
      BY <3>1, <3>2
  <2> QED
    BY <1>1, <1>2, <1>8, <2>1, <2>3, <2>4 DEF Delivery, Owing, Introduced
<1>9. PickStream => todo' = todo \/ (todo' = Tail(todo) /\ ~up[First.to])
  BY DEF PickStream
<1>10. NoSuchPlayer \/ WriteBreaks => pc' \notin Reading
  BY DEF NoSuchPlayer, WriteBreaks, Throw, Killed, Reading
<1> QED
  BY <1>3, <1>4, <1>7, <1>8, <1>9, <1>10 DEF Writes

LEMMA LateDelivery == ASSUME Types, Delivery, NEW i \in Procs, LateReaderFlushes(i) PROVE Delivery'
<1>1. /\ UNCHANGED <<peopleIndex, todo, owed, given, told, playerList, id, up>>
      /\ pc' \notin Reading /\ pc' # "message"
  BY DEF LateReaderFlushes, Killed, localVars, historyVars, Reading
<1>2. FromJudger'
  <2>1. stdout \in [Procs -> Seq(Lines)] /\ stdout[0] \in Seq(Lines)
    BY ProcsFacts DEF Types, ChildTypes
  <2>2. stdout[i] # <<>> /\ stdout' = [stdout EXCEPT ![i] = Tail(@)]
    BY DEF LateReaderFlushes
  <2>3. Gets(i, Head(stdout[i]))
    BY <2>2 DEF Gets
  <2> QED
    BY <2>3, GetsFromJudger DEF Delivery
<1> QED
  BY <1>1, <1>2, QuietDelivery DEF LastIsId

\* What a judger's #send asks for is what the writes it leads to make, for a player that
\* was told its id.
LEMMA CopiesAreWrites ==
  ASSUME Types, Shuffled, LastIsId, pc = "message", ~(id = 0 /\ Len(playerList) # 1),
         NEW p \in Players, told[p] = peopleIndex[p]
  PROVE  Copies(p) = Cardinality({k \in DOMAIN Addressees : Addressees[k] = p})
<1>1. playerList \in Seq(Int) /\ id \in Int
  BY DEF Types, MainTypes
<1>2. CASE id = 0
  <2>1. Len(playerList) = 1
    BY <1>2
  <2>2. playerList = <<playerList[1]>> /\ playerList # <<>>
    BY <1>1, <2>1, OneElement
  <2>3. playerList = <<0>>
    BY <1>2, <2>1, <2>2 DEF LastIsId
  <2>4. {k \in DOMAIN Addressees : Addressees[k] = p} = {p}
    BY <1>2 DEF Addressees
  <2> QED
    BY <2>3, <2>4, FS_Singleton DEF Copies
<1>3. CASE id # 0
  <2>1. playerList # <<0>>
    <3>1. ~(Len(playerList) = 1 /\ playerList[1] = 0 /\ playerList # <<>>)
      BY <1>3 DEF LastIsId
    <3> QED
      BY <3>1
  <2>2. Addressees = [k \in DOMAIN playerList |-> At(playerList[k])]
    BY <1>3 DEF Addressees
  <2>3. \A k \in DOMAIN playerList : At(playerList[k]) = p <=> playerList[k] = told[p]
    <3> SUFFICES ASSUME NEW k \in DOMAIN playerList
                 PROVE  At(playerList[k]) = p <=> playerList[k] = told[p]
      OBVIOUS
    <3>1. playerList[k] \in Int
      BY <1>1
    <3> QED
      BY <3>1, AtIs, ProcsFacts
  <2>4. {k \in DOMAIN Addressees : Addressees[k] = p} = {k \in DOMAIN playerList : playerList[k] = told[p]}
    BY <2>2, <2>3
  <2> QED
    BY <2>1, <2>4 DEF Copies
<1> QED
  BY <1>2, <1>3

LEMMA LinesDelivery ==
  ASSUME SendsAreLists, Types, Shuffled, Stage, Delivery, NEW line, Reads(line)
  PROVE  Delivery'
<1>1. pc \in Reading /\ todo = <<>> /\ UNCHANGED <<peopleIndex, up, given, told>>
  BY DEF Reads, Send, Continue, Win, Draw, Log, Skip, Command, SendMessage, PlayerAnswers, LogLine,
         Scores, Comment, AtRest, unchangedByRead, Reading, historyVars
<1>2. \E i \in Procs : Gets(i, line)
  <2>1. PlayerAnswers(line) => At(id) \in Procs
    BY AtIs, ProcsFacts DEF PlayerAnswers, AtRest, Stage
  <2> QED
    BY <2>1, ProcsFacts DEF Reads, Send, Continue, Win, Draw, Log, Skip, Command, SendMessage,
       PlayerAnswers, LogLine, Scores, Comment
<1>3. FromJudger'
  BY <1>2, GetsFromJudger DEF Delivery
<1>4. CASE Send(line)
  <2>1. line \in JudgerLines \cup {BlankLine} /\ line.cmd = "send" /\ Gets(0, line)
    BY <1>4, GetsFromJudger, ProcsFacts DEF Send, Command, Delivery
  <2>2. line \in JudgerLines /\ line.tail = "end"
    BY <2>1 DEF BlankLine, Line, SendsAreLists
  <2>3. PICK g \in Garbage : id' = LastId(line, g)
    BY <1>4 DEF Send
  <2>4. playerList' = line.nums
    BY <1>4 DEF Send
  <2>5. line.nums # <<>> => id' = line.nums[Len(line.nums)]
    BY <2>2, <2>3 DEF LastId
  <2>6. LastIsId'
    BY <2>4, <2>5 DEF LastIsId
  <2>7. UNCHANGED <<todo, owed>>
    BY <1>4 DEF Send, Command
  <2> QED
    BY <1>1, <1>3, <2>6, <2>7, QuietDelivery
<1>5. CASE Continue(line) \/ Win(line) \/ Draw(line) \/ Log(line) \/ Skip(line) \/ LogLine(line)
           \/ Comment(line) \/ Scores(line)
  <2>1. UNCHANGED <<todo, owed>> /\ pc' # "message"
    BY <1>5 DEF Continue, Win, Draw, Log, Skip, LogLine, Comment, Scores, Command, Throw, AtRest,
         historyVars
  <2> QED
    BY <1>1, <1>3, <2>1, QuietDelivery DEF LastIsId
<1>6. CASE PlayerAnswers(line)
  <2>1. UNCHANGED owed /\ pc' # "message" /\ (todo' = todo \/ todo' = <<Reply(At(id), ReplyTag)>>)
    BY <1>6 DEF PlayerAnswers, Throw, historyVars
  <2>2. CASE todo' = todo
    BY <1>1, <1>3, <2>1, <2>2, QuietDelivery DEF LastIsId
  <2>3. CASE todo' = <<Reply(At(id), ReplyTag)>>
    <3>1. \A k \in DOMAIN todo' : todo'[k].msg.kind # "game"
      BY <2>3 DEF Reply
    <3>2. \A k \in DOMAIN todo : todo[k].msg.kind # "game"
      BY <1>1
    <3>3. \A p \in Players : Pending(p) = 0 /\ Pending(p)' = 0
      BY <3>1, <3>2, NothingPending DEF Pending
    <3>4. Owing'
      BY <1>1, <2>1, <3>3 DEF Delivery, Owing
    <3>5. Introduced'
      BY <1>1 DEF Delivery, Introduced
    <3> QED
      BY <1>3, <2>1, <3>4, <3>5 DEF Delivery, LastIsId
  <2> QED
    BY <2>1, <2>2, <2>3
<1>7. CASE SendMessage(line)
  <2>1. pc = "message" /\ pc' # "message"
    BY <1>7 DEF SendMessage, AtRest, Throw
  <2>2. CASE id = 0 /\ Len(playerList) # 1
    <3>1. pc' \notin Reading
      BY <1>7, <2>2 DEF SendMessage, Throw, Reading
    <3> QED
      BY <1>3, <2>1, <3>1 DEF Delivery, Owing, Introduced, LastIsId
  <2>3. CASE ~(id = 0 /\ Len(playerList) # 1)
    <3>1. /\ todo' = [k \in DOMAIN Addressees |-> Write(Addressees[k], "game", 0)]
          /\ owed' = [p \in Players |-> owed[p] + Copies(p)]
      BY <1>7, <2>3 DEF SendMessage
    <3>2. \A p \in Players : up[p] => told[p] = peopleIndex[p]
      BY <1>1 DEF Delivery, Introduced
    <3>3. ASSUME NEW p \in Players, up[p] PROVE owed'[p] = given'[p] + Pending(p)'
      <4>1. Pending(p) = 0
        <5>1. \A k \in DOMAIN todo : todo[k].msg.kind # "game"
          BY <1>1
        <5> QED
          BY <5>1, NothingPending DEF Pending
      <4>2. owed[p] = given[p] /\ given[p] \in Nat
        BY <1>1, <3>3, <4>1 DEF Delivery, Owing, Types, HistoryTypes
      <4>3. GameWrites(todo, p)' = {k \in DOMAIN Addressees : Addressees[k] = p}
        BY <3>1 DEF GameWrites, Write
      <4>4. Copies(p) = Pending(p)'
        BY <2>1, <2>3, <3>2, <3>3, <4>3, CopiesAreWrites DEF Delivery, Pending
      <4> QED
        BY <1>1, <3>1, <4>2, <4>4
    <3>4. Owing'
      BY <1>1, <3>3 DEF Owing
    <3>5. Introduced'
      BY <1>1, <3>2 DEF Introduced
    <3> QED
      BY <1>3, <2>1, <3>4, <3>5 DEF Delivery, LastIsId
  <2> QED
    BY <2>2, <2>3
<1> QED
  BY <1>4, <1>5, <1>6, <1>7 DEF Reads

LEMMA NextDelivery ==
  ASSUME SendsAreLists, IInv, Delivery, [Next]_vars
  PROVE  Delivery'
<1> USE DEF IInv
<1>1. ASSUME NEW line \in NextLine, Reads(line) PROVE Delivery'
  BY <1>1, LinesDelivery
<1>2. CASE JudgerTimesOut \/ PlayerTimesOut \/ PeekYes \/ PeekNo \/ WriteResult \/ ResultNotWritten
           \/ SayKill \/ KillAll \/ UNCHANGED vars
  <2>1. UNCHANGED <<peopleIndex, todo, owed, given, told, stdout, playerList, id>>
    BY <1>2 DEF JudgerTimesOut, PlayerTimesOut, PeekYes, PeekNo, WriteResult, ResultNotWritten, SayKill,
         KillAll, unchangedByRead, vars, childVars, localVars, historyVars
  <2>2. /\ pc' \in Reading => pc \in Reading
        /\ pc' = "message" => pc = "message"
    BY <1>2 DEF JudgerTimesOut, PlayerTimesOut, PeekYes, PeekNo, WriteResult, ResultNotWritten, SayKill,
         KillAll, AtRest, Throw, Reading, vars
  <2>3. \A i \in Procs : up'[i] => up[i]
    BY <1>2 DEF JudgerTimesOut, PlayerTimesOut, PeekYes, PeekNo, WriteResult, ResultNotWritten, SayKill,
         KillAll, unchangedByRead, vars, childVars
  <2>4. FromJudger' /\ LastIsId'
    BY <2>1, <2>2 DEF Delivery, FromJudger, LastIsId
  <2> QED
    BY <2>1, <2>2, <2>3, <2>4, QuietDelivery
<1> QED
  BY <1>1, <1>2, WritesDelivery, ChildDelivery, LateDelivery DEF Next, Main

\* #send, for any number of players, any shuffle, any list of ids and any child that ends
\* in the middle: a player that runs has been written what was addressed to its id, once
\* for each time the list names it, and nothing else.
THEOREM SendDelivers == ASSUME SendsAreLists PROVE Spec => []DeliversToAddressees
<1>1. IInv /\ Delivery => DeliversToAddressees
  <2> SUFFICES ASSUME IInv, Delivery, pc \in Reading, todo = <<>>, NEW p \in Players, up[p]
               PROVE  given[p] = owed[p]
    BY DEF DeliversToAddressees
  <2>1. \A k \in DOMAIN todo : todo[k].msg.kind # "game"
    OBVIOUS
  <2>2. Pending(p) = 0
    BY <2>1, NothingPending DEF Pending
  <2>3. given[p] \in Nat
    BY DEF IInv, Types, HistoryTypes
  <2> QED
    BY <2>2, <2>3 DEF Delivery, Owing
<1>2. IInv /\ Delivery /\ [Next]_vars => Delivery'
  BY NextDelivery
<1> QED
  BY <1>1, <1>2, InitDelivery, AlwaysIInv, PTL DEF Spec
=============================================================================
