-------------------------------- MODULE Match --------------------------------
(***************************************************************************)
(* A match of two players under a judger, as the programs of examples/ see *)
(* it: liujdg.run obeys what the judger prints, line by line, and hands it *)
(* the lines it asks players for.  The judger does not read lines: for     *)
(* cin >> id >> x >> y its stdin is one stream of tokens, so that a line   *)
(* may be half an answer, or several.  The ids are the judger's; that they *)
(* reach the right program is the business of module LGame, which models   *)
(* this relay in full.  A step of a judger or a player is what it does     *)
(* between two reads of its stdin; the modules that extend this one add    *)
(* those.                                                                  *)
(***************************************************************************)
EXTENDS Integers, Sequences, FiniteSets

CONSTANTS
  Numbers,    \* the numbers a stranger may print
  Word,       \* a token that is no number
  WildLines   \* the lines of a player that may put several answers in one

Tokens == Int \cup {Word}

ASSUME TokensAssumption ==
  /\ Numbers \subseteq Int
  /\ Word \notin Int
  /\ WildLines \subseteq Seq(Tokens) \ {<<>>}

Players == 1 .. 2
Judger  == 0
Other(p) == 3 - p

VARIABLES
  jout,     \* the commands the judger has printed, not yet read
  jin,      \* the tokens in its stdin
  pin,      \* the messages in each player's stdin
  pout,     \* the lines each player has printed, not yet read: sequences of tokens
  asked,    \* the player whose answer liujdg.run waits for, or 0
  up,       \* the programs that run
  stuck,    \* those that run and will never print again
  result    \* how the match ended

matchVars == <<jout, jin, pin, pout, asked, up, stuck, result>>

Send(p, msg)  == [cmd |-> "send", to |-> p, msg |-> msg]
Continue(p)   == [cmd |-> "continue", to |-> p, msg |-> <<>>]
Log           == [cmd |-> "log", to |-> Judger, msg |-> <<>>]
Blank         == [cmd |-> "blank", to |-> Judger, msg |-> <<>>]
Win(p)        == [cmd |-> "win", to |-> p, msg |-> [q \in Players |-> IF q = p THEN 1 ELSE 0]]
Draw          == [cmd |-> "draw", to |-> Judger, msg |-> [q \in Players |-> 0]]

NoResult == [kind |-> "none", who |-> Judger, scores |-> <<>>]
Commands == {"send", "continue", "log", "blank", "win", "draw"}

MatchTypeOK ==
  /\ \A k \in DOMAIN jout : jout[k].cmd \in Commands /\ jout[k].to \in 0 .. 2
  /\ \A k \in DOMAIN jin : jin[k] \in Tokens
  /\ DOMAIN pin = Players /\ DOMAIN pout = Players
  /\ asked \in 0 .. 2
  /\ up \subseteq 0 .. 2
  /\ stuck \subseteq up
  /\ result.kind \in {"none", "win", "draw", "error"} /\ result.who \in 0 .. 2

\* The judger has printed its first lines.
MatchInit(lines) ==
  /\ jout = lines
  /\ jin = <<>>
  /\ pin = [p \in Players |-> <<>>]
  /\ pout = [p \in Players |-> <<>>]
  /\ asked = 0
  /\ up = 0 .. 2
  /\ stuck = {}
  /\ result = NoResult

Playing == result = NoResult

-----------------------------------------------------------------------------
(* liujdg.run.                                                             *)

Waits == Playing /\ asked = 0

NextCommand(cmd) ==
  /\ Waits
  /\ jout # <<>>
  /\ Head(jout).cmd = cmd
  /\ jout' = Tail(jout)
  /\ UNCHANGED <<jin, pout, up, stuck>>

\* A message to a program that has ended goes nowhere.
ObeySend ==
  /\ NextCommand("send")
  /\ LET c == Head(jout) IN
     pin' = IF c.to \in up THEN [pin EXCEPT ![c.to] = Append(@, c.msg)] ELSE pin
  /\ UNCHANGED <<asked, result>>

ObeyContinue ==
  /\ NextCommand("continue")
  /\ asked' = Head(jout).to
  /\ UNCHANGED <<pin, result>>

Skip ==
  /\ NextCommand("log") \/ (NextCommand("blank") /\ Judger \in up)
  /\ UNCHANGED <<pin, asked, result>>

Verdict ==
  /\ NextCommand("win") \/ NextCommand("draw")
  /\ LET c == Head(jout) IN
     result' = [kind |-> c.cmd, who |-> c.to, scores |-> c.msg]
  /\ UNCHANGED <<pin, asked>>

\* Mutation: the answer goes under the id of the other player.
PassAnswerAsOther ==
  /\ Playing
  /\ asked # 0
  /\ pout[asked] # <<>>
  /\ jin' = IF Judger \in up THEN jin \o <<Other(asked)>> \o Head(pout[asked]) ELSE jin
  /\ pout' = [pout EXCEPT ![asked] = Tail(@)]
  /\ asked' = 0
  /\ UNCHANGED <<jout, pin, up, stuck, result>>

\* The whole line, after the player's id; to a judger that has ended it goes nowhere.
PassAnswer ==
  /\ Playing
  /\ asked # 0
  /\ pout[asked] # <<>>
  /\ jin' = IF Judger \in up THEN jin \o <<asked>> \o Head(pout[asked]) ELSE jin
  /\ pout' = [pout EXCEPT ![asked] = Tail(@)]
  /\ asked' = 0
  /\ UNCHANGED <<jout, pin, up, stuck, result>>

\* The player has ended, spins, or waits for a message itself.  A program that has
\* something to say is taken to say it within the limit.
PlayerFails(ready) ==
  /\ Playing
  /\ asked # 0
  /\ pout[asked] = <<>>
  /\ asked \notin up \ stuck \/ (asked \in ready /\ pin[asked] = <<>>)
  /\ result' = [NoResult EXCEPT !.kind = "error", !.who = asked]
  /\ UNCHANGED <<jout, jin, pin, pout, asked, up, stuck>>

\* What the judger's next read comes upon: three numbers are an answer, and a word before
\* the third fails it.  With less it waits.
NextTokens == {jin[k] : k \in DOMAIN jin \cap (1 .. 3)}
Garbled    == Word \in NextTokens
Complete   == Len(jin) >= 3 /\ ~Garbled

\* The judger has ended without a verdict, or waits for what nobody was asked for.
JudgerFails ==
  /\ Waits
  /\ jout = <<>>
  /\ Judger \in up => ~Complete /\ ~Garbled
  /\ result' = [NoResult EXCEPT !.kind = "error"]
  /\ UNCHANGED <<jout, jin, pin, pout, asked, up, stuck>>

\* ready: the players that are past what they do before they read a message.
Relay(ready) ==
  \/ ObeySend \/ ObeyContinue \/ Skip \/ Verdict
  \/ PassAnswer \/ PlayerFails(ready) \/ JudgerFails

-----------------------------------------------------------------------------
(* What the programs do with their streams.                                *)

\* The judger takes an answer, and leaves what follows it in the stream.
JudgerTakes ==
  /\ Judger \in up
  /\ Complete
  /\ jin' = SubSeq(jin, 4, Len(jin))

\* A word has failed the stream for good.
JudgerLosesInput ==
  /\ Judger \in up
  /\ Garbled
  /\ jin' = <<>>

\* It prints; its last lines are a verdict.
JudgerPrints(lines) ==
  /\ jout' = jout \o lines
  /\ up' = IF lines[Len(lines)].cmd \in {"win", "draw"} THEN up \ {Judger} ELSE up
  /\ UNCHANGED <<pin, pout, asked, stuck, result>>

Runs(i) == i \in up \ stuck

PlayerReads(p) == Runs(p) /\ pin[p] # <<>> /\ pin' = [pin EXCEPT ![p] = Tail(@)]

PlayerPrints(p, line) == pout' = [pout EXCEPT ![p] = Append(@, line)]

Stays    == UNCHANGED <<up, stuck>>
Spins(p) == stuck' = stuck \cup {p} /\ UNCHANGED up
Exits(p) == up' = up \ {p} /\ UNCHANGED stuck

\* A player that gives one answer a line prints two tokens, or the first of them only.
OneAnswer == UNION {[1 .. n -> Numbers \cup {Word}] : n \in 1 .. 2}
LinesOf(type) == IF type = "wild" THEN WildLines ELSE OneAnswer

\* What a program that is nobody's may do when it has something to react to.
Whatever(p, lines) ==
  \/ (\E line \in lines : PlayerPrints(p, line)) /\ Stays
  \/ UNCHANGED pout /\ (Stays \/ Spins(p) \/ Exits(p))
=============================================================================
