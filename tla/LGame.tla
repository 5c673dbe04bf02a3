-------------------------------- MODULE LGame --------------------------------
(***************************************************************************)
(* One run of liujdg.run from LGame::run to the end of main: the main      *)
(* thread obeys the judger's commands, passes messages between the judger  *)
(* (process 0) and the players (1 .. N), writes the result and ends every  *)
(* child.  Players are known to the judger by shuffled ids.                *)
(*                                                                         *)
(* A read of a child's stdout is a read of LineChannel: it takes the next  *)
(* line, or the empty line at end of file, or it times out and takes       *)
(* nothing.  A write is two steps: getStdin asks whether the child is      *)
(* running, then the bytes go to its pipe, which may be full or broken.    *)
(***************************************************************************)
EXTENDS Integers, Sequences, FiniteSets

CONSTANTS N,              \* number of players
          JudgerLines,    \* lines the judger may print (see Line)
          PlayerLines,    \* lines a player may print
          Garbage,        \* what the uninitialised `int id` may hold
          StdinCap,       \* capacity of a stdin pipe, in lines
          StdoutCap,      \* bound on the lines a child prints ahead
          MaxJudgerLines, \* bound on the lines the judger prints
          MaxPlayerLines, \* bound on the lines each player prints
          MaxExits        \* bound on the children that end, or close stdout, unasked

Players == 1 .. N
Procs   == 0 .. N

\* A line: its command word, the numbers that follow, and what stops the
\* stream there: the end of the line, a word, or a number no int can hold.
\* "plain" is a line that is not a command; numbers at its start are scores.
Line(cmd, nums, tail) == [cmd |-> cmd, nums |-> nums, tail |-> tail]
Lines == [cmd  : {"send", "continue", "win", "draw", "log", "unknown", "plain", "blank"},
          nums : Seq(Int), tail : {"end", "word", "huge"}]
BlankLine == Line("blank", <<>>, "end")

Huge   == 2147483647      \* what >> leaves in an int it cannot hold
Nobody == -1              \* no process: where at() throws

ASSUME GameAssumption ==
  /\ N \in Nat \ {0}
  /\ N < Huge
  /\ JudgerLines \subseteq Lines
  /\ PlayerLines \subseteq Lines
  /\ Garbage \subseteq Int
  /\ StdinCap \in Nat \ {0}
  /\ {StdoutCap, MaxJudgerLines, MaxPlayerLines, MaxExits} \subseteq Nat

VARIABLES
  peopleIndex,  \* the id each process is known by
  up,           \* the child is running
  stdin,        \* lines in its stdin pipe
  inbuf,        \* "#kill" is in the buffer of its stdin stream
  stdout,       \* lines it has printed that nobody has read
  open,         \* its stdout is open
  printed,      \* how many lines it has printed
  late,         \* a read that timed out is still waiting for its stdout
  pc,           \* where main is
  todo,         \* writes of the current step still to be made
  armed,        \* getStdin has found the child of the first write running
  playerList,   \* the numbers of the current command
  id,           \* the local variable of that name
  gameResult,   \* scores and winners by process, and comments
  error,        \* what was thrown, and the process it blames
  resultFile,   \* what result.json holds
  outcome,      \* how liujdg.run ended
  told,         \* history: the id each child was told
  owed,         \* history: messages the judger has addressed to each player
  given,        \* history: messages written to each player
  verdict       \* history: the winners and scores the judger announced

childVars   == <<up, stdin, stdout, open, printed>>
localVars   == <<playerList, id>>
historyVars == <<told, owed, given, verdict>>
vars == <<peopleIndex, childVars, inbuf, late, pc, todo, armed, localVars,
          gameResult, error, resultFile, outcome, historyVars>>

Write(to, kind, who) == [to |-> to, msg |-> [kind |-> kind, id |-> who, author |-> to]]
Reply(from, as)      == [to |-> 0, msg |-> [kind |-> "reply", id |-> as, author |-> from]]

Messages == [kind : {"n", "id", "folder", "game", "reply", "kill"},
             id : Int, author : Procs \cup {Nobody}]
Reading  == {"cmd", "message", "reply", "scores", "peek", "comment", "log"}
NoFile   == [scores |-> <<>>, winners |-> {}, comments |-> "none"]
NoError  == [why |-> "none", who |-> Nobody]

TypeOK ==
  /\ peopleIndex \in [Procs -> Procs]
  /\ up \in [Procs -> BOOLEAN]
  /\ stdin \in [Procs -> Seq(Messages)]
  /\ inbuf \in [Procs -> BOOLEAN]
  /\ stdout \in [Procs -> Seq(Lines)]
  /\ open \in [Procs -> BOOLEAN]
  /\ printed \in [Procs -> Nat]
  /\ late \in [Procs -> BOOLEAN]
  /\ pc \in Reading \cup {"file", "closing", "grace", "over"}
  /\ todo \in Seq([to : Procs \cup {Nobody}, msg : Messages])
  /\ armed \in BOOLEAN
  /\ playerList \in Seq(Int)
  /\ id \in Int
  /\ gameResult \in [scores : [Players -> Int], winners : SUBSET Procs,
                     comments : {"none", "No comments", "", "text"}]
  /\ error.who \in Procs \cup {Nobody}
  /\ resultFile = NoFile \/ resultFile = gameResult
  /\ outcome \in {"none", "exit0", "exit1", "sigpipe"}
  /\ told \in [Procs -> Procs]
  /\ owed \in [Players -> Nat]
  /\ given \in [Players -> Nat]
  /\ verdict \in [kind : {"none", "win", "draw"}, winners : SUBSET Procs, scores : Seq(Int)]

\* fromString: indexForJudger[ peopleIndex[i] ] = i.
\* Mutation: the map is not inverted.
IndexNotInverted == [k \in Procs |-> peopleIndex[k]]

indexForJudger == [k \in Procs |-> CHOOSE i \in Procs : peopleIndex[i] = k]

\* indexForJudger.at(k), or Nobody where it throws.
At(k) == IF k \in Procs THEN indexForJudger[k] ELSE Nobody

\* run: what is written to each child before the first command.
\* Mutation: a player is told its place in the json.
SetUpUnshuffled(i) ==
  IF i = 0 THEN <<Write(0, "n", N), Write(0, "folder", 0)>>
           ELSE <<Write(i, "n", N), Write(i, "id", i), Write(i, "folder", 0)>>

SetUp(i) ==
  IF i = 0 THEN <<Write(0, "n", N), Write(0, "folder", 0)>>
           ELSE <<Write(i, "n", N), Write(i, "id", peopleIndex[i]), Write(i, "folder", 0)>>

\* Two writes to the judger, then three to each player in turn.
SetUpAll ==
  [k \in 1 .. 3 * N + 2 |-> IF k < 3 THEN SetUp(0)[k] ELSE SetUp(k \div 3)[(k % 3) + 1]]

Init ==
  /\ peopleIndex \in {f \in [Procs -> Procs] :
                        f[0] = 0 /\ \A i, j \in Procs : f[i] = f[j] => i = j}
  /\ up = [i \in Procs |-> TRUE]
  /\ stdin = [i \in Procs |-> <<>>]
  /\ inbuf = [i \in Procs |-> FALSE]
  /\ stdout = [i \in Procs |-> <<>>]
  /\ open = [i \in Procs |-> TRUE]
  /\ printed = [i \in Procs |-> 0]
  /\ late = [i \in Procs |-> FALSE]
  /\ pc = "cmd"
  /\ todo = SetUpAll
  /\ armed = FALSE
  /\ playerList = <<>>
  /\ id = 0
  /\ gameResult = [scores |-> [p \in Players |-> 0], winners |-> {}, comments |-> "none"]
  /\ error = NoError
  /\ resultFile = NoFile
  /\ outcome = "none"
  /\ told = [i \in Procs |-> 0]
  /\ owed = [p \in Players |-> 0]
  /\ given = [p \in Players |-> 0]
  /\ verdict = [kind |-> "none", winners |-> {}, scores |-> <<>>]

-----------------------------------------------------------------------------
(* The children: arbitrary programs.                                       *)

ChildPrints(i, line) ==
  /\ up[i] /\ open[i]
  /\ Len(stdout[i]) < StdoutCap
  /\ printed[i] < IF i = 0 THEN MaxJudgerLines ELSE MaxPlayerLines
  /\ stdout' = [stdout EXCEPT ![i] = Append(@, line)]
  /\ printed' = [printed EXCEPT ![i] = @ + 1]
  /\ UNCHANGED <<up, stdin, open, inbuf>>

ChildReads(i) ==
  /\ up[i]
  /\ stdin[i] # <<>>
  /\ stdin' = [stdin EXCEPT ![i] = Tail(@)]
  /\ UNCHANGED <<up, stdout, open, printed, inbuf>>

MayEnd(i) == Cardinality({j \in Procs : ~open[j]} \cup {i}) <= MaxExits

ChildClosesStdout(i) ==
  /\ up[i] /\ open[i]
  /\ MayEnd(i)
  /\ open' = [open EXCEPT ![i] = FALSE]
  /\ UNCHANGED <<up, stdin, stdout, printed, inbuf>>

ChildExits(i) ==
  /\ up[i]
  /\ pc # "over"
  /\ MayEnd(i)
  /\ up' = [up EXCEPT ![i] = FALSE]
  /\ open' = [open EXCEPT ![i] = FALSE]
  /\ UNCHANGED <<stdin, stdout, printed, inbuf>>

Child(i) ==
  /\ \/ \E line \in IF i = 0 THEN JudgerLines ELSE PlayerLines : ChildPrints(i, line)
     \/ ChildReads(i)
     \/ ChildClosesStdout(i)
     \/ ChildExits(i)
  /\ UNCHANGED <<peopleIndex, late, pc, todo, armed, localVars, gameResult, error,
                 resultFile, outcome, historyVars>>

-----------------------------------------------------------------------------
(* Writing.                                                                *)

Throw(why, who) ==
  /\ error' = [why |-> why, who |-> who]
  /\ pc' = "closing"

Killed ==
  /\ outcome' = "sigpipe"
  /\ pc' = "over"

First == Head(todo)

\* Mutation: getStdin waits for the child to run.
PickStreamWaits ==
  /\ pc # "over"
  /\ todo # <<>>
  /\ ~armed
  /\ First.to # Nobody
  /\ up[First.to]
  /\ armed' = TRUE
  /\ UNCHANGED <<peopleIndex, childVars, inbuf, late, pc, todo, localVars, gameResult, error,
                 resultFile, outcome, historyVars>>

\* The check in getStdin: a child that is not running is written to devNull.
PickStream ==
  /\ pc # "over"
  /\ todo # <<>>
  /\ ~armed
  /\ First.to # Nobody
  /\ IF up[First.to]
     THEN armed' = TRUE /\ UNCHANGED todo
     ELSE todo' = Tail(todo) /\ UNCHANGED armed
  /\ UNCHANGED <<peopleIndex, childVars, inbuf, late, pc, localVars, gameResult, error,
                 resultFile, outcome, historyVars>>

\* indexForJudger.at() throws after the players before it were written to.
NoSuchPlayer ==
  /\ todo # <<>>
  /\ First.to = Nobody
  /\ todo' = <<>>
  /\ Throw("range", Nobody)
  /\ UNCHANGED <<peopleIndex, childVars, inbuf, late, armed, localVars, gameResult,
                 resultFile, outcome, historyVars>>

WriteLine ==
  /\ armed
  /\ up[First.to]
  /\ Len(stdin[First.to]) < StdinCap
  /\ stdin' = [stdin EXCEPT ![First.to] = Append(@, First.msg)]
  /\ told' = IF First.msg.kind = "id" THEN [told EXCEPT ![First.to] = First.msg.id] ELSE told
  /\ given' = IF First.msg.kind = "game" /\ First.to # 0
              THEN [given EXCEPT ![First.to] = @ + 1] ELSE given
  /\ todo' = Tail(todo)
  /\ armed' = FALSE
  /\ UNCHANGED <<peopleIndex, up, stdout, open, printed, inbuf, late, pc, localVars,
                 gameResult, error, resultFile, outcome, owed, verdict>>

\* The child ended after the check: nothing handles SIGPIPE.
WriteBreaks ==
  /\ armed
  /\ ~up[First.to]
  /\ Killed
  /\ armed' = FALSE
  /\ UNCHANGED <<peopleIndex, childVars, inbuf, late, todo, localVars, gameResult, error,
                 resultFile, historyVars>>

-----------------------------------------------------------------------------
(* Reading: nextStep, one action per line read.                            *)

AtRest(where) ==
  /\ pc = where
  /\ todo = <<>>

\* A timed read of process i returns the line.
Gets(i, line) ==
  \/ /\ stdout[i] # <<>>
     /\ line = Head(stdout[i])
     /\ stdout' = [stdout EXCEPT ![i] = Tail(@)]
  \/ /\ stdout[i] = <<>>
     /\ ~open[i]
     /\ line = BlankLine
     /\ UNCHANGED stdout

\* A timed read gives up.  (One that gives up just as a line arrives is one that
\* gave up just before: the child prints when it likes.)  Its thread stays.
TimesOut(i) ==
  /\ stdout[i] = <<>>
  /\ open[i]
  /\ late' = [late EXCEPT ![i] = TRUE]

unchangedByRead == <<peopleIndex, up, stdin, open, printed, inbuf, armed, resultFile, outcome>>

\* Mutation: a judger that times out is asked again.
JudgerTimesOutRetried ==
  /\ \E where \in {"cmd", "message", "scores", "log"} : AtRest(where)
  /\ TimesOut(0)
  /\ UNCHANGED <<unchangedByRead, stdout, todo, pc, error, localVars, gameResult, historyVars>>

JudgerTimesOut ==
  /\ \E where \in {"cmd", "message", "scores", "log"} : AtRest(where)
  /\ TimesOut(0)
  /\ Throw("judger time limit", Nobody)
  /\ UNCHANGED <<unchangedByRead, stdout, todo, localVars, gameResult, historyVars>>

\* The value `id` is left with when the whole list has been read.
LastId(line, garbage) ==
  CASE line.tail = "word" -> 0
    [] line.tail = "huge" -> Huge
    [] OTHER -> IF line.nums = <<>> THEN garbage ELSE line.nums[Len(line.nums)]

\* The value one >> leaves in `id`.
FirstId(line, garbage) ==
  IF line.nums # <<>> THEN line.nums[1] ELSE LastId(line, garbage)

\* The part that every command shares.
Command(line) ==
  /\ AtRest("cmd")
  /\ Gets(0, line)
  /\ UNCHANGED <<unchangedByRead, late, todo, owed, given, told>>

\* The message is the next line; who gets it depends on the last `id`.
Send(line) ==
  /\ Command(line)
  /\ line.cmd = "send"
  /\ pc' = "message"
  /\ playerList' = line.nums
  /\ \E g \in Garbage : id' = LastId(line, g)
  /\ UNCHANGED <<gameResult, error, verdict>>

Continue(line) ==
  /\ Command(line)
  /\ line.cmd = "continue"
  /\ \E g \in Garbage : id' = FirstId(line, g)
  /\ IF At(id') = Nobody
     THEN Throw("range", Nobody)
     ELSE pc' = "reply" /\ UNCHANGED error
  /\ UNCHANGED <<playerList, gameResult, verdict>>

\* The winners are marked one by one until at() throws; what was marked before
\* that is never read again.
Win(line) ==
  /\ Command(line)
  /\ line.cmd = "win"
  /\ LET ids == {line.nums[k] : k \in DOMAIN line.nums}
     IN  IF ids \subseteq Procs
         THEN /\ gameResult' = [gameResult EXCEPT !.winners = {At(k) : k \in ids}]
              /\ verdict' = [verdict EXCEPT !.kind = "win", !.winners = ids]
              /\ pc' = "scores"
              /\ UNCHANGED error
         ELSE Throw("range", Nobody) /\ UNCHANGED <<gameResult, verdict>>
  /\ UNCHANGED localVars

Draw(line) ==
  /\ Command(line)
  /\ line.cmd = "draw"
  /\ verdict' = [verdict EXCEPT !.kind = "draw"]
  /\ pc' = "scores"
  /\ UNCHANGED <<localVars, gameResult, error>>

Log(line) ==
  /\ Command(line)
  /\ line.cmd = "log"
  /\ pc' = "log"
  /\ UNCHANGED <<localVars, gameResult, error, verdict>>

\* Any other line is skipped; an empty one ends the game if the judger has ended.
Skip(line) ==
  /\ Command(line)
  /\ line.cmd \in {"unknown", "plain", "blank"}
  /\ IF line.cmd = "blank" /\ ~up[0]
     THEN Throw("judger gone", Nobody)
     ELSE UNCHANGED <<pc, error>>
  /\ UNCHANGED <<localVars, gameResult, verdict>>

\* Who is written to, in order.
Addressees ==
  IF id = 0 THEN [i \in Players |-> i]
            ELSE [k \in DOMAIN playerList |-> At(playerList[k])]

\* How many copies of the message the judger asked for process p to have.
Copies(p) ==
  IF playerList = <<0>> THEN 1
  ELSE Cardinality({k \in DOMAIN playerList : playerList[k] = told[p]})

SendMessage(line) ==
  /\ AtRest("message")
  /\ Gets(0, line)
  /\ IF id = 0 /\ Len(playerList) # 1
     THEN Throw("send syntax", Nobody) /\ UNCHANGED <<todo, owed>>
     ELSE /\ todo' = [k \in DOMAIN Addressees |-> Write(Addressees[k], "game", 0)]
          /\ owed' = [p \in Players |-> owed[p] + Copies(p)]
          /\ pc' = "cmd"
          /\ UNCHANGED error
  /\ UNCHANGED <<unchangedByRead, late, localVars, gameResult, told, given, verdict>>

\* Mutation: the judger is told the player's place in the json.
ReplyTagUnshuffled == At(id)

ReplyTag == id

PlayerAnswers(line) ==
  /\ AtRest("reply")
  /\ Gets(At(id), line)
  /\ IF line.cmd = "blank"
     THEN Throw("no output", At(id)) /\ UNCHANGED todo
     ELSE todo' = <<Reply(At(id), ReplyTag)>> /\ pc' = "cmd" /\ UNCHANGED error
  /\ UNCHANGED <<unchangedByRead, late, localVars, gameResult, historyVars>>

PlayerTimesOut ==
  /\ AtRest("reply")
  /\ TimesOut(At(id))
  /\ Throw("time limit", At(id))
  /\ UNCHANGED <<unchangedByRead, stdout, todo, localVars, gameResult, historyVars>>

LogLine(line) ==
  /\ AtRest("log")
  /\ Gets(0, line)
  /\ pc' = "cmd"
  /\ UNCHANGED <<unchangedByRead, late, todo, localVars, gameResult, error, historyVars>>

\* The numbers a line of scores starts with.
ScoresOf(line) == IF line.cmd = "plain" THEN line.nums ELSE <<>>

\* Mutation: the scores are stored in the order of the judger's ids.
SetScoresUnshuffled(scores) ==
  gameResult' = [gameResult EXCEPT !.scores = [p \in Players |-> scores[p]]]

\* Mutation: the slot of the judger is forgotten.
SetScoresFromZero(scores) ==
  gameResult' = [gameResult EXCEPT !.scores = [p \in 0 .. N - 1 |-> scores[p + 1]]]

\* playersResults[ indexForJudger.at(i + 1) ].scores = playerList[i]
SetScores(scores) ==
  gameResult' = [gameResult EXCEPT !.scores =
                   [p \in Players |-> scores[CHOOSE k \in Players : At(k) = p]]]

Scores(line) ==
  /\ AtRest("scores")
  /\ Gets(0, line)
  /\ IF Len(ScoresOf(line)) = N
     THEN /\ SetScores(ScoresOf(line))
          /\ verdict' = [verdict EXCEPT !.scores = ScoresOf(line)]
          /\ pc' = "peek"
          /\ UNCHANGED error
     ELSE Throw("not every player scored", Nobody) /\ UNCHANGED <<gameResult, verdict>>
  /\ UNCHANGED <<unchangedByRead, late, todo, localVars, told, owed, given>>

\* hasNewMessage says yes: the read that follows cannot time out.
PeekYes ==
  /\ AtRest("peek")
  /\ stdout[0] # <<>> \/ ~open[0]
  /\ pc' = "comment"
  /\ UNCHANGED <<unchangedByRead, stdout, late, todo, localVars, gameResult, error, historyVars>>

PeekNo ==
  /\ AtRest("peek")
  /\ TimesOut(0)
  /\ gameResult' = [gameResult EXCEPT !.comments =
                      IF verdict.kind = "win" THEN "No comments" ELSE ""]
  /\ pc' = "file"
  /\ UNCHANGED <<unchangedByRead, stdout, todo, localVars, error, historyVars>>

Comment(line) ==
  /\ AtRest("comment")
  /\ Gets(0, line)
  /\ gameResult' = [gameResult EXCEPT !.comments = IF line.cmd = "blank" THEN "" ELSE "text"]
  /\ pc' = "file"
  /\ UNCHANGED <<unchangedByRead, late, todo, localVars, error, historyVars>>

-----------------------------------------------------------------------------
(* The end of main.                                                        *)

WriteResult ==
  /\ pc = "file"
  /\ resultFile' = gameResult
  /\ pc' = "closing"
  /\ UNCHANGED <<peopleIndex, childVars, inbuf, late, todo, armed, localVars, gameResult,
                 error, outcome, historyVars>>

\* Mutation: a result that cannot be written does not count as an error.
ResultNotWrittenIgnored ==
  /\ pc = "file"
  /\ pc' = "closing"
  /\ UNCHANGED <<peopleIndex, childVars, inbuf, late, todo, armed, localVars, gameResult,
                 error, resultFile, outcome, historyVars>>

ResultNotWritten ==
  /\ pc = "file"
  /\ Throw("file", Nobody)
  /\ UNCHANGED <<peopleIndex, childVars, inbuf, late, todo, armed, localVars, gameResult,
                 resultFile, outcome, historyVars>>

\* wait: writeTo checks that the child is running and does not flush.
SayKill ==
  /\ pc = "closing"
  /\ inbuf' = up
  /\ pc' = "grace"
  /\ UNCHANGED <<peopleIndex, childVars, late, todo, armed, localVars, gameResult, error,
                 resultFile, outcome, historyVars>>

\* stdout_ is tied to stdin: a read left over from a time-out flushes the buffer
\* when the child prints, which breaks if the child has ended since.
LateReaderFlushes(i) ==
  /\ pc = "grace"
  /\ late[i] /\ inbuf[i]
  /\ stdout[i] # <<>>
  /\ late' = [late EXCEPT ![i] = FALSE]
  /\ stdout' = [stdout EXCEPT ![i] = Tail(@)]
  /\ \/ /\ up[i]
        /\ Len(stdin[i]) < StdinCap
        /\ stdin' = [stdin EXCEPT ![i] = Append(@, [kind |-> "kill", id |-> 0, author |-> Nobody])]
        /\ inbuf' = [inbuf EXCEPT ![i] = FALSE]
        /\ UNCHANGED <<pc, outcome>>
     \/ /\ ~up[i]
        /\ Killed
        /\ UNCHANGED <<stdin, inbuf>>
  /\ UNCHANGED <<peopleIndex, up, open, printed, todo, armed, localVars, gameResult, error,
                 resultFile, historyVars>>

\* Mutation: wait has no time limit.
KillAllWhenDown ==
  /\ pc = "grace"
  /\ \A i \in Procs : ~up[i]
  /\ pc' = "over"
  /\ outcome' = IF error = NoError THEN "exit0" ELSE "exit1"
  /\ UNCHANGED <<peopleIndex, childVars, inbuf, late, todo, armed, localVars, gameResult,
                 error, resultFile, historyVars>>

\* The time limit is over, or nobody is running: kill, and return from main.
KillAll ==
  /\ pc = "grace"
  /\ pc' = "over"
  /\ up' = [i \in Procs |-> FALSE]
  /\ open' = [i \in Procs |-> FALSE]
  /\ inbuf' = [i \in Procs |-> FALSE]
  /\ outcome' = IF error = NoError THEN "exit0" ELSE "exit1"
  /\ UNCHANGED <<peopleIndex, stdin, stdout, printed, late, todo, armed, localVars,
                 gameResult, error, resultFile, historyVars>>

-----------------------------------------------------------------------------
NextLine ==
  {Head(stdout[i]) : i \in {j \in Procs : stdout[j] # <<>>}} \cup {BlankLine}

Reads(line) ==
  \/ Send(line) \/ Continue(line) \/ Win(line) \/ Draw(line) \/ Log(line) \/ Skip(line)
  \/ SendMessage(line) \/ PlayerAnswers(line) \/ LogLine(line)
  \/ Scores(line) \/ Comment(line)

Writes == PickStream \/ NoSuchPlayer \/ WriteLine \/ WriteBreaks

Main ==
  \/ Writes
  \/ \E line \in NextLine : Reads(line)
  \/ JudgerTimesOut \/ PlayerTimesOut
  \/ PeekYes \/ PeekNo
  \/ WriteResult \/ ResultNotWritten
  \/ SayKill \/ KillAll

Next ==
  \/ Main
  \/ \E i \in Procs : Child(i) \/ LateReaderFlushes(i)

Spec == Init /\ [][Next]_vars

\* Main goes on whenever it can; timed reads and the final wait do end.
FairSpec == Spec /\ WF_vars(Main)

\* Moreover every child that runs reads what it is sent.
ReadingSpec == FairSpec /\ \A i \in Procs : WF_vars(ChildReads(i) /\ Child(i))

-----------------------------------------------------------------------------
(* Properties.                                                             *)

\* #send: when the judger is asked for its next line, each player that is running
\* has been written exactly the messages addressed to the id it was told, across
\* the shuffle, lists that name a player twice, and lists that name none.
DeliversToAddressees ==
  pc \in Reading /\ todo = <<>> =>
    \A p \in Players : up[p] => given[p] = owed[p]

\* #continue: what the judger receives as `id message` was printed by the player
\* that was told that id, and the player blamed for a bad answer is the one asked.
AnswersAreAttributed ==
  /\ \A k \in DOMAIN stdin[0] : LET m == stdin[0][k] IN
       m.kind = "reply" /\ told[m.author] # 0 => m.id = told[m.author]
  /\ error.who \in Players /\ told[error.who] # 0 => id = told[error.who]

\* #win and #draw: result.json gives each player the score and the verdict that
\* the judger announced for the id that player was told.
ResultIsTheJudgers ==
  resultFile # NoFile =>
    \A p \in Players : told[p] # 0 =>
      /\ resultFile.scores[p] = verdict.scores[told[p]]
      /\ p \in resultFile.winners <=> told[p] \in verdict.winners

\* liujdg.run returns 0 only with a result on disk and nothing thrown, 1 only
\* after an error, and returns only when no child is running.
ExitTellsOutcome ==
  /\ outcome = "exit0" => resultFile # NoFile /\ error = NoError
  /\ outcome = "exit1" => error # NoError /\ resultFile = NoFile
  /\ outcome \in {"exit0", "exit1"} => \A i \in Procs : ~up[i]

\* A step of the game that writes to the children ends, if they read.
StepEnds == todo # <<>> ~> todo = <<>> \/ pc = "over"

\* A judger that falls silent with its stdout open does not hold the game up.
SilentGameEnds == <>[](stdout[0] = <<>> /\ open[0]) => <>(pc = "over")

\* Once the game is closing, liujdg.run returns.
ClosingEnds == pc = "closing" ~> pc = "over"

\* doc/run/README.md: main ends every child before it exits.
NoChildOutlivesRun == pc = "over" => \A i \in Procs : ~up[i]

\* doc/run/README.md: "#kill" is sent to every child before it is killed.
KillReachesChildren ==
  [][outcome' \in {"exit0", "exit1"} => \A i \in Procs : ~inbuf[i]]_vars
=============================================================================
