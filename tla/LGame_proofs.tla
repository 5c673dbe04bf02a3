----------------------------- MODULE LGame_proofs -----------------------------
(***************************************************************************)
(* Proofs about LGame, for every number of players, every judger and every *)
(* player, whatever they print and whenever they end.                      *)
(*                                                                         *)
(* None of the properties is inductive.  What they need is said by three   *)
(* invariants: Stage (which step of main may still throw, and what has     *)
(* been decided by then), Identity (every id on its way is that of the     *)
(* process it is about) and Results (the result keeps up with what the     *)
(* judger announces, across the shuffle).                                  *)
(***************************************************************************)
EXTENDS LGame, FiniteSetTheorems, TLAPS

USE GameAssumption

Reasons == {"range", "judger time limit", "judger gone", "send syntax", "no output",
            "time limit", "not every player scored", "file"}
Errors == [why : Reasons \cup {"none"}, who : Procs \cup {Nobody}]

Shuffled ==
  /\ peopleIndex \in [Procs -> Procs]
  /\ peopleIndex[0] = 0
  /\ \A i, j \in Procs : peopleIndex[i] = peopleIndex[j] => i = j

-----------------------------------------------------------------------------
(* The shuffle.                                                            *)

LEMMA ProcsFacts == 0 \in Procs /\ Players \subseteq Procs /\ Nobody \notin Procs
                    /\ Procs \subseteq Int /\ Nobody \in Int /\ Huge \in Int
  BY DEF Procs, Players, Nobody, Huge

\* An injective index names every process.
LEMMA EveryIdIsKnown ==
  ASSUME Shuffled
  PROVE  \A k \in Procs : \E i \in Procs : peopleIndex[i] = k
<1>1. IsFiniteSet(Procs)
  BY FS_Interval DEF Procs
<1>2. peopleIndex \in Injection(Procs, Procs)
  BY DEF Shuffled, Injection, IsInjective
<1>3. peopleIndex \in Surjection(Procs, Procs)
  BY <1>1, <1>2, FS_Injection
<1> QED
  BY <1>3 DEF Surjection

LEMMA AtIs ==
  ASSUME Shuffled, NEW k \in Int
  PROVE  /\ At(k) \in Procs \cup {Nobody}
         /\ At(k) \in Procs <=> k \in Procs
         /\ \A i \in Procs : At(k) = i <=> peopleIndex[i] = k
<1>1. CASE k \in Procs
  <2>1. PICK i \in Procs : peopleIndex[i] = k
    BY <1>1, EveryIdIsKnown
  <2>2. At(k) = CHOOSE j \in Procs : peopleIndex[j] = k
    BY <1>1 DEF At, indexForJudger
  <2>3. At(k) \in Procs /\ peopleIndex[At(k)] = k
    BY <2>1, <2>2
  <2> QED
    BY <1>1, <2>3 DEF Shuffled
<1>2. CASE k \notin Procs
  <2>1. At(k) = Nobody
    BY <1>2 DEF At
  <2> QED
    BY <1>2, <2>1, ProcsFacts DEF Shuffled
<1> QED
  BY <1>1, <1>2

-----------------------------------------------------------------------------
(* What is read and written has its type.                                  *)

LEMMA BlankType == BlankLine \in Lines
  BY DEF BlankLine, Line, Lines

LEMMA IdTypes ==
  ASSUME NEW line \in Lines, NEW g \in Garbage
  PROVE  LastId(line, g) \in Int /\ FirstId(line, g) \in Int
<1>1. line.nums \in Seq(Int) /\ g \in Int
  BY DEF Lines
<1>2. line.nums # <<>> => line.nums[Len(line.nums)] \in Int /\ line.nums[1] \in Int
  BY <1>1
<1>3. LastId(line, g) \in Int
  BY <1>1, <1>2, ProcsFacts DEF LastId
<1> QED
  BY <1>2, <1>3 DEF FirstId

LEMMA WriteType ==
  ASSUME NEW to \in Procs \cup {Nobody}, NEW kind \in {"n", "id", "folder", "game"},
         NEW who \in Int
  PROVE  Write(to, kind, who) \in [to : Procs \cup {Nobody}, msg : Messages]
  BY DEF Write, Messages

LEMMA ReplyType ==
  ASSUME NEW from \in Procs, NEW as \in Int
  PROVE  Reply(from, as) \in [to : Procs \cup {Nobody}, msg : Messages]
  BY ProcsFacts DEF Reply, Messages

-----------------------------------------------------------------------------
(* The inductive invariants.                                               *)

\* What main may still throw, and what has been decided.
Stage ==
  /\ todo # <<>> => pc = "cmd" \/ (pc = "over" /\ ~armed /\ First.to # Nobody)
  /\ armed => pc = "cmd" /\ todo # <<>> /\ First.to # Nobody
  /\ pc = "reply" => id \in Procs
  /\ pc \notin {"closing", "grace", "over"} => error = NoError /\ resultFile = NoFile
  /\ pc # "over" => outcome = "none"
  /\ pc \in {"closing", "grace"} => (error = NoError <=> resultFile # NoFile)
  /\ outcome \in {"exit0", "exit1"} =>
       /\ error = NoError <=> resultFile # NoFile
       /\ error = NoError <=> outcome = "exit0"
       /\ \A i \in Procs : ~up[i]

\* A message that carries the id of a process says whose it is.
Genuine(index, msg) ==
  msg.kind \in {"id", "reply"} => msg.author \in Procs /\ msg.id = index[msg.author]
AllGenuine(index, messages) == \A k \in DOMAIN messages : Genuine(index, messages[k])
Addressed(index, writes) ==
  \A k \in DOMAIN writes :
    /\ Genuine(index, writes[k].msg)
    /\ writes[k].msg.kind = "id" => writes[k].to = writes[k].msg.author

Identity ==
  /\ \A i \in Procs : told[i] \in {0, peopleIndex[i]}
  /\ Addressed(peopleIndex, todo)
  /\ AllGenuine(peopleIndex, stdin[0])
  /\ error.who # Nobody => error.who \in Procs /\ peopleIndex[error.who] = id

Results ==
  /\ \A p \in Procs : p \in gameResult.winners <=> peopleIndex[p] \in verdict.winners
  /\ pc \in {"peek", "comment", "file"} \/ resultFile # NoFile =>
       \A p \in Players : gameResult.scores[p] = verdict.scores[peopleIndex[p]]

-----------------------------------------------------------------------------
(* Types.                                                                  *)

Writing == [to : Procs \cup {Nobody}, msg : Messages]

ChildTypes ==
  /\ up \in [Procs -> BOOLEAN]
  /\ stdin \in [Procs -> Seq(Messages)]
  /\ inbuf \in [Procs -> BOOLEAN]
  /\ stdout \in [Procs -> Seq(Lines)]
  /\ open \in [Procs -> BOOLEAN]
  /\ printed \in [Procs -> Nat]
  /\ late \in [Procs -> BOOLEAN]

MainTypes ==
  /\ peopleIndex \in [Procs -> Procs]
  /\ pc \in Reading \cup {"file", "closing", "grace", "over"}
  /\ armed \in BOOLEAN
  /\ playerList \in Seq(Int)
  /\ id \in Int

TodoType == todo \in Seq(Writing)

ResultTypes ==
  /\ gameResult \in [scores : [Players -> Int], winners : SUBSET Procs,
                     comments : {"none", "No comments", "", "text"}]
  /\ error \in Errors
  /\ resultFile = NoFile \/ resultFile = gameResult
  /\ outcome \in {"none", "exit0", "exit1", "sigpipe"}

HistoryTypes ==
  /\ told \in [Procs -> Procs]
  /\ owed \in [Players -> Nat]
  /\ given \in [Players -> Nat]
  /\ verdict \in [kind : {"none", "win", "draw"}, winners : SUBSET Procs, scores : Seq(Int)]

Types == ChildTypes /\ MainTypes /\ TodoType /\ ResultTypes /\ HistoryTypes

LEMMA TypesAreTyped == Types <=> TypeOK /\ error \in Errors
<1>1. Types => TypeOK /\ error \in Errors
  BY DEF Types, ChildTypes, MainTypes, TodoType, ResultTypes, HistoryTypes, Writing, TypeOK, Errors
<1>2. TypeOK /\ error \in Errors => Types
  BY DEF Types, ChildTypes, MainTypes, TodoType, ResultTypes, HistoryTypes, Writing, TypeOK, Errors
<1> QED
  BY <1>1, <1>2

LEMMA Ends ==
  ASSUME NEW S, NEW s \in Seq(S), s # <<>>
  PROVE  /\ Head(s) \in S /\ Tail(s) \in Seq(S) /\ Head(s) = s[1]
         /\ Len(s) \in Nat \ {0} /\ DOMAIN s = 1 .. Len(s)
         /\ DOMAIN Tail(s) = 1 .. Len(s) - 1 /\ Len(Tail(s)) = Len(s) - 1
         /\ \A k \in 1 .. Len(s) - 1 : Tail(s)[k] = s[k + 1] /\ k + 1 \in DOMAIN s
  OBVIOUS

LEMMA Longer ==
  ASSUME NEW S, NEW s \in Seq(S), NEW e \in S
  PROVE  /\ Append(s, e) \in Seq(S)
         /\ DOMAIN s = 1 .. Len(s) /\ DOMAIN Append(s, e) = 1 .. Len(s) + 1
         /\ Append(s, e)[Len(s) + 1] = e
         /\ \A k \in 1 .. Len(s) : Append(s, e)[k] = s[k]
  OBVIOUS

LEMMA Updated ==
  ASSUME NEW D, NEW S, NEW f \in [D -> S], NEW d \in D, NEW v \in S
  PROVE  /\ [f EXCEPT ![d] = v] \in [D -> S]
         /\ [f EXCEPT ![d] = v][d] = v
         /\ \A e \in D \ {d} : [f EXCEPT ![d] = v][e] = f[e]
  OBVIOUS

LEMMA GetsType ==
  ASSUME ChildTypes, NEW i \in Procs, NEW line, Gets(i, line)
  PROVE  /\ line \in Lines
         /\ stdout' \in [Procs -> Seq(Lines)]
<1>1. stdout \in [Procs -> Seq(Lines)] /\ stdout[i] \in Seq(Lines)
  BY DEF ChildTypes
<1>2. CASE stdout[i] # <<>> /\ line = Head(stdout[i])
           /\ stdout' = [stdout EXCEPT ![i] = Tail(@)]
  <2>1. Head(stdout[i]) \in Lines /\ Tail(stdout[i]) \in Seq(Lines)
    BY <1>1, <1>2
  <2> QED
    BY <1>1, <1>2, <2>1
<1>3. CASE line = BlankLine /\ UNCHANGED stdout
  BY <1>1, <1>3, BlankType
<1> QED
  BY <1>2, <1>3 DEF Gets

LEMMA NextLineType == ChildTypes => NextLine \subseteq Lines
<1> SUFFICES ASSUME ChildTypes, NEW i \in Procs, stdout[i] # <<>> PROVE Head(stdout[i]) \in Lines
  BY BlankType DEF NextLine
<1>1. stdout[i] \in Seq(Lines)
  BY DEF ChildTypes
<1> QED
  BY <1>1, Ends

LEMMA ChildTyped == ASSUME Types, NEW i \in Procs, Child(i) PROVE Types'
<1>1. UNCHANGED <<peopleIndex, late, pc, todo, armed, localVars, gameResult, error,
                  resultFile, outcome, historyVars, inbuf>>
  BY DEF Child, ChildPrints, ChildReads, ChildClosesStdout, ChildExits
<1>2. MainTypes' /\ TodoType' /\ ResultTypes' /\ HistoryTypes'
  BY <1>1 DEF Types, MainTypes, TodoType, ResultTypes, HistoryTypes, localVars, historyVars
<1>3. stdin[i] \in Seq(Messages) /\ stdout[i] \in Seq(Lines)
  BY DEF Types, ChildTypes
<1>4. ChildTypes'
  <2>1. ASSUME NEW line \in IF i = 0 THEN JudgerLines ELSE PlayerLines, ChildPrints(i, line)
        PROVE  ChildTypes'
    <3>1. line \in Lines
      OBVIOUS
    <3>2. stdout' \in [Procs -> Seq(Lines)]
      BY <1>3, <2>1, <3>1, Longer, Updated DEF ChildPrints, Types, ChildTypes
    <3>3. printed' \in [Procs -> Nat]
      BY <2>1 DEF ChildPrints, Types, ChildTypes
    <3> QED
      BY <1>1, <2>1, <3>2, <3>3 DEF ChildPrints, Types, ChildTypes
  <2>2. CASE ChildReads(i)
    <3>1. Tail(stdin[i]) \in Seq(Messages)
      BY <1>3, <2>2, Ends DEF ChildReads
    <3>2. stdin' \in [Procs -> Seq(Messages)]
      BY <2>2, <3>1 DEF ChildReads, Types, ChildTypes
    <3> QED
      BY <1>1, <2>2, <3>2 DEF ChildReads, Types, ChildTypes
  <2>3. CASE ChildClosesStdout(i) \/ ChildExits(i)
    BY <1>1, <2>3 DEF ChildClosesStdout, ChildExits, Types, ChildTypes
  <2> QED
    BY <2>1, <2>2, <2>3 DEF Child
<1> QED
  BY <1>2, <1>4 DEF Types

LEMMA LateTyped == ASSUME Types, NEW i \in Procs, LateReaderFlushes(i) PROVE Types'
<1>1. UNCHANGED <<peopleIndex, up, open, printed, todo, armed, localVars, gameResult, error,
                  resultFile, historyVars>>
  BY DEF LateReaderFlushes
<1>2. pc' \in {"grace", "over"} /\ outcome' \in {outcome, "sigpipe"}
  BY DEF LateReaderFlushes, Killed
<1>3. MainTypes' /\ TodoType' /\ ResultTypes' /\ HistoryTypes'
  BY <1>1, <1>2 DEF Types, MainTypes, TodoType, ResultTypes, HistoryTypes, localVars, historyVars
<1>4. stdin[i] \in Seq(Messages) /\ stdout[i] \in Seq(Lines)
  BY DEF Types, ChildTypes
<1>5. stdout' \in [Procs -> Seq(Lines)]
  <2>1. Tail(stdout[i]) \in Seq(Lines)
    BY <1>4, Ends DEF LateReaderFlushes
  <2> QED
    BY <2>1 DEF LateReaderFlushes, Types, ChildTypes
<1>6. stdin' \in [Procs -> Seq(Messages)]
  <2> DEFINE m == [kind |-> "kill", id |-> 0, author |-> Nobody]
  <2>1. m \in Messages
    BY DEF Messages
  <2>2. stdin' = stdin \/ stdin' = [stdin EXCEPT ![i] = Append(@, m)]
    BY DEF LateReaderFlushes
  <2> HIDE DEF m
  <2>3. Append(stdin[i], m) \in Seq(Messages)
    BY <1>4, <2>1, Longer
  <2> QED
    BY <2>2, <2>3 DEF Types, ChildTypes
<1>7. inbuf' \in [Procs -> BOOLEAN] /\ late' \in [Procs -> BOOLEAN]
  BY DEF LateReaderFlushes, Types, ChildTypes
<1> QED
  BY <1>1, <1>3, <1>5, <1>6, <1>7 DEF Types, ChildTypes

LEMMA FirstFacts ==
  ASSUME Types, todo # <<>>
  PROVE  /\ First \in Writing /\ First.to \in Procs \cup {Nobody} /\ First.msg \in Messages
         /\ Tail(todo) \in Seq(Writing)
         /\ Len(todo) \in Nat \ {0} /\ DOMAIN todo = 1 .. Len(todo) /\ First = todo[1]
         /\ DOMAIN Tail(todo) = 1 .. Len(todo) - 1
         /\ \A k \in 1 .. Len(todo) - 1 : Tail(todo)[k] = todo[k + 1] /\ k + 1 \in DOMAIN todo
<1>1. todo \in Seq(Writing)
  BY DEF Types, TodoType
<1>2. First \in Writing
  BY <1>1, Ends DEF First
<1>3. First.to \in Procs \cup {Nobody} /\ First.msg \in Messages
  BY <1>2 DEF Writing
<1> QED
  BY <1>1, <1>2, <1>3, Ends DEF First

LEMMA ThrowFacts ==
  ASSUME NEW why \in Reasons, NEW who \in Procs \cup {Nobody}, Throw(why, who)
  PROVE  error' \in Errors /\ error'.who = who /\ error' # NoError /\ pc' = "closing"
<1>1. why # "none"
  BY DEF Reasons
<1> QED
  BY <1>1 DEF Throw, Errors, NoError

LEMMA WritesTyped == ASSUME Types, Identity, Shuffled, Stage, Writes PROVE Types'
<1>1. todo # <<>>
  BY DEF Writes, PickStream, NoSuchPlayer, WriteLine, WriteBreaks, Stage
<1>2. First \in Writing /\ Tail(todo) \in Seq(Writing) /\ First.msg \in Messages
  BY <1>1, FirstFacts
<1>3. Genuine(peopleIndex, First.msg)
  BY <1>1, FirstFacts DEF Identity, Addressed
<1>4. CASE PickStream
  <2>1. todo' \in Seq(Writing) /\ armed' \in BOOLEAN
    BY <1>2, <1>4 DEF PickStream, Types, MainTypes, TodoType
  <2> QED
    BY <1>4, <2>1 DEF PickStream, Types, ChildTypes, MainTypes, TodoType, ResultTypes,
         HistoryTypes, childVars, localVars, historyVars
<1>5. CASE NoSuchPlayer
  <2>1. error' \in Errors /\ pc' = "closing" /\ todo' \in Seq(Writing)
    <3>1. Throw("range", Nobody) /\ todo' = <<>>
      BY <1>5 DEF NoSuchPlayer
    <3>2. error' \in Errors /\ pc' = "closing"
      BY <3>1, ThrowFacts DEF Reasons
    <3> QED
      BY <3>1, <3>2
  <2>2. MainTypes' /\ ChildTypes'
    BY <1>5, <2>1 DEF NoSuchPlayer, Types, ChildTypes, MainTypes, childVars, localVars
  <2>3. ResultTypes' /\ HistoryTypes'
    BY <1>5, <2>1 DEF NoSuchPlayer, Types, ResultTypes, HistoryTypes, historyVars
  <2> QED
    BY <2>1, <2>2, <2>3 DEF Types, TodoType
<1>6. CASE WriteLine
  <2>1. First.to \in Procs
    BY <1>1, <1>6, FirstFacts DEF WriteLine, Stage
  <2>2. stdin' \in [Procs -> Seq(Messages)]
    <3>1. stdin[First.to] \in Seq(Messages)
      BY <2>1 DEF Types, ChildTypes
    <3>2. Append(stdin[First.to], First.msg) \in Seq(Messages)
      BY <1>2, <3>1, Longer
    <3> QED
      BY <1>6, <2>1, <3>2 DEF WriteLine, Types, ChildTypes
  <2>3. told' \in [Procs -> Procs]
    <3>1. First.msg.kind = "id" => First.msg.id \in Procs
      BY <1>3 DEF Genuine, Shuffled
    <3> QED
      BY <1>6, <2>1, <3>1 DEF WriteLine, Types, HistoryTypes
  <2>4. given' \in [Players -> Nat]
    <3>1. First.to # 0 => First.to \in Players
      BY <2>1 DEF Players, Procs
    <3> QED
      BY <1>6, <3>1 DEF WriteLine, Types, HistoryTypes
  <2>5. ChildTypes'
    BY <1>6, <2>2 DEF WriteLine, Types, ChildTypes
  <2>6. MainTypes' /\ TodoType'
    BY <1>2, <1>6 DEF WriteLine, Types, MainTypes, TodoType, localVars
  <2>7. HistoryTypes' /\ ResultTypes'
    BY <1>6, <2>3, <2>4 DEF WriteLine, Types, HistoryTypes, ResultTypes
  <2> QED
    BY <2>5, <2>6, <2>7 DEF Types
<1>7. CASE WriteBreaks
  BY <1>7 DEF WriteBreaks, Killed, Types, ChildTypes, MainTypes, TodoType, ResultTypes,
       HistoryTypes, childVars, localVars, historyVars
<1> QED
  BY <1>4, <1>5, <1>6, <1>7 DEF Writes

LEMMA CommandTyped ==
  ASSUME Types, NEW line, Command(line)
  PROVE  /\ line \in Lines
         /\ ChildTypes' /\ TodoType'
         /\ UNCHANGED <<peopleIndex, armed, resultFile, outcome, told, owed, given>>
<1>1. line \in Lines /\ stdout' \in [Procs -> Seq(Lines)]
  BY GetsType, ProcsFacts DEF Command, Types
<1>2. UNCHANGED <<peopleIndex, up, stdin, open, printed, inbuf, armed, resultFile, outcome,
                  late, todo, owed, given, told>>
  BY DEF Command, unchangedByRead
<1> QED
  BY <1>1, <1>2 DEF Types, ChildTypes, TodoType

LEMMA CommandsTyped ==
  ASSUME Types, Shuffled, Stage, NEW line,
         Send(line) \/ Continue(line) \/ Win(line) \/ Draw(line) \/ Log(line) \/ Skip(line)
  PROVE  Types'
<1>1. Command(line) /\ pc = "cmd"
  BY DEF Send, Continue, Win, Draw, Log, Skip, Command, AtRest
<1>2. /\ line \in Lines /\ line.nums \in Seq(Int)
      /\ ChildTypes' /\ TodoType'
      /\ UNCHANGED <<peopleIndex, armed, resultFile, outcome, told, owed, given>>
  BY <1>1, CommandTyped DEF Lines
<1>3. resultFile = NoFile /\ error \in Errors
  BY <1>1 DEF Stage, Types, ResultTypes
<1>4. CASE Send(line)
  <2>1. id' \in Int
    BY <1>2, <1>4, IdTypes DEF Send
  <2> QED
    BY <1>2, <1>4, <2>1 DEF Send, Types, MainTypes, ResultTypes, HistoryTypes, Reading
<1>5. CASE Continue(line)
  <2>1. id' \in Int
    BY <1>2, <1>5, IdTypes DEF Continue
  <2>2. pc' \in {"reply", "closing"} /\ error' \in Errors
    BY <1>3, <1>5, ThrowFacts DEF Continue, Reasons
  <2> QED
    BY <1>2, <1>5, <2>1, <2>2 DEF Continue, Types, MainTypes, ResultTypes, HistoryTypes, Reading
<1>6. CASE Win(line)
  <2> DEFINE ids == {line.nums[k] : k \in DOMAIN line.nums}
  <2>1. CASE ids \subseteq Procs
    <3>1. {At(k) : k \in ids} \subseteq Procs
      <4> SUFFICES ASSUME NEW k \in ids PROVE At(k) \in Procs
        OBVIOUS
      <4>1. k \in Procs /\ k \in Int
        BY <2>1, ProcsFacts
      <4> QED
        BY <4>1, AtIs
    <3>2. /\ gameResult' = [gameResult EXCEPT !.winners = {At(k) : k \in ids}]
          /\ verdict' = [verdict EXCEPT !.kind = "win", !.winners = ids]
          /\ pc' = "scores" /\ UNCHANGED <<error, localVars>>
      BY <1>6, <2>1 DEF Win
    <3>3. ResultTypes'
      BY <1>2, <1>3, <3>1, <3>2 DEF Types, ResultTypes
    <3>4. HistoryTypes'
      BY <1>2, <2>1, <3>2 DEF Types, HistoryTypes
    <3> QED
      BY <1>2, <3>2, <3>3, <3>4 DEF Types, MainTypes, Reading, localVars
  <2>2. CASE ~(ids \subseteq Procs)
    <3>1. Throw("range", Nobody) /\ UNCHANGED <<gameResult, verdict, localVars>>
      BY <1>6, <2>2 DEF Win
    <3>2. error' \in Errors /\ pc' = "closing"
      BY <3>1, ThrowFacts DEF Reasons
    <3> QED
      BY <1>2, <3>1, <3>2 DEF Types, MainTypes, ResultTypes, HistoryTypes, localVars
  <2> QED
    BY <2>1, <2>2
<1>7. CASE Draw(line)
  BY <1>2, <1>7 DEF Draw, Types, MainTypes, ResultTypes, HistoryTypes, localVars, Reading
<1>8. CASE Log(line)
  BY <1>2, <1>8 DEF Log, Types, MainTypes, ResultTypes, HistoryTypes, localVars, Reading
<1>9. CASE Skip(line)
  <2>1. pc' \in {"cmd", "closing"} /\ error' \in Errors
    BY <1>1, <1>3, <1>9, ThrowFacts DEF Skip, Reasons
  <2> QED
    BY <1>2, <1>9, <2>1 DEF Skip, Types, MainTypes, ResultTypes, HistoryTypes, localVars, Reading
<1> QED
  BY <1>4, <1>5, <1>6, <1>7, <1>8, <1>9

LEMMA CopiesType ==
  ASSUME Types, NEW p \in Players
  PROVE  Copies(p) \in Nat
<1> DEFINE K == {k \in DOMAIN playerList : playerList[k] = told[p]}
<1>1. IsFiniteSet(DOMAIN playerList)
  <2>1. DOMAIN playerList = 1 .. Len(playerList) /\ Len(playerList) \in Nat
    BY DEF Types, MainTypes
  <2> QED
    BY <2>1, FS_Interval
<1>2. IsFiniteSet(K)
  BY <1>1, FS_Subset
<1>3. Cardinality(K) \in Nat
  BY <1>2, FS_CardinalityType
<1> QED
  BY <1>3 DEF Copies

LEMMA AddresseesType ==
  ASSUME Types, Shuffled
  PROVE  /\ Addressees \in Seq(Procs \cup {Nobody})
         /\ DOMAIN Addressees = IF id = 0 THEN Players ELSE DOMAIN playerList
<1>1. CASE id = 0
  <2>1. Addressees = [i \in 1 .. N |-> i]
    BY <1>1 DEF Addressees, Players
  <2> QED
    BY <1>1, <2>1, ProcsFacts DEF Players
<1>2. CASE id # 0
  <2>1. Addressees = [k \in DOMAIN playerList |-> At(playerList[k])]
    BY <1>2 DEF Addressees
  <2>2. playerList \in Seq(Int) /\ DOMAIN playerList = 1 .. Len(playerList) /\ Len(playerList) \in Nat
    BY DEF Types, MainTypes
  <2>3. \A k \in DOMAIN playerList : At(playerList[k]) \in Procs \cup {Nobody}
    BY <2>2, AtIs
  <2> QED
    BY <1>2, <2>1, <2>2, <2>3
<1> QED
  BY <1>1, <1>2

LEMMA SendMessageTyped ==
  ASSUME Types, Shuffled, Stage, NEW line, SendMessage(line)
  PROVE  Types'
<1>1. /\ UNCHANGED <<peopleIndex, up, stdin, open, printed, inbuf, armed, resultFile, outcome,
                     late, localVars, gameResult, told, given, verdict>>
      /\ pc = "message" /\ todo = <<>> /\ Gets(0, line)
  BY DEF SendMessage, unchangedByRead, AtRest
<1>2. ChildTypes'
  BY <1>1, GetsType, ProcsFacts DEF Types, ChildTypes
<1>3. error \in Errors
  BY DEF Types, ResultTypes
<1>4. CASE id = 0 /\ Len(playerList) # 1
  <2>1. Throw("send syntax", Nobody) /\ UNCHANGED <<todo, owed>>
    BY <1>4 DEF SendMessage
  <2>2. error' \in Errors /\ pc' = "closing"
    BY <2>1, ThrowFacts DEF Reasons
  <2> QED
    BY <1>1, <1>2, <2>1, <2>2 DEF Types, MainTypes, TodoType, ResultTypes, HistoryTypes, localVars
<1>5. CASE ~(id = 0 /\ Len(playerList) # 1)
  <2>1. /\ todo' = [k \in DOMAIN Addressees |-> Write(Addressees[k], "game", 0)]
        /\ owed' = [p \in Players |-> owed[p] + Copies(p)]
        /\ pc' = "cmd" /\ error' = error
    BY <1>5 DEF SendMessage
  <2>2. todo' \in Seq(Writing)
    <3>1. Addressees \in Seq(Procs \cup {Nobody})
      BY AddresseesType
    <3>2. \A k \in DOMAIN Addressees : Write(Addressees[k], "game", 0) \in Writing
      <4> SUFFICES ASSUME NEW k \in DOMAIN Addressees
                   PROVE  Write(Addressees[k], "game", 0) \in Writing
        OBVIOUS
      <4>1. Addressees[k] \in Procs \cup {Nobody}
        BY <3>1
      <4> QED
        BY <4>1, WriteType DEF Writing
    <3>3. DOMAIN Addressees = 1 .. Len(Addressees) /\ Len(Addressees) \in Nat
      BY <3>1
    <3> QED
      BY <2>1, <3>2, <3>3
  <2>3. owed' \in [Players -> Nat]
    BY <2>1, CopiesType DEF Types, HistoryTypes
  <2> QED
    BY <1>1, <1>2, <1>3, <2>1, <2>2, <2>3
       DEF Types, MainTypes, TodoType, ResultTypes, HistoryTypes, localVars, Reading
<1> QED
  BY <1>4, <1>5

LEMMA PlayerAnswersTyped ==
  ASSUME Types, Shuffled, Stage, NEW line, PlayerAnswers(line)
  PROVE  Types'
<1>1. /\ UNCHANGED <<peopleIndex, up, stdin, open, printed, inbuf, armed, resultFile, outcome,
                     late, localVars, gameResult, historyVars>>
      /\ pc = "reply" /\ Gets(At(id), line)
  BY DEF PlayerAnswers, unchangedByRead, AtRest
<1>2. At(id) \in Procs /\ id \in Int
  BY <1>1, AtIs, ProcsFacts DEF Stage
<1>3. ChildTypes'
  BY <1>1, <1>2, GetsType DEF Types, ChildTypes
<1>4. CASE line.cmd = "blank"
  <2>1. Throw("no output", At(id)) /\ UNCHANGED todo
    BY <1>4 DEF PlayerAnswers
  <2>2. error' \in Errors /\ pc' = "closing"
    BY <1>2, <2>1, ThrowFacts DEF Reasons
  <2> QED
    BY <1>1, <1>3, <2>1, <2>2
       DEF Types, MainTypes, TodoType, ResultTypes, HistoryTypes, localVars, historyVars
<1>5. CASE line.cmd # "blank"
  <2>1. todo' = <<Reply(At(id), ReplyTag)>> /\ pc' = "cmd" /\ UNCHANGED error
    BY <1>5 DEF PlayerAnswers
  <2>2. Reply(At(id), ReplyTag) \in Writing
    BY <1>2, ReplyType DEF ReplyTag, Writing
  <2>3. todo' \in Seq(Writing)
    BY <2>1, <2>2
  <2> QED
    BY <1>1, <1>3, <2>1, <2>3 DEF Types, MainTypes, TodoType, ResultTypes, HistoryTypes, localVars,
         historyVars, Reading
<1> QED
  BY <1>4, <1>5

LEMMA ScoresFacts ==
  ASSUME Types, Shuffled, NEW line, line \in Lines, Scores(line), Len(ScoresOf(line)) = N
  PROVE  /\ ScoresOf(line) \in Seq(Int)
         /\ verdict' = [verdict EXCEPT !.scores = ScoresOf(line)]
         /\ gameResult' \in [scores : [Players -> Int], winners : SUBSET Procs,
                             comments : {"none", "No comments", "", "text"}]
         /\ gameResult'.winners = gameResult.winners
         /\ \A p \in Players : gameResult'.scores[p] = ScoresOf(line)[peopleIndex[p]]
<1> DEFINE scores == ScoresOf(line)
           Place(p) == CHOOSE k \in Players : At(k) = p
<1>1. scores \in Seq(Int) /\ Len(scores) = N
  BY DEF ScoresOf, Lines
<1>2. /\ verdict' = [verdict EXCEPT !.scores = scores]
      /\ gameResult' = [gameResult EXCEPT !.scores = [p \in Players |-> scores[Place(p)]]]
  BY DEF Scores, SetScores
<1>3. ASSUME NEW p \in Players
      PROVE  Place(p) = peopleIndex[p] /\ scores[peopleIndex[p]] \in Int
  <2>1. peopleIndex[p] \in Procs /\ peopleIndex[p] # 0
    BY DEF Shuffled, Players, Procs
  <2>2. peopleIndex[p] \in Players
    BY <2>1 DEF Procs, Players
  <2>3. \A k \in Players : At(k) = p <=> peopleIndex[p] = k
    BY AtIs, ProcsFacts
  <2> QED
    BY <1>1, <2>2, <2>3 DEF Players
<1> HIDE DEF scores, Place
<1>4. [p \in Players |-> scores[Place(p)]] \in [Players -> Int]
  BY <1>3
<1>5. \A p \in Players : [q \in Players |-> scores[Place(q)]][p] = scores[peopleIndex[p]]
  BY <1>3
<1> DEFINE all == [p \in Players |-> scores[Place(p)]]
<1> HIDE DEF all
<1>6. gameResult' = [gameResult EXCEPT !.scores = all] /\ all \in [Players -> Int]
  BY <1>2, <1>4 DEF all
<1>7. \A p \in Players : all[p] = scores[peopleIndex[p]]
  BY <1>5 DEF all
<1> QED
  BY <1>1, <1>2, <1>6, <1>7 DEF Types, ResultTypes, scores

LEMMA ScoresTyped ==
  ASSUME Types, Shuffled, Stage, NEW line, Scores(line)
  PROVE  Types'
<1>1. /\ UNCHANGED <<peopleIndex, up, stdin, open, printed, inbuf, armed, resultFile, outcome,
                     late, todo, localVars, told, owed, given>>
      /\ pc = "scores" /\ Gets(0, line)
  BY DEF Scores, unchangedByRead, AtRest
<1>2. line \in Lines /\ ChildTypes'
  BY <1>1, GetsType, ProcsFacts DEF Types, ChildTypes
<1>3. resultFile = NoFile /\ error \in Errors
  BY <1>1 DEF Stage, Types, ResultTypes
<1>4. CASE Len(ScoresOf(line)) = N
  <2>1. pc' = "peek" /\ UNCHANGED error
    BY <1>4 DEF Scores
  <2>2. ResultTypes'
    BY <1>1, <1>2, <1>3, <1>4, <2>1, ScoresFacts DEF Types, ResultTypes
  <2>3. HistoryTypes'
    BY <1>1, <1>2, <1>4, ScoresFacts DEF Types, HistoryTypes
  <2> QED
    BY <1>1, <1>2, <2>1, <2>2, <2>3 DEF Types, MainTypes, TodoType, localVars, Reading
<1>5. CASE Len(ScoresOf(line)) # N
  <2>1. Throw("not every player scored", Nobody) /\ UNCHANGED <<gameResult, verdict>>
    BY <1>5 DEF Scores
  <2>2. error' \in Errors /\ pc' = "closing"
    BY <2>1, ThrowFacts DEF Reasons
  <2> QED
    BY <1>1, <1>2, <2>1, <2>2 DEF Types, MainTypes, TodoType, ResultTypes, HistoryTypes, localVars
<1> QED
  BY <1>4, <1>5

LEMMA LogLineTyped == ASSUME Types, NEW line, LogLine(line) PROVE Types'
<1>1. /\ UNCHANGED <<peopleIndex, up, stdin, open, printed, inbuf, armed, resultFile, outcome,
                     late, todo, localVars, gameResult, error, historyVars>>
      /\ pc' = "cmd" /\ Gets(0, line)
  BY DEF LogLine, unchangedByRead
<1>2. ChildTypes'
  BY <1>1, GetsType, ProcsFacts DEF Types, ChildTypes
<1> QED
  BY <1>1, <1>2 DEF Types, MainTypes, TodoType, ResultTypes, HistoryTypes, localVars, historyVars,
                    Reading

LEMMA CommentTyped == ASSUME Types, Stage, NEW line, Comment(line) PROVE Types'
<1>1. /\ UNCHANGED <<peopleIndex, up, stdin, open, printed, inbuf, armed, resultFile, outcome,
                     late, todo, localVars, error, historyVars>>
      /\ pc = "comment" /\ pc' = "file" /\ Gets(0, line)
      /\ gameResult' = [gameResult EXCEPT !.comments = IF line.cmd = "blank" THEN "" ELSE "text"]
  BY DEF Comment, unchangedByRead, AtRest
<1>2. ChildTypes'
  BY <1>1, GetsType, ProcsFacts DEF Types, ChildTypes
<1>3. resultFile = NoFile
  BY <1>1 DEF Stage
<1>4. ResultTypes'
  BY <1>1, <1>3 DEF Types, ResultTypes
<1> QED
  BY <1>1, <1>2, <1>4 DEF Types, MainTypes, TodoType, HistoryTypes, localVars, historyVars

\* Reads that take no line.
LEMMA TimeOutTyped ==
  ASSUME Types, Shuffled, Stage, JudgerTimesOut \/ PlayerTimesOut \/ PeekYes \/ PeekNo
  PROVE  Types'
<1>1. UNCHANGED <<peopleIndex, up, stdin, open, printed, inbuf, armed, resultFile, outcome,
                  stdout, todo, localVars, historyVars>>
  BY DEF JudgerTimesOut, PlayerTimesOut, PeekYes, PeekNo, unchangedByRead
<1>2. late' \in [Procs -> BOOLEAN]
  BY DEF JudgerTimesOut, PlayerTimesOut, PeekYes, PeekNo, TimesOut, Types, ChildTypes
<1>3. ChildTypes' /\ TodoType' /\ HistoryTypes'
  BY <1>1, <1>2 DEF Types, ChildTypes, TodoType, HistoryTypes, historyVars
<1>4. ASSUME NEW why \in Reasons, NEW who \in Procs \cup {Nobody}, Throw(why, who), UNCHANGED gameResult
      PROVE  Types'
  <2>1. error' \in Errors /\ pc' = "closing"
    BY <1>4, ThrowFacts
  <2> QED
    BY <1>1, <1>3, <1>4, <2>1 DEF Types, MainTypes, ResultTypes, localVars
<1>5. CASE JudgerTimesOut
  <2>1. Throw("judger time limit", Nobody) /\ UNCHANGED gameResult
    BY <1>5 DEF JudgerTimesOut
  <2> QED
    BY <1>4, <2>1 DEF Reasons
<1>6. CASE PlayerTimesOut
  <2>1. Throw("time limit", At(id)) /\ UNCHANGED gameResult /\ id \in Procs
    BY <1>6 DEF PlayerTimesOut, AtRest, Stage
  <2>2. At(id) \in Procs
    BY <2>1, AtIs, ProcsFacts
  <2> QED
    BY <1>4, <2>1, <2>2 DEF Reasons
<1>7. CASE PeekYes
  <2>1. pc' = "comment" /\ UNCHANGED <<gameResult, error>>
    BY <1>7 DEF PeekYes
  <2> QED
    BY <1>1, <1>3, <2>1 DEF Types, MainTypes, ResultTypes, localVars, Reading
<1>8. CASE PeekNo
  <2>1. /\ pc = "peek" /\ pc' = "file" /\ UNCHANGED error
        /\ gameResult' = [gameResult EXCEPT !.comments =
                            IF verdict.kind = "win" THEN "No comments" ELSE ""]
    BY <1>8 DEF PeekNo, AtRest
  <2>2. resultFile = NoFile
    BY <2>1 DEF Stage
  <2>3. ResultTypes'
    BY <1>1, <2>1, <2>2 DEF Types, ResultTypes
  <2> QED
    BY <1>1, <1>3, <2>1, <2>3 DEF Types, MainTypes, localVars
<1> QED
  BY <1>5, <1>6, <1>7, <1>8

LEMMA EndTyped ==
  ASSUME Types, WriteResult \/ ResultNotWritten \/ SayKill \/ KillAll
  PROVE  Types'
<1>1. UNCHANGED <<peopleIndex, stdin, stdout, printed, late, todo, armed, localVars, gameResult,
                  historyVars>>
  BY DEF WriteResult, ResultNotWritten, SayKill, KillAll, childVars
<1>2. ChildTypes'
  BY <1>1 DEF WriteResult, ResultNotWritten, SayKill, KillAll, childVars, Types, ChildTypes
<1>3. ResultTypes' /\ pc' \in {"closing", "grace", "over"}
  <2>1. CASE ResultNotWritten
    <3>1. Throw("file", Nobody) /\ UNCHANGED <<resultFile, outcome>>
      BY <2>1 DEF ResultNotWritten
    <3>2. error' \in Errors /\ pc' = "closing"
      BY <3>1, ThrowFacts DEF Reasons
    <3> QED
      BY <1>1, <3>1, <3>2 DEF Types, ResultTypes
  <2>2. CASE WriteResult
    BY <1>1, <2>2 DEF WriteResult, Types, ResultTypes
  <2>3. CASE SayKill \/ KillAll
    BY <1>1, <2>3 DEF SayKill, KillAll, Types, ResultTypes
  <2> QED
    BY <2>1, <2>2, <2>3
<1> QED
  BY <1>1, <1>2, <1>3 DEF Types, MainTypes, TodoType, HistoryTypes, localVars, historyVars

LEMMA NextTyped ==
  ASSUME Types, Shuffled, Stage, Identity, [Next]_vars
  PROVE  Types' /\ Shuffled'
<1>1. Types'
  <2>1. ASSUME NEW line \in NextLine, Reads(line) PROVE Types'
    BY <2>1, CommandsTyped, SendMessageTyped, PlayerAnswersTyped, ScoresTyped, LogLineTyped,
       CommentTyped DEF Reads
  <2>2. CASE Main
    BY <2>1, <2>2, WritesTyped, TimeOutTyped, EndTyped DEF Main
  <2>3. CASE UNCHANGED vars
    BY <2>3 DEF vars, childVars, localVars, historyVars, Types, ChildTypes, MainTypes, TodoType,
         ResultTypes, HistoryTypes
  <2> QED
    BY <2>2, <2>3, ChildTyped, LateTyped DEF Next
<1>2. UNCHANGED peopleIndex
  BY DEF Next, Main, Writes, PickStream, NoSuchPlayer, WriteLine, WriteBreaks, Reads, Send,
     Continue, Win, Draw, Log, Skip, Command, SendMessage, PlayerAnswers, LogLine, Scores, Comment,
     JudgerTimesOut, PlayerTimesOut, PeekYes, PeekNo, unchangedByRead, WriteResult,
     ResultNotWritten, SayKill, KillAll, Child, LateReaderFlushes, vars
<1> QED
  BY <1>1, <1>2 DEF Shuffled

-----------------------------------------------------------------------------
(* What main may still throw, and what has been decided.                   *)

LEMMA ResultIsNoBlank == Types => gameResult # NoFile
<1>1. ASSUME Types PROVE DOMAIN gameResult.scores = 1 .. N
  BY <1>1 DEF Types, ResultTypes, Players
<1>2. DOMAIN NoFile.scores = {}
  BY DEF NoFile
<1>3. 1 \in 1 .. N
  OBVIOUS
<1> QED
  BY <1>1, <1>2, <1>3

\* Steps of the children, which main does not see.
LEMMA QuietStage ==
  ASSUME Stage, UNCHANGED <<pc, todo, armed, id, error, resultFile, outcome>>,
         \A i \in Procs : up'[i] => up[i]
  PROVE  Stage'
  BY DEF Stage, First

LEMMA WritesStage == ASSUME Types, Stage, Writes PROVE Stage'
<1>1. /\ UNCHANGED <<up, id, resultFile>>
      /\ pc # "over" => outcome = "none"
  BY DEF Writes, PickStream, NoSuchPlayer, WriteLine, WriteBreaks, localVars, childVars, Stage
<1>2. CASE PickStream
  <2>1. pc = "cmd" /\ ~armed /\ UNCHANGED <<pc, error, outcome>> /\ todo # <<>>
    BY <1>2 DEF PickStream, Stage
  <2>2. armed' => todo' = todo /\ First.to # Nobody
    BY <1>2 DEF PickStream
  <2> QED
    BY <1>1, <2>1, <2>2 DEF Stage, First
<1>3. CASE NoSuchPlayer
  <2>1. /\ todo # <<>> /\ First.to = Nobody /\ todo' = <<>> /\ Throw("range", Nobody)
        /\ UNCHANGED <<armed, outcome>>
    BY <1>3 DEF NoSuchPlayer
  <2>2. pc = "cmd" /\ ~armed
    BY <2>1 DEF Stage
  <2>3. error' # NoError /\ pc' = "closing"
    BY <2>1, ThrowFacts DEF Reasons
  <2> QED
    BY <1>1, <2>1, <2>2, <2>3 DEF Stage
<1>4. CASE WriteLine
  <2>1. pc = "cmd" /\ ~armed' /\ UNCHANGED <<pc, error, outcome>>
    BY <1>4 DEF WriteLine, Stage
  <2> QED
    BY <1>1, <2>1 DEF Stage
<1>5. CASE WriteBreaks
  <2>1. /\ pc = "cmd" /\ ~armed' /\ pc' = "over" /\ outcome' = "sigpipe"
        /\ First.to # Nobody /\ UNCHANGED <<error, todo>>
    BY <1>5 DEF WriteBreaks, Killed, Stage
  <2> QED
    BY <1>1, <2>1 DEF Stage, First
<1> QED
  BY <1>2, <1>3, <1>4, <1>5 DEF Writes

\* A step that reads goes on or throws.
LEMMA ReadsStage ==
  ASSUME Types, Shuffled, Stage, pc \in Reading, todo = <<>>,
         UNCHANGED <<up, armed, resultFile, outcome>>,
         \/ /\ error' # NoError /\ pc' = "closing" /\ todo' = <<>>
         \/ /\ UNCHANGED error
            /\ pc' \in Reading \cup {"file"}
            /\ pc' = "reply" => id' \in Procs
            /\ todo' = <<>> \/ pc' = "cmd"
  PROVE  Stage'
<1>1. pc \notin {"closing", "grace", "over"}
  BY DEF Reading
<1>2. error = NoError /\ resultFile = NoFile /\ outcome = "none" /\ ~armed
  BY <1>1 DEF Stage
<1>3. CASE error' # NoError /\ pc' = "closing" /\ todo' = <<>>
  BY <1>2, <1>3 DEF Stage
<1>4. CASE /\ UNCHANGED error
           /\ pc' \in Reading \cup {"file"}
           /\ pc' = "reply" => id' \in Procs
           /\ todo' = <<>> \/ pc' = "cmd"
  <2>1. pc' \notin {"closing", "grace", "over"}
    BY <1>4 DEF Reading
  <2> QED
    BY <1>2, <1>4, <2>1 DEF Stage
<1> QED
  BY <1>3, <1>4

LEMMA LinesStage == ASSUME Types, Shuffled, Stage, NEW line, Reads(line) PROVE Stage'
<1>1. pc \in Reading /\ todo = <<>> /\ UNCHANGED <<up, armed, resultFile, outcome>>
  BY DEF Reads, Send, Continue, Win, Draw, Log, Skip, Command, SendMessage, PlayerAnswers, LogLine,
         Scores, Comment, AtRest, unchangedByRead, Reading
<1>2. CASE Send(line)
  BY <1>1, <1>2, ReadsStage DEF Send, Command, Reading
<1>3. CASE Continue(line)
  <2>1. UNCHANGED todo /\ id' \in Int
    BY <1>3, CommandTyped, IdTypes DEF Continue, Command
  <2>2. CASE At(id') = Nobody
    <3>1. Throw("range", Nobody)
      BY <1>3, <2>2 DEF Continue
    <3>2. error' # NoError /\ pc' = "closing"
      BY <3>1, ThrowFacts DEF Reasons
    <3> QED
      BY <1>1, <2>1, <3>2, ReadsStage
  <2>3. CASE At(id') # Nobody
    <3>1. pc' = "reply" /\ UNCHANGED error
      BY <1>3, <2>3 DEF Continue
    <3>2. id' \in Procs
      BY <2>1, <2>3, AtIs
    <3> QED
      BY <1>1, <2>1, <3>1, <3>2, ReadsStage DEF Reading
  <2> QED
    BY <2>2, <2>3
<1>4. CASE Win(line)
  <2>1. UNCHANGED todo
    BY <1>4 DEF Win, Command
  <2>2. Throw("range", Nobody) \/ (pc' = "scores" /\ UNCHANGED error)
    BY <1>4 DEF Win
  <2>3. CASE Throw("range", Nobody)
    <3>1. error' # NoError /\ pc' = "closing"
      BY <2>3, ThrowFacts DEF Reasons
    <3> QED
      BY <1>1, <2>1, <3>1, ReadsStage
  <2> QED
    BY <1>1, <2>1, <2>2, <2>3, ReadsStage DEF Reading
<1>5. CASE Draw(line) \/ Log(line)
  BY <1>1, <1>5, ReadsStage DEF Draw, Log, Command, Reading
<1>6. CASE Skip(line)
  <2>1. UNCHANGED todo /\ pc = "cmd"
    BY <1>6 DEF Skip, Command, AtRest
  <2>2. Throw("judger gone", Nobody) \/ UNCHANGED <<pc, error>>
    BY <1>6 DEF Skip
  <2>3. CASE Throw("judger gone", Nobody)
    <3>1. error' # NoError /\ pc' = "closing"
      BY <2>3, ThrowFacts DEF Reasons
    <3> QED
      BY <1>1, <2>1, <3>1, ReadsStage
  <2> QED
    BY <1>1, <2>1, <2>2, <2>3, ReadsStage DEF Reading
<1>7. CASE SendMessage(line)
  <2>1. \/ Throw("send syntax", Nobody) /\ UNCHANGED todo
        \/ pc' = "cmd" /\ UNCHANGED error
    BY <1>7 DEF SendMessage
  <2>2. CASE Throw("send syntax", Nobody) /\ UNCHANGED todo
    <3>1. error' # NoError /\ pc' = "closing"
      BY <2>2, ThrowFacts DEF Reasons
    <3> QED
      BY <1>1, <2>2, <3>1, ReadsStage
  <2> QED
    BY <1>1, <2>1, <2>2, ReadsStage DEF Reading
<1>8. CASE PlayerAnswers(line)
  <2>1. id \in Procs
    BY <1>8 DEF PlayerAnswers, AtRest, Stage
  <2>2. \/ Throw("no output", At(id)) /\ UNCHANGED todo
        \/ pc' = "cmd" /\ UNCHANGED error
    BY <1>8 DEF PlayerAnswers
  <2>3. CASE Throw("no output", At(id)) /\ UNCHANGED todo
    <3>1. error' # NoError /\ pc' = "closing"
      BY <2>1, <2>3, ThrowFacts, AtIs, ProcsFacts DEF Reasons
    <3> QED
      BY <1>1, <2>3, <3>1, ReadsStage
  <2> QED
    BY <1>1, <2>2, <2>3, ReadsStage DEF Reading
<1>9. CASE LogLine(line) \/ Comment(line)
  BY <1>1, <1>9, ReadsStage DEF LogLine, Comment, Reading
<1>10. CASE Scores(line)
  <2>1. UNCHANGED todo
    BY <1>10 DEF Scores
  <2>2. Throw("not every player scored", Nobody) \/ (pc' = "peek" /\ UNCHANGED error)
    BY <1>10 DEF Scores
  <2>3. CASE Throw("not every player scored", Nobody)
    <3>1. error' # NoError /\ pc' = "closing"
      BY <2>3, ThrowFacts DEF Reasons
    <3> QED
      BY <1>1, <2>1, <3>1, ReadsStage
  <2> QED
    BY <1>1, <2>1, <2>2, <2>3, ReadsStage DEF Reading
<1> QED
  BY <1>2, <1>3, <1>4, <1>5, <1>6, <1>7, <1>8, <1>9, <1>10 DEF Reads

LEMMA NextStage == ASSUME Types, Shuffled, Stage, [Next]_vars PROVE Stage'
<1>1. ASSUME NEW i \in Procs, Child(i) PROVE Stage'
  <2>1. \A j \in Procs : up'[j] => up[j]
    BY <1>1 DEF Child, ChildPrints, ChildReads, ChildClosesStdout, ChildExits, Types, ChildTypes
  <2> QED
    BY <1>1, <2>1, QuietStage DEF Child, localVars
<1>2. ASSUME NEW i \in Procs, LateReaderFlushes(i) PROVE Stage'
  <2>1. /\ pc = "grace" /\ UNCHANGED <<up, todo, armed, id, error, resultFile>>
        /\ (UNCHANGED <<pc, outcome>> \/ Killed)
    BY <1>2 DEF LateReaderFlushes, localVars
  <2> QED
    BY <2>1 DEF Killed, Stage, First
<1>3. CASE Writes
  BY <1>3, WritesStage
<1>4. ASSUME NEW line \in NextLine, Reads(line) PROVE Stage'
  BY <1>4, LinesStage
<1>5. CASE JudgerTimesOut \/ PlayerTimesOut
  <2>1. pc \in Reading /\ todo = <<>> /\ UNCHANGED <<up, armed, resultFile, outcome, todo>>
    BY <1>5 DEF JudgerTimesOut, PlayerTimesOut, AtRest, Reading, unchangedByRead
  <2>2. PlayerTimesOut => id \in Procs
    BY DEF PlayerTimesOut, AtRest, Stage
  <2>3. error' # NoError /\ pc' = "closing"
    BY <1>5, <2>2, ThrowFacts, AtIs, ProcsFacts DEF JudgerTimesOut, PlayerTimesOut, Reasons
  <2> QED
    BY <2>1, <2>3, ReadsStage
<1>6. CASE PeekYes \/ PeekNo
  <2>1. /\ pc \in Reading /\ todo = <<>> /\ UNCHANGED <<up, armed, resultFile, outcome, todo, error>>
        /\ pc' \in {"comment", "file"}
    BY <1>6 DEF PeekYes, PeekNo, AtRest, Reading, unchangedByRead
  <2> QED
    BY <2>1, ReadsStage DEF Reading
<1>7. CASE WriteResult
  <2>1. /\ pc = "file" /\ pc' = "closing" /\ resultFile' = gameResult
        /\ UNCHANGED <<up, todo, armed, id, error, outcome>>
    BY <1>7 DEF WriteResult, childVars, localVars
  <2> QED
    BY <2>1, ResultIsNoBlank DEF Stage
<1>8. CASE ResultNotWritten
  <2>1. /\ pc = "file" /\ Throw("file", Nobody)
        /\ UNCHANGED <<up, todo, armed, id, resultFile, outcome>>
    BY <1>8 DEF ResultNotWritten, childVars, localVars
  <2>2. error' # NoError /\ pc' = "closing"
    BY <2>1, ThrowFacts DEF Reasons
  <2> QED
    BY <2>1, <2>2 DEF Stage
<1>9. CASE SayKill
  <2>1. /\ pc = "closing" /\ pc' = "grace"
        /\ UNCHANGED <<up, todo, armed, id, error, resultFile, outcome>>
    BY <1>9 DEF SayKill, childVars, localVars
  <2> QED
    BY <2>1 DEF Stage
<1>10. CASE KillAll
  <2>1. /\ pc = "grace" /\ pc' = "over" /\ \A i \in Procs : ~up'[i]
        /\ outcome' = IF error = NoError THEN "exit0" ELSE "exit1"
        /\ UNCHANGED <<todo, armed, id, error, resultFile>>
    BY <1>10 DEF KillAll, localVars
  <2> QED
    BY <2>1 DEF Stage
<1>11. CASE UNCHANGED vars
  BY <1>11, QuietStage DEF vars, childVars, localVars
<1> QED
  BY <1>1, <1>2, <1>3, <1>4, <1>5, <1>6, <1>7, <1>8, <1>9, <1>10, <1>11 DEF Next, Main

-----------------------------------------------------------------------------
(* Every id on its way is that of the process it is about.                 *)

LEMMA QuietIdentity ==
  ASSUME Identity, UNCHANGED <<peopleIndex, told>>,
         todo' = todo \/ Addressed(peopleIndex, todo'),
         stdin'[0] = stdin[0] \/ AllGenuine(peopleIndex, stdin'[0]),
         UNCHANGED <<error, id>> \/ error'.who = Nobody
  PROVE  Identity'
  BY DEF Identity

LEMMA OneMoreGenuine ==
  ASSUME Identity, stdin[0] \in Seq(Messages), NEW m \in Messages, Genuine(peopleIndex, m)
  PROVE  AllGenuine(peopleIndex, Append(stdin[0], m))
<1> DEFINE longer == Append(stdin[0], m)
<1>1. /\ DOMAIN longer = 1 .. Len(stdin[0]) + 1 /\ longer[Len(stdin[0]) + 1] = m
      /\ DOMAIN stdin[0] = 1 .. Len(stdin[0]) /\ Len(stdin[0]) \in Nat
      /\ \A k \in 1 .. Len(stdin[0]) : longer[k] = stdin[0][k]
  BY Longer
<1>2. \A k \in 1 .. Len(stdin[0]) : Genuine(peopleIndex, stdin[0][k])
  BY <1>1 DEF Identity, AllGenuine
<1> HIDE DEF longer
<1>3. ASSUME NEW k \in DOMAIN longer PROVE Genuine(peopleIndex, longer[k])
  <2>1. k = Len(stdin[0]) + 1 \/ k \in 1 .. Len(stdin[0])
    BY <1>1
  <2> QED
    BY <1>1, <1>2, <2>1
<1> QED
  BY <1>3 DEF AllGenuine, longer

LEMMA ChildIdentity == ASSUME Types, Identity, NEW i \in Procs, Child(i) PROVE Identity'
<1>1. UNCHANGED <<peopleIndex, told, todo, error, id>>
  BY DEF Child, localVars, historyVars
<1>2. stdin'[0] = stdin[0] \/ AllGenuine(peopleIndex, stdin'[0])
  <2>1. UNCHANGED stdin \/ (stdin[i] # <<>> /\ stdin' = [stdin EXCEPT ![i] = Tail(@)])
    BY DEF Child, ChildPrints, ChildReads, ChildClosesStdout, ChildExits
  <2>2. stdin \in [Procs -> Seq(Messages)]
    BY DEF Types, ChildTypes
  <2>3. CASE stdin[0] # <<>> /\ stdin'[0] = Tail(stdin[0])
    <3>1. \A k \in DOMAIN Tail(stdin[0]) : \E j \in DOMAIN stdin[0] : Tail(stdin[0])[k] = stdin[0][j]
      BY <2>2, <2>3, Ends, ProcsFacts
    <3> QED
      BY <2>3, <3>1 DEF AllGenuine, Identity
  <2> QED
    BY <2>1, <2>2, <2>3, ProcsFacts
<1> QED
  BY <1>1, <1>2, QuietIdentity

LEMMA LateIdentity == ASSUME Types, Identity, NEW i \in Procs, LateReaderFlushes(i) PROVE Identity'
<1> DEFINE m == [kind |-> "kill", id |-> 0, author |-> Nobody]
<1>1. UNCHANGED <<peopleIndex, told, todo, error, id>>
  BY DEF LateReaderFlushes, localVars, historyVars
<1>2. stdin' = stdin \/ stdin' = [stdin EXCEPT ![i] = Append(@, m)]
  BY DEF LateReaderFlushes
<1>3. Genuine(peopleIndex, m) /\ m \in Messages
  BY DEF Genuine, Messages
<1> HIDE DEF m
<1>4. stdin \in [Procs -> Seq(Messages)] /\ stdin[0] \in Seq(Messages)
  BY ProcsFacts DEF Types, ChildTypes
<1>5. stdin'[0] = stdin[0] \/ stdin'[0] = Append(stdin[0], m)
  BY <1>2, <1>4, ProcsFacts
<1>6. AllGenuine(peopleIndex, Append(stdin[0], m))
  BY <1>3, <1>4, OneMoreGenuine
<1> QED
  BY <1>1, <1>5, <1>6, QuietIdentity

LEMMA WritesIdentity == ASSUME Types, Shuffled, Stage, Identity, Writes PROVE Identity'
<1>1. todo # <<>> /\ UNCHANGED <<peopleIndex, id>>
  BY DEF Writes, PickStream, NoSuchPlayer, WriteLine, WriteBreaks, localVars, Stage
<1>2. Addressed(peopleIndex, Tail(todo)) /\ Genuine(peopleIndex, First.msg) /\ (First.msg.kind = "id" => First.to = First.msg.author)
  BY <1>1, FirstFacts DEF Identity, Addressed
<1>3. CASE PickStream
  <2>1. UNCHANGED <<told, stdin, error>> /\ (todo' = todo \/ todo' = Tail(todo))
    BY <1>3 DEF PickStream, childVars, historyVars
  <2> QED
    BY <1>1, <1>2, <2>1, QuietIdentity
<1>4. CASE NoSuchPlayer
  <2>1. UNCHANGED <<told, stdin>> /\ todo' = <<>> /\ Throw("range", Nobody)
    BY <1>4 DEF NoSuchPlayer, childVars, historyVars
  <2>2. error'.who = Nobody
    BY <2>1, ThrowFacts DEF Reasons
  <2>3. Addressed(peopleIndex, todo')
    BY <2>1 DEF Addressed
  <2> QED
    BY <1>1, <2>1, <2>2, <2>3, QuietIdentity
<1>5. CASE WriteLine
  <2>1. First.to \in Procs /\ First.msg \in Messages
    BY <1>1, <1>5, FirstFacts DEF WriteLine, Stage
  <2>2. /\ stdin' = [stdin EXCEPT ![First.to] = Append(@, First.msg)]
        /\ told' = IF First.msg.kind = "id" THEN [told EXCEPT ![First.to] = First.msg.id] ELSE told
        /\ todo' = Tail(todo) /\ error' = error
    BY <1>5 DEF WriteLine
  <2>3. stdin \in [Procs -> Seq(Messages)] /\ stdin[0] \in Seq(Messages) /\ told \in [Procs -> Procs]
    BY ProcsFacts DEF Types, ChildTypes, HistoryTypes
  <2> DEFINE m == First.msg
  <2> HIDE DEF m
  <2>4. stdin'[0] = stdin[0] \/ stdin'[0] = Append(stdin[0], m)
    BY <2>1, <2>2, <2>3, ProcsFacts DEF m
  <2>5. AllGenuine(peopleIndex, Append(stdin[0], m))
    BY <1>2, <2>1, <2>3, OneMoreGenuine DEF m
  <2>6. AllGenuine(peopleIndex, stdin'[0])
    BY <2>4, <2>5 DEF Identity
  <2>7. \A i \in Procs : told'[i] \in {0, peopleIndex[i]}
    <3>1. First.msg.kind = "id" => First.msg.id = peopleIndex[First.to]
      BY <1>2 DEF Genuine
    <3> QED
      BY <2>1, <2>2, <2>3, <3>1 DEF Identity
  <2>9. error'.who # Nobody => error'.who \in Procs /\ peopleIndex'[error'.who] = id'
    BY <1>1, <2>2 DEF Identity
  <2> QED
    BY <1>1, <1>2, <2>2, <2>6, <2>7, <2>9 DEF Identity
<1>6. CASE WriteBreaks
  BY <1>1, <1>6, QuietIdentity DEF WriteBreaks, childVars, historyVars
<1> QED
  BY <1>3, <1>4, <1>5, <1>6 DEF Writes

\* Every step at rest that blames nobody.
LEMMA LinesIdentity == ASSUME Types, Shuffled, Stage, Identity, NEW line, Reads(line) PROVE Identity'
<1>1. pc \in Reading /\ UNCHANGED <<peopleIndex, told, stdin>>
  BY DEF Reads, Send, Continue, Win, Draw, Log, Skip, Command, SendMessage, PlayerAnswers, LogLine,
         Scores, Comment, AtRest, unchangedByRead, Reading, historyVars
<1>2. error.who = Nobody
  <2>1. pc \notin {"closing", "grace", "over"}
    BY <1>1 DEF Reading
  <2> QED
    BY <2>1 DEF Stage, NoError
<1>3. ASSUME NEW why \in Reasons, Throw(why, Nobody), UNCHANGED todo PROVE Identity'
  <2>1. error'.who = Nobody
    BY <1>3, ThrowFacts
  <2> QED
    BY <1>1, <1>3, <2>1, QuietIdentity
<1>4. ASSUME UNCHANGED <<error, todo>> PROVE Identity'
  BY <1>1, <1>2, <1>4, QuietIdentity
<1>5. CASE Send(line) \/ Draw(line) \/ Log(line) \/ LogLine(line) \/ Comment(line)
  BY <1>4, <1>5 DEF Send, Draw, Log, LogLine, Comment, Command
<1>6. CASE Continue(line) \/ Win(line) \/ Skip(line) \/ Scores(line)
  <2>1. UNCHANGED todo
    BY <1>6 DEF Continue, Win, Skip, Command, Scores
  <2>2. UNCHANGED error \/ \E why \in Reasons : Throw(why, Nobody)
    BY <1>6 DEF Continue, Win, Skip, Scores, Reasons
  <2> QED
    BY <1>3, <1>4, <2>1, <2>2
<1>7. CASE SendMessage(line)
  <2>1. CASE Throw("send syntax", Nobody) /\ UNCHANGED todo
    BY <1>3, <2>1 DEF Reasons
  <2>2. CASE /\ todo' = [k \in DOMAIN Addressees |-> Write(Addressees[k], "game", 0)]
             /\ UNCHANGED error
    <3>1. Addressed(peopleIndex, todo')
      BY <2>2 DEF Addressed, Write, Genuine
    <3> QED
      BY <1>1, <1>2, <2>2, <3>1, QuietIdentity
  <2> QED
    BY <1>7, <2>1, <2>2 DEF SendMessage
<1>8. CASE PlayerAnswers(line)
  <2>1. id \in Procs /\ UNCHANGED id
    BY <1>8 DEF PlayerAnswers, AtRest, Stage, localVars
  <2>2. At(id) \in Procs /\ peopleIndex[At(id)] = id
    BY <2>1, AtIs, ProcsFacts
  <2>3. CASE Throw("no output", At(id)) /\ UNCHANGED todo
    <3>1. error'.who = At(id)
      BY <2>2, <2>3, ThrowFacts DEF Reasons
    <3> QED
      BY <1>1, <2>1, <2>2, <2>3, <3>1 DEF Identity
  <2>4. CASE todo' = <<Reply(At(id), ReplyTag)>> /\ UNCHANGED error
    <3>1. Addressed(peopleIndex, todo')
      BY <2>2, <2>4 DEF Addressed, Reply, ReplyTag, Genuine
    <3> QED
      BY <1>1, <1>2, <2>4, <3>1, QuietIdentity
  <2> QED
    BY <1>8, <2>3, <2>4 DEF PlayerAnswers
<1> QED
  BY <1>5, <1>6, <1>7, <1>8 DEF Reads

LEMMA NextIdentity == ASSUME Types, Shuffled, Stage, Identity, [Next]_vars PROVE Identity'
<1>1. ASSUME NEW line \in NextLine, Reads(line) PROVE Identity'
  BY <1>1, LinesIdentity
<1>2. CASE JudgerTimesOut \/ PlayerTimesOut \/ PeekYes \/ PeekNo
  <2>1. UNCHANGED <<peopleIndex, told, stdin, todo, id>>
    BY <1>2 DEF JudgerTimesOut, PlayerTimesOut, PeekYes, PeekNo, unchangedByRead, historyVars, localVars
  <2>2. CASE JudgerTimesOut
    <3>1. error'.who = Nobody
      BY <2>2, ThrowFacts DEF JudgerTimesOut, Reasons
    <3> QED
      BY <2>1, <3>1, QuietIdentity
  <2>3. CASE PlayerTimesOut
    <3>1. id \in Procs /\ Throw("time limit", At(id))
      BY <2>3 DEF PlayerTimesOut, AtRest, Stage
    <3>2. At(id) \in Procs /\ peopleIndex[At(id)] = id
      BY <3>1, AtIs, ProcsFacts
    <3>3. error'.who = At(id)
      BY <3>1, <3>2, ThrowFacts DEF Reasons
    <3> QED
      BY <2>1, <3>2, <3>3 DEF Identity
  <2>4. CASE PeekYes \/ PeekNo
    <3>1. UNCHANGED error
      BY <2>4 DEF PeekYes, PeekNo
    <3> QED
      BY <2>1, <3>1, QuietIdentity
  <2> QED
    BY <1>2, <2>2, <2>3, <2>4
<1>3. CASE WriteResult \/ SayKill \/ KillAll \/ UNCHANGED vars
  <2>1. UNCHANGED <<peopleIndex, told, stdin, todo, id, error>>
    BY <1>3 DEF WriteResult, SayKill, KillAll, vars, historyVars, localVars, childVars
  <2> QED
    BY <2>1, QuietIdentity
<1>4. CASE ResultNotWritten
  <2>1. UNCHANGED <<peopleIndex, told, stdin, todo, id>> /\ Throw("file", Nobody)
    BY <1>4 DEF ResultNotWritten, historyVars, localVars, childVars
  <2>2. error'.who = Nobody
    BY <2>1, ThrowFacts DEF Reasons
  <2> QED
    BY <2>1, <2>2, QuietIdentity
<1> QED
  BY <1>1, <1>2, <1>3, <1>4, WritesIdentity, ChildIdentity, LateIdentity DEF Next, Main

-----------------------------------------------------------------------------
(* The result keeps up with what the judger announces.                     *)

LEMMA QuietResults ==
  ASSUME Results, UNCHANGED peopleIndex,
         gameResult'.winners = gameResult.winners, gameResult'.scores = gameResult.scores,
         verdict'.winners = verdict.winners, verdict'.scores = verdict.scores,
         pc' \in {"peek", "comment", "file"} \/ resultFile' # NoFile =>
           pc \in {"peek", "comment", "file"} \/ resultFile # NoFile
  PROVE  Results'
  BY DEF Results

LEMMA WinResults == ASSUME Types, Shuffled, Stage, Results, NEW line, Win(line) PROVE Results'
<1> DEFINE ids == {line.nums[k] : k \in DOMAIN line.nums}
<1>1. UNCHANGED <<peopleIndex, resultFile>> /\ pc = "cmd" /\ resultFile = NoFile
  BY DEF Win, Command, AtRest, unchangedByRead, Stage
<1>2. CASE ids \subseteq Procs
  <2>1. /\ gameResult' = [gameResult EXCEPT !.winners = {At(k) : k \in ids}]
        /\ verdict' = [verdict EXCEPT !.kind = "win", !.winners = ids]
        /\ pc' = "scores"
    BY <1>2 DEF Win
  <2> HIDE DEF ids
  <2>2. ASSUME NEW p \in Procs PROVE p \in {At(k) : k \in ids} <=> peopleIndex[p] \in ids
    <3>1. \A k \in ids : At(k) = p <=> peopleIndex[p] = k
      BY <1>2, AtIs, ProcsFacts
    <3> QED
      BY <3>1
  <2>3. gameResult'.winners = {At(k) : k \in ids} /\ verdict'.winners = ids
    BY <2>1 DEF Types, ResultTypes, HistoryTypes
  <2> QED
    BY <1>1, <2>1, <2>2, <2>3 DEF Results
<1>3. CASE ~(ids \subseteq Procs)
  <2>1. Throw("range", Nobody) /\ UNCHANGED <<gameResult, verdict>>
    BY <1>3 DEF Win
  <2>2. pc' = "closing"
    BY <2>1 DEF Throw
  <2> QED
    BY <1>1, <2>1, <2>2, QuietResults
<1> QED
  BY <1>2, <1>3

LEMMA ScoresResults == ASSUME Types, Shuffled, Stage, Results, NEW line, Scores(line) PROVE Results'
<1>1. UNCHANGED <<peopleIndex, resultFile>> /\ pc = "scores" /\ resultFile = NoFile /\ Gets(0, line)
  BY DEF Scores, AtRest, unchangedByRead, Stage
<1>2. line \in Lines
  BY <1>1, GetsType, ProcsFacts DEF Types
<1>3. CASE Len(ScoresOf(line)) = N
  <2>1. /\ verdict' = [verdict EXCEPT !.scores = ScoresOf(line)]
        /\ gameResult'.winners = gameResult.winners
        /\ \A p \in Players : gameResult'.scores[p] = ScoresOf(line)[peopleIndex[p]]
    BY <1>2, <1>3, ScoresFacts
  <2>2. verdict'.scores = ScoresOf(line) /\ verdict'.winners = verdict.winners
    BY <2>1 DEF Types, HistoryTypes
  <2> QED
    BY <1>1, <2>1, <2>2 DEF Results
<1>4. CASE Len(ScoresOf(line)) # N
  <2>1. Throw("not every player scored", Nobody) /\ UNCHANGED <<gameResult, verdict>>
    BY <1>4 DEF Scores
  <2>2. pc' = "closing"
    BY <2>1 DEF Throw
  <2> QED
    BY <1>1, <2>1, <2>2, QuietResults
<1> QED
  BY <1>3, <1>4

LEMMA LinesResults == ASSUME Types, Shuffled, Stage, Results, NEW line, Reads(line) PROVE Results'
<1>1. CASE Send(line) \/ Continue(line) \/ Log(line) \/ Skip(line) \/ SendMessage(line)
           \/ PlayerAnswers(line) \/ LogLine(line)
  <2>1. /\ pc \in {"cmd", "message", "reply", "log"} /\ UNCHANGED <<peopleIndex, resultFile, gameResult, verdict>>
        /\ pc' \in {"cmd", "message", "reply", "log", "closing"}
    BY <1>1 DEF Send, Continue, Log, Skip, Command, SendMessage, PlayerAnswers, LogLine, AtRest,
         Throw, unchangedByRead, historyVars
  <2> QED
    BY <2>1, QuietResults
<1>2. CASE Draw(line)
  <2>1. /\ UNCHANGED <<peopleIndex, resultFile, gameResult>> /\ pc' = "scores"
        /\ verdict' = [verdict EXCEPT !.kind = "draw"]
    BY <1>2 DEF Draw, Command, unchangedByRead
  <2>2. verdict'.winners = verdict.winners /\ verdict'.scores = verdict.scores
    BY <2>1 DEF Types, HistoryTypes
  <2> QED
    BY <2>1, <2>2, QuietResults
<1>3. CASE Comment(line)
  <2>1. /\ UNCHANGED <<peopleIndex, resultFile, verdict>> /\ pc = "comment"
        /\ gameResult' = [gameResult EXCEPT !.comments = IF line.cmd = "blank" THEN "" ELSE "text"]
    BY <1>3 DEF Comment, AtRest, unchangedByRead, historyVars
  <2>2. gameResult'.winners = gameResult.winners /\ gameResult'.scores = gameResult.scores
    BY <2>1 DEF Types, ResultTypes
  <2> QED
    BY <2>1, <2>2, QuietResults
<1> QED
  BY <1>1, <1>2, <1>3, WinResults, ScoresResults DEF Reads

LEMMA NextResults == ASSUME Types, Shuffled, Stage, Results, [Next]_vars PROVE Results'
<1>1. ASSUME NEW line \in NextLine, Reads(line) PROVE Results'
  BY <1>1, LinesResults
<1>2. ASSUME NEW i \in Procs, Child(i) \/ LateReaderFlushes(i) PROVE Results'
  <2>1. UNCHANGED <<peopleIndex, gameResult, verdict, resultFile>> /\ (pc' = pc \/ pc' = "over")
    BY <1>2 DEF Child, LateReaderFlushes, Killed, historyVars
  <2> QED
    BY <2>1, QuietResults
<1>3. CASE Writes
  <2>1. UNCHANGED <<peopleIndex, gameResult, verdict, resultFile>> /\ (pc' = pc \/ pc' \in {"closing", "over"})
    BY <1>3 DEF Writes, PickStream, NoSuchPlayer, WriteLine, WriteBreaks, Throw, Killed, historyVars
  <2> QED
    BY <2>1, QuietResults
<1>4. CASE JudgerTimesOut \/ PlayerTimesOut \/ PeekYes
  <2>1. /\ UNCHANGED <<peopleIndex, gameResult, verdict, resultFile>>
        /\ pc' = "closing" \/ pc = "peek"
    BY <1>4 DEF JudgerTimesOut, PlayerTimesOut, PeekYes, AtRest, Throw, unchangedByRead, historyVars
  <2> QED
    BY <2>1, QuietResults
<1>5. CASE PeekNo
  <2>1. /\ UNCHANGED <<peopleIndex, resultFile, verdict>> /\ pc = "peek"
        /\ gameResult' = [gameResult EXCEPT !.comments =
                            IF verdict.kind = "win" THEN "No comments" ELSE ""]
    BY <1>5 DEF PeekNo, AtRest, unchangedByRead, historyVars
  <2>2. gameResult'.winners = gameResult.winners /\ gameResult'.scores = gameResult.scores
    BY <2>1 DEF Types, ResultTypes
  <2> QED
    BY <2>1, <2>2, QuietResults
<1>6. CASE WriteResult \/ ResultNotWritten \/ SayKill \/ KillAll
  <2>1. /\ UNCHANGED <<peopleIndex, gameResult, verdict>>
        /\ pc' \in {"closing", "grace", "over"}
        /\ pc = "file" \/ UNCHANGED resultFile
    BY <1>6 DEF WriteResult, ResultNotWritten, SayKill, KillAll, Throw, historyVars
  <2> QED
    BY <2>1, QuietResults
<1>7. CASE UNCHANGED vars
  BY <1>7, QuietResults DEF vars, historyVars
<1> QED
  BY <1>1, <1>2, <1>3, <1>4, <1>5, <1>6, <1>7 DEF Next, Main

-----------------------------------------------------------------------------
(* The theorems.                                                           *)

IInv == Types /\ Shuffled /\ Stage /\ Identity /\ Results

LEMMA SetUpPlaces ==
  ASSUME NEW k \in 1 .. 3 * N + 2
  PROVE  \E i \in Procs : \E j \in 1 .. 3 : (i # 0 \/ j # 3) /\ SetUpAll[k] = SetUp(i)[j]
<1>1. CASE k < 3
  BY <1>1, ProcsFacts DEF SetUpAll
<1>2. CASE ~(k < 3)
  <2>1. k \div 3 \in 1 .. N /\ (k % 3) + 1 \in 1 .. 3
    BY <1>2
  <2>2. SetUpAll[k] = SetUp(k \div 3)[(k % 3) + 1]
    BY <1>2 DEF SetUpAll
  <2> QED
    BY <2>1, <2>2 DEF Procs
<1> QED
  BY <1>1, <1>2

LEMMA SetUpFacts ==
  ASSUME Shuffled
  PROVE  SetUpAll \in Seq(Writing) /\ Addressed(peopleIndex, SetUpAll)
         /\ \A k \in DOMAIN SetUpAll : SetUpAll[k].to \in Procs
<1>1. ASSUME NEW i \in Procs, NEW k \in 1 .. 3, i # 0 \/ k # 3
      PROVE  /\ SetUp(i)[k] \in Writing
             /\ Genuine(peopleIndex, SetUp(i)[k].msg)
             /\ SetUp(i)[k].to = i /\ SetUp(i)[k].msg.author = i
  <2>1. /\ Write(i, "n", N) \in Writing /\ Write(i, "folder", 0) \in Writing
        /\ Write(i, "id", peopleIndex[i]) \in Writing
    BY WriteType, ProcsFacts DEF Writing, Shuffled
  <2>2. SetUp(i)[k] \in {Write(i, "n", N), Write(i, "folder", 0), Write(i, "id", peopleIndex[i])}
    <3>1. CASE i = 0
      <4>1. SetUp(i) = <<Write(i, "n", N), Write(i, "folder", 0)>> /\ (k = 1 \/ k = 2)
        BY <1>1, <3>1 DEF SetUp
      <4> QED
        BY <4>1
    <3>2. CASE i # 0
      <4>1. SetUp(i) = <<Write(i, "n", N), Write(i, "id", peopleIndex[i]), Write(i, "folder", 0)>>
            /\ (k = 1 \/ k = 2 \/ k = 3)
        BY <1>1, <3>2 DEF SetUp
      <4> QED
        BY <4>1
    <3> QED
      BY <3>1, <3>2
  <2> QED
    BY <2>1, <2>2 DEF Write, Genuine
<1>3. DOMAIN SetUpAll = 1 .. 3 * N + 2 /\ 3 * N + 2 \in Nat
  BY DEF SetUpAll
<1>4. \A k \in 1 .. 3 * N + 2 : /\ SetUpAll[k] \in Writing
                              /\ Genuine(peopleIndex, SetUpAll[k].msg)
                              /\ SetUpAll[k].to \in Procs
                              /\ SetUpAll[k].msg.author = SetUpAll[k].to
  BY <1>1, SetUpPlaces
<1>5. SetUpAll \in Seq(Writing)
  BY <1>3, <1>4 DEF SetUpAll
<1> QED
  BY <1>3, <1>4, <1>5 DEF Addressed

LEMMA InitIInv == Init => IInv
<1> SUFFICES ASSUME Init PROVE IInv
  OBVIOUS
<1>1. Shuffled
  BY DEF Init, Shuffled
<1>2. todo = SetUpAll /\ todo \in Seq(Writing) /\ Addressed(peopleIndex, todo)
  BY <1>1, SetUpFacts DEF Init
<1>3. Types
  <2>1. ChildTypes /\ TodoType
    BY <1>2 DEF Init, ChildTypes, TodoType
  <2>2. MainTypes
    <3>1. pc = "cmd" /\ playerList = <<>> /\ id = 0
      BY DEF Init
    <3>2. pc \in Reading
      BY <3>1 DEF Reading
    <3>3. playerList \in Seq(Int)
      BY <3>1
    <3>4. id \in Int
      BY <3>1
    <3>5. armed \in BOOLEAN
      BY DEF Init
    <3>6. peopleIndex \in [Procs -> Procs]
      BY <1>1 DEF Shuffled
    <3> QED
      BY <3>2, <3>3, <3>4, <3>5, <3>6 DEF MainTypes
  <2>3. ResultTypes
    BY DEF Init, ResultTypes, Errors, NoError, Players
  <2>4. HistoryTypes
    BY ProcsFacts DEF Init, HistoryTypes
  <2> QED
    BY <2>1, <2>2, <2>3, <2>4 DEF Types
<1>4. Stage
  BY DEF Init, Stage
<1>5. Identity
  BY <1>2, ProcsFacts DEF Init, Identity, AllGenuine, NoError
<1>6. Results
  BY DEF Init, Results
<1> QED
  BY <1>1, <1>3, <1>4, <1>5, <1>6 DEF IInv

LEMMA NextIInv == IInv /\ [Next]_vars => IInv'
  BY NextTyped, NextStage, NextIdentity, NextResults DEF IInv

\* The invariant the theorems rest on holds of every game.
THEOREM AlwaysIInv == Spec => []IInv
  BY InitIInv, NextIInv, PTL DEF Spec

\* Every variable of a game has its type.
THEOREM TypeCorrect == Spec => []TypeOK
<1>1. IInv => TypeOK
  BY TypesAreTyped DEF IInv
<1> QED
  BY <1>1, AlwaysIInv, PTL

\* #continue, for any shuffle: the id on a message the judger receives is the one its
\* author was told, and the player an error names is the one the judger asked.
THEOREM RepliesAreAttributed == Spec => []AnswersAreAttributed
<1>1. IInv => AnswersAreAttributed
  <2> SUFFICES ASSUME IInv PROVE AnswersAreAttributed
    OBVIOUS
  <2>1. ASSUME NEW k \in DOMAIN stdin[0], stdin[0][k].kind = "reply", told[stdin[0][k].author] # 0
        PROVE  stdin[0][k].id = told[stdin[0][k].author]
    <3>1. Genuine(peopleIndex, stdin[0][k])
      BY DEF IInv, Identity, AllGenuine
    <3> QED
      BY <2>1, <3>1 DEF IInv, Identity, Genuine
  <2>2. error.who \in Players /\ told[error.who] # 0 => id = told[error.who]
    BY ProcsFacts DEF IInv, Identity
  <2> QED
    BY <2>1, <2>2 DEF AnswersAreAttributed
<1> QED
  BY <1>1, AlwaysIInv, PTL

\* #win and #draw, for any shuffle and any number of players: what result.json says
\* of a player is what the judger announced for the id that player was told.
THEOREM ResultFileIsTheJudgers == Spec => []ResultIsTheJudgers
<1>1. IInv => ResultIsTheJudgers
  <2> SUFFICES ASSUME IInv, resultFile # NoFile, NEW p \in Players, told[p] # 0
               PROVE  /\ resultFile.scores[p] = verdict.scores[told[p]]
                      /\ p \in resultFile.winners <=> told[p] \in verdict.winners
    BY DEF ResultIsTheJudgers
  <2>1. resultFile = gameResult
    BY DEF IInv, Types, ResultTypes
  <2>2. told[p] = peopleIndex[p]
    BY ProcsFacts DEF IInv, Identity
  <2> QED
    BY <2>1, <2>2, ProcsFacts DEF IInv, Results
<1> QED
  BY <1>1, AlwaysIInv, PTL

\* The exit code of liujdg.run says whether a result was written: no interleaving of
\* errors, time-outs and children that end makes it return 0 without one, or 1 with one.
THEOREM ExitCodeTellsOutcome == Spec => []ExitTellsOutcome
<1>1. IInv => ExitTellsOutcome
  BY DEF IInv, Stage, ExitTellsOutcome
<1> QED
  BY <1>1, AlwaysIInv, PTL
=============================================================================
