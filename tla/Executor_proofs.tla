--------------------------- MODULE Executor_proofs ---------------------------
(***************************************************************************)
(* Proofs about Executor, for any number of tasks, deaths of the daemon    *)
(* and failures of the database.                                           *)
(*                                                                         *)
(* What the properties lack to be inductive is what the two threads rely   *)
(* on: who holds mutex_pro (Locks), what the executor's local variables    *)
(* say about the first task (CurrentTask), that nothing has yet happened   *)
(* to the others (QueueIsFresh), nor to the one being posted (Posting).    *)
(***************************************************************************)
EXTENDS Executor, SequenceTheorems, TLAPS

Locks ==
  /\ exe # "sleep" <=> mutex = "exe"
  /\ http \in {"insert", "push"} <=> mutex = "http"

CurrentTask ==
  /\ type = "NONE" => pro = NoChild
  /\ type # "NONE" => queue # <<>> /\ pro.task = First /\ pro.state # "none"
  /\ type = "BUILD" /\ pro.state = "running" => exits[First] = <<>>
  /\ type = "BUILD" /\ pro.state = "exited" => exits[First] = <<pro.code>>
  /\ type = "RUN" /\ pro.state = "running" => exits[First] = <<0>>
  /\ type = "RUN" /\ pro.state = "exited" => exits[First] = <<0, pro.code>>
  /\ exe = "build" => queue # <<>> /\ type = "NONE"
  /\ exe = "run" => type = "BUILD" /\ pro.state = "exited" /\ pro.code = 0
  /\ exe = "report" => type # "NONE" /\ pro.state = "exited" /\ pro.code # 0
  /\ exe = "pop" => type # "NONE" /\ pro.state = "exited" /\ (type = "RUN" \/ pro.code # 0)

QueueIsFresh ==
  /\ \A j, k \in 1 .. Len(queue) : queue[j] = queue[k] => j = k
  /\ \A k \in 1 .. Len(queue) : k > 1 \/ type = "NONE" => exits[queue[k]] = <<>>
  /\ \A k \in 1 .. Len(queue) : status[queue[k]] # "none"

Posting ==
  /\ http # "idle" => /\ request \in Tasks
                      /\ exits[request] = <<>>
                      /\ request \notin accepted
                      /\ ~Queued(request)
  /\ http = "push" => status[request] # "none"
  /\ \A t \in Tasks : status[t] = "none" => exits[t] = <<>>

IInv ==
  TypeOK /\ Locks /\ CurrentTask /\ QueueIsFresh /\ Posting /\ StatusTellsTruth /\ NothingForgotten

USE ExecutorAssumption

-----------------------------------------------------------------------------
(* Facts about sequences and updates.                                      *)

LEMMA HeadTail ==
  ASSUME NEW S, NEW s \in Seq(S), s # <<>>
  PROVE  /\ Head(s) = s[1] /\ Head(s) \in S
         /\ Len(s) \in Nat /\ Len(s) >= 1 /\ 1 \in 1 .. Len(s)
         /\ Tail(s) \in Seq(S) /\ Len(Tail(s)) = Len(s) - 1
         /\ \A k \in 1 .. Len(Tail(s)) : Tail(s)[k] = s[k + 1]
  OBVIOUS

LEMMA ElementsOf ==
  ASSUME NEW S, NEW s \in Seq(S)
  PROVE  Len(s) \in Nat /\ \A k \in 1 .. Len(s) : s[k] \in S
  OBVIOUS

LEMMA QueuedAreTasks ==
  ASSUME TypeOK
  PROVE  Len(queue) \in Nat /\ \A k \in 1 .. Len(queue) : queue[k] \in Tasks
  BY ElementsOf DEF TypeOK, ThreadTypes

LEMMA OneMore ==
  ASSUME NEW N \in Nat, NEW n \in 0 .. N, n < N
  PROVE  n + 1 \in 0 .. N
  OBVIOUS

LEMMA AppendToOutcome ==
  ASSUME NEW c \in {0, 1}
  PROVE  Append(<<>>, c) = <<c>> /\ Append(<<0>>, c) = <<0, c>>
<1>1. Append(<<>>, c) = <<c>>
  OBVIOUS
<1>2. <<0>> \in Seq({0, 1}) /\ Len(<<0>>) = 1 /\ <<0>>[1] = 0
  OBVIOUS
<1>3. /\ Append(<<0>>, c) \in Seq({0, 1}) /\ Len(Append(<<0>>, c)) = 2
      /\ Append(<<0>>, c)[1] = 0 /\ Append(<<0>>, c)[2] = c
  BY <1>2
<1>4. <<0, c>> \in Seq({0, 1}) /\ Len(<<0, c>>) = 2 /\ <<0, c>>[1] = 0 /\ <<0, c>>[2] = c
  OBVIOUS
<1>5. \A i \in 1 .. 2 : Append(<<0>>, c)[i] = <<0, c>>[i]
  <2>1. \A i \in 1 .. 2 : i = 1 \/ i = 2
    OBVIOUS
  <2> QED
    BY <1>3, <1>4, <2>1
<1>6. Append(<<0>>, c) = <<0, c>>
  BY <1>3, <1>4, <1>5, SeqEqual
<1> QED
  BY <1>1, <1>6

LEMMA NoTaskIsNoTask == NoChild.state = "none" /\ NoChild.task = NoTask /\ NoChild.code = 0
  BY DEF NoChild, Child

(* What an action leaves alone stays true.                                 *)

LEMMA SameTruth ==
  ASSUME StatusTellsTruth, UNCHANGED <<status, exits>>
  PROVE  StatusTellsTruth'
  BY DEF StatusTellsTruth

LEMMA SameForgotten ==
  ASSUME NothingForgotten, UNCHANGED <<queue, exits, accepted, lost>>
  PROVE  NothingForgotten'
<1>1. ASSUME NEW t
      PROVE  /\ QueuedOnce(t)' <=> QueuedOnce(t)
             /\ Queued(t)' <=> Queued(t)
             /\ Over(t)' <=> Over(t)
  BY DEF QueuedOnce, Queued, Over
<1> QED
  BY <1>1 DEF NothingForgotten

LEMMA SameCurrent ==
  ASSUME CurrentTask, UNCHANGED <<queue, type, pro, exe, exits>>
  PROVE  CurrentTask'
  BY DEF CurrentTask, First

LEMMA SameQueue ==
  ASSUME QueueIsFresh, UNCHANGED <<queue, type, exits, status>>
  PROVE  QueueIsFresh'
  BY DEF QueueIsFresh

LEMMA SamePosting ==
  ASSUME Posting, UNCHANGED <<queue, http, request, exits, accepted, status>>
  PROVE  Posting'
  BY DEF Posting, Queued

-----------------------------------------------------------------------------
LEMMA InitIInv == Init => IInv
<1> SUFFICES ASSUME Init PROVE IInv
  OBVIOUS
<1>1. TypeOK
  BY DEF Init, TypeOK, ThreadTypes, RecordTypes, NoChild, Child, Courses, Statuses
<1>2. Locks /\ CurrentTask /\ QueueIsFresh /\ Posting
  BY NoTaskIsNoTask DEF Init, Locks, CurrentTask, QueueIsFresh, Posting
<1>3. StatusTellsTruth /\ NothingForgotten
  BY DEF Init, StatusTellsTruth, NothingForgotten
<1> QED
  BY <1>1, <1>2, <1>3 DEF IInv

-----------------------------------------------------------------------------
(* The HTTP thread.                                                        *)

LEMMA NewIInv == ASSUME IInv, NEW t \in Tasks, New(t) PROVE IInv'
<1> USE DEF New, httpFrame
<1>1. ThreadTypes' /\ RecordTypes'
  BY DEF IInv, TypeOK, ThreadTypes, RecordTypes
<1>2. Locks'
  BY DEF IInv, Locks
<1>3. Posting'
  BY DEF IInv, Posting, QueueIsFresh, Queued
<1>4. CurrentTask' /\ QueueIsFresh' /\ StatusTellsTruth' /\ NothingForgotten'
  BY SameCurrent, SameQueue, SameTruth, SameForgotten DEF IInv
<1> QED
  BY <1>1, <1>2, <1>3, <1>4 DEF IInv, TypeOK

LEMMA NewLocksIInv == ASSUME IInv, NewLocks PROVE IInv'
<1> USE DEF NewLocks, httpFrame
<1>1. ThreadTypes' /\ RecordTypes'
  BY DEF IInv, TypeOK, ThreadTypes, RecordTypes
<1>2. Locks'
  BY DEF IInv, Locks
<1>3. Posting'
  BY DEF IInv, Posting, Queued
<1>4. CurrentTask' /\ QueueIsFresh' /\ StatusTellsTruth' /\ NothingForgotten'
  BY SameCurrent, SameQueue, SameTruth, SameForgotten DEF IInv
<1> QED
  BY <1>1, <1>2, <1>3, <1>4 DEF IInv, TypeOK

LEMMA NewInsertsIInv == ASSUME IInv, NewInserts PROVE IInv'
<1> USE DEF NewInserts, httpFrame
<1>1. request \in Tasks /\ exits[request] = <<>> /\ ~Queued(request) /\ request \notin accepted
  BY DEF IInv, Posting
<1>2. status'[request] = "received" /\ \A t \in Tasks \ {request} : status'[t] = status[t]
  BY <1>1 DEF IInv, TypeOK, RecordTypes, DbWrites
<1>3. ThreadTypes' /\ RecordTypes'
  BY <1>1 DEF IInv, TypeOK, ThreadTypes, RecordTypes, Statuses, DbWrites
<1>4. Locks'
  BY DEF IInv, Locks
<1>5. QueueIsFresh'
  <2>1. \A k \in 1 .. Len(queue) : queue[k] \in Tasks /\ queue[k] # request
    BY <1>1, QueuedAreTasks DEF IInv, Queued
  <2>2. \A k \in 1 .. Len(queue) : status'[queue[k]] # "none"
    BY <1>2, <2>1 DEF IInv, QueueIsFresh
  <2> QED
    BY <2>2 DEF IInv, QueueIsFresh
<1>6. Posting'
  BY <1>1, <1>2 DEF IInv, Posting, Queued
<1>7. StatusTellsTruth'
  BY <1>2 DEF IInv, StatusTellsTruth
<1>8. CurrentTask' /\ NothingForgotten'
  BY SameCurrent, SameForgotten DEF IInv
<1> QED
  BY <1>3, <1>4, <1>5, <1>6, <1>7, <1>8 DEF IInv, TypeOK

LEMMA NewFailsIInv == ASSUME IInv, NewFails PROVE IInv'
<1> USE DEF NewFails, DbFails, httpFrame
<1>1. ThreadTypes' /\ RecordTypes'
  <2>1. dbFailures \in 0 .. MaxDbFailures
    BY DEF IInv, TypeOK, RecordTypes
  <2>2. dbFailures' \in 0 .. MaxDbFailures
    BY <2>1, OneMore
  <2> QED
    BY <2>2 DEF IInv, TypeOK, ThreadTypes, RecordTypes
<1>2. Locks'
  BY DEF IInv, Locks
<1>3. Posting'
  BY DEF IInv, Posting
<1>4. CurrentTask' /\ QueueIsFresh' /\ StatusTellsTruth' /\ NothingForgotten'
  BY SameCurrent, SameQueue, SameTruth, SameForgotten DEF IInv
<1> QED
  BY <1>1, <1>2, <1>3, <1>4 DEF IInv, TypeOK

\* The task goes to the end of a queue it was not in.
LEMMA NewPushesIInv == ASSUME IInv, NewPushes PROVE IInv'
<1> USE DEF NewPushes, httpFrame
<1>1. /\ request \in Tasks /\ exits[request] = <<>> /\ ~Queued(request)
      /\ request \notin accepted /\ status[request] # "none"
  BY DEF IInv, Posting
<1>2. /\ queue' \in Seq(Tasks) /\ Len(queue) \in Nat /\ Len(queue') = Len(queue) + 1
      /\ \A k \in 1 .. Len(queue) : queue'[k] = queue[k]
      /\ queue'[Len(queue) + 1] = request
      /\ queue' # <<>> /\ (queue # <<>> => Head(queue') = Head(queue))
  <2>1. queue \in Seq(Tasks)
    BY DEF IInv, TypeOK, ThreadTypes
  <2> QED
    BY <1>1, <2>1
<1>3. \A k \in 1 .. Len(queue) : queue[k] # request
  BY <1>1 DEF Queued
<1>4. ThreadTypes' /\ RecordTypes'
  BY <1>1, <1>2 DEF IInv, TypeOK, ThreadTypes, RecordTypes
<1>5. Locks'
  BY DEF IInv, Locks
<1>6. CurrentTask'
  BY <1>2 DEF IInv, CurrentTask, First
<1>7. QueueIsFresh'
  <2>1. \A j, k \in 1 .. Len(queue') : queue'[j] = queue'[k] => j = k
    BY <1>2, <1>3 DEF IInv, QueueIsFresh
  <2>2. \A k \in 1 .. Len(queue') : k > 1 \/ type = "NONE" => exits[queue'[k]] = <<>>
    BY <1>1, <1>2 DEF IInv, QueueIsFresh
  <2>3. \A k \in 1 .. Len(queue') : status[queue'[k]] # "none"
    BY <1>1, <1>2 DEF IInv, QueueIsFresh
  <2> QED
    BY <2>1, <2>2, <2>3 DEF QueueIsFresh
<1>8. Posting'
  BY DEF IInv, Posting
<1>9. NothingForgotten'
  <2>1. ASSUME NEW t, t = request
        PROVE  QueuedOnce(t)'
    <3>1. Len(queue) + 1 \in 1 .. Len(queue')
      BY <1>2
    <3>2. \A j \in 1 .. Len(queue') : queue'[j] = t <=> j = Len(queue) + 1
      BY <1>2, <1>3, <2>1
    <3> QED
      BY <3>1, <3>2 DEF QueuedOnce
  <2>2. ASSUME NEW t \in accepted, QueuedOnce(t)
        PROVE  QueuedOnce(t)'
    <3>1. PICK k \in 1 .. Len(queue) : \A j \in 1 .. Len(queue) : queue[j] = t <=> j = k
      BY <2>2 DEF QueuedOnce
    <3>2. k \in 1 .. Len(queue') /\ \A j \in 1 .. Len(queue') : queue'[j] = t <=> j = k
      BY <1>1, <1>2, <3>1
    <3> QED
      BY <3>2 DEF QueuedOnce
  <2>3. ASSUME NEW t \in accepted, ~Queued(t)
        PROVE  ~Queued(t)'
    BY <1>1, <1>2, <2>3 DEF Queued
  <2>4. ASSUME NEW t \in accepted
        PROVE  Over(t)' <=> Over(t)
    BY DEF Over
  <2>5. ASSUME NEW t \in accepted
        PROVE  QueuedOnce(t)' \/ (~Queued(t)' /\ (Over(t)' \/ t \in lost'))
    BY <2>2, <2>3, <2>4, <2>5 DEF IInv, NothingForgotten
  <2> QED
    BY <2>1, <2>5 DEF NothingForgotten
<1>10. StatusTellsTruth'
  BY SameTruth DEF IInv
<1> QED
  BY <1>4, <1>5, <1>6, <1>7, <1>8, <1>9, <1>10 DEF IInv, TypeOK

LEMMA GetIInv == ASSUME IInv, NEW t \in Tasks, Get(t) PROVE IInv'
<1>1. UNCHANGED <<alive, type, pro, exe, crashes, lost, exits, queue, mutex, http, request,
                  accepted, status>>
  BY DEF Get, httpFrame, DbFails
<1>2. ThreadTypes'
  BY <1>1 DEF IInv, TypeOK, ThreadTypes
<1>3. RecordTypes'
  <2>1. seen' \in [Tasks -> Statuses \cup {"error", ""}] /\ dbFailures' \in 0 .. MaxDbFailures
    <3>1. /\ seen \in [Tasks -> Statuses \cup {"error", ""}] /\ status \in [Tasks -> Statuses]
          /\ dbFailures \in 0 .. MaxDbFailures
      BY DEF IInv, TypeOK, RecordTypes
    <3>2. CASE DbFails /\ UNCHANGED seen
      BY ONLY <3>1, <3>2, OneMore, ExecutorAssumption DEF DbFails, ExecutorAssumption
    <3>3. CASE /\ \E answer \in IF status[t] = "none" THEN {"error", ""} ELSE {status[t]} :
                    seen' = [seen EXCEPT ![t] = answer]
               /\ UNCHANGED <<status, dbFailures>>
      BY <3>1, <3>3
    <3> QED
      BY <3>2, <3>3 DEF Get
  <2> QED
    BY <1>1, <2>1 DEF IInv, TypeOK, RecordTypes
<1>4. Locks'
  BY <1>1 DEF IInv, Locks
<1>5. CurrentTask' /\ QueueIsFresh' /\ Posting' /\ StatusTellsTruth' /\ NothingForgotten'
  BY <1>1, SameCurrent, SameQueue, SamePosting, SameTruth, SameForgotten DEF IInv
<1> QED
  BY <1>2, <1>3, <1>4, <1>5 DEF IInv, TypeOK

-----------------------------------------------------------------------------
(* The executor thread.                                                    *)

LEMMA FirstIsQueued ==
  ASSUME TypeOK, queue # <<>>
  PROVE  First \in Tasks /\ First = queue[1] /\ Len(queue) \in Nat /\ 1 \in 1 .. Len(queue)
  BY HeadTail DEF TypeOK, ThreadTypes, First

LEMMA WakeIInv == ASSUME IInv, Wake PROVE IInv'
<1> USE DEF Wake, exeFrame
<1>1. ThreadTypes' /\ RecordTypes'
  BY DEF IInv, TypeOK, ThreadTypes, RecordTypes
<1>2. Locks'
  BY DEF IInv, Locks
<1>3. CurrentTask'
  BY DEF IInv, CurrentTask, First
<1>4. QueueIsFresh' /\ Posting' /\ StatusTellsTruth' /\ NothingForgotten'
  BY SameQueue, SamePosting, SameTruth, SameForgotten DEF IInv
<1> QED
  BY <1>1, <1>2, <1>3, <1>4 DEF IInv, TypeOK

LEMMA NothingToDoIInv == ASSUME IInv, NothingToDo PROVE IInv'
<1> USE DEF NothingToDo, Sleeps, exeFrame
<1>1. ThreadTypes' /\ RecordTypes'
  BY DEF IInv, TypeOK, ThreadTypes, RecordTypes
<1>2. Locks'
  BY DEF IInv, Locks
<1>3. CurrentTask'
  BY DEF IInv, CurrentTask, First
<1>4. QueueIsFresh' /\ Posting' /\ StatusTellsTruth' /\ NothingForgotten'
  BY SameQueue, SamePosting, SameTruth, SameForgotten DEF IInv
<1> QED
  BY <1>1, <1>2, <1>3, <1>4 DEF IInv, TypeOK

\* What s says of the first task, if it is written, is true.
IsTrueOfFirst(s) ==
  /\ s \in {"building", "running", "fulfilled", "runtimeError", "buildError"}
  /\ s = "running" => exits[First] # <<>> /\ exits[First][1] = 0
  /\ s = "fulfilled" => exits[First] = <<0, 0>>
  /\ s = "runtimeError" => exits[First] = <<0, 1>>
  /\ s = "buildError" => exits[First] = <<1>>

\* The five actions of the executor that write a status.
LEMMA UpdateStep ==
  ASSUME IInv, exe = "locked", queue # <<>>,
         NEW s, IsTrueOfFirst(s), Update(First, s),
         UNCHANGED <<exeFrame, queue, mutex, type, pro>>,
         exe' \in {"build", "run", "report", "pop"}
  PROVE  TypeOK' /\ Locks' /\ QueueIsFresh' /\ Posting' /\ StatusTellsTruth' /\ NothingForgotten'
<1> USE DEF exeFrame
<1>1. First \in Tasks
  BY FirstIsQueued DEF IInv
<1>2. s \in Statuses /\ s # "none"
  BY DEF IsTrueOfFirst, Statuses
<1>3. status' \in [Tasks -> Statuses] /\ dbFailures' \in 0 .. MaxDbFailures
  <2>1. status \in [Tasks -> Statuses] /\ dbFailures \in 0 .. MaxDbFailures
    BY DEF IInv, TypeOK, RecordTypes
  <2>2. CASE DbWrites(First, s)
    BY ONLY <1>1, <1>2, <2>1, <2>2 DEF DbWrites
  <2>3. CASE DbFails
    BY ONLY <2>1, <2>3, OneMore, ExecutorAssumption DEF DbFails, ExecutorAssumption
  <2> QED
    BY <2>2, <2>3 DEF Update
<1>4. \A t \in Tasks : status'[t] = status[t] \/ (t = First /\ status'[t] = s)
  BY <1>1 DEF IInv, TypeOK, RecordTypes, Update, DbWrites, DbFails
<1>5. ThreadTypes' /\ RecordTypes'
  <2>1. ThreadTypes'
    BY DEF IInv, TypeOK, ThreadTypes
  <2>2. RecordTypes'
    BY <1>3 DEF IInv, TypeOK, RecordTypes
  <2> QED
    BY <2>1, <2>2
<1>6. Locks'
  BY DEF IInv, Locks
<1>7. QueueIsFresh'
  <2>1. \A k \in 1 .. Len(queue) : status'[queue[k]] # "none"
    BY <1>2, <1>4, QueuedAreTasks DEF IInv, QueueIsFresh
  <2> QED
    BY <2>1 DEF IInv, QueueIsFresh
<1>8. Posting'
  BY <1>2, <1>4 DEF IInv, Posting, Queued
<1>9. StatusTellsTruth'
  <2> SUFFICES ASSUME NEW t \in Tasks
               PROVE  /\ status'[t] = "running" => exits[t] # <<>> /\ exits[t][1] = 0
                      /\ status'[t] = "fulfilled" => exits[t] = <<0, 0>>
                      /\ status'[t] = "runtimeError" => exits[t] = <<0, 1>>
                      /\ status'[t] = "buildError" => exits[t] = <<1>>
    BY DEF StatusTellsTruth
  <2>1. CASE status'[t] = status[t]
    BY <2>1 DEF IInv, StatusTellsTruth
  <2>2. CASE t = First /\ status'[t] = s
    BY <2>2 DEF IsTrueOfFirst
  <2> QED
    BY <1>4, <2>1, <2>2
<1>10. NothingForgotten'
  BY SameForgotten DEF IInv
<1> QED
  BY <1>5, <1>6, <1>7, <1>8, <1>9, <1>10 DEF TypeOK

LEMMA StartBuildIInv == ASSUME IInv, StartBuild PROVE IInv'
<1>1. IsTrueOfFirst("building")
  BY DEF IsTrueOfFirst
<1>2. CurrentTask'
  BY DEF StartBuild, exeFrame, IInv, CurrentTask, First
<1> QED
  BY <1>1, <1>2, UpdateStep DEF StartBuild, IInv

LEMMA BuildSucceededIInv == ASSUME IInv, BuildSucceeded PROVE IInv'
<1> USE DEF BuildSucceeded, Exited
<1>1. exits[First] = <<0>>
  BY DEF IInv, CurrentTask
<1>2. IsTrueOfFirst("running")
  BY <1>1 DEF IsTrueOfFirst
<1>3. CurrentTask'
  BY DEF exeFrame, IInv, CurrentTask, First
<1> QED
  BY <1>2, <1>3, UpdateStep DEF IInv

LEMMA RunSucceededIInv == ASSUME IInv, RunSucceeded PROVE IInv'
<1> USE DEF RunSucceeded, Exited
<1>1. exits[First] = <<0, 0>>
  BY DEF IInv, CurrentTask
<1>2. IsTrueOfFirst("fulfilled")
  BY <1>1 DEF IsTrueOfFirst
<1>3. CurrentTask'
  BY DEF exeFrame, IInv, CurrentTask, First
<1> QED
  BY <1>2, <1>3, UpdateStep DEF IInv

LEMMA BuildFailedIInv == ASSUME IInv, BuildFailed PROVE IInv'
<1> USE DEF BuildFailed, Exited
<1>1. pro.code = 1
  BY DEF IInv, TypeOK, ThreadTypes
<1>2. exits[First] = <<1>>
  BY <1>1 DEF IInv, CurrentTask
<1>3. IsTrueOfFirst("buildError")
  BY <1>2 DEF IsTrueOfFirst
<1>4. CurrentTask'
  BY DEF exeFrame, IInv, CurrentTask, First
<1> QED
  BY <1>3, <1>4, UpdateStep DEF IInv

LEMMA RunFailedIInv == ASSUME IInv, RunFailed PROVE IInv'
<1> USE DEF RunFailed, Exited
<1>1. pro.code = 1
  BY DEF IInv, TypeOK, ThreadTypes
<1>2. exits[First] = <<0, 1>>
  BY <1>1 DEF IInv, CurrentTask
<1>3. IsTrueOfFirst("runtimeError")
  BY <1>2 DEF IsTrueOfFirst
<1>4. CurrentTask'
  BY DEF exeFrame, IInv, CurrentTask, First
<1> QED
  BY <1>3, <1>4, UpdateStep DEF IInv

LEMMA ReportIInv == ASSUME IInv, Report PROVE IInv'
<1> USE DEF Report, exeFrame
<1>1. ThreadTypes' /\ RecordTypes'
  BY DEF IInv, TypeOK, ThreadTypes, RecordTypes
<1>2. Locks'
  BY DEF IInv, Locks
<1>3. CurrentTask'
  BY DEF IInv, CurrentTask, First
<1>4. QueueIsFresh' /\ Posting' /\ StatusTellsTruth' /\ NothingForgotten'
  BY SameQueue, SamePosting, SameTruth, SameForgotten DEF IInv
<1> QED
  BY <1>1, <1>2, <1>3, <1>4 DEF IInv, TypeOK

\* What a launch does whatever its kind; CurrentTask needs the kind.
LEMMA LaunchStep ==
  ASSUME IInv, NEW kind \in {"BUILD", "RUN"}, Launch(kind),
         exe \in {"build", "run"}, queue # <<>>
  PROVE  /\ TypeOK' /\ Locks' /\ QueueIsFresh' /\ Posting' /\ StatusTellsTruth' /\ NothingForgotten'
         /\ pro'.state = "running" /\ pro'.task = First /\ type' = kind /\ exe' = "sleep"
         /\ UNCHANGED <<queue, exits>>
<1> USE DEF Launch, Sleeps, exeFrame
<1>1. PICK c \in Courses : pro' = Child(First, "running", c, 0)
  BY DEF ExecutorAssumption
<1>2. First \in Tasks
  BY FirstIsQueued DEF IInv
<1>3. ThreadTypes'
  BY <1>1, <1>2 DEF IInv, TypeOK, ThreadTypes, Child
<1>4. RecordTypes'
  BY DEF IInv, TypeOK, RecordTypes
<1>5. Locks'
  BY DEF IInv, Locks
<1>6. QueueIsFresh'
  BY DEF IInv, QueueIsFresh
<1>7. Posting' /\ StatusTellsTruth' /\ NothingForgotten'
  BY SamePosting, SameTruth, SameForgotten DEF IInv
<1> QED
  BY <1>1, <1>3, <1>4, <1>5, <1>6, <1>7 DEF TypeOK, Child

LEMMA LaunchBuildIInv == ASSUME IInv, LaunchBuild PROVE IInv'
<1>1. Launch("BUILD") /\ exe = "build" /\ queue # <<>> /\ type = "NONE"
  BY DEF LaunchBuild, IInv, CurrentTask
<1>2. exits[First] = <<>>
  BY <1>1, FirstIsQueued DEF IInv, QueueIsFresh
<1>3. CurrentTask'
  BY <1>1, <1>2, LaunchStep DEF CurrentTask, First
<1> QED
  BY <1>1, <1>3, LaunchStep DEF IInv

LEMMA LaunchRunIInv == ASSUME IInv, LaunchRun PROVE IInv'
<1>1. /\ Launch("RUN") /\ exe = "run" /\ queue # <<>>
      /\ type = "BUILD" /\ pro.state = "exited" /\ pro.code = 0
  BY DEF LaunchRun, IInv, CurrentTask
<1>2. exits[First] = <<0>>
  BY <1>1 DEF IInv, CurrentTask
<1>3. CurrentTask'
  BY <1>1, <1>2, LaunchStep DEF CurrentTask, First
<1> QED
  BY <1>1, <1>3, LaunchStep DEF IInv

\* The executor leaves only a task that is over.
LEMMA PoppedIsOver ==
  ASSUME TypeOK, CurrentTask, exe \in {"report", "pop"}
  PROVE  queue # <<>> /\ Over(First)
<1>1. pro.code \in {0, 1} /\ type \in {"NONE", "BUILD", "RUN"}
  BY DEF TypeOK, ThreadTypes
<1>2. queue # <<>> /\ type # "NONE" /\ pro.state = "exited" /\ (type = "RUN" \/ pro.code # 0)
  BY <1>1 DEF CurrentTask
<1>3. CASE type = "RUN"
  BY <1>1, <1>2, <1>3 DEF CurrentTask, Over
<1>4. CASE type = "BUILD"
  BY <1>1, <1>2, <1>4 DEF CurrentTask, Over
<1> QED
  BY <1>1, <1>2, <1>3, <1>4

LEMMA PopIInv == ASSUME IInv, Pop PROVE IInv'
<1> USE DEF Pop, Sleeps, exeFrame
<1>1. queue # <<>> /\ Over(First) /\ First = queue[1]
  BY PoppedIsOver, FirstIsQueued DEF IInv
<1>2. /\ queue' \in Seq(Tasks) /\ Len(queue) \in Nat /\ Len(queue') = Len(queue) - 1
      /\ \A k \in 1 .. Len(queue') : queue'[k] = queue[k + 1]
  BY <1>1, HeadTail DEF IInv, TypeOK, ThreadTypes
<1>3. \A k \in 1 .. Len(queue') : k + 1 \in 1 .. Len(queue) /\ k + 1 > 1
  BY <1>2
<1>4. \A k \in 1 .. Len(queue) : k = 1 \/ (k - 1 \in 1 .. Len(queue') /\ (k - 1) + 1 = k)
  BY <1>2
<1>5. ThreadTypes'
  BY <1>2 DEF IInv, TypeOK, ThreadTypes, NoChild, Child, Courses
<1>6. RecordTypes'
  BY DEF IInv, TypeOK, RecordTypes
<1>7. Locks'
  BY DEF IInv, Locks
<1>8. CurrentTask'
  BY NoTaskIsNoTask DEF CurrentTask
<1>9. QueueIsFresh'
  <2>1. \A j, k \in 1 .. Len(queue') : queue'[j] = queue'[k] => j = k
    <3> SUFFICES ASSUME NEW j \in 1 .. Len(queue'), NEW k \in 1 .. Len(queue'),
                        queue'[j] = queue'[k]
                 PROVE  j = k
      OBVIOUS
    <3>1. j + 1 = k + 1
      BY <1>2, <1>3 DEF IInv, QueueIsFresh
    <3> QED
      BY <3>1, <1>2
  <2>2. \A k \in 1 .. Len(queue') : exits[queue'[k]] = <<>> /\ status[queue'[k]] # "none"
    BY <1>2, <1>3 DEF IInv, QueueIsFresh
  <2> QED
    BY <2>1, <2>2 DEF QueueIsFresh
<1>10. ASSUME NEW t, ~Queued(t)
       PROVE  ~Queued(t)'
  BY <1>2, <1>3, <1>10 DEF Queued
<1>11. Posting'
  BY <1>10 DEF IInv, Posting
<1>12. StatusTellsTruth'
  BY SameTruth DEF IInv
<1>13. NothingForgotten'
  <2>1. ASSUME NEW t, t = First
        PROVE  ~Queued(t)' /\ Over(t)'
    <3>1. \A k \in 1 .. Len(queue') : queue'[k] # queue[1]
      BY <1>2, <1>3 DEF IInv, QueueIsFresh
    <3>2. ~Queued(t)'
      BY <1>1, <2>1, <3>1 DEF Queued
    <3>3. Over(t)'
      BY <1>1, <2>1 DEF Over
    <3> QED
      BY <3>2, <3>3
  <2>2. ASSUME NEW t, t # First, QueuedOnce(t)
        PROVE  QueuedOnce(t)'
    <3>1. PICK k \in 1 .. Len(queue) : \A j \in 1 .. Len(queue) : queue[j] = t <=> j = k
      BY <2>2 DEF QueuedOnce
    <3>2. k # 1
      BY <1>1, <2>2, <3>1
    <3>3. k - 1 \in 1 .. Len(queue') /\ \A j \in 1 .. Len(queue') : queue'[j] = t <=> j = k - 1
      BY <1>2, <1>3, <1>4, <3>1, <3>2
    <3> QED
      BY <3>3 DEF QueuedOnce
  <2>3. ASSUME NEW t
        PROVE  Over(t)' <=> Over(t)
    BY DEF Over
  <2>4. ASSUME NEW t \in accepted
        PROVE  QueuedOnce(t)' \/ (~Queued(t)' /\ (Over(t)' \/ t \in lost'))
    BY <1>10, <2>1, <2>2, <2>3 DEF IInv, NothingForgotten
  <2> QED
    BY <2>4 DEF NothingForgotten
<1> QED
  BY <1>5, <1>6, <1>7, <1>8, <1>9, <1>11, <1>12, <1>13 DEF IInv, TypeOK

-----------------------------------------------------------------------------
(* The child, and the life of the daemon.                                  *)

LEMMA ChildExitsIInv == ASSUME IInv, ChildExits PROVE IInv'
<1> USE DEF ChildExits
<1>1. PICK code \in {0, 1} : /\ pro' = [pro EXCEPT !.state = "exited", !.code = code]
                             /\ exits' = [exits EXCEPT ![pro.task] = Append(@, code)]
  OBVIOUS
<1>2. type # "NONE" /\ queue # <<>> /\ pro.task = First /\ pro.state = "running"
  BY NoTaskIsNoTask DEF IInv, CurrentTask
<1>3. First \in Tasks /\ First = queue[1] /\ 1 \in 1 .. Len(queue) /\ Len(queue) \in Nat
  BY <1>2, FirstIsQueued DEF IInv
<1>4. /\ pro' \in [task : Tasks \cup {NoTask}, state : {"none", "running", "exited"},
                   course : Courses, code : {0, 1}]
      /\ pro'.task = First /\ pro'.state = "exited" /\ pro'.code = code
  BY <1>1, <1>2 DEF IInv, TypeOK, ThreadTypes
<1>5. /\ exits' \in [Tasks -> Seq({0, 1})]
      /\ exits'[First] = Append(exits[First], code)
      /\ \A t \in Tasks \ {First} : exits'[t] = exits[t]
  <2>1. exits \in [Tasks -> Seq({0, 1})]
    BY DEF IInv, TypeOK, RecordTypes
  <2>2. Append(exits[First], code) \in Seq({0, 1})
    BY <1>3, <2>1
  <2> QED
    BY <1>1, <1>2, <1>3, <2>1, <2>2
<1>6. \/ type = "BUILD" /\ exits[First] = <<>> /\ exits'[First] = <<code>>
      \/ type = "RUN" /\ exits[First] = <<0>> /\ exits'[First] = <<0, code>>
  <2>1. CASE type = "BUILD"
    <3>1. exits[First] = <<>>
      BY <1>2, <2>1 DEF IInv, CurrentTask
    <3>2. exits'[First] = <<code>>
      BY <1>5, <3>1, AppendToOutcome
    <3> QED
      BY <2>1, <3>1, <3>2
  <2>2. CASE type = "RUN"
    <3>1. exits[First] = <<0>>
      BY <1>2, <2>2 DEF IInv, CurrentTask
    <3>2. exits'[First] = <<0, code>>
      BY <1>5, <3>1, AppendToOutcome
    <3> QED
      BY <2>2, <3>1, <3>2
  <2> QED
    BY <1>2, <2>1, <2>2 DEF IInv, TypeOK, ThreadTypes
<1>7. ThreadTypes'
  BY <1>4 DEF IInv, TypeOK, ThreadTypes
<1>8. RecordTypes'
  BY <1>5 DEF IInv, TypeOK, RecordTypes
<1>9. Locks'
  BY DEF IInv, Locks
<1>10. CurrentTask'
  <2>1. exe \in {"sleep", "locked"}
    BY <1>2 DEF IInv, CurrentTask, TypeOK, ThreadTypes
  <2> QED
    BY <1>2, <1>4, <1>6, <2>1 DEF CurrentTask, First
<1>11. \A k \in 1 .. Len(queue) : queue[k] \in Tasks /\ (k # 1 => queue[k] # First)
  BY <1>3, QueuedAreTasks DEF IInv, QueueIsFresh
<1>12. QueueIsFresh'
  BY <1>2, <1>5, <1>11 DEF IInv, QueueIsFresh
<1>13. Posting'
  <2>1. http # "idle" => request # First
    BY <1>3 DEF IInv, Posting, Queued
  <2>2. status[First] # "none"
    BY <1>3 DEF IInv, QueueIsFresh
  <2> QED
    BY <1>5, <2>1, <2>2 DEF IInv, Posting, Queued
<1>14. StatusTellsTruth'
  <2>1. ASSUME NEW t \in Tasks
        PROVE  /\ status[t] = "running" => exits'[t] # <<>> /\ exits'[t][1] = 0
               /\ status[t] = "fulfilled" => exits'[t] = <<0, 0>>
               /\ status[t] = "runtimeError" => exits'[t] = <<0, 1>>
               /\ status[t] = "buildError" => exits'[t] = <<1>>
    <3>1. CASE t = First
      BY <1>6, <3>1 DEF IInv, StatusTellsTruth
    <3>2. CASE t # First
      BY <1>5, <3>2 DEF IInv, StatusTellsTruth
    <3> QED
      BY <3>1, <3>2
  <2> QED
    BY <2>1 DEF StatusTellsTruth
<1>15. NothingForgotten'
  <2>1. ASSUME NEW t
        PROVE  (QueuedOnce(t)' <=> QueuedOnce(t)) /\ (Queued(t)' <=> Queued(t))
    BY DEF QueuedOnce, Queued
  <2>2. Queued(First)
    BY <1>3 DEF Queued
  <2>3. ASSUME NEW t \in accepted, t # First
        PROVE  Over(t)' <=> Over(t)
    BY <1>5, <2>3 DEF Over, IInv, TypeOK, RecordTypes
  <2> QED
    BY <2>1, <2>2, <2>3 DEF IInv, NothingForgotten
<1> QED
  BY <1>7, <1>8, <1>9, <1>10, <1>12, <1>13, <1>14, <1>15 DEF IInv, TypeOK

LEMMA DieIInv == ASSUME IInv, Die, crashes < MaxCrashes PROVE IInv'
<1> USE DEF Die
<1>1. Unfinished \subseteq Tasks
  <2>1. DOMAIN queue = 1 .. Len(queue)
    BY DEF IInv, TypeOK, ThreadTypes
  <2>2. http = "push" => request \in Tasks
    BY DEF IInv, Posting
  <2> QED
    BY <2>1, <2>2, QueuedAreTasks DEF Unfinished, IInv
<1>2. ThreadTypes'
  <2>1. pro' \in [task : Tasks \cup {NoTask}, state : {"none", "running", "exited"},
                 course : Courses, code : {0, 1}]
    BY DEF NoChild, Child, Courses
  <2>2. queue' \in Seq(Tasks) /\ request' \in Tasks \cup {NoTask}
    OBVIOUS
  <2> QED
    BY <2>1, <2>2 DEF ThreadTypes
<1>3. RecordTypes'
  <2>1. crashes \in 0 .. MaxCrashes
    BY DEF IInv, TypeOK, RecordTypes
  <2>2. crashes' \in 0 .. MaxCrashes
    BY <2>1, OneMore
  <2> QED
    BY <1>1, <2>2 DEF IInv, TypeOK, RecordTypes
<1>4. Locks'
  BY DEF Locks
<1>5. CurrentTask'
  BY NoTaskIsNoTask DEF CurrentTask
<1>6. QueueIsFresh'
  BY DEF QueueIsFresh
<1>7. Posting'
  BY DEF IInv, Posting
<1>8. StatusTellsTruth'
  BY SameTruth DEF IInv
<1>9. NothingForgotten'
  <2>1. ASSUME NEW t
        PROVE  ~Queued(t)' /\ (Over(t)' <=> Over(t))
    BY DEF Queued, Over
  <2>2. ASSUME NEW t, QueuedOnce(t), ~Over(t)
        PROVE  t \in lost'
    <3>1. PICK k \in 1 .. Len(queue) : queue[k] = t
      BY <2>2 DEF QueuedOnce
    <3>2. DOMAIN queue = 1 .. Len(queue) /\ Len(queue) \in Nat
      BY DEF IInv, TypeOK, ThreadTypes
    <3>3. k > 1 \/ exe \notin {"report", "pop"}
      <4> SUFFICES ASSUME k = 1, exe \in {"report", "pop"} PROVE FALSE
        BY <3>2
      <4>1. Over(First) /\ First = queue[1]
        BY PoppedIsOver, FirstIsQueued DEF IInv
      <4> QED
        BY <2>2, <3>1, <4>1
    <3>4. t \in Unfinished
      BY <3>1, <3>2, <3>3 DEF Unfinished
    <3> QED
      BY <3>4
  <2>3. lost \subseteq lost'
    OBVIOUS
  <2>4. ASSUME NEW t \in accepted
        PROVE  ~Queued(t)' /\ (Over(t)' \/ t \in lost')
    BY <2>1, <2>2, <2>3 DEF IInv, NothingForgotten
  <2> QED
    BY <2>4 DEF NothingForgotten
<1> QED
  BY <1>2, <1>3, <1>4, <1>5, <1>6, <1>7, <1>8, <1>9 DEF IInv, TypeOK

LEMMA RestartIInv == ASSUME IInv, Restart PROVE IInv'
<1> USE DEF Restart
<1>1. ThreadTypes' /\ RecordTypes'
  <2>1. ThreadTypes'
    BY DEF IInv, TypeOK, ThreadTypes
  <2>2. RecordTypes'
    BY DEF IInv, TypeOK, RecordTypes
  <2> QED
    BY <2>1, <2>2
<1>2. Locks'
  BY DEF IInv, Locks
<1>3. CurrentTask' /\ QueueIsFresh' /\ Posting' /\ StatusTellsTruth' /\ NothingForgotten'
  BY SameCurrent, SameQueue, SamePosting, SameTruth, SameForgotten DEF IInv
<1> QED
  BY <1>1, <1>2, <1>3 DEF IInv, TypeOK

LEMMA StutterIInv == ASSUME IInv, UNCHANGED vars PROVE IInv'
<1> USE DEF vars
<1>1. ThreadTypes' /\ RecordTypes'
  <2>1. ThreadTypes'
    BY DEF IInv, TypeOK, ThreadTypes
  <2>2. RecordTypes'
    BY DEF IInv, TypeOK, RecordTypes
  <2> QED
    BY <2>1, <2>2
<1>2. Locks'
  BY DEF IInv, Locks
<1>3. CurrentTask' /\ QueueIsFresh' /\ Posting' /\ StatusTellsTruth' /\ NothingForgotten'
  BY SameCurrent, SameQueue, SamePosting, SameTruth, SameForgotten DEF IInv
<1> QED
  BY <1>1, <1>2, <1>3 DEF IInv, TypeOK

LEMMA NextIInv == ASSUME IInv, [Next]_vars PROVE IInv'
<1>1. CASE \E t \in Tasks : New(t) \/ Get(t)
  BY <1>1, NewIInv, GetIInv
<1>2. CASE Http
  BY <1>2, NewLocksIInv, NewInsertsIInv, NewFailsIInv, NewPushesIInv DEF Http
<1>3. CASE Wake
  BY <1>3, WakeIInv
<1>4. CASE Exe
  BY <1>4, NothingToDoIInv, StartBuildIInv, LaunchBuildIInv, LaunchRunIInv, BuildSucceededIInv,
     RunSucceededIInv, BuildFailedIInv, RunFailedIInv, ReportIInv, PopIInv DEF Exe
<1>5. CASE ChildExits
  BY <1>5, ChildExitsIInv
<1>6. CASE LaunchThrows \/ Crash
  BY <1>6, DieIInv DEF LaunchThrows, Crash
<1>7. CASE Restart
  BY <1>7, RestartIInv
<1>8. CASE UNCHANGED vars
  BY <1>8, StutterIInv
<1> QED
  BY <1>1, <1>2, <1>3, <1>4, <1>5, <1>6, <1>7, <1>8 DEF Next

LEMMA Inductive == Spec => []IInv
  BY InitIInv, NextIInv, PTL DEF Spec

-----------------------------------------------------------------------------
\* The threads, the child, the database and the history keep their types.
THEOREM TypeCorrect == Spec => []TypeOK
<1>1. IInv => TypeOK
  BY DEF IInv
<1> QED
  BY <1>1, Inductive, PTL

\* Between two looks of the executor /new, a failed update or a death of the
\* daemon never leave it with the child of one task and another task in front.
THEOREM ChildIsOfFirstTaskAlways == Spec => []ChildIsOfFirstTask
<1>1. IInv => ChildIsOfFirstTask
  BY NoTaskIsNoTask DEF IInv, CurrentTask, ChildIsOfFirstTask
<1> QED
  BY <1>1, Inductive, PTL

\* A row of the database never tells of a child that did not end that way.
THEOREM StatusTellsTruthAlways == Spec => []StatusTellsTruth
<1>1. IInv => StatusTellsTruth
  BY DEF IInv
<1> QED
  BY <1>1, Inductive, PTL

\* What was answered with "received" is queued once, over, or lost by a death.
THEOREM NothingForgottenAlways == Spec => []NothingForgotten
<1>1. IInv => NothingForgotten
  BY DEF IInv
<1> QED
  BY <1>1, Inductive, PTL

-----------------------------------------------------------------------------
(* What the next two theorems need besides: a task that was lost does not  *)
(* come back, the row that /new inserts is new, and an answer of /get is   *)
(* never ahead of the row it was read from.                                *)

LostAreGone ==
  \A t \in lost : ~Queued(t) /\ (http # "idle" => t # request)

\* A row is inserted where there was none.
NotYetStored == http \in {"lock", "insert"} => status[request] = "none"

SeenBehind ==
  \A t \in Tasks : /\ Rank(seen[t]) <= Rank(status[t])
                   /\ seen[t] \in Terminal => status[t] = seen[t]

RInv == IInv /\ LostAreGone /\ NotYetStored /\ SeenBehind

-----------------------------------------------------------------------------
(* The status goes on, and so does what the client sees of it.            *)

\* The order of the statuses.
LEMMA RankOf ==
  /\ Rank("none") = 0 /\ Rank("error") = 0
  /\ Rank("received") = 1 /\ Rank("building") = 2 /\ Rank("running") = 3
  /\ Rank("buildError") = 4 /\ Rank("runtimeError") = 4 /\ Rank("fulfilled") = 4
BY DEF Rank, Terminal

LEMMA RankIsNat == \A s : Rank(s) \in 0 .. 4
BY DEF Rank

\* From s to next is not back.
Onward(s, next) == Rank(s) <= Rank(next) /\ (s \in Terminal => next = s)

LEMMA OnwardIsOrder ==
  /\ \A s : Onward(s, s)
  /\ \A s, u, v : Onward(s, u) /\ Onward(u, v) => Onward(s, v)
BY RankIsNat DEF Onward

\* The executor says "building" and "running" as that begins.
OnTime(s) ==
  /\ s = "building" => exits[First] = <<>>
  /\ s = "running" => exits[First] = <<0>>

\* What the executor writes of the first task never takes its status back.
LEMMA TrueIsOnward ==
  ASSUME IInv, queue # <<>>, NEW s, IsTrueOfFirst(s), OnTime(s)
  PROVE  Onward(status[First], s)
<1>1. First \in Tasks /\ First = queue[1] /\ 1 \in 1 .. Len(queue)
  BY FirstIsQueued DEF IInv
<1>2. status[First] \in Statuses \ {"none"}
  BY <1>1 DEF IInv, TypeOK, RecordTypes, QueueIsFresh
<1>3. /\ status[First] = "running" => exits[First] # <<>> /\ exits[First][1] = 0
      /\ status[First] = "fulfilled" => exits[First] = <<0, 0>>
      /\ status[First] = "runtimeError" => exits[First] = <<0, 1>>
      /\ status[First] = "buildError" => exits[First] = <<1>>
  BY <1>1 DEF IInv, StatusTellsTruth
<1>4. /\ <<0>> # <<>> /\ <<0>> # <<1>> /\ <<0>> # <<0, 0>> /\ <<0>> # <<0, 1>>
      /\ <<>> # <<1>> /\ <<>> # <<0, 0>> /\ <<>> # <<0, 1>>
      /\ <<1>> # <<0, 0>> /\ <<1>> # <<0, 1>> /\ <<0, 0>> # <<0, 1>> /\ <<1>>[1] # 0
  OBVIOUS
<1>5. CASE s = "building"
  BY <1>2, <1>3, <1>4, <1>5, RankOf DEF Onward, Statuses, Terminal, OnTime
<1>6. CASE s = "running"
  <2>1. status[First] \in {"received", "building", "running"}
    BY <1>2, <1>3, <1>4, <1>6 DEF Statuses, OnTime
  <2> QED
    BY <1>6, <2>1, RankOf DEF Onward, Terminal
<1>7. CASE s = "fulfilled"
  BY <1>2, <1>3, <1>4, <1>7, RankOf DEF Onward, Statuses, Terminal, IsTrueOfFirst
<1>8. CASE s = "runtimeError"
  BY <1>2, <1>3, <1>4, <1>8, RankOf DEF Onward, Statuses, Terminal, IsTrueOfFirst
<1>9. CASE s = "buildError"
  BY <1>2, <1>3, <1>4, <1>9, RankOf DEF Onward, Statuses, Terminal, IsTrueOfFirst
<1> QED
  BY <1>5, <1>6, <1>7, <1>8, <1>9 DEF IsTrueOfFirst

\* Nothing is known of a task before its row is there.
LEMMA RankOfNothing ==
  /\ Rank("none") = 0 /\ Rank("error") = 0 /\ Rank("") = 0
  /\ "none" \notin Terminal /\ "error" \notin Terminal /\ "" \notin Terminal
<1>1. Rank("") = 0 /\ "" \notin Terminal
  BY Zenon DEF Rank, Terminal
<1>2. "none" \notin Terminal /\ "error" \notin Terminal
  BY DEF Terminal
<1> QED
  BY <1>1, <1>2, RankOf

LEMMA NothingIsOnward == \A a, s : Rank(a) = 0 /\ a \notin Terminal => Onward(a, s)
BY RankIsNat DEF Onward

LEMMA UpdateIsOnward ==
  ASSUME TypeOK, NEW u \in Tasks, NEW s, Onward(status[u], s), DbWrites(u, s) \/ DbFails
  PROVE  \A t \in Tasks : Onward(status[t], status'[t])
<1>1. ASSUME NEW t \in Tasks
      PROVE  status'[t] = status[t] \/ (t = u /\ status'[t] = s)
  BY DEF TypeOK, RecordTypes, DbWrites, DbFails
<1> QED
  BY <1>1, OnwardIsOrder

\* No step takes a status of the database back, nor a final one away.
LEMMA StatusGoesOn ==
  ASSUME IInv, NotYetStored, [Next]_vars
  PROVE  \A t \in Tasks : Onward(status[t], status'[t])
<1>1. ASSUME UNCHANGED status
      PROVE  \A t \in Tasks : Onward(status[t], status'[t])
  BY <1>1, OnwardIsOrder
<1>2. CASE NewInserts
  <2>1. request \in Tasks /\ status[request] = "none"
    BY <1>2 DEF IInv, Posting, NotYetStored, NewInserts
  <2>2. Onward(status[request], "received")
    BY <2>1, RankOf DEF Onward, Terminal
  <2> QED
    BY <1>2, <2>1, <2>2, UpdateIsOnward DEF NewInserts, IInv
<1>3. ASSUME queue # <<>>, NEW s, IsTrueOfFirst(s), Update(First, s), OnTime(s)
      PROVE  \A t \in Tasks : Onward(status[t], status'[t])
  <2>1. First \in Tasks
    BY <1>3, FirstIsQueued DEF IInv
  <2>2. Onward(status[First], s)
    BY <1>3, TrueIsOnward
  <2> QED
    BY <1>3, <2>1, <2>2, UpdateIsOnward DEF Update, IInv
<1>4. CASE StartBuild
  <2>1. queue # <<>> /\ type = "NONE" /\ Update(First, "building")
    BY <1>4 DEF StartBuild
  <2>2. exits[First] = <<>>
    BY <2>1, FirstIsQueued DEF IInv, QueueIsFresh
  <2>3. IsTrueOfFirst("building")
    BY DEF IsTrueOfFirst
  <2> QED
    BY <1>3, <2>1, <2>2, <2>3 DEF OnTime
<1>5. CASE BuildSucceeded
  <2>1. queue # <<>> /\ Update(First, "running") /\ exits[First] = <<0>>
    BY <1>5 DEF BuildSucceeded, Exited, IInv, CurrentTask
  <2>2. IsTrueOfFirst("running")
    BY <2>1 DEF IsTrueOfFirst
  <2> QED
    BY <1>3, <2>1, <2>2 DEF OnTime
<1>6. CASE RunSucceeded
  <2>1. queue # <<>> /\ Update(First, "fulfilled") /\ exits[First] = <<0, 0>>
    BY <1>6 DEF RunSucceeded, Exited, IInv, CurrentTask
  <2>2. IsTrueOfFirst("fulfilled")
    BY <2>1 DEF IsTrueOfFirst
  <2> QED
    BY <1>3, <2>1, <2>2 DEF OnTime
<1>7. CASE BuildFailed
  <2>1. pro.code = 1
    BY <1>7 DEF BuildFailed, IInv, TypeOK, ThreadTypes
  <2>2. queue # <<>> /\ Update(First, "buildError") /\ exits[First] = <<1>>
    BY <1>7, <2>1 DEF BuildFailed, Exited, IInv, CurrentTask
  <2>3. IsTrueOfFirst("buildError")
    BY <2>2 DEF IsTrueOfFirst
  <2> QED
    BY <1>3, <2>2, <2>3 DEF OnTime
<1>8. CASE RunFailed
  <2>1. pro.code = 1
    BY <1>8 DEF RunFailed, IInv, TypeOK, ThreadTypes
  <2>2. queue # <<>> /\ Update(First, "runtimeError") /\ exits[First] = <<0, 1>>
    BY <1>8, <2>1 DEF RunFailed, Exited, IInv, CurrentTask
  <2>3. IsTrueOfFirst("runtimeError")
    BY <2>2 DEF IsTrueOfFirst
  <2> QED
    BY <1>3, <2>2, <2>3 DEF OnTime
<1>9. CASE \E t \in Tasks : New(t) \/ Get(t)
  BY <1>1, <1>9 DEF New, Get, DbFails
<1>10. CASE NewLocks \/ NewFails \/ NewPushes
  BY <1>1, <1>10 DEF NewLocks, NewFails, NewPushes, DbFails
<1>11. CASE Wake \/ NothingToDo \/ LaunchBuild \/ LaunchRun \/ Report \/ Pop
  BY <1>1, <1>11 DEF Wake, NothingToDo, LaunchBuild, LaunchRun, Launch, Report, Pop
<1>12. CASE ChildExits \/ LaunchThrows \/ Crash \/ Restart \/ UNCHANGED vars
  BY <1>1, <1>12 DEF ChildExits, LaunchThrows, Crash, Die, Restart, vars
<1> QED
  BY <1>2, <1>4, <1>5, <1>6, <1>7, <1>8, <1>9, <1>10, <1>11, <1>12 DEF Next, Http, Exe

\* Nor does an answer of /get go back, as long as the one before was of this row.
LEMMA SeenGoesOn ==
  ASSUME IInv, SeenBehind, [Next]_vars
  PROVE  \A t \in Tasks : /\ Onward(seen[t], seen'[t])
                          /\ seen'[t] # seen[t] => Onward(seen'[t], status[t])
<1>1. ASSUME UNCHANGED seen
      PROVE  \A t \in Tasks : Onward(seen[t], seen'[t])
  BY <1>1, OnwardIsOrder
<1>2. ASSUME NEW u \in Tasks, Get(u), seen' # seen
      PROVE  \A t \in Tasks : /\ Onward(seen[t], seen'[t])
                              /\ seen'[t] # seen[t] => Onward(seen'[t], status[t])
  <2>1. PICK answer \in IF status[u] = "none" THEN {"error", ""} ELSE {status[u]} :
               seen' = [seen EXCEPT ![u] = answer]
    BY <1>2 DEF Get
  <2>2. Onward(seen[u], status[u])
    BY DEF SeenBehind, Onward
  <2>3. Onward(seen[u], answer) /\ Onward(answer, status[u])
    <3>1. CASE status[u] = "none"
      <4>1. answer = "error" \/ answer = ""
        BY <2>1, <3>1, Zenon
      <4>2. Rank(answer) = 0 /\ answer \notin Terminal
        BY <4>1, RankOfNothing, Zenon
      <4>3. Rank(seen[u]) <= 0 /\ seen[u] \notin Terminal
        BY <2>2, <3>1, RankOf DEF Onward, Terminal
      <4>4. Onward(seen[u], answer)
        BY <4>2, <4>3 DEF Onward
      <4>5. Onward(answer, status[u])
        BY <4>2, NothingIsOnward, Zenon
      <4> QED
        BY <4>4, <4>5
    <3>2. CASE status[u] # "none"
      BY <2>1, <2>2, <3>2, OnwardIsOrder
    <3> QED
      BY <3>1, <3>2
  <2>4. ASSUME NEW t \in Tasks
        PROVE  seen'[t] = seen[t] \/ (t = u /\ seen'[t] = answer)
    BY <2>1 DEF IInv, TypeOK, RecordTypes
  <2> SUFFICES ASSUME NEW t \in Tasks
               PROVE  /\ Onward(seen[t], seen'[t])
                      /\ seen'[t] # seen[t] => Onward(seen'[t], status[t])
    OBVIOUS
  <2>5. CASE seen'[t] = seen[t]
    BY <2>5, OnwardIsOrder
  <2>6. CASE t = u /\ seen'[t] = answer
    BY <2>3, <2>6
  <2> QED
    BY <2>4, <2>5, <2>6
<1>3. CASE \E t \in Tasks : Get(t)
  BY <1>1, <1>2, <1>3
<1>4. CASE ~\E t \in Tasks : Get(t)
  <2>1. UNCHANGED seen
    BY <1>4 DEF Next, New, Http, NewLocks, NewInserts, NewFails, NewPushes, Wake, Exe, NothingToDo,
       StartBuild, LaunchBuild, LaunchRun, Launch, BuildSucceeded, RunSucceeded, BuildFailed,
       RunFailed, Report, Pop, ChildExits, LaunchThrows, Crash, Die, Restart, exeFrame, vars
  <2> QED
    BY <1>1, <2>1
<1> QED
  BY <1>3, <1>4

LEMMA InitRInv == Init => RInv
<1> SUFFICES ASSUME Init PROVE RInv
  OBVIOUS
<1>1. LostAreGone /\ NotYetStored
  BY DEF Init, LostAreGone, NotYetStored
<1>2. SeenBehind
  BY OnwardIsOrder DEF Init, SeenBehind, Onward
<1> QED
  BY <1>1, <1>2, InitIInv DEF RInv

\* The additions are kept by every step.
LEMMA NotYetStoredStep ==
  ASSUME IInv, NotYetStored, [Next]_vars
  PROVE  NotYetStored'
<1>1. CASE \E t \in Tasks : New(t) \/ Get(t)
  BY <1>1 DEF New, Get, DbFails, NotYetStored, httpFrame
<1>2. CASE NewLocks
  BY <1>2 DEF NewLocks, NotYetStored, httpFrame
<1>3. CASE NewInserts \/ NewFails \/ NewPushes
  BY <1>3 DEF NewInserts, NewFails, NewPushes, NotYetStored, httpFrame
<1>4. ASSUME queue # <<>>, NEW s, Update(First, s), UNCHANGED <<http, request>>
      PROVE  NotYetStored'
  <2>1. ASSUME http' \in {"lock", "insert"}
        PROVE  request \in Tasks /\ request # First /\ status[request] = "none"
    BY <1>4, <2>1, FirstIsQueued DEF IInv, Posting, NotYetStored, Queued
  <2>2. ASSUME NEW t \in Tasks, t # First
        PROVE  status'[t] = status[t]
    BY <1>4, <2>2 DEF Update, DbWrites, DbFails, IInv, TypeOK, RecordTypes
  <2> QED
    BY <1>4, <2>1, <2>2 DEF NotYetStored
<1>5. CASE StartBuild \/ BuildSucceeded \/ RunSucceeded \/ BuildFailed \/ RunFailed
  BY <1>4, <1>5 DEF StartBuild, BuildSucceeded, RunSucceeded, BuildFailed, RunFailed, Exited,
     exeFrame
<1>6. CASE Wake \/ NothingToDo \/ LaunchBuild \/ LaunchRun \/ Report \/ Pop
  BY <1>6 DEF Wake, NothingToDo, LaunchBuild, LaunchRun, Launch, Report, Pop, exeFrame, NotYetStored
<1>7. CASE ChildExits \/ LaunchThrows \/ Crash \/ Restart \/ UNCHANGED vars
  BY <1>7 DEF ChildExits, LaunchThrows, Crash, Die, Restart, vars, NotYetStored
<1> QED
  BY <1>1, <1>2, <1>3, <1>5, <1>6, <1>7 DEF Next, Http, Exe

LEMMA SeenBehindStep ==
  ASSUME IInv, NotYetStored, SeenBehind, [Next]_vars
  PROVE  SeenBehind'
<1> SUFFICES ASSUME NEW t \in Tasks
             PROVE  Onward(seen'[t], status'[t])
  BY DEF SeenBehind, Onward
<1>1. Onward(status[t], status'[t])
  BY StatusGoesOn
<1>2. Onward(seen[t], status[t])
  BY DEF SeenBehind, Onward
<1>3. seen'[t] # seen[t] => Onward(seen'[t], status[t])
  BY SeenGoesOn
<1> QED
  BY <1>1, <1>2, <1>3, OnwardIsOrder

LEMMA LostAreGoneStep ==
  ASSUME IInv, LostAreGone, [Next]_vars
  PROVE  LostAreGone'
<1>1. CASE \E t \in Tasks : New(t)
  BY <1>1 DEF New, httpFrame, LostAreGone, Queued
<1>2. CASE \E t \in Tasks : Get(t)
  BY <1>2 DEF Get, httpFrame, LostAreGone, Queued
<1>3. CASE NewLocks \/ NewInserts \/ NewFails
  BY <1>3 DEF NewLocks, NewInserts, NewFails, httpFrame, LostAreGone, Queued
<1>4. CASE NewPushes
  <2>1. queue \in Seq(Tasks) /\ request \in Tasks /\ request \notin lost
    BY <1>4 DEF IInv, TypeOK, ThreadTypes, Posting, NewPushes, LostAreGone
  <2>2. /\ Len(queue') = Len(queue) + 1 /\ Len(queue) \in Nat
        /\ \A k \in 1 .. Len(queue) : queue'[k] = queue[k]
        /\ queue'[Len(queue) + 1] = request
    BY <1>4, <2>1 DEF NewPushes
  <2> QED
    BY <1>4, <2>1, <2>2 DEF NewPushes, httpFrame, LostAreGone, Queued
<1>5. CASE Wake \/ NothingToDo \/ StartBuild \/ LaunchBuild \/ LaunchRun \/ BuildSucceeded
           \/ RunSucceeded \/ BuildFailed \/ RunFailed \/ Report
  BY <1>5 DEF Wake, NothingToDo, StartBuild, LaunchBuild, LaunchRun, Launch, BuildSucceeded,
     RunSucceeded, BuildFailed, RunFailed, Report, exeFrame, LostAreGone, Queued
<1>6. CASE Pop
  <2>1. queue # <<>>
    BY <1>6, PoppedIsOver DEF IInv, Pop
  <2>2. /\ Len(queue) \in Nat /\ Len(queue') = Len(queue) - 1
        /\ \A k \in 1 .. Len(queue') : queue'[k] = queue[k + 1]
    BY <1>6, <2>1, HeadTail DEF IInv, TypeOK, ThreadTypes, Pop
  <2> QED
    BY <1>6, <2>2 DEF Pop, exeFrame, LostAreGone, Queued
<1>7. CASE ChildExits \/ Restart \/ UNCHANGED vars
  BY <1>7 DEF ChildExits, Restart, vars, LostAreGone, Queued
<1>8. CASE LaunchThrows \/ Crash
  BY <1>8 DEF LaunchThrows, Crash, Die, LostAreGone, Queued
<1> QED
  BY <1>1, <1>2, <1>3, <1>4, <1>5, <1>6, <1>7, <1>8 DEF Next, Http, Exe

\* The invariant with its additions, in every state.
LEMMA AlwaysRInv == Spec => []RInv
<1>1. RInv /\ [Next]_vars => RInv'
  BY NextIInv, NotYetStoredStep, SeenBehindStep, LostAreGoneStep DEF RInv
<1> QED
  BY <1>1, InitRInv, PTL DEF Spec

\* Whoever asks again sees the task go on, and a final status stay, whatever dies,
\* fails or is asked in between.
THEOREM NeverGoesBack == Spec => SeenNeverGoesBack
<1>1. RInv /\ [Next]_vars => [\A t \in Tasks : /\ Rank(seen[t]) <= Rank(seen'[t])
                                               /\ seen[t] \in Terminal => seen'[t] = seen[t]]_vars
  BY SeenGoesOn DEF RInv, Onward
<1> QED
  BY <1>1, AlwaysRInv, PTL DEF Spec, SeenNeverGoesBack

-----------------------------------------------------------------------------
(* The refinement: where every task is, before and after each step.        *)

\* What the return codes say of a task that is over.
LEMMA OutcomeOf ==
  /\ Outcome(<<>>) = "none" /\ Outcome(<<1>>) = "buildError"
  /\ Outcome(<<0, 1>>) = "runtimeError" /\ Outcome(<<0, 0>>) = "fulfilled"
<1>1. /\ <<>> # <<1>> /\ <<>> # <<0, 0>> /\ <<>> # <<0, 1>>
      /\ <<1>> # <<0, 0>> /\ <<1>> # <<0, 1>> /\ <<0, 0>> # <<0, 1>>
  OBVIOUS
<1> QED
  BY <1>1 DEF Outcome

\* Which tasks are active, waiting or neither.
LEMMA WhereTasksAre ==
  ASSUME RInv, NEW t \in Tasks
  PROVE  /\ t \in lost => Stage(t) = "lost"
         /\ queue # <<>> /\ t = First => t \notin lost /\ Stage(t) = StageOfFirst
         /\ Queued(t) /\ t # First => t \notin lost /\ Stage(t) = "received"
         /\ http = "push" /\ t = request => t \notin lost /\ Stage(t) = "received"
         /\ t \notin lost /\ ~Queued(t) /\ ~(http = "push" /\ t = request)
              => Stage(t) = Outcome(exits[t])
<1>1. queue # <<>> => First = queue[1] /\ 1 \in 1 .. Len(queue)
  BY FirstIsQueued DEF RInv, IInv
<1>2. queue # <<>> /\ t = First => Queued(t)
  BY <1>1 DEF Queued
<1>3. http = "push" /\ t = request => ~Queued(t) /\ t \notin lost
  BY DEF RInv, IInv, Posting, LostAreGone
<1>4. Queued(t) => t \notin lost
  BY DEF RInv, LostAreGone
<1> QED
  BY <1>2, <1>3, <1>4 DEF Stage

\* The stage of the first task, told by its return codes once it is over.
LEMMA FirstsStage ==
  ASSUME RInv, queue # <<>>
  PROVE  StageOfFirst = CASE exe = "build" -> "building"
                          [] exe = "run" -> "running"
                          [] exe \in {"report", "pop"} -> Outcome(exits[First])
                          [] OTHER -> CASE type = "BUILD" -> "building"
                                        [] type = "RUN" -> "running"
                                        [] OTHER -> "received"
<1>1. CASE exe \in {"report", "pop"}
  <2>1. /\ type \in {"BUILD", "RUN"} /\ pro.state = "exited" /\ pro.code \in {0, 1}
        /\ type = "BUILD" => pro.code = 1
    BY <1>1 DEF RInv, IInv, TypeOK, ThreadTypes, CurrentTask
  <2>2. CASE type = "BUILD"
    BY <1>1, <2>1, <2>2, OutcomeOf DEF StageOfFirst, RInv, IInv, CurrentTask
  <2>3. CASE type = "RUN"
    BY <1>1, <2>1, <2>3, OutcomeOf DEF StageOfFirst, RInv, IInv, CurrentTask
  <2> QED
    BY <2>1, <2>2, <2>3
<1>2. CASE exe \notin {"report", "pop"}
  BY <1>2 DEF StageOfFirst
<1> QED
  BY <1>1, <1>2

\* A step that moves no task and no status is a stutter of the promise.
LEMMA NothingMoves ==
  ASSUME \A t \in Tasks : Stage(t)' = Stage(t), UNCHANGED status
  PROVE  UNCHANGED Lifecycle!lifecycleVars
BY DEF Lifecycle!lifecycleVars

\* A step of one task is one of MoveTo.
LEMMA OneMoves ==
  ASSUME NEW u \in Tasks, NEW s, Stage(u)' = s,
         \A t \in Tasks : t # u => Stage(t)' = Stage(t),
         status \in [Tasks -> Statuses],
         DbWrites(u, s) \/ DbFails
  PROVE  Lifecycle!MoveTo(u, s)
<1>1. [t \in Tasks |-> Stage(t)]' = [[t \in Tasks |-> Stage(t)] EXCEPT ![u] = s]
  OBVIOUS
<1> QED
  BY <1>1 DEF Lifecycle!MoveTo, DbWrites, DbFails

\* The types that the steps below rest on.
LEMMA Settled ==
  ASSUME RInv
  PROVE  /\ queue # <<>> => First \in Tasks /\ First = queue[1] /\ 1 \in 1 .. Len(queue)
         /\ queue \in Seq(Tasks) /\ Len(queue) \in Nat
         /\ \A k \in 1 .. Len(queue) : queue[k] \in Tasks
         /\ status \in [Tasks -> Statuses]
         /\ exe \in {"sleep", "locked", "build", "run", "report", "pop"}
         /\ type \in {"NONE", "BUILD", "RUN"}
BY FirstIsQueued, QueuedAreTasks DEF RInv, IInv, TypeOK, ThreadTypes, RecordTypes

\* Steps after which everything a stage is read from is the same.
LEMMA SameStage ==
  ASSUME UNCHANGED <<lost, queue, exe, type, pro, exits>>,
         (http = "push") \/ (http' = "push") => UNCHANGED <<http, request>>
  PROVE  \A t \in Tasks : Stage(t)' = Stage(t)
BY DEF Stage, StageOfFirst, First, Queued

\* /new puts a task where there was none; nothing else that HTTP does moves one.
LEMMA HttpRefines ==
  ASSUME RInv, Http \/ \E t \in Tasks : New(t) \/ Get(t)
  PROVE  [Lifecycle!Next]_(Lifecycle!lifecycleVars)
<1>1. CASE NewInserts
  <2>1. PICK u \in Tasks : u = request
    BY <1>1 DEF NewInserts, RInv, IInv, Posting
  <2>2. u \notin lost /\ ~Queued(u) /\ exits[u] = <<>> /\ http = "insert"
    BY <1>1, <2>1 DEF NewInserts, RInv, IInv, Posting, LostAreGone
  <2>3. Stage(u) = "none"
    BY <2>2, WhereTasksAre, OutcomeOf
  <2>4. UNCHANGED <<lost, queue, exe, type, pro, exits, request>> /\ http' = "push"
    BY <1>1 DEF NewInserts, httpFrame
  <2>5. Stage(u)' = "received"
    <3>1. ~(queue # <<>> /\ u = First)
      BY <2>2, Settled DEF Queued
    <3> QED
      BY <2>1, <2>2, <2>4, <3>1 DEF Stage, First
  <2>6. ASSUME NEW t \in Tasks, t # u
        PROVE  Stage(t)' = Stage(t)
    BY <2>1, <2>2, <2>4, <2>6 DEF Stage, StageOfFirst, First, Queued
  <2>7. [t \in Tasks |-> Stage(t)]' = [[t \in Tasks |-> Stage(t)] EXCEPT ![u] = "received"]
    BY <2>5, <2>6
  <2>8. Lifecycle!Receive(u)
    BY <1>1, <2>1, <2>3, <2>7 DEF Lifecycle!Receive, NewInserts, DbWrites
  <2> QED
    BY <2>8 DEF Lifecycle!Next
<1>2. CASE NewPushes
  <2>1. /\ request \in Tasks /\ request \notin lost /\ ~Queued(request) /\ exe = "sleep"
        /\ UNCHANGED <<lost, exe, type, pro, exits, status>> /\ http = "push" /\ http' = "idle"
    BY <1>2 DEF NewPushes, httpFrame, RInv, IInv, Posting, LostAreGone, Locks
  <2>2. /\ Len(queue) \in Nat /\ queue' # <<>> /\ Len(queue') = Len(queue) + 1
        /\ \A k \in 1 .. Len(queue) : queue'[k] = queue[k]
        /\ queue'[Len(queue) + 1] = request
        /\ queue # <<>> => Head(queue') = Head(queue)
        /\ queue = <<>> => Head(queue') = request
    BY <1>2, <2>1, Settled DEF NewPushes
  <2>3. ASSUME NEW t \in Tasks, t # request
        PROVE  Queued(t)' <=> Queued(t)
    BY <2>2, <2>3 DEF Queued
  <2>4. ASSUME NEW t \in Tasks, t # request
        PROVE  Stage(t)' = Stage(t)
    <3>1. queue' # <<>> /\ t = First' <=> queue # <<>> /\ t = First
      BY <2>2, <2>4 DEF First
    <3>2. StageOfFirst' = StageOfFirst
      BY <2>1 DEF StageOfFirst
    <3> QED
      BY <2>1, <2>3, <2>4, <3>1, <3>2 DEF Stage
  <2>5. Stage(request) = "received"
    BY <2>1, WhereTasksAre
  <2>6. ASSUME NEW t \in Tasks, t = request
        PROVE  Stage(t)' = "received"
    <3>1. Queued(t)'
      BY <2>2, <2>6 DEF Queued
    <3>2. t \notin lost'
      BY <2>1, <2>6
    <3>3. CASE t = First'
      <4>1. queue = <<>>
        <5>1. queue # <<>> => First = queue[1] /\ 1 \in 1 .. Len(queue)
          BY Settled
        <5> QED
          BY <2>1, <2>2, <2>6, <3>3, <5>1 DEF First, Queued
      <4>2. type' = "NONE"
        BY <2>1, <4>1, Settled DEF RInv, IInv, CurrentTask
      <4>3. StageOfFirst' = "received"
        BY <2>1, <4>2 DEF StageOfFirst
      <4> QED
        BY <2>2, <3>2, <3>3, <4>3 DEF Stage
    <3>4. CASE t # First'
      BY <3>1, <3>2, <3>4 DEF Stage
    <3> QED
      BY <3>3, <3>4
  <2> QED
    BY <2>1, <2>4, <2>5, <2>6, NothingMoves
<1>3. CASE NewLocks \/ NewFails \/ \E t \in Tasks : New(t) \/ Get(t)
  <2>1. UNCHANGED status /\ UNCHANGED <<lost, queue, exe, type, pro, exits>>
    BY <1>3 DEF NewLocks, NewFails, New, Get, DbFails, httpFrame
  <2>2. (http = "push") \/ (http' = "push") => UNCHANGED <<http, request>>
    BY <1>3 DEF NewLocks, NewFails, New, Get
  <2> QED
    BY <2>1, <2>2, SameStage, NothingMoves
<1> QED
  BY <1>1, <1>2, <1>3 DEF Http

\* Only the first task is being built or run.
LEMMA OnlyFirstIsActive ==
  ASSUME RInv, NEW t \in Tasks, ~(queue # <<>> /\ t = First)
  PROVE  Stage(t) \notin {"building", "running"}
<1>1. Outcome(exits[t]) \in {"none", "buildError", "runtimeError", "fulfilled"}
  BY DEF Outcome
<1> QED
  BY <1>1 DEF Stage

\* A step of the executor that leaves the queue alone moves at most the first task.
LEMMA ExecutorMovesFirst ==
  ASSUME RInv, queue # <<>>, UNCHANGED <<queue, lost, exits>>,
         http = "push" => UNCHANGED request, UNCHANGED http
  PROVE  /\ \A t \in Tasks : t # First => Stage(t)' = Stage(t)
         /\ First \in Tasks /\ First \notin lost /\ Stage(First) = StageOfFirst
         /\ \A u \in Tasks : u = First => Stage(u)' = StageOfFirst'
<1>1. First \in Tasks
  BY Settled
<1>2. First \notin lost /\ Stage(First) = StageOfFirst
  BY <1>1, WhereTasksAre
<1>3. ASSUME NEW t \in Tasks, t # First
      PROVE  Stage(t)' = Stage(t)
  BY <1>3 DEF Stage, First, Queued
<1>4. ASSUME NEW u \in Tasks, u = First
      PROVE  Stage(u)' = StageOfFirst'
  BY <1>2, <1>4 DEF Stage, First
<1> QED
  BY <1>1, <1>2, <1>3, <1>4

\* Five actions write a status: the task and, if the database works, its row move.
LEMMA FirstMoves ==
  ASSUME RInv, queue # <<>>, UNCHANGED <<exeFrame, queue>>,
         NEW s, Update(First, s), StageOfFirst' = s
  PROVE  \E u \in Tasks : u = First /\ Stage(u) = StageOfFirst /\ Lifecycle!MoveTo(u, s)
<1>1. PICK u \in Tasks : u = First
  BY Settled
<1>2. /\ \A t \in Tasks : t # u => Stage(t)' = Stage(t)
      /\ Stage(u) = StageOfFirst /\ Stage(u)' = s
  BY <1>1, ExecutorMovesFirst DEF exeFrame
<1>3. Lifecycle!MoveTo(u, s)
  BY <1>1, <1>2, OneMoves, Settled DEF Update
<1> QED
  BY <1>1, <1>2, <1>3

\* The executor begins with a task only while no other is worked on.
LEMMA StartBuildRefines == ASSUME RInv, StartBuild PROVE Lifecycle!Next
<1>1. queue # <<>> /\ StageOfFirst = "received" /\ StageOfFirst' = "building"
  BY DEF StartBuild, StageOfFirst
<1>2. PICK u \in Tasks : u = First /\ Stage(u) = StageOfFirst /\ Lifecycle!MoveTo(u, "building")
  BY <1>1, FirstMoves DEF StartBuild
<1>3. \A t \in Tasks : Stage(t) \notin {"building", "running"}
  BY <1>1, <1>2, OnlyFirstIsActive
<1>4. Lifecycle!Active = {}
  BY <1>3 DEF Lifecycle!Active
<1>5. Lifecycle!Build(u)
  BY <1>1, <1>2, <1>4 DEF Lifecycle!Build
<1> QED
  BY <1>5 DEF Lifecycle!Next

\* What the return codes of the two children mean.
LEMMA BuildEndsRefines ==
  ASSUME RInv, BuildSucceeded \/ BuildFailed
  PROVE  Lifecycle!Next
<1>1. queue # <<>> /\ StageOfFirst = "building"
  BY DEF BuildSucceeded, BuildFailed, Exited, StageOfFirst
<1>2. PICK s \in {"running", "buildError"} : Update(First, s) /\ StageOfFirst' = s
  <2>1. CASE BuildSucceeded
    BY <2>1 DEF BuildSucceeded, StageOfFirst
  <2>2. CASE BuildFailed
    BY <2>2 DEF BuildFailed, StageOfFirst
  <2> QED
    BY <2>1, <2>2
<1>3. PICK u \in Tasks : u = First /\ Stage(u) = StageOfFirst /\ Lifecycle!MoveTo(u, s)
  BY <1>1, <1>2, FirstMoves DEF BuildSucceeded, BuildFailed
<1>4. Lifecycle!FinishBuild(u)
  BY <1>1, <1>2, <1>3 DEF Lifecycle!FinishBuild
<1> QED
  BY <1>4 DEF Lifecycle!Next

LEMMA RunEndsRefines ==
  ASSUME RInv, RunSucceeded \/ RunFailed
  PROVE  Lifecycle!Next
<1>1. queue # <<>> /\ StageOfFirst = "running"
  BY DEF RunSucceeded, RunFailed, Exited, StageOfFirst
<1>2. PICK s \in {"fulfilled", "runtimeError"} : Update(First, s) /\ StageOfFirst' = s
  <2>1. CASE RunSucceeded
    BY <2>1 DEF RunSucceeded, StageOfFirst
  <2>2. CASE RunFailed
    BY <2>2 DEF RunFailed, StageOfFirst
  <2> QED
    BY <2>1, <2>2
<1>3. PICK u \in Tasks : u = First /\ Stage(u) = StageOfFirst /\ Lifecycle!MoveTo(u, s)
  BY <1>1, <1>2, FirstMoves DEF RunSucceeded, RunFailed
<1>4. Lifecycle!FinishRun(u)
  BY <1>1, <1>2, <1>3 DEF Lifecycle!FinishRun
<1> QED
  BY <1>4 DEF Lifecycle!Next

\* Steps of the executor and of the child that the client is not told of.
LEMMA QuietRefines ==
  ASSUME RInv, Wake \/ NothingToDo \/ LaunchBuild \/ LaunchRun \/ Report \/ ChildExits \/ Restart
  PROVE  UNCHANGED Lifecycle!lifecycleVars
<1>1. UNCHANGED <<status, queue, lost, http, request>>
  BY DEF Wake, NothingToDo, LaunchBuild, LaunchRun, Launch, Report, ChildExits, Restart, exeFrame
<1>2. CASE queue # <<>>
  <2>1. StageOfFirst' = StageOfFirst
    <3>1. CASE Wake \/ NothingToDo \/ Restart
      BY <3>1 DEF Wake, NothingToDo, Sleeps, Restart, StageOfFirst
    <3>2. CASE LaunchBuild
      BY <3>2 DEF LaunchBuild, Launch, Sleeps, StageOfFirst
    <3>3. CASE LaunchRun
      BY <3>3 DEF LaunchRun, Launch, Sleeps, StageOfFirst
    <3>4. CASE Report
      BY <3>4 DEF Report, StageOfFirst
    <3>5. CASE ChildExits
      <4>1. exe \notin {"report", "pop"} /\ UNCHANGED <<exe, type>>
        BY <3>5 DEF ChildExits, RInv, IInv, CurrentTask
      <4> QED
        BY <4>1 DEF StageOfFirst
    <3> QED
      BY <3>1, <3>2, <3>3, <3>4, <3>5
  <2>2. PICK u \in Tasks : u = First
    BY <1>2, Settled
  <2>3. u \notin lost /\ Queued(u)
    <3>1. u = queue[1] /\ 1 \in 1 .. Len(queue)
      BY <1>2, <2>2, Settled
    <3> QED
      BY <3>1 DEF Queued, RInv, LostAreGone
  <2>4. Stage(u)' = Stage(u)
    BY <1>1, <1>2, <2>1, <2>2, <2>3 DEF Stage, First
  <2>5. ASSUME NEW t \in Tasks, t # u
        PROVE  exits'[t] = exits[t]
    <3>1. CASE ChildExits
      <4>1. pro.task = First
        BY <3>1, NoTaskIsNoTask DEF ChildExits, RInv, IInv, CurrentTask
      <4>2. exits \in [Tasks -> Seq({0, 1})]
        BY DEF RInv, IInv, TypeOK, RecordTypes
      <4> QED
        BY <3>1, <4>1, <4>2, <2>2, <2>5 DEF ChildExits
    <3>2. CASE ~ChildExits
      BY <3>2 DEF Wake, NothingToDo, LaunchBuild, LaunchRun, Launch, Report, Restart, exeFrame
    <3> QED
      BY <3>1, <3>2
  <2>6. ASSUME NEW t \in Tasks, t # u
        PROVE  Stage(t)' = Stage(t)
    BY <1>1, <2>2, <2>5, <2>6 DEF Stage, First, Queued
  <2> QED
    BY <1>1, <2>4, <2>6, NothingMoves
<1>3. CASE queue = <<>>
  <2>1. UNCHANGED exits
    BY <1>3, NoTaskIsNoTask DEF Wake, NothingToDo, LaunchBuild, LaunchRun, Launch, Report, Restart,
       exeFrame, ChildExits, RInv, IInv, CurrentTask
  <2>2. \A t \in Tasks : Stage(t)' = Stage(t)
    BY <1>1, <1>3, <2>1 DEF Stage, Queued
  <2> QED
    BY <1>1, <2>2, NothingMoves
<1> QED
  BY <1>2, <1>3

\* The task that is over leaves the queue, and stays what it has become.
LEMMA PopRefines == ASSUME RInv, Pop PROVE UNCHANGED Lifecycle!lifecycleVars
<1>1. queue # <<>> /\ exe = "pop"
  BY PoppedIsOver DEF Pop, RInv, IInv
<1>2. /\ queue \in Seq(Tasks) /\ Len(queue) \in Nat /\ Len(queue') = Len(queue) - 1
      /\ \A k \in 1 .. Len(queue') : queue'[k] = queue[k + 1] /\ k + 1 \in 1 .. Len(queue)
      /\ queue' # <<>> => Head(queue') = queue[2] /\ 2 \in 1 .. Len(queue)
      /\ \A k \in 2 .. Len(queue) : k - 1 \in 1 .. Len(queue') /\ queue'[k - 1] = queue[k]
  <2>1. queue \in Seq(Tasks) /\ queue' = Tail(queue)
    BY Settled DEF Pop
  <2> QED
    BY <1>1, <2>1
<1>3. PICK u \in Tasks : u = First /\ u = queue[1]
  BY <1>1, Settled
<1>4. \A k \in 1 .. Len(queue) : queue[k] = u <=> k = 1
  BY <1>1, <1>3, Settled DEF RInv, IInv, QueueIsFresh
<1>5. /\ UNCHANGED <<lost, exits, status, http, request>>
      /\ http # "push" /\ type' = "NONE" /\ exe' = "sleep"
  BY DEF Pop, Sleeps, exeFrame, RInv, IInv, Locks
<1>6. StageOfFirst' = "received"
  BY <1>5 DEF StageOfFirst
<1>7. Stage(u)' = Stage(u)
  <2>1. u \notin lost /\ Stage(u) = Outcome(exits[u])
    BY <1>1, <1>3, WhereTasksAre, FirstsStage
  <2>2. \A k \in 1 .. Len(queue') : queue'[k] # u
    BY <1>2, <1>4
  <2>3. ~(queue' # <<>> /\ u = Head(queue'))
    BY <1>2, <1>4
  <2> QED
    BY <1>5, <2>1, <2>2, <2>3 DEF Stage, First, Queued
<1>8. ASSUME NEW t \in Tasks, t # u
      PROVE  Stage(t)' = Stage(t)
  <2>1. Queued(t)' <=> Queued(t)
    BY <1>2, <1>3, <1>8 DEF Queued
  <2>2. queue' # <<>> /\ t = First' => Queued(t)
    BY <1>2 DEF First, Queued
  <2> QED
    BY <1>3, <1>5, <1>6, <1>8, <2>1, <2>2 DEF Stage
<1> QED
  BY <1>5, <1>7, <1>8, NothingMoves

\* A death loses the tasks that were received and are not over, and no other.
LEMMA DieRefines == ASSUME RInv, Die PROVE Lifecycle!Lose
<1> DEFINE Unended == {"received", "building", "running"}
<1>1. UNCHANGED <<status, exits>> /\ queue' = <<>> /\ http' = "idle" /\ lost' = lost \cup Unfinished
  BY DEF Die
<1>2. ASSUME NEW t \in Tasks
      PROVE  t \in Unfinished <=>
               \/ Queued(t) /\ (t # First \/ exe \notin {"report", "pop"})
               \/ http = "push" /\ t = request
  <2>1. DOMAIN queue = 1 .. Len(queue) /\ Len(queue) \in Nat
    BY Settled
  <2>2. queue # <<>> => First = queue[1] /\ 1 \in 1 .. Len(queue)
    BY Settled
  <2>3. \A k \in 1 .. Len(queue) : queue # <<>> /\ (k > 1 <=> queue[k] # First)
    <3> SUFFICES ASSUME NEW k \in 1 .. Len(queue)
                 PROVE  queue # <<>> /\ (k > 1 <=> queue[k] # First)
      OBVIOUS
    <3>1. queue # <<>>
      OBVIOUS
    <3>2. queue[k] = queue[1] => k = 1
      BY <2>2, <3>1 DEF RInv, IInv, QueueIsFresh
    <3> QED
      BY <2>1, <2>2, <3>1, <3>2
  <2> QED
    BY <2>1, <2>3 DEF Unfinished, Queued
<1>3. ASSUME NEW t \in Tasks
      PROVE  Stage(t)' = IF t \in lost' THEN "lost" ELSE Outcome(exits[t])
  BY <1>1 DEF Stage, Queued
<1>4. ASSUME NEW t \in Tasks
      PROVE  Outcome(exits[t]) \notin Unended /\ "lost" \notin Unended
  BY DEF Outcome
<1>5. ASSUME NEW t \in Tasks
      PROVE  Stage(t)' = IF Stage(t) \in Unended THEN "lost" ELSE Stage(t)
  <2>1. CASE t \in lost
    BY <1>1, <1>3, <1>4, <2>1, WhereTasksAre
  <2>2. CASE queue # <<>> /\ t = First
    <3>1. t \notin lost /\ Stage(t) = StageOfFirst
      BY <2>2, WhereTasksAre
    <3>2. Queued(t)
      BY <2>2, Settled DEF Queued
    <3>3. ~(http = "push" /\ t = request)
      BY <3>2 DEF RInv, IInv, Posting
    <3>4. CASE exe \in {"report", "pop"}
      <4>1. Stage(t) = Outcome(exits[t])
        BY <2>2, <3>1, <3>4, FirstsStage
      <4>2. t \notin Unfinished
        BY <1>2, <2>2, <3>3, <3>4
      <4> QED
        BY <1>1, <1>3, <1>4, <3>1, <4>1, <4>2
    <3>5. CASE exe \notin {"report", "pop"}
      <4>1. t \in Unfinished
        BY <1>2, <3>2, <3>5
      <4>2. Stage(t) \in Unended
        BY <2>2, <3>1, <3>5, FirstsStage
      <4> QED
        BY <1>1, <1>3, <4>1, <4>2
    <3> QED
      BY <3>4, <3>5
  <2>3. CASE ~(queue # <<>> /\ t = First) /\ (Queued(t) \/ (http = "push" /\ t = request))
    <3>1. Queued(t) => queue # <<>>
      BY Settled DEF Queued
    <3>2. Stage(t) = "received"
      BY <2>3, <3>1, WhereTasksAre
    <3>3. t \in Unfinished
      BY <1>2, <2>3, <3>1
    <3> QED
      BY <1>1, <1>3, <3>2, <3>3
  <2>4. CASE t \notin lost /\ ~Queued(t) /\ ~(http = "push" /\ t = request)
    <3>1. Stage(t) = Outcome(exits[t])
      BY <2>4, WhereTasksAre
    <3>2. t \notin Unfinished
      BY <1>2, <2>4
    <3> QED
      BY <1>1, <1>3, <1>4, <2>4, <3>1, <3>2
  <2> QED
    BY <2>1, <2>2, <2>3, <2>4
<1>6. [t \in Tasks |-> Stage(t)]'
        = [t \in Tasks |-> IF [v \in Tasks |-> Stage(v)][t] \in Unended
                           THEN "lost" ELSE [v \in Tasks |-> Stage(v)][t]]
  BY <1>5
<1> QED
  BY <1>1, <1>6 DEF Lifecycle!Lose

\* Every step is a step of the promise, or a stutter.
LEMMA StepRefines ==
  ASSUME RInv, [Next]_vars
  PROVE  [Lifecycle!Next]_(Lifecycle!lifecycleVars)
<1>1. CASE Http \/ \E t \in Tasks : New(t) \/ Get(t)
  BY <1>1, HttpRefines
<1>2. CASE StartBuild \/ BuildSucceeded \/ BuildFailed \/ RunSucceeded \/ RunFailed
  BY <1>2, StartBuildRefines, BuildEndsRefines, RunEndsRefines
<1>3. CASE Wake \/ NothingToDo \/ LaunchBuild \/ LaunchRun \/ Report \/ ChildExits \/ Restart
  BY <1>3, QuietRefines
<1>4. CASE Pop
  BY <1>4, PopRefines
<1>5. CASE LaunchThrows \/ Crash
  BY <1>5, DieRefines DEF LaunchThrows, Crash, Lifecycle!Next
<1>6. CASE UNCHANGED vars
  BY <1>6, SameStage, NothingMoves DEF vars
<1> QED
  BY <1>1, <1>2, <1>3, <1>4, <1>5, <1>6 DEF Next, Exe

LEMMA InitRefines == Init => Lifecycle!Init
<1> SUFFICES ASSUME Init PROVE Lifecycle!Init
  OBVIOUS
<1>1. \A t \in Tasks : Stage(t) = "none"
  BY OutcomeOf DEF Init, Stage, Queued
<1> QED
  BY <1>1 DEF Lifecycle!Init, Init

\* The two threads, the queue, the child and the table together do to every task what
\* TaskLifecycle says, and nothing else.
THEOREM KeepsThePromise == Spec => ImplementsLifecycle
<1>1. RInv /\ [Next]_vars => [Lifecycle!Next]_(Lifecycle!lifecycleVars)
  BY StepRefines
<1> QED
  BY <1>1, InitRefines, AlwaysRInv, PTL DEF Spec, ImplementsLifecycle, Lifecycle!Spec
=============================================================================
