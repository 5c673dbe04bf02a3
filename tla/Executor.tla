------------------------------- MODULE Executor -------------------------------
(***************************************************************************)
(* liujdg.deamon: the HTTP thread that answers /new and /get, the executor *)
(* thread that builds and runs the tasks one after the other, the queue    *)
(* they share under mutex_pro, the child the executor watches, and the     *)
(* table `tasks` of the database, which alone survives the daemon.         *)
(***************************************************************************)
EXTENDS Integers, Sequences, FiniteSets

CONSTANTS Tasks,          \* ids of the tasks clients may post
          MaxCrashes,     \* bound on the deaths of the daemon
          MaxDbFailures,  \* bound on the database operations that fail
          Fates           \* what becomes of a child: it "ends", or "blocks" (nobody
                          \* reads its pipes before it has ended), or "hangs"

Courses == {"ends", "blocks", "hangs"}

ASSUME ExecutorAssumption ==
  /\ MaxCrashes \in Nat
  /\ MaxDbFailures \in Nat
  /\ Fates \subseteq Courses

VARIABLES
  alive,        \* the daemon is running
  queue,        \* processes: the tasks not yet over, the current one first
  mutex,        \* who holds mutex_pro
  type,         \* what the executor is doing for the first task
  pro,          \* the child it has launched
  exe,          \* where the executor is
  http,         \* where the HTTP thread is
  request,      \* the task of the /new in progress, or NoTask
  status,       \* the database, "none" where there is no row
  crashes,      \* how often the daemon died
  dbFailures,   \* how many operations of the database failed
  accepted,     \* history: ids answered with "received"
  lost,         \* history: ids of the tasks not over when a daemon died
  exits,        \* history: exit codes of the children of each task
  seen          \* history: what the last /get told of each id

vars == <<alive, queue, mutex, type, pro, exe, http, request, status, crashes, dbFailures,
          accepted, lost, exits, seen>>

NoTask == "no task"
Child(t, st, c, code) == [task |-> t, state |-> st, course |-> c, code |-> code]
NoChild == Child(NoTask, "none", "ends", 0)

Statuses == {"none", "received", "building", "running", "buildError", "runtimeError", "fulfilled"}
Terminal == {"buildError", "runtimeError", "fulfilled"}

ThreadTypes ==
  /\ alive \in BOOLEAN
  /\ queue \in Seq(Tasks)
  /\ mutex \in {"free", "exe", "http"}
  /\ type \in {"NONE", "BUILD", "RUN"}
  /\ pro \in [task : Tasks \cup {NoTask}, state : {"none", "running", "exited"},
              course : Courses, code : {0, 1}]
  /\ exe \in {"sleep", "locked", "build", "run", "report", "pop"}
  /\ http \in {"idle", "lock", "insert", "push"}
  /\ request \in Tasks \cup {NoTask}

RecordTypes ==
  /\ status \in [Tasks -> Statuses]
  /\ crashes \in 0 .. MaxCrashes
  /\ dbFailures \in 0 .. MaxDbFailures
  /\ accepted \subseteq Tasks
  /\ lost \subseteq Tasks
  /\ exits \in [Tasks -> Seq({0, 1})]
  /\ seen \in [Tasks -> Statuses \cup {"error", ""}]

\* What the threads hold, and what outlives them, have their types.
TypeOK == ThreadTypes /\ RecordTypes

Init ==
  /\ alive = TRUE
  /\ queue = <<>>
  /\ mutex = "free"
  /\ type = "NONE"
  /\ pro = NoChild
  /\ exe = "sleep"
  /\ http = "idle"
  /\ request = NoTask
  /\ status = [t \in Tasks |-> "none"]
  /\ crashes = 0
  /\ dbFailures = 0
  /\ accepted = {}
  /\ lost = {}
  /\ exits = [t \in Tasks |-> <<>>]
  /\ seen = [t \in Tasks |-> "none"]

First == Head(queue)

-----------------------------------------------------------------------------
(* The database.                                                           *)

DbFails ==
  /\ dbFailures < MaxDbFailures
  /\ dbFailures' = dbFailures + 1
  /\ UNCHANGED status

DbWrites(t, s) ==
  /\ status' = [status EXCEPT ![t] = s]
  /\ UNCHANGED dbFailures

\* The executor logs a failed update and goes on.
Update(t, s) == DbWrites(t, s) \/ DbFails

-----------------------------------------------------------------------------
(* The HTTP thread.                                                        *)

httpFrame == <<alive, type, pro, exe, crashes, lost, exits>>

\* /new: the body is parsed, an id is drawn, the handler waits for mutex_pro.
New(t) ==
  /\ alive
  /\ http = "idle"
  /\ status[t] = "none" /\ t \notin accepted /\ t \notin lost
  /\ http' = "lock"
  /\ request' = t
  /\ UNCHANGED <<httpFrame, queue, mutex, status, dbFailures, accepted, seen>>

NewLocks ==
  /\ http = "lock"
  /\ mutex = "free"
  /\ mutex' = "http"
  /\ http' = "insert"
  /\ UNCHANGED <<httpFrame, queue, request, status, dbFailures, accepted, seen>>

NewInserts ==
  /\ http = "insert"
  /\ DbWrites(request, "received")
  /\ http' = "push"
  /\ UNCHANGED <<httpFrame, queue, mutex, request, accepted, seen>>

\* Mutation: a row that could not be inserted is answered like one that was.
NewFailsUnnoticed ==
  /\ http = "insert"
  /\ DbFails
  /\ http' = "idle"
  /\ request' = NoTask
  /\ mutex' = "free"
  /\ accepted' = accepted \cup {request}
  /\ UNCHANGED <<httpFrame, queue, seen>>

\* The exception leaves the block that holds the lock; the answer is an error.
NewFails ==
  /\ http = "insert"
  /\ DbFails
  /\ http' = "idle"
  /\ request' = NoTask
  /\ mutex' = "free"
  /\ UNCHANGED <<httpFrame, queue, accepted, seen>>

\* Mutation: the id is read after the task was moved away.
NewPushesMovedFrom ==
  /\ http = "push"
  /\ queue' = Append(queue, NoTask)
  /\ mutex' = "free"
  /\ http' = "idle"
  /\ request' = NoTask
  /\ accepted' = accepted \cup {request}
  /\ UNCHANGED <<httpFrame, status, dbFailures, seen>>

NewPushes ==
  /\ http = "push"
  /\ queue' = Append(queue, request)
  /\ mutex' = "free"
  /\ http' = "idle"
  /\ request' = NoTask
  /\ accepted' = accepted \cup {request}
  /\ UNCHANGED <<httpFrame, status, dbFailures, seen>>

\* /get reads the row without mutex_pro.  Where there is no row, `ind` keeps the
\* value it never got: i_ok by chance, and the answer is the empty status.  An
\* answer that says the database failed tells nothing of the task.
Get(t) ==
  /\ alive
  /\ http = "idle"
  /\ \/ /\ \E answer \in IF status[t] = "none" THEN {"error", ""} ELSE {status[t]} :
            seen' = [seen EXCEPT ![t] = answer]
        /\ UNCHANGED <<status, dbFailures>>
     \/ /\ DbFails
        /\ UNCHANGED seen
  /\ UNCHANGED <<httpFrame, queue, mutex, http, request, accepted>>

Http == NewLocks \/ NewInserts \/ NewFails \/ NewPushes

-----------------------------------------------------------------------------
(* The executor thread.                                                    *)

exeFrame == <<alive, http, request, crashes, accepted, lost, exits, seen>>

Wake ==
  /\ alive
  /\ exe = "sleep"
  /\ mutex = "free"
  /\ mutex' = "exe"
  /\ exe' = "locked"
  /\ UNCHANGED <<exeFrame, queue, type, pro, status, dbFailures>>

Sleeps ==
  /\ mutex' = "free"
  /\ exe' = "sleep"

\* Mutation: the executor waits for something to do without releasing mutex_pro.
NothingToDoLocked ==
  /\ exe = "locked"
  /\ queue = <<>> \/ (type # "NONE" /\ pro.state = "running")
  /\ UNCHANGED <<exeFrame, queue, mutex, type, pro, exe, status, dbFailures>>

NothingToDo ==
  /\ exe = "locked"
  /\ queue = <<>> \/ (type # "NONE" /\ pro.state = "running")
  /\ Sleeps
  /\ UNCHANGED <<exeFrame, queue, type, pro, status, dbFailures>>

StartBuild ==
  /\ exe = "locked"
  /\ queue # <<>>
  /\ type = "NONE"
  /\ Update(First, "building")
  /\ exe' = "build"
  /\ UNCHANGED <<exeFrame, queue, mutex, type, pro>>

\* The child gets the task as JSON on stdin, and its stdin is closed.
Launch(kind) ==
  /\ \E c \in Fates : pro' = Child(First, "running", c, 0)
  /\ type' = kind
  /\ Sleeps
  /\ UNCHANGED <<exeFrame, queue, status, dbFailures>>

LaunchBuild == exe = "build" /\ Launch("BUILD")
LaunchRun   == exe = "run" /\ Launch("RUN")

Exited == exe = "locked" /\ queue # <<>> /\ type # "NONE" /\ pro.state = "exited"

\* Mutation: the return code of liujdg.build is not looked at.
BuildSucceededAnyway ==
  /\ Exited
  /\ type = "BUILD"
  /\ Update(First, "running")
  /\ exe' = "run"
  /\ UNCHANGED <<exeFrame, queue, mutex, type, pro>>

BuildSucceeded ==
  /\ Exited
  /\ type = "BUILD" /\ pro.code = 0
  /\ Update(First, "running")
  /\ exe' = "run"
  /\ UNCHANGED <<exeFrame, queue, mutex, type, pro>>

RunSucceeded ==
  /\ Exited
  /\ type = "RUN" /\ pro.code = 0
  /\ Update(First, "fulfilled")
  /\ exe' = "pop"
  /\ UNCHANGED <<exeFrame, queue, mutex, type, pro>>

\* Mutation: a build that failed is put down as not yet begun.
BuildFailedResets ==
  /\ Exited
  /\ type = "BUILD" /\ pro.code # 0
  /\ Update(First, "received")
  /\ exe' = "report"
  /\ UNCHANGED <<exeFrame, queue, mutex, type, pro>>

BuildFailed ==
  /\ Exited
  /\ type = "BUILD" /\ pro.code # 0
  /\ Update(First, "buildError")
  /\ exe' = "report"
  /\ UNCHANGED <<exeFrame, queue, mutex, type, pro>>

RunFailed ==
  /\ Exited
  /\ type = "RUN" /\ pro.code # 0
  /\ Update(First, "runtimeError")
  /\ exe' = "report"
  /\ UNCHANGED <<exeFrame, queue, mutex, type, pro>>

\* build_error.txt, runtime_error.txt: LreadFile reads the child's stdout and
\* stderr to their end, holding mutex_pro.
Report ==
  /\ exe = "report"
  /\ exe' = "pop"
  /\ UNCHANGED <<exeFrame, queue, mutex, type, pro, status, dbFailures>>

\* Mutation: the executor forgets to begin anew.
PopKeepsType ==
  /\ exe = "pop"
  /\ queue' = Tail(queue)
  /\ pro' = NoChild
  /\ Sleeps
  /\ UNCHANGED <<exeFrame, type, status, dbFailures>>

Pop ==
  /\ exe = "pop"
  /\ queue' = Tail(queue)
  /\ type' = "NONE"
  /\ pro' = NoChild
  /\ Sleeps
  /\ UNCHANGED <<exeFrame, status, dbFailures>>

Exe == NothingToDo \/ StartBuild \/ LaunchBuild \/ LaunchRun \/ BuildSucceeded
       \/ RunSucceeded \/ BuildFailed \/ RunFailed \/ Report \/ Pop

-----------------------------------------------------------------------------
(* The child, and the life of the daemon.                                  *)

\* One that hangs does so of itself: liujdg.run limits each read of an answer, but turns
\* for ever on a judger that has closed its stdout and runs on, and a write to a program
\* that does not read has no limit; what a build has left behind may hold its output open.
ChildExits ==
  /\ pro.state = "running"
  /\ pro.course = "ends"
  /\ \E code \in {0, 1} :
       /\ pro' = [pro EXCEPT !.state = "exited", !.code = code]
       /\ exits' = [exits EXCEPT ![pro.task] = Append(@, code)]
  /\ UNCHANGED <<alive, queue, mutex, type, exe, http, request, status, crashes, dbFailures,
                 accepted, lost, seen>>

\* The tasks that are in memory only and not over.
Unfinished ==
  {queue[k] : k \in {j \in DOMAIN queue : j > 1 \/ exe \notin {"report", "pop"}}}
    \cup (IF http = "push" THEN {request} ELSE {})

Die ==
  /\ alive
  /\ alive' = FALSE
  /\ crashes' = crashes + 1
  /\ lost' = lost \cup Unfinished
  /\ queue' = <<>>
  /\ mutex' = "free"
  /\ type' = "NONE"
  /\ pro' = NoChild
  /\ exe' = "sleep"
  /\ http' = "idle"
  /\ request' = NoTask
  /\ UNCHANGED <<status, dbFailures, accepted, exits, seen>>

\* Nothing catches what LProcess throws when liujdg.build or liujdg.run cannot
\* be started, nor the SIGPIPE of a child that ends before it is written to.
LaunchThrows ==
  /\ exe \in {"build", "run"}
  /\ crashes < MaxCrashes
  /\ Die

\* Killed, or main returns: the executor is interrupted and not joined.
Crash ==
  /\ crashes < MaxCrashes
  /\ Die

Restart ==
  /\ ~alive
  /\ alive' = TRUE
  /\ UNCHANGED <<queue, mutex, type, pro, exe, http, request, status, crashes, dbFailures,
                 accepted, lost, exits, seen>>

-----------------------------------------------------------------------------
Next ==
  \/ \E t \in Tasks : New(t) \/ Get(t)
  \/ Http
  \/ Wake \/ Exe
  \/ ChildExits
  \/ LaunchThrows \/ Crash \/ Restart

Spec == Init /\ [][Next]_vars

\* Both threads go on, a thread that waits for mutex_pro gets it in the end, and a child
\* ends that neither blocks nor hangs; of the others nothing is asked.
FairSpec ==
  /\ Spec
  /\ WF_vars(NewInserts \/ NewFails \/ NewPushes) /\ SF_vars(NewLocks)
  /\ WF_vars(Exe) /\ SF_vars(Wake)
  /\ WF_vars(ChildExits)

-----------------------------------------------------------------------------
(* Properties.                                                             *)

\* The child being watched, and what it is watched for, belong to the first task
\* of the queue whatever /new, a crash or a failed update do meanwhile.
ChildIsOfFirstTask ==
  /\ type = "NONE" <=> pro.state = "none"
  /\ pro.state # "none" => queue # <<>> /\ pro.task = First

\* A status says what has happened to the children of its own task.
StatusTellsTruth ==
  \A t \in Tasks :
    /\ status[t] = "running" => exits[t] # <<>> /\ exits[t][1] = 0
    /\ status[t] = "fulfilled" => exits[t] = <<0, 0>>
    /\ status[t] = "runtimeError" => exits[t] = <<0, 1>>
    /\ status[t] = "buildError" => exits[t] = <<1>>

Over(t) == exits[t] \in {<<1>>, <<0, 1>>, <<0, 0>>}

Queued(t)     == \E k \in 1 .. Len(queue) : queue[k] = t
QueuedOnce(t) == \E k \in 1 .. Len(queue) : \A j \in 1 .. Len(queue) : queue[j] = t <=> j = k

\* A task answered with "received" is in the queue, once, until it is over, or was
\* lost with a daemon that died: no answer, time-out or failure drops it.
NothingForgotten ==
  \A t \in accepted : QueuedOnce(t) \/ (~Queued(t) /\ (Over(t) \/ t \in lost))

Rank(s) == CASE s = "received" -> 1
             [] s = "building" -> 2
             [] s = "running" -> 3
             [] s \in Terminal -> 4
             [] OTHER -> 0

\* A client that asks again never sees its task go back, nor a final status change.
SeenNeverGoesBack ==
  [][\A t \in Tasks : /\ Rank(seen[t]) <= Rank(seen'[t])
                      /\ seen[t] \in Terminal => seen'[t] = seen[t]]_vars

\* Without crashes and database failures every task that was received ends with
\* a final status.
EveryTaskEnds == \A t \in Tasks : t \in accepted ~> status[t] \in Terminal

\* So it is while nothing of the kind happens, whatever happens later, and no child prints
\* more than its pipe holds, or hangs: the executor sets a child no limit.
Undisturbed == crashes = 0 /\ dbFailures = 0 /\ pro.course = "ends"

UndisturbedTasksEnd == []Undisturbed => EveryTaskEnds

\* /new is answered: mutex_pro is never held for ever.
NewIsAnswered == http # "idle" ~> http = "idle"

\* Where a task is, by what the executor is at.
StageOfFirst ==
  CASE exe = "build" -> "building"
    [] exe = "run" -> "running"
    [] exe \in {"report", "pop"} ->
         IF type = "BUILD" THEN "buildError"
         ELSE IF pro.code = 0 THEN "fulfilled" ELSE "runtimeError"
    [] OTHER -> CASE type = "BUILD" -> "building"
                  [] type = "RUN" -> "running"
                  [] OTHER -> "received"

Outcome(codes) ==
  CASE codes = <<1>> -> "buildError"
    [] codes = <<0, 1>> -> "runtimeError"
    [] codes = <<0, 0>> -> "fulfilled"
    [] OTHER -> "none"

Stage(t) ==
  IF t \in lost THEN "lost"
  ELSE IF queue # <<>> /\ t = First THEN StageOfFirst
  ELSE IF Queued(t) \/ (http = "push" /\ t = request) THEN "received"
  ELSE Outcome(exits[t])

Lifecycle == INSTANCE TaskLifecycle WITH
  stage <- [t \in Tasks |-> Stage(t)],
  shown <- status

\* The daemon keeps the promise of TaskLifecycle.
ImplementsLifecycle == Lifecycle!Spec
=============================================================================
