-------------------------- MODULE LProcess_container --------------------------
(***************************************************************************)
(* LProcess_container: a child process whose stdout is read line by line   *)
(* with a time limit.  Three actors: the caller's thread, the threads that *)
(* std::async starts to read one line each, and the child.  A read that    *)
(* times out leaves its future in eventList, and the next call resumes it. *)
(*                                                                         *)
(* The bytes of the pipe are cut into blocks as the reader sees them: a    *)
(* block is a text ended by a newline (or by end of file), or Full, the    *)
(* LENGTHLIMIT characters after which the reader stops inside a line.      *)
(***************************************************************************)
EXTENDS Integers, Sequences

CONSTANTS Texts,        \* texts shorter than LENGTHLIMIT
          Empty,        \* the empty text
          Full,         \* LENGTHLIMIT characters without a newline
          Eof,          \* what a reader finds when every writer has closed
          MaxReads,     \* bound on the std::async calls of one behaviour
          MaxBlocks,    \* bound on the blocks the child writes
          PipeCap,      \* capacity of the stdout pipe, in blocks
          Orphans       \* may the child leave a descendant holding its stdout?

ASSUME ContainerAssumption ==
  /\ Empty \in Texts
  /\ Full \notin Texts
  /\ Eof \notin Texts
  /\ MaxReads \in Nat
  /\ MaxBlocks \in Nat
  /\ PipeCap \in Nat \ {0}
  /\ Orphans \in BOOLEAN

Blocks == Texts \cup {Full}
Reads  == 1 .. MaxReads

VARIABLES
  running,      \* the child, as waitpid sees it
  writers,      \* some process still holds the write end of its stdout
  sent,         \* history: the blocks written so far
  pipe,         \* the blocks written and not yet read
  nfut,         \* how many reads std::async has started
  fut,          \* state of each read
  val,          \* what each finished read holds
  mutex,        \* the read that holds the container's mutex, or 0
  eventList,    \* reads left over by calls that did not wait for them
  pc,           \* where the caller is
  cur,          \* the read the caller waits for
  process,      \* "live", or "freed" by the destructor
  delivered,    \* history: the texts the caller received
  answer        \* what the last call returned

childVars  == <<running, writers, sent>>
readVars   == <<nfut, fut, val, mutex>>
callerVars == <<eventList, pc, cur, process, delivered, answer>>
vars == <<childVars, pipe, readVars, callerVars>>

Answer(op, text) == [op |-> op, text |-> text]

TypeOK ==
  /\ running \in BOOLEAN
  /\ writers \in BOOLEAN
  /\ sent \in Seq(Blocks)
  /\ pipe \in Seq(Blocks)
  /\ nfut \in 0 .. MaxReads
  /\ fut \in [Reads -> {"none", "launched", "reading", "ready", "over"}]
  /\ val \in [Reads -> Texts \cup {Eof}]
  /\ mutex \in 0 .. MaxReads
  /\ eventList \in Seq(Reads)
  /\ pc \in {"idle", "getline", "peek", "join", "done"}
  /\ cur \in 0 .. MaxReads
  /\ process \in {"live", "freed"}
  /\ delivered \in Seq(Texts)
  /\ answer \in [op : {"none", "line", "timeout", "new", "nonew"}, text : Texts]

Init ==
  /\ running = TRUE
  /\ writers = TRUE
  /\ sent = <<>>
  /\ pipe = <<>>
  /\ nfut = 0
  /\ fut = [f \in Reads |-> "none"]
  /\ val = [f \in Reads |-> Empty]
  /\ mutex = 0
  /\ eventList = <<>>
  /\ pc = "idle"
  /\ cur = 0
  /\ process = "live"
  /\ delivered = <<>>
  /\ answer = Answer("none", Empty)

-----------------------------------------------------------------------------
(* The child and what it leaves behind.                                    *)

ChildWrites(b) ==
  /\ writers
  /\ Len(pipe) < PipeCap
  /\ Len(sent) < MaxBlocks
  /\ pipe' = Append(pipe, b)
  /\ sent' = Append(sent, b)
  /\ UNCHANGED <<running, writers, readVars, callerVars>>

\* The child is over; a descendant may survive it with stdout still open.
ChildEnds ==
  /\ running' = FALSE
  /\ writers' \in IF running /\ ~Orphans THEN {FALSE} ELSE {writers, FALSE}

ChildExits ==
  /\ running
  /\ ChildEnds
  /\ UNCHANGED <<sent, pipe, readVars, callerVars>>

OrphanCloses ==
  /\ ~running
  /\ writers
  /\ writers' = FALSE
  /\ UNCHANGED <<running, sent, pipe, readVars, callerVars>>

-----------------------------------------------------------------------------
(* The lambda that wait_for_getline and hasNewMessage give to std::async.  *)

\* A full block becomes the empty text: the lambda returns {"", false} there.
\* Mutation: the reader has no length limit.
TextOfUncut(b) == b

TextOf(b) == IF b = Full THEN Empty ELSE b

ReaderLocks(f) ==
  /\ fut[f] = "launched"
  /\ mutex = 0
  /\ mutex' = f
  /\ fut' = [fut EXCEPT ![f] = "reading"]
  /\ UNCHANGED <<childVars, pipe, nfut, val, callerVars>>

ReaderFinishes(f, v) ==
  /\ fut' = [fut EXCEPT ![f] = "ready"]
  /\ val' = [val EXCEPT ![f] = v]
  /\ mutex' = 0
  /\ UNCHANGED <<childVars, nfut, callerVars>>

ReaderGetsBlock(f) ==
  /\ fut[f] = "reading"
  /\ pipe # <<>>
  /\ pipe' = Tail(pipe)
  /\ ReaderFinishes(f, TextOf(Head(pipe)))

ReaderSeesEof(f) ==
  /\ fut[f] = "reading"
  /\ pipe = <<>>
  /\ ~writers
  /\ UNCHANGED pipe
  /\ ReaderFinishes(f, Eof)

-----------------------------------------------------------------------------
(* The caller.                                                             *)

\* Mutation: a call starts a read of its own whatever eventList holds.
StartWaitAnew(where) ==
  /\ pc = "idle"
  /\ nfut < MaxReads
  /\ pc' = where
  /\ nfut' = nfut + 1
  /\ cur' = nfut + 1
  /\ fut' = [fut EXCEPT ![nfut + 1] = "launched"]
  /\ UNCHANGED <<childVars, pipe, val, mutex, eventList, process, delivered, answer>>

\* Resume the read at the front of eventList, or start one.
StartWait(where) ==
  /\ pc = "idle"
  /\ pc' = where
  /\ IF eventList # <<>>
     THEN /\ cur' = Head(eventList)
          /\ UNCHANGED <<nfut, fut>>
     ELSE /\ nfut < MaxReads
          /\ nfut' = nfut + 1
          /\ cur' = nfut + 1
          /\ fut' = [fut EXCEPT ![nfut + 1] = "launched"]
  /\ UNCHANGED <<childVars, pipe, val, mutex, eventList, process, delivered, answer>>

CallWaitForGetline == StartWait("getline")
CallHasNewMessage  == StartWait("peek")

Return(op, text) ==
  /\ pc' = "idle"
  /\ cur' = 0
  /\ answer' = Answer(op, text)
  /\ UNCHANGED <<childVars, pipe, nfut, val, mutex, process>>

\* wait_for says ready: the line is taken, and its future deleted.
GetlineReturnsLine ==
  /\ pc = "getline"
  /\ fut[cur] = "ready"
  /\ fut' = [fut EXCEPT ![cur] = "over"]
  /\ eventList' = IF eventList # <<>> THEN Tail(eventList) ELSE eventList
  /\ IF val[cur] = Eof
     THEN /\ Return("line", Empty)
          /\ UNCHANGED delivered
     ELSE /\ Return("line", val[cur])
          /\ delivered' = Append(delivered, val[cur])

\* Mutation: a call that times out forgets the read it started.
KeepReadForgets == UNCHANGED eventList

\* A call that leaves its read behind: it stays, or becomes, the one in eventList.
KeepRead == eventList' = IF eventList # <<>> THEN eventList ELSE <<cur>>

GetlineTimesOut ==
  /\ pc = "getline"
  /\ fut[cur] # "ready"
  /\ KeepRead
  /\ Return("timeout", Empty)
  /\ UNCHANGED <<fut, delivered>>

\* Mutation: a read in eventList counts as a message whether it is ready or not.
HasNewMessageHasty ==
  /\ pc = "peek"
  /\ KeepRead
  /\ Return(IF fut[cur] = "ready" \/ eventList # <<>> THEN "new" ELSE "nonew", Empty)
  /\ UNCHANGED <<fut, delivered>>

HasNewMessageReturns ==
  /\ pc = "peek"
  /\ KeepRead
  /\ Return(IF fut[cur] = "ready" THEN "new" ELSE "nonew", Empty)
  /\ UNCHANGED <<fut, delivered>>

\* kill(), and the first statement of the destructor.
Kill ==
  /\ pc = "idle"
  /\ running
  /\ ChildEnds
  /\ UNCHANGED <<sent, pipe, readVars, callerVars>>

\* Mutation: the destructor waits for its reads without killing the child.
DestroyWithoutKill ==
  /\ pc = "idle"
  /\ pc' = "join"
  /\ UNCHANGED <<childVars, pipe, readVars, eventList, cur, process, delivered, answer>>

Destroy ==
  /\ pc = "idle"
  /\ pc' = "join"
  /\ IF running THEN ChildEnds ELSE UNCHANGED <<running, writers>>
  /\ UNCHANGED <<sent, pipe, readVars, eventList, cur, process, delivered, answer>>

\* Deleting a future that std::async made blocks until its thread has returned.
JoinRead ==
  /\ pc = "join"
  /\ eventList # <<>>
  /\ fut[Head(eventList)] = "ready"
  /\ fut' = [fut EXCEPT ![Head(eventList)] = "over"]
  /\ eventList' = Tail(eventList)
  /\ UNCHANGED <<childVars, pipe, nfut, val, mutex, pc, cur, process, delivered, answer>>

\* Mutation: the process is deleted before the reads that use it.
FreeProcessEarly ==
  /\ pc = "join"
  /\ process' = "freed"
  /\ pc' = "done"
  /\ UNCHANGED <<childVars, pipe, readVars, eventList, cur, delivered, answer>>

FreeProcess ==
  /\ pc = "join"
  /\ eventList = <<>>
  /\ process' = "freed"
  /\ pc' = "done"
  /\ UNCHANGED <<childVars, pipe, readVars, eventList, cur, delivered, answer>>

-----------------------------------------------------------------------------
Child  == (\E b \in Blocks : ChildWrites(b)) \/ ChildExits \/ OrphanCloses
Reader(f) == ReaderLocks(f) \/ ReaderGetsBlock(f) \/ ReaderSeesEof(f)
Returns == GetlineReturnsLine \/ GetlineTimesOut \/ HasNewMessageReturns
Destructor == JoinRead \/ FreeProcess

Next ==
  \/ Child
  \/ \E f \in Reads : Reader(f)
  \/ CallWaitForGetline
  \/ CallHasNewMessage
  \/ Returns
  \/ Kill
  \/ Destroy
  \/ Destructor

Spec == Init /\ [][Next]_vars

\* Threads run, timed waits end, the destructor's loop goes on; the child owes
\* nothing, and no call has to be made.
Fairness ==
  /\ \A f \in Reads : WF_vars(Reader(f))
  /\ WF_vars(Returns)
  /\ WF_vars(Destructor)

FairSpec == Spec /\ Fairness
-----------------------------------------------------------------------------
(* Properties.                                                             *)

\* The read the caller waits for, or else the one at the front of eventList.
Current ==
  IF pc \in {"getline", "peek"} THEN cur
  ELSE IF eventList # <<>> THEN Head(eventList) ELSE 0

Unfinished == {f \in Reads : fut[f] \in {"launched", "reading", "ready"}}

\* Whatever the order of calls and time-outs, at most one read is under way, and
\* it is the one the next call resumes: no thread of std::async is ever left
\* behind to take a line that nobody will ask it for.
OneReadAtATime == Unfinished = IF Current = 0 THEN {} ELSE {Current}

Arrived == Current # 0 /\ fut[Current] = "ready"

\* The line a finished read holds for the caller.
Held == IF Arrived /\ val[Current] # Eof THEN <<val[Current]>> ELSE <<>>

\* Lines reach the caller in the order the child wrote them, none lost and none
\* twice, however calls that time out and calls that succeed are mixed: what was
\* delivered, what a finished read holds and what is in the pipe is what was sent.
InOrder ==
  pc \notin {"join", "done"} =>
    LET nd == Len(delivered)
        nh == Len(Held)
    IN  /\ Len(sent) = nd + nh + Len(pipe)
        /\ \A k \in 1 .. nd : delivered[k] = TextOf(sent[k])
        /\ \A k \in 1 .. nh : Held[k] = TextOf(sent[nd + k])
        /\ \A k \in 1 .. Len(pipe) : pipe[k] = sent[nd + nh + k]

\* The lambda captures `this` and reads process->stdout_: no read may be under
\* way once the destructor has deleted the process.
NoReadAfterFree ==
  process = "freed" => \A f \in Reads : fut[f] \notin {"launched", "reading"}

\* doc/run/README.md: a line of LENGTHLIMIT characters or more ends the program.
\* So no text handed to the caller as a line stands for a full block.
OverlongLineIsRefused ==
  \A k \in 1 .. Len(delivered) : sent[k] # Full

\* The destructor returns: the child is killed first, so a read blocked in the
\* pipe meets end of file and the future that joins it can be deleted.  Only a
\* descendant of the child that holds its stdout for ever can keep it waiting.
DestructorReturns ==
  /\ pc = "join" ~> pc = "done" \/ (~running /\ writers)
  /\ pc = "join" /\ ~writers ~> pc = "done"

Gone == pc \in {"join", "done"}

\* The container as its callers see it.
Channel == INSTANCE LineChannel WITH
  queue   <- IF Gone THEN <<>>
             ELSE Held \o [k \in 1 .. Len(pipe) |-> TextOf(pipe[k])],
  closed  <- ~writers,
  arrived <- ~Gone /\ Arrived,
  gone    <- Gone

\* Every behaviour of the container is one of the timed FIFO of LineChannel.
ImplementsChannel == Channel!Spec
=============================================================================
