---------------------------- MODULE LineChannel ----------------------------
(***************************************************************************)
(* What a caller may rely on when it reads a child's stdout through        *)
(* LProcess_container: a FIFO of lines with a timed read and a timed peek. *)
(* A read or a peek that times out takes nothing; once a line has arrived  *)
(* (a peek that said yes is one way to know) no later call times out until *)
(* that line is taken; after end of file every read answers an empty line. *)
(***************************************************************************)
EXTENDS Sequences

CONSTANTS Texts,        \* the texts a read can return
          Empty         \* the empty text (one of Texts), the answer at end of file

VARIABLES queue,        \* lines written by the child and not yet read
          closed,       \* nobody holds the write end any more
          arrived,      \* the next line, or end of file, is at hand
          gone,         \* the reading side has been destroyed
          answer        \* what the last call returned

channelVars == <<queue, closed, arrived, gone, answer>>

Answer(op, text) == [op |-> op, text |-> text]

Answers == [op : {"none", "line", "timeout", "new", "nonew"}, text : Texts]

Init ==
  /\ queue = <<>>
  /\ closed = FALSE
  /\ arrived = FALSE
  /\ gone = FALSE
  /\ answer = Answer("none", Empty)

\* The child writes one more line.
Put(t) ==
  /\ ~closed
  /\ ~gone
  /\ queue' = Append(queue, t)
  /\ UNCHANGED <<closed, arrived, gone, answer>>

\* The last writer closes the stream.
Close ==
  /\ ~closed
  /\ closed' = TRUE
  /\ UNCHANGED <<queue, arrived, gone, answer>>

\* The first line, or end of file, reaches the reading side.
Arrive ==
  /\ ~gone
  /\ queue # <<>> \/ closed
  /\ arrived' = TRUE
  /\ UNCHANGED <<queue, closed, gone, answer>>

GetLine ==
  /\ arrived
  /\ queue # <<>>
  /\ answer' = Answer("line", Head(queue))
  /\ queue' = Tail(queue)
  /\ arrived' = FALSE
  /\ UNCHANGED <<closed, gone>>

GetEndOfFile ==
  /\ arrived
  /\ queue = <<>> /\ closed
  /\ answer' = Answer("line", Empty)
  /\ arrived' = FALSE
  /\ UNCHANGED <<queue, closed, gone>>

\* A timed call gives up: only while nothing has arrived, and nothing is lost.
GiveUp(op) ==
  /\ ~arrived
  /\ ~gone
  /\ answer' = Answer(op, Empty)
  /\ UNCHANGED <<queue, closed, arrived, gone>>

PeekYes ==
  /\ arrived
  /\ answer' = Answer("new", Empty)
  /\ UNCHANGED <<queue, closed, arrived, gone>>

Destroy ==
  /\ gone' = TRUE
  /\ queue' = <<>>
  /\ arrived' = FALSE
  /\ closed' \in {closed, TRUE}
  /\ UNCHANGED answer

Next ==
  \/ \E t \in Texts : Put(t)
  \/ Close
  \/ Arrive
  \/ GetLine
  \/ GetEndOfFile
  \/ \E op \in {"timeout", "nonew"} : GiveUp(op)
  \/ PeekYes
  \/ Destroy

Spec == Init /\ [][Next]_channelVars
=============================================================================
