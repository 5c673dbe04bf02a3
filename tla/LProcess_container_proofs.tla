----------------------- MODULE LProcess_container_proofs -----------------------
(***************************************************************************)
(* Proofs about LProcess_container, for every set of texts, every pipe     *)
(* capacity and every number of reads and blocks.                          *)
(*                                                                         *)
(* OneReadAtATime is not inductive: that a call adds at most one read to   *)
(* eventList, and that the read it waits for is the one eventList holds,   *)
(* is what Bookkeeping adds.  The last part shows that the container       *)
(* implements LineChannel.                                                 *)
(***************************************************************************)
EXTENDS LProcess_container, SequenceTheorems, TLAPS

\* What eventList, pc, cur and nfut say about each other.
Bookkeeping ==
  /\ eventList = <<>> \/ \E f \in Reads : eventList = <<f>>
  /\ pc \in {"getline", "peek"} => cur # 0 /\ eventList \in {<<>>, <<cur>>}
  /\ pc \notin {"getline", "peek"} => cur = 0
  /\ pc = "done" => eventList = <<>>
  /\ process = "freed" => pc = "done"
  /\ \A f \in Reads : fut[f] = "none" <=> f > nfut
  /\ mutex # 0 => fut[mutex] = "reading"
  /\ \A f \in Reads : fut[f] = "reading" => mutex = f

\* OneReadAtATime, one read at a time.
EachReadIsCurrent == \A f \in Reads : fut[f] \in {"launched", "reading", "ready"} <=> f = Current

IInv == TypeOK /\ Bookkeeping /\ EachReadIsCurrent

USE ContainerAssumption

-----------------------------------------------------------------------------
(* Facts the steps below share.                                            *)

LEMMA TextOfType == \A b \in Blocks : TextOf(b) \in Texts
  BY DEF Blocks, TextOf

LEMMA CurrentType == IInv => Current = 0 \/ Current \in Reads
<1> SUFFICES ASSUME IInv PROVE Current = 0 \/ Current \in Reads
  OBVIOUS
<1>1. CASE eventList # <<>>
  <2>1. Head(eventList) \in Reads
    BY <1>1 DEF IInv, TypeOK
  <2> QED
    BY <2>1 DEF IInv, TypeOK, Reads, Current
<1>2. CASE eventList = <<>>
  BY <1>2 DEF IInv, TypeOK, Reads, Current
<1> QED
  BY <1>1, <1>2

LEMMA InvImplies == IInv => TypeOK /\ OneReadAtATime /\ NoReadAfterFree
<1> SUFFICES ASSUME IInv PROVE OneReadAtATime /\ NoReadAfterFree
  BY DEF IInv
<1>1. Current = 0 \/ Current \in Reads
  BY CurrentType
<1>2. OneReadAtATime
  BY <1>1 DEF IInv, EachReadIsCurrent, OneReadAtATime, Unfinished, Reads
<1>3. ASSUME process = "freed" PROVE Current = 0
  BY <1>3 DEF IInv, Bookkeeping, Current
<1>4. NoReadAfterFree
  BY <1>3 DEF NoReadAfterFree, IInv, EachReadIsCurrent, Reads
<1> QED
  BY <1>2, <1>4

LEMMA InitIInv == Init => IInv
<1> SUFFICES ASSUME Init PROVE IInv
  OBVIOUS
<1>1. TypeOK
  BY DEF Init, TypeOK, Reads, Answer
<1>2. Bookkeeping
  BY DEF Init, Bookkeeping, Reads
<1>3. EachReadIsCurrent
  BY DEF Init, EachReadIsCurrent, Current, Reads
<1> QED
  BY <1>1, <1>2, <1>3 DEF IInv

\* Steps that leave the reads and the caller alone.
LEMMA ChildIInv ==
  ASSUME IInv, UNCHANGED <<readVars, callerVars>>,
         running' \in BOOLEAN, writers' \in BOOLEAN,
         sent' \in Seq(Blocks), pipe' \in Seq(Blocks)
  PROVE  IInv'
<1>1. TypeOK'
  BY DEF IInv, TypeOK, readVars, callerVars
<1>2. Bookkeeping'
  BY DEF IInv, Bookkeeping, readVars, callerVars
<1>3. EachReadIsCurrent'
  BY DEF IInv, EachReadIsCurrent, Current, readVars, callerVars
<1> QED
  BY <1>1, <1>2, <1>3 DEF IInv

LEMMA ReaderIInv == ASSUME IInv, NEW f \in Reads, Reader(f) PROVE IInv'
<1> USE DEF IInv
<1>1. CASE ReaderLocks(f)
  <2> USE <1>1 DEF ReaderLocks
  <2>1. TypeOK'
    BY DEF TypeOK, childVars, callerVars, Reads
  <2>2. Bookkeeping'
    BY DEF TypeOK, Bookkeeping, childVars, callerVars, Reads
  <2>3. EachReadIsCurrent'
    BY DEF TypeOK, EachReadIsCurrent, Current, callerVars, Reads
  <2> QED
    BY <2>1, <2>2, <2>3
<1>2. ASSUME NEW v \in Texts \cup {Eof}, fut[f] = "reading", ReaderFinishes(f, v),
             pipe' \in Seq(Blocks)
      PROVE  IInv'
  <2> USE <1>2 DEF ReaderFinishes
  <2>1. TypeOK'
    BY DEF TypeOK, childVars, callerVars, Reads
  <2>2. Bookkeeping'
    BY DEF TypeOK, Bookkeeping, childVars, callerVars, Reads
  <2>3. EachReadIsCurrent'
    BY DEF TypeOK, EachReadIsCurrent, Current, callerVars, Reads
  <2> QED
    BY <2>1, <2>2, <2>3
<1>3. CASE ReaderGetsBlock(f)
  <2>1. Head(pipe) \in Blocks /\ Tail(pipe) \in Seq(Blocks)
    BY <1>3 DEF TypeOK, ReaderGetsBlock
  <2>2. TextOf(Head(pipe)) \in Texts
    BY <2>1, TextOfType
  <2> QED
    BY <1>2, <1>3, <2>1, <2>2 DEF ReaderGetsBlock
<1>4. CASE ReaderSeesEof(f)
  BY <1>2, <1>4 DEF TypeOK, ReaderSeesEof
<1> QED
  BY <1>1, <1>3, <1>4 DEF Reader

LEMMA StartWaitIInv ==
  ASSUME IInv, NEW where \in {"getline", "peek"}, StartWait(where) PROVE IInv'
<1> USE DEF IInv, StartWait
<1>1. CASE eventList # <<>>
  <2>1. PICK f \in Reads : eventList = <<f>>
    BY <1>1 DEF Bookkeeping
  <2>2. Head(eventList) = f
    BY <2>1
  <2>3. cur' = f /\ nfut' = nfut /\ fut' = fut
    BY <1>1, <2>2
  <2>4. TypeOK'
    BY <2>3 DEF TypeOK, childVars, Reads
  <2>5. Bookkeeping'
    BY <2>1, <2>3 DEF TypeOK, Bookkeeping, childVars, Reads
  <2>6. EachReadIsCurrent'
    BY <1>1, <2>2, <2>3 DEF TypeOK, EachReadIsCurrent, Current, Reads
  <2> QED
    BY <2>4, <2>5, <2>6
<1>2. CASE eventList = <<>>
  <2>1. /\ nfut < MaxReads /\ nfut' = nfut + 1 /\ cur' = nfut + 1
        /\ fut' = [fut EXCEPT ![nfut + 1] = "launched"]
    BY <1>2
  <2>2. TypeOK'
    BY <2>1 DEF TypeOK, childVars, Reads
  <2>3. Bookkeeping'
    BY <1>2, <2>1 DEF TypeOK, Bookkeeping, childVars, Reads
  <2>4. EachReadIsCurrent'
    BY <1>2, <2>1 DEF TypeOK, EachReadIsCurrent, Current, Reads
  <2> QED
    BY <2>2, <2>3, <2>4
<1> QED
  BY <1>1, <1>2

LEMMA AnswerType ==
  ASSUME NEW op \in {"none", "line", "timeout", "new", "nonew"}, NEW text \in Texts
  PROVE  Answer(op, text) \in [op : {"none", "line", "timeout", "new", "nonew"}, text : Texts]
  BY DEF Answer

\* The read that a line is taken from leaves eventList, and Unfinished, with it.
LEMMA GetlineReturnsLineIInv == ASSUME IInv, GetlineReturnsLine PROVE IInv'
<1> USE DEF IInv
<1>1. cur \in Reads /\ eventList \in {<<>>, <<cur>>} /\ pc = "getline" /\ fut[cur] = "ready"
  BY DEF TypeOK, Bookkeeping, Reads, GetlineReturnsLine
<1>2. eventList' = <<>> /\ fut' = [fut EXCEPT ![cur] = "over"]
  BY <1>1 DEF GetlineReturnsLine
<1>3. PICK text \in Texts :
        /\ Return("line", text)
        /\ delivered' = delivered \/ delivered' = Append(delivered, text)
  <2>1. CASE val[cur] = Eof
    BY <2>1 DEF GetlineReturnsLine
  <2>2. CASE val[cur] # Eof
    <3>1. val[cur] \in Texts
      BY <1>1, <2>2 DEF TypeOK
    <3> QED
      BY <2>2, <3>1 DEF GetlineReturnsLine
  <2> QED
    BY <2>1, <2>2
<1>4. answer' \in [op : {"none", "line", "timeout", "new", "nonew"}, text : Texts]
  BY <1>3, AnswerType DEF Return
<1>5. delivered' \in Seq(Texts)
  <2>1. delivered \in Seq(Texts)
    BY DEF TypeOK
  <2> QED
    BY <1>3, <2>1
<1>6. TypeOK'
  BY <1>1, <1>2, <1>3, <1>4, <1>5 DEF TypeOK, Return, childVars, Reads
<1>7. Bookkeeping'
  BY <1>1, <1>2, <1>3 DEF TypeOK, Bookkeeping, Return, childVars, Reads
<1>8. EachReadIsCurrent'
  BY <1>1, <1>2, <1>3 DEF TypeOK, EachReadIsCurrent, Current, Return, Reads
<1> QED
  BY <1>6, <1>7, <1>8

\* A call that leaves its read behind finds it in eventList the next time.
LEMMA KeepReadIInv ==
  ASSUME IInv, pc \in {"getline", "peek"}, KeepRead, UNCHANGED <<fut, delivered>>,
         NEW op \in {"none", "line", "timeout", "new", "nonew"}, Return(op, Empty)
  PROVE  IInv'
<1> USE DEF IInv
<1>1. cur \in Reads /\ eventList \in {<<>>, <<cur>>}
  BY DEF TypeOK, Bookkeeping, Reads
<1>2. eventList' = <<cur>>
  BY <1>1 DEF KeepRead
<1>3. Head(eventList') = cur
  BY <1>2
<1>4. answer' \in [op : {"none", "line", "timeout", "new", "nonew"}, text : Texts]
  BY AnswerType DEF Return
<1>5. eventList' \in Seq(Reads)
  BY <1>1, <1>2
<1>6. TypeOK'
  BY <1>4, <1>5 DEF TypeOK, Return, childVars, Reads
<1>7. Bookkeeping'
  BY <1>1, <1>2 DEF TypeOK, Bookkeeping, Return, childVars, Reads
<1>8. EachReadIsCurrent'
  BY <1>1, <1>2, <1>3 DEF TypeOK, EachReadIsCurrent, Current, Return, Reads
<1> QED
  BY <1>6, <1>7, <1>8

LEMMA ReturnsIInv == ASSUME IInv, Returns PROVE IInv'
<1>1. CASE GetlineReturnsLine
  BY <1>1, GetlineReturnsLineIInv
<1>2. CASE GetlineTimesOut
  BY <1>2, KeepReadIInv DEF GetlineTimesOut
<1>3. CASE HasNewMessageReturns
  <2>1. PICK op \in {"new", "nonew"} : Return(op, Empty)
    BY <1>3 DEF HasNewMessageReturns
  <2> QED
    BY <1>3, <2>1, KeepReadIInv DEF HasNewMessageReturns
<1> QED
  BY <1>1, <1>2, <1>3 DEF Returns

LEMMA DestroyIInv == ASSUME IInv, Destroy PROVE IInv'
<1> USE DEF IInv, Destroy
<1>1. running' \in BOOLEAN /\ writers' \in BOOLEAN
  BY DEF TypeOK, ChildEnds
<1>2. TypeOK'
  BY <1>1 DEF TypeOK, readVars
<1>3. Bookkeeping'
  BY DEF Bookkeeping, readVars
<1>4. EachReadIsCurrent'
  BY DEF TypeOK, Bookkeeping, EachReadIsCurrent, Current, readVars
<1> QED
  BY <1>2, <1>3, <1>4

\* The destructor empties eventList before it deletes the process.
LEMMA DestructorIInv == ASSUME IInv, Destructor PROVE IInv'
<1> USE DEF IInv
<1>1. CASE JoinRead
  <2> USE <1>1 DEF JoinRead
  <2>1. PICK f \in Reads : eventList = <<f>>
    BY DEF Bookkeeping
  <2>2. Head(eventList) = f /\ eventList' = <<>>
    BY <2>1
  <2>3. TypeOK'
    BY <2>1, <2>2 DEF TypeOK, childVars, Reads
  <2>4. Bookkeeping'
    BY <2>1, <2>2 DEF TypeOK, Bookkeeping, childVars, Reads
  <2>5. EachReadIsCurrent'
    BY <2>1, <2>2 DEF TypeOK, EachReadIsCurrent, Current, Reads
  <2> QED
    BY <2>3, <2>4, <2>5
<1>2. CASE FreeProcess
  <2> USE <1>2 DEF FreeProcess
  <2>1. TypeOK'
    BY DEF TypeOK, childVars, readVars
  <2>2. Bookkeeping'
    BY DEF Bookkeeping, childVars, readVars
  <2>3. EachReadIsCurrent'
    BY DEF EachReadIsCurrent, Current, readVars
  <2> QED
    BY <2>1, <2>2, <2>3
<1> QED
  BY <1>1, <1>2 DEF Destructor

LEMMA NextIInv == ASSUME IInv, [Next]_vars PROVE IInv'
<1>1. CASE Child
  <2>1. ASSUME NEW b \in Blocks, ChildWrites(b) PROVE IInv'
    BY <2>1, ChildIInv DEF IInv, TypeOK, ChildWrites
  <2>2. CASE ChildExits
    BY <2>2, ChildIInv DEF IInv, TypeOK, ChildExits, ChildEnds
  <2>3. CASE OrphanCloses
    BY <2>3, ChildIInv DEF IInv, TypeOK, OrphanCloses
  <2> QED
    BY <1>1, <2>1, <2>2, <2>3 DEF Child
<1>2. ASSUME NEW f \in Reads, Reader(f) PROVE IInv'
  BY <1>2, ReaderIInv
<1>3. CASE CallWaitForGetline
  BY <1>3, StartWaitIInv DEF CallWaitForGetline
<1>4. CASE CallHasNewMessage
  BY <1>4, StartWaitIInv DEF CallHasNewMessage
<1>5. CASE Returns
  BY <1>5, ReturnsIInv
<1>6. CASE Kill
  BY <1>6, ChildIInv DEF IInv, TypeOK, Kill, ChildEnds
<1>7. CASE Destroy
  BY <1>7, DestroyIInv
<1>8. CASE Destructor
  BY <1>8, DestructorIInv
<1>9. CASE UNCHANGED vars
  BY <1>9, ChildIInv DEF IInv, TypeOK, vars, childVars
<1> QED
  BY <1>1, <1>2, <1>3, <1>4, <1>5, <1>6, <1>7, <1>8, <1>9 DEF Next

LEMMA AlwaysIInv == Spec => []IInv
  BY InitIInv, NextIInv, PTL DEF Spec

\* Every variable keeps its type.
THEOREM TypeCorrect == Spec => []TypeOK
  BY AlwaysIInv, InvImplies, PTL

\* However calls, time-outs, reads and the destructor interleave, at most one
\* read is under way, and it is the one the next call resumes.
THEOREM OneReadAlways == Spec => []OneReadAtATime
  BY AlwaysIInv, InvImplies, PTL

\* No reader thread runs once the destructor has deleted the process it reads.
THEOREM NoReadAfterFreeAlways == Spec => []NoReadAfterFree
  BY AlwaysIInv, InvImplies, PTL

-----------------------------------------------------------------------------
(* The order of the lines.  InOrder is inductive relative to IInv.         *)

\* d has been delivered, h is held by a finished read and p is in the pipe.
Ordered(s, d, h, p) ==
  /\ Len(s) = Len(d) + Len(h) + Len(p)
  /\ \A k \in 1 .. Len(d) : d[k] = TextOf(s[k])
  /\ \A k \in 1 .. Len(h) : h[k] = TextOf(s[Len(d) + k])
  /\ \A k \in 1 .. Len(p) : p[k] = s[Len(d) + Len(h) + k]

LEMMA InOrderIsOrdered ==
  InOrder <=> (pc \notin {"join", "done"} => Ordered(sent, delivered, Held, pipe))
  BY DEF InOrder, Ordered

LEMMA OrderedSend ==
  ASSUME NEW s \in Seq(Blocks), NEW d \in Seq(Texts), NEW h \in Seq(Texts),
         NEW p \in Seq(Blocks), NEW b \in Blocks, Ordered(s, d, h, p)
  PROVE  Ordered(Append(s, b), d, h, Append(p, b))
  BY DEF Ordered

LEMMA OrderedTake ==
  ASSUME NEW s \in Seq(Blocks), NEW d \in Seq(Texts), NEW p \in Seq(Blocks),
         p # <<>>, Ordered(s, d, <<>>, p)
  PROVE  Ordered(s, d, <<TextOf(Head(p))>>, Tail(p))
<1>1. Head(p) = s[Len(d) + 1]
  BY DEF Ordered
<1> QED
  BY <1>1 DEF Ordered

LEMMA OrderedDeliver ==
  ASSUME NEW s \in Seq(Blocks), NEW d \in Seq(Texts), NEW p \in Seq(Blocks),
         NEW t \in Texts, Ordered(s, d, <<t>>, p)
  PROVE  Ordered(s, Append(d, t), <<>>, p)
  BY DEF Ordered

\* What Held is, by the state of the one read under way.
LEMMA HeldIs ==
  ASSUME IInv
  PROVE  /\ Held = <<>> \/ \E t \in Texts : Held = <<t>>
         /\ Held \in Seq(Texts)
         /\ (Current = 0 \/ fut[Current] # "ready") => Held = <<>>
<1>1. ASSUME Arrived, val[Current] # Eof PROVE val[Current] \in Texts
  <2>1. Current # 0 /\ fut[Current] = "ready"
    BY <1>1 DEF Arrived
  <2>2. Current \in Reads
    BY <2>1, CurrentType
  <2> QED
    BY <1>1, <2>2 DEF IInv, TypeOK
<1>2. Held = <<>> \/ \E t \in Texts : Held = <<t>>
  BY <1>1 DEF Held
<1>3. (Current = 0 \/ fut[Current] # "ready") => Held = <<>>
  BY DEF Held, Arrived
<1>4. Held \in Seq(Texts)
  <2>1. CASE Held = <<>>
    BY <2>1
  <2>2. ASSUME NEW t \in Texts, Held = <<t>> PROVE Held \in Seq(Texts)
    BY <2>2
  <2> QED
    BY <1>2, <2>1, <2>2
<1> QED
  BY <1>2, <1>3, <1>4

LEMMA SameLines ==
  ASSUME InOrder, UNCHANGED <<sent, pipe, delivered, Held>>,
         pc \in {"join", "done"} => pc' \in {"join", "done"}
  PROVE  InOrder'
  BY DEF InOrder

LEMMA SameRead == UNCHANGED <<fut, val, Current>> => Held' = Held
  BY DEF Held, Arrived

LEMMA ReaderInOrder == ASSUME IInv, InOrder, NEW f \in Reads, Reader(f) PROVE InOrder'
<1>1. fut[f] \in {"launched", "reading"}
  BY DEF Reader, ReaderLocks, ReaderGetsBlock, ReaderSeesEof
<1>2. f = Current /\ Current' = Current /\ Current # 0
  <2>1. f = Current
    BY <1>1 DEF IInv, EachReadIsCurrent
  <2>2. UNCHANGED <<pc, cur, eventList, delivered, sent>>
    BY DEF Reader, ReaderLocks, ReaderGetsBlock, ReaderSeesEof, ReaderFinishes, childVars,
       callerVars
  <2> QED
    BY <2>1, <2>2 DEF Current, Reads
<1>3. Held = <<>>
  BY <1>1, <1>2, HeldIs
<1>4. CASE ReaderLocks(f)
  <2>1. fut'[Current'] = "reading"
    BY <1>2, <1>4 DEF ReaderLocks, IInv, TypeOK
  <2>2. Held' = <<>>
    BY <2>1 DEF Held, Arrived
  <2> QED
    BY <1>3, <1>4, <2>2, SameLines DEF ReaderLocks, childVars, callerVars
<1>5. CASE ReaderSeesEof(f)
  <2>1. val'[Current'] = Eof
    BY <1>2, <1>5 DEF ReaderSeesEof, ReaderFinishes, IInv, TypeOK
  <2>2. Held' = <<>>
    BY <2>1 DEF Held
  <2> QED
    BY <1>3, <1>5, <2>2, SameLines DEF ReaderSeesEof, ReaderFinishes, childVars, callerVars
<1>6. CASE ReaderGetsBlock(f)
  <2>1. pipe # <<>> /\ Head(pipe) \in Blocks
    BY <1>6 DEF ReaderGetsBlock, IInv, TypeOK
  <2>2. TextOf(Head(pipe)) \in Texts
    BY <2>1, TextOfType
  <2>3. fut'[Current'] = "ready" /\ val'[Current'] = TextOf(Head(pipe))
    BY <1>2, <1>6 DEF ReaderGetsBlock, ReaderFinishes, IInv, TypeOK
  <2>4. Held' = <<TextOf(Head(pipe))>>
    BY <1>2, <2>2, <2>3 DEF Held, Arrived
  <2>5. UNCHANGED <<sent, delivered, pc>> /\ pipe' = Tail(pipe)
    BY <1>6 DEF ReaderGetsBlock, ReaderFinishes, childVars, callerVars
  <2>6. CASE pc \in {"join", "done"}
    BY <2>5, <2>6 DEF InOrder
  <2>7. CASE pc \notin {"join", "done"}
    <3>1. Ordered(sent, delivered, <<>>, pipe)
      BY <1>3, <2>7, InOrderIsOrdered
    <3>2. Ordered(sent, delivered, <<TextOf(Head(pipe))>>, Tail(pipe))
      BY <2>1, <3>1, OrderedTake DEF IInv, TypeOK
    <3>3. Ordered(sent, delivered, Held, pipe)'
      BY <2>4, <2>5, <3>2 DEF Ordered
    <3> QED
      BY <3>3 DEF InOrder, Ordered
  <2> QED
    BY <2>6, <2>7
<1> QED
  BY <1>4, <1>5, <1>6 DEF Reader

LEMMA StartWaitInOrder ==
  ASSUME IInv, InOrder, NEW where \in {"getline", "peek"}, StartWait(where) PROVE InOrder'
<1>1. Held' = Held
  <2>1. CASE eventList # <<>>
    <3>1. Current = Head(eventList) /\ Current' = Current
      BY <2>1 DEF Current, StartWait
    <3> QED
      BY <2>1, <3>1, SameRead DEF StartWait
  <2>2. CASE eventList = <<>>
    <3>1. Current = 0
      BY <2>2 DEF Current, StartWait
    <3>2. Current' \in Reads /\ fut'[Current'] = "launched"
      BY <2>2 DEF Current, StartWait, IInv, TypeOK, Reads
    <3>3. Held' = <<>>
      BY <3>2 DEF Held, Arrived
    <3> QED
      BY <3>1, <3>3, HeldIs
  <2> QED
    BY <2>1, <2>2
<1> QED
  BY <1>1, SameLines DEF StartWait, childVars

LEMMA ReturnsInOrder == ASSUME IInv, InOrder, Returns PROVE InOrder'
<1>1. /\ cur \in Reads /\ cur # 0 /\ eventList \in {<<>>, <<cur>>}
      /\ pc \in {"getline", "peek"} /\ Current = cur
  BY DEF IInv, TypeOK, Bookkeeping, Current, Reads, Returns, GetlineReturnsLine,
         GetlineTimesOut, HasNewMessageReturns
<1>2. CASE KeepRead /\ UNCHANGED <<fut, val, sent, pipe, delivered>> /\ pc' = "idle"
  <2>1. eventList' = <<cur>>
    BY <1>1, <1>2 DEF KeepRead
  <2>2. Current' = Current
    <3>1. Head(eventList') = cur /\ eventList' # <<>>
      BY <2>1
    <3>2. Current' = cur
      BY <1>2, <3>1 DEF Current
    <3> QED
      BY <1>1, <3>2
  <2>3. Held' = Held
    BY <1>2, <2>2, SameRead
  <2> QED
    BY <1>1, <1>2, <2>3, SameLines
<1>3. CASE GetlineReturnsLine
  <2>1. eventList' = <<>> /\ pc' = "idle" /\ UNCHANGED <<sent, pipe>>
    <3>1. eventList' = <<>>
      <4>1. CASE eventList = <<>>
        BY <1>3, <4>1 DEF GetlineReturnsLine
      <4>2. CASE eventList = <<cur>>
        BY <1>1, <1>3, <4>2 DEF GetlineReturnsLine
      <4> QED
        BY <1>1, <4>1, <4>2
    <3>2. \E text : Return("line", text)
      BY <1>3 DEF GetlineReturnsLine
    <3> QED
      BY <3>1, <3>2 DEF Return, childVars
  <2>2. Held' = <<>>
    BY <2>1 DEF Held, Arrived, Current
  <2>3. Arrived
    BY <1>1, <1>3 DEF Arrived, GetlineReturnsLine
  <2>4. CASE val[cur] = Eof
    <3>1. Held = <<>> /\ delivered' = delivered
      BY <1>1, <1>3, <2>4 DEF Held, GetlineReturnsLine
    <3> QED
      BY <1>1, <2>1, <2>2, <3>1, SameLines
  <2>5. CASE val[cur] # Eof
    <3>1. Held = <<val[cur]>> /\ delivered' = Append(delivered, val[cur])
      BY <1>1, <1>3, <2>3, <2>5 DEF Held, GetlineReturnsLine
    <3>2. val[cur] \in Texts
      BY <1>1, <2>5 DEF IInv, TypeOK
    <3>3. Ordered(sent, delivered, <<val[cur]>>, pipe)
      BY <1>1, <3>1, InOrderIsOrdered
    <3>4. Ordered(sent, Append(delivered, val[cur]), <<>>, pipe)
      BY <3>2, <3>3, OrderedDeliver DEF IInv, TypeOK
    <3>5. Ordered(sent, delivered, Held, pipe)'
      BY <2>1, <2>2, <3>1, <3>4 DEF Ordered
    <3> QED
      BY <3>5 DEF InOrder, Ordered
  <2> QED
    BY <2>4, <2>5
<1> QED
  BY <1>2, <1>3 DEF Returns, GetlineTimesOut, HasNewMessageReturns, Return, childVars

LEMMA ChildInOrder == ASSUME IInv, InOrder, Child PROVE InOrder'
<1>1. Held' = Held
  <2>1. UNCHANGED <<fut, val, Current>>
    BY DEF Child, ChildWrites, ChildExits, OrphanCloses, readVars, callerVars, Current
  <2> QED
    BY <2>1, SameRead
<1>2. ASSUME NEW b \in Blocks, ChildWrites(b) PROVE InOrder'
  <2>1. UNCHANGED <<delivered, pc>> /\ pipe' = Append(pipe, b) /\ sent' = Append(sent, b)
    BY <1>2 DEF ChildWrites, callerVars
  <2>2. CASE pc \in {"join", "done"}
    BY <2>1, <2>2 DEF InOrder
  <2>3. CASE pc \notin {"join", "done"}
    <3>1. Ordered(sent, delivered, Held, pipe)
      BY <2>3, InOrderIsOrdered
    <3>2. Ordered(Append(sent, b), delivered, Held, Append(pipe, b))
      BY <3>1, HeldIs, OrderedSend DEF IInv, TypeOK
    <3>3. Ordered(sent, delivered, Held, pipe)'
      BY <1>1, <2>1, <3>2 DEF Ordered
    <3> QED
      BY <3>3 DEF InOrder, Ordered
  <2> QED
    BY <2>2, <2>3
<1>3. CASE ChildExits \/ OrphanCloses
  BY <1>1, <1>3, SameLines DEF ChildExits, OrphanCloses, callerVars
<1> QED
  BY <1>2, <1>3 DEF Child

LEMMA NextInOrder == ASSUME IInv, InOrder, [Next]_vars PROVE InOrder'
<1>1. CASE Child
  BY <1>1, ChildInOrder
<1>2. ASSUME NEW f \in Reads, Reader(f) PROVE InOrder'
  BY <1>2, ReaderInOrder
<1>3. CASE CallWaitForGetline
  BY <1>3, StartWaitInOrder DEF CallWaitForGetline
<1>4. CASE CallHasNewMessage
  BY <1>4, StartWaitInOrder DEF CallHasNewMessage
<1>5. CASE Returns
  BY <1>5, ReturnsInOrder
<1>6. CASE Kill \/ UNCHANGED vars
  <2>1. UNCHANGED <<fut, val, Current>>
    BY <1>6 DEF Kill, vars, readVars, callerVars, Current
  <2> QED
    BY <1>6, <2>1, SameRead, SameLines DEF Kill, vars, childVars, callerVars
<1>7. CASE Destroy \/ Destructor
  BY <1>7 DEF Destroy, Destructor, JoinRead, FreeProcess, InOrder
<1> QED
  BY <1>1, <1>2, <1>3, <1>4, <1>5, <1>6, <1>7 DEF Next

LEMMA InitInOrder == Init => InOrder
  BY DEF Init, InOrder, Held, Arrived, Current

\* The caller receives the child's lines in the order they were written, none
\* lost and none twice, however its time-outs fall.
THEOREM InOrderAlways == Spec => []InOrder
<1>1. IInv /\ InOrder /\ [Next]_vars => InOrder'
  BY NextInOrder
<1> QED
  BY <1>1, InitInOrder, AlwaysIInv, PTL DEF Spec

-----------------------------------------------------------------------------
(* The container is a channel: the caller that reads a child through the     *)
(* container, its threads and its leftover reads, reads a FIFO of lines.     *)
(*                                                                           *)
(* A step of the channel is a step here or none.  The line of the channel    *)
(* that has arrived is the one a finished read holds; IInv says there is one *)
(* such read at most.  It does not say what EofIsLast adds.                  *)

\* A read that has found end of file leaves nothing behind it.
EofIsLast == ~Gone /\ Arrived /\ val[Current] = Eof => pipe = <<>> /\ ~writers

-----------------------------------------------------------------------------
(* The lines of the pipe, as texts.                                        *)

LEMMA AtTheEnd ==
  ASSUME NEW S, NEW s \in Seq(S), NEW t \in S
  PROVE  /\ Append(s, t) \in Seq(S) /\ Len(Append(s, t)) = Len(s) + 1
         /\ Append(s, t)[Len(s) + 1] = t
         /\ \A k \in 1 .. Len(s) : Append(s, t)[k] = s[k]
  OBVIOUS

LEMMA InFront ==
  ASSUME NEW S, NEW s \in Seq(S), NEW t \in S
  PROVE  /\ <<t>> \o s \in Seq(S) /\ Len(<<t>> \o s) = Len(s) + 1
         /\ (<<t>> \o s)[1] = t
         /\ \A k \in 2 .. Len(s) + 1 : (<<t>> \o s)[k] = s[k - 1]
         /\ <<t>> \o s # <<>> /\ Head(<<t>> \o s) = t
  OBVIOUS

Lines(p) == [k \in 1 .. Len(p) |-> TextOf(p[k])]

LEMMA LinesType ==
  ASSUME NEW p \in Seq(Blocks)
  PROVE  /\ Lines(p) \in Seq(Texts) /\ Len(Lines(p)) = Len(p)
         /\ \A k \in 1 .. Len(p) : Lines(p)[k] = TextOf(p[k])
         /\ Lines(p) = <<>> <=> p = <<>>
<1>1. \A k \in 1 .. Len(p) : TextOf(p[k]) \in Texts
  BY TextOfType
<1>2. Lines(p) \in Seq(Texts) /\ Len(Lines(p)) = Len(p)
  BY <1>1 DEF Lines
<1> QED
  BY <1>2 DEF Lines

LEMMA LinesAppend ==
  ASSUME NEW p \in Seq(Blocks), NEW b \in Blocks
  PROVE  Lines(Append(p, b)) = Append(Lines(p), TextOf(b))
<1> DEFINE q == Append(p, b)
           s == Lines(p)
           t == TextOf(b)
           n == Len(p)
<1>1. /\ q \in Seq(Blocks) /\ Len(q) = n + 1 /\ n \in Nat /\ q[n + 1] = b
      /\ \A k \in 1 .. n : q[k] = p[k]
  BY AtTheEnd
<1>2. s \in Seq(Texts) /\ Len(s) = n /\ t \in Texts /\ \A k \in 1 .. n : s[k] = TextOf(p[k])
  BY LinesType, TextOfType
<1>3. /\ Append(s, t) \in Seq(Texts) /\ Len(Append(s, t)) = n + 1 /\ Append(s, t)[n + 1] = t
      /\ \A k \in 1 .. n : Append(s, t)[k] = s[k]
  <2> HIDE DEF s, t, n
  <2> QED
    BY <1>2, AtTheEnd
<1>4. /\ Lines(q) \in Seq(Texts) /\ Len(Lines(q)) = n + 1
      /\ \A k \in 1 .. n + 1 : Lines(q)[k] = TextOf(q[k])
  <2> HIDE DEF q, n
  <2> QED
    BY <1>1, LinesType
<1>5. \A k \in 1 .. n + 1 : Lines(q)[k] = Append(s, t)[k]
  <2>1. t = TextOf(b) /\ n \in Nat
    OBVIOUS
  <2> HIDE DEF q, s, t, n
  <2> TAKE k \in 1 .. n + 1
  <2>2. CASE k = n + 1
    BY <1>1, <1>3, <1>4, <2>1, <2>2
  <2>3. CASE k \in 1 .. n
    BY <1>1, <1>2, <1>3, <1>4, <2>3
  <2>4. k = n + 1 \/ k \in 1 .. n
    BY ONLY <2>1
  <2> QED
    BY <2>2, <2>3, <2>4
<1> HIDE DEF q, s, t, n
<1>6. Lines(q) = Append(s, t)
  BY <1>3, <1>4, <1>5, SeqEqual
<1> QED
  BY <1>6 DEF q, s, t

LEMMA LinesTake ==
  ASSUME NEW p \in Seq(Blocks), p # <<>>
  PROVE  <<TextOf(Head(p))>> \o Lines(Tail(p)) = Lines(p)
<1> DEFINE q == Tail(p)
           s == Lines(q)
           t == TextOf(Head(p))
           n == Len(p)
<1>1. /\ q \in Seq(Blocks) /\ n \in Nat /\ n >= 1 /\ Len(q) = n - 1
      /\ Head(p) = p[1] /\ \A k \in 1 .. n - 1 : q[k] = p[k + 1]
  OBVIOUS
<1>2. t \in Texts /\ t = TextOf(p[1])
  BY <1>1, TextOfType
<1>3. s \in Seq(Texts) /\ Len(s) = n - 1 /\ \A k \in 1 .. n - 1 : s[k] = TextOf(p[k + 1])
  <2>1. q \in Seq(Blocks) /\ Len(q) = n - 1
    BY <1>1
  <2> HIDE DEF q
  <2>2. /\ Lines(q) \in Seq(Texts) /\ Len(Lines(q)) = Len(q)
        /\ \A k \in 1 .. Len(q) : Lines(q)[k] = TextOf(q[k])
    BY <2>1, LinesType
  <2> QED
    BY <1>1, <2>1, <2>2
<1>4. /\ Lines(p) \in Seq(Texts) /\ Len(Lines(p)) = n
      /\ \A k \in 1 .. n : Lines(p)[k] = TextOf(p[k])
  BY LinesType
<1>5. /\ <<t>> \o s \in Seq(Texts) /\ Len(<<t>> \o s) = n
      /\ (<<t>> \o s)[1] = t /\ \A k \in 2 .. n : (<<t>> \o s)[k] = s[k - 1]
  <2> HIDE DEF q, s, t, n
  <2>1. /\ <<t>> \o s \in Seq(Texts) /\ Len(<<t>> \o s) = Len(s) + 1
        /\ (<<t>> \o s)[1] = t /\ \A k \in 2 .. Len(s) + 1 : (<<t>> \o s)[k] = s[k - 1]
    BY <1>2, <1>3, InFront
  <2> QED
    BY <1>1, <1>3, <2>1
<1>6. \A k \in 1 .. n : (<<t>> \o s)[k] = Lines(p)[k]
  <2> HIDE DEF q, s, t, n
  <2> TAKE k \in 1 .. n
  <2>1. CASE k = 1
    BY <1>2, <1>4, <1>5, <2>1
  <2>2. CASE k # 1
    <3>1. k - 1 \in 1 .. n - 1 /\ k \in 2 .. n /\ k - 1 + 1 = k
      BY <1>1, <2>2
    <3> QED
      BY <1>3, <1>4, <1>5, <3>1
  <2> QED
    BY <2>1, <2>2
<1> HIDE DEF q, s, t, n
<1>7. <<t>> \o s = Lines(p)
  BY <1>4, <1>5, <1>6, SeqEqual
<1> QED
  BY <1>7 DEF q, s, t

LEMMA Concatenation ==
  ASSUME NEW t \in Texts, NEW s \in Seq(Texts), NEW h \in Seq(Texts)
  PROVE  /\ <<>> \o s = s
         /\ Tail(<<t>> \o s) = s
         /\ h \o Append(s, t) = Append(h \o s, t)
<1>1. <<>> \o s = s
  OBVIOUS
<1>2. Tail(<<t>> \o s) = s
  OBVIOUS
<1>3. h \o Append(s, t) = Append(h \o s, t)
  OBVIOUS
<1> QED
  BY <1>1, <1>2, <1>3

-----------------------------------------------------------------------------
(* The channel's state, and its steps in terms of it.                      *)

Queue == IF Gone THEN <<>> ELSE Held \o Lines(pipe)

\* What every step but Destroy leaves alone.
LEMMA PutStep ==
  ASSUME NEW t \in Texts, writers, ~Gone, Queue' = Append(Queue, t),
         UNCHANGED <<writers, Arrived, Gone, answer>>
  PROVE  Channel!Put(t)
  BY DEF Channel!Put, Queue, Lines

LEMMA CloseStep ==
  ASSUME writers, writers' = FALSE, UNCHANGED <<Queue, Arrived, Gone, answer>>
  PROVE  Channel!Close
  BY DEF Channel!Close, Queue, Lines

LEMMA ArriveStep ==
  ASSUME ~Gone, Queue # <<>> \/ ~writers, Arrived',
         UNCHANGED <<Queue, writers, Gone, answer>>
  PROVE  Channel!Arrive
  BY DEF Channel!Arrive, Queue, Lines

LEMMA GetLineStep ==
  ASSUME ~Gone, Arrived, Queue # <<>>, answer' = Answer("line", Head(Queue)),
         Queue' = Tail(Queue), ~Arrived', UNCHANGED <<writers, Gone>>
  PROVE  Channel!GetLine
  BY DEF Channel!GetLine, Channel!Answer, Answer, Queue, Lines

LEMMA GetEndOfFileStep ==
  ASSUME ~Gone, Arrived, Queue = <<>>, ~writers, answer' = Answer("line", Empty),
         ~Arrived', UNCHANGED <<Queue, writers, Gone>>
  PROVE  Channel!GetEndOfFile
  BY DEF Channel!GetEndOfFile, Channel!Answer, Answer, Queue, Lines

LEMMA GiveUpStep ==
  ASSUME NEW op \in {"timeout", "nonew"}, ~Gone, ~Arrived, answer' = Answer(op, Empty),
         UNCHANGED <<Queue, writers, Arrived, Gone>>
  PROVE  Channel!GiveUp(op)
  BY DEF Channel!GiveUp, Channel!Answer, Answer, Queue, Lines

LEMMA PeekYesStep ==
  ASSUME ~Gone, Arrived, answer' = Answer("new", Empty),
         UNCHANGED <<Queue, writers, Arrived, Gone>>
  PROVE  Channel!PeekYes
  BY DEF Channel!PeekYes, Channel!Answer, Answer, Queue, Lines

LEMMA DestroyStep ==
  ASSUME Gone', writers' \in {writers, FALSE}, writers \in BOOLEAN, UNCHANGED answer
  PROVE  Channel!Destroy
  BY DEF Channel!Destroy

LEMMA NoStep ==
  ASSUME UNCHANGED <<Queue, writers, Gone, answer>>, ~Gone => Arrived' = Arrived
  PROVE  UNCHANGED Channel!channelVars
  BY DEF Channel!channelVars, Queue, Lines

-----------------------------------------------------------------------------
(* The steps of the container.                                             *)

\* A step that leaves the reads alone leaves the current read and what it holds.
LEMMA SameCurrentRead ==
  ASSUME UNCHANGED <<fut, val, eventList, pc, cur>>
  PROVE  UNCHANGED <<Current, Arrived, Held, Gone>>
  BY DEF Current, Arrived, Held, Gone

LEMMA ChildImplements ==
  ASSUME IInv, Child \/ Kill
  PROVE  Channel!Next \/ UNCHANGED Channel!channelVars
<1>1. UNCHANGED <<fut, val, eventList, pc, cur, answer>>
  BY DEF Child, ChildWrites, ChildExits, OrphanCloses, Kill, readVars, callerVars
<1>2. UNCHANGED <<Arrived, Held, Gone>>
  BY <1>1, SameCurrentRead
<1>3. ASSUME NEW b \in Blocks, ChildWrites(b)
      PROVE  Channel!Next \/ UNCHANGED Channel!channelVars
  <2>1. writers /\ pipe' = Append(pipe, b) /\ writers' = writers
    BY <1>3 DEF ChildWrites
  <2>2. CASE Gone
    <3>1. Queue' = Queue
      BY <1>2, <2>2 DEF Queue
    <3> QED
      BY <1>1, <1>2, <2>1, <2>2, <3>1, NoStep
  <2>3. CASE ~Gone
    <3>1. TextOf(b) \in Texts /\ Lines(pipe') = Append(Lines(pipe), TextOf(b))
      BY <2>1, TextOfType, LinesAppend DEF IInv, TypeOK
    <3>2. Lines(pipe) \in Seq(Texts) /\ Held \in Seq(Texts)
      BY LinesType, HeldIs DEF IInv, TypeOK
    <3>3. Queue' = Append(Queue, TextOf(b))
      BY <1>2, <2>3, <3>1, <3>2, Concatenation DEF Queue
    <3>4. Channel!Put(TextOf(b))
      BY <1>1, <1>2, <2>1, <2>3, <3>1, <3>3, PutStep
    <3> QED
      BY <3>1, <3>4 DEF Channel!Next
  <2> QED
    BY <2>2, <2>3
<1>4. CASE ChildExits \/ OrphanCloses \/ Kill
  <2>1. pipe' = pipe /\ writers' \in {writers, FALSE} /\ writers \in BOOLEAN
    BY <1>4 DEF ChildExits, OrphanCloses, Kill, ChildEnds, IInv, TypeOK
  <2>2. Queue' = Queue
    BY <1>2, <2>1 DEF Queue
  <2>3. CASE writers' = writers
    BY <1>1, <1>2, <2>2, <2>3, NoStep
  <2>4. CASE writers /\ writers' = FALSE
    BY <1>1, <1>2, <2>2, <2>4, CloseStep DEF Channel!Next
  <2> QED
    BY <2>1, <2>3, <2>4
<1> QED
  BY <1>3, <1>4 DEF Child

\* The read that a thread works on is the one the next call resumes.
LEMMA WorksOnCurrent ==
  ASSUME IInv, NEW f \in Reads, fut[f] \in {"launched", "reading"}
  PROVE  f = Current
<1>1. \A g \in Reads : fut[g] \in {"launched", "reading", "ready"} <=> g = Current
  BY DEF IInv, EachReadIsCurrent
<1>2. fut[f] \in {"launched", "reading", "ready"}
  OBVIOUS
<1> QED
  BY ONLY <1>1, <1>2

LEMMA ReaderImplements ==
  ASSUME IInv, NEW f \in Reads, Reader(f)
  PROVE  Channel!Next \/ UNCHANGED Channel!channelVars
<1>1. fut[f] \in {"launched", "reading"} /\ fut[f] # "ready"
  BY DEF Reader, ReaderLocks, ReaderGetsBlock, ReaderSeesEof
<1>2. UNCHANGED <<pc, cur, eventList, answer, writers>>
  BY DEF Reader, ReaderLocks, ReaderGetsBlock, ReaderSeesEof, ReaderFinishes, childVars, callerVars
<1>3. f = Current /\ Current' = Current /\ Gone' = Gone
  <2>1. f = Current
    BY <1>1, WorksOnCurrent
  <2> QED
    BY <1>2, <2>1 DEF Current, Gone
<1>4. ~Arrived /\ Held = <<>> /\ Current # 0
  <2>1. 0 \notin Reads
    BY DEF Reads
  <2> QED
    BY <1>1, <1>3, <2>1 DEF Arrived, Held
<1>5. pipe \in Seq(Blocks) /\ Lines(pipe) \in Seq(Texts) /\ (Lines(pipe) = <<>> <=> pipe = <<>>)
  BY LinesType DEF IInv, TypeOK
<1>6. ~Gone => Queue = Lines(pipe)
  BY <1>4, <1>5 DEF Queue
<1>7. CASE ReaderLocks(f)
  <2>1. fut'[Current'] = "reading" /\ pipe' = pipe
    BY <1>3, <1>7 DEF ReaderLocks, IInv, TypeOK
  <2>2. ~Arrived' /\ Held' = <<>>
    BY <2>1 DEF Arrived, Held
  <2>3. Queue' = Queue /\ Arrived' = Arrived
    BY <1>3, <1>4, <2>1, <2>2 DEF Queue, Arrived
  <2> QED
    BY <1>2, <1>3, <2>3, NoStep
<1>8. CASE ReaderGetsBlock(f)
  <2>1. pipe # <<>> /\ pipe' = Tail(pipe) /\ TextOf(Head(pipe)) \in Texts
    BY <1>5, <1>8, TextOfType DEF ReaderGetsBlock
  <2>2. fut'[Current'] = "ready" /\ val'[Current'] = TextOf(Head(pipe))
    BY <1>3, <1>8 DEF ReaderGetsBlock, ReaderFinishes, IInv, TypeOK
  <2>3. Arrived' /\ Held' = <<TextOf(Head(pipe))>>
    BY <1>3, <1>4, <2>1, <2>2 DEF Arrived, Held
  <2>4. CASE Gone
    <3>1. Queue' = Queue
      BY <1>3, <2>4 DEF Queue
    <3> QED
      BY <1>2, <1>3, <2>4, <3>1, NoStep
  <2>5. CASE ~Gone
    <3>1. Queue' = <<TextOf(Head(pipe))>> \o Lines(Tail(pipe))
      BY <1>3, <2>1, <2>3, <2>5 DEF Queue
    <3>2. Queue' = Queue /\ Queue # <<>>
      BY <1>5, <1>6, <2>1, <2>5, <3>1, LinesTake
    <3> QED
      BY <1>2, <1>3, <2>3, <2>5, <3>2, ArriveStep DEF Channel!Next
  <2> QED
    BY <2>4, <2>5
<1>9. CASE ReaderSeesEof(f)
  <2>1. ~writers /\ pipe' = pipe
    BY <1>9 DEF ReaderSeesEof
  <2>2. fut'[Current'] = "ready" /\ val'[Current'] = Eof
    BY <1>3, <1>9 DEF ReaderSeesEof, ReaderFinishes, IInv, TypeOK
  <2>3. Arrived' /\ Held' = <<>>
    BY <1>3, <1>4, <2>2 DEF Arrived, Held
  <2>4. Queue' = Queue
    BY <1>3, <1>4, <2>1, <2>3 DEF Queue
  <2> QED
    BY <1>2, <1>3, <2>1, <2>3, <2>4, ArriveStep, NoStep DEF Channel!Next
<1> QED
  BY <1>7, <1>8, <1>9 DEF Reader

LEMMA StartWaitImplements ==
  ASSUME IInv, NEW where \in {"getline", "peek"}, StartWait(where)
  PROVE  UNCHANGED Channel!channelVars
<1>1. UNCHANGED <<pipe, writers, answer, val>> /\ ~Gone /\ Gone' = Gone
  BY DEF StartWait, childVars, Gone
<1>2. UNCHANGED <<Held, Arrived>>
  <2>1. CASE eventList # <<>>
    <3>1. Current = Head(eventList) /\ Current' = Current /\ fut' = fut
      BY <2>1 DEF Current, StartWait
    <3> QED
      BY <1>1, <3>1 DEF Held, Arrived
  <2>2. CASE eventList = <<>>
    <3>1. Current = 0
      BY <2>2 DEF Current, StartWait
    <3>2. Current' \in Reads /\ fut'[Current'] = "launched"
      BY <2>2 DEF Current, StartWait, IInv, TypeOK, Reads
    <3> QED
      BY <3>1, <3>2 DEF Held, Arrived
  <2> QED
    BY <2>1, <2>2
<1>3. Queue' = Queue
  BY <1>1, <1>2 DEF Queue
<1> QED
  BY <1>1, <1>2, <1>3, NoStep

LEMMA ReturnsImplements ==
  ASSUME IInv, EofIsLast, Returns
  PROVE  Channel!Next
<1>1. /\ cur \in Reads /\ cur # 0 /\ eventList \in {<<>>, <<cur>>}
      /\ pc \in {"getline", "peek"} /\ Current = cur /\ ~Gone
  BY DEF IInv, TypeOK, Bookkeeping, Current, Gone, Reads, Returns, GetlineReturnsLine,
         GetlineTimesOut, HasNewMessageReturns
<1>2. pipe \in Seq(Blocks) /\ Lines(pipe) \in Seq(Texts) /\ (Lines(pipe) = <<>> <=> pipe = <<>>)
  BY LinesType DEF IInv, TypeOK
<1>3. ASSUME NEW op, NEW text, Return(op, text)
      PROVE  UNCHANGED <<pipe, writers, val>> /\ Gone' = Gone /\ answer' = Answer(op, text)
             /\ pc' = "idle"
  BY <1>1, <1>3 DEF Return, Gone, childVars
<1>4. ASSUME KeepRead, fut' = fut, NEW op, Return(op, Empty)
      PROVE  UNCHANGED <<Queue, writers, Arrived, Gone>> /\ answer' = Answer(op, Empty)
  <2>1. eventList' = <<cur>>
    BY <1>1, <1>4 DEF KeepRead
  <2>2. Current' = Current
    <3>1. Head(eventList') = cur /\ eventList' # <<>>
      BY <2>1
    <3>2. Current' = cur
      BY <1>3, <1>4, <3>1 DEF Current
    <3> QED
      BY <1>1, <3>2
  <2>3. UNCHANGED <<Arrived, Held>>
    BY <1>3, <1>4, <2>2 DEF Arrived, Held
  <2> QED
    BY <1>3, <1>4, <2>3 DEF Queue
<1>5. CASE GetlineTimesOut
  <2>1. ~Arrived
    BY <1>1, <1>5 DEF Arrived, GetlineTimesOut
  <2>2. UNCHANGED <<Queue, writers, Arrived, Gone>> /\ answer' = Answer("timeout", Empty)
    BY <1>4, <1>5 DEF GetlineTimesOut
  <2> QED
    BY <1>1, <2>1, <2>2, GiveUpStep DEF Channel!Next
<1>6. CASE HasNewMessageReturns
  <2>1. CASE fut[cur] = "ready"
    <3>1. Arrived
      BY <1>1, <2>1 DEF Arrived
    <3>2. UNCHANGED <<Queue, writers, Arrived, Gone>> /\ answer' = Answer("new", Empty)
      BY <1>4, <1>6, <2>1 DEF HasNewMessageReturns
    <3> QED
      BY <1>1, <3>1, <3>2, PeekYesStep DEF Channel!Next
  <2>2. CASE fut[cur] # "ready"
    <3>1. ~Arrived
      BY <1>1, <2>2 DEF Arrived
    <3>2. UNCHANGED <<Queue, writers, Arrived, Gone>> /\ answer' = Answer("nonew", Empty)
      BY <1>4, <1>6, <2>2 DEF HasNewMessageReturns
    <3> QED
      BY <1>1, <3>1, <3>2, GiveUpStep DEF Channel!Next
  <2> QED
    BY <2>1, <2>2
<1>7. CASE GetlineReturnsLine
  <2>1. Arrived
    BY <1>1, <1>7 DEF Arrived, GetlineReturnsLine
  <2>2. PICK text : Return("line", text) /\ text = IF val[cur] = Eof THEN Empty ELSE val[cur]
    BY <1>7 DEF GetlineReturnsLine
  <2>3. eventList' = <<>>
    <3>1. CASE eventList = <<>>
      BY <1>7, <3>1 DEF GetlineReturnsLine
    <3>2. CASE eventList = <<cur>>
      BY <1>1, <1>7, <3>2 DEF GetlineReturnsLine
    <3> QED
      BY <1>1, <3>1, <3>2
  <2>4. ~Arrived' /\ Held' = <<>>
    BY <1>3, <2>2, <2>3 DEF Arrived, Held, Current
  <2>5. Queue' = Lines(pipe)
    BY <1>1, <1>2, <1>3, <2>2, <2>4, Concatenation DEF Queue
  <2>6. CASE val[cur] = Eof
    <3>1. pipe = <<>> /\ ~writers /\ Held = <<>>
      BY <1>1, <2>1, <2>6 DEF EofIsLast, Held
    <3>2. Queue = <<>> /\ Queue' = <<>>
      BY <1>1, <1>2, <2>5, <3>1 DEF Queue
    <3> QED
      BY <1>1, <1>3, <2>1, <2>2, <2>4, <2>6, <3>1, <3>2, GetEndOfFileStep DEF Channel!Next
  <2>7. CASE val[cur] # Eof
    <3>1. val[cur] \in Texts /\ Held = <<val[cur]>>
      BY <1>1, <2>1, <2>7 DEF IInv, TypeOK, Held
    <3>2. Queue = <<val[cur]>> \o Lines(pipe)
      BY <1>1, <3>1 DEF Queue
    <3>3. Queue # <<>> /\ Head(Queue) = val[cur] /\ Tail(Queue) = Lines(pipe)
      BY <1>2, <3>1, <3>2, InFront, Concatenation
    <3> QED
      BY <1>1, <1>3, <2>1, <2>2, <2>4, <2>5, <2>7, <3>3, GetLineStep DEF Channel!Next
  <2> QED
    BY <2>6, <2>7
<1> QED
  BY <1>5, <1>6, <1>7 DEF Returns

LEMMA EndImplements ==
  ASSUME IInv, Destroy \/ Destructor
  PROVE  Channel!Next \/ UNCHANGED Channel!channelVars
<1>1. CASE Destroy
  <2>1. Gone' /\ writers' \in {writers, FALSE} /\ writers \in BOOLEAN /\ UNCHANGED answer
    BY <1>1 DEF Destroy, ChildEnds, Gone, IInv, TypeOK
  <2> QED
    BY <2>1, DestroyStep DEF Channel!Next
<1>2. CASE Destructor
  <2>1. Gone /\ Gone' = Gone /\ UNCHANGED <<writers, answer>>
    BY <1>2 DEF Destructor, JoinRead, FreeProcess, Gone, childVars
  <2>2. Queue' = Queue
    BY <2>1 DEF Queue
  <2> QED
    BY <2>1, <2>2, NoStep
<1> QED
  BY <1>1, <1>2

LEMMA NextImplements ==
  ASSUME IInv, EofIsLast, [Next]_vars
  PROVE  [Channel!Next]_(Channel!channelVars)
<1> SUFFICES Channel!Next \/ UNCHANGED Channel!channelVars
  OBVIOUS
<1>1. CASE Child \/ Kill
  BY <1>1, ChildImplements
<1>2. ASSUME NEW f \in Reads, Reader(f) PROVE Channel!Next \/ UNCHANGED Channel!channelVars
  BY <1>2, ReaderImplements
<1>3. CASE CallWaitForGetline \/ CallHasNewMessage
  BY <1>3, StartWaitImplements DEF CallWaitForGetline, CallHasNewMessage
<1>4. CASE Returns
  BY <1>4, ReturnsImplements
<1>5. CASE Destroy \/ Destructor
  BY <1>5, EndImplements
<1>6. CASE UNCHANGED vars
  <2>1. UNCHANGED <<Arrived, Held, Gone>>
    BY <1>6, SameCurrentRead DEF vars, readVars, callerVars
  <2>2. UNCHANGED <<pipe, writers, answer>>
    BY <1>6 DEF vars, childVars, callerVars
  <2>3. Queue' = Queue
    BY <2>1, <2>2 DEF Queue
  <2> QED
    BY <2>1, <2>2, <2>3, NoStep
<1> QED
  BY <1>1, <1>2, <1>3, <1>4, <1>5, <1>6 DEF Next

-----------------------------------------------------------------------------
(* End of file is the last thing a read finds.                             *)

LEMMA NextEofIsLast ==
  ASSUME IInv, EofIsLast, [Next]_vars
  PROVE  EofIsLast'
<1>1. CASE Child \/ Kill \/ UNCHANGED vars
  <2>1. UNCHANGED <<fut, val, eventList, pc, cur>>
    BY <1>1 DEF Child, ChildWrites, ChildExits, OrphanCloses, Kill, vars, readVars, callerVars
  <2>2. UNCHANGED <<Current, Arrived, Gone>>
    BY <2>1, SameCurrentRead
  <2>3. ~writers => pipe' = pipe /\ ~writers'
    BY <1>1 DEF Child, ChildWrites, ChildExits, OrphanCloses, Kill, ChildEnds, vars, childVars,
               IInv, TypeOK
  <2> QED
    BY <2>1, <2>2, <2>3 DEF EofIsLast
<1>2. ASSUME NEW f \in Reads, Reader(f) PROVE EofIsLast'
  <2>1. UNCHANGED <<pc, cur, eventList, writers>>
    BY <1>2 DEF Reader, ReaderLocks, ReaderGetsBlock, ReaderSeesEof, ReaderFinishes, childVars,
               callerVars
  <2>2. fut[f] \in {"launched", "reading"}
    BY <1>2 DEF Reader, ReaderLocks, ReaderGetsBlock, ReaderSeesEof
  <2>3. f = Current /\ Current' = f
    <3>1. f = Current
      BY <2>2, WorksOnCurrent
    <3> QED
      BY <2>1, <3>1 DEF Current
  <2>4. CASE ReaderLocks(f)
    <3>1. fut'[f] = "reading"
      BY <2>4 DEF ReaderLocks, IInv, TypeOK
    <3> QED
      BY <2>3, <3>1 DEF EofIsLast, Arrived
  <2>5. CASE ReaderGetsBlock(f)
    <3>1. TextOf(Head(pipe)) \in Texts
      BY <2>5, TextOfType DEF ReaderGetsBlock, IInv, TypeOK
    <3>2. val'[f] # Eof
      BY <2>5, <3>1 DEF ReaderGetsBlock, ReaderFinishes, IInv, TypeOK
    <3> QED
      BY <2>3, <3>2 DEF EofIsLast
  <2>6. CASE ReaderSeesEof(f)
    BY <2>1, <2>6 DEF ReaderSeesEof, EofIsLast
  <2> QED
    BY <1>2, <2>4, <2>5, <2>6 DEF Reader
<1>3. ASSUME NEW where \in {"getline", "peek"}, StartWait(where) PROVE EofIsLast'
  <2>1. CASE eventList # <<>>
    <3>1. Current' = Current /\ ~Gone /\ UNCHANGED <<fut, val, pipe, writers>>
      BY <1>3, <2>1 DEF Current, Gone, StartWait, childVars
    <3> QED
      BY <3>1 DEF EofIsLast, Arrived
  <2>2. CASE eventList = <<>>
    <3>1. Current' \in Reads /\ fut'[Current'] = "launched"
      BY <1>3, <2>2 DEF Current, StartWait, IInv, TypeOK, Reads
    <3> QED
      BY <3>1 DEF EofIsLast, Arrived
  <2> QED
    BY <2>1, <2>2
<1>4. CASE Returns
  <2>1. /\ cur \in Reads /\ cur # 0 /\ eventList \in {<<>>, <<cur>>}
        /\ pc \in {"getline", "peek"} /\ Current = cur /\ ~Gone
    BY <1>4 DEF IInv, TypeOK, Bookkeeping, Current, Gone, Reads, Returns, GetlineReturnsLine,
               GetlineTimesOut, HasNewMessageReturns
  <2>2. UNCHANGED <<pipe, writers, val>> /\ pc' = "idle"
    BY <1>4 DEF Returns, GetlineReturnsLine, GetlineTimesOut, HasNewMessageReturns, Return,
       childVars
  <2>3. CASE GetlineReturnsLine
    <3>1. eventList' = <<>>
      <4>1. CASE eventList = <<>>
        BY <2>3, <4>1 DEF GetlineReturnsLine
      <4>2. CASE eventList = <<cur>>
        BY <2>1, <2>3, <4>2 DEF GetlineReturnsLine
      <4> QED
        BY <2>1, <4>1, <4>2
    <3> QED
      BY <2>2, <3>1 DEF EofIsLast, Arrived, Current
  <2>4. CASE KeepRead /\ fut' = fut
    <3>1. eventList' = <<cur>>
      BY <2>1, <2>4 DEF KeepRead
    <3>2. Head(eventList') = cur /\ eventList' # <<>>
      BY <3>1
    <3>3. Current' = Current
      BY <2>1, <2>2, <3>2 DEF Current
    <3> QED
      BY <2>1, <2>2, <2>4, <3>3 DEF EofIsLast, Arrived
  <2> QED
    BY <1>4, <2>3, <2>4 DEF Returns, GetlineTimesOut, HasNewMessageReturns
<1>5. CASE Destroy \/ Destructor
  BY <1>5 DEF Destroy, Destructor, JoinRead, FreeProcess, EofIsLast, Gone
<1> QED
  BY <1>1, <1>2, <1>3, <1>4, <1>5 DEF Next, CallWaitForGetline, CallHasNewMessage

\* Every behaviour of the container is one of the timed FIFO: for any texts and any
\* child, reads that time out and reads that answer, a peek before a read and the
\* destructor behind one, the caller cannot tell its threads from the channel.
THEOREM ContainerImplementsChannel == Spec => ImplementsChannel
<1>1. Init => Channel!Init
  <2> SUFFICES ASSUME Init PROVE Channel!Init
    OBVIOUS
  <2>1. Current = 0 /\ ~Arrived /\ ~Gone /\ Held = <<>> /\ pipe = <<>> /\ writers = TRUE
    BY DEF Init, Current, Arrived, Gone, Held
  <2>2. Queue = <<>>
    BY <2>1 DEF Queue, Lines
  <2> QED
    BY <2>1, <2>2 DEF Init, Channel!Init, Channel!Answer, Answer, Queue, Lines
<1>2. Init => EofIsLast
  BY DEF Init, EofIsLast, Arrived, Current
<1>3. IInv /\ EofIsLast /\ [Next]_vars => EofIsLast' /\ [Channel!Next]_(Channel!channelVars)
  BY NextEofIsLast, NextImplements
<1> QED
  BY <1>1, <1>2, <1>3, AlwaysIInv, PTL DEF Spec, ImplementsChannel, Channel!Spec
=============================================================================
