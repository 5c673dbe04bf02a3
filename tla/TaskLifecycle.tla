---------------------------- MODULE TaskLifecycle ----------------------------
(***************************************************************************)
(* What the daemon promises the client that posts a task: the task is      *)
(* built, then run, one task at a time, and the status the client can ask  *)
(* for never runs ahead of the task, nor back.  An update of the status    *)
(* that the database refuses is not made up for, and a task that is not    *)
(* over when the daemon dies is lost.                                      *)
(***************************************************************************)
CONSTANT Tasks

VARIABLES stage,    \* where each task really is
          shown     \* the status the database shows

lifecycleVars == <<stage, shown>>

Active == {t \in Tasks : stage[t] \in {"building", "running"}}

Init ==
  /\ stage = [t \in Tasks |-> "none"]
  /\ shown = [t \in Tasks |-> "none"]

\* The task moves on, and its status with it unless the database fails.
MoveTo(t, s) ==
  /\ stage' = [stage EXCEPT ![t] = s]
  /\ \/ shown' = [shown EXCEPT ![t] = s]
     \/ UNCHANGED shown

Receive(t) ==
  /\ stage[t] = "none"
  /\ stage' = [stage EXCEPT ![t] = "received"]
  /\ shown' = [shown EXCEPT ![t] = "received"]

Build(t) ==
  /\ stage[t] = "received"
  /\ Active = {}
  /\ MoveTo(t, "building")

FinishBuild(t) ==
  /\ stage[t] = "building"
  /\ \E s \in {"running", "buildError"} : MoveTo(t, s)

FinishRun(t) ==
  /\ stage[t] = "running"
  /\ \E s \in {"fulfilled", "runtimeError"} : MoveTo(t, s)

Lose ==
  /\ stage' = [t \in Tasks |->
                 IF stage[t] \in {"received", "building", "running"} THEN "lost" ELSE stage[t]]
  /\ UNCHANGED shown

Next ==
  \/ \E t \in Tasks : Receive(t) \/ Build(t) \/ FinishBuild(t) \/ FinishRun(t)
  \/ Lose

Spec == Init /\ [][Next]_lifecycleVars
=============================================================================
