----------------------------- MODULE Executor_MC -----------------------------
(* Two tasks: while one is worked on the other is posted or waits behind it. *)
EXTENDS Executor

CONSTANTS t1, t2

TwoTasks == {t1, t2}
Talkative == {"ends", "blocks"}
=============================================================================
