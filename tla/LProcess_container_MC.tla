------------------------ MODULE LProcess_container_MC ------------------------
(* Two distinguishable texts beside the empty one are enough to see a line   *)
(* out of order; four reads and three blocks let every call time out once. *)
EXTENDS LProcess_container

CONSTANTS a, b, none

MCTexts == {a, b, none}
=============================================================================
