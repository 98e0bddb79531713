--------------------------- MODULE MCQueuedPostLimits ---------------------------
(* Instances of QueuedPost beyond what the theorems ask: the longest lines do not *)
(* fit into the buffer, or the logger's time zone is UTC.                         *)
EXTENDS QueuedPost

Three == {3}
OneToFour == 1..4
NarrowOrWide == 1..2
EST == -5
UTC == 0
================================================================================
