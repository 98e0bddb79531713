------------------------------ MODULE MCQueuedPost ------------------------------
(* Instances of QueuedPost for TLC. *)
EXTENDS QueuedPost

OneToFour == 1..4
NarrowOrWide == 1..2
EST == -5

\* What the theorems about the lengths and about what is stored ask of the lines, of the
\* array and of the time zone.
ASSUME LinesOfTheArray == LinesFit /\ NumVars > 1 /\ StampAsAnnounced
================================================================================
