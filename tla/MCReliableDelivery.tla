-------------------------- MODULE MCReliableDelivery --------------------------
(* Instances of ReliableDelivery for TLC. *)
EXTENDS ReliableDelivery

CONSTANTS r1, r2, r3, r4

ThreeReadings == {r1, r2, r3}
FourReadings == {r1, r2, r3, r4}
NoPoison == {}
OnePoison == {r1}

\* Sound where no liveness is checked.
ReadingSymmetry == Permutations(Reading \ Poison)
================================================================================
