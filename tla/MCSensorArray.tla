----------------------------- MODULE MCSensorArray -----------------------------
(* Instances of SensorArray for TLC. *)
EXTENDS SensorArray

CONSTANTS a, b, c

\* a and b share a power pin, though their variables are not neighbours; b and c are
\* told to wake and to sleep; c has power always.
MixedVars == <<a, Calculated, b, c, b>>
MixedPin == (a :> 5) @@ (b :> 5) @@ (c :> -1)
MixedToAverage == (a :> 1) @@ (b :> 2) @@ (c :> 1)
MixedCommanded == {b, c}

\* The instance satisfies what the theorems on the pins assume.
ASSUME MixedCountsFit == CountsFit
================================================================================
