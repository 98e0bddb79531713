------------------------------- MODULE MCStation -------------------------------
(* Instances of Station for TLC. *)
EXTENDS Station

Reliably == {"reliably"}
MCReadings == 1..9
NoPoison == {}
WeakBattery == {"sensors", "modem"}
================================================================================
