------------------------------ MODULE MCScheduler ------------------------------
(* Instances of Scheduler for TLC. *)
EXTENDS Scheduler

AnyMode == {"reliably", "bestEffort"}
Reliably == {"reliably"}
AnyBattery == {"nothing", "sensors", "modem"}
GoodBattery == {"modem"}
================================================================================
