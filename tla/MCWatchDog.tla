------------------------------- MODULE MCWatchDog -------------------------------
(***************************************************************************)
(* The watchdog with the real reset times of a logging interval of half an  *)
(* hour: 300 and 2100 seconds, counts of 37 and 262.                        *)
(***************************************************************************)
EXTENDS WatchDog

MCBoards == {"AVR", "SAMD"}
================================================================================
