--------------------------------- MODULE MCModem ---------------------------------
(***************************************************************************)
(* Every kind of modem: with and without power and reset pins, its state    *)
(* shown by the held pin, a status pin or its answer to AT.                 *)
(***************************************************************************)
EXTENDS Modem

MCKinds == [power : BOOLEAN, reset : BOOLEAN, shows : {"pin", "status", "answer"}]
================================================================================
