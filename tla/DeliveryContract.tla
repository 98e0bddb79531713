--------------------------- MODULE DeliveryContract ---------------------------
(***************************************************************************)
(* What reliable delivery promises the owner of a station about one        *)
(* publisher, without files, passes or HTTP codes: a reading that has been *)
(* logged stays on the card until the server has acknowledged it, and the  *)
(* only other way off the card is the limit set on the queue.              *)
(***************************************************************************)
EXTENDS Naturals, FiniteSets

CONSTANTS Reading,    \* the readings a station can log
          Bounded,    \* is there a limit on the queue?
          Limit       \* the limit, when there is one

VARIABLES owed,       \* logged and not yet acknowledged by the server
          held        \* on the card, and still going to be sent

contractVars == <<owed, held>>

Init == owed = {} /\ held = {}

Log(r) ==
  /\ r \notin held
  /\ held' = held \cup {r}
  /\ owed' = owed \cup {r}

Acknowledge(r) ==
  /\ r \in held
  /\ held' = held \ {r}
  /\ owed' = owed \ {r}

\* One reading at a time, and only while the card holds more than the limit.
Discard(r) ==
  /\ Bounded
  /\ r \in held
  /\ Cardinality(held) > Limit
  /\ held' = held \ {r}
  /\ UNCHANGED owed

Next == \E r \in Reading : Log(r) \/ Acknowledge(r) \/ Discard(r)

Spec == Init /\ [][Next]_contractVars
================================================================================
