-------------------------------- MODULE Station --------------------------------
(***************************************************************************)
(* The logging station: the scheduler's cycles and the delivery queue      *)
(* together, across resets.                                                *)
(*                                                                         *)
(* A cycle of logDataAndPubReliably that takes a reading appends it to     *)
(* RDELAY.TXT; one that gets on line, or that stores for lack of power,    *)
(* runs a pass over the files and goes on when the pass is over.  Minutes  *)
(* pass during it.  A reset takes away what either part keeps in RAM; the  *)
(* real-time clock and the card keep theirs, and setup() begins again with *)
(* a forced cycle.  Testing mode, which neither reads nor posts for the    *)
(* record, is left out here.                                               *)
(***************************************************************************)
EXTENDS Scheduler, Sequences

CONSTANTS
  Reading, Poison, NoLine, NumPublishers, SendQueSz, PostMax, SendAtOnce, Threshold,
  MaxResets,
  MaxQueued       \* bound on the lines queued before the server recovers

VARIABLES
  rdel, que, tail, tmp, rest, line, hand,
  step,           \* pc of the queue
  pub, net, rsp, tries, fails, attempt, posted, pending, server, owed, resets

Queue == INSTANCE ReliableDelivery WITH pc <- step

ASSUME StationAssumption ==
  /\ Modes = {"reliably"}
  /\ MaxPresses = 0
  /\ Reading \subseteq Nat /\ Poison \subseteq Reading /\ MaxQueued \in Nat

queueVars == <<rdel, que, tail, tmp, rest, line, hand, step, pub, net, rsp, tries, fails,
               attempt, posted, pending, server, owed, resets>>
stationVars == <<vars, queueVars>>

--------------------------------------------------------------------------------
StationInit == Init /\ Queue!Init

\* Readings differ, nothing else is said of them: the least that is not on the card.
IsNext(r) ==
  /\ r \in Reading \ Queue!Held(1)
  /\ \A s \in Reading \ Queue!Held(1) : r <= s

\* logToSD, then serzRdel_Line.
Log ==
  /\ pc = "reading" /\ "new" \in cia
  /\ \E r \in Reading : IsNext(r) /\ Queue!LogReading(r)
  /\ UNCHANGED vars

Serialize ==
  /\ "new" \in cia
  /\ TakeReading /\ Queue!SerzRdelLine

NoReading ==
  /\ "new" \notin cia
  /\ TakeReading /\ UNCHANGED queueVars

\* The bound on what the queue holds: the server recovers, the battery is charged.
Room == Len(que[1]) + Len(rdel) < MaxQueued

\* Mutant of Post: the modem connects and no pass is made.
PostNoPass == PostOnline /\ UNCHANGED queueVars

Post == PostOnline /\ (server = "flaky" => Room) /\ Queue!StartPass(TRUE)

Store == StoreReadings /\ Queue!StartPass(FALSE)

\* publishDataQuedToRemotes runs, and the cycle waits for it.
Pass ==
  /\ step # "logged" /\ Queue!Proceed
  /\ UNCHANGED vars

\* What a cycle does besides, before and after a pass.
Cycle ==
  /\ step = "idle"
  /\ \/ \E level \in BatteryLevels : CheckInterval(level) /\ (level = "sensors" => Room)
     \/ PostFails \/ PostNothing
     \/ \E drift \in -MaxDrift..MaxDrift : SyncClock(drift)
     \/ Disconnect \/ EndCycle \/ Sleep
  /\ UNCHANGED queueVars

\* Mutant of Minute: the alarm wakes nobody.
MinuteUnheard ==
  /\ IF pc = "asleep"
       THEN /\ now' = (now + 1) % Day
            /\ UNCHANGED <<pc, forced, awake, timers, cia, marked, startTesting, posts,
                           interval, presses, mode>>
       ELSE Tick
  /\ UNCHANGED queueVars

Minute == Tick /\ UNCHANGED queueVars

\* The first cycle after a reset is the caller's again.
Restart ==
  /\ pc' = "woken" /\ forced' = TRUE /\ awake' = 0
  /\ everyCnt' = 0 /\ offAct' = FALSE /\ offCnt' = 0
  /\ cia' = {} /\ marked' = 0 /\ startTesting' = FALSE
  /\ sent' = FALSE /\ synced' = FALSE /\ excused' = TRUE
  /\ UNCHANGED <<now, unposted, failed, taken, presses, mode>>

Reset == Queue!Reset /\ Restart

ServerRecovers == Queue!ServerRecovers /\ UNCHANGED vars

--------------------------------------------------------------------------------
Work == Log \/ Serialize \/ NoReading \/ Post \/ Store \/ Pass \/ Cycle

StationNext == Work \/ Minute \/ Reset \/ ServerRecovers

\* The logger goes on, time goes on, and the server recovers in the end.
StationSpec ==
  /\ StationInit /\ [][StationNext]_stationVars
  /\ WF_stationVars(Work) /\ WF_stationVars(Minute) /\ WF_stationVars(ServerRecovers)

--------------------------------------------------------------------------------
\* The file itself, across resets: RDELAY.TXT never holds more than SendEveryX readings
\* for each of the MaxFailed posts in a row that may come to nothing and the one to
\* come, and as many again for each reset.
FileBounded == Len(rdel) <= (MaxFailed + 1) * (resets + 1) * SendEveryX

\* "If it doesn't work the first time, it retrys later": what is on the card arrives,
\* unless yet another reset takes it away.
CardArrives ==
  \A r \in Reading : \A n \in 0..MaxResets :
    (r \in Queue!Held(1) /\ resets = n) ~> (r \notin owed[1] \/ resets > n)

\* The scheduler gives the queue what ReliableDelivery assumes: again and again a pass
\* on line that has a fresh reading to post, and readings that keep coming.
DrivesQueue == Queue!FairSpec
================================================================================
