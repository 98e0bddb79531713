------------------------------ MODULE Station_proofs ------------------------------
(***************************************************************************)
(* What holds of the station, across resets: it runs the delivery queue as *)
(* ReliableDelivery specifies it, and RDELAY.TXT stays within its bound    *)
(* for any interval, number of readings to a post and number of resets.    *)
(*                                                                         *)
(* The scheduler's invariants carry over, because every step of the        *)
(* station but a reset is one of the scheduler or leaves it alone.  What   *)
(* does not carry over is unposted: it is set to zero when a pass begins,  *)
(* the file only when the pass removes it.  So the lines of the file take  *)
(* its place, less those that earlier resets may have left there.          *)
(***************************************************************************)
EXTENDS Station, Scheduler_proofs

--------------------------------------------------------------------------------
(* The steps of the two parts.                                             *)

LEMMA SchedulerSteps ==
  ASSUME [StationNext]_stationVars
  PROVE  Reset \/ [Next]_vars
<1>1. CASE Log \/ Pass \/ ServerRecovers
  BY <1>1 DEF Log, Pass, ServerRecovers
<1>2. CASE Serialize \/ NoReading
  BY <1>2 DEF Serialize, NoReading, Next, Proceed
<1>3. CASE Post \/ Store
  BY <1>3 DEF Post, Store, Next, Proceed
<1>4. CASE Cycle
  BY <1>4 DEF Cycle, Next, Proceed
<1>5. CASE Minute
  BY <1>5 DEF Minute, Next
<1>6. CASE UNCHANGED stationVars
  BY <1>6 DEF stationVars
<1>. QED  BY <1>1, <1>2, <1>3, <1>4, <1>5, <1>6 DEF StationNext, Work

LEMMA QueueStays ==
  ASSUME UNCHANGED queueVars
  PROVE  UNCHANGED Queue!vars
BY DEF queueVars, Queue!vars, Queue!card, Queue!buffers, Queue!limits

LEMMA QueueSteps ==
  ASSUME [StationNext]_stationVars
  PROVE  [Queue!Next]_(Queue!vars)
<1>1. CASE Log
  BY <1>1 DEF Log, Queue!Next
<1>2. CASE Serialize
  BY <1>2 DEF Serialize, Queue!Next, Queue!Proceed
<1>3. CASE NoReading \/ Cycle \/ Minute
  BY <1>3, QueueStays DEF NoReading, Cycle, Minute
<1>4. CASE Post \/ Store
  BY <1>4 DEF Post, Store, Queue!Next
<1>5. CASE Pass
  BY <1>5 DEF Pass, Queue!Next
<1>6. CASE Reset
  BY <1>6 DEF Reset, Queue!Next
<1>7. CASE ServerRecovers
  BY <1>7 DEF ServerRecovers, Queue!Next
<1>8. CASE UNCHANGED stationVars
  BY <1>8, QueueStays DEF stationVars
<1>. QED
  BY <1>1, <1>2, <1>3, <1>4, <1>5, <1>6, <1>7, <1>8 DEF StationNext, Work

\* Whatever the scheduler, the battery and the modem do, what the station does with the
\* files is what ReliableDelivery specifies: the step of a cycle that takes a reading is
\* LogReading and SerzRdelLine, a cycle's call of publishDataQuedToRemotes is a pass.
THEOREM StationRunsQueue == StationSpec => Queue!Spec
<1>1. StationInit => Queue!Init
  BY DEF StationInit
<1>. QED  BY <1>1, QueueSteps, PTL DEF StationSpec, Queue!Spec

--------------------------------------------------------------------------------
(* The lines of RDELAY.TXT.                                                *)

\* What the posts in a row that come to nothing may leave, and the one to come.
Limit == (MaxFailed + 1) * SendEveryX

\* As much may be there from before each reset.
Base == resets * Limit

PassOn == step \notin {"idle", "logged"}

CardTyped ==
  /\ rdel \in Seq(Reading \cup {NoLine}) /\ hand \in Reading \cup {NoLine}
  /\ resets \in Nat /\ failed <= MaxFailed

\* Where the cycle is while the queue is at work.
Placed ==
  /\ step \in Queue!Steps
  /\ step = "logged" => pc = "reading" /\ "new" \in cia
  /\ PassOn => pc \in {"online", "closing"}

\* A pass goes on from the loop over RDELAY.TXT only when the file is gone.
Emptied == PassOn /\ step # "forward" => rdel = <<>>

Fresh == Len(rdel) - Base

\* Between passes the readings of the file wait as the scheduler's history does.
FileInv ==
  /\ Fresh <= Limit
  /\ ~PassOn => Waits(Fresh)

StationInv == CardTyped /\ Placed /\ Emptied /\ FileInv

LEMMA Bounds ==
  ASSUME CardTyped
  PROVE  /\ Limit \in Nat /\ Base \in Nat /\ Len(rdel) \in Nat /\ Fresh \in Int
         /\ (resets + 1) * Limit = Base + Limit
         /\ MaxFailed \in Nat /\ SendEveryX \in Nat
<1>1. MaxFailed \in Nat /\ SendEveryX \in Nat
  BY Constants
<1>2. Limit \in Nat
  BY <1>1 DEF Limit
<1>3. resets \in Nat /\ Len(rdel) \in Nat
  BY DEF CardTyped
<1>. HIDE DEF Limit
<1>4. Base \in Nat /\ (resets + 1) * Limit = Base + Limit
  BY <1>2, <1>3 DEF Base
<1>. QED  BY <1>1, <1>2, <1>3, <1>4 DEF Fresh

\* The posts that have failed are within the limit.
LEMMA LimitOfFailures ==
  ASSUME TypeInv, CardTyped
  PROVE  failed * SendEveryX + SendEveryX <= Limit /\ failed * SendEveryX \in Nat
<1>1. failed \in Nat /\ failed <= MaxFailed
  BY DEF CardTyped, TypeInv, Typed, TypedCounts
<1>2. PICK d \in Nat : MaxFailed = failed + d
  <2>1. MaxFailed - failed \in Nat /\ MaxFailed = failed + (MaxFailed - failed)
    BY <1>1, Constants
  <2>. QED  BY <2>1
<1>3. Limit = failed * SendEveryX + d * SendEveryX + SendEveryX
  BY <1>1, <1>2, Constants DEF Limit
<1>4. d * SendEveryX \in Nat /\ failed * SendEveryX \in Nat
  BY <1>1, <1>2, Constants
<1>. QED  BY <1>3, <1>4, Constants

\* Nothing waits when there is nothing but what resets may have left.
LEMMA NothingWaits ==
  ASSUME TypeInv, CycleInv, Pending = 0, NEW n \in Int, n <= 0
  PROVE  Waits(n)
BY Numbers DEF Waits, Few

LEMMA StationInvInit ==
  ASSUME StationInit
  PROVE  StationInv
<1>1. /\ rdel = <<>> /\ hand = NoLine /\ resets = 0 /\ step = "idle"
      /\ failed = 0 /\ everyCnt = 0 /\ pc # "reading"
  BY DEF StationInit, Init, Queue!Init
<1>2. CardTyped
  BY <1>1, Constants DEF CardTyped
<1>3. Placed /\ Emptied
  BY <1>1 DEF Placed, Emptied, PassOn, Queue!Steps
<1>4. Fresh = 0 - Base /\ Len(rdel) = 0
  BY <1>1 DEF Fresh
<1>5. Fresh <= 0
  BY <1>2, <1>4, Bounds
<1>6. Pending = 0 /\ failed * SendEveryX = 0
  BY <1>1, Constants DEF Pending
<1>7. Waits(Fresh)
  BY <1>1, <1>2, <1>5, <1>6, Bounds DEF Waits, Few
<1>. QED  BY <1>2, <1>3, <1>5, <1>7, Bounds DEF StationInv, FileInv

--------------------------------------------------------------------------------
(* The scheduler in the station.                                           *)

LEMMA RestartTyped ==
  ASSUME TypeInv, CycleInv, Restart
  PROVE  TypeInv' /\ CycleInv'
<1>1. TypedClock'
  BY Constants DEF Restart, TypeInv, Typed, TypedClock, AwakeMax
<1>2. TypedTimers' /\ TimerRuns'
  <2>1. everyCnt' = 0 /\ offCnt' = 0 /\ offAct' = FALSE
    BY DEF Restart
  <2>2. everyCnt' \in -128..127
    BY <2>1
  <2>3. offCnt' \in 0..14
    BY <2>1
  <2>. QED  BY <2>1, <2>2, <2>3 DEF TypedTimers, TimerRuns
<1>3. TypedFlags'
  BY DEF Restart, TypeInv, Typed, TypedFlags
<1>4. TypedCycle'
  BY DEF Restart, TypeInv, Typed, TypedCycle, Places
<1>5. TypedCounts'
  BY DEF Restart, TypeInv, Typed, TypedCounts
<1>6. CycleInv'
  BY Constants DEF Restart, CycleInv, CountInRange, Pressed, OnlineToPost
<1>. QED  BY <1>1, <1>2, <1>3, <1>4, <1>5, <1>6 DEF TypeInv, Typed

LEMMA SchedulerKeeps ==
  ASSUME Timely, TypeInv, CycleInv, [StationNext]_stationVars
  PROVE  TypeInv' /\ CycleInv'
<1>1. CASE [Next]_vars
  BY <1>1, TypeInvStep, Undisturbed DEF CycleInv
<1>2. CASE Reset
  BY <1>2, RestartTyped DEF Reset
<1>. QED  BY <1>1, <1>2, SchedulerSteps

\* Posts in a row that come to nothing stay within their bound.
LEMMA FailuresBounded ==
  ASSUME TypeInv, failed <= MaxFailed, [Next]_vars \/ Restart
  PROVE  failed' <= MaxFailed
<1>1. failed \in Nat /\ MaxFailed \in Nat
  BY Constants DEF TypeInv, Typed, TypedCounts
<1>2. failed' = failed \/ failed' = 0 \/ (failed' = failed + 1 /\ failed < MaxFailed)
  <2>1. ASSUME NEW level \in BatteryLevels, CheckInterval(level)
        PROVE  failed' = failed \/ (failed' = failed + 1 /\ failed < MaxFailed)
    BY <2>1 DEF CheckInterval
  <2>2. ASSUME NEW level \in BatteryLevels, CheckBestEffort(level)
        PROVE  failed' = failed \/ (failed' = failed + 1 /\ failed < MaxFailed)
    BY <2>2 DEF CheckBestEffort
  <2>3. CASE SkipCycle
    BY <2>3 DEF SkipCycle
  <2>4. CASE \/ TakeReading \/ PostOnline \/ PostFails \/ StoreReadings \/ PostNothing
             \/ Disconnect \/ EndCycle \/ StartTesting \/ EndTesting \/ Sleep
    BY <2>4 DEF TakeReading, PostOnline, PostFails, StoreReadings, PostNothing, Disconnect,
                EndCycle, StartTesting, EndTesting, Sleep, posts
  <2>5. CASE \E drift \in -MaxDrift..MaxDrift : SyncClock(drift)
    BY <2>5 DEF SyncClock
  <2>6. CASE Tick \/ PressButton \/ Restart \/ UNCHANGED vars
    BY <2>6 DEF Tick, PressButton, Restart, vars, posts
  <2>. QED  BY <2>1, <2>2, <2>3, <2>4, <2>5, <2>6 DEF Next, Proceed
<1>. QED  BY <1>1, <1>2

\* A step that leaves the scheduler alone leaves what waits.
LEMMA SchedulerStays ==
  ASSUME UNCHANGED vars, NEW n \in Int, Waits(n)
  PROVE  Waits(n)'
BY DEF vars, timers, posts, Waits, Few, Many, InHand, Pending, Running, TestLeft, Delay,
       Woken, IntervalStarts

--------------------------------------------------------------------------------
(* The steps of the station, for the file.                                 *)

\* A step that leaves rdel, and the resets before, leaves what is fresh.
LEMMA FileStays ==
  ASSUME CardTyped, rdel' = rdel, resets' = resets
  PROVE  Fresh' = Fresh
BY DEF Fresh, Base, Limit

LEMMA LogStep ==
  ASSUME TypeInv, CycleInv, StationInv, Log
  PROVE  StationInv'
<1>. USE DEF StationInv
<1>1. /\ pc = "reading" /\ "new" \in cia /\ step = "idle" /\ step' = "logged"
      /\ rdel' = rdel /\ resets' = resets /\ hand' \in Reading /\ UNCHANGED vars
  BY DEF Log, Queue!LogReading, Queue!card
<1>2. pc' = pc /\ cia' = cia /\ failed' = failed
  BY <1>1 DEF vars, posts
<1>3. CardTyped' /\ Placed' /\ Emptied'
  BY <1>1, <1>2 DEF CardTyped, Placed, Emptied, PassOn, Queue!Steps
<1>4. PICK n \in Int : n = Fresh
  BY Bounds
<1>5. Fresh' = n
  BY <1>1, <1>4, FileStays
<1>6. Waits(n)
  BY <1>1, <1>4 DEF FileInv, PassOn, Waits, Few, Many
<1>7. Waits(n)'
  BY <1>1, <1>6, SchedulerStays
<1>8. FileInv'
  BY <1>4, <1>5, <1>7 DEF FileInv, Waits, Few, Many, Limit
<1>. QED  BY <1>3, <1>8

\* A step of the scheduler that leaves the files alone, between passes or during one.
LEMMA AloneStep ==
  ASSUME Timely, TypeInv, CycleInv, StationInv, [Next]_vars, UNCHANGED queueVars,
         PassOn => pc' = pc, step = "logged" => pc' = pc /\ cia' = cia,
         ASSUME NEW n \in Int, ~PassOn, Waits(n) PROVE Waits(n)'
  PROVE  StationInv'
<1>. USE DEF StationInv
<1>1. /\ rdel' = rdel /\ resets' = resets /\ hand' = hand /\ step' = step
  BY DEF queueVars
<1>2. failed' <= MaxFailed
  BY FailuresBounded DEF CardTyped
<1>3. CardTyped' /\ Placed' /\ Emptied'
  BY <1>1, <1>2 DEF CardTyped, Placed, Emptied, PassOn
<1>4. PICK n \in Int : n = Fresh
  BY Bounds
<1>5. Fresh' = n /\ (PassOn <=> PassOn')
  BY <1>1, <1>4, FileStays DEF PassOn
<1>6. ~PassOn => Waits(n)
  BY <1>4 DEF FileInv, Waits, Few, Many
<1>7. ~PassOn => Waits(n)'
  BY <1>6
<1>8. FileInv'
  BY <1>4, <1>5, <1>7 DEF FileInv, Waits, Few, Many, Limit
<1>. QED  BY <1>3, <1>8

LEMMA SerializeStep ==
  ASSUME TypeInv, CycleInv, TypeInv', CycleInv', StationInv, Serialize
  PROVE  StationInv'
<1>. USE DEF StationInv
<1>1. /\ TakeReading /\ "new" \in cia /\ step = "logged" /\ step' = "idle"
      /\ rdel' = Append(rdel, hand) /\ hand' = NoLine /\ resets' = resets
  BY DEF Serialize, Queue!SerzRdelLine
<1>2. pc = "reading" /\ failed' = failed
  BY <1>1 DEF TakeReading
<1>3. rdel' \in Seq(Reading \cup {NoLine}) /\ Len(rdel') = Len(rdel) + 1
  BY <1>1 DEF CardTyped
<1>4. CardTyped' /\ Placed' /\ Emptied'
  BY <1>1, <1>2, <1>3 DEF CardTyped, Placed, Emptied, PassOn, Queue!Steps
<1>5. PICK n \in Int : n = Fresh
  BY Bounds
<1>6. Fresh' = n + 1
  <2>1. Base' = Base
    BY <1>1 DEF Base, Limit
  <2>. QED  BY <1>3, <1>5, <2>1, Bounds DEF Fresh
<1>7. Pending = 1
  BY <1>1, <1>2 DEF Pending
<1>8. Waits(n)
  BY <1>1, <1>5 DEF FileInv, PassOn, Waits, Few, Many
<1>9. PICK m \in Int : m = n + 1
  OBVIOUS
<1>10. Waits(m)'
  BY <1>1, <1>7, <1>8, <1>9, ReadingWaits
<1>11. m <= Limit
  <2>1. n + Pending <= Limit
    <3>1. n + Pending <= failed * SendEveryX + SendEveryX
      BY <1>8, FewIsMany DEF Many
    <3>. QED  BY <3>1, LimitOfFailures, Numbers, Bounds
  <2>. QED  BY <1>7, <1>9, <2>1
<1>12. FileInv'
  BY <1>6, <1>9, <1>10, <1>11 DEF FileInv, Waits, Few, Many, Limit
<1>. QED  BY <1>4, <1>12

LEMMA NoReadingStep ==
  ASSUME Timely, TypeInv, CycleInv, StationInv, NoReading
  PROVE  StationInv'
<1>1. "new" \notin cia /\ TakeReading /\ UNCHANGED queueVars /\ pc = "reading"
  BY DEF NoReading, TakeReading
<1>2. step = "idle"
  BY <1>1 DEF StationInv, Placed, PassOn
<1>3. [Next]_vars
  BY <1>1 DEF Next, Proceed
<1>4. ASSUME NEW n \in Int, Waits(n) PROVE Waits(n)'
  <2>1. n <= n + Pending
    BY DEF Pending
  <2>. QED  BY <1>1, <1>4, <2>1, ReadingWaits
<1>. QED  BY <1>1, <1>2, <1>3, <1>4, AloneStep DEF PassOn

LEMMA CycleStep ==
  ASSUME Timely, TypeInv, CycleInv, StationInv, Cycle
  PROVE  StationInv'
<1>1. step = "idle" /\ UNCHANGED queueVars
  BY DEF Cycle
<1>2. [Next]_vars
  BY DEF Cycle, Next, Proceed
<1>3. ASSUME NEW n \in Int, Waits(n) PROVE Waits(n)'
  <2>1. CASE \E level \in BatteryLevels : CheckInterval(level)
    BY <1>3, <2>1, CheckWaits
  <2>2. CASE PostFails
    BY <1>3, <2>2, FailureWaits
  <2>3. CASE \/ PostNothing \/ Disconnect \/ EndCycle \/ Sleep
             \/ \E drift \in -MaxDrift..MaxDrift : SyncClock(drift)
    BY <1>3, <2>3, QuietWaits
  <2>. QED  BY <2>1, <2>2, <2>3 DEF Cycle
<1>. QED  BY <1>1, <1>2, <1>3, AloneStep DEF PassOn

LEMMA MinuteStep ==
  ASSUME Timely, TypeInv, CycleInv, StationInv, Minute
  PROVE  StationInv'
<1>1. Tick /\ UNCHANGED queueVars
  BY DEF Minute
<1>2. [Next]_vars
  BY <1>1 DEF Next
<1>3. pc \notin {"asleep", "dozing"} => pc' = pc
  BY <1>1 DEF Tick
<1>4. cia' = cia
  BY <1>1 DEF Tick
<1>5. ASSUME NEW n \in Int, Waits(n) PROVE Waits(n)'
  BY <1>1, <1>5, QuietWaits
<1>6. /\ PassOn => pc' = pc
      /\ step = "logged" => pc' = pc
  BY <1>3 DEF StationInv, Placed
<1>. QED  BY <1>1, <1>2, <1>4, <1>5, <1>6, AloneStep

LEMMA BeginStep ==
  ASSUME TypeInv, CycleInv, StationInv, Post \/ Store
  PROVE  StationInv'
<1>. USE DEF StationInv
<1>1. /\ PostOnline \/ StoreReadings
      /\ step = "idle" /\ step' = "forward" /\ rdel' = rdel /\ hand' = hand
      /\ resets' = resets
  BY DEF Post, Store, Queue!StartPass, Queue!OpenFiles, Queue!card
<1>2. pc' \in {"online", "closing"} /\ failed' \in {0, failed}
  BY <1>1 DEF PostOnline, StoreReadings
<1>3. failed' <= MaxFailed
  BY <1>2, Constants DEF CardTyped
<1>4. CardTyped' /\ Placed' /\ Emptied'
  BY <1>1, <1>2, <1>3 DEF CardTyped, Placed, Emptied, PassOn, Queue!Steps
<1>5. Fresh' = Fresh /\ Limit' = Limit
  BY <1>1, FileStays DEF Limit
<1>6. PassOn'
  BY <1>1 DEF PassOn
<1>. QED  BY <1>4, <1>5, <1>6 DEF FileInv

LEMMA PassStep ==
  ASSUME TypeInv, CycleInv, StationInv, Pass
  PROVE  StationInv'
<1>. USE DEF StationInv
<1>1. UNCHANGED vars /\ hand' = hand /\ resets' = resets
  BY DEF Pass, Queue!Proceed, Queue!SerzRdelLine, Queue!Forward, Queue!Retry, Queue!Flush,
     Queue!ForwardAccepted, Queue!ForwardRefused, Queue!RemoveRdel, Queue!CloseQue,
     Queue!RetryAccepted, Queue!RetryRefused, Queue!RetryEnd, Queue!CopyUnsent,
     Queue!RenameQue, Queue!RenameTmp, Queue!NextPublisher, Queue!EndPass, Queue!buffers
<1>2. pc' = pc /\ cia' = cia /\ failed' = failed
  BY <1>1 DEF vars, posts
\* The file stays, or it is removed.
<1>3. /\ PassOn /\ step' \in Queue!Steps /\ step' # "logged"
      /\ \/ rdel' = rdel /\ PassOn' /\ (step' = "forward" \/ step # "forward")
         \/ rdel' = <<>> /\ PassOn'
         \/ rdel' = rdel /\ step = "done" /\ step' = "idle"
  <2>1. CASE Queue!ForwardAccepted \/ Queue!ForwardRefused
    BY <2>1 DEF Queue!ForwardAccepted, Queue!ForwardRefused, Queue!card, PassOn, Queue!Steps
  <2>2. CASE Queue!RemoveRdel
    BY <2>2 DEF Queue!RemoveRdel, PassOn, Queue!Steps
  <2>3. CASE Queue!CloseQue
    BY <2>3 DEF Queue!CloseQue, PassOn, Queue!Steps
  <2>4. CASE Queue!Retry
    BY <2>4 DEF Queue!Retry, Queue!RetryAccepted, Queue!RetryRefused, Queue!RetryEnd,
                Queue!AfterRetry, Queue!card, PassOn, Queue!Steps
  <2>5. CASE Queue!Flush
    BY <2>5 DEF Queue!Flush, Queue!CopyUnsent, Queue!RenameQue, Queue!RenameTmp, Queue!card,
                PassOn, Queue!Steps
  <2>6. CASE Queue!NextPublisher
    BY <2>6 DEF Queue!NextPublisher, Queue!OpenFiles, Queue!card, PassOn, Queue!Steps
  <2>7. CASE Queue!EndPass
    BY <2>7 DEF Queue!EndPass, Queue!PassOver, Queue!card, PassOn, Queue!Steps
  <2>. QED
    BY <2>1, <2>2, <2>3, <2>4, <2>5, <2>6, <2>7
    DEF Pass, Queue!Proceed, Queue!SerzRdelLine, Queue!Forward
<1>4. CardTyped' /\ Placed' /\ Emptied'
  <2>0. <<>> \in Seq(Reading \cup {NoLine})
    OBVIOUS
  <2>1. rdel' \in Seq(Reading \cup {NoLine})
    <3>1. rdel' = rdel \/ rdel' = <<>>
      BY <1>3
    <3>. QED  BY <2>0, <3>1 DEF CardTyped
  <2>2. CardTyped'
    BY <1>1, <1>2, <2>1 DEF CardTyped
  <2>3. Placed'
    BY <1>2, <1>3 DEF Placed
  <2>4. Emptied'
    BY <1>3 DEF Emptied, PassOn
  <2>. QED  BY <2>2, <2>3, <2>4
<1>5. Base' = Base /\ Limit' = Limit
  BY <1>1 DEF Base, Limit
<1>6. CASE rdel' = rdel /\ PassOn'
  <2>1. Fresh' = Fresh
    BY <1>5, <1>6 DEF Fresh
  <2>. QED  BY <1>4, <1>5, <1>6, <2>1 DEF FileInv
<1>7. CASE rdel' = <<>> /\ PassOn'
  <2>1. Fresh' = 0 - Base
    BY <1>5, <1>7 DEF Fresh
  <2>. QED  BY <1>4, <1>5, <1>7, <2>1, Bounds DEF FileInv
<1>8. CASE rdel' = rdel /\ step = "done" /\ step' = "idle"
  <2>1. rdel = <<>> /\ pc \in {"online", "closing"}
    BY <1>8 DEF Emptied, Placed, PassOn
  <2>2. PICK n \in Int : n = Fresh
    BY Bounds
  <2>3. n <= 0
    BY <2>1, <2>2, Bounds DEF Fresh
  <2>4. Pending = 0
    BY <2>1 DEF Pending
  <2>5. Waits(n)
    BY <2>3, <2>4, NothingWaits
  <2>6. Waits(n)'
    BY <1>1, <2>5, SchedulerStays
  <2>7. Fresh' = n
    BY <1>5, <1>8, <2>2 DEF Fresh
  <2>8. FileInv'
    BY <2>2, <2>6, <2>7 DEF FileInv, Waits, Few, Many, Limit
  <2>. QED  BY <1>4, <2>8
<1>. QED  BY <1>3, <1>6, <1>7, <1>8

\* What is in the file now is from before a reset then.
LEMMA ResetStep ==
  ASSUME TypeInv, CycleInv, StationInv, Reset
  PROVE  StationInv'
<1>. USE DEF StationInv
<1>1. /\ rdel' = rdel /\ hand' = NoLine /\ resets' = resets + 1 /\ step' = "idle"
      /\ pc' = "woken" /\ everyCnt' = 0 /\ failed' = failed
  BY DEF Reset, Restart, Queue!Reset, Queue!PassOver, Queue!card
<1>2. CardTyped' /\ Placed' /\ Emptied'
  BY <1>1 DEF CardTyped, Placed, Emptied, PassOn, Queue!Steps
<1>3. Base' = Base + Limit /\ Limit' = Limit
  <2>1. Limit' = Limit
    BY DEF Limit
  <2>2. Base' = (resets + 1) * Limit
    BY <1>1, <2>1 DEF Base
  <2>. QED  BY <2>1, <2>2, Bounds
<1>4. Fresh' = Fresh - Limit
  BY <1>1, <1>3, Bounds DEF Fresh
<1>5. Fresh' \in Int /\ Fresh' <= 0
  BY <1>4, Bounds DEF FileInv
<1>6. Pending' = 0
  BY <1>1 DEF Pending
<1>7. failed' * SendEveryX \in Nat
  <2>1. failed * SendEveryX \in Nat
    BY Numbers
  <2>. QED  BY <1>1, <2>1
<1>8. Waits(Fresh)'
  BY <1>1, <1>5, <1>6, <1>7 DEF Waits, Few
<1>9. FileInv'
  BY <1>3, <1>5, <1>8, Bounds DEF FileInv
<1>. QED  BY <1>2, <1>9

LEMMA ElseStep ==
  ASSUME TypeInv, CycleInv, StationInv, ServerRecovers \/ UNCHANGED stationVars
  PROVE  StationInv'
<1>. USE DEF StationInv
<1>1. /\ UNCHANGED vars
      /\ rdel' = rdel /\ hand' = hand /\ resets' = resets /\ step' = step
  BY DEF ServerRecovers, Queue!ServerRecovers, Queue!card, Queue!buffers, stationVars, queueVars
<1>2. pc' = pc /\ cia' = cia /\ failed' = failed
  BY <1>1 DEF vars, posts
<1>3. CardTyped' /\ Placed' /\ Emptied'
  BY <1>1, <1>2 DEF CardTyped, Placed, Emptied, PassOn
<1>4. PICK n \in Int : n = Fresh
  BY Bounds
<1>5. Fresh' = n /\ (PassOn <=> PassOn')
  BY <1>1, <1>4, FileStays DEF PassOn
<1>6. ~PassOn => Waits(n)
  BY <1>4 DEF FileInv, Waits, Few, Many
<1>7. ~PassOn => Waits(n)'
  BY <1>1, <1>6, SchedulerStays
<1>8. FileInv'
  BY <1>4, <1>5, <1>7 DEF FileInv, Waits, Few, Many, Limit
<1>. QED  BY <1>3, <1>8

LEMMA StationInvStep ==
  ASSUME Timely, TypeInv, CycleInv, StationInv, [StationNext]_stationVars
  PROVE  StationInv'
<1>1. TypeInv' /\ CycleInv'
  BY SchedulerKeeps
<1>. QED
  BY <1>1, LogStep, SerializeStep, NoReadingStep, BeginStep, PassStep, CycleStep, MinuteStep,
     ResetStep, ElseStep
  DEF StationNext, Work

\* RDELAY.TXT never holds more than SendEveryX readings for each of the MaxFailed posts in
\* a row that may come to nothing and the one to come, and as many for each reset so far,
\* for any interval, battery and number of publishers, wherever the resets fall, if the
\* count does not wrap and the send offset ends in its interval.
THEOREM FileIsBounded ==
  ASSUME Timely
  PROVE  StationSpec => []FileBounded
<1>1. StationInv => FileBounded
  <2>. SUFFICES ASSUME StationInv PROVE FileBounded
    OBVIOUS
  <2>1. Len(rdel) <= (resets + 1) * Limit
    BY Bounds DEF StationInv, FileInv, Fresh
  <2>2. (resets + 1) * Limit = (MaxFailed + 1) * (resets + 1) * SendEveryX
    <3>1. \A a, b, c \in Nat : a * (b * c) = b * a * c
      OBVIOUS
    <3>2. resets + 1 \in Nat /\ MaxFailed + 1 \in Nat /\ SendEveryX \in Nat
      BY Bounds DEF StationInv, CardTyped
    <3>. QED  BY <3>1, <3>2 DEF Limit
  <2>. QED  BY <2>1, <2>2 DEF FileBounded
<1>2. StationInit => TypeInv /\ CycleInv /\ StationInv
  BY TypeInvInit, BacklogInit, StationInvInit DEF StationInit
<1>3. TypeInv /\ CycleInv /\ StationInv /\ [StationNext]_stationVars
        => TypeInv' /\ CycleInv' /\ StationInv'
  BY SchedulerKeeps, StationInvStep
<1>. QED  BY <1>1, <1>2, <1>3, PTL DEF StationSpec

================================================================================
