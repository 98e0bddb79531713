---------------------------- MODULE Scheduler_proofs ----------------------------
(***************************************************************************)
(* What holds of the schedule for every interval, number of readings to a   *)
(* post and offset: the counters keep their width, and the readings in      *)
(* RDELAY.TXT never outgrow the posts that were due.                        *)
(***************************************************************************)
EXTENDS Scheduler, TLAPS

--------------------------------------------------------------------------------
(* Arithmetic of the clock and of the counters.                            *)

LEMMA Constants ==
  /\ Interval \in Nat /\ Interval > 0 /\ SendEveryX \in Nat /\ SendEveryX > 0
  /\ SendEveryX <= 255 /\ SendOffset \in 0..14
  /\ Day \in Nat /\ Day > 0 /\ Day % Interval = 0
  /\ PassMax \in Nat /\ TestMax \in Nat /\ MaxDrift \in Nat /\ MaxFailed \in Nat
  /\ MaxPresses \in Nat
<1>1. Interval \in Nat /\ Interval > 0 /\ SendEveryX \in Nat /\ SendEveryX > 0
  BY ScheduleAssumption
<1>2. Day \in Nat /\ Day >= 2 * Interval /\ Day % Interval = 0
  BY ScheduleAssumption
<1>3. Day > 0
  BY <1>1, <1>2
<1>. QED  BY <1>1, <1>2, <1>3, ScheduleAssumption

LEMMA ModRange ==
  ASSUME NEW a \in Int, NEW b \in Nat, b > 0
  PROVE  a % b \in 0..(b - 1)
OBVIOUS

LEMMA ModNext ==
  ASSUME NEW a \in Int, NEW b \in Nat, b > 0, (a % b) + 1 < b
  PROVE  (a + 1) % b = (a % b) + 1
<1>. DEFINE q == a \div b  r == a % b  p == (a + 1) \div b  s == (a + 1) % b
<1>1. a = b * q + r /\ a + 1 = b * p + s
  OBVIOUS
<1>2. q \in Int /\ p \in Int /\ r \in 0..(b - 1) /\ s \in 0..(b - 1) /\ r + 1 < b
  OBVIOUS
<1>. HIDE DEF q, r, p, s
<1>3. b * p = b * q + (r + 1 - s)
  BY <1>1, <1>2
<1>4. p = q
  <2>1. ASSUME p >= q + 1 PROVE FALSE
    <3>1. b * p >= b * q + b
      BY <1>2, <2>1
    <3>. QED  BY <1>2, <1>3, <3>1
  <2>2. ASSUME p <= q - 1 PROVE FALSE
    <3>1. b * p <= b * q - b
      BY <1>2, <2>2
    <3>. QED  BY <1>2, <1>3, <3>1
  <2>. QED  BY <1>2, <2>1, <2>2
<1>5. s = r + 1
  BY <1>2, <1>3, <1>4
<1>. QED  BY <1>5 DEF r, s

\* A minute later it is a minute later in the interval, unless the next one begins.
LEMMA NextMinute ==
  ASSUME NEW n \in 0..(Day - 1), (n % Interval) + 1 < Interval
  PROVE  ((n + 1) % Day) % Interval = (n % Interval) + 1
<1>1. (n + 1) % Interval = (n % Interval) + 1
  BY Constants, ModNext
<1>2. n % Interval \in 0..(Interval - 1)
  BY Constants, ModRange
<1>3. n + 1 # Day
  BY <1>1, <1>2, Constants
<1>4. n + 1 \in Nat /\ n + 1 < Day
  BY <1>3, Constants
<1>5. (n + 1) % Day = n + 1
  BY <1>4, Constants
<1>. QED  BY <1>1, <1>5

LEMMA Widths ==
  ASSUME NEW n \in Int
  PROVE  /\ Int8(n) \in -128..127 /\ (n \in -128..127 => Int8(n) = n)
         /\ UInt8(n) \in 0..255 /\ (n \in 0..255 => UInt8(n) = n)
<1>1. Int8(n) \in -128..127
  BY DEF Int8
<1>2. n \in -128..127 => Int8(n) = n
  BY DEF Int8
<1>3. UInt8(n) \in 0..255
  BY DEF UInt8
<1>4. n \in 0..255 => UInt8(n) = n
  BY DEF UInt8
<1>. QED  BY <1>1, <1>2, <1>3, <1>4

--------------------------------------------------------------------------------
(* Types.                                                                  *)

Places == {"asleep", "woken", "reading", "posting", "online", "closing", "ending",
           "testing", "dozing"}

AwakeMax == IF PassMax > TestMax THEN PassMax ELSE TestMax

TypedClock == now \in 0..(Day - 1) /\ marked \in 0..(Day - 1) /\ awake \in 0..AwakeMax

TypedTimers == everyCnt \in -128..127 /\ offCnt \in 0..14 /\ offAct \in BOOLEAN

TypedFlags ==
  /\ forced \in BOOLEAN /\ startTesting \in BOOLEAN /\ sent \in BOOLEAN
  /\ synced \in BOOLEAN /\ taken \in BOOLEAN /\ excused \in BOOLEAN

TypedCycle ==
  /\ pc \in Places /\ cia \subseteq {"new", "post", "store"} /\ mode \in Modes

TypedCounts == unposted \in Nat /\ failed \in Nat /\ presses \in Nat

Typed == TypedClock /\ TypedTimers /\ TypedFlags /\ TypedCycle /\ TypedCounts

\* A timer that runs has not expired.
TimerRuns == offAct => offCnt >= 1

TypeInv == Typed /\ TimerRuns

LEMMA TypeInvInit ==
  ASSUME Init
  PROVE  TypeInv
<1>1. 0 \in 0..AwakeMax
  BY Constants DEF AwakeMax
<1>2. TypedClock
  BY <1>1, Constants DEF Init, TypedClock
<1>3. TypedTimers
  <2>1. everyCnt = 0 /\ offCnt = 0 /\ offAct = FALSE
    BY DEF Init
  <2>2. everyCnt \in -128..127
    BY <2>1
  <2>3. offCnt \in 0..14
    BY <2>1
  <2>. QED  BY <2>1, <2>2, <2>3 DEF TypedTimers
<1>4. TypedFlags
  BY DEF Init, TypedFlags
<1>5. TypedCycle
  BY DEF Init, TypedCycle, Places
<1>6. TypedCounts
  BY DEF Init, TypedCounts
<1>7. TimerRuns
  BY DEF Init, TimerRuns
<1>. QED  BY <1>2, <1>3, <1>4, <1>5, <1>6, <1>7 DEF TypeInv, Typed

\* The count and the timer keep their types in every wake.
LEMMA TimersStep ==
  ASSUME TypeInv, CountReading, CountDown
  PROVE  TypedTimers' /\ TimerRuns'
<1>1. everyCnt \in Int /\ everyCnt \in -128..127 /\ offCnt \in 0..14 /\ offAct \in BOOLEAN
  BY DEF TypeInv, Typed, TypedTimers
<1>2. Counted \in -128..127
  BY <1>1, Widths DEF Counted
<1>3. everyCnt' \in -128..127
  BY <1>1, <1>2 DEF CountReading
<1>4. CASE CountIsFull /\ Offset # 0
  <2>1. offAct' = TRUE /\ offCnt' = Offset /\ Offset \in 1..14
    BY <1>4, Constants DEF CountDown, Offset
  <2>. QED  BY <1>3, <2>1 DEF TypedTimers, TimerRuns
<1>5. CASE ~(CountIsFull /\ Offset # 0)
  <2>1. /\ offAct' = (offAct /\ ~TimerExpires)
        /\ offCnt' = IF offAct THEN UInt8(offCnt - 1) ELSE offCnt
    BY <1>5 DEF CountDown
  <2>2. CASE offAct
    <3>1. offCnt \in 1..14
      BY <1>1, <2>2 DEF TypeInv, TimerRuns
    <3>2. UInt8(offCnt - 1) = offCnt - 1
      BY <3>1, Widths
    <3>3. offCnt' = offCnt - 1 /\ offCnt' \in 0..14
      BY <2>1, <2>2, <3>1, <3>2
    <3>4. offCnt - 1 = 0 => TimerExpires
      BY <2>2, <3>2 DEF TimerExpires
    <3>6. offAct' => ~TimerExpires
      BY <2>1
    <3>7. offAct' => offCnt' >= 1
      BY <3>1, <3>3, <3>4, <3>6
    <3>5. offAct' \in BOOLEAN
      BY <2>1
    <3>. QED  BY <1>3, <3>3, <3>5, <3>7 DEF TypedTimers, TimerRuns
  <2>3. CASE ~offAct
    BY <1>1, <1>3, <2>1, <2>3 DEF TypedTimers, TimerRuns
  <2>. QED  BY <1>1, <2>2, <2>3
<1>. QED  BY <1>4, <1>5

--------------------------------------------------------------------------------
(* What checkInterval decides.                                             *)

LEMMA DueForm ==
  /\ Due \subseteq {"new", "post"}
  /\ "new" \in Due <=> IntervalStarts
  /\ "post" \in Due <=> PostDue
BY DEF Due

LEMMA Allowed ==
  ASSUME NEW level \in {"nothing", "sensors", "modem"}, NEW A \in SUBSET {"new", "post"}
  PROVE  /\ BatteryAllows(level, A) \subseteq {"new", "post", "store"}
         /\ "new" \in BatteryAllows(level, A) => "new" \in A
         /\ "post" \in BatteryAllows(level, A) <=> ("post" \in A /\ level = "modem")
<1>1. CASE level = "nothing"
  BY <1>1 DEF BatteryAllows
<1>2. CASE level = "sensors"
  BY <1>2 DEF BatteryAllows
<1>3. CASE level = "modem"
  BY <1>3 DEF BatteryAllows
<1>. QED  BY <1>1, <1>2, <1>3

\* A post that is due is made, held back, or not due.
Decided(due) ==
  /\ cia' \subseteq {"new", "post", "store"}
  /\ \/ due /\ "post" \in cia' /\ pc' = "reading" /\ failed' = failed
     \/ due /\ "post" \notin cia' /\ failed' = failed + 1
     \/ ~due /\ "post" \notin cia' /\ failed' = failed
  /\ pc' \in {"reading", "ending"}

LEMMA CheckIntervalForm ==
  ASSUME NEW level \in BatteryLevels, CheckInterval(level)
  PROVE  Decided(forced \/ PostDue) /\ ("new" \in cia' => forced \/ IntervalStarts)
<1>. DEFINE asked == IF forced THEN {"new", "post"} ELSE Due
            held == "post" \in asked /\ level # "modem"
<1>1. level \in {"nothing", "sensors", "modem"}
  BY ScheduleAssumption
<1>2. asked \in SUBSET {"new", "post"}
  BY DueForm
<1>3. /\ "new" \in asked <=> forced \/ IntervalStarts
      /\ "post" \in asked <=> forced \/ PostDue
  BY DueForm
<1>4. /\ cia' = BatteryAllows(level, asked)
      /\ failed' = IF held THEN failed + 1 ELSE failed
      /\ pc' = IF cia' = {} THEN "ending" ELSE "reading"
  BY DEF CheckInterval
<1>. HIDE DEF asked
<1>5. /\ cia' \subseteq {"new", "post", "store"}
      /\ "new" \in cia' => "new" \in asked
      /\ "post" \in cia' <=> ("post" \in asked /\ level = "modem")
  BY <1>1, <1>2, <1>4, Allowed
<1>6. "post" \in cia' => pc' = "reading"
  BY <1>4
<1>7. pc' \in {"reading", "ending"}
  BY <1>4
<1>8. failed' = IF "post" \in asked /\ level # "modem" THEN failed + 1 ELSE failed
  BY <1>4
<1>. HIDE DEF held
<1>. QED  BY <1>3, <1>5, <1>6, <1>7, <1>8 DEF Decided

LEMMA CheckBestEffortForm ==
  ASSUME NEW level \in BatteryLevels, CheckBestEffort(level)
  PROVE  Decided(Due # {})
<1>. DEFINE held == Due # {} /\ level # "modem"
<1>1. /\ cia' = IF Due = {} THEN {} ELSE {"new"} \cup (IF held THEN {} ELSE {"post"})
      /\ failed' = IF held THEN failed + 1 ELSE failed
      /\ pc' = IF cia' = {} THEN "ending" ELSE "reading"
  BY DEF CheckBestEffort
<1>. QED  BY <1>1 DEF Decided

LEMMA CheckTyped ==
  ASSUME TypeInv, NEW level \in BatteryLevels, CheckInterval(level) \/ CheckBestEffort(level)
  PROVE  TypeInv'
<1>1. PICK due \in BOOLEAN : Decided(due)
  BY CheckIntervalForm, CheckBestEffortForm
<1>2. TypedTimers' /\ TimerRuns'
  BY TimersStep DEF CheckInterval, CheckBestEffort
<1>3. TypedCounts'
  BY <1>1 DEF TypeInv, Typed, TypedCounts, Decided, CheckInterval, CheckBestEffort
<1>4. TypedCycle'
  BY <1>1 DEF TypeInv, Typed, TypedCycle, Places, Decided, CheckInterval, CheckBestEffort
<1>5. TypedFlags'
  <2>1. excused' \in BOOLEAN
    BY DEF TypeInv, Typed, TypedFlags, CheckInterval, CheckBestEffort, interval
  <2>2. forced' = forced /\ startTesting' = startTesting /\ taken' = taken
    BY DEF CheckInterval, CheckBestEffort, interval
  <2>3. sent' = FALSE /\ synced' = FALSE
    BY DEF CheckInterval, CheckBestEffort
  <2>. QED  BY <2>1, <2>2, <2>3 DEF TypeInv, Typed, TypedFlags
<1>6. TypedClock'
  BY DEF TypeInv, Typed, TypedClock, CheckInterval, CheckBestEffort
<1>. QED  BY <1>2, <1>3, <1>4, <1>5, <1>6 DEF TypeInv, Typed

--------------------------------------------------------------------------------
(* Types of the other steps.                                               *)

LEMMA TimersStay ==
  ASSUME TypeInv, UNCHANGED timers
  PROVE  TypedTimers' /\ TimerRuns'
BY DEF TypeInv, Typed, TypedTimers, TimerRuns, timers

LEMMA SkipCycleTyped ==
  ASSUME TypeInv, SkipCycle
  PROVE  TypeInv'
<1>1. TypedTimers' /\ TimerRuns'
  BY TimersStay DEF SkipCycle
<1>2. TypedClock'
  BY Constants DEF SkipCycle, TypeInv, Typed, TypedClock, AwakeMax
<1>3. TypedCycle'
  BY DEF SkipCycle, TypeInv, Typed, TypedCycle, Places
<1>4. TypedCounts'
  BY DEF SkipCycle, TypeInv, Typed, TypedCounts
<1>5. TypedFlags'
  <2>1. excused' \in BOOLEAN
    BY DEF SkipCycle, TypeInv, Typed, TypedFlags
  <2>. QED  BY <2>1 DEF SkipCycle, TypeInv, Typed, TypedFlags
<1>. QED  BY <1>1, <1>2, <1>3, <1>4, <1>5 DEF TypeInv, Typed

LEMMA CycleTyped ==
  ASSUME TypeInv,
         \/ TakeReading \/ PostOnline \/ PostFails \/ StoreReadings \/ PostNothing
         \/ Disconnect \/ EndCycle
  PROVE  TypeInv'
<1>. USE DEF TakeReading, PostOnline, PostFails, StoreReadings, PostNothing, Disconnect,
             EndCycle
<1>1. TypedTimers' /\ TimerRuns'
  BY TimersStay
<1>2. TypedClock'
  BY DEF TypeInv, Typed, TypedClock
<1>3. TypedCycle'
  BY DEF TypeInv, Typed, TypedCycle, Places
<1>4. TypedCounts'
  BY DEF TypeInv, Typed, TypedCounts, posts
<1>5. TypedFlags'
  <2>1. taken' \in BOOLEAN
    BY DEF TypeInv, Typed, TypedFlags, interval
  <2>2. startTesting' \in BOOLEAN
    BY DEF TypeInv, Typed, TypedFlags
  <2>3. sent' \in BOOLEAN /\ synced' \in BOOLEAN
    BY DEF TypeInv, Typed, TypedFlags, posts
  <2>. QED  BY <2>1, <2>2, <2>3 DEF TypeInv, Typed, TypedFlags, interval
<1>. QED  BY <1>1, <1>2, <1>3, <1>4, <1>5 DEF TypeInv, Typed

LEMMA SyncClockTyped ==
  ASSUME TypeInv, NEW drift \in -MaxDrift..MaxDrift, SyncClock(drift)
  PROVE  TypeInv'
<1>1. TypedTimers' /\ TimerRuns'
  BY TimersStay DEF SyncClock
<1>2. TypedClock'
  <2>1. now + drift \in Int
    BY Constants DEF TypeInv, Typed, TypedClock
  <2>2. now' \in 0..(Day - 1)
    BY <2>1, Constants, ModRange DEF SyncClock
  <2>. QED  BY <2>2 DEF SyncClock, TypeInv, Typed, TypedClock
<1>3. TypedCycle'
  BY DEF SyncClock, TypeInv, Typed, TypedCycle, Places
<1>4. TypedCounts'
  BY DEF SyncClock, TypeInv, Typed, TypedCounts
<1>5. TypedFlags'
  <2>1. excused' \in BOOLEAN
    BY DEF SyncClock, TypeInv, Typed, TypedFlags
  <2>. QED  BY <2>1 DEF SyncClock, TypeInv, Typed, TypedFlags
<1>. QED  BY <1>1, <1>2, <1>3, <1>4, <1>5 DEF TypeInv, Typed

LEMMA RestTyped ==
  ASSUME TypeInv, PressButton \/ StartTesting \/ EndTesting \/ Sleep
  PROVE  TypeInv'
<1>. USE DEF PressButton, StartTesting, EndTesting, Sleep
<1>1. TypedTimers' /\ TimerRuns'
  BY TimersStay
<1>2. TypedClock'
  BY Constants DEF TypeInv, Typed, TypedClock, AwakeMax
<1>3. TypedCycle'
  BY DEF TypeInv, Typed, TypedCycle, Places
<1>4. TypedCounts'
  BY DEF TypeInv, Typed, TypedCounts, posts
<1>5. TypedFlags'
  BY DEF TypeInv, Typed, TypedFlags, posts, interval
<1>. QED  BY <1>1, <1>2, <1>3, <1>4, <1>5 DEF TypeInv, Typed

LEMMA BudgetBound ==
  ASSUME TypeInv
  PROVE  Budget \in 0..AwakeMax
BY Constants DEF Budget, AwakeMax

LEMMA TickTyped ==
  ASSUME TypeInv, Tick
  PROVE  TypeInv'
<1>1. TypedTimers' /\ TimerRuns'
  BY TimersStay DEF Tick
<1>2. TypedClock'
  <2>1. now + 1 \in Int
    BY DEF TypeInv, Typed, TypedClock
  <2>2. now' \in 0..(Day - 1)
    BY <2>1, Constants, ModRange DEF Tick
  <2>3. AwakeMax \in Nat /\ awake \in 0..AwakeMax
    BY Constants DEF TypeInv, Typed, TypedClock, AwakeMax
  <2>4. awake' = awake \/ (awake < Budget /\ awake' = awake + 1)
    BY DEF Tick
  <2>5. awake' \in 0..AwakeMax
    BY <2>3, <2>4, BudgetBound
  <2>. QED  BY <2>2, <2>5 DEF Tick, TypeInv, Typed, TypedClock
<1>3. TypedCycle'
  BY DEF Tick, TypeInv, Typed, TypedCycle, Places
<1>4. TypedCounts'
  BY DEF Tick, TypeInv, Typed, TypedCounts, posts
<1>5. TypedFlags'
  <2>1. taken' \in BOOLEAN
    BY DEF Tick, TypeInv, Typed, TypedFlags, interval
  <2>2. excused' \in BOOLEAN
    BY DEF Tick, TypeInv, Typed, TypedFlags, interval
  <2>. QED  BY <2>1, <2>2 DEF Tick, TypeInv, Typed, TypedFlags, posts
<1>. QED  BY <1>1, <1>2, <1>3, <1>4, <1>5 DEF TypeInv, Typed

LEMMA TypeInvStep ==
  ASSUME TypeInv, [Next]_vars
  PROVE  TypeInv'
<1>1. CASE UNCHANGED vars
  BY <1>1
  DEF vars, timers, posts, interval, TypeInv, TimerRuns, Typed, TypedClock, TypedTimers,
      TypedFlags, TypedCycle, TypedCounts
<1>2. CASE Proceed
  BY <1>2, CheckTyped, SkipCycleTyped, CycleTyped, SyncClockTyped, RestTyped DEF Proceed
<1>3. CASE Tick
  BY <1>3, TickTyped
<1>4. CASE PressButton
  BY <1>4, RestTyped
<1>. QED  BY <1>1, <1>2, <1>3, <1>4 DEF Next

LEMMA AlwaysTyped == Spec => []TypeInv
BY TypeInvInit, TypeInvStep, PTL DEF Spec

\* The variables keep their types: the timer never passes below zero, the count of
\* readings stays a signed byte, and no cycle outlasts what it does.
THEOREM TypeCorrect == Spec => []TypeOK
<1>1. TypeInv => TypeOK
  <2>. SUFFICES ASSUME TypeInv PROVE TypeOK
    OBVIOUS
  <2>1. TypedClock /\ TypedTimers /\ TypedFlags /\ TypedCycle /\ TypedCounts
    BY DEF TypeInv, Typed
  <2>2. now \in 0..(Day - 1) /\ marked \in 0..(Day - 1)
    BY <2>1 DEF TypedClock
  <2>3. awake \in 0..(IF PassMax > TestMax THEN PassMax ELSE TestMax)
    BY <2>1 DEF TypedClock, AwakeMax
  <2>4. everyCnt \in -128..127 /\ offCnt \in 0..14
    BY <2>1 DEF TypedTimers
  <2>5. {forced, offAct, startTesting, sent, synced, taken, excused} \subseteq BOOLEAN
    BY <2>1 DEF TypedTimers, TypedFlags
  <2>6. {unposted, failed, presses} \subseteq Nat
    BY <2>1 DEF TypedCounts
  <2>7. /\ pc \in {"asleep", "woken", "reading", "posting", "online", "closing", "ending",
                   "testing", "dozing"}
        /\ cia \subseteq {"new", "post", "store"} /\ mode \in Modes
    BY <2>1 DEF TypedCycle, Places
  <2>. QED  BY <2>2, <2>3, <2>4, <2>5, <2>6, <2>7 DEF TypeOK
<1>. QED  BY <1>1, AlwaysTyped, PTL

--------------------------------------------------------------------------------
(* The readings that wait for a post.                                      *)

\* The last minute of an interval in which the timer can expire.  A press of the button
\* takes the minutes of testing from it, and the one of the sleep at its end.
LastPost ==
  IF SendOffset = 0 THEN 0 ELSE SendOffset + MaxPresses * (TestMax + 1)

\* The count does not wrap, and a timer that is started in time expires in its interval.
Timely == SendEveryX <= 127 /\ LastPost < Interval

InHand == pc \in {"reading", "posting"} /\ "post" \in cia

\* The reading that is due but not yet in RDELAY.TXT.
Pending == IF pc = "reading" /\ "new" \in cia THEN 1 ELSE 0

CountInRange == everyCnt \in 0..(SendEveryX - 1)

Pressed ==
  /\ presses <= MaxPresses
  /\ startTesting => presses >= 1
  /\ pc = "testing" => awake <= TestMax

OnlineToPost == pc = "online" => "post" \in cia

\* The minutes that the presses so far may take, and that they still will take.
Delay == presses * (TestMax + 1)

TestLeft ==
  (IF startTesting THEN TestMax + 1 ELSE 0)
  + (IF pc = "testing" THEN (TestMax + 1) - awake ELSE IF pc = "dozing" THEN 1 ELSE 0)

Woken == IF pc = "woken" THEN 1 ELSE 0

\* A timer that was started by the reading that filled the count, in a cycle that is not
\* the caller's, and has counted the minutes since but for those of testing.
Running ==
  /\ offAct /\ ~forced /\ mode = "reliably" /\ SendEveryX > 1
  /\ everyCnt = 0 /\ offCnt \in 1..SendOffset /\ "post" \notin cia
  /\ pc = "woken" => ~IntervalStarts
  /\ (now % Interval) + offCnt + TestLeft <= SendOffset + Delay + Woken

Few(n) == n + Pending <= failed * SendEveryX + everyCnt

Many(n) == n + Pending <= failed * SendEveryX + SendEveryX

\* Of n readings only those counted since the last post wait; or a post is on its way, in
\* hand or when the timer expires, which may take SendEveryX.
Waits(n) == Few(n) \/ (Many(n) /\ (InHand \/ Running))

ReadingsCounted == mode = "reliably" => Waits(unposted)

BestEffortStoresNothing == mode = "bestEffort" => unposted = 0 /\ ~forced

CycleInv == CountInRange /\ Pressed /\ OnlineToPost

BacklogInv == ReadingsCounted /\ BestEffortStoresNothing

LEMMA BacklogInit ==
  ASSUME Timely, Init
  PROVE  CycleInv /\ BacklogInv
<1>1. CountInRange
  BY Constants DEF Init, CountInRange
<1>2. Pressed /\ OnlineToPost /\ BestEffortStoresNothing
  <2>1. /\ presses = 0 /\ startTesting = FALSE /\ pc \in {"woken", "asleep"}
        /\ mode = "bestEffort" => ~forced
        /\ unposted = 0
    BY DEF Init
  <2>. QED  BY <2>1, Constants DEF Pressed, OnlineToPost, BestEffortStoresNothing
<1>3. ReadingsCounted
  <2>1. unposted = 0 /\ Pending = 0 /\ failed = 0 /\ everyCnt = 0
    BY DEF Init, Pending
  <2>2. 0 * SendEveryX = 0
    BY Constants
  <2>. QED  BY <2>1, <2>2 DEF ReadingsCounted, Waits, Few
<1>. QED  BY <1>1, <1>2, <1>3 DEF CycleInv, BacklogInv

\* What becomes of the count in a wake.
LEMMA CountStep ==
  ASSUME Timely, TypeInv, CountInRange, CountReading
  PROVE  \/ /\ CountIsFull /\ IntervalStarts /\ SendEveryX > 1
            /\ everyCnt' = 0 /\ everyCnt = SendEveryX - 1
         \/ /\ ~CountIsFull /\ IntervalStarts /\ SendEveryX > 1
            /\ everyCnt' = everyCnt + 1 /\ everyCnt' <= SendEveryX - 1
         \/ /\ ~CountIsFull /\ ~(IntervalStarts /\ SendEveryX > 1)
            /\ everyCnt' = everyCnt
<1>1. SendEveryX \in Nat /\ SendEveryX > 0 /\ SendEveryX <= 127
  BY Constants DEF Timely
<1>2. everyCnt \in Nat /\ everyCnt <= SendEveryX - 1
  BY <1>1 DEF CountInRange
<1>3. Counted = everyCnt + 1
  <2>1. everyCnt + 1 \in -128..127
    BY <1>1, <1>2
  <2>. QED  BY <2>1, Widths DEF Counted
<1>4. CASE IntervalStarts /\ SendEveryX > 1 /\ everyCnt + 1 >= SendEveryX
  <2>1. CountIsFull
    BY <1>3, <1>4 DEF CountIsFull
  <2>2. everyCnt' = 0
    BY <2>1 DEF CountReading
  <2>3. everyCnt = SendEveryX - 1
    BY <1>1, <1>2, <1>4
  <2>. QED  BY <1>4, <2>1, <2>2, <2>3
<1>5. CASE IntervalStarts /\ SendEveryX > 1 /\ ~(everyCnt + 1 >= SendEveryX)
  <2>1. ~CountIsFull
    BY <1>3, <1>5 DEF CountIsFull
  <2>2. everyCnt' = everyCnt + 1
    BY <1>3, <1>5, <2>1 DEF CountReading
  <2>3. everyCnt' <= SendEveryX - 1
    BY <1>1, <1>2, <1>5, <2>2
  <2>. QED  BY <1>5, <2>1, <2>2, <2>3
<1>6. CASE ~(IntervalStarts /\ SendEveryX > 1)
  BY <1>6 DEF CountIsFull, CountReading
<1>. QED  BY <1>4, <1>5, <1>6

\* Readings counted so far, in one more post that was due.
LEMMA OneMore ==
  ASSUME TypeInv
  PROVE  /\ failed * SendEveryX \in Nat
         /\ (failed + 1) * SendEveryX = failed * SendEveryX + SendEveryX
<1>1. failed \in Nat /\ SendEveryX \in Nat
  BY Constants DEF TypeInv, Typed, TypedCounts
<1>. QED  BY <1>1

\* What is known of the numbers of readings.
LEMMA Numbers ==
  ASSUME TypeInv, CycleInv
  PROVE  /\ failed * SendEveryX \in Nat
         /\ (failed + 1) * SendEveryX = failed * SendEveryX + SendEveryX
         /\ unposted \in Nat /\ failed \in Nat /\ Pending \in {0, 1}
         /\ SendEveryX \in Nat /\ SendEveryX > 0
         /\ everyCnt \in Nat /\ everyCnt <= SendEveryX - 1
<1>1. CountInRange
  BY DEF CycleInv
<1>2. SendEveryX \in Nat /\ SendEveryX > 0 /\ everyCnt \in Nat /\ everyCnt <= SendEveryX - 1
  BY <1>1, Constants DEF CountInRange
<1>3. unposted \in Nat /\ failed \in Nat
  BY DEF TypeInv, Typed, TypedCounts
<1>4. Pending \in {0, 1}
  BY DEF Pending
<1>. QED  BY <1>2, <1>3, <1>4, OneMore

\* And of the minutes.
LEMMA Minutes ==
  ASSUME TypeInv, CycleInv
  PROVE  /\ now \in 0..(Day - 1) /\ now \in Int /\ now % Interval \in 0..(Interval - 1)
         /\ awake \in Nat /\ presses \in Nat /\ TestMax \in Nat /\ Delay \in Nat
         /\ TestLeft \in Nat /\ Woken \in {0, 1}
         /\ (presses + 1) * (TestMax + 1) = Delay + TestMax + 1
         /\ SendOffset \in 0..14 /\ Interval \in Nat /\ Interval > 0
         /\ SendOffset # 0 => SendOffset + Delay <= LastPost
<1>1. /\ now \in 0..(Day - 1) /\ now \in Int /\ awake \in Nat /\ presses \in Nat
      /\ startTesting \in BOOLEAN
  BY Constants DEF TypeInv, Typed, TypedClock, TypedCounts, TypedFlags, AwakeMax
<1>2. /\ TestMax \in Nat /\ MaxPresses \in Nat /\ SendOffset \in 0..14
      /\ Interval \in Nat /\ Interval > 0
  BY Constants
<1>3. now % Interval \in 0..(Interval - 1)
  BY <1>1, <1>2, ModRange
<1>4. presses <= MaxPresses /\ (pc = "testing" => awake <= TestMax)
  BY DEF CycleInv, Pressed
<1>5. Delay \in Nat /\ (presses + 1) * (TestMax + 1) = Delay + TestMax + 1
  BY <1>1, <1>2 DEF Delay
<1>6. Delay <= MaxPresses * (TestMax + 1)
  <2>1. PICK d \in Nat : MaxPresses = presses + d
    <3>1. MaxPresses - presses \in Nat /\ MaxPresses = presses + (MaxPresses - presses)
      BY <1>1, <1>2, <1>4
    <3>. QED  BY <3>1
  <2>2. MaxPresses * (TestMax + 1) = presses * (TestMax + 1) + d * (TestMax + 1)
    BY <1>1, <1>2, <2>1
  <2>3. d * (TestMax + 1) \in Nat
    BY <1>2, <2>1
  <2>. QED  BY <1>5, <2>2, <2>3 DEF Delay
<1>7. SendOffset # 0 => SendOffset + Delay <= LastPost
  BY <1>2, <1>5, <1>6 DEF LastPost
<1>8. TestLeft \in Nat /\ Woken \in {0, 1}
  BY <1>1, <1>2, <1>4 DEF TestLeft, Woken
<1>. QED  BY <1>1, <1>2, <1>3, <1>5, <1>7, <1>8

--------------------------------------------------------------------------------
(* The timer.                                                              *)

\* What of the timer's state the steps of a cycle leave alone.
LEMMA CycleKeepsTimer ==
  ASSUME TypeInv, CycleInv, Running,
         UNCHANGED <<now, timers, mode, presses>>, forced' => forced,
         startTesting' => startTesting, pc \notin {"woken", "testing", "dozing"},
         pc' \in {"posting", "online", "closing", "ending", "asleep"},
         "post" \in cia' => "post" \in cia
  PROVE  Running'
<1>1. offAct' = offAct /\ offCnt' = offCnt /\ everyCnt' = everyCnt
  BY DEF timers
<1>2. (now % Interval) + offCnt + TestLeft <= SendOffset + Delay + Woken
  BY DEF Running
<1>3. Woken = 0 /\ Woken' = 0 /\ Delay' = Delay
  BY DEF Woken, Delay
<1>4. TestLeft' \in Nat /\ TestLeft' <= TestLeft
  BY Minutes DEF TestLeft
<1>5. offCnt \in Int
  BY DEF Running
<1>6. (now' % Interval) + offCnt' + TestLeft' <= SendOffset + Delay' + Woken'
  BY <1>1, <1>2, <1>3, <1>4, <1>5, Minutes
<1>. QED  BY <1>1, <1>6 DEF Running

\* Testing takes from the timer what was set aside for it.
LEMMA TestingKeepsTimer ==
  ASSUME TypeInv, CycleInv, Running, PressButton \/ StartTesting \/ EndTesting
  PROVE  Running'
<1>1. /\ offAct' = offAct /\ offCnt' = offCnt /\ everyCnt' = everyCnt
      /\ now' = now /\ (forced' => forced) /\ mode' = mode /\ cia' = cia
  BY DEF PressButton, StartTesting, EndTesting, timers
<1>2. /\ (now % Interval) + offCnt + TestLeft <= SendOffset + Delay + Woken
      /\ offCnt \in Int /\ Running
  BY DEF Running
<1>3. pc' = "woken" => ~IntervalStarts'
  BY <1>1 DEF Running, PressButton, StartTesting, EndTesting, IntervalStarts
\* What has to be shown of the minutes.
<1>4. ASSUME /\ TestLeft' \in Nat /\ Delay' \in Nat /\ Woken' = Woken
             /\ TestLeft' + Delay <= TestLeft + Delay'
      PROVE  Running'
  <2>1. (now' % Interval) + offCnt' + TestLeft' <= SendOffset + Delay' + Woken'
    BY <1>1, <1>2, <1>4, Minutes
  <2>. QED  BY <1>1, <1>2, <1>3, <2>1 DEF Running
<1>5. CASE PressButton
  <2>1. pc' = pc /\ awake' = awake /\ startTesting' = TRUE /\ presses' = presses + 1
    BY <1>5 DEF PressButton
  <2>2. Delay' = Delay + TestMax + 1 /\ Woken' = Woken
    BY <2>1, Minutes DEF Delay, Woken
  <2>3. TestLeft' \in Nat /\ TestLeft' <= TestLeft + TestMax + 1
    BY <1>5, <2>1, Minutes DEF TestLeft, PressButton
  <2>. QED  BY <1>4, <2>2, <2>3, Minutes
<1>6. CASE StartTesting
  <2>1. /\ pc = "ending" /\ pc' = "testing" /\ awake' = 0 /\ presses' = presses
        /\ startTesting /\ ~startTesting'
    BY <1>6 DEF StartTesting
  <2>2. Delay' = Delay /\ Woken' = Woken
    BY <2>1 DEF Delay, Woken
  <2>3. TestLeft' = TestMax + 1 /\ TestLeft = TestMax + 1
    BY <2>1, Minutes DEF TestLeft
  <2>. QED  BY <1>4, <2>2, <2>3, Minutes
<1>7. CASE EndTesting
  <2>1. pc = "testing" /\ pc' = "dozing" /\ presses' = presses /\ startTesting' = startTesting
    BY <1>7 DEF EndTesting
  <2>2. Delay' = Delay /\ Woken' = Woken
    BY <2>1 DEF Delay, Woken
  <2>3. awake <= TestMax
    BY <2>1 DEF CycleInv, Pressed
  <2>4. TestLeft' \in Nat /\ TestLeft' <= TestLeft
    BY <2>1, <2>3, Minutes DEF TestLeft
  <2>. QED  BY <1>4, <2>2, <2>4, Minutes
<1>. QED  BY <1>5, <1>6, <1>7

\* A minute that wakes nobody has been set aside.
LEMMA TickKeepsTimer ==
  ASSUME Timely, TypeInv, CycleInv, Running, Tick
  PROVE  Running'
<1>1. /\ offAct' = offAct /\ offCnt' = offCnt /\ everyCnt' = everyCnt /\ presses' = presses
      /\ forced' = forced /\ mode' = mode /\ cia' = cia /\ startTesting' = startTesting
      /\ now' = (now + 1) % Day
  BY DEF Tick, timers, posts
<1>2. /\ (now % Interval) + offCnt + TestLeft <= SendOffset + Delay + Woken
      /\ offCnt \in 1..SendOffset
  BY DEF Running
<1>3. Delay' = Delay
  BY <1>1 DEF Delay
<1>4. \/ pc = "asleep" /\ pc' = "woken"
      \/ pc = "dozing" /\ pc' = "asleep"
      \/ pc = "testing" /\ pc' = pc /\ awake' = awake + 1 /\ awake < TestMax
  <2>1. CASE awake < Budget /\ awake' = awake + 1 /\ pc' = pc
    <3>1. Budget # 0
      BY <2>1, Minutes
    <3>2. "post" \notin cia
      BY DEF Running
    <3>3. pc = "testing" /\ Budget = TestMax
      BY <3>1, <3>2 DEF Budget
    <3>. QED  BY <2>1, <3>3
  <2>. QED  BY <2>1 DEF Tick
<1>5. Woken = 0
  BY <1>4 DEF Woken
<1>6. TestLeft' \in Nat /\ TestLeft' + 1 <= TestLeft + Woken'
  <2>. DEFINE s == IF startTesting THEN TestMax + 1 ELSE 0
  <2>0. s \in Nat /\ (IF startTesting' THEN TestMax + 1 ELSE 0) = s
    BY <1>1, Minutes
  <2>. HIDE DEF s
  <2>1. CASE pc = "asleep" /\ pc' = "woken"
    <3>1. TestLeft = s /\ TestLeft' = s /\ Woken' = 1
      BY <2>0, <2>1 DEF TestLeft, Woken, s
    <3>. QED  BY <2>0, <3>1
  <2>2. CASE pc = "dozing" /\ pc' = "asleep"
    <3>1. TestLeft = s + 1 /\ TestLeft' = s /\ Woken' = 0
      BY <2>0, <2>2 DEF TestLeft, Woken, s
    <3>. QED  BY <2>0, <3>1
  <2>3. CASE pc = "testing" /\ pc' = pc /\ awake' = awake + 1 /\ awake < TestMax
    <3>1. /\ TestLeft = s + ((TestMax + 1) - awake) /\ Woken' = 0
          /\ TestLeft' = s + ((TestMax + 1) - (awake + 1))
      BY <2>0, <2>3 DEF TestLeft, Woken, s
    <3>. QED  BY <2>0, <2>3, <3>1, Minutes
  <2>. QED  BY <1>4, <2>1, <2>2, <2>3
<1>7. (now % Interval) + 1 < Interval
  <2>1. SendOffset + Delay < Interval
    BY <1>2, Minutes, Constants DEF Timely, LastPost
  <2>. QED  BY <1>2, <1>5, <2>1, Minutes
<1>8. now' % Interval = (now % Interval) + 1
  BY <1>1, <1>7, Minutes, NextMinute
<1>9. Woken' \in {0, 1}
  BY DEF Woken
<1>10. (now' % Interval) + offCnt' + TestLeft' <= SendOffset + Delay' + Woken'
  BY <1>1, <1>2, <1>3, <1>5, <1>6, <1>8, <1>9, Minutes
<1>11. ~IntervalStarts'
  BY <1>8, Minutes DEF IntervalStarts
<1>. QED  BY <1>1, <1>10, <1>11 DEF Running

\* A wake with the timer running is not the start of an interval.
LEMMA TimerWake ==
  ASSUME TypeInv, CycleInv, Running, pc = "woken"
  PROVE  /\ ~IntervalStarts /\ ~CountIsFull /\ (PostDue <=> TimerExpires)
         /\ (now % Interval) + offCnt <= SendOffset + Delay + 1
         /\ UInt8(offCnt - 1) = offCnt - 1 /\ (TimerExpires <=> offCnt = 1)
<1>1. /\ ~IntervalStarts /\ offAct /\ offCnt \in 1..SendOffset
      /\ (now % Interval) + offCnt + TestLeft <= SendOffset + Delay + Woken
  BY DEF Running
<1>2. (now % Interval) + offCnt <= SendOffset + Delay + 1
  BY <1>1, Minutes
<1>3. UInt8(offCnt - 1) = offCnt - 1
  BY <1>1, Minutes, Widths
<1>. QED  BY <1>1, <1>2, <1>3, Minutes DEF IntervalStarts, CountIsFull, PostDue, TimerExpires

\* It counts on, or expires and a post is due.
LEMMA CheckKeepsTimer ==
  ASSUME Timely, TypeInv, CycleInv, Running, NEW level \in BatteryLevels,
         CheckInterval(level)
  PROVE  /\ everyCnt' = 0 /\ Pending' = 0
         /\ PostDue => ~offAct'
         /\ ~PostDue => Running'
<1>1. /\ ~IntervalStarts /\ ~CountIsFull /\ (PostDue <=> TimerExpires)
      /\ UInt8(offCnt - 1) = offCnt - 1 /\ (TimerExpires <=> offCnt = 1)
  BY TimerWake DEF CheckInterval
<1>2. /\ offAct /\ ~forced /\ mode = "reliably" /\ SendEveryX > 1 /\ everyCnt = 0
      /\ offCnt \in 1..SendOffset
      /\ (now % Interval) + offCnt + TestLeft <= SendOffset + Delay + Woken
  BY DEF Running
<1>3. /\ pc = "woken" /\ CountReading /\ CountDown /\ now' = now /\ forced' = forced
      /\ startTesting' = startTesting /\ presses' = presses /\ mode' = mode
  BY DEF CheckInterval
<1>4. /\ Decided(forced \/ PostDue) /\ ("new" \in cia' => forced \/ IntervalStarts)
  BY CheckIntervalForm
<1>5. pc' \in {"reading", "ending"} /\ "new" \notin cia'
  BY <1>1, <1>2, <1>4 DEF Decided
<1>6. everyCnt' = 0 /\ Pending' = 0
  BY <1>1, <1>2, <1>3, <1>5 DEF CountReading, Pending
<1>7. offCnt' = offCnt - 1 /\ (offAct' <=> ~TimerExpires)
  BY <1>1, <1>2, <1>3 DEF CountDown
<1>8. ASSUME ~PostDue PROVE Running'
  <2>1. "post" \notin cia'
    BY <1>2, <1>4, <1>8 DEF Decided
  <2>2. offCnt' \in 1..SendOffset
    BY <1>1, <1>2, <1>7, <1>8, Minutes
  <2>3. Woken = 1 /\ Woken' = 0 /\ Delay' = Delay /\ TestLeft' = TestLeft
    BY <1>3, <1>5 DEF Woken, Delay, TestLeft
  <2>4. (now' % Interval) + offCnt' + TestLeft' <= SendOffset + Delay' + Woken'
    BY <1>2, <1>3, <1>7, <2>3, Minutes
  <2>5. offAct' /\ pc' # "woken" /\ ~forced' /\ mode' = "reliably"
    BY <1>1, <1>2, <1>3, <1>5, <1>7, <1>8
  <2>. QED  BY <1>2, <1>6, <2>1, <2>2, <2>4, <2>5 DEF Running
<1>. QED  BY <1>1, <1>6, <1>7, <1>8

\* The reading that fills the count starts it.
LEMMA CheckStartsTimer ==
  ASSUME Timely, TypeInv, CycleInv, NEW level \in BatteryLevels, CheckInterval(level),
         CountIsFull, SendOffset # 0, ~forced, ~PostDue
  PROVE  Running'
<1>1. /\ pc = "woken" /\ mode = "reliably" /\ CountReading /\ CountDown /\ now' = now
      /\ forced' = forced /\ startTesting' = startTesting /\ presses' = presses
      /\ mode' = mode
  BY DEF CheckInterval
<1>2. Decided(forced \/ PostDue)
  BY CheckIntervalForm
<1>3. pc' \in {"reading", "ending"} /\ "post" \notin cia'
  BY <1>2 DEF Decided
<1>4. IntervalStarts /\ SendEveryX > 1 /\ everyCnt' = 0
  BY <1>1 DEF CountIsFull, CountReading
<1>5. offAct' = TRUE /\ offCnt' = SendOffset
  BY <1>1 DEF CountDown, Offset
<1>6. now' % Interval = 0 /\ Delay' = Delay /\ Woken' = 0
  BY <1>1, <1>3, <1>4 DEF IntervalStarts, Delay, Woken
<1>7. TestLeft' \in Nat /\ TestLeft' <= Delay
  <2>1. CASE startTesting
    <3>1. presses >= 1
      BY <2>1 DEF CycleInv, Pressed
    <3>2. Delay = (presses - 1) * (TestMax + 1) + (TestMax + 1)
      BY Minutes DEF Delay
    <3>3. (presses - 1) * (TestMax + 1) \in Nat
      BY <3>1, Minutes
    <3>4. TestLeft' = TestMax + 1
      BY <1>1, <1>3, <2>1, Minutes DEF TestLeft
    <3>. QED  BY <3>2, <3>3, <3>4, Minutes
  <2>2. CASE ~startTesting
    <3>1. TestLeft' = 0
      BY <1>1, <1>3, <2>2 DEF TestLeft
    <3>. QED  BY <3>1, Minutes
  <2>. QED  BY <2>1, <2>2
<1>8. (now' % Interval) + offCnt' + TestLeft' <= SendOffset + Delay' + Woken'
  BY <1>5, <1>6, <1>7, Minutes
<1>9. offCnt' \in 1..SendOffset /\ pc' # "woken"
  BY <1>3, <1>5, Minutes
<1>. QED  BY <1>1, <1>3, <1>4, <1>5, <1>8, <1>9 DEF Running

--------------------------------------------------------------------------------
(* The steps.                                                              *)

\* The parts of the invariant that no step of the program disturbs.
LEMMA Undisturbed ==
  ASSUME Timely, TypeInv, CycleInv, [Next]_vars
  PROVE  CountInRange' /\ Pressed' /\ OnlineToPost'
<1>1. CountInRange /\ Pressed /\ OnlineToPost
  BY DEF CycleInv
<1>2. CountInRange'
  <2>1. CASE CountReading
    <3>1. SendEveryX \in Nat /\ everyCnt' \in Nat /\ everyCnt' <= SendEveryX - 1
      BY <1>1, <2>1, CountStep, Numbers
    <3>. QED  BY <3>1 DEF CountInRange
  <2>2. CASE everyCnt' = everyCnt
    BY <1>1, <2>2 DEF CountInRange
  <2>3. CountReading \/ everyCnt' = everyCnt
    BY DEF Next, Proceed, vars, timers, CheckInterval, CheckBestEffort, SkipCycle,
           TakeReading, PostOnline, PostFails, StoreReadings, PostNothing, SyncClock,
           Disconnect, EndCycle, StartTesting, EndTesting, Sleep, Tick, PressButton
  <2>. QED  BY <2>1, <2>2, <2>3
<1>3. Pressed'
  <2>1. CASE PressButton
    <3>1. presses' = presses + 1 /\ presses < MaxPresses /\ pc' = pc /\ pc # "testing"
      BY <2>1 DEF PressButton
    <3>. QED  BY <3>1, Minutes, Constants DEF Pressed
  <2>2. CASE Tick
    <3>1. /\ presses' = presses /\ startTesting' = startTesting
          /\ pc' = "testing" => pc = "testing" /\ awake < Budget /\ awake' = awake + 1
      BY <2>2 DEF Tick
    <3>2. pc = "testing" => Budget = TestMax
      BY DEF Budget
    <3>. QED  BY <1>1, <3>1, <3>2, Minutes DEF Pressed
  <2>3. CASE StartTesting
    BY <1>1, <2>3, Minutes DEF StartTesting, Pressed
  <2>4. /\ presses' = presses /\ (startTesting' => startTesting)
        /\ pc' = "testing" => pc = "testing" /\ awake' = awake
        => Pressed'
    BY <1>1 DEF Pressed
  <2>5. CASE UNCHANGED vars
    BY <2>4, <2>5 DEF vars
  <2>6. CASE Proceed /\ ~StartTesting
    <3>1. /\ presses' = presses /\ (startTesting' => startTesting)
          /\ pc' # "testing"
      <4>1. ASSUME NEW level \in BatteryLevels,
                   CheckInterval(level) \/ CheckBestEffort(level)
            PROVE  presses' = presses /\ startTesting' = startTesting /\ pc' # "testing"
        BY <4>1 DEF CheckInterval, CheckBestEffort
      <4>2. CASE SkipCycle \/ TakeReading \/ PostOnline \/ PostFails \/ StoreReadings
                 \/ PostNothing \/ Disconnect \/ EndTesting \/ Sleep
        BY <4>2 DEF SkipCycle, TakeReading, PostOnline, PostFails, StoreReadings, PostNothing,
                    Disconnect, EndTesting, Sleep
      <4>3. CASE EndCycle
        BY <4>3 DEF EndCycle
      <4>4. ASSUME NEW drift \in -MaxDrift..MaxDrift, SyncClock(drift)
            PROVE  presses' = presses /\ startTesting' = startTesting /\ pc' # "testing"
        BY <4>4 DEF SyncClock
      <4>. QED  BY <2>6, <4>1, <4>2, <4>3, <4>4 DEF Proceed
    <3>. QED  BY <2>4, <3>1
  <2>. QED  BY <2>1, <2>2, <2>3, <2>5, <2>6 DEF Next
<1>4. OnlineToPost'
  <2>1. CASE UNCHANGED vars
    BY <1>1, <2>1 DEF vars, OnlineToPost
  <2>2. CASE Tick
    BY <1>1, <2>2 DEF Tick, OnlineToPost
  <2>3. CASE PressButton
    BY <1>1, <2>3 DEF PressButton, OnlineToPost
  <2>4. CASE Proceed
    BY <1>1, <2>4
    DEF Proceed, CheckInterval, CheckBestEffort, SkipCycle, TakeReading, PostOnline,
        PostFails, StoreReadings, PostNothing, SyncClock, Disconnect, EndCycle,
        StartTesting, EndTesting, Sleep, OnlineToPost
  <2>. QED  BY <2>1, <2>2, <2>3, <2>4 DEF Next
<1>. QED  BY <1>2, <1>3, <1>4

\* The application does not change its loop, and the best-effort loop stores nothing.
LEMMA BestEffortStep ==
  ASSUME TypeInv, CycleInv, BacklogInv, [Next]_vars
  PROVE  mode' = mode /\ BestEffortStoresNothing'
<1>1. BestEffortStoresNothing
  BY DEF BacklogInv
<1>2. mode' = mode /\ (forced' => forced)
  <2>1. CASE Sleep \/ StartTesting
    BY <2>1 DEF Sleep, StartTesting
  <2>2. mode' = mode /\ (forced' = forced \/ Sleep \/ StartTesting)
    BY DEF Next, Proceed, vars, CheckInterval, CheckBestEffort, SkipCycle, TakeReading,
           PostOnline, PostFails, StoreReadings, PostNothing, SyncClock, Disconnect,
           EndCycle, StartTesting, EndTesting, Sleep, Tick, PressButton
  <2>. QED  BY <2>1, <2>2
<1>3. mode = "bestEffort" => unposted' \in {0, unposted}
  BY DEF Next, Proceed, vars, posts, CheckInterval, CheckBestEffort, SkipCycle, TakeReading,
         PostOnline, PostFails, StoreReadings, PostNothing, SyncClock, Disconnect,
         EndCycle, StartTesting, EndTesting, Sleep, Tick, PressButton
<1>. QED  BY <1>1, <1>2, <1>3 DEF BestEffortStoresNothing

LEMMA FewIsMany ==
  ASSUME TypeInv, CycleInv, NEW n \in Int, Waits(n)
  PROVE  Many(n)
BY Numbers DEF Waits, Few, Many

LEMMA CheckWaits ==
  ASSUME Timely, TypeInv, CycleInv, NEW n \in Int, Waits(n), NEW level \in BatteryLevels, 
         CheckInterval(level)
  PROVE  Waits(n)'
<1>1. pc = "woken" /\ mode = "reliably" /\ CountReading /\ CountDown
  BY DEF CheckInterval
<1>2. Decided(forced \/ PostDue) /\ ("new" \in cia' => forced \/ IntervalStarts)
  BY CheckIntervalForm
<1>3. CountInRange
  BY DEF CycleInv
<1>4. ~InHand /\ Pending = 0
  BY <1>1 DEF InHand, Pending
<1>. DEFINE F == failed * SendEveryX
<1>5. /\ F \in Nat /\ (failed + 1) * SendEveryX = F + SendEveryX
      /\ n \in Int /\ SendEveryX \in Nat /\ SendEveryX > 0
      /\ everyCnt \in Nat /\ everyCnt <= SendEveryX - 1
  BY Numbers
<1>6. everyCnt' \in Nat
  BY <1>1, <1>3, <1>5, CountStep
<1>7. Pending' \in {0, 1} /\ (Pending' = 1 => forced \/ IntervalStarts)
  BY <1>2 DEF Pending
<1>8. \/ InHand' /\ failed' * SendEveryX = F /\ (forced \/ PostDue)
      \/ failed' * SendEveryX = F + SendEveryX /\ (forced \/ PostDue)
      \/ failed' * SendEveryX = F /\ ~forced /\ ~PostDue
  BY <1>2, <1>5 DEF Decided, InHand
<1>. HIDE DEF F
\* What has to be shown of the readings, without the definitions.
<1>9. ASSUME \/ n + Pending' <= failed' * SendEveryX + everyCnt'
             \/ /\ n + Pending' <= failed' * SendEveryX + SendEveryX
                /\ InHand' \/ Running'
      PROVE  Waits(n)'
  BY <1>9 DEF Waits, Few, Many
\* The timer runs.
<1>10. CASE Running /\ n <= F + SendEveryX
  <2>1. /\ everyCnt' = 0 /\ Pending' = 0 /\ ~forced
        /\ ~PostDue => Running'
    BY <1>10, CheckKeepsTimer DEF Running
  <2>2. CASE InHand' /\ failed' * SendEveryX = F
    BY <1>5, <1>9, <1>10, <2>1, <2>2
  <2>3. CASE failed' * SendEveryX = F + SendEveryX
    BY <1>5, <1>9, <1>10, <2>1, <2>3
  <2>4. CASE failed' * SendEveryX = F /\ ~PostDue
    BY <1>5, <1>9, <1>10, <2>1, <2>4
  <2>. QED  BY <1>8, <2>2, <2>3, <2>4
\* Only readings that are counted wait.
<1>11. CASE n <= F + everyCnt
  <2>1. CASE InHand' /\ failed' * SendEveryX = F
    <3>1. n + Pending' <= failed' * SendEveryX + SendEveryX
      BY <1>5, <1>7, <1>11, <2>1
    <3>. QED  BY <1>9, <2>1, <3>1
  <2>2. CASE failed' * SendEveryX = F + SendEveryX
    <3>1. n + Pending' <= failed' * SendEveryX + everyCnt'
      BY <1>5, <1>6, <1>7, <1>11, <2>2
    <3>. QED  BY <1>9, <3>1
  <2>3. CASE failed' * SendEveryX = F /\ ~forced /\ ~PostDue
    <3>1. Offset = SendOffset
      BY <1>1 DEF Offset
    <3>2. CASE CountIsFull
      <4>1. SendOffset # 0
        BY <2>3, <3>1, <3>2 DEF PostDue
      <4>2. Running'
        BY <2>3, <3>2, <4>1, CheckStartsTimer
      <4>3. n + Pending' <= failed' * SendEveryX + SendEveryX
        BY <1>5, <1>7, <1>11, <2>3
      <4>. QED  BY <1>9, <4>2, <4>3
    <3>3. CASE ~CountIsFull
      <4>1. IntervalStarts => SendEveryX > 1
        <5>1. IntervalStarts => ~(SendEveryX <= 1)
          BY <2>3 DEF PostDue
        <5>. QED  BY <1>5, <5>1
      <4>2. everyCnt' = IF IntervalStarts THEN everyCnt + 1 ELSE everyCnt
        BY <1>1, <1>3, <3>3, <4>1, CountStep
      <4>3. everyCnt' >= everyCnt + Pending'
        <5>0. Pending' = 0 \/ Pending' = 1
          BY <1>7
        <5>1. CASE IntervalStarts
          <6>1. everyCnt' = everyCnt + 1
            BY <4>2, <5>1
          <6>. QED  BY <1>5, <5>0, <6>1
        <5>2. CASE ~IntervalStarts
          <6>1. Pending' = 0
            BY <1>7, <2>3, <5>2
          <6>. QED  BY <1>5, <4>2, <5>2, <6>1
        <5>. QED  BY <5>1, <5>2
      <4>4. n + Pending' <= failed' * SendEveryX + everyCnt'
        <5>1. Pending' = 0 \/ Pending' = 1
          BY <1>7
        <5>2. failed' * SendEveryX = F
          BY <2>3
        <5>. QED  BY <1>5, <1>6, <1>11, <4>3, <5>1, <5>2
      <4>. QED  BY <1>9, <4>4
    <3>. QED  BY <3>2, <3>3
  <2>. QED  BY <1>8, <2>1, <2>2, <2>3
<1>12. \/ n <= F + everyCnt
       \/ Running /\ n <= F + SendEveryX
  BY <1>1, <1>3, <1>4, <1>5 DEF Waits, Few, Many, F
<1>. QED  BY <1>10, <1>11, <1>12

LEMMA ReadingWaits ==
  ASSUME TypeInv, CycleInv, TakeReading,
         NEW n \in Int, Waits(n), NEW m \in Int, m <= n + Pending
  PROVE  Waits(m)'
<1>1. /\ pc = "reading" /\ pc' = "posting" /\ cia' = cia /\ failed' = failed
      /\ startTesting' = startTesting /\ mode' = mode /\ forced' = forced
      /\ now' = now /\ presses' = presses /\ UNCHANGED timers
  BY DEF TakeReading
<1>2. everyCnt' = everyCnt /\ InHand' = InHand /\ Pending' = 0
  BY <1>1 DEF timers, InHand, Pending
<1>3. Running => Running'
  BY <1>1, CycleKeepsTimer
<1>4. (Few(n) => Few(m)') /\ (Many(n) => Many(m)')
  BY <1>1, <1>2, Numbers DEF Few, Many
<1>. QED  BY <1>2, <1>3, <1>4 DEF Waits

\* A pass empties RDELAY.TXT, on line or into the queue files.
LEMMA EmptiedStep ==
  ASSUME TypeInv, CycleInv, PostOnline \/ StoreReadings
  PROVE  Waits(unposted)'
<1>1. /\ pc' \in {"online", "closing"} /\ unposted' = 0 /\ failed' \in {0, failed}
      /\ everyCnt' = everyCnt
  BY DEF PostOnline, StoreReadings, timers
<1>2. Pending' = 0
  BY <1>1 DEF Pending
<1>3. failed' * SendEveryX \in Nat
  <2>1. failed' = 0 \/ failed' = failed
    BY <1>1
  <2>2. 0 * SendEveryX = 0 /\ failed * SendEveryX \in Nat
    BY Constants, Numbers
  <2>. QED  BY <2>1, <2>2
<1>4. Few(unposted)'
  BY <1>1, <1>2, <1>3, Numbers DEF Few
<1>. QED  BY <1>4 DEF Waits

LEMMA FailureWaits ==
  ASSUME TypeInv, CycleInv, PostFails, NEW n \in Int, Waits(n)
  PROVE  Waits(n)'
<1>1. pc = "posting" /\ pc' = "closing" /\ failed' = failed + 1 /\ everyCnt' = everyCnt
  BY DEF PostFails, timers
<1>2. Pending' = 0 /\ Pending = 0
  BY <1>1 DEF Pending
<1>3. Many(n)
  BY FewIsMany
<1>4. failed' * SendEveryX = failed * SendEveryX + SendEveryX
  BY <1>1, Numbers
<1>5. Few(n)'
  BY <1>1, <1>2, <1>3, <1>4, Numbers DEF Few, Many
<1>. QED  BY <1>5 DEF Waits

\* No step but the one that looks at the timer takes it out of its interval.
LEMMA QuietKeepsTimer ==
  ASSUME Timely, TypeInv, CycleInv, Running,
         \/ PostNothing \/ Disconnect \/ EndCycle \/ Sleep
         \/ PressButton \/ StartTesting \/ EndTesting \/ Tick
         \/ \E drift \in -MaxDrift..MaxDrift : SyncClock(drift)
  PROVE  Running'
<1>1. CASE Tick
  BY <1>1, TickKeepsTimer
<1>2. CASE PressButton \/ StartTesting \/ EndTesting
  BY <1>2, TestingKeepsTimer
<1>3. CASE PostNothing \/ Disconnect \/ EndCycle \/ Sleep
  <2>1. /\ UNCHANGED <<now, timers, mode, presses>>
        /\ pc \notin {"woken", "testing", "dozing"}
        /\ pc' \in {"posting", "online", "closing", "ending", "asleep"}
        /\ ("post" \in cia' => "post" \in cia)
    BY <1>3 DEF PostNothing, Disconnect, EndCycle, Sleep
  <2>2. forced' => forced
    <3>1. forced' = forced \/ forced' = FALSE
      BY <1>3 DEF PostNothing, Disconnect, EndCycle, Sleep
    <3>. QED  BY <3>1
  <2>3. startTesting' => startTesting
    <3>1. CASE EndCycle
      BY <3>1 DEF EndCycle
    <3>2. CASE PostNothing \/ Disconnect \/ Sleep
      BY <3>2 DEF PostNothing, Disconnect, Sleep
    <3>. QED  BY <1>3, <3>1, <3>2
  <2>. QED  BY <2>1, <2>2, <2>3, CycleKeepsTimer
<1>4. CASE \E drift \in -MaxDrift..MaxDrift : SyncClock(drift)
  BY <1>4 DEF SyncClock, Running, CycleInv, OnlineToPost
<1>. QED  BY <1>1, <1>2, <1>3, <1>4

\* The other steps: what waits, waits on, and the timer keeps to its interval.
LEMMA QuietWaits ==
  ASSUME Timely, TypeInv, CycleInv, NEW n \in Int, Waits(n),
         \/ PostNothing \/ Disconnect \/ EndCycle \/ Sleep
         \/ PressButton \/ StartTesting \/ EndTesting \/ Tick
         \/ \E drift \in -MaxDrift..MaxDrift : SyncClock(drift)
  PROVE  Waits(n)'
<1>1. failed' = failed /\ everyCnt' = everyCnt
  BY DEF PostNothing, Disconnect, EndCycle, Sleep, PressButton, StartTesting, EndTesting,
         Tick, SyncClock, timers, posts
<1>2. Pending' = Pending /\ (InHand => InHand')
  <2>1. CASE Tick
    BY <2>1 DEF Tick, Pending, InHand
  <2>2. CASE PressButton
    BY <2>2 DEF PressButton, Pending, InHand
  <2>3. CASE PostNothing \/ Disconnect \/ EndCycle \/ Sleep \/ StartTesting \/ EndTesting
    BY <2>3 DEF PostNothing, Disconnect, EndCycle, Sleep, StartTesting, EndTesting,
                Pending, InHand
  <2>4. CASE \E drift \in -MaxDrift..MaxDrift : SyncClock(drift)
    BY <2>4 DEF SyncClock, Pending, InHand
  <2>. QED  BY <2>1, <2>2, <2>3, <2>4
<1>3. Running => Running'
  BY QuietKeepsTimer
<1>4. (Few(n) => Few(n)') /\ (Many(n) => Many(n)')
  BY <1>1, <1>2 DEF Few, Many
<1>. QED  BY <1>2, <1>3, <1>4 DEF Waits

\* The step of readings that are left alone, for the history unposted.
LEMMA BacklogStep ==
  ASSUME Timely, TypeInv, CycleInv, BacklogInv, [Next]_vars
  PROVE  CycleInv' /\ BacklogInv'
<1>1. CycleInv' /\ BestEffortStoresNothing' /\ mode' = mode
  BY Undisturbed, BestEffortStep DEF CycleInv
<1>2. PICK n \in Int : n = unposted
  BY Numbers
<1>3. mode = "reliably" => Waits(n)
  BY <1>2 DEF BacklogInv, ReadingsCounted
<1>4. ASSUME unposted' = n, mode = "reliably" => Waits(n)'
      PROVE  ReadingsCounted'
  BY <1>1, <1>4 DEF ReadingsCounted, Waits, Few, Many
<1>5. ReadingsCounted'
  <2>1. CASE UNCHANGED vars
    BY <2>1
    DEF vars, timers, posts, BacklogInv, ReadingsCounted, Waits, Few, Many, InHand, Pending,
        Running, TestLeft, Delay, Woken, IntervalStarts
  <2>2. ASSUME NEW level \in BatteryLevels, CheckInterval(level) PROVE ReadingsCounted'
    <3>1. unposted' = n
      BY <1>2, <2>2 DEF CheckInterval
    <3>. QED  BY <1>3, <1>4, <2>2, <3>1, CheckWaits
  <2>3. CASE SkipCycle \/ \E level \in BatteryLevels : CheckBestEffort(level)
    <3>1. mode = "bestEffort"
      BY <2>3 DEF SkipCycle, CheckBestEffort
    <3>. QED  BY <1>1, <3>1 DEF ReadingsCounted
  <2>4. CASE TakeReading
    <3>1. unposted' \in Int /\ unposted' <= unposted + Pending
      <4>1. CASE unposted' = unposted
        BY <4>1, Numbers
      <4>2. CASE unposted' # unposted
        <5>1. pc = "reading" /\ "new" \in cia /\ unposted' = unposted + 1
          BY <2>4, <4>2 DEF TakeReading
        <5>2. Pending = 1
          BY <5>1 DEF Pending
        <5>. QED  BY <5>1, <5>2, Numbers
      <4>. QED  BY <4>1, <4>2
    <3>2. PICK m \in Int : m = unposted'
      BY <3>1
    <3>3. m <= n + Pending
      BY <1>2, <3>1, <3>2
    <3>4. mode = "reliably" => Waits(m)'
      BY <1>3, <2>4, <3>3, ReadingWaits
    <3>. QED  BY <1>1, <3>2, <3>4 DEF ReadingsCounted, Waits, Few, Many
  <2>5. CASE PostOnline \/ StoreReadings
    BY <2>5, EmptiedStep DEF ReadingsCounted
  <2>6. CASE PostFails
    <3>1. unposted' = n
      BY <1>2, <2>6 DEF PostFails
    <3>. QED  BY <1>3, <1>4, <2>6, <3>1, FailureWaits
  <2>7. CASE \/ PostNothing \/ Disconnect \/ EndCycle \/ Sleep
             \/ PressButton \/ StartTesting \/ EndTesting \/ Tick
             \/ \E drift \in -MaxDrift..MaxDrift : SyncClock(drift)
    <3>1. unposted' = n
      BY <1>2, <2>7
      DEF PostNothing, Disconnect, EndCycle, Sleep, PressButton, StartTesting, EndTesting,
          Tick, SyncClock, posts
    <3>. QED  BY <1>3, <1>4, <2>7, <3>1, QuietWaits
  <2>. QED  BY <2>1, <2>2, <2>3, <2>4, <2>5, <2>6, <2>7 DEF Next, Proceed
<1>. QED  BY <1>1, <1>5 DEF BacklogInv

\* RDELAY.TXT holds at most SendEveryX readings for each post that was due and not made,
\* and for the one about to be made: with any battery, any failures of the modem and any
\* testing, as long as the count does not wrap and testing does not put the timer off
\* into the next interval.
THEOREM BacklogIsBounded ==
  ASSUME Timely
  PROVE  Spec => []BacklogBounded
<1>1. TypeInv /\ CycleInv /\ BacklogInv => BacklogBounded
  <2>. SUFFICES ASSUME TypeInv, CycleInv, BacklogInv PROVE BacklogBounded
    OBVIOUS
  <2>1. ReadingsCounted /\ BestEffortStoresNothing /\ mode \in {"reliably", "bestEffort"}
    BY ScheduleAssumption DEF BacklogInv, TypeInv, Typed, TypedCycle
  <2>2. CASE mode = "reliably"
    <3>1. PICK n \in Int : n = unposted
      BY Numbers
    <3>2. Waits(n)
      BY <2>1, <2>2, <3>1 DEF ReadingsCounted
    <3>3. Many(n)
      BY <3>2, FewIsMany
    <3>. QED  BY <3>1, <3>3, Numbers DEF Many, BacklogBounded
  <2>3. CASE mode = "bestEffort"
    <3>1. unposted = 0
      BY <2>1, <2>3 DEF BestEffortStoresNothing
    <3>. QED  BY <3>1, Numbers DEF BacklogBounded
  <2>. QED  BY <2>1, <2>2, <2>3
<1>2. Init => CycleInv /\ BacklogInv
  BY BacklogInit
<1>3. TypeInv /\ CycleInv /\ BacklogInv /\ [Next]_vars => CycleInv' /\ BacklogInv'
  BY BacklogStep
<1>. QED  BY <1>1, <1>2, <1>3, AlwaysTyped, PTL DEF Spec

--------------------------------------------------------------------------------
(* Posts and intervals.                                                    *)

\* A post that begins with its interval, or when the timer expires, is over before the
\* next.
PostsFit == Timely /\ LastPost + PassMax < Interval

\* The caller's own cycle is the first: before it, no reading has been counted.
CallerIsFirst ==
  /\ pc \in {"asleep", "testing", "dozing"} => ~forced
  /\ pc = "woken" /\ forced => everyCnt = 0

TimerInv == CallerIsFirst /\ (offAct => Running)

\* An interval is without its reading, and without an excuse, only until its first wake
\* has taken one.
AtStart ==
  \/ taken \/ excused
  \/ IntervalStarts /\ (pc = "woken" \/ (pc = "reading" /\ "new" \in cia))

\* What is left of a cycle with a post fits into what is left of the interval, unless
\* the cycle is the caller's own or has set the clock.
Fits ==
  pc \in {"reading", "posting", "online", "closing"} /\ "post" \in cia /\ ~forced /\ ~synced
    => (now % Interval) + PassMax < Interval + awake

Rested == pc \in {"asleep", "woken", "dozing", "reading"} => awake = 0

SyncedLast == pc \in {"reading", "posting", "online"} => ~synced

IntervalInv == AtStart /\ Fits /\ Rested /\ SyncedLast

LEMMA IntervalInit ==
  ASSUME Init
  PROVE  IntervalInv
BY DEF Init, IntervalInv, AtStart, Fits, Rested, SyncedLast

LEMMA TimerInit ==
  ASSUME Init
  PROVE  TimerInv
<1>1. /\ pc = IF forced THEN "woken" ELSE "asleep"
      /\ everyCnt = 0 /\ offAct = FALSE
  BY DEF Init
<1>. QED  BY <1>1 DEF TimerInv, CallerIsFirst

LEMMA CallerStep ==
  ASSUME TypeInv, BacklogInv, TimerInv, [Next]_vars
  PROVE  CallerIsFirst'
<1>1. CallerIsFirst
  BY DEF TimerInv
<1>2. CASE Sleep \/ StartTesting
  BY <1>2 DEF Sleep, StartTesting, CallerIsFirst
<1>3. CASE EndTesting \/ PressButton
  BY <1>1, <1>3 DEF EndTesting, PressButton, CallerIsFirst, timers
<1>4. CASE SkipCycle
  <2>1. ~forced'
    BY <1>4 DEF SkipCycle, BacklogInv, BestEffortStoresNothing
  <2>. QED  BY <2>1 DEF CallerIsFirst
<1>5. CASE Tick
  <2>1. /\ forced' = forced /\ everyCnt' = everyCnt
        /\ pc' = "woken" => pc \in {"asleep", "woken"}
        /\ pc' \in {"asleep", "testing", "dozing"} => pc \in {"asleep", "testing", "dozing"}
    BY <1>5 DEF Tick, timers
  <2>. QED  BY <1>1, <2>1 DEF CallerIsFirst
<1>6. CASE UNCHANGED vars
  BY <1>1, <1>6 DEF vars, timers, CallerIsFirst
<1>7. CASE \/ TakeReading \/ PostOnline \/ PostFails \/ StoreReadings \/ PostNothing
           \/ Disconnect \/ EndCycle
           \/ \E level \in BatteryLevels : CheckInterval(level) \/ CheckBestEffort(level)
           \/ \E drift \in -MaxDrift..MaxDrift : SyncClock(drift)
  <2>1. pc' \notin {"asleep", "testing", "dozing", "woken"}
    BY <1>7 DEF TakeReading, PostOnline, PostFails, StoreReadings, PostNothing, Disconnect,
                EndCycle, CheckInterval, CheckBestEffort, SyncClock
  <2>. QED  BY <2>1 DEF CallerIsFirst
<1>. QED  BY <1>2, <1>3, <1>4, <1>5, <1>6, <1>7 DEF Next, Proceed

\* Every timer is started by the reading of an interval that begins.
LEMMA TimerStep ==
  ASSUME PostsFit, TypeInv, CycleInv, BacklogInv, TimerInv, [Next]_vars
  PROVE  TimerInv'
<1>0. Timely
  BY DEF PostsFit
<1>1. CallerIsFirst'
  BY CallerStep
<1>2. offAct => Running
  BY DEF TimerInv
<1>3. ASSUME NEW level \in BatteryLevels, CheckInterval(level), offAct'
      PROVE  Running'
  <2>1. CASE offAct
    BY <1>0, <1>2, <1>3, <2>1, CheckKeepsTimer
  <2>2. CASE ~offAct
    <3>1. /\ pc = "woken" /\ mode = "reliably" /\ CountReading /\ CountDown
      BY <1>3 DEF CheckInterval
    <3>2. CountIsFull /\ SendOffset # 0
      BY <1>3, <2>2, <3>1 DEF CountDown, Offset
    <3>3. SendEveryX > 1 /\ everyCnt = SendEveryX - 1
      BY <1>0, <3>1, <3>2, CountStep DEF CycleInv
    <3>4. ~forced
      <4>1. forced => everyCnt = 0
        BY <3>1 DEF TimerInv, CallerIsFirst
      <4>. QED  BY <3>3, <4>1, Numbers
    <3>5. ~PostDue
      <4>1. ~(SendEveryX <= 1)
        BY <3>3, Numbers
      <4>. QED  BY <2>2, <3>1, <3>2, <4>1 DEF PostDue, TimerExpires, Offset
    <3>. QED  BY <1>0, <1>3, <3>2, <3>4, <3>5, CheckStartsTimer
  <2>. QED  BY <2>1, <2>2
<1>4. CASE SkipCycle \/ \E level \in BatteryLevels : CheckBestEffort(level)
  <2>1. mode = "bestEffort" /\ ~offAct
    BY <1>2, <1>4 DEF SkipCycle, CheckBestEffort, Running
  <2>2. ~offAct'
    BY <1>4, <2>1 DEF SkipCycle, CheckBestEffort, CountDown, Offset, timers
  <2>. QED  BY <1>1, <2>2 DEF TimerInv
<1>5. CASE \/ PostNothing \/ Disconnect \/ EndCycle \/ Sleep
           \/ PressButton \/ StartTesting \/ EndTesting \/ Tick
           \/ \E drift \in -MaxDrift..MaxDrift : SyncClock(drift)
  <2>1. offAct' = offAct
    BY <1>5 DEF PostNothing, Disconnect, EndCycle, Sleep, PressButton, StartTesting,
                EndTesting, Tick, SyncClock, timers
  <2>2. Running => Running'
    BY <1>0, <1>5, QuietKeepsTimer
  <2>. QED  BY <1>1, <1>2, <2>1, <2>2 DEF TimerInv
<1>6. CASE TakeReading \/ PostOnline \/ PostFails \/ StoreReadings
  <2>1. offAct' = offAct
    BY <1>6 DEF TakeReading, PostOnline, PostFails, StoreReadings, timers
  <2>2. /\ UNCHANGED <<now, timers, mode, presses>> /\ forced' = forced
        /\ startTesting' = startTesting
        /\ pc \notin {"woken", "testing", "dozing"}
        /\ pc' \in {"posting", "online", "closing", "ending", "asleep"}
        /\ ("post" \in cia' => "post" \in cia)
    BY <1>6 DEF TakeReading, PostOnline, PostFails, StoreReadings
  <2>3. Running => Running'
    BY <2>2, CycleKeepsTimer
  <2>. QED  BY <1>1, <1>2, <2>1, <2>3 DEF TimerInv
<1>7. CASE UNCHANGED vars
  BY <1>1, <1>2, <1>7
  DEF vars, timers, TimerInv, Running, TestLeft, Delay, Woken, IntervalStarts
<1>8. CASE \E level \in BatteryLevels : CheckInterval(level)
  BY <1>1, <1>3, <1>8 DEF TimerInv
<1>. QED  BY <1>4, <1>5, <1>6, <1>7, <1>8 DEF Next, Proceed

\* A cycle with a post that is not the caller's begins in the minute in which its
\* interval starts or in which the timer expires.
LEMMA PostBegins ==
  ASSUME PostsFit, TypeInv, CycleInv, BacklogInv, TimerInv, pc = "woken", awake = 0,
         IntervalStarts \/ PostDue
  PROVE  (now % Interval) + PassMax < Interval + awake
<1>1. LastPost \in Nat /\ PassMax \in Nat /\ LastPost + PassMax < Interval
  BY Constants DEF PostsFit, LastPost
<1>2. CASE IntervalStarts
  BY <1>1, <1>2, Minutes DEF IntervalStarts
<1>3. CASE ~IntervalStarts
  <2>1. offAct /\ TimerExpires
    BY <1>3 DEF PostDue, TimerExpires, CountIsFull
  <2>2. Running
    BY <2>1 DEF TimerInv
  <2>3. (now % Interval) + offCnt <= SendOffset + Delay + 1 /\ offCnt = 1
    BY <2>1, <2>2, TimerWake
  <2>4. SendOffset # 0
    BY <2>2, Minutes DEF Running
  <2>5. now % Interval <= LastPost
    BY <1>1, <2>3, <2>4, Minutes
  <2>. QED  BY <1>1, <2>5, Minutes
<1>. QED  BY <1>2, <1>3

LEMMA CheckIntervalKeeps ==
  ASSUME PostsFit, TypeInv, CycleInv, BacklogInv, TimerInv, IntervalInv,
         NEW level \in BatteryLevels, CheckInterval(level)
  PROVE  IntervalInv'
<1>1. AtStart /\ Fits /\ Rested /\ SyncedLast
  BY DEF IntervalInv
<1>2. /\ pc = "woken" /\ now' = now /\ forced' = forced /\ awake' = awake /\ taken' = taken
      /\ excused' = (excused \/ (IntervalStarts /\ level = "nothing"))
  BY DEF CheckInterval
<1>3. awake = 0
  BY <1>1, <1>2 DEF Rested
<1>4. Decided(forced \/ PostDue)
  BY CheckIntervalForm
<1>5. Rested'
  BY <1>2, <1>3 DEF Rested
<1>6. Fits'
  <2>. SUFFICES ASSUME "post" \in cia', ~forced
                PROVE  (now' % Interval) + PassMax < Interval + awake'
    BY <1>2 DEF Fits
  <2>1. PostDue
    BY <1>4 DEF Decided
  <2>2. (now % Interval) + PassMax < Interval + awake
    BY <1>2, <1>3, <2>1, PostBegins
  <2>. QED  BY <1>2, <2>2
<1>7. AtStart'
  <2>1. CASE taken \/ excused \/ level = "nothing"
    <3>1. taken \/ excused \/ (IntervalStarts /\ level = "nothing")
      BY <1>1, <2>1 DEF AtStart
    <3>. QED  BY <1>2, <3>1 DEF AtStart
  <2>2. CASE ~taken /\ ~excused /\ level # "nothing"
    <3>. DEFINE asked == IF forced THEN {"new", "post"} ELSE Due
    <3>1. IntervalStarts
      BY <1>1, <2>2 DEF AtStart
    <3>2. "new" \in asked
      BY <3>1, DueForm
    <3>3. cia' = BatteryAllows(level, asked) /\ pc' = IF cia' = {} THEN "ending" ELSE "reading"
      BY DEF CheckInterval
    <3>. HIDE DEF asked
    <3>4. level \in {"sensors", "modem"}
      BY <2>2, ScheduleAssumption
    <3>5. "new" \in cia'
      BY <3>2, <3>3, <3>4 DEF BatteryAllows
    <3>6. pc' = "reading"
      BY <3>3, <3>5
    <3>7. IntervalStarts'
      BY <1>2, <3>1 DEF IntervalStarts
    <3>. QED  BY <3>5, <3>6, <3>7 DEF AtStart
  <2>. QED  BY <2>1, <2>2
<1>8. SyncedLast'
  BY DEF CheckInterval, SyncedLast
<1>. QED  BY <1>5, <1>6, <1>7, <1>8 DEF IntervalInv

LEMMA CheckBestEffortKeeps ==
  ASSUME PostsFit, TypeInv, CycleInv, BacklogInv, TimerInv, IntervalInv,
         NEW level \in BatteryLevels, CheckBestEffort(level)
  PROVE  IntervalInv'
<1>1. AtStart /\ Fits /\ Rested /\ SyncedLast
  BY DEF IntervalInv
<1>2. /\ pc = "woken" /\ now' = now /\ forced' = forced /\ awake' = awake
      /\ taken' = taken /\ excused' = excused
  BY DEF CheckBestEffort, interval
<1>3. awake = 0
  BY <1>1, <1>2 DEF Rested
<1>4. Rested'
  BY <1>2, <1>3 DEF Rested
<1>5. /\ Due = {} => cia' = {}
      /\ Due # {} => "new" \in cia' /\ pc' = "reading"
  BY DEF CheckBestEffort
<1>6. Fits'
  <2>. SUFFICES ASSUME "post" \in cia'
                PROVE  (now' % Interval) + PassMax < Interval + awake'
    BY <1>2 DEF Fits
  <2>1. IntervalStarts \/ PostDue
    BY <1>5, DueForm
  <2>2. (now % Interval) + PassMax < Interval + awake
    BY <1>2, <1>3, <2>1, PostBegins
  <2>. QED  BY <1>2, <2>2
<1>7. AtStart'
  <2>1. CASE taken \/ excused
    BY <1>2, <2>1 DEF AtStart
  <2>2. CASE ~taken /\ ~excused
    <3>1. IntervalStarts
      BY <1>1, <2>2 DEF AtStart
    <3>2. "new" \in cia' /\ pc' = "reading"
      BY <1>5, <3>1, DueForm
    <3>3. IntervalStarts'
      BY <1>2, <3>1 DEF IntervalStarts
    <3>. QED  BY <3>2, <3>3 DEF AtStart
  <2>. QED  BY <2>1, <2>2
<1>8. SyncedLast'
  BY DEF CheckBestEffort, SyncedLast
<1>. QED  BY <1>4, <1>6, <1>7, <1>8 DEF IntervalInv

LEMMA TakeReadingKeeps ==
  ASSUME IntervalInv, TakeReading
  PROVE  IntervalInv'
<1>1. AtStart /\ Fits /\ Rested /\ SyncedLast
  BY DEF IntervalInv
<1>2. /\ pc = "reading" /\ pc' = "posting" /\ cia' = cia /\ now' = now /\ forced' = forced
      /\ awake' = awake /\ excused' = excused /\ synced' = synced
      /\ taken' = (taken \/ ("new" \in cia /\ IntervalStarts))
  BY DEF TakeReading
<1>3. AtStart'
  BY <1>1, <1>2 DEF AtStart
<1>4. Fits' /\ Rested' /\ SyncedLast'
  BY <1>1, <1>2 DEF Fits, Rested, SyncedLast
<1>. QED  BY <1>3, <1>4 DEF IntervalInv

\* The other steps but Tick: no reading is owed, and the cycle goes on or ends.
LEMMA OthersKeep ==
  ASSUME TypeInv, IntervalInv,
         \/ SkipCycle \/ PostOnline \/ PostFails \/ StoreReadings \/ PostNothing
         \/ Disconnect \/ EndCycle \/ PressButton \/ StartTesting \/ EndTesting \/ Sleep
         \/ \E drift \in -MaxDrift..MaxDrift : SyncClock(drift)
  PROVE  IntervalInv'
<1>1. AtStart /\ Fits /\ Rested /\ SyncedLast
  BY DEF IntervalInv
<1>2. CASE \/ PostOnline \/ PostFails \/ StoreReadings \/ PostNothing \/ Disconnect
  <2>1. /\ pc \in {"posting", "online"} /\ pc' \in {"online", "closing"} /\ cia' = cia
        /\ now' = now /\ forced' = forced /\ awake' = awake /\ taken' = taken
        /\ excused' = excused /\ synced' = synced
    BY <1>2 DEF PostOnline, PostFails, StoreReadings, PostNothing, Disconnect, posts, interval
  <2>. QED  BY <1>1, <2>1 DEF IntervalInv, AtStart, Fits, Rested, SyncedLast
<1>3. CASE EndCycle \/ StartTesting \/ EndTesting \/ Sleep
  <2>1. /\ pc \in {"closing", "ending", "testing"}
        /\ pc' \in {"ending", "testing", "dozing", "asleep"}
        /\ (pc' \in {"dozing", "asleep"} => awake' = 0)
        /\ taken' = taken /\ excused' = excused
    BY <1>3 DEF EndCycle, StartTesting, EndTesting, Sleep, interval
  <2>. QED  BY <1>1, <2>1 DEF IntervalInv, AtStart, Fits, Rested, SyncedLast
<1>4. CASE SkipCycle
  <2>1. /\ pc = "woken" /\ pc' = "asleep" /\ awake' = 0 /\ taken' = taken
        /\ excused' = (excused \/ IntervalStarts)
    BY <1>4 DEF SkipCycle
  <2>. QED  BY <1>1, <2>1 DEF IntervalInv, AtStart, Fits, Rested, SyncedLast
<1>5. CASE PressButton
  <2>1. /\ pc \in {"asleep", "woken", "ending", "dozing"} /\ pc' = pc /\ now' = now
        /\ awake' = awake /\ taken' = taken /\ excused' = excused
    BY <1>5 DEF PressButton, interval
  <2>. QED  BY <1>1, <2>1 DEF IntervalInv, AtStart, Fits, Rested, SyncedLast, IntervalStarts
<1>6. ASSUME NEW drift \in -MaxDrift..MaxDrift, SyncClock(drift)
      PROVE  IntervalInv'
  <2>1. /\ pc = "online" /\ pc' = "closing" /\ synced' = TRUE /\ taken' = taken
        /\ (excused => excused')
    BY <1>6 DEF SyncClock
  <2>. QED  BY <1>1, <2>1 DEF IntervalInv, AtStart, Fits, Rested, SyncedLast
<1>. QED  BY <1>2, <1>3, <1>4, <1>5, <1>6

\* No step of the clock finds a reading owed.
LEMMA NothingOwed ==
  ASSUME IntervalInv, Tick
  PROVE  taken \/ excused
<1>1. ASSUME pc \in {"woken", "reading"} PROVE FALSE
  <2>1. Budget = 0 /\ awake = 0
    BY <1>1 DEF Budget, IntervalInv, Rested
  <2>. QED  BY <1>1, <2>1 DEF Tick
<1>. QED  BY <1>1 DEF IntervalInv, AtStart

LEMMA TickKeeps ==
  ASSUME PostsFit, TypeInv, CycleInv, BacklogInv, IntervalInv, Tick
  PROVE  IntervalInv'
<1>1. AtStart /\ Fits /\ Rested /\ SyncedLast
  BY DEF IntervalInv
<1>2. /\ \/ pc = "asleep" /\ pc' = "woken" /\ awake' = awake
         \/ pc = "dozing" /\ pc' = "asleep" /\ awake' = awake
         \/ awake < Budget /\ awake' = awake + 1 /\ pc' = pc
      /\ now' = (now + 1) % Day /\ cia' = cia /\ forced' = forced /\ synced' = synced
  BY DEF Tick, posts
<1>3. now \in 0..(Day - 1) /\ now \in Int /\ now % Interval \in 0..(Interval - 1)
  BY Constants, ModRange DEF TypeInv, Typed, TypedClock
<1>4. awake \in Nat /\ PassMax \in Nat /\ Interval \in Nat /\ Interval > 0
  BY Constants DEF TypeInv, Typed, TypedClock, AwakeMax
<1>9. SyncedLast'
  BY <1>1, <1>2 DEF SyncedLast
<1>5. Rested'
  <2>1. pc \in {"asleep", "woken", "dozing", "reading"} => Budget = 0 /\ awake = 0
    BY <1>1 DEF Budget, Rested
  <2>. QED  BY <1>2, <1>4, <2>1 DEF Rested
\* A cycle with a post that counts on its interval does not see the next one begin.
<1>6. ASSUME pc \in {"posting", "online", "closing"}, "post" \in cia, ~forced, ~synced,
             awake < Budget
      PROVE  now' % Interval = (now % Interval) + 1
  <2>1. Budget = PassMax
    BY <1>6 DEF Budget
  <2>2. (now % Interval) + PassMax < Interval + awake
    BY <1>1, <1>6 DEF Fits
  <2>3. (now % Interval) + 1 < Interval
    BY <1>3, <1>4, <1>6, <2>1, <2>2
  <2>. QED  BY <1>2, <1>3, <2>3, NextMinute
<1>7. Fits'
  <2>. SUFFICES ASSUME pc' \in {"reading", "posting", "online", "closing"}, "post" \in cia',
                       ~forced', ~synced'
                PROVE  (now' % Interval) + PassMax < Interval + awake'
    BY DEF Fits
  <2>1. awake < Budget /\ awake' = awake + 1 /\ pc' = pc
    BY <1>2
  <2>2. pc # "reading"
    <3>1. pc = "reading" => Budget = 0 /\ awake = 0
      BY <1>1 DEF Budget, Rested
    <3>. QED  BY <2>1, <3>1
  <2>3. now' % Interval = (now % Interval) + 1
    BY <1>2, <1>6, <2>1, <2>2
  <2>4. (now % Interval) + PassMax < Interval + awake
    BY <1>1, <1>2, <2>1 DEF Fits
  <2>. QED  BY <1>3, <1>4, <2>1, <2>3, <2>4
<1>8. AtStart'
  <2>1. CASE now' % Interval # 0
    <3>1. taken' = taken /\ excused' = excused
      BY <2>1 DEF Tick, interval
    <3>. QED  BY <3>1, NothingOwed DEF AtStart
  <2>2. CASE now' % Interval = 0
    <3>1. excused' = (forced \/ pc \in {"testing", "dozing"} \/ (pc = "closing" /\ synced))
      BY <2>2 DEF Tick
    <3>2. CASE pc' = "woken"
      BY <2>2, <3>2 DEF AtStart, IntervalStarts
    <3>3. CASE pc = "dozing"
      BY <3>1, <3>3 DEF AtStart
    <3>4. CASE awake < Budget
      <4>1. CASE pc = "testing"
        BY <3>1, <4>1 DEF AtStart
      <4>2. CASE pc # "testing"
        <5>1. pc \in {"posting", "online", "closing"} /\ "post" \in cia
          <6>1. Budget # 0
            BY <1>4, <3>4
          <6>. QED  BY <4>2, <6>1 DEF Budget
        <5>2. synced => pc = "closing"
          BY <1>1, <5>1 DEF SyncedLast
        <5>3. forced \/ synced
          BY <1>3, <1>6, <2>2, <3>4, <5>1
        <5>. QED  BY <3>1, <5>2, <5>3 DEF AtStart
      <4>. QED  BY <4>1, <4>2
    <3>. QED  BY <1>2, <3>2, <3>3, <3>4
  <2>. QED  BY <2>1, <2>2
<1>. QED  BY <1>5, <1>7, <1>8, <1>9 DEF IntervalInv

LEMMA IntervalStep ==
  ASSUME PostsFit, TypeInv, CycleInv, BacklogInv, TimerInv, IntervalInv, [Next]_vars
  PROVE  IntervalInv'
<1>1. CASE UNCHANGED vars
  BY <1>1
  DEF vars, timers, posts, interval, IntervalInv, AtStart, Fits, Rested, SyncedLast,
      IntervalStarts
<1>2. CASE Proceed
  BY <1>2, CheckIntervalKeeps, CheckBestEffortKeeps, TakeReadingKeeps, OthersKeep DEF Proceed
<1>3. CASE Tick
  BY <1>3, TickKeeps
<1>4. CASE PressButton
  BY <1>4, OthersKeep
<1>. QED  BY <1>1, <1>2, <1>3, <1>4 DEF Next

\* A post never costs the reading of the next interval, if it fits into the interval it
\* began in, as PostsFit says: every interval ends with its reading taken, or prevented
\* by the battery, by testing, by a step of the clock or by the caller's own cycle.
THEOREM NoReadingIsSwallowed ==
  ASSUME PostsFit
  PROVE  Spec => PostSwallowsNoReading
<1>1. IntervalInv => [Tick /\ now' % Interval = 0 => taken \/ excused]_vars
  BY NothingOwed
<1>2. Timely
  BY DEF PostsFit
<1>3. Init => CycleInv /\ BacklogInv /\ TimerInv /\ IntervalInv
  BY <1>2, BacklogInit, TimerInit, IntervalInit
<1>4. TypeInv /\ CycleInv /\ BacklogInv /\ TimerInv /\ IntervalInv /\ [Next]_vars
        => CycleInv' /\ BacklogInv' /\ TimerInv' /\ IntervalInv'
  BY <1>2, BacklogStep, TimerStep, IntervalStep
<1>. QED  BY <1>1, <1>3, <1>4, AlwaysTyped, PTL DEF Spec, PostSwallowsNoReading
================================================================================
