------------------------------- MODULE Scheduler -------------------------------
(***************************************************************************)
(* When the logger reads and when it posts (checkInterval,                 *)
(* logDataAndPubReliably, logData, logDataAndPublish, testingMode).        *)
(*                                                                         *)
(* The real-time clock wakes the logger at every minute.  A wake at the    *)
(* start of a logging interval takes a reading; every SendEveryX readings  *)
(* a post is due, at once or after a timer of SendOffset wakes.  A cycle   *)
(* may take minutes, and systemSleep clears the alarm before it sleeps, so *)
(* the minutes that pass while the logger is awake wake nobody.            *)
(*                                                                         *)
(* An application runs either logDataAndPubReliably in its loop, or, in    *)
(* the best-effort mode, logDataAndPublish, logData or nothing, by what    *)
(* its battery allows.                                                     *)
(*                                                                         *)
(* Time is in minutes of the logger's day.  A wake finds its minute less   *)
(* than 59 seconds old; a reading takes less than a minute.  The battery,  *)
(* the modem and the time server are external.                             *)
(***************************************************************************)
EXTENDS Integers, FiniteSets

CONSTANTS
  Modes,          \* what applications are considered: reliably, bestEffort
  Interval,       \* _loggingIntervalMinutes
  Day,            \* minutes in a day (NIST_SYNC_RATE)
  SendEveryX,     \* _sendEveryX_num
  SendOffset,     \* _sendOffset_min
  BatteryLevels,  \* what the battery may allow: nothing, sensors, modem
  PassMax,        \* bound on the minutes a cycle with a post takes
  TestMax,        \* bound on the minutes of testingMode
  MaxDrift,       \* bound on the minutes by which a sync moves the clock
  MaxPresses,     \* bound on the times the testing button is pressed
  MaxFailed       \* bound on the posts in a row that come to nothing

ASSUME ScheduleAssumption ==
  /\ Modes \subseteq {"reliably", "bestEffort"}
  /\ {Interval, SendEveryX} \subseteq Nat \ {0}
  /\ Day \in Nat /\ Day % Interval = 0 /\ Day >= 2 * Interval
  /\ SendEveryX <= 255 /\ SendOffset \in 0..14
  /\ BatteryLevels \subseteq {"nothing", "sensors", "modem"}
  /\ {PassMax, TestMax, MaxDrift, MaxPresses, MaxFailed} \subseteq Nat
  /\ MaxDrift < Interval

VARIABLES
  now,           \* the logger's clock
  pc,
  forced,        \* the cycle under way is the caller's (cia_val_override)
  awake,         \* minutes since the logger woke
  everyCnt,      \* _sendEveryX_cnt, an int8_t
  offAct,        \* _sendOffset_act
  offCnt,        \* _sendOffset_cnt, a uint8_t
  cia,           \* cia_val
  marked,        \* markedLocalEpochTime
  startTesting,
  unposted,      \* history: readings in RDELAY.TXT since a pass last emptied it
  failed,        \* history: posts that were due since one last got on line
  sent, synced,  \* history: this cycle made a pass on line, set the clock
  taken,         \* history: the interval under way has its reading
  excused,       \* history: or something else than a post prevented it
  presses,       \* presses of the testing button so far
  mode           \* the application's loop

timers == <<everyCnt, offAct, offCnt>>
posts == <<unposted, failed, sent, synced>>
interval == <<taken, excused>>
vars == <<now, pc, forced, awake, timers, cia, marked, startTesting, posts,
          interval, presses, mode>>

Int8(n) == ((n + 128) % 256) - 128
UInt8(n) == n % 256

--------------------------------------------------------------------------------
\* The first cycle is the caller's, from setup(): a reading and a post whatever the
\* time.  It sleeps to the next minute first, and is here at its wake.  In the
\* best-effort mode setup() ends with a sleep.
Init ==
  /\ mode \in Modes
  /\ now \in 0..(Day - 1)
  /\ forced = (mode = "reliably") /\ awake = 0
  /\ pc = IF forced THEN "woken" ELSE "asleep"
  /\ everyCnt = 0 /\ offAct = FALSE /\ offCnt = 0
  /\ cia = {} /\ marked = 0 /\ startTesting = FALSE
  /\ unposted = 0 /\ failed = 0 /\ sent = FALSE /\ synced = FALSE
  /\ taken = FALSE /\ excused = TRUE
  /\ presses = 0

--------------------------------------------------------------------------------
(* checkInterval.                                                          *)

IntervalStarts == now % Interval = 0

\* _sendEveryX_cnt with the reading that is due now.
Counted == Int8(everyCnt + 1)

\* Mutant of CountIsFull: one reading more.
CountIsFullLate == IntervalStarts /\ SendEveryX > 1 /\ Counted > SendEveryX

CountIsFull == IntervalStarts /\ SendEveryX > 1 /\ Counted >= SendEveryX

\* Mutant of TimerExpires: tested before the decrement.
TimerExpiresLate == offAct /\ offCnt = 0

TimerExpires == offAct /\ UInt8(offCnt - 1) = 0

\* Applications in the best-effort mode leave _sendOffset_min at its default, 0.  With
\* an offset they would read again when the timer expires, under the old time stamp.
Offset == IF mode = "bestEffort" THEN 0 ELSE SendOffset

\* Mutant of PostDue: the timer stops and nothing comes of it.
PostDueForgotten == \/ IntervalStarts /\ SendEveryX <= 1
                    \/ CountIsFull /\ Offset = 0

PostDue == \/ TimerExpires
           \/ IntervalStarts /\ SendEveryX <= 1
           \/ CountIsFull /\ Offset = 0

Due == {a \in {"new", "post"} : \/ a = "new" /\ IntervalStarts
                                \/ a = "post" /\ PostDue}

CountReading ==
  everyCnt' = IF CountIsFull THEN 0
              ELSE IF IntervalStarts /\ SendEveryX > 1 THEN Counted
              ELSE everyCnt

\* Mutant of CountDown: the timer is not stopped when it expires.
CountDownOn ==
  IF CountIsFull /\ Offset # 0
    THEN offAct' = TRUE /\ offCnt' = Offset
    ELSE offAct' = offAct /\ offCnt' = IF offAct THEN UInt8(offCnt - 1) ELSE offCnt

\* The timer counts wakes; it starts again when the count is full before it expires.
CountDown ==
  IF CountIsFull /\ Offset # 0
    THEN offAct' = TRUE /\ offCnt' = Offset
    ELSE /\ offAct' = (offAct /\ ~TimerExpires)
         /\ offCnt' = IF offAct THEN UInt8(offCnt - 1) ELSE offCnt

\* The battery may cancel the cycle, or have a post stored for later.
BatteryAllows(level, actions) ==
  CASE level = "nothing" -> {}
    [] level = "sensors" -> {IF a = "post" THEN "store" ELSE a : a \in actions}
    [] level = "modem"   -> actions

CheckInterval(level) ==
  /\ pc = "woken" /\ mode = "reliably"
  /\ CountReading /\ CountDown
  /\ LET asked == IF forced THEN {"new", "post"} ELSE Due
         held == "post" \in asked /\ level # "modem"
     IN /\ cia' = BatteryAllows(level, asked)
        /\ held => failed < MaxFailed
        /\ failed' = IF held THEN failed + 1 ELSE failed
  /\ pc' = IF cia' = {} THEN "ending" ELSE "reading"
  /\ marked' = IF forced \/ IntervalStarts THEN now ELSE marked
  /\ sent' = FALSE /\ synced' = FALSE
  /\ excused' = (excused \/ (IntervalStarts /\ level = "nothing"))
  /\ UNCHANGED <<now, forced, awake, startTesting, unposted, taken, presses, mode>>

\* logDataAndPublish or, if the modem may not be used, logData: both ask only whether
\* anything is due, and then take a reading and, if they may, post it.
CheckBestEffort(level) ==
  /\ pc = "woken" /\ mode = "bestEffort" /\ level # "nothing"
  /\ CountReading /\ CountDown
  /\ LET held == Due # {} /\ level # "modem"
     IN /\ cia' = IF Due = {} THEN {} ELSE {"new"} \cup (IF held THEN {} ELSE {"post"})
        /\ held => failed < MaxFailed
        /\ failed' = IF held THEN failed + 1 ELSE failed
  /\ pc' = IF cia' = {} THEN "ending" ELSE "reading"
  /\ marked' = IF IntervalStarts THEN now ELSE marked
  /\ sent' = FALSE /\ synced' = FALSE
  /\ UNCHANGED <<now, forced, awake, startTesting, unposted, interval, presses, mode>>

\* The battery is too low: the application sleeps on, and neither counter nor timer moves.
SkipCycle ==
  /\ pc = "woken" /\ mode = "bestEffort" /\ "nothing" \in BatteryLevels
  /\ Due # {} => failed < MaxFailed
  /\ failed' = IF Due # {} THEN failed + 1 ELSE failed
  /\ excused' = (excused \/ IntervalStarts)
  /\ sent' = FALSE /\ synced' = FALSE
  /\ awake' = 0 /\ pc' = "asleep"
  /\ UNCHANGED <<now, forced, timers, cia, marked, startTesting, unposted, taken, presses, mode>>

--------------------------------------------------------------------------------
(* A cycle of logDataAndPubReliably or logDataAndPublish.                  *)

\* The count of readings stops one above what BacklogBounded allows.
MaxUnposted == (MaxFailed + 1) * SendEveryX + 1

\* completeUpdate, logToSD and, in the reliable mode, serzRdel_Line.
TakeReading ==
  /\ pc = "reading"
  /\ taken' = (taken \/ ("new" \in cia /\ IntervalStarts))
  /\ unposted' = IF "new" \in cia /\ mode = "reliably" /\ unposted < MaxUnposted
                   THEN unposted + 1 ELSE unposted
  /\ pc' = "posting"
  /\ UNCHANGED <<now, forced, awake, timers, cia, marked, startTesting, failed, sent,
                 synced, excused, presses, mode>>

\* The modem wakes and connects; publishDataQuedToRemotes(true) empties RDELAY.TXT.  In
\* the best-effort mode publishDataToRemotes sends the reading just taken.
PostOnline ==
  /\ pc = "posting" /\ "post" \in cia
  /\ unposted' = 0 /\ failed' = 0 /\ sent' = TRUE
  /\ pc' = "online"
  /\ UNCHANGED <<now, forced, awake, timers, cia, marked, startTesting, synced,
                 interval, presses, mode>>

\* It does not: RDELAY.TXT stays as it is.
PostFails ==
  /\ pc = "posting" /\ "post" \in cia
  /\ failed < MaxFailed
  /\ failed' = failed + 1
  /\ pc' = "closing"
  /\ UNCHANGED <<now, forced, awake, timers, cia, marked, startTesting, unposted,
                 sent, synced, interval, presses, mode>>

\* publishDataQuedToRemotes(false) moves RDELAY.TXT to the queue files.
StoreReadings ==
  /\ pc = "posting" /\ "store" \in cia
  /\ unposted' = 0
  /\ pc' = "closing"
  /\ UNCHANGED <<now, forced, awake, timers, cia, marked, startTesting, failed, sent,
                 synced, interval, presses, mode>>

PostNothing ==
  /\ pc = "posting" /\ cia \cap {"post", "store"} = {}
  /\ pc' = "closing"
  /\ UNCHANGED <<now, forced, awake, timers, cia, marked, startTesting, posts,
                 interval, presses, mode>>

\* On line, the clock is set if the reading was the first of the day, or the one of noon.
SyncDue == IF mode = "reliably" THEN marked < Interval ELSE 2 * marked = Day

SyncClock(drift) ==
  /\ pc = "online" /\ SyncDue
  /\ now' = (now + drift) % Day
  /\ synced' = TRUE
  /\ excused' = (excused \/ drift # 0)
  /\ pc' = "closing"
  /\ UNCHANGED <<forced, awake, timers, cia, marked, startTesting, unposted, failed,
                 sent, taken, presses, mode>>

\* No sync is due, or the time server does not answer.
Disconnect ==
  /\ pc = "online"
  /\ pc' = "closing"
  /\ UNCHANGED <<now, forced, awake, timers, cia, marked, startTesting, posts,
                 interval, presses, mode>>

\* logDataAndPubReliably forgets a press of the button.
EndCycle ==
  /\ pc = "closing"
  /\ cia' = {} /\ startTesting' = (startTesting /\ mode = "bestEffort")
  /\ pc' = "ending"
  /\ UNCHANGED <<now, forced, awake, timers, marked, posts, interval, presses, mode>>

--------------------------------------------------------------------------------
(* Testing mode and sleep.                                                 *)

\* testingISR: while the logger neither logs nor tests.
PressButton ==
  /\ pc \in {"asleep", "woken", "ending", "dozing"}
  /\ presses < MaxPresses
  /\ presses' = presses + 1
  /\ startTesting' = TRUE
  /\ UNCHANGED <<now, pc, forced, awake, timers, cia, marked, posts, interval, mode>>

\* testingMode ends the call of the cycle, and the override that was its argument.
StartTesting ==
  /\ pc = "ending" /\ startTesting
  /\ startTesting' = FALSE /\ forced' = FALSE
  /\ awake' = 0
  /\ pc' = "testing"
  /\ UNCHANGED <<now, timers, cia, marked, posts, interval, presses, mode>>

\* testingMode ends with a sleep of its own, the next cycle begins with another.
EndTesting ==
  /\ pc = "testing"
  /\ awake' = 0
  /\ pc' = "dozing"
  /\ UNCHANGED <<now, forced, timers, cia, marked, startTesting, posts, interval,
                 presses, mode>>

Sleep ==
  /\ pc = "ending" /\ ~startTesting
  /\ awake' = 0 /\ forced' = FALSE
  /\ pc' = "asleep"
  /\ UNCHANGED <<now, timers, cia, marked, startTesting, posts, interval, presses, mode>>

\* The minutes the logger may still be busy with what it is doing.
Budget == CASE pc = "testing"                                       -> TestMax
            [] pc \in {"posting", "online", "closing"} /\ "post" \in cia -> PassMax
            [] OTHER                                                -> 0

Tick ==
  /\ \/ pc = "asleep" /\ pc' = "woken" /\ UNCHANGED awake
     \/ pc = "dozing" /\ pc' = "asleep" /\ UNCHANGED awake
     \/ awake < Budget /\ awake' = awake + 1 /\ UNCHANGED pc
  /\ now' = (now + 1) % Day
  /\ IF now' % Interval = 0
       THEN /\ taken' = FALSE
            /\ excused' = (\/ forced
                           \/ pc \in {"testing", "dozing"}
                           \/ pc = "closing" /\ synced)
       ELSE UNCHANGED interval
  /\ UNCHANGED <<forced, timers, cia, marked, startTesting, posts, presses, mode>>

--------------------------------------------------------------------------------
Proceed ==
  \/ \E level \in BatteryLevels : CheckInterval(level) \/ CheckBestEffort(level)
  \/ SkipCycle
  \/ TakeReading
  \/ PostOnline \/ PostFails \/ StoreReadings \/ PostNothing
  \/ \E drift \in -MaxDrift..MaxDrift : SyncClock(drift)
  \/ Disconnect
  \/ EndCycle
  \/ StartTesting \/ EndTesting \/ Sleep

Next == Proceed \/ Tick \/ PressButton

Spec == Init /\ [][Next]_vars

\* The logger does what it has to do, time goes on, and a time server that is asked
\* again and again answers.
Fairness ==
  /\ WF_vars(Proceed) /\ WF_vars(Tick)
  /\ SF_vars(\E drift \in -MaxDrift..MaxDrift : SyncClock(drift))

FairSpec == Spec /\ Fairness

--------------------------------------------------------------------------------
TypeOK ==
  /\ now \in 0..(Day - 1) /\ marked \in 0..(Day - 1)
  /\ pc \in {"asleep", "woken", "reading", "posting", "online", "closing", "ending",
             "testing", "dozing"}
  /\ awake \in 0..(IF PassMax > TestMax THEN PassMax ELSE TestMax)
  /\ everyCnt \in -128..127 /\ offCnt \in 0..14
  /\ cia \subseteq {"new", "post", "store"} /\ mode \in Modes
  /\ {forced, offAct, startTesting, sent, synced, taken, excused} \subseteq BOOLEAN
  /\ {unposted, failed, presses} \subseteq Nat

\* Readings are counted towards the next post and the timer runs from there: however
\* cycles and the battery fall, RDELAY.TXT holds at most SendEveryX readings for each
\* post that was due and not made, and the one that is about to be made.  Testing, which
\* stops the timer, must not put the post off into the next interval.
BacklogBounded == unposted <= (failed + 1) * SendEveryX

\* No interval goes without a reading because the logger was still busy with a post:
\* only a battery too low, testing, a step of the clock or the caller's own cycle can.
PostSwallowsNoReading ==
  [][Tick /\ now' % Interval = 0 => taken \/ excused]_vars

\* "Reliable delivery of the sensor readings to the cloud": again and again a post gets
\* on line.
PostsRecur == []<>sent
================================================================================
