# A verification of the ModularSensors logger

ModularSensors runs an environmental data logger on a small board (an AVR Mayfly or
a SAMD board): it sleeps, wakes at every minute, reads its sensors at the start of a
logging interval, writes the reading to an SD card and, when a post is due, wakes a
modem and sends what has been read to one or more web services. This branch adds
*reliable delivery*: a reading that could not be sent stays in a queue on the card
and is sent later.

The specifications here model the parts of the firmware that decide whether a reading
is taken, kept and sent, as TLA+ modules that TLC checks on small instances and about
which TLAPS proves theorems for all instances. Paths below are relative to the
repository; `Ext` stands for `src/src/LoggerBaseExtCpp.h`, `Hext` for
`src/src/LoggerBaseHextClass.h`.

    tlc -workers 2 -config delivery.cfg MCReliableDelivery     # a run
    tlapm ReliableDelivery_proofs.tla                          # a module's proofs

## 1. The system

The firmware is one thread. Interrupts set flags only (`wakeISR`, `testingISR`), and
the watchdog's resets the board. What is hard is therefore not a race between
threads but the order of many small steps, each of which can fail, be cut short by a
reset, or find the state that another entry point left behind.

| component | state | operations | where |
|---|---|---|---|
| Reliable delivery queue | `RDELAY.TXT`, `QUEn.TXT` per publisher, `TMP01.TXT`, the open files, `deszq_line`, `desz_pending_records` | `serzRdel_Line`, `publishDataQuedToRemotes`, `serzQued*`, `deszRdel*`, `desz*` | Ext 962–1557, Hext 200–260 |
| Logging scheduler | `_sendEveryX_cnt`, `_sendOffset_act`, `_sendOffset_cnt`, `cia_val`, flags | `checkInterval`, `logDataAndPubReliably`, `logData`, `logDataAndPublish`, `testingMode` | LoggerBase.cpp 700–800, 1970–2080, 2300–2471; Ext 740–960 |
| Clock | RTC, `markedLocalEpochTime` | `markTime`, `setRTClock`, `getNISTTime` | LoggerBase.cpp 430–700 |
| Sleep | alarm, wake pin | `systemSleep` | LoggerBase.cpp 985–1330 |
| Sensor life cycle | `_sensorStatus` and three time stamps per sensor, power pins | `setup`, `powerUp`, `wake`, `startSingleMeasurement`, `addSingleMeasurementResult`, `sleep`, `powerDown`, `update` | SensorBase.cpp, sensors/*.cpp |
| VariableArray | counters of measurements per sensor and per pin | `setupSensors`, `completeUpdate`, `sensorsPowerUp/Wake/Sleep/PowerDown`, `updateAllSensors` | VariableArray.cpp |
| Modem | set-up and power flags, stamps | `modemSetup`, `modemWake`, `connectInternet`, `modemSleepPowerDown` | LoggerModem.cpp, modems/ |
| Publishers | transmit buffer | `publishData` | publishers/ |
| Watchdogs | bark counter | `setupWatchDog`, `resetWatchDog`, interrupt | WatchDogs/ |
| Battery | last level, thresholds | `isBatteryChargeGoodEnough` | BatteryManagement.cpp |
| Data file | the open log file | `logToSD`, `openFile` | LoggerBase.cpp, LoggerBaseSDcpp.h |
| Configuration | start-up constants | `inih_ms_handler` | iniHandler.h |

How they interact: `logDataAndPubReliably` marks the time and asks `checkInterval` what
to do; the battery may strike some of that off; a reading calls `completeUpdate`, which
drives the sensors, then `logToSD` and `serzRdel_Line`; a post wakes and connects the
modem and calls `publishDataQuedToRemotes`, which calls each queued publisher's
`publishData`; the first posting cycle of the day also sets the clock; `systemSleep` ends
the cycle. The interface between scheduler and queue is `RDELAY.TXT`: the scheduler
appends a line per reading, a pass empties it. A line of a file goes through `deszLine` into
the buffer `deszq_line`, from which the publisher cuts its values with `deszqNextCh`. Every
long call is followed by `resetWatchDog`; `begin`, `systemSleep` and `forceSysReset` set the
watchdog up, stop it and use it to reset the board.

What makes each correct, in a sentence: the *queue* loses no reading and sends none that
was acknowledged, in order, and within its limits; the *scheduler* takes a reading in
every interval, posts again and again and lets no backlog build up; the *sensors* are
measured only when they have power, are warm and awake, every one of them as often as
configured, and no pin is cut early or left on; a *line* is posted as the reading it was, or
not at all; the *modem* is off when it is not used, and no call of it goes on for ever; the
*watchdog* resets a program that hangs and no other.

`PROJECT.json` lists the hazards of this code at their lines; the properties below were
chosen to cover them.

## 2. The modules

### DeliveryContract

The promise of reliable delivery, for one publisher, without files: `Log` adds a reading,
`Acknowledge` removes one that the server has, and `Discard` is the only other way off
the card, and only while it holds more than the limit.

### ReliableDelivery

One delivery pass, step by step, and everything that can come between two steps. The
firmware's program counter is `pc`:

| pc | the code is about to | Ext |
|---|---|---|
| `idle` | take a reading, or begin a pass | |
| `logged` | write the reading that is in the data file to `RDELAY.TXT` | 856–858 |
| `forward` | handle the next line of `RDELAY.TXT`, or remove the file | 1028–1091 |
| `removed` | close `QUEn.TXT` and perhaps begin the retries | 1092–1110 |
| `retry` | post the next line of `QUEn.TXT` | 1110–1149 |
| `flush`, `copied`, `renamed` | write `TMP01.TXT`; rename `QUEn.TXT` away; rename `TMP01.TXT` to it | 1223–1346 |
| `done` | go on with the next publisher or return | 1166–1175 |

`rdel`, `que` are the files as they are *on the card*; `tail`, `tmp`, `rest`, `line` and
`hand` are what is in RAM or in a file that is not closed yet. `owed` is a history
variable: what has been logged and not acknowledged, per publisher. `Unsent(p)` is, step
by step, what would still be sent to p if the firmware just went on; most properties are
about it.

The code's details that decide something are kept: the retries happen only if the *last*
post was accepted (`rsp`, which a publisher inherits from the one before it); the limits
on posts are looked at after every line and `attemptPostFailedCnt` is incremented after
its reset; `desz_pending_records` is shared by the publishers, lives in RAM and does not
count the record of the failed post; `RDELAY.TXT` is removed inside the loop over
publishers; the flush rewrites the file only if at least one retry succeeded; the battery
check is made at every `SendAtOnce`-th post.

Assumptions. The card is external: what is printed to a file becomes durable when it is
closed or renamed (SdFat writes the directory entry then), and no operation on the card
fails. A line is the reading it was made from (lines are shorter than the buffer). A lost
answer is a refusal to the firmware, so it is a refusal here. Readings are recycled: a
reading can be logged again when it is not on the card for any publisher, so that four
model values stand for an endless stream. A failed rename of `QUEn.TXT` calls
`forceSysReset`: that is `Reset` at `copied`. Local variables of a pass are set back at its
end, which merges states that do not differ.

### Scheduler

When the logger reads and when it posts, in minutes. `now` is its clock; a cycle runs from
`woken` through `reading`, `posting`, `online` and `closing` to `ending`; `testing` and `dozing`
are `testingMode` and the sleep at its end. The first cycle is *forced*: `setup()` calls
`logDataAndPubReliably` with an override, which sleeps to the next minute like any other call
(the override has no `CIA_NO_SLEEP`) and then reads and posts whatever the time. The override
is the argument of that one call: it is gone when the call returns, whether the loop sleeps next
or the call ends in `testingMode`.
`CheckInterval` is one action because it is one call: `checkInterval` first moves the
counter and the timer (`CountReading`, `CountDown`, with the widths of `int8_t` and
`uint8_t`), and only then may the battery strike the post off. `Tick` is a minute; it can
pass while the logger sleeps (which wakes it) or while a post or testing is under way, up
to `PassMax` and `TestMax` minutes, and then nobody is woken: `systemSleep` clears the
alarm before it sleeps.

`mode` is the application's loop: `logDataAndPubReliably`, or the best-effort loop of the
examples, which by its battery calls `logDataAndPublish`, `logData` (`CheckBestEffort`) or
only sleeps (`SkipCycle`, in which neither counter nor timer moves). Best effort asks of
`checkInterval` only whether anything is due, posts with every reading, and sets the clock in
the cycle of noon; a reading that is not sent is not stored to be sent again.

Assumptions. Best-effort applications leave the send offset at its default, 0 (Hext 56):
with an offset, `logDataAndPublish` would take a reading with the previous time stamp when
the timer expires, and its post may last into the next interval. The wake semantics are those of the AVR boards (`setExtRtcSleep`,
`clearINTStatus`, sleep while the pin is high). A reading takes less than a minute, and a
wake finds its minute young. A sampling feature is registered (otherwise `checkInterval`
is used without posts). A clock sync moves the clock by at most `MaxDrift`, less than an
interval. `unposted`, `failed`, `sent`, `synced`, `taken` and `excused` are history.

### SensorArray

`VariableArray::completeUpdate`, the loops of testing mode and `Sensor::update`, over an
array of variables whose sensors may share power pins. The polling loop is kept as it is
written: a cursor `at` over the variables and `stage`, the next of the four things the
body does for a variable (wake, start, collect, finish). `sensor` holds the status bits
and the three time stamps, which is all the program knows; `phys` is what the sensor
really does, and is what `NoColdMeasurement` compares it with. A time stamp is `zero`,
`recent` or `past`; the three actions of `Elapse` turn recent into past, so all orders of
the times of different sensors are explored. Which variable stands for which sensor and
pin (`lastSensorVariable`, `powerPinIndex`, `nMeasurementsOnPin`) is computed as the
loops at VariableArray.cpp 500–580 compute it; the measurements of a pin are added in a byte,
as there, and `CountsFit` says that none of these sums wraps.

A sensor is either a plain `Sensor` or *commanded* like `YosemitechParent`: waking and
sleeping are commands that may fail. Any start of a measurement may fail. `update()` is
one action: it blocks and nothing else runs.

Assumptions. Pin numbers are not 0 (the code uses 0 as a marker), `measurementsToAverage`
is at least 1, the second power pin is not used, pins are LOW at start, a sensor without a
pin always has power. Values and their averages are not modelled. Testing updates the
sensors any number of times (the code: 25).

### Station

`Scheduler` and `ReliableDelivery` together. It extends the one and instantiates the other
(whose `pc` is called `step` here), and joins their actions: `Log` and `Serialize` are the
reading of a cycle and its line, `Post` and `Store` a cycle's call of
`publishDataQuedToRemotes`, `Pass` the steps of that call, which the cycle waits for while
minutes pass; `Reset` is a watchdog reset at any step, which takes the counters and flags of
the scheduler with it (`Restart`: `setup()` begins again with a forced cycle) and leaves the
clock and the card. What the scheduler's actions leave to chance is given by the queue and
the other way round. `DrivesQueue` is the point of the composition: it says that the station
implements `ReliableDelivery!FairSpec`, so that the strong fairness assumed there is a
consequence of the scheduler and not a wish.

Assumptions. Testing mode, which neither records readings nor posts them, is left out here
(the `Scheduler` has it), and no press of its button is allowed for. Readings are numbers, recycled as in `ReliableDelivery`; the least
free one is taken (`IsNext`). `Room` bounds what is queued before the server recovers and
the battery is charged.

### QueuedPost

One line at a time from the file to the server: `ReadLine` is `deszLine`, with the buffer as
an array of cells in which a shorter line leaves the end of a longer one behind;
`Cursor[i]` is `deszq_nextChar` and `deszq_nextCharSz` when the publisher prints variable i,
by the arithmetic of `deszqNextCh`; `calculateJsonSize` and `BodySize` are the announced and
the real length (a sum over the variables, `Body`), the time stamp included: 25 characters are
announced for it, and what is printed (`StampPrinted`) depends on the logger's time zone
(`ZoneSize`, by the cases of `formatDateTime_ISO8601`). The tags and the UUID of the sampling feature,
74 characters in both, are left out of both. The remaining actions are the ways in which
`publishData` ends and what `publishRspCodeAccepted` makes of them. A character is a cell that
names the field of the line it belongs to, or `"old"` for a line before it.

Assumptions. `fgets` of SdFat gives at most `QUEFILE_MAX_LINE - 1` characters, drops the CR
and keeps the LF. Values are digits. What lies in memory behind the buffer is taken to be
zero. The server stores a post if it is complete JSON of the announced length, and answers
201 only then. The fourth byte behind the three digits of the answer's code, which `atoi`
reads and nobody sets, is a digit or not.

### Modem

The calls of the modem. `modemWake`, `modemSetup` and `connectInternet` call one another, so
the state is a `stack` of calls, each with the line it is at (`at`), its local `success`,
`wasPowered` and `wasAwake` and the count of its loop; the three callers
(`logDataAndPubReliably`, `syncRTC`, `testingMode`) are at the bottom of it. The firmware knows
a pin, or an answer to AT, and three flags (`powerOn` for `_millisPowerOn != 0`,
`pinModesSet`, `hasBeenSetup`); what the module really does (`module`) is external and may
change between two calls. `kind` is the wiring: a power pin or not, a reset pin or not, and
whether being awake is read from the held request pin, from a status pin, or asked with AT.

Assumptions. Waits of fixed length and the LED are left out; each modem's own wake, sleep and
extra set-up functions are their effect on the module, or fail. `updateModemMetadata` may
restart a module of the kind with a held pin, as the XBee Wifi's does.

### WatchDog

The count of barks, the 8 second timer and the program that pets it, in seconds. A function
of the watchdog is the sequence of stores and register writes it makes (`todo`), and the
interrupt may come between any two: the AVR stores its 16-bit count in two instructions, the
SAMD stores the count and clears the timer, in that order. `Tick` is the hardware, and the
program is any sequence of the calls that the firmware makes: nothing obliges it to go on.

Assumptions. The alarm that ends a sleep is external. `UIntMax` stands for 2^32 - 1: what
matters is that it is larger than any count the firmware sets.

### The proof modules

`ReliableDelivery_proofs`, `ReliableDelivery_order_proofs` (which extends it), `Scheduler_proofs`,
`Station_proofs` (which extends that), `SensorArray_proofs`, `QueuedPost_proofs`, `Modem_proofs` and
`WatchDog_proofs` hold the theorems and the inductive invariants, and extend the module that they
are about; section 5 says what they show.

### The MC modules

`MCReliableDelivery`, `MCScheduler`, `MCSensorArray`, `MCStation`, `MCQueuedPost`,
`MCQueuedPostLimits`, `MCModem` and `MCWatchDog` declare the model values and the sets that the `.cfg`
files assign to the constants. They replace nothing. `MCSensorArray` and `MCQueuedPost` also assume,
and TLC checks, that their instances satisfy the hypotheses of the theorems on them (`CountsFit`;
`LinesFit`, `StampAsAnnounced` and more than one variable), so that no theorem is about an instance that is
not among those checked.

## 3. The runs

| run | instance | shows |
|---|---|---|
| `delivery` | 2 publishers, 4 readings of which the server never takes one, no limit on the queue, PostMax 2, threshold 1 | `TypeOK`, `FirstLosesNothing`, `NothingResent` |
| `delivery_resets` | the same with 2 resets, queue limit 1, PostMax 3 | `Backed`, `NoDuplicates`, `KeepsOrder`, `LossOnlyInWindow`, `ReturnsOnlyByReset` |
| `delivery_live` | 1 publisher, queue limit 2, no PostMax, fair | `QueBounded`, `QueuedIsDelivered`, `KeepsContract` (refinement) |
| `delivery_two_publishers` | 2 publishers, no reset | violated: `NothingLost` |
| `schedule` | interval 6 of a day of 24, 2 readings a post, offset 2, any battery, a drift of 1, a press, 2 failed posts in a row, both modes | `TypeOK`, `BacklogBounded`, `PostSwallowsNoReading`, `PostsRecur` |
| `schedule_offset` | interval 3, offset 7 > 2 × 3 | violated: `PostsRecur` |
| `sensors` | 4 variables of 3 sensors and a calculated one; two sensors on one pin and not neighbours, one without a pin, two commanded | `TypeOK`, `OffIsForgotten`, `NoColdMeasurement`, `PowerCutWhenDone`, `NothingLeftOn`, `AskedInFull`, `UpdateEnds` |
| `station` | interval 3 of a day of 6, 2 readings a post, offset 1, battery for sensors or modem, a failed post and a reset, 9 readings | `FileBounded`, `CardArrives`, `DrivesQueue` (refinement) |
| `post` | 3 variables, lines of 1 to 4 values of 1 or 2 characters, a buffer that holds them, time zone -5 | `TypeOK`, `LengthsAgree`, `StoredIsTheReading`, `AcceptedIsStored`, `EveryLineIsRead` |
| `post_long` | lines of three values, the longest one character longer than the buffer | violated: `StoredIsTheReading` |
| `modem` | all twelve wirings, 2 requests to the time server, 2 rounds of testing | `TypeOK`, `CallsAreBounded`, `OffAfterCycle`, `JoinsAwake`, `FailedSetupIsRetried`, `CycleEnds` |
| `watchdog` | both boards, a logging interval of half an hour: reset times 300, 2100 and 1 seconds, counts up to 262 | `TypeOK`, `HangIsCaught`, `ForcedInTime`, `NoEarlyReset` |

The bounds. Four readings let a queue exceed its limit while `RDELAY.TXT` has lines to
come, and let a pass stop before, at and after a limit; readings are interchangeable, so
symmetry is used among those that are not poison wherever no liveness is checked. Two publishers
show everything that one leaves behind for the next. Two resets allow one in a window
that another has opened. In the schedule, a day of four intervals has a first interval
and others, an interval of six minutes is longer than the offset, a pass and a test
together, and a second case (`schedule_offset`) has it the other way round. A press takes two minutes (one of testing, one of sleep) from
a timer of two, which its interval has; section 5 says what two presses do. `MaxUnposted`
stops the history count `unposted` one above the value `BacklogBounded` forbids, so it
hides nothing. The sensor array is the smallest that has a shared pin with different
numbers of measurements, variables of one pin apart from each other, a calculated
variable between them and a sensor with two variables. The station needs nine readings: two
for each of the posts that may fail, before and after a reset, and a queue beside them; its
offset is shorter than the interval, so that a post falls between two readings. Lines of one
to four values are shorter than, as long as and longer than an array of three, and two widths
make a buffer keep the end of an older value. Of the time zone only the number of characters
matters: -5 stands for all that are printed with hours and minutes; section 4 says what UTC does. A reset time of 2100 seconds is a count of 262,
the smallest of a real interval with two bytes: a torn store shows there. Deadlock is
checked everywhere.

Fairness. `ReliableDelivery`: the firmware goes on (weak fairness of `Proceed`, nothing
else runs on the board), readings keep coming, and again and again the modem connects for
a pass that has a fresh reading (strong fairness of `StartPass(TRUE)` with `rdel # <<>>`):
the scheduler posts only in or after a cycle that took a reading, and without an accepted
post of a fresh line the code does not look at the queue. The server recovers in the end.
`delivery_live` has no limit on posts: when `PostMax` is smaller than the number of fresh
lines the last of them is stored without a post, the code takes that for a refusal, and
the queue is not retried in that pass (Ext 1081, 1102); with a backlog of that size in
every pass it never is. `Scheduler`: the logger goes on, minutes pass, at most
`MaxFailed` posts in a row fail (so `PostsRecur` is about the counters, not about the
network), and a time server that is asked for ever answers in the end.
`SensorArray`: the loop goes on, times elapse. `Modem`: the firmware goes on, nothing is
assumed of the module. `Station`: the firmware goes on, minutes pass, the server recovers
in the end; the battery is never too low for the sensors, and low for the modem at most
`MaxFailed` times in a row. From these weak fairness conditions alone TLC derives
`DrivesQueue`, all of the fairness that `ReliableDelivery` assumes, the strong one included:
a cycle gets on line again and again, and finds a reading in `RDELAY.TXT`, because the counter
that makes a post due counts readings which no pass has taken yet.

## 4. What the violations show

1. `NothingLost` under `delivery_two_publishers` — `RDELAY.TXT` is removed inside the loop
   over publishers (Ext 1091), so the second queued publisher finds no file.
2. `PostsRecur` under `schedule_offset` — the timer of the send offset is restarted at
   every second reading and never expires if it is longer than that.
3. `StoredIsTheReading` under `post_long` — a line that does not fit into the buffer of
   `QUEFILE_MAX_LINE` is cut before its line feed. `deszqNextCh` (Ext 1518) and
   `deszq_timeVariant_sz` (1493) each take one character off for the line feed that is not
   there, so the announced length agrees with the body, and the server stores the last value
   without its last digit. The line feed that is read next is no record (`deszLine` returns
   false), the loop over the file ends, and the file is removed with all lines behind it.

Other disagreements between the code and what its comments say, seen in the models:

- `deszRdelClose(true)` removes `RDELAY.TXT` (Ext 1091) before `serzQuedCloseFile` (1092) makes
  the queue durable, and between the two renames of a flush (1312, 1333) only `TMP01.TXT`,
  which nothing reads, holds the queue: a reset there loses readings. `LossOnlyInWindow`
  says, and the proof shows, that these and the moment before `serzRdel_Line` are the only
  windows.
- The flushed queue has one line more than `_sendQueSz_num` ("up to _sendQueSz_num, and then
  discard rest", Ext 1225). `QueBounded` shows that it is never more than one, without resets,
  for one publisher.
- A record that the server will never take holds up its queue, though the comment at Hext 209
  speaks of messages with which nothing can be done. `delivery` has such a record and shows
  that it makes nothing else go wrong.
- With two readings a post and an even number of intervals a day the posting cycles are never
  the first of the day, so the clock is not set ("Sync the clock at midnight or on the
  hour", Ext 885) unless testing, a failure or a low battery shifts them.
- `Sensor::update` sleeps the sensor if it *was* awake (`if (wasActive)`, SensorBase.cpp 370)
  and returns with the power on after a failed wake (349), against SensorBase.h 240-242.
  `NothingLeftOn` shows that the next `completeUpdate` or testing mode does cut that power.
- On the SAMD `forceSysReset` sets a count of 1 / 8 = 0, which the interrupt takes to
  2^32 - 1: the delay of 100 seconds ends and the function returns ("Expect watchdog to kick in
  within 8secs", Ext 774). `ForcedInTime` is stated for the AVR, where it holds.
- `_lastNISTrequest` is never assigned (LoggerModem.h 981), so the four seconds between two
  requests to the time server (LoggerModemMacros.h 473) are not kept.
- A set-up given up because the nested wake failed leaves `_hasBeenSetup` set (LoggerModem.cpp
  145): the modem is then used without its extra set-up. `FailedSetupIsRetried` is what
  does hold. The flag also stays when a set-up is done and the modem then fails to go back to sleep:
  `modemSetup` returns false (165), but the set-up was not refused.
- The measurements of the sensors on a pin are added in a `uint8_t` (VariableArray.cpp 573), and so
  is the count that is compared with the sum (800): from 256 on both wrap. `CountsFit` excludes it; section
  5 says what happens without.
- `calculateJsonSize` ("Calculates how long the JSON will be", EnviroDIYPublisher.cpp 73) announces 25
  characters for the time stamp (78). `formatDateTime_ISO8601` prints 20 in UTC (`Z` instead of
  `-05:00`, LoggerBase.cpp 603), which is the time zone of a logger that sets none (48). Every queued
  post of such a logger is announced five characters too long: the server waits for the rest
  and does not store it. With `LoggerTimeZone <- UTC` in the configuration of `post` (and the module
  `MCQueuedPostLimits`, which defines `UTC`) TLC finds `LengthsAgree` violated. With values of 1 or 4
  characters and lines of 2 or 3 it also finds `StoredIsTheReading` violated: a line of two values that follows a
  line of longer ones is posted for an array of three with what the older line has left in the buffer
  as its third value, and if the body gets five characters longer by it, these make up for the
  five that are missing. `StampAsAnnounced` is therefore a hypothesis of both theorems.
- With an array of one variable `deszLine` leaves the line feed in the only value (Ext 1490),
  the body is one longer than announced and the post is never accepted.

## 5. What is proved

For every value of the constants that the modules' assumptions allow:

| module | theorem | property | if |
|---|---|---|---|
| `ReliableDelivery_proofs` | `TypeCorrect` | `TypeOK` | |
| | `AlwaysBacked` | `Backed` | |
| | `LossesAreInWindow` | `LossOnlyInWindow` | |
| | `FirstIsReliable` | `FirstLosesNothing` | no resets, no limit on the queue |
| `ReliableDelivery_order_proofs` | `LinesAreDistinct` | `NoDuplicates` | |
| | `OrderIsKept` | `KeepsOrder` | |
| | `OnlyResetReturns` | `ReturnsOnlyByReset` | |
| | `NothingIsResent` | `NothingResent` | no resets |
| | `QueIsBounded` | `QueBounded` | no resets, one publisher |
| | `ContractIsKept` | `KeepsContract` | no resets, and one publisher or no limit |
| `Scheduler_proofs` | `TypeCorrect` | `TypeOK` | |
| | `BacklogIsBounded` | `BacklogBounded` | `Timely` |
| | `NoReadingIsSwallowed` | `PostSwallowsNoReading` | `PostsFit` |
| `Station_proofs` | `StationRunsQueue` | the station implements `ReliableDelivery!Spec` | |
| | `FileIsBounded` | `FileBounded` | `Timely` |
| `SensorArray_proofs` | `SensorArrayTypeCorrect` | `TypeOK` | |
| | `NeverMeasuredCold` | `NoColdMeasurement` | |
| | `NoPinLeftOn` | `NothingLeftOn` | |
| | `OffSensorsAreForgotten` | `OffIsForgotten` | `CountsFit` |
| | `PowerIsCutWhenDone` | `PowerCutWhenDone` | `CountsFit` |
| | `AllMeasurementsAsked` | `AskedInFull` | `CountsFit` |
| `QueuedPost_proofs` | `QueuedPostTypeCorrect` | `TypeOK` | |
| | `AcceptedLineIsStored` | `AcceptedIsStored` | |
| | `StoredPostIsTheReading` | `StoredIsTheReading` | `LinesFit`, `StampAsAnnounced` |
| | `AnnouncedIsPrinted` | `LengthsAgree` | `LinesFit`, `StampAsAnnounced`, more than one variable |
| | `NoLineStopsTheLoop` | `EveryLineIsRead` | `LinesFit` |
| `Modem_proofs` | `TypeCorrect` | `TypeOK` | |
| | `SetupDoesNotNest` | `CallsAreBounded` | |
| | `PowerIsOffAfterCycle` | `OffAfterCycle` | |
| | `JoiningIsAwake` | `JoinsAwake` | |
| | `RefusedIsSetUpAgain` | `FailedSetupIsRetried` | |
| `WatchDog_proofs` | `TypeCorrect` | `TypeOK` | |
| | `HangsAreCaught` | `HangIsCaught` | |
| | `NoResetIsEarly` | `NoEarlyReset` | |
| | `ForcedResetComes` | `ForcedInTime` | |

Every invariant that a run checks is a theorem. Few of them are inductive as they stand: each had to be strengthened to be inductive, and the
strengthenings were checked with TLC on small instances before they were proved.

**The queue: nothing is lost.** The invariant is `IndInv == TypeOK /\ Backed`. `TypeOK` by itself
is inductive; what matters is `Backed`, which says for each step of a pass that whatever is
only in RAM or in `TMP01.TXT` is also in a file that would be found after a reset. It is
needed because `Held(1)`, what can still be sent, is made of different pieces at different
steps: a reset replaces `tail \o rest` by `rdel`, or `tmp` by `que`, and nothing is lost only
because the one is in the other. Each action has a lemma that it preserves `IndInv`
(`IndInit`, `IndStep`, `IndAlways`). The `Keep...` lemmas then show, action by action, that an
unacknowledged reading of publisher 1 that is held before the step is held after it, unless
the step is one of the three exemptions of `LossOnlyInWindow`; the `HeldFirst...` lemmas compute
`Held(1)` at the steps, and the `ToSet...` lemmas say what concatenation, `Append`, `Head`,
`Tail` and `SubSeq` do to the set of a sequence's elements. `LossesAreInWindow` follows from
`StepKeeps`, and `FirstIsReliable` by induction from the same lemma, because under its two
assumptions no step is exempt.

**The queue: order and multiplicity.** Sets are not enough here. `Precedes(s, x, y)` says that x
stands before y in s, `Excerpt(s, t)` that s has some lines of t in t's order; that a line
precedes itself nowhere is the same as injectivity (`DistinctIsInjective`). `Ordered`, the
strengthening, says what every file would be after a reset or after going on, and that it has
no line twice. Every step but a reset and a new reading makes each publisher's `Unsent` an
excerpt of what it was (`StepShrinks`): order, multiplicity and "nothing comes back" are three
consequences of that. `NothingIsResent` needs `MaxResets = 0`, because a reset does bring
acknowledged lines back (a queue that has been retried and not flushed yet).

**The queue: limit and contract.** `QueBounded` says nothing of `desz_pending_records`, and is not
inductive without it: `Counted` relates the counter to the lengths of the files, equal or one
less, at every step. The counter is shared by the publishers and lost by a reset, which is why
the theorem asks for one publisher and no resets, and is false without. `ContractIsKept` maps
every step to a step of `DeliveryContract` or to none: a flush that drops lines is a `Discard`
and therefore needs the limit, an accepted post is an `Acknowledge`, a reading is a `Log`.

**The scheduler.** `TypeCorrect` needs that a running timer is not zero (`TimerRuns`), or its decrement
would wrap. `Waits(n)` follows a post from the reading that fills the count: of n readings only those
counted since wait (`Few`), or a post is on its way (`Many`) which is in hand or whose timer is
`Running`: started in an interval that has not ended, and with no more minutes left than the
interval has, where each press of the button may have taken those of testing. `Timely` says
that the constants make this possible:

- `SendEveryX <= 127`, because the count is an `int8_t`. The ini file accepts 0 to 30
  (iniHandler.h 862), `setSendEveryX` any `uint8_t`.
- `SendOffset + MaxPresses * (TestMax + 1) < Interval`, or no offset. `MaxPresses` counts every
  press there is. In an interval of 6 minutes with an offset of 2 and one minute of testing, one
  press is within it (the run `schedule`), and with two TLC finds `BacklogBounded` violated:
  testing stops the wakes that the timer counts, the next reading is taken while a post is
  still on its way, and goes with it.

`NoReadingIsSwallowed` needs a post that begins with the last possible expiry to end within the
interval (`PostsFit`: `LastPost + PassMax < Interval`). The run `schedule` has 4 + 1 < 6; with a
`PassMax` of 2 TLC finds `PostSwallowsNoReading` violated: testing puts the post off by two
minutes, it begins at minute 4 and is still under way when the next interval begins. The
invariant is `IntervalInv` with `TimerInv`: every timer is `Running` from the start of an
interval, because the caller's own cycle, which may begin at any minute, is the first
(`CallerIsFirst`) and cannot fill the count.

**The station.** Every step of the station but a reset is one of the scheduler or leaves it alone
(`SchedulerSteps`), and every one is one of the queue or leaves that alone (`QueueSteps`); from the
latter `StationRunsQueue` follows, and with it whatever is proved of `ReliableDelivery!Spec` holds
of the station's files. The invariants of the scheduler on its counters and its timer survive a
reset, but the one on its history `unposted` does not: a pass sets it to zero when it begins and the
file is removed only later, and a reset in between brings the readings back while the count starts
again. That is why the scheduler's lemmas are about any number n of readings that `Waits`. In
the station n is `Fresh`, the lines of `RDELAY.TXT` less one `Limit` for each reset: between passes
`Waits(Fresh)`, during one `Fresh <= Limit` and the file is gone from the step on that removes it
(`Emptied`), and at a reset what was fresh becomes old, so that nothing is fresh. `Timely` is the
hypothesis of `BacklogIsBounded`; without presses its second part is that the offset is shorter than
the interval.

**The sensor array.** Three invariants, each within the next. `LoopInv` is about the loop: the status
bits say of each sensor what it really does (`BitsAreTrue`), the cursor has passed what has
been handled (`CursorInv`), and completed measurements and finished sensors are counted
(`CountInv`). `TypeOK` and `NoColdMeasurement` follow from it. `PowerInv` adds that the count of a pin is
the sum of the measurements of the sensors on it, modulo 256 (`PinCounts`), and that a pin that
is HIGH in a complete update has a sensor on it that is not finished (`PinsHeld`); when all have
finished no pin is HIGH, which is `NothingLeftOn`. `StrongInv` adds, under `CountsFit`, that a
sensor that is not finished has power (`StillOn`), which needs that a sum of counts reaches its
limit only when every one of them does.

The sums are the community modules' `SumFunctionOnSet`, a recursion on sets. That it satisfies its
equation is proved (`SumExists`) from the well-foundedness of the order of the finite subsets:
otherwise there were a smallest set for which it does not. The other lemmas on sums come the same
way, by the smallest counterexample.

`CountsFit` says that the measurements of the sensors of one pin sum to at most 255. It is needed:
with three sensors on a pin that take 1, 128 and 128 measurements the sum is 257, a byte holds 1, and TLC
finds the pin cut after the first measurement of the first sensor. Then `PowerCutWhenDone`,
`OffIsForgotten` and `AskedInFull` are all violated. `NothingLeftOn` is not, and is proved without
it: the counts wrap as their limit does, so when all sensors have finished the two are equal
and the pin is cut, at the latest then.

**The queued post.** The buffer is an array of cells in which the functions of the C library look for
a comma, a line feed or a NUL. `LineLaid` says where those are in a line that has just been read, if it
fits: the comma that ends value i is at the sum of the widths before it and of the commas, and there is no
other. `FindInLine` says what a search from any position then finds, `CursorInLine` what
`deszqNextCh` therefore cuts out for variable i, `BodyInLine` and `BodyBehindLine` what the body
sums to when the line has as many values as the array has variables, or fewer. `UnderstoodIsTheLine` is the
point: if the announced length agrees with the body, the line had exactly one value for each
variable, and each stands under its own key. It needs the two time stamps to be equally long
(`StampAsAnnounced`, which holds of every time zone from -24 to 24 but UTC: `StampedZones`). The invariant
`FitInv` adds to `TypeOK` only that a buffer that is to be posted holds a whole line; what was in it
before does not matter any more. It asks nothing of the time zone, and `StoredIsTheReading` is
preserved under it (`StoredNext`).

`LinesFit` is that every line is shorter than `QUEFILE_MAX_LINE`; `post_long` shows what happens
otherwise, and section 4 says what happens in UTC, without `StampAsAnnounced`. `LengthsAgree` is false for an array
of one variable (section 4), hence its third hypothesis. `AcceptedIsStored` needs none of them: it is about the codes, and holds for any fourth byte
behind the three digits, and for lines that do not fit. `Body` and `Cursor` are recursive functions;
that they satisfy their equations is proved (`RunExists`) by induction on the naturals, which
is again the smallest counterexample.

**The modem.** `Shape` says which calls can be on the stack and what is known of the set-up flag and of
the pins in each of them. That a set-up does not nest follows, because `modemSetup` sets
`hasBeenSetup` before it calls `modemWake`, and that is in `Shape` and not in `CallsAreBounded`. There
is no assumption on what the module does.

**The watchdog.** `Shape` lists what can be left of each function of the watchdog (`todo`) and, for each
remainder, what the count, the timer and the time since the last clear have to do with each
other: in `AvrWatched` a count that may be torn lies only between a store and the clear that is
followed by two more; in `SamdWatched` an interrupt may have taken one from a count that was stored
before its clear. Every property follows from the entry for `todo = <<>>`.

**Model-checked only.** Liveness under fairness is beyond this prover: `QueuedIsDelivered`, `PostsRecur`,
`UpdateEnds`, `CycleEnds`, `CardArrives`, and the fairness in `DrivesQueue`, whose other half is
`StationRunsQueue`. So TLC alone shows that the polling loop of the sensors ends, that posts recur and
that what is queued arrives. The library's induction theorems take an operator as a parameter and
cannot be used here; where an argument needs induction, well-founded minimality (`WFMin`), which is
about sets, takes their place. No module has a RECURSIVE operator.

## 6. What is not modelled

- The drivers' registers and data formats, HTTP text, printing, menus, parsing of the ini
  file, the examples and applications (most of the repository's lines): no control that the
  properties are about. Values and averaging of measurements. The second power pin of a
  sensor.
- Faults of the card. The files of `ReliableDelivery` never fail to open or to be written. In
  the code they may, and the functions then return early with files left open: if
  `RDELAY.TXT` is lost under a pass, `fgets` returns -1, which `deszLine` takes for 65535
  characters; if `TMP01.TXT` cannot be opened, `serzQuedFile` stays open.
- The battery's voltage and its thresholds, which are compared once per cycle and keep no
  state: `Scheduler` allows every level in every cycle.
- The publishers other than EnviroDIY, and the transmit buffer, which `mmwPostDataQued` fills
  without looking at the room left (`mmwPostDataArray` looks).
- The RTC chips, epochs and time zones, but for the characters of a zone in a time stamp;
  registers and peripherals around sleep.

## 7. Plan

Done: `DeliveryContract`, `ReliableDelivery`, `Scheduler`, `SensorArray`, `Station`, `QueuedPost`,
`Modem`, `WatchDog`; every invariant that the runs check, every action property and the refinement of
the contract are proved. What a next step would take up:

1. Faults of the card as a module of its own on top of `ReliableDelivery`: files that do not open,
   writes that fail, and what the early returns of `serzQuedFlushFile` leave open.
2. The second power pin of a sensor in `SensorArray`.
3. `QueBounded` after a reset, with a bound that counts what a reset makes the firmware forget.
