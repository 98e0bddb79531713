------------------------------ MODULE SensorArray ------------------------------
(***************************************************************************)
(* Powering, waking and measuring many sensors together (VariableArray),   *)
(* and each of them alone (Sensor::update).                                *)
(*                                                                         *)
(* The sensors are polled: a loop visits every variable again and again    *)
(* and takes each sensor a step further as soon as the time since its last *)
(* step allows.  What has been done with a sensor is kept in its status    *)
(* bits and time stamps, not asked of the sensor; several sensors may hang *)
(* on one power pin.                                                       *)
(*                                                                         *)
(* A time stamp is "zero" (unset, so that any time has elapsed), "recent"  *)
(* or "past" (the time the sensor needs has elapsed).  The sensors         *)
(* themselves are external: phys is how far one really is.                 *)
(***************************************************************************)
EXTENDS Integers, FiniteSetsExt, SequencesExt

CONSTANTS
  Vars,        \* arrayOfVars: the parent sensor of each variable, or
  Calculated,  \* a variable that is calculated
  Pin,         \* _powerPin of each sensor, -1 for none
  ToAverage,   \* _measurementsToAverage of each sensor
  Commanded    \* the sensors woken and put to sleep by a command (YosemitechParent)

Slot == 1..Len(Vars)
Sensor == ToSet(Vars) \ {Calculated}

ASSUME ArrayAssumption ==
  /\ Vars \in Seq(Sensor \cup {Calculated})
  /\ Pin \in [Sensor -> (Nat \ {0}) \cup {-1}]
  /\ ToAverage \in [Sensor -> 1..255]
  /\ Commanded \subseteq Sensor

\* _sensorStatus: bits 0, 1 and 2 (always set together), 3, 4, 5 and 6
Bits == {"setup", "power", "wakeTried", "awake", "measTried", "measuring"}
Stamps == {"zero", "recent", "past"}

VARIABLES
  pc,         \* what the program is doing
  sensor,     \* _sensorStatus and the three time stamps of each sensor
  pinHigh,    \* the power pins that are HIGH
  phys,       \* each sensor: 0 unpowered, 1 powered, 2 warm, 3 woken, 4 stable
  at, stage,  \* the variable the loop is at, and the next thing to do for it
  completed,  \* nMeasurementsCompleted
  onPin,      \* nCompletedOnPin
  done,       \* nSensorsCompleted, nSensorsAwake
  asked       \* history: measurements asked of each sensor in this update

counts == <<completed, onPin, done>>
vars == <<pc, sensor, pinHigh, phys, at, stage, counts, asked>>

--------------------------------------------------------------------------------
(* Which variable stands for a sensor, and which for a power pin.          *)

IsLastVarFromSensor(i) ==
  Vars[i] # Calculated /\ \A j \in (i + 1)..Len(Vars) : Vars[j] # Vars[i]

lastSensorVariable == [i \in Slot |-> IsLastVarFromSensor(i)]

SensorCount == Cardinality({i \in Slot : lastSensorVariable[i]})

nMeasurementsToAverage ==
  [i \in Slot |-> IF lastSensorVariable[i] THEN ToAverage[Vars[i]] ELSE 0]

powerPins == [i \in Slot |-> IF lastSensorVariable[i] THEN Pin[Vars[i]] ELSE 0]

\* The two loops advance the same index, so each variable is compared with the next.
lastPinVariable ==
  [i \in Slot |-> \/ i = Len(Vars)
                  \/ lastSensorVariable[i] /\ powerPins[i] # powerPins[i + 1]]

\* Mutant of powerPinIndex: each variable stands for itself.
powerPinIndexOwn == [i \in Slot |-> i]

\* Of the variables that stand for one pin, the last one to be looked at takes over.
powerPinIndex ==
  [i \in Slot |->
     LET standing == {j \in Slot : lastPinVariable[j] /\ powerPins[j] = powerPins[i]}
     IN IF standing = {} THEN 1 ELSE Max(standing)]

UInt8(n) == n % 256

\* Mutant of nMeasurementsOnPin: the others on the pin are not counted.
nMeasurementsOnPinOwn == nMeasurementsToAverage

nMeasurementsOnPin ==
  [i \in Slot |->
     IF powerPinIndex[i] = i
       THEN UInt8(SumFunctionOnSet(nMeasurementsToAverage,
                                   {j \in Slot : powerPins[j] = powerPins[i]}))
       ELSE 0]

\* The counts of a pin are bytes: its sensors take at most 255 measurements together.
CountsFit ==
  \A i \in Slot : lastSensorVariable[i] /\ powerPins[i] >= 0 =>
    SumFunctionOnSet(nMeasurementsToAverage,
                     {j \in Slot : powerPins[j] = powerPins[i]}) <= 255

--------------------------------------------------------------------------------
(* The steps of one sensor, from its status and stamps x.                  *)

PowerUp(s, x) ==
  [x EXCEPT !.status = @ \cup {"power"},
            !.powerOn = IF Pin[s] >= 0 \/ (s \notin Commanded /\ @ = "zero")
                          THEN "recent" ELSE @]

\* Mutant of PowerDown: the status bits of the activation stay.
PowerDownKeepsAwake(s, x) ==
  IF Pin[s] >= 0
    THEN [status |-> x.status \ {"power", "measTried", "measuring"},
          powerOn |-> "zero", activated |-> "zero", requested |-> "zero"]
    ELSE x

PowerDown(s, x) ==
  IF Pin[s] >= 0
    THEN [status |-> x.status \cap {"setup"},
          powerOn |-> "zero", activated |-> "zero", requested |-> "zero"]
    ELSE x

IsOn(s) == Pin[s] < 0 \/ Pin[s] \in pinHigh

\* It looks at the pin and corrects the bits.
CheckPowerOn(s, x) ==
  IF IsOn(s)
    THEN [x EXCEPT !.status = @ \cup {"power"},
                   !.powerOn = IF @ = "zero" THEN "recent" ELSE @]
    ELSE [x EXCEPT !.status = @ \cap {"setup"}, !.powerOn = "zero"]

\* Answered: the sensor took the command to start, which only some need.
Wake(x, answered) ==
  IF "power" \in x.status /\ answered
    THEN [x EXCEPT !.status = @ \cup {"wakeTried", "awake"}, !.activated = "recent"]
    ELSE [x EXCEPT !.status = (@ \cup {"wakeTried"}) \ {"awake"}, !.activated = "zero"]

Answers(s) == IF s \in Commanded THEN BOOLEAN ELSE {TRUE}

StartMeasurement(x, answered) ==
  IF "awake" \in x.status /\ answered
    THEN [x EXCEPT !.status = @ \cup {"setup", "measTried", "measuring"},
                   !.requested = "recent"]
    ELSE [x EXCEPT !.status = (@ \cup {"setup", "measTried"}) \ {"measuring"},
                   !.requested = "zero"]

AddResult(x) == [x EXCEPT !.status = @ \ {"measTried", "measuring"}, !.requested = "zero"]

\* Only the command does anything, and not to a sensor that never was activated.
Stops(s, x) == s \in Commanded /\ IsOn(s) /\ x.activated # "zero"
Sleep(s, x, answered) ==
  CASE s \notin Commanded          -> x
    [] Stops(s, x) /\ answered     -> [CheckPowerOn(s, x) EXCEPT
                                         !.status = @ \cap {"setup", "power"},
                                         !.activated = "zero", !.requested = "zero"]
    [] s \in Commanded /\ ~(Stops(s, x) /\ answered) -> CheckPowerOn(s, x)

\* Mutant of IsWarmedUp: the time is not waited for.
IsWarmedUpAtOnce(x) == TRUE

IsWarmedUp(x) == "power" \notin x.status \/ x.powerOn # "recent"
IsStable(x) == "awake" \notin x.status \/ x.activated # "recent"
IsMeasurementComplete(x) == "measuring" \notin x.status \/ x.requested # "recent"

(* What becomes of the sensors when the pins change, they are woken, slept. *)
Powered(pins, level) ==
  [s \in Sensor |-> CASE Pin[s] < 0                        -> level[s]
                      [] Pin[s] >= 0 /\ Pin[s] \in pins    -> Max({level[s], 1})
                      [] Pin[s] >= 0 /\ Pin[s] \notin pins -> 0]

Woken(s) == [phys EXCEPT ![s] = IF @ >= 2 THEN 3 ELSE @]
Slept(s, answered) ==
  [phys EXCEPT ![s] = IF Stops(s, sensor[s]) /\ answered /\ @ >= 2 THEN 2 ELSE @]

--------------------------------------------------------------------------------
\* Pins start LOW; a sensor without a pin has always had power.
Init ==
  /\ pc = "boot"
  /\ sensor = [s \in Sensor |-> [status |-> {}, powerOn |-> "zero",
                                 activated |-> "zero", requested |-> "zero"]]
  /\ pinHigh = {}
  /\ phys = [s \in Sensor |-> IF Pin[s] < 0 THEN 2 ELSE 0]
  /\ at = 1 /\ stage = "wake"
  /\ completed = [i \in Slot |-> 0] /\ onPin = [i \in Slot |-> 0] /\ done = 0
  /\ asked = [s \in Sensor |-> 0]

\* A sensor whose setup failed is set up again when its first measurement is asked for.
SetupSensors ==
  /\ pc = "boot"
  /\ \E answered \in SUBSET Sensor :
       sensor' = [s \in Sensor |->
                    IF s \in answered
                      THEN [sensor[s] EXCEPT !.status = @ \cup {"setup"}]
                      ELSE sensor[s]]
  /\ pc' = "idle"
  /\ UNCHANGED <<pinHigh, phys, at, stage, counts, asked>>

--------------------------------------------------------------------------------
(* All sensors together: sensorsPowerUp, then the loops.                   *)

SensorPins == {Pin[s] : s \in Sensor} \ {-1}

SensorsPowerUp ==
  /\ sensor' = [s \in Sensor |-> PowerUp(s, sensor[s])]
  /\ pinHigh' = pinHigh \cup SensorPins
  /\ phys' = Powered(pinHigh', phys)

BeginLoop(loop) ==
  /\ pc' = loop
  /\ at' = 1 /\ stage' = "wake"
  /\ onPin' = [i \in Slot |-> 0]

CompleteUpdate ==
  /\ pc = "idle"
  /\ SensorsPowerUp
  /\ BeginLoop("complete")
  /\ completed' = [i \in Slot |-> 0] /\ done' = 0
  /\ asked' = [s \in Sensor |-> 0]

\* testingMode: power up, wake all, then update over and over.
BeginTesting ==
  /\ pc = "idle"
  /\ SensorsPowerUp
  /\ BeginLoop("waking")
  /\ done' = Cardinality({s \in Sensor : "wakeTried" \in sensor[s].status})
  /\ UNCHANGED <<completed, asked>>

\* updateAllSensors passes over the sensors that are not awake.
UpdateAllSensors ==
  /\ pc = "testing"
  /\ BeginLoop("updating")
  /\ completed' = [i \in Slot |->
                     IF lastSensorVariable[i] /\ "awake" \notin sensor[Vars[i]].status
                       THEN nMeasurementsToAverage[i] ELSE 0]
  /\ done' = Cardinality({s \in Sensor : "awake" \notin sensor[s].status})
  /\ asked' = [s \in Sensor |-> 0]
  /\ UNCHANGED <<sensor, pinHigh, phys>>

\* All are put to sleep, then all are powered down.
EndTesting ==
  /\ pc = "testing"
  /\ \E answered \in SUBSET Commanded :
       /\ sensor' = [s \in Sensor |-> PowerDown(s, Sleep(s, sensor[s], s \in answered))]
       /\ phys' = Powered({}, [s \in Sensor |-> Slept(s, s \in answered)[s]])
  /\ pinHigh' = pinHigh \ SensorPins
  /\ pc' = "idle"
  /\ UNCHANGED <<at, stage, counts, asked>>

--------------------------------------------------------------------------------
(* A visit of the loops to variable at.                                    *)

s_at == Vars[at]

NextVariable == at' = at + 1 /\ stage' = "wake"

CanWake == "wakeTried" \notin sensor[s_at].status /\ IsWarmedUp(sensor[s_at])

\* Mutant of Unfinished: one time too many.
UnfinishedOrDone == lastSensorVariable[at] /\ nMeasurementsToAverage[at] >= completed[at]

Unfinished == lastSensorVariable[at] /\ nMeasurementsToAverage[at] > completed[at]

PassOver ==
  /\ pc \in {"complete", "waking", "updating"} /\ at \in Slot /\ stage = "wake"
  /\ IF pc = "waking" THEN ~(lastSensorVariable[at] /\ CanWake) ELSE ~Unfinished
  /\ NextVariable
  /\ UNCHANGED <<pc, sensor, pinHigh, phys, counts, asked>>

\* One attempt to wake the sensor.
WakeSensor(answered) ==
  /\ answered \in Answers(s_at)
  /\ CanWake
  /\ sensor' = [sensor EXCEPT ![s_at] = Wake(@, answered)]
  /\ phys' = IF "awake" \in sensor'[s_at].status
               THEN Woken(s_at) ELSE phys

\* sensorsWake counts the attempt.
WakeInTurn ==
  /\ pc = "waking" /\ at \in Slot /\ lastSensorVariable[at]
  /\ \E answered \in BOOLEAN : WakeSensor(answered)
  /\ done' = done + 1
  /\ NextVariable
  /\ UNCHANGED <<pc, pinHigh, completed, onPin, asked>>

NoNeedToWake == ~CanWake /\ UNCHANGED <<sensor, phys>>

\* Mutant of WillNeverMeasure: nobody notices.
AlwaysMeasures(x) == FALSE

WillNeverMeasure(x) == "wakeTried" \in x.status /\ "awake" \notin x.status

\* completeUpdate gives up a sensor that was tried and did not wake.
WakeToMeasure ==
  /\ pc = "complete" /\ at \in Slot /\ stage = "wake" /\ Unfinished
  /\ NoNeedToWake \/ \E answered \in BOOLEAN : WakeSensor(answered)
  /\ IF WillNeverMeasure(sensor'[s_at])
       THEN /\ completed' = [completed EXCEPT ![at] = nMeasurementsToAverage[at]]
            /\ onPin' = [onPin EXCEPT ![powerPinIndex[at]] =
                            UInt8(@ + nMeasurementsToAverage[at])]
       ELSE UNCHANGED <<completed, onPin>>
  /\ stage' = "start"
  /\ UNCHANGED <<pc, pinHigh, at, done, asked>>

ReadyToMeasure == "awake" \in sensor[s_at].status /\ IsStable(sensor[s_at])

\* Mutant of Start: whether or not one is under way.
StartAgain ==
  /\ \/ pc = "complete" /\ at \in Slot /\ stage = "start"
     \/ pc = "updating" /\ at \in Slot /\ stage = "wake" /\ Unfinished
  /\ IF ReadyToMeasure
       THEN /\ \E answered \in BOOLEAN :
                 sensor' = [sensor EXCEPT ![s_at] = StartMeasurement(@, answered)]
            /\ asked' = [asked EXCEPT ![s_at] = @ + 1]
            /\ stage' = "collect"
       ELSE stage' = "finish" /\ UNCHANGED <<sensor, asked>>
  /\ UNCHANGED <<pc, pinHigh, phys, at, counts>>

\* Start a measurement unless one is under way.
Start ==
  /\ \/ pc = "complete" /\ at \in Slot /\ stage = "start"
     \/ pc = "updating" /\ at \in Slot /\ stage = "wake" /\ Unfinished
  /\ IF ReadyToMeasure
       THEN /\ IF "measTried" \in sensor[s_at].status
                 THEN UNCHANGED <<sensor, asked>>
                 ELSE /\ \E answered \in BOOLEAN :
                           sensor' = [sensor EXCEPT ![s_at] =
                                        StartMeasurement(@, answered)]
                      /\ asked' = [asked EXCEPT ![s_at] = @ + 1]
            /\ stage' = "collect"
       ELSE stage' = "finish" /\ UNCHANGED <<sensor, asked>>
  /\ UNCHANGED <<pc, pinHigh, phys, at, counts>>

\* Fetch the result if it is there; that of a start that failed always is.
Collect ==
  /\ stage = "collect"
  /\ IF IsMeasurementComplete(sensor[s_at])
       THEN /\ sensor' = [sensor EXCEPT ![s_at] = AddResult(@)]
            /\ completed' = [completed EXCEPT ![at] = @ + 1]
            /\ onPin' = IF pc = "complete"
                          THEN [onPin EXCEPT ![powerPinIndex[at]] = UInt8(@ + 1)]
                          ELSE onPin
       ELSE UNCHANGED <<sensor, completed, onPin>>
  /\ stage' = "finish"
  /\ UNCHANGED <<pc, pinHigh, phys, at, done, asked>>

AllMeasured == completed[at] = nMeasurementsToAverage[at]

StillMeasuring ==
  /\ stage = "finish" /\ ~AllMeasured
  /\ NextVariable
  /\ UNCHANGED <<pc, sensor, pinHigh, phys, counts, asked>>

\* updateAllSensors leaves the sensor as it is.
FinishAwake ==
  /\ pc = "updating" /\ stage = "finish" /\ AllMeasured
  /\ done' = done + 1
  /\ NextVariable
  /\ UNCHANGED <<pc, sensor, pinHigh, phys, completed, onPin, asked>>

\* The sensors whose power goes with that of variable i.
group ==
  [i \in Slot |-> {Vars[j] : j \in {k \in Slot : /\ lastSensorVariable[k]
                                               /\ powerPinIndex[k] = powerPinIndex[i]}}]

\* completeUpdate puts it to sleep, and powers its pin down when the last on it is done.
FinishAsleep ==
  /\ pc = "complete" /\ stage = "finish" /\ AllMeasured
  /\ LET off == IF onPin[powerPinIndex[at]] = nMeasurementsOnPin[powerPinIndex[at]]
                  THEN group[at] ELSE {}
         pins == pinHigh \ {Pin[s] : s \in off}
     IN /\ pinHigh' = pins
        /\ \E answered \in Answers(s_at) :
          LET slept == [sensor EXCEPT ![s_at] = Sleep(s_at, @, answered)]
          IN /\ sensor' = [s \in Sensor |-> IF s \in off THEN PowerDown(s, slept[s])
                                            ELSE slept[s]]
             /\ phys' = Powered(pins, Slept(s_at, answered))
  /\ done' = done + 1
  /\ NextVariable
  /\ UNCHANGED <<pc, completed, onPin, asked>>

\* A pass over the variables is over; once all sensors are counted, so is the loop.
EndPass ==
  /\ pc \in {"complete", "waking", "updating"} /\ at = Len(Vars) + 1
  /\ at' = 1
  /\ pc' = IF done < SensorCount THEN pc
           ELSE IF pc = "complete" THEN "idle" ELSE "testing"
  /\ UNCHANGED <<sensor, pinHigh, phys, stage, counts, asked>>

--------------------------------------------------------------------------------
(* One sensor alone, with every wait in between: Sensor::update.           *)

PowerWaited(x) == [x EXCEPT !.powerOn = IF @ = "recent" THEN "past" ELSE @]
Stabilized(x) == [x EXCEPT !.activated = IF @ = "recent" THEN "past" ELSE @]
Measured(x) == AddResult(StartMeasurement(Stabilized(x), TRUE))

\* The sensor once it has power.
PoweredAlone(s) ==
  LET x == CheckPowerOn(s, sensor[s]) IN IF IsOn(s) THEN x ELSE PowerUp(s, x)

WasActive(s) == "wakeTried" \in PoweredAlone(s).status

\* A sensor that was active is measured as it is, and then put to sleep.
UpdateActive(s) ==
  /\ pc = "idle" /\ WasActive(s)
  /\ LET x == Measured(PoweredAlone(s))
     IN \E answered \in Answers(s) :
          /\ sensor' = [sensor EXCEPT ![s] = Sleep(s, x, answered)]
          /\ phys' = [phys EXCEPT ![s] = IF Stops(s, x) /\ answered /\ @ >= 2 THEN 2
                                         ELSE IF @ = 3 THEN 4 ELSE @]
  /\ UNCHANGED <<pc, pinHigh, at, stage, counts, asked>>

\* One that was not is warmed up and woken, and powered down if it was off.
UpdateInactive(s) ==
  /\ pc = "idle" /\ ~WasActive(s)
  /\ LET x == Measured(Wake(PowerWaited(PoweredAlone(s)), TRUE))
     IN IF IsOn(s)
          THEN /\ sensor' = [sensor EXCEPT ![s] = x]
               /\ phys' = [phys EXCEPT ![s] = 4]
          ELSE /\ sensor' = [sensor EXCEPT ![s] = PowerDown(s, x)]
               /\ UNCHANGED phys
  /\ UNCHANGED <<pc, pinHigh, at, stage, counts, asked>>

\* It bails when the sensor does not wake, and leaves it with power.
UpdateFails(s) ==
  /\ pc = "idle" /\ ~WasActive(s)
  /\ FALSE \in Answers(s)
  /\ sensor' = [sensor EXCEPT ![s] = Wake(PowerWaited(PoweredAlone(s)), FALSE)]
  /\ pinHigh' = pinHigh \cup ({Pin[s]} \ {-1})
  /\ phys' = [Powered(pinHigh', phys) EXCEPT ![s] = Max({@, 2})]
  /\ UNCHANGED <<pc, at, stage, counts, asked>>

--------------------------------------------------------------------------------
(* Time passes: for a sensor's warm-up, its stabilization, its measurement. *)

WarmUpElapses(s) ==
  /\ sensor[s].powerOn = "recent" \/ phys[s] = 1
  /\ sensor' = [sensor EXCEPT ![s].powerOn = IF @ = "recent" THEN "past" ELSE @]
  /\ phys' = [phys EXCEPT ![s] = IF @ = 1 THEN 2 ELSE @]
  /\ UNCHANGED <<pc, pinHigh, at, stage, counts, asked>>

StabilizationElapses(s) ==
  /\ sensor[s].activated = "recent" \/ phys[s] = 3
  /\ sensor' = [sensor EXCEPT ![s].activated = IF @ = "recent" THEN "past" ELSE @]
  /\ phys' = [phys EXCEPT ![s] = IF @ = 3 THEN 4 ELSE @]
  /\ UNCHANGED <<pc, pinHigh, at, stage, counts, asked>>

MeasurementElapses(s) ==
  /\ sensor[s].requested = "recent"
  /\ sensor' = [sensor EXCEPT ![s].requested = "past"]
  /\ UNCHANGED <<pc, pinHigh, phys, at, stage, counts, asked>>

--------------------------------------------------------------------------------
(* What the program calls, and what it then does by itself. *)
Call ==
  \/ SetupSensors \/ CompleteUpdate
  \/ BeginTesting \/ UpdateAllSensors \/ EndTesting
  \/ \E s \in Sensor : UpdateActive(s) \/ UpdateInactive(s) \/ UpdateFails(s)

Proceed ==
  \/ PassOver \/ WakeInTurn
  \/ WakeToMeasure \/ Start \/ Collect
  \/ StillMeasuring \/ FinishAwake \/ FinishAsleep
  \/ EndPass

Elapse == \E s \in Sensor : \/ WarmUpElapses(s) \/ StabilizationElapses(s)
                            \/ MeasurementElapses(s)

Next == Call \/ Proceed \/ Elapse

Spec == Init /\ [][Next]_vars

(* The loops run on, and time passes. *)
Fairness ==
  /\ WF_vars(Proceed)
  /\ \A s \in Sensor : /\ WF_vars(WarmUpElapses(s))
                       /\ WF_vars(StabilizationElapses(s))
                       /\ WF_vars(MeasurementElapses(s))

FairSpec == Spec /\ Fairness

--------------------------------------------------------------------------------
TypeOK ==
  /\ pc \in {"boot", "idle", "complete", "waking", "testing", "updating"}
  /\ sensor \in [Sensor -> [status : SUBSET Bits, powerOn : Stamps,
                            activated : Stamps, requested : Stamps]]
  /\ pinHigh \subseteq SensorPins
  /\ phys \in [Sensor -> 0..4]
  /\ at \in 1..(Len(Vars) + 1) /\ stage \in {"wake", "start", "collect", "finish"}
  /\ completed \in [Slot -> 0..255] /\ onPin \in [Slot -> 0..255]
  /\ done \in 0..SensorCount
  /\ asked \in [Sensor -> Nat]

\* However loops, testing and single updates follow on one another, a sensor whose pin
\* is LOW is not taken for one that is awake or measuring: the next update wakes it.
OffIsForgotten ==
  \A s \in Sensor : ~IsOn(s) => sensor[s].status \subseteq {"setup"}

\* A measurement runs only on a sensor that really has power, is warm, was woken since
\* and is stable: bits and stamps never run ahead of the sensor.
NoColdMeasurement ==
  \A s \in Sensor : "measuring" \in sensor[s].status => phys[s] = 4

\* completeUpdate cuts a power pin only after the last measurement of every sensor on it.
PowerCutWhenDone ==
  [][pc = "complete" =>
       \A i \in Slot : /\ lastSensorVariable[i]
                       /\ Pin[Vars[i]] \in pinHigh \ pinHigh'
                       => completed[i] = nMeasurementsToAverage[i]]_vars

\* completeUpdate and testingMode leave no power pin HIGH, one that a failed update
\* had left on included.
NothingLeftOn == [][pc # "idle" /\ pc' = "idle" => pinHigh' = {}]_vars

\* When completeUpdate is over each sensor has been asked for all of its measurements,
\* or for none at all.
AskedInFull ==
  [][pc = "complete" /\ pc' = "idle" =>
       \A s \in Sensor : asked[s] \in {0, ToAverage[s]}]_vars

\* completeUpdate ends, whatever the sensors answer: the loop waits for a count.
UpdateEnds == pc = "complete" ~> pc = "idle"
================================================================================
