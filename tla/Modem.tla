---------------------------------- MODULE Modem ----------------------------------
(***************************************************************************)
(* The modem through the calls that use it (loggerModem, the functions that *)
(* LoggerModemMacros.h makes for every modem, and their callers in Logger). *)
(*                                                                         *)
(* modemWake, modemSetup and connectInternet call one another; stack holds  *)
(* their calls, the caller's last, and ret the result of the call that has  *)
(* just returned.  The module itself is external: it may come up asleep,    *)
(* awake or unresponsive (hung), and what the firmware knows of it is a pin *)
(* or an answer.  Waits of fixed length and the modem's LED are left out.   *)
(***************************************************************************)
EXTENDS Naturals, Sequences

CONSTANTS
  Kinds,       \* the modems considered: which pins there are, how being awake shows
  NistTries,   \* attempts to get the time (4 or 12)
  TestUpdates  \* rounds of testing mode (25)

ASSUME ModemAssumption ==
  /\ Kinds \subseteq [power : BOOLEAN, reset : BOOLEAN, shows : {"pin", "status", "answer"}]
  /\ {NistTries, TestUpdates} \subseteq Nat \ {0}

VARIABLES
  kind,
  module,        \* the module: off, asleep, awake or hung
  wakePin,       \* the sleep request pin is at its wake level
  powerOn,       \* _millisPowerOn is not 0
  pinModesSet,   \* _pinModesSet
  hasBeenSetup,  \* _hasBeenSetup
  stack, ret,
  lastSetup,     \* history: how set-up ended last
  leftOn         \* history: syncRTC did not turn the modem off

hardware == <<module, wakePin>>
flags == <<powerOn, pinModesSet, hasBeenSetup>>
history == <<lastSetup, leftOn>>
vars == <<kind, hardware, flags, stack, ret, history>>

Callers == {"logDataAndPubReliably", "syncRTC", "testingMode"}

Frame(fn) == [fn |-> fn, at |-> "begin", count |-> 0, ok |-> TRUE,
              wasPowered |-> TRUE, wasAwake |-> TRUE]

Init ==
  /\ kind \in Kinds
  /\ module = IF kind.power THEN "off" ELSE "asleep"
  /\ wakePin = FALSE
  /\ powerOn = FALSE /\ pinModesSet = FALSE /\ hasBeenSetup = FALSE
  /\ stack = <<>> /\ ret = TRUE
  /\ lastSetup = "none" /\ leftOn = FALSE

--------------------------------------------------------------------------------
(* Calls.                                                                  *)

Top == Head(stack)
At(fn, at) == stack # <<>> /\ Top.fn = fn /\ Top.at = at
Goto(frame) == stack' = <<frame>> \o Tail(stack) /\ UNCHANGED ret
Call(fn, frame) == stack' = <<Frame(fn), frame>> \o Tail(stack) /\ UNCHANGED ret
Return(value) == stack' = Tail(stack) /\ ret' = value
To(at) == [Top EXCEPT !.at = at]

--------------------------------------------------------------------------------
(* The module and its pins.                                                *)

Up == {"asleep", "awake", "hung"}

Shows(m, pin) == CASE kind.shows = "pin"    -> pin
                   [] kind.shows = "status" -> m \in {"awake", "hung"}
                   [] kind.shows = "answer" -> m = "awake"

isModemAwake == Shows(module, wakePin)

\* The module as modemPowerUp leaves it, if it has to be powered.
PoweredModule == IF ~powerOn /\ kind.power THEN Up ELSE {module}
PoweredPin == wakePin /\ (powerOn \/ ~kind.power)

modemSleep ==
  /\ module' \in IF isModemAwake THEN {"asleep", module} ELSE {module}
  /\ wakePin' = FALSE

\* What modemSleep returns: the sleep function, which may fail, runs only if the modem
\* looks awake.
SleepResults == IF isModemAwake THEN BOOLEAN ELSE {TRUE}

\* modemSleep, whose result is ignored here, then the power pin; the result is TRUE.
modemSleepPowerDown ==
  /\ module' \in IF kind.power THEN {"off"}
                 ELSE IF isModemAwake THEN {"asleep", module} ELSE {module}
  /\ wakePin' = FALSE
  /\ powerOn' = (powerOn /\ ~kind.power)

\* A module that was slow or stuck comes up by itself.
Recover ==
  /\ module \in {"asleep", "hung"} /\ stack # <<>>
  /\ module' = "awake"
  /\ UNCHANGED <<kind, wakePin, flags, stack, ret, history>>

--------------------------------------------------------------------------------
(* modemWake.                                                              *)

\* Power, pin modes, and the wake function if the modem does not look awake.
WakeBegin ==
  /\ At("modemWake", "begin")
  /\ powerOn' = TRUE /\ pinModesSet' = TRUE
  /\ \E m \in PoweredModule :
       LET pin == PoweredPin /\ pinModesSet IN
         IF Shows(m, pin) THEN module' = m /\ wakePin' = pin
                          ELSE module' \in Up /\ wakePin' = (kind.shows = "pin")
  /\ Goto(To("test"))
  /\ UNCHANGED <<kind, hasBeenSetup, history>>

WakeAnswer ==
  /\ At("modemWake", "test") /\ module = "awake"
  /\ Goto([Top EXCEPT !.ok = TRUE, !.at = "tested"])
  /\ UNCHANGED <<kind, hardware, flags, history>>

\* Mutant of AfterReset: resets are not counted.
AfterResetUncounted == [Top EXCEPT !.ok = FALSE]

\* Mutant of AfterReset: there is no limit on the resets.
AfterResetEndless == [Top EXCEPT !.ok = FALSE, !.count = @ + 1]

\* After the second reset the modem is not tested again.
AfterReset == [Top EXCEPT !.ok = FALSE, !.count = @ + 1,
                          !.at = IF Top.count = 1 THEN "tested" ELSE @]

\* A modem that does not answer is reset, if there is a pin for it.
WakeNoAnswer ==
  /\ At("modemWake", "test")
  /\ \/ /\ kind.reset
        /\ module' \in Up
        /\ Goto(AfterReset)
     \/ /\ module' = IF module = "awake" THEN "hung" ELSE module
        /\ Goto([Top EXCEPT !.ok = FALSE, !.at = "tested"])
  /\ UNCHANGED <<kind, wakePin, flags, history>>

WakeCallsSetup ==
  /\ At("modemWake", "tested") /\ ~hasBeenSetup
  /\ Call("modemSetup", To("set up"))
  /\ UNCHANGED <<kind, hardware, flags, history>>

\* The result is then setup's alone.
WakeReturnsSetup ==
  /\ At("modemWake", "set up")
  /\ Return(ret)
  /\ UNCHANGED <<kind, hardware, flags, history>>

WakeInit ==
  /\ At("modemWake", "tested") /\ hasBeenSetup
  /\ \E ready \in BOOLEAN : /\ ready => module = "awake"
                            /\ Return(Top.ok /\ ready)
  /\ UNCHANGED <<kind, hardware, flags, history>>

--------------------------------------------------------------------------------
(* modemSetup.                                                             *)

\* Mutant of FlagDuringSetup: set when set-up is complete.
FlagDuringSetupLate == hasBeenSetup

\* "Set flag FIRST to stop infinite loop between modemSetup() and modemWake()".
FlagDuringSetup == TRUE

SetupBegin ==
  /\ At("modemSetup", "begin")
  /\ hasBeenSetup' = FlagDuringSetup
  /\ powerOn' = TRUE
  /\ module' \in PoweredModule /\ wakePin' = PoweredPin
  /\ LET frame == [Top EXCEPT !.wasPowered = powerOn, !.wasAwake = Shows(module', wakePin')]
     IN IF frame.wasAwake THEN Goto([frame EXCEPT !.at = "extra"])
                          ELSE Call("modemWake", [frame EXCEPT !.at = "woken"])
  /\ UNCHANGED <<kind, pinModesSet, history>>

\* A set-up given up because the modem did not wake leaves the flag set.
SetupWoken ==
  /\ At("modemSetup", "woken")
  /\ IF ret THEN Goto(To("extra")) /\ UNCHANGED lastSetup
            ELSE Goto([Top EXCEPT !.ok = FALSE, !.at = "close"]) /\ lastSetup' = "given up"
  /\ UNCHANGED <<kind, hardware, flags, leftOn>>

ExtraSetupSucceeds ==
  /\ At("modemSetup", "extra") /\ module = "awake"
  /\ lastSetup' = "done"
  /\ Goto(To("close"))
  /\ UNCHANGED <<kind, hardware, flags, leftOn>>

\* Mutant of FlagAfterFailure: the flag is not taken back.
FlagAfterFailureKept == hasBeenSetup

FlagAfterFailure == FALSE

\* Some modems are reset when they cannot be set up.
ExtraSetupFails ==
  /\ At("modemSetup", "extra")
  /\ lastSetup' = "failed"
  /\ hasBeenSetup' = FlagAfterFailure
  /\ module' \in IF kind.reset THEN Up ELSE {module}
  /\ Goto([Top EXCEPT !.ok = FALSE, !.at = "close"])
  /\ UNCHANGED <<kind, wakePin, powerOn, pinModesSet, leftOn>>

\* The modem is left as it was found.  A sleep that fails makes the set-up one that failed,
\* though its flag stays.
SetupClose ==
  /\ At("modemSetup", "close")
  /\ \/ ~Top.wasPowered /\ modemSleepPowerDown /\ Return(Top.ok)
     \/ /\ Top.wasPowered /\ ~Top.wasAwake
        /\ modemSleep /\ UNCHANGED powerOn
        /\ \E slept \in SleepResults : Return(Top.ok /\ slept)
     \/ /\ Top.wasPowered /\ Top.wasAwake
        /\ UNCHANGED <<hardware, powerOn>> /\ Return(Top.ok)
  /\ UNCHANGED <<kind, pinModesSet, hasBeenSetup, history>>

--------------------------------------------------------------------------------
(* connectInternet.                                                        *)

\* Mutant of ConnectWakes: the caller has woken the modem.
ConnectWakesNever(awake) == FALSE

ConnectWakes(awake) == ~awake

ConnectBegin ==
  /\ At("connectInternet", "begin")
  /\ powerOn' = TRUE
  /\ module' \in PoweredModule /\ wakePin' = PoweredPin
  /\ IF ConnectWakes(Shows(module', wakePin')) THEN Call("modemWake", To("woken"))
                                               ELSE Goto(To("join"))
  /\ UNCHANGED <<kind, pinModesSet, hasBeenSetup, history>>

ConnectWoken ==
  /\ At("connectInternet", "woken")
  /\ IF ret THEN Goto(To("join")) ELSE Return(FALSE)
  /\ UNCHANGED <<kind, hardware, flags, history>>

\* The network is found in time or not.
Join ==
  /\ At("connectInternet", "join")
  /\ \E found \in BOOLEAN : (found => module = "awake") /\ Return(found)
  /\ UNCHANGED <<kind, hardware, flags, history>>

--------------------------------------------------------------------------------
(* The callers.                                                            *)

Start(caller) ==
  /\ stack = <<>>
  /\ stack' = <<Frame("modemWake"), [Frame(caller) EXCEPT !.at = "woken"]>>
  /\ UNCHANGED <<kind, hardware, flags, ret, history>>

AtCaller(at) == stack # <<>> /\ Top.fn \in Callers /\ Top.at = at

CallerWoken ==
  /\ AtCaller("woken")
  /\ IF ret THEN Call("connectInternet", To("connected"))
            ELSE Goto([Top EXCEPT !.ok = FALSE, !.at = "leave"])
  /\ UNCHANGED <<kind, hardware, flags, history>>

CallerConnected ==
  /\ AtCaller("connected")
  /\ Goto(IF ~ret THEN [Top EXCEPT !.ok = FALSE, !.at = "leave"]
          ELSE IF Top.fn = "testingMode" THEN To("metadata") ELSE To("online"))
  /\ UNCHANGED <<kind, hardware, flags, history>>

\* Publishers have had their turn; no sync of the clock is due.
NoNist ==
  /\ AtCaller("online") /\ Top.fn = "logDataAndPubReliably"
  /\ Goto(To("metadata"))
  /\ UNCHANGED <<kind, hardware, flags, history>>

\* getNISTTime waits while millis() < _lastNISTrequest + 4000, but nothing ever sets
\* _lastNISTrequest, which stays 0: there is no wait once the board is up.
AskNist ==
  /\ AtCaller("online") /\ Top.count < NistTries
  /\ \/ Goto([Top EXCEPT !.count = 0, !.at = "metadata"])
     \/ Goto([Top EXCEPT !.count = @ + 1])
  /\ UNCHANGED <<kind, hardware, flags, history>>

NistFails ==
  /\ AtCaller("online") /\ Top.count = NistTries
  /\ Goto([Top EXCEPT !.count = 0, !.at = "metadata"])
  /\ UNCHANGED <<kind, hardware, flags, history>>

\* The XBee Wifi may restart itself here; testing does not look whether it did.
updateModemMetadata ==
  /\ AtCaller("metadata")
  /\ module' \in {module} \cup (IF kind.shows = "pin" THEN Up ELSE {})
  /\ Goto(IF Top.fn = "testingMode" /\ Top.count < TestUpdates - 1
          THEN [Top EXCEPT !.count = @ + 1] ELSE To("leave"))
  /\ UNCHANGED <<kind, wakePin, flags, history>>

\* Mutant of TurnsOff: only if the modem was on line.
TurnsOffOnline(early) == Top.ok

\* syncRTC leaves the modem on in the first 15 seconds of a logging interval.
TurnsOff(early) == ~(Top.fn = "syncRTC" /\ early)

Leave(early) ==
  /\ AtCaller("leave")
  /\ IF TurnsOff(early) THEN modemSleepPowerDown ELSE UNCHANGED <<hardware, powerOn>>
  /\ leftOn' = (Top.fn = "syncRTC" /\ early)
  /\ Return(Top.ok)
  /\ UNCHANGED <<kind, pinModesSet, hasBeenSetup, lastSetup>>

--------------------------------------------------------------------------------
Proceed ==
  \/ WakeBegin \/ WakeAnswer \/ WakeNoAnswer
  \/ WakeCallsSetup \/ WakeReturnsSetup \/ WakeInit
  \/ SetupBegin \/ SetupWoken \/ ExtraSetupSucceeds \/ ExtraSetupFails \/ SetupClose
  \/ ConnectBegin \/ ConnectWoken \/ Join
  \/ CallerWoken \/ CallerConnected
  \/ NoNist \/ AskNist \/ NistFails \/ updateModemMetadata
  \/ \E early \in BOOLEAN : Leave(early)

Next ==
  \/ Proceed
  \/ \E caller \in Callers : Start(caller)
  \/ Recover

Spec == Init /\ [][Next]_vars

FairSpec == Spec /\ WF_vars(Proceed)

--------------------------------------------------------------------------------
CountMax == CHOOSE n \in {2, NistTries, TestUpdates} : {2, NistTries, TestUpdates} \subseteq 0..n

Places == {"begin", "test", "tested", "set up", "woken", "extra", "close", "join",
           "connected", "online", "metadata", "leave"}

\* The types of the variables; the stack holds calls that exist, and no loop runs past
\* its count of resets, of requests to the time server or of rounds of testing.
TypeOK ==
  /\ kind \in Kinds
  /\ module \in {"off", "asleep", "awake", "hung"} /\ lastSetup \in {"none", "done", "failed", "given up"}
  /\ {wakePin, powerOn, pinModesSet, hasBeenSetup, ret, leftOn} \subseteq BOOLEAN
  /\ \A i \in 1..Len(stack) :
       stack[i] \in [fn : Callers \cup {"modemWake", "modemSetup", "connectInternet"},
                    at : Places, count : 0..CountMax, ok : BOOLEAN,
                    wasPowered : BOOLEAN, wasAwake : BOOLEAN]

\* modemWake and modemSetup call each other, but set-up never runs inside set-up.
CallsAreBounded ==
  /\ Len(stack) <= 4
  /\ \A i, j \in 1..Len(stack) : stack[i].fn = "modemSetup" /\ stack[j].fn = "modemSetup" => i = j

\* However a cycle went, the modem has no power after it, unless a sync left it on.
OffAfterCycle == stack = <<>> /\ kind.power /\ ~leftOn => ~powerOn /\ module = "off"

\* modemWake may report success for a modem that set-up has put back to sleep, and a
\* set-up inside connectInternet would leave it so; yet the network is never joined with
\* a modem that shows no sign of being awake.
JoinsAwake == At("connectInternet", "join") => Shows(module, wakePin)

\* A modem that refused to be set up is not used before set-up was tried again.
FailedSetupIsRetried == AtCaller("online") => lastSetup # "failed"

\* Whatever the modem does, a cycle comes to its end.
CycleEnds == stack # <<>> ~> stack = <<>>
================================================================================
