-------------------------------- MODULE WatchDog --------------------------------
(***************************************************************************)
(* The extended watchdog (extendedWatchDogAVR, extendedWatchDogSAMD) and    *)
(* the program it watches.                                                  *)
(*                                                                         *)
(* The hardware timer interrupts every 8 seconds.  The interrupt counts     *)
(* down _barksUntilReset and resets the board when nothing is left.  The    *)
(* program restarts the timer and the count with resetWatchDog.  On the AVR *)
(* the count is stored in two instructions, the high byte first, and the    *)
(* interrupt may come between them.                                         *)
(*                                                                         *)
(* Time is in seconds.  Only the program's calls of the watchdog are        *)
(* modelled: nothing makes it go on, so a program that hangs is a behaviour *)
(* like any other.  The timer and the alarm that ends a sleep are external. *)
(***************************************************************************)
EXTENDS Integers, Sequences

CONSTANTS
  Boards,    \* the boards considered
  Interval,  \* _loggingIntervalMinutes
  UIntMax    \* the largest count of a SAMD board (2^32 - 1)

LoggerTime == (Interval + 5) * 60

IntMax == 32767   \* the largest count of an AVR board

ASSUME WatchDogAssumption ==
  /\ Boards \subseteq {"AVR", "SAMD"}
  /\ Interval \in Nat \ {0}
  /\ UIntMax \in Nat /\ LoggerTime <= UIntMax * 8 /\ LoggerTime <= IntMax * 8

VARIABLES
  board,
  pc,         \* what the program does: boot, awake, asleep, forcing; or bitten
  todo,       \* what is left of the watchdog's function that it called
  resetTime,  \* _resetTime_s
  barks,      \* _barksUntilReset, an int16_t (AVR) or a uint32_t (SAMD)
  on,         \* the timer runs
  phase,      \* its seconds
  waited,     \* seconds of the delay in forceSysReset
  unpetted    \* history: seconds that the timer ran since the program last cleared it

vars == <<board, pc, todo, resetTime, barks, on, phase, waited, unpetted>>

Barks == resetTime \div 8

Init ==
  /\ board \in Boards
  /\ pc = "boot" /\ todo = <<>>
  /\ resetTime = 0 /\ barks = 0
  /\ on = FALSE /\ phase = 0
  /\ waited = 0 /\ unpetted = 0

--------------------------------------------------------------------------------
(* The watchdog's functions, as the stores and register writes they make.  *)

Store == IF board = "AVR" THEN <<"high", "low">> ELSE <<"count">>

setupWatchDog == IF board = "AVR" THEN Store ELSE Store \o <<"off">>

\* The AVR stores the count only if it has changed, which saves time and nothing else.
resetWatchDog == IF board = "AVR" THEN <<"clear">> \o Store ELSE Store \o <<"clear">>

enableWatchDog == IF board = "AVR" THEN <<"on">> \o Store ELSE resetWatchDog \o <<"on">>

disableWatchDog == <<"off">>

\* One instruction of a function.
Execute ==
  /\ todo # <<>>
  /\ todo' = Tail(todo)
  /\ LET op == Head(todo) IN
       /\ barks' = CASE op = "high"  -> ((Barks \div 256) * 256) + (barks % 256)
                     [] op = "low"   -> ((barks \div 256) * 256) + (Barks % 256)
                     [] op = "count" -> Barks
                     [] OTHER        -> barks
       /\ on' = (op = "on" \/ (on /\ op # "off"))
       /\ IF op \in {"clear", "off"} THEN phase' = 0 /\ unpetted' = 0
                                     ELSE UNCHANGED <<phase, unpetted>>
  /\ UNCHANGED <<board, pc, resetTime, waited>>

--------------------------------------------------------------------------------
(* The program.                                                            *)

Call(functions) ==
  /\ todo' = functions
  /\ UNCHANGED <<board, barks, on, phase, unpetted>>

\* Called early by the applications that may take long to come up.
startFixedWatchdog ==
  /\ pc = "boot" /\ todo = <<>>
  /\ resetTime' = 5 * 60
  /\ pc' = "awake"
  /\ Call(setupWatchDog \o enableWatchDog)
  /\ UNCHANGED waited

begin ==
  /\ pc \in {"boot", "awake"} /\ todo = <<>>
  /\ resetTime \in {0, 5 * 60}
  /\ resetTime' = LoggerTime
  /\ pc' = "awake"
  /\ Call(setupWatchDog \o enableWatchDog \o resetWatchDog)
  /\ UNCHANGED waited

Pet ==
  /\ pc = "awake" /\ todo = <<>>
  /\ Call(resetWatchDog)
  /\ UNCHANGED <<pc, resetTime, waited>>

\* The AVR sleeps with the watchdog on, the SAMD without.
systemSleep ==
  /\ pc = "awake" /\ todo = <<>>
  /\ pc' = "asleep"
  /\ Call(IF board = "AVR" THEN <<>> ELSE disableWatchDog)
  /\ UNCHANGED <<resetTime, waited>>

\* Mutant of Wake: no reset of the watchdog.
WakeUnpetted ==
  /\ pc = "asleep" /\ todo = <<>>
  /\ pc' = "awake"
  /\ Call(enableWatchDog)
  /\ UNCHANGED <<resetTime, waited>>

\* The alarm comes, or it never does.  The AVR clears the watchdog once more, which
\* mends a count that an interrupt has torn in enableWatchDog.
Wake ==
  /\ pc = "asleep" /\ todo = <<>>
  /\ pc' = "awake"
  /\ Call(IF board = "AVR" THEN enableWatchDog \o resetWatchDog ELSE enableWatchDog)
  /\ UNCHANGED <<resetTime, waited>>

forceSysReset ==
  /\ pc = "awake" /\ todo = <<>>
  /\ resetTime' = 1 /\ waited' = 0
  /\ pc' = "forcing"
  /\ Call(setupWatchDog \o enableWatchDog)

\* The delay is over and the board is not reset.
forceReturns ==
  /\ pc = "forcing" /\ waited = 100
  /\ pc' = "awake" /\ waited' = 0
  /\ UNCHANGED <<board, todo, resetTime, barks, on, phase, unpetted>>

--------------------------------------------------------------------------------
(* The timer.                                                              *)

\* Mutant of CountDown: the SAMD's count has no bottom.
CountDownSigned == barks - 1

\* Mutant of CountDown: the AVR's count wraps as the SAMD's does.
CountDownUnsigned == IF barks = 0 THEN UIntMax ELSE barks - 1

CountDown ==
  IF board = "AVR" THEN barks - 1
  ELSE IF barks = 0 THEN UIntMax ELSE barks - 1

\* Mutant of Bites: one bark later.
BitesLate == CountDown < 0

Bites == CountDown <= 0

Bark ==
  /\ phase' = 0
  /\ barks' = CountDown
  /\ IF Bites THEN pc' = "bitten" /\ todo' = <<>> ELSE UNCHANGED <<pc, todo>>

\* The history ends above every count the properties speak of.
Longer(seconds) == IF seconds <= LoggerTime THEN seconds + 1 ELSE seconds

\* A second passes between two calls, or the timer comes to its end during one.
Tick ==
  /\ pc \notin {"boot", "bitten"}
  /\ IF todo = <<>> THEN waited < 100 ELSE on /\ phase = 7
  /\ IF on
       THEN /\ unpetted' = Longer(unpetted)
            /\ IF phase = 7 THEN Bark
                            ELSE phase' = phase + 1 /\ UNCHANGED <<barks, pc, todo>>
       ELSE UNCHANGED <<unpetted, phase, barks, pc, todo>>
  /\ waited' = IF pc = "forcing" /\ todo = <<>> THEN waited + 1 ELSE waited
  /\ UNCHANGED <<board, resetTime, on>>

Reboot ==
  /\ pc = "bitten"
  /\ pc' = "boot"
  /\ resetTime' = 0 /\ barks' = 0
  /\ on' = FALSE /\ phase' = 0
  /\ waited' = 0 /\ unpetted' = 0
  /\ UNCHANGED <<board, todo>>

Next ==
  \/ Execute
  \/ startFixedWatchdog \/ begin \/ Pet \/ systemSleep \/ Wake
  \/ forceSysReset \/ forceReturns
  \/ Tick \/ Reboot

Spec == Init /\ [][Next]_vars

--------------------------------------------------------------------------------
\* The types of the variables, the count with the range of its C type.
TypeOK ==
  /\ board \in Boards
  /\ pc \in {"boot", "awake", "asleep", "forcing", "bitten"}
  /\ todo \in Seq({"high", "low", "count", "clear", "on", "off"})
  /\ resetTime \in {0, 1, 5 * 60, LoggerTime}
  /\ barks \in IF board = "AVR" THEN -1..IntMax ELSE 0..UIntMax
  /\ on \in BOOLEAN /\ phase \in 0..7
  /\ waited \in 0..100 /\ unpetted \in 0..(LoggerTime + 1)

\* What the watchdog is for: whenever the timer is meant to watch, it runs, and the
\* program has cleared it within the reset time; on the AVR also while it sleeps, so
\* that an alarm that never comes is no end.  (A failed forceSysReset is excepted.)
HangIsCaught ==
  /\ todo = <<>> /\ resetTime # 1
  /\ pc \in (IF board = "AVR" THEN {"awake", "asleep"} ELSE {"awake"})
  => on /\ unpetted < 8 * Barks

\* A program that clears the watchdog in time is never reset, whatever the interrupt
\* did to the count while it was stored.  The SAMD stores the count before it clears
\* the timer and may lose a bark in between.  (A bark during a call counts for the
\* time before it.)
NoEarlyReset ==
  [][Tick /\ todo = <<>> /\ pc' = "bitten"
       => unpetted' >= 8 * (IF board = "AVR" THEN Barks ELSE Barks - 1)]_vars

\* "Expect watchdog to kick in within 8secs": it does on the AVR, whose count may fall
\* below zero.  On the SAMD the count of 1 / 8 = 0 wraps to its largest value, the delay
\* of 100 seconds ends, and forceSysReset returns.
ForcedInTime == pc = "forcing" /\ board = "AVR" => waited <= 8
================================================================================
