---------------------------- MODULE WatchDog_proofs ----------------------------
(***************************************************************************)
(* What the extended watchdog guarantees for every logging interval and    *)
(* every board: it catches a program that hangs, resets none that does     *)
(* not, and on the AVR carries out a forced reset in time.                 *)
(***************************************************************************)
EXTENDS WatchDog, TLAPS

--------------------------------------------------------------------------------
(* The inductive invariant: how the count and the timer stand after each   *)
(* instruction of the watchdog's functions.                                *)

\* What can be left of the functions that an AVR program calls: of the setup and start
\* in startFixedWatchdog and forceSysReset;
AvrStart ==
  { <<"high", "low", "on", "high", "low">>, <<"low", "on", "high", "low">>,
    <<"on", "high", "low">> }

\* and of begin and of Wake, which end with resetWatchDog, up to its clear.
AvrOff ==
  { <<"high", "low", "on", "high", "low", "clear", "high", "low">>,
    <<"low", "on", "high", "low", "clear", "high", "low">>,
    <<"on", "high", "low", "clear", "high", "low">> }

AvrOn ==
  { <<"high", "low", "clear", "high", "low">>, <<"low", "clear", "high", "low">>,
    <<"clear", "high", "low">> }

\* The timer has just been cleared: no interrupt comes for eight seconds, and no store
\* of the count is torn.
Fresh == phase = 0 /\ unpetted = 0

\* The counts that a store makes or that an interrupt leaves without a reset.
Counts == 0..IntMax

\* The times between two clears that are guarded, of startFixedWatchdog and of begin.
GuardTimes == {5 * 60, LoggerTime}

\* The AVR awake or asleep.  Every interrupt since the clear has taken one from the
\* count, and an interrupt that comes before the clear may have left any count, which
\* the two stores after the clear replace.
AvrWatched ==
  /\ pc = "asleep" => todo = <<>>
  /\ resetTime \in GuardTimes /\ waited = 0
  /\ barks \in Counts
  /\ \/ todo \in AvrStart /\ Fresh
     \/ todo \in AvrOff
     \/ todo \in AvrOn /\ on
     \/ todo = <<"high", "low">> /\ on /\ Fresh
     \/ todo = <<"low">> /\ on /\ Fresh /\ barks \div 256 = Barks \div 256
     \/ todo = <<>> /\ on /\ barks > 0 /\ unpetted = 8 * (Barks - barks) + phase

\* The AVR in forceSysReset.  An interrupt resets it or leaves a high byte of zero.
AvrForced ==
  /\ resetTime = 1 /\ on /\ barks \in Counts
  /\ todo # <<>> => waited = 0
  /\ \/ todo = <<"high", "low", "on", "high", "low">>
     \/ todo = <<"low", "on", "high", "low">> /\ barks <= 255
     \/ todo \in {<<"on", "high", "low">>, <<"high", "low">>, <<"low">>} /\ barks = 0
     \/ todo = <<>> /\ barks = 0 /\ waited <= phase

\* What can be left of the functions that a SAMD program calls: up to the instruction
\* that stops the timer, and from there to the one that starts it.
SamdOn ==
  { <<"count", "off", "count", "clear", "on", "count", "clear">>,
    <<"off", "count", "clear", "on", "count", "clear">>,
    <<"count", "off", "count", "clear", "on">>, <<"off", "count", "clear", "on">> }

SamdOff ==
  { <<"count", "clear", "on", "count", "clear">>, <<"count", "clear", "on">> }

SamdStored ==
  { <<"clear", "on", "count", "clear">>, <<"on", "count", "clear">>,
    <<"clear", "on">>, <<"on">> }

\* The SAMD awake or asleep.  It stores the count before it clears the timer, and one
\* interrupt may come in between.
SamdWatched ==
  /\ resetTime \in GuardTimes /\ waited = 0
  /\ pc = "asleep" =>
       todo = <<"off">> \/ (todo = <<>> /\ ~on /\ Fresh)
  /\ pc = "awake" =>
       \/ todo \in SamdOn
       \/ todo \in SamdOff /\ ~on /\ Fresh
       \/ todo \in SamdStored /\ ~on /\ Fresh /\ barks = Barks
       \/ todo = <<"count", "clear">> /\ on
       \/ todo = <<"clear">> /\ on /\ (barks = Barks \/ (barks = Barks - 1 /\ phase = 0))
       \/ /\ todo = <<>> /\ on /\ barks > 0
          /\ unpetted \in { 8 * (Barks - barks) + phase, 8 * (Barks - barks - 1) + phase }

Booting ==
  todo = <<>> /\ resetTime = 0 /\ barks = 0 /\ ~on /\ Fresh /\ waited = 0

Shape ==
  /\ pc = "boot" => Booting
  /\ pc = "bitten" => todo = <<>>
  /\ pc \in {"awake", "asleep"} => waited = 0
  /\ pc = "forcing" => resetTime = 1
  /\ board = "AVR" /\ pc \in {"awake", "asleep"} => AvrWatched
  /\ board = "AVR" /\ pc = "forcing" => AvrForced
  /\ board = "SAMD" /\ pc \in {"awake", "asleep"} /\ resetTime # 1 => SamdWatched

WatchInv ==
  /\ TypeOK
  /\ board = "SAMD" => todo \in Seq({"count", "clear", "on", "off"})
  /\ Shape

Op == {"high", "low", "count", "clear", "on", "off"}

--------------------------------------------------------------------------------
(* The functions, one after the other.                                     *)

LEMMA ConcatAt ==
  ASSUME NEW s \in Seq(Op), NEW t \in Seq(Op), NEW n \in Nat, NEW m \in Nat,
         Len(s) = n, Len(t) = m
  PROVE  /\ s \o t \in Seq(Op) /\ Len(s \o t) = n + m
         /\ \A i \in 1..(n + m) : (s \o t)[i] = IF i <= n THEN s[i] ELSE t[i - n]
<1>1. /\ s \o t \in Seq(Op) /\ Len(s \o t) = Len(s) + Len(t)
      /\ Len(s) \in Nat /\ Len(t) \in Nat
  OBVIOUS
<1>2. \A i \in 1..Len(s) : (s \o t)[i] = s[i]
  BY <1>1
<1>3. \A i \in (Len(s) + 1)..(Len(s) + Len(t)) : (s \o t)[i] = t[i - Len(s)]
  BY <1>1
<1>. QED  BY <1>1, <1>2, <1>3

LEMMA AvrEnable == <<"on">> \o <<"high", "low">>
                = <<"on", "high", "low">>
<1>. DEFINE s == <<"on">>
            t == <<"high", "low">>
            u == s \o t
<1>1. s \in Seq(Op) /\ t \in Seq(Op) /\ Len(s) = 1 /\ Len(t) = 2 /\ 1 \in Nat /\ 2 \in Nat
  BY DEF Op
<1>2. u \in Seq(Op) /\ Len(u) = 3
      /\ \A i \in 1..3 : u[i] = IF i <= 1 THEN s[i] ELSE t[i - 1]
  BY <1>1, ConcatAt
<1>. HIDE DEF u
<1>3. u = <<"on", "high", "low">>
  BY <1>2
<1>. QED  BY <1>3 DEF u

LEMMA AvrReset == <<"clear">> \o <<"high", "low">>
               = <<"clear", "high", "low">>
<1>. DEFINE s == <<"clear">>
            t == <<"high", "low">>
            u == s \o t
<1>1. s \in Seq(Op) /\ t \in Seq(Op) /\ Len(s) = 1 /\ Len(t) = 2 /\ 1 \in Nat /\ 2 \in Nat
  BY DEF Op
<1>2. u \in Seq(Op) /\ Len(u) = 3
      /\ \A i \in 1..3 : u[i] = IF i <= 1 THEN s[i] ELSE t[i - 1]
  BY <1>1, ConcatAt
<1>. HIDE DEF u
<1>3. u = <<"clear", "high", "low">>
  BY <1>2
<1>. QED  BY <1>3 DEF u

LEMMA AvrSetupEnable == <<"high", "low">> \o <<"on", "high", "low">>
                     = <<"high", "low", "on", "high", "low">>
<1>. DEFINE s == <<"high", "low">>
            t == <<"on", "high", "low">>
            u == s \o t
<1>1. s \in Seq(Op) /\ t \in Seq(Op) /\ Len(s) = 2 /\ Len(t) = 3 /\ 2 \in Nat /\ 3 \in Nat
  BY DEF Op
<1>2. u \in Seq(Op) /\ Len(u) = 5
      /\ \A i \in 1..5 : u[i] = IF i <= 2 THEN s[i] ELSE t[i - 2]
  BY <1>1, ConcatAt
<1>. HIDE DEF u
<1>3. u = <<"high", "low", "on", "high", "low">>
  BY <1>2
<1>. QED  BY <1>3 DEF u

LEMMA AvrBegin == <<"high", "low", "on", "high", "low">> \o <<"clear", "high", "low">>
               = <<"high", "low", "on", "high", "low", "clear", "high", "low">>
<1>. DEFINE s == <<"high", "low", "on", "high", "low">>
            t == <<"clear", "high", "low">>
            u == s \o t
<1>1. s \in Seq(Op) /\ t \in Seq(Op) /\ Len(s) = 5 /\ Len(t) = 3 /\ 5 \in Nat /\ 3 \in Nat
  BY DEF Op
<1>2. u \in Seq(Op) /\ Len(u) = 8
      /\ \A i \in 1..8 : u[i] = IF i <= 5 THEN s[i] ELSE t[i - 5]
  BY <1>1, ConcatAt
<1>. HIDE DEF u
<1>3. u = <<"high", "low", "on", "high", "low", "clear", "high", "low">>
  BY <1>2
<1>. QED  BY <1>3 DEF u

LEMMA AvrWake == <<"on", "high", "low">> \o <<"clear", "high", "low">>
              = <<"on", "high", "low", "clear", "high", "low">>
<1>. DEFINE s == <<"on", "high", "low">>
            t == <<"clear", "high", "low">>
            u == s \o t
<1>1. s \in Seq(Op) /\ t \in Seq(Op) /\ Len(s) = 3 /\ Len(t) = 3 /\ 3 \in Nat /\ 3 \in Nat
  BY DEF Op
<1>2. u \in Seq(Op) /\ Len(u) = 6
      /\ \A i \in 1..6 : u[i] = IF i <= 3 THEN s[i] ELSE t[i - 3]
  BY <1>1, ConcatAt
<1>. HIDE DEF u
<1>3. u = <<"on", "high", "low", "clear", "high", "low">>
  BY <1>2
<1>. QED  BY <1>3 DEF u

LEMMA SamdSetup == <<"count">> \o <<"off">>
                = <<"count", "off">>
<1>. DEFINE s == <<"count">>
            t == <<"off">>
            u == s \o t
<1>1. s \in Seq(Op) /\ t \in Seq(Op) /\ Len(s) = 1 /\ Len(t) = 1 /\ 1 \in Nat /\ 1 \in Nat
  BY DEF Op
<1>2. u \in Seq(Op) /\ Len(u) = 2
      /\ \A i \in 1..2 : u[i] = IF i <= 1 THEN s[i] ELSE t[i - 1]
  BY <1>1, ConcatAt
<1>. HIDE DEF u
<1>3. u = <<"count", "off">>
  BY <1>2
<1>. QED  BY <1>3 DEF u

LEMMA SamdReset == <<"count">> \o <<"clear">>
                = <<"count", "clear">>
<1>. DEFINE s == <<"count">>
            t == <<"clear">>
            u == s \o t
<1>1. s \in Seq(Op) /\ t \in Seq(Op) /\ Len(s) = 1 /\ Len(t) = 1 /\ 1 \in Nat /\ 1 \in Nat
  BY DEF Op
<1>2. u \in Seq(Op) /\ Len(u) = 2
      /\ \A i \in 1..2 : u[i] = IF i <= 1 THEN s[i] ELSE t[i - 1]
  BY <1>1, ConcatAt
<1>. HIDE DEF u
<1>3. u = <<"count", "clear">>
  BY <1>2
<1>. QED  BY <1>3 DEF u

LEMMA SamdEnable == <<"count", "clear">> \o <<"on">>
                 = <<"count", "clear", "on">>
<1>. DEFINE s == <<"count", "clear">>
            t == <<"on">>
            u == s \o t
<1>1. s \in Seq(Op) /\ t \in Seq(Op) /\ Len(s) = 2 /\ Len(t) = 1 /\ 2 \in Nat /\ 1 \in Nat
  BY DEF Op
<1>2. u \in Seq(Op) /\ Len(u) = 3
      /\ \A i \in 1..3 : u[i] = IF i <= 2 THEN s[i] ELSE t[i - 2]
  BY <1>1, ConcatAt
<1>. HIDE DEF u
<1>3. u = <<"count", "clear", "on">>
  BY <1>2
<1>. QED  BY <1>3 DEF u

LEMMA SamdSetupEnable == <<"count", "off">> \o <<"count", "clear", "on">>
                      = <<"count", "off", "count", "clear", "on">>
<1>. DEFINE s == <<"count", "off">>
            t == <<"count", "clear", "on">>
            u == s \o t
<1>1. s \in Seq(Op) /\ t \in Seq(Op) /\ Len(s) = 2 /\ Len(t) = 3 /\ 2 \in Nat /\ 3 \in Nat
  BY DEF Op
<1>2. u \in Seq(Op) /\ Len(u) = 5
      /\ \A i \in 1..5 : u[i] = IF i <= 2 THEN s[i] ELSE t[i - 2]
  BY <1>1, ConcatAt
<1>. HIDE DEF u
<1>3. u = <<"count", "off", "count", "clear", "on">>
  BY <1>2
<1>. QED  BY <1>3 DEF u

LEMMA SamdBegin == <<"count", "off", "count", "clear", "on">> \o <<"count", "clear">>
                = <<"count", "off", "count", "clear", "on", "count", "clear">>
<1>. DEFINE s == <<"count", "off", "count", "clear", "on">>
            t == <<"count", "clear">>
            u == s \o t
<1>1. s \in Seq(Op) /\ t \in Seq(Op) /\ Len(s) = 5 /\ Len(t) = 2 /\ 5 \in Nat /\ 2 \in Nat
  BY DEF Op
<1>2. u \in Seq(Op) /\ Len(u) = 7
      /\ \A i \in 1..7 : u[i] = IF i <= 5 THEN s[i] ELSE t[i - 5]
  BY <1>1, ConcatAt
<1>. HIDE DEF u
<1>3. u = <<"count", "off", "count", "clear", "on", "count", "clear">>
  BY <1>2
<1>. QED  BY <1>3 DEF u

\* What each board's program calls.
Functions ==
  /\ board = "AVR" =>
       /\ setupWatchDog \o enableWatchDog = <<"high", "low", "on", "high", "low">>
       /\ setupWatchDog \o enableWatchDog \o resetWatchDog =
            <<"high", "low", "on", "high", "low", "clear", "high", "low">>
       /\ resetWatchDog = <<"clear", "high", "low">>
       /\ enableWatchDog \o resetWatchDog =
            <<"on", "high", "low", "clear", "high", "low">>
  /\ board = "SAMD" =>
       /\ setupWatchDog \o enableWatchDog = <<"count", "off", "count", "clear", "on">>
       /\ setupWatchDog \o enableWatchDog \o resetWatchDog =
            <<"count", "off", "count", "clear", "on", "count", "clear">>
       /\ resetWatchDog = <<"count", "clear">>
       /\ enableWatchDog = <<"count", "clear", "on">>

LEMMA FunctionsForm == Functions
<1>1. CASE board = "AVR"
  <2>1. /\ setupWatchDog = <<"high", "low">> /\ resetWatchDog = <<"clear", "high", "low">>
        /\ enableWatchDog = <<"on", "high", "low">>
    BY <1>1, AvrEnable, AvrReset
    DEF setupWatchDog, resetWatchDog, enableWatchDog, Store
  <2>. QED  BY <1>1, <2>1, AvrSetupEnable, AvrBegin, AvrWake DEF Functions
<1>2. CASE board = "SAMD"
  <2>1. setupWatchDog = <<"count", "off">> /\ resetWatchDog = <<"count", "clear">>
    BY <1>2, SamdSetup, SamdReset DEF setupWatchDog, resetWatchDog, Store
  <2>2. enableWatchDog = <<"count", "clear", "on">>
    BY <1>2, <2>1, SamdEnable DEF enableWatchDog
  <2>. QED  BY <1>2, <2>1, <2>2, SamdSetupEnable, SamdBegin DEF Functions
<1>. QED  BY <1>1, <1>2 DEF Functions

--------------------------------------------------------------------------------
(* The count and its bytes.                                                *)

\* The largest count of the AVR: its high byte is 127 and its low byte 255.
LEMMA LargestCount == IntMax \in Nat /\ IntMax = (127 * 256) + 255
BY DEF IntMax

\* What the assumption says of the logger's time and of the count.
LEMMA LoggerTimes ==
  /\ LoggerTime \in Nat /\ LoggerTime >= 360 /\ LoggerTime <= IntMax * 8
  /\ LoggerTime <= UIntMax * 8 /\ UIntMax \in Nat /\ UIntMax > 37
<1>1. /\ LoggerTime \in Nat /\ LoggerTime >= 360 /\ LoggerTime <= IntMax * 8
      /\ LoggerTime <= UIntMax * 8 /\ UIntMax \in Nat
  BY WatchDogAssumption DEF LoggerTime
<1>. HIDE DEF LoggerTime
<1>2. UIntMax > 37
  BY <1>1
<1>. QED  BY <1>1, <1>2

\* No bark is counted when no reset time is set or a reset is forced.
LEMMA NoBarks ==
  ASSUME resetTime \in {0, 1}
  PROVE  Barks = 0
BY DEF Barks

\* The barks of a time between two clears fit the count of either board.
LEMMA EighthFits ==
  ASSUME NEW t \in Nat, NEW u \in Nat, NEW q, q = t \div 8,
         t >= 300, t <= IntMax * 8, t <= u * 8
  PROVE  q \in 37..IntMax /\ q <= u /\ 8 * q <= t
<1>1. q \in Int /\ 8 * q <= t /\ t < 8 * q + 8
  BY SMTT(30)
<1>2. q >= 37 /\ q <= IntMax /\ q <= u
  BY <1>1, LargestCount, SMTT(30)
<1>3. q \in 37..IntMax
  BY <1>1, <1>2
<1>. QED  BY <1>1, <1>2, <1>3

LEMMA GuardBarks ==
  ASSUME resetTime \in GuardTimes
  PROVE  Barks \in 37..IntMax /\ Barks <= UIntMax /\ 8 * Barks <= LoggerTime
<1>. HIDE DEF LoggerTime
<1>1. /\ resetTime \in Nat /\ resetTime >= 300 /\ resetTime <= IntMax * 8
      /\ resetTime <= UIntMax * 8 /\ resetTime <= LoggerTime
  BY LoggerTimes, LargestCount, SMTT(30) DEF GuardTimes
<1>2. Barks = resetTime \div 8
  BY DEF Barks
<1>. HIDE DEF Barks
<1>3. Barks \in 37..IntMax /\ Barks <= UIntMax /\ 8 * Barks <= resetTime
  BY <1>1, <1>2, LoggerTimes, EighthFits
<1>4. Barks \in 37..IntMax
  BY <1>3
<1>5. Barks \in Int
  BY <1>4
<1>6. 8 * Barks <= LoggerTime
  BY <1>1, <1>3, <1>5, LoggerTimes, SMTT(30)
<1>. QED  BY <1>3, <1>4, <1>5, <1>6, LoggerTimes

\* The two stores of the AVR, the high byte and the low byte.
LEMMA BytesForm ==
  \A b \in Counts : b \div 256 \in 0..127 /\ b % 256 \in 0..255
<1>. SUFFICES ASSUME NEW b \in Counts
              PROVE  b \div 256 \in 0..127 /\ b % 256 \in 0..255
  OBVIOUS
<1>1. b \in Int /\ 0 <= b /\ b <= (127 * 256) + 255
  BY LargestCount DEF Counts
<1>2. b % 256 \in 0..255
  BY <1>1
<1>3. b \div 256 \in 0..127
  BY <1>1
<1>. QED  BY <1>2, <1>3

LEMMA CountsRange ==
  ASSUME NEW n \in Int, 0 <= n, n <= IntMax
  PROVE  n \in Counts
<1>1. IntMax \in Int
  BY LargestCount
<1>. QED  BY <1>1 DEF Counts

LEMMA CountOfBytes ==
  ASSUME NEW q \in Int, 0 <= q, q <= 127, NEW r \in Int, 0 <= r, r <= 255
  PROVE  (q * 256) + r \in Counts
<1>1. (q * 256) + r \in Int
  OBVIOUS
<1>2. 0 <= (q * 256) + r /\ (q * 256) + r <= IntMax
  BY LargestCount
<1>. QED  BY <1>1, <1>2, CountsRange

LEMMA HighByte ==
  \A b, c \in Counts : ((b \div 256) * 256) + (c % 256) \in Counts
<1>. SUFFICES ASSUME NEW b \in Counts, NEW c \in Counts
              PROVE  ((b \div 256) * 256) + (c % 256) \in Counts
  OBVIOUS
<1>. DEFINE q == b \div 256  r == c % 256
<1>1. q \in 0..127 /\ r \in 0..255
  BY BytesForm
<1>. HIDE DEF q, r
<1>2. q \in Int /\ 0 <= q /\ q <= 127 /\ r \in Int /\ 0 <= r /\ r <= 255
  BY <1>1
<1>3. (q * 256) + r \in Counts
  BY <1>2, CountOfBytes
<1>. QED  BY <1>3 DEF q, r

LEMMA HighByteStays ==
  \A b, c \in Counts : (((b \div 256) * 256) + (c % 256)) \div 256 = b \div 256
<1>. SUFFICES ASSUME NEW b \in Counts, NEW c \in Counts
              PROVE  (((b \div 256) * 256) + (c % 256)) \div 256 = b \div 256
  OBVIOUS
<1>. DEFINE q == b \div 256  r == c % 256
<1>1. q \in 0..127 /\ r \in 0..255
  BY BytesForm
<1>. HIDE DEF q, r
<1>2. ((q * 256) + r) \div 256 = q
  BY <1>1
<1>. QED  BY <1>2 DEF q, r

LEMMA BothBytes ==
  \A b \in Counts : ((b \div 256) * 256) + (b % 256) = b
  BY DEF Counts

LEMMA CountsForm ==
  /\ \A b \in Counts : b \in Int
  /\ \A b \in Counts : b - 1 > 0 => b - 1 \in Counts
  /\ \A b \in Counts : b - 1 \in -1..IntMax
<1>0. IntMax \in Int
  BY LargestCount
<1>1. \A b \in Counts : b \in Int /\ 0 <= b /\ b <= IntMax
  BY <1>0 DEF Counts
<1>2. ASSUME NEW b \in Counts, b - 1 > 0 PROVE b - 1 \in Counts
  BY <1>0, <1>1, <1>2 DEF Counts
<1>3. ASSUME NEW b \in Counts PROVE b - 1 \in -1..IntMax
  BY <1>0, <1>1
<1>. QED  BY <1>1, <1>2, <1>3

LEMMA ZeroBytes ==
  /\ \A c \in Counts : ((0 \div 256) * 256) + (c % 256) <= 255
  /\ \A b \in Counts : b <= 255 => ((b \div 256) * 256) + (0 % 256) = 0
  BY DEF Counts

--------------------------------------------------------------------------------
(* The steps of the program.                                               *)

\* What the proof of a step needs of the constants and the types.
Grounds ==
  /\ board \in {"AVR", "SAMD"} /\ Functions
  /\ LoggerTime \in Nat /\ LoggerTime >= 360 /\ UIntMax \in Nat /\ UIntMax > 37
  /\ pc \in {"boot", "awake", "asleep", "forcing", "bitten"}
  /\ barks \in Int /\ phase \in 0..7 /\ unpetted \in Nat /\ waited \in Nat
  /\ board = "AVR" => barks \in -1..IntMax

LEMMA GroundsForm ==
  ASSUME TypeOK
  PROVE  Grounds
<1>1. board \in {"AVR", "SAMD"}
  BY WatchDogAssumption DEF TypeOK
<1>2. /\ LoggerTime \in Nat /\ LoggerTime >= 360 /\ UIntMax \in Nat /\ UIntMax > 37
  BY LoggerTimes
<1>. HIDE DEF LoggerTime
<1>3. board = "AVR" => barks \in -1..IntMax /\ barks \in Int
  BY DEF TypeOK
<1>4. board # "AVR" => barks \in Int
  BY <1>2 DEF TypeOK
<1>5. phase \in 0..7 /\ unpetted \in Nat /\ waited \in Nat
  BY <1>2 DEF TypeOK
<1>6. pc \in {"boot", "awake", "asleep", "forcing", "bitten"}
  BY DEF TypeOK
<1>. QED  BY <1>1, <1>2, <1>3, <1>4, <1>5, <1>6, FunctionsForm DEF Grounds

\* How the watchdog stands between two calls.
AvrIdle ==
  /\ on /\ barks \in Counts /\ barks > 0 /\ unpetted = 8 * (Barks - barks) + phase
  /\ resetTime \in GuardTimes /\ waited = 0

SamdIdle ==
  /\ pc = "asleep" => ~on /\ Fresh
  /\ pc = "awake" =>
       /\ on /\ barks > 0
       /\ unpetted \in { 8 * (Barks - barks) + phase, 8 * (Barks - barks - 1) + phase }
  /\ resetTime \in GuardTimes /\ waited = 0

LEMMA IdleForm ==
  ASSUME TypeOK, Shape, todo = <<>>
  PROVE  /\ pc = "boot" => Booting
         /\ board = "AVR" /\ pc \in {"awake", "asleep"} => AvrIdle
         /\ board = "AVR" /\ pc = "forcing" => on /\ barks = 0 /\ waited <= phase
         /\ board = "SAMD" /\ pc \in {"awake", "asleep"} /\ resetTime # 1 => SamdIdle
         /\ pc \in {"awake", "asleep"} => waited = 0
<1>1. /\ todo \notin AvrStart /\ todo \notin AvrOff /\ todo \notin AvrOn
      /\ todo # <<"high", "low">> /\ todo # <<"low">>
  BY DEF AvrStart, AvrOff, AvrOn
<1>2. /\ todo \notin SamdOn /\ todo \notin SamdOff /\ todo \notin SamdStored
      /\ todo # <<"count", "clear">> /\ todo # <<"clear">> /\ todo # <<"off">>
  BY DEF SamdOn, SamdOff, SamdStored
<1>3. ASSUME board = "AVR" /\ pc \in {"awake", "asleep"} PROVE AvrIdle
  <2>1. AvrWatched
    BY <1>3 DEF Shape
  <2>2. /\ on /\ barks > 0 /\ unpetted = 8 * (Barks - barks) + phase
        /\ barks \in Counts /\ resetTime \in GuardTimes /\ waited = 0
    BY <1>1, <2>1, SMT DEF AvrWatched
  <2>. QED  BY <2>2, Zenon DEF AvrIdle
<1>4. ASSUME board = "AVR" /\ pc = "forcing"
      PROVE  on /\ barks = 0 /\ waited <= phase
  <2>1. AvrForced
    BY <1>4 DEF Shape
  <2>2. /\ todo # <<"high", "low", "on", "high", "low">>
        /\ todo # <<"low", "on", "high", "low">> /\ todo # <<"on", "high", "low">>
    OBVIOUS
  <2>. QED  BY <1>1, <2>1, <2>2 DEF AvrForced
<1>5. ASSUME board = "SAMD" /\ pc \in {"awake", "asleep"} /\ resetTime # 1 PROVE SamdIdle
  <2>1. SamdWatched
    BY <1>5 DEF Shape
  <2>. QED  BY <1>2, <2>1, Zenon DEF SamdWatched, SamdIdle
<1>. QED  BY <1>3, <1>4, <1>5 DEF Shape

\* startFixedWatchdog and begin, from the boot or, for begin, after startFixedWatchdog.
LEMMA StepStart ==
  ASSUME TypeOK, Shape, startFixedWatchdog \/ begin
  PROVE  Shape'
<1>0. Functions /\ board \in {"AVR", "SAMD"}
  BY GroundsForm DEF Grounds
<1>1. CASE startFixedWatchdog
  <2>1. /\ pc' = "awake" /\ resetTime' = 5 * 60 /\ todo = <<>> /\ pc = "boot"
        /\ UNCHANGED <<board, barks, on, phase, unpetted, waited>>
        /\ todo' = setupWatchDog \o enableWatchDog
    BY <1>1 DEF startFixedWatchdog, Call
  <2>2. Booting /\ resetTime' \in GuardTimes
    BY <2>1, IdleForm DEF GuardTimes
  <2>3. CASE board = "AVR"
    <3>1. todo' \in AvrStart
      BY <1>0, <2>1, <2>3 DEF Functions, AvrStart
    <3>2. /\ waited' = 0 /\ barks' \in Counts /\ phase' = 0 /\ unpetted' = 0
          /\ resetTime' \in GuardTimes /\ pc' # "asleep"
      BY <2>1, <2>2, LargestCount DEF Booting, Fresh, Counts
    <3>3. AvrWatched'
      BY <3>1, <3>2, SMT DEF Fresh, AvrWatched
    <3>. QED  BY <2>1, <2>2, <2>3, <3>3 DEF Shape, Booting
  <2>4. CASE board = "SAMD"
    <3>1. todo' \in SamdOn
      BY <1>0, <2>1, <2>4 DEF Functions, SamdOn
    <3>2. waited' = 0 /\ pc' # "asleep" /\ resetTime' \in GuardTimes
      BY <2>1, <2>2 DEF Booting
    <3>3. SamdWatched'
      BY <3>1, <3>2, SMT DEF SamdWatched
    <3>. QED  BY <2>1, <2>2, <2>4, <3>3 DEF Shape, Booting
  <2>. QED  BY <1>0, <2>3, <2>4
<1>2. CASE begin
  <2>1. /\ pc \in {"boot", "awake"} /\ pc' = "awake" /\ resetTime' = LoggerTime
        /\ todo = <<>>
        /\ UNCHANGED <<board, barks, on, phase, unpetted, waited>>
    BY <1>2 DEF begin, Call
  <2>0. todo' = setupWatchDog \o enableWatchDog \o resetWatchDog
    BY <1>2 DEF begin, Call
  <2>2. waited = 0 /\ (board = "AVR" => barks \in Counts)
    <3>1. /\ pc = "boot" => Booting
          /\ pc = "awake" => waited = 0 /\ (board = "AVR" => AvrIdle)
      BY <2>1, IdleForm
    <3>2. AvrIdle => barks \in Counts
      BY DEF AvrIdle
    <3>3. Booting => waited = 0 /\ barks \in Counts
      BY LargestCount DEF Booting, Counts
    <3>4. pc = "boot" \/ pc = "awake"
      BY <2>1
    <3>5. waited = 0
      BY <3>1, <3>3, <3>4, Zenon
    <3>6. board = "AVR" => barks \in Counts
      BY <3>1, <3>2, <3>3, <3>4, Zenon
    <3>. QED  BY <3>5, <3>6, Zenon
  <2>3. CASE board = "AVR"
    <3>1. todo' \in AvrOff
      BY <1>0, <2>1, <2>0, <2>3, Zenon DEF Functions, AvrOff
    <3>2. pc' # "asleep" /\ waited' = 0 /\ barks' \in Counts
          /\ resetTime' \in GuardTimes
      BY <2>1, <2>2, <2>3 DEF GuardTimes
    <3>3. AvrWatched'
      BY <3>1, <3>2, SMT DEF AvrWatched
    <3>. QED  BY <2>1, <2>2, <2>3, <3>3 DEF Shape
  <2>4. CASE board = "SAMD"
    <3>1. todo' \in SamdOn
      BY <1>0, <2>1, <2>0, <2>4, Zenon DEF Functions, SamdOn
    <3>2. waited' = 0 /\ pc' # "asleep" /\ resetTime' \in GuardTimes
      BY <2>1, <2>2 DEF GuardTimes
    <3>3. SamdWatched'
      BY <3>1, <3>2, SMT DEF SamdWatched
    <3>. QED  BY <2>1, <2>2, <2>4, <3>3 DEF Shape
  <2>. QED  BY <1>0, <2>3, <2>4
<1>. QED  BY <1>1, <1>2

\* resetWatchDog.
LEMMA StepPet ==
  ASSUME TypeOK, Shape, Pet
  PROVE  Shape'
<1>0. Functions /\ board \in {"AVR", "SAMD"}
  BY GroundsForm DEF Grounds
<1>1. /\ pc = "awake" /\ pc' = "awake" /\ todo = <<>> /\ todo' = resetWatchDog
      /\ UNCHANGED <<board, resetTime, barks, on, phase, unpetted, waited>>
  BY DEF Pet, Call
<1>2. waited = 0
  BY <1>1, IdleForm
<1>3. CASE board = "AVR"
  <2>1. todo' \in AvrOn
    BY <1>0, <1>1, <1>3 DEF Functions, AvrOn
  <2>2. AvrIdle
    BY <1>1, <1>3, IdleForm
  <2>3. on' /\ barks' \in Counts /\ resetTime' \in GuardTimes /\ waited' = 0
    BY <1>1, <2>2 DEF AvrIdle
  <2>4. AvrWatched'
    BY <1>1, <2>1, <2>3, SMT DEF AvrWatched
  <2>. QED  BY <1>1, <1>2, <1>3, <2>4 DEF Shape
<1>4. CASE board = "SAMD"
  <2>1. todo' = <<"count", "clear">>
    BY <1>0, <1>1, <1>4 DEF Functions
  <2>2. resetTime # 1 => SamdWatched'
    BY <1>1, <1>2, <1>4, <2>1, IdleForm DEF SamdIdle, SamdWatched
  <2>. QED  BY <1>1, <1>2, <1>4, <2>2 DEF Shape
<1>. QED  BY <1>0, <1>3, <1>4

\* Going to sleep and waking.
LEMMA StepSleep ==
  ASSUME TypeOK, Shape, systemSleep \/ Wake
  PROVE  Shape'
<1>0. Functions /\ board \in {"AVR", "SAMD"}
  BY GroundsForm DEF Grounds
<1>1. CASE systemSleep
  <2>1. /\ pc = "awake" /\ pc' = "asleep" /\ todo = <<>>
        /\ todo' = (IF board = "AVR" THEN <<>> ELSE <<"off">>)
        /\ UNCHANGED <<board, resetTime, barks, on, phase, unpetted, waited>>
    BY <1>1 DEF systemSleep, disableWatchDog, Call
  <2>2. waited = 0
    BY <2>1, IdleForm
  <2>3. CASE board = "AVR"
    <3>1. AvrIdle /\ todo' = <<>> /\ Barks' = Barks
      BY <2>1, <2>3, IdleForm DEF Barks
    <3>. HIDE DEF Barks
    <3>2. /\ barks \in Counts /\ barks > 0 /\ on
          /\ unpetted = 8 * (Barks - barks) + phase /\ resetTime \in GuardTimes
      BY <3>1, Zenon DEF AvrIdle
    <3>3. on' /\ Barks' = Barks /\ UNCHANGED <<barks, unpetted, phase, resetTime, waited>>
      BY <2>1, <3>1, <3>2
    <3>4. /\ barks' \in Counts /\ barks' > 0 /\ resetTime' \in GuardTimes
          /\ unpetted' = 8 * (Barks' - barks') + phase' /\ waited' = 0
      BY <2>2, <3>2, <3>3
    <3>5. AvrWatched'
      BY <3>1, <3>3, <3>4, SMT DEF AvrWatched
    <3>. QED  BY <2>1, <2>2, <2>3, <3>5 DEF Shape
  <2>4. CASE board = "SAMD"
    <3>1. resetTime # 1 => SamdWatched'
      BY <2>1, <2>2, <2>4, IdleForm DEF SamdWatched, SamdIdle
    <3>. QED  BY <2>1, <2>2, <2>4, <3>1 DEF Shape
  <2>. QED  BY <1>0, <2>3, <2>4
<1>2. CASE Wake
  <2>1. /\ pc = "asleep" /\ pc' = "awake" /\ todo = <<>>
        /\ UNCHANGED <<board, resetTime, barks, on, phase, unpetted, waited>>
    BY <1>2 DEF Wake, Call
  <2>2. waited = 0
    BY <2>1, IdleForm
  <2>3. CASE board = "AVR"
    <3>1. todo' \in AvrOff
      BY <1>0, <1>2, <2>3 DEF Wake, Functions, AvrOff, Call
    <3>2. AvrIdle
      BY <2>1, <2>3, IdleForm
    <3>3. barks' \in Counts /\ resetTime' \in GuardTimes /\ waited' = 0
      BY <2>1, <3>2 DEF AvrIdle
    <3>4. AvrWatched'
      BY <2>1, <3>1, <3>3, SMT DEF AvrWatched
    <3>. QED  BY <2>1, <2>2, <2>3, <3>4 DEF Shape
  <2>4. CASE board = "SAMD"
    <3>1. todo' \in SamdOff
      BY <1>0, <1>2, <2>4 DEF Wake, Functions, SamdOff, Call
    <3>2. resetTime # 1 => ~on /\ phase = 0 /\ unpetted = 0
                           /\ resetTime \in GuardTimes
      BY <2>1, <2>4, IdleForm DEF SamdIdle, Fresh
    <3>3. resetTime # 1 => SamdWatched'
      BY <2>1, <2>2, <3>1, <3>2 DEF SamdWatched, Fresh
    <3>. QED  BY <2>1, <2>2, <2>4, <3>3 DEF Shape
  <2>. QED  BY <1>0, <2>3, <2>4
<1>. QED  BY <1>1, <1>2

\* A forced reset, and the return of one that did not come.
LEMMA StepForce ==
  ASSUME TypeOK, Shape, forceSysReset \/ forceReturns
  PROVE  Shape'
<1>0. Functions /\ board \in {"AVR", "SAMD"}
  BY GroundsForm DEF Grounds
<1>1. CASE forceSysReset
  <2>1. /\ pc = "awake" /\ pc' = "forcing" /\ todo = <<>> /\ resetTime' = 1 /\ waited' = 0
        /\ UNCHANGED <<board, barks, on, phase, unpetted>>
    BY <1>1 DEF forceSysReset, Call
  <2>0. todo' = setupWatchDog \o enableWatchDog
    BY <1>1 DEF forceSysReset, Call
  <2>2. CASE board = "AVR"
    <3>1. todo' = <<"high", "low", "on", "high", "low">>
      BY <1>0, <2>0, <2>2 DEF Functions
    <3>2. AvrIdle
      BY <2>1, <2>2, IdleForm
    <3>3. on' /\ barks' \in Counts
      BY <2>1, <3>2 DEF AvrIdle
    <3>4. AvrForced'
      BY <2>1, <3>1, <3>3, SMT DEF AvrForced
    <3>. QED  BY <2>1, <2>2, <3>4 DEF Shape
  <2>3. CASE board = "SAMD"
    BY <2>1, <2>3 DEF Shape
  <2>. QED  BY <1>0, <2>2, <2>3
<1>2. CASE forceReturns
  <2>1. /\ pc = "forcing" /\ pc' = "awake" /\ waited = 100 /\ waited' = 0
        /\ UNCHANGED <<board, todo, resetTime, barks, on, phase, unpetted>>
    BY <1>2 DEF forceReturns
  <2>2. board # "AVR"
    <3>. SUFFICES ASSUME board = "AVR" PROVE FALSE
      OBVIOUS
    <3>1. AvrForced /\ phase \in 0..7
      BY <2>1 DEF Shape, TypeOK
    <3>2. todo = <<>>
      BY <2>1, <3>1 DEF AvrForced
    <3>3. waited <= phase
      BY <2>1, <3>2, IdleForm
    <3>. QED  BY <2>1, <3>1, <3>3
  <2>3. resetTime = 1
    BY <2>1 DEF Shape
  <2>. QED  BY <2>1, <2>2, <2>3 DEF Shape
<1>. QED  BY <1>1, <1>2

\* The board starts again.
LEMMA StepReboot ==
  ASSUME Shape, Reboot
  PROVE  Shape'
  BY DEF Shape, Reboot, Booting, Fresh

--------------------------------------------------------------------------------
(* The steps of the watchdog's functions.                                  *)

\* What is left of a function after one more instruction.
LEMMA AvrTails ==
  /\ \A t \in AvrStart : \/ Head(t) \in {"high", "low"} /\ Tail(t) \in AvrStart
                         \/ Head(t) = "on" /\ Tail(t) = <<"high", "low">>
  /\ \A t \in AvrOff : \/ Head(t) \in {"high", "low"} /\ Tail(t) \in AvrOff
                       \/ Head(t) = "on" /\ Tail(t) \in AvrOn
  /\ \A t \in AvrOn : \/ Head(t) \in {"high", "low"} /\ Tail(t) \in AvrOn
                      \/ Head(t) = "clear" /\ Tail(t) = <<"high", "low">>
<1>1. ASSUME NEW t \in AvrStart
      PROVE  \/ Head(t) \in {"high", "low"} /\ Tail(t) \in AvrStart
             \/ Head(t) = "on" /\ Tail(t) = <<"high", "low">>
  <2>0. \/ t = <<"high", "low", "on", "high", "low">>
        \/ t = <<"low", "on", "high", "low">>
        \/ t = <<"on", "high", "low">>
    BY <1>1 DEF AvrStart
  <2>1. t = <<"high", "low", "on", "high", "low">> =>
          Head(t) = "high" /\ Tail(t) = <<"low", "on", "high", "low">>
    OBVIOUS
  <2>2. t = <<"low", "on", "high", "low">> =>
          Head(t) = "low" /\ Tail(t) = <<"on", "high", "low">>
    OBVIOUS
  <2>3. t = <<"on", "high", "low">> =>
          Head(t) = "on" /\ Tail(t) = <<"high", "low">>
    OBVIOUS
  <2>. QED  BY <2>0, <2>1, <2>2, <2>3, Zenon DEF AvrStart
<1>2. ASSUME NEW t \in AvrOff
      PROVE  \/ Head(t) \in {"high", "low"} /\ Tail(t) \in AvrOff
             \/ Head(t) = "on" /\ Tail(t) \in AvrOn
  <2>0. \/ t = <<"high", "low", "on", "high", "low", "clear", "high", "low">>
        \/ t = <<"low", "on", "high", "low", "clear", "high", "low">>
        \/ t = <<"on", "high", "low", "clear", "high", "low">>
    BY <1>2 DEF AvrOff
  <2>1. t = <<"high", "low", "on", "high", "low", "clear", "high", "low">> =>
          Head(t) = "high" /\ Tail(t) = <<"low", "on", "high", "low", "clear", "high", "low">>
    OBVIOUS
  <2>2. t = <<"low", "on", "high", "low", "clear", "high", "low">> =>
          Head(t) = "low" /\ Tail(t) = <<"on", "high", "low", "clear", "high", "low">>
    OBVIOUS
  <2>3. t = <<"on", "high", "low", "clear", "high", "low">> =>
          Head(t) = "on" /\ Tail(t) = <<"high", "low", "clear", "high", "low">>
    OBVIOUS
  <2>. QED  BY <2>0, <2>1, <2>2, <2>3, Zenon DEF AvrOff, AvrOn
<1>3. ASSUME NEW t \in AvrOn
      PROVE  \/ Head(t) \in {"high", "low"} /\ Tail(t) \in AvrOn
             \/ Head(t) = "clear" /\ Tail(t) = <<"high", "low">>
  <2>0. \/ t = <<"high", "low", "clear", "high", "low">>
        \/ t = <<"low", "clear", "high", "low">>
        \/ t = <<"clear", "high", "low">>
    BY <1>3 DEF AvrOn
  <2>1. t = <<"high", "low", "clear", "high", "low">> =>
          Head(t) = "high" /\ Tail(t) = <<"low", "clear", "high", "low">>
    OBVIOUS
  <2>2. t = <<"low", "clear", "high", "low">> =>
          Head(t) = "low" /\ Tail(t) = <<"clear", "high", "low">>
    OBVIOUS
  <2>3. t = <<"clear", "high", "low">> =>
          Head(t) = "clear" /\ Tail(t) = <<"high", "low">>
    OBVIOUS
  <2>. QED  BY <2>0, <2>1, <2>2, <2>3, Zenon DEF AvrOn
<1>. QED  BY <1>1, <1>2, <1>3

LEMMA SamdTails ==
  /\ \A t \in SamdOn : \/ Head(t) = "count" /\ Tail(t) \in SamdOn
                       \/ Head(t) = "off" /\ Tail(t) \in SamdOff
  /\ \A t \in SamdOff : Head(t) = "count" /\ Tail(t) \in SamdStored
  /\ \A t \in SamdStored : \/ Head(t) = "clear" /\ Tail(t) \in SamdStored
                           \/ Head(t) = "on" /\ Tail(t) \in {<<"count", "clear">>, <<>>}
<1>1. ASSUME NEW t \in SamdOn
      PROVE  \/ Head(t) = "count" /\ Tail(t) \in SamdOn
             \/ Head(t) = "off" /\ Tail(t) \in SamdOff
  <2>0. \/ t = <<"count", "off", "count", "clear", "on", "count", "clear">>
        \/ t = <<"off", "count", "clear", "on", "count", "clear">>
        \/ t = <<"count", "off", "count", "clear", "on">>
        \/ t = <<"off", "count", "clear", "on">>
    BY <1>1 DEF SamdOn
  <2>1. t = <<"count", "off", "count", "clear", "on", "count", "clear">> =>
          Head(t) = "count" /\ Tail(t) = <<"off", "count", "clear", "on", "count", "clear">>
    OBVIOUS
  <2>2. t = <<"off", "count", "clear", "on", "count", "clear">> =>
          Head(t) = "off" /\ Tail(t) = <<"count", "clear", "on", "count", "clear">>
    OBVIOUS
  <2>3. t = <<"count", "off", "count", "clear", "on">> =>
          Head(t) = "count" /\ Tail(t) = <<"off", "count", "clear", "on">>
    OBVIOUS
  <2>4. t = <<"off", "count", "clear", "on">> =>
          Head(t) = "off" /\ Tail(t) = <<"count", "clear", "on">>
    OBVIOUS
  <2>. QED  BY <2>0, <2>1, <2>2, <2>3, <2>4, Zenon DEF SamdOn, SamdOff
<1>2. ASSUME NEW t \in SamdOff
      PROVE  Head(t) = "count" /\ Tail(t) \in SamdStored
  <2>0. \/ t = <<"count", "clear", "on", "count", "clear">>
        \/ t = <<"count", "clear", "on">>
    BY <1>2 DEF SamdOff
  <2>1. t = <<"count", "clear", "on", "count", "clear">> =>
          Head(t) = "count" /\ Tail(t) = <<"clear", "on", "count", "clear">>
    OBVIOUS
  <2>2. t = <<"count", "clear", "on">> =>
          Head(t) = "count" /\ Tail(t) = <<"clear", "on">>
    OBVIOUS
  <2>. QED  BY <2>0, <2>1, <2>2, Zenon DEF SamdOff, SamdStored
<1>3. ASSUME NEW t \in SamdStored
      PROVE  \/ Head(t) = "clear" /\ Tail(t) \in SamdStored
             \/ Head(t) = "on" /\ Tail(t) \in {<<"count", "clear">>, <<>>}
  <2>0. \/ t = <<"clear", "on", "count", "clear">>
        \/ t = <<"on", "count", "clear">>
        \/ t = <<"clear", "on">>
        \/ t = <<"on">>
    BY <1>3 DEF SamdStored
  <2>1. t = <<"clear", "on", "count", "clear">> =>
          Head(t) = "clear" /\ Tail(t) = <<"on", "count", "clear">>
    OBVIOUS
  <2>2. t = <<"on", "count", "clear">> =>
          Head(t) = "on" /\ Tail(t) = <<"count", "clear">>
    OBVIOUS
  <2>3. t = <<"clear", "on">> =>
          Head(t) = "clear" /\ Tail(t) = <<"on">>
    OBVIOUS
  <2>4. t = <<"on">> =>
          Head(t) = "on" /\ Tail(t) = <<>>
    OBVIOUS
  <2>. QED  BY <2>0, <2>1, <2>2, <2>3, <2>4, Zenon DEF SamdStored
<1>. QED  BY <1>1, <1>2, <1>3

\* What one instruction does.
TimerKept == (on' <=> on) /\ phase' = phase /\ unpetted' = unpetted

HighStored == barks' = ((Barks \div 256) * 256) + (barks % 256)

LowStored == barks' = ((barks \div 256) * 256) + (Barks % 256)

Effect ==
  /\ Head(todo) = "high" => HighStored /\ TimerKept
  /\ Head(todo) = "low" => LowStored /\ TimerKept
  /\ Head(todo) = "count" => barks' = Barks /\ TimerKept
  /\ Head(todo) = "clear" => barks' = barks /\ (on' <=> on) /\ Fresh'
  /\ Head(todo) = "on" => barks' = barks /\ on' /\ phase' = phase /\ unpetted' = unpetted
  /\ Head(todo) = "off" => barks' = barks /\ ~on' /\ Fresh'

LEMMA EffectForm ==
  ASSUME Execute
  PROVE  /\ Effect /\ todo # <<>> /\ todo' = Tail(todo) /\ Barks' = Barks
         /\ UNCHANGED <<board, pc, resetTime, waited>>
<1>1. /\ todo # <<>> /\ todo' = Tail(todo)
      /\ UNCHANGED <<board, pc, resetTime, waited>>
  BY DEF Execute
<1>2. Barks' = Barks
  BY <1>1 DEF Barks
<1>. DEFINE op == Head(todo)
<1>3. /\ barks' = CASE op = "high"  -> ((Barks \div 256) * 256) + (barks % 256)
                    [] op = "low"   -> ((barks \div 256) * 256) + (Barks % 256)
                    [] op = "count" -> Barks
                    [] OTHER        -> barks
      /\ on' = (op = "on" \/ (on /\ op # "off"))
      /\ IF op \in {"clear", "off"} THEN phase' = 0 /\ unpetted' = 0
                                    ELSE UNCHANGED <<phase, unpetted>>
  BY DEF Execute
<1>. HIDE DEF op, Barks
<1>4. /\ op = "high" => HighStored /\ TimerKept
      /\ op = "low" => LowStored /\ TimerKept
      /\ op = "count" => barks' = Barks /\ TimerKept
  BY <1>3 DEF HighStored, LowStored, TimerKept
<1>5. /\ op = "clear" => barks' = barks /\ (on' <=> on) /\ Fresh'
      /\ op = "on" => barks' = barks /\ on' /\ phase' = phase /\ unpetted' = unpetted
      /\ op = "off" => barks' = barks /\ ~on' /\ Fresh'
  BY <1>3 DEF Fresh
<1>6. Effect
  BY <1>4, <1>5 DEF op, Effect
<1>. QED  BY <1>1, <1>2, <1>6

\* The two bytes of a count.
LEMMA StoredForm ==
  ASSUME barks \in Counts, Barks \in Counts
  PROVE  /\ HighStored => /\ barks' \in Counts /\ barks' \div 256 = Barks \div 256
                          /\ Barks = 0 => barks' <= 255
         /\ LowStored => /\ barks' \in Counts
                         /\ barks \div 256 = Barks \div 256 => barks' = Barks
                         /\ Barks = 0 /\ barks <= 255 => barks' = 0
<1>. HIDE DEF Barks
<1>1. ASSUME HighStored
      PROVE  /\ barks' \in Counts /\ barks' \div 256 = Barks \div 256
             /\ Barks = 0 => barks' <= 255
  <2>1. barks' = ((Barks \div 256) * 256) + (barks % 256)
    BY <1>1 DEF HighStored
  <2>2. barks' \in Counts
    BY <2>1, HighByte
  <2>3. barks' \div 256 = Barks \div 256
    BY <2>1, HighByteStays
  <2>4. Barks = 0 => barks' <= 255
    BY <2>1, ZeroBytes
  <2>. QED  BY <2>2, <2>3, <2>4
<1>2. ASSUME LowStored
      PROVE  /\ barks' \in Counts
             /\ barks \div 256 = Barks \div 256 => barks' = Barks
             /\ Barks = 0 /\ barks <= 255 => barks' = 0
  <2>1. barks' = ((barks \div 256) * 256) + (Barks % 256)
    BY <1>2 DEF LowStored
  <2>2. barks' \in Counts
    BY <2>1, HighByte
  <2>3. barks \div 256 = Barks \div 256 => barks' = Barks
    BY <2>1, BothBytes
  <2>4. Barks = 0 /\ barks <= 255 => barks' = 0
    BY <2>1, ZeroBytes
  <2>. QED  BY <2>2, <2>3, <2>4
<1>. QED  BY <1>1, <1>2

\* Just after the clear no interrupt has come.
LEMMA NoBarkLost ==
  \A b \in Counts : 0 = 8 * (b - b) + 0
BY SMTT(30) DEF Counts

\* Once the stores are made, the count and the time since the clear agree.
LEMMA CountsAgain ==
  ASSUME todo' = <<>>, on', barks' > 0, barks' \in Counts,
         unpetted' = 8 * (Barks' - barks') + phase',
         resetTime' \in GuardTimes, waited' = 0
  PROVE  AvrWatched'
BY SMTT(30) DEF AvrWatched

\* The stores of an AVR that is awake.  Only a count stored after the clear stays.
LEMMA ExecuteAvrWatched ==
  ASSUME AvrWatched, pc # "asleep", Execute
  PROVE  AvrWatched'
<1>0. /\ Effect /\ todo # <<>> /\ todo' = Tail(todo) /\ Barks' = Barks
      /\ UNCHANGED <<board, pc, resetTime, waited>>
  BY EffectForm
<1>1. /\ pc' # "asleep" /\ resetTime \in GuardTimes /\ resetTime' \in GuardTimes /\ waited' = 0
      /\ barks \in Counts
  BY <1>0 DEF AvrWatched
<1>2. Barks \in Counts /\ Barks > 0
  <2>1. Barks \in 37..IntMax
    BY <1>1, GuardBarks
  <2>2. Barks \in Counts
    BY <2>1 DEF Counts
  <2>3. Barks > 0
    BY <2>1
  <2>. QED  BY <2>2, <2>3
<1>. HIDE DEF Barks
<1>3. /\ HighStored => /\ barks' \in Counts /\ barks' \div 256 = Barks \div 256
      /\ LowStored => /\ barks' \in Counts
                      /\ barks \div 256 = Barks \div 256 => barks' = Barks
  BY <1>1, <1>2, StoredForm
<1>4. /\ Head(todo) \in {"high", "low"} => barks' \in Counts /\ TimerKept
      /\ Head(todo) \in {"on", "clear"} => barks' = barks
      /\ Head(todo) = "on" => on' /\ phase' = phase /\ unpetted' = unpetted
      /\ Head(todo) = "clear" => (on' <=> on) /\ Fresh'
  BY <1>0, <1>3 DEF Effect
<1>. USE DEF TimerKept
<1>5. CASE todo \in AvrStart /\ Fresh
  <2>1. CASE Head(todo) \in {"high", "low"} /\ Tail(todo) \in AvrStart
    <3>1. todo' \in AvrStart /\ Fresh' /\ barks' \in Counts
      BY <1>0, <1>4, <1>5, <2>1 DEF Fresh
    <3>. QED  BY <1>1, <3>1, SMT DEF AvrWatched
  <2>2. CASE Head(todo) = "on" /\ Tail(todo) = <<"high", "low">>
    <3>1. todo' = <<"high", "low">> /\ on' /\ Fresh' /\ barks' \in Counts
      BY <1>0, <1>1, <1>4, <1>5, <2>2 DEF Fresh
    <3>. QED  BY <1>1, <3>1, SMT DEF AvrWatched
  <2>. QED  BY <1>5, <2>1, <2>2, AvrTails
<1>6. CASE todo \in AvrOff
  <2>1. CASE Head(todo) \in {"high", "low"} /\ Tail(todo) \in AvrOff
    <3>1. todo' \in AvrOff /\ barks' \in Counts
      BY <1>0, <1>4, <2>1
    <3>. QED  BY <1>1, <3>1, SMT DEF AvrWatched
  <2>2. CASE Head(todo) = "on" /\ Tail(todo) \in AvrOn
    <3>1. todo' \in AvrOn /\ on' /\ barks' \in Counts
      BY <1>0, <1>1, <1>4, <2>2
    <3>. QED  BY <1>1, <3>1, SMT DEF AvrWatched
  <2>. QED  BY <1>6, <2>1, <2>2, AvrTails
<1>7. CASE todo \in AvrOn /\ on
  <2>1. CASE Head(todo) \in {"high", "low"} /\ Tail(todo) \in AvrOn
    <3>1. todo' \in AvrOn /\ on' /\ barks' \in Counts
      BY <1>0, <1>4, <1>7, <2>1
    <3>. QED  BY <1>1, <3>1, SMT DEF AvrWatched
  <2>2. CASE Head(todo) = "clear" /\ Tail(todo) = <<"high", "low">>
    <3>1. todo' = <<"high", "low">> /\ on' /\ Fresh' /\ barks' \in Counts
      BY <1>0, <1>1, <1>4, <1>7, <2>2
    <3>. QED  BY <1>1, <3>1, SMT DEF AvrWatched
  <2>. QED  BY <1>7, <2>1, <2>2, AvrTails
<1>8. CASE todo = <<"high", "low">> /\ on /\ Fresh
  <2>1. Head(todo) = "high" /\ Tail(todo) = <<"low">>
    BY <1>8
  <2>2. todo' = <<"low">> /\ on' /\ Fresh' /\ HighStored
    BY <1>0, <1>4, <1>8, <2>1 DEF Effect, Fresh
  <2>3. barks' \in Counts /\ barks' \div 256 = Barks' \div 256
    BY <1>0, <1>3, <2>2
  <2>. QED  BY <1>1, <2>2, <2>3, SMT DEF AvrWatched
<1>9. CASE todo = <<"low">> /\ on /\ Fresh /\ barks \div 256 = Barks \div 256
  <2>1. Head(todo) = "low" /\ Tail(todo) = <<>>
    BY <1>9
  <2>2. todo' = <<>> /\ on' /\ Fresh' /\ LowStored
    BY <1>0, <1>4, <1>9, <2>1 DEF Effect, Fresh
  <2>3. barks' \in Counts /\ barks' = Barks'
    BY <1>0, <1>3, <1>9, <2>2
  <2>4. barks' > 0
    BY <1>0, <1>2, <2>3
  <2>5. unpetted' = 8 * (Barks' - barks') + phase'
    <3>1. unpetted' = 0 /\ phase' = 0
      BY <2>2 DEF Fresh
    <3>. QED  BY <2>3, <3>1, NoBarkLost, ZenonT(30)
  <2>. QED  BY <1>1, <2>2, <2>3, <2>4, <2>5, CountsAgain
<1>10. \/ todo \in AvrStart /\ Fresh
       \/ todo \in AvrOff
       \/ todo \in AvrOn /\ on
       \/ todo = <<"high", "low">> /\ on /\ Fresh
       \/ todo = <<"low">> /\ on /\ Fresh /\ barks \div 256 = Barks \div 256
  BY <1>0, Zenon DEF AvrWatched
<1>. QED  BY <1>5, <1>6, <1>7, <1>8, <1>9, <1>10

\* The stores of an AVR in forceSysReset.
LEMMA ExecuteAvrForced ==
  ASSUME AvrForced, Execute, phase \in 0..7
  PROVE  AvrForced'
<1>0. /\ Effect /\ todo # <<>> /\ todo' = Tail(todo) /\ Barks' = Barks
      /\ UNCHANGED <<board, pc, resetTime, waited>>
  BY EffectForm
<1>1. /\ resetTime = 1 /\ on /\ barks \in Counts /\ waited = 0
      /\ \/ todo = <<"high", "low", "on", "high", "low">>
         \/ todo = <<"low", "on", "high", "low">> /\ barks <= 255
         \/ todo \in {<<"on", "high", "low">>, <<"high", "low">>, <<"low">>} /\ barks = 0
  BY <1>0 DEF AvrForced
<1>2. Barks = 0
  BY <1>1, NoBarks
<1>3. Barks \in Counts
  BY <1>2, LargestCount DEF Counts
<1>. HIDE DEF Barks
<1>4. /\ HighStored => barks' \in Counts /\ barks' <= 255
      /\ LowStored /\ barks <= 255 => barks' = 0 /\ barks' \in Counts
  BY <1>1, <1>2, <1>3, StoredForm
<1>5. /\ resetTime' = 1 /\ waited' = 0
  BY <1>0, <1>1
<1>. USE DEF TimerKept
<1>6. CASE todo = <<"high", "low", "on", "high", "low">>
  <2>1. Head(todo) = "high" /\ Tail(todo) = <<"low", "on", "high", "low">>
    BY <1>6
  <2>2. todo' = <<"low", "on", "high", "low">> /\ on' /\ barks' \in Counts /\ barks' <= 255
    BY <1>0, <1>1, <1>4, <2>1 DEF Effect
  <2>. QED  BY <1>5, <2>2, SMT DEF AvrForced
<1>7. CASE todo = <<"low", "on", "high", "low">> /\ barks <= 255
  <2>1. Head(todo) = "low" /\ Tail(todo) = <<"on", "high", "low">>
    BY <1>7
  <2>2. todo' = <<"on", "high", "low">> /\ on' /\ barks' \in Counts /\ barks' = 0
    BY <1>0, <1>1, <1>4, <1>7, <2>1 DEF Effect
  <2>. QED  BY <1>5, <2>2, SMT DEF AvrForced
<1>8. CASE todo = <<"on", "high", "low">> /\ barks = 0
  <2>1. Head(todo) = "on" /\ Tail(todo) = <<"high", "low">>
    BY <1>8
  <2>2. todo' = <<"high", "low">> /\ on' /\ barks' \in Counts /\ barks' = 0
    BY <1>0, <1>1, <1>8, <2>1 DEF Effect
  <2>. QED  BY <1>5, <2>2, SMT DEF AvrForced
<1>9. CASE todo = <<"high", "low">> /\ barks = 0
  <2>1. Head(todo) = "high" /\ Tail(todo) = <<"low">>
    BY <1>9
  <2>2. todo' = <<"low">> /\ on' /\ HighStored
    BY <1>0, <1>1, <2>1 DEF Effect
  <2>3. barks' = 0
    BY <1>2, <1>9, <2>2 DEF HighStored
  <2>4. barks' \in Counts
    BY <1>4, <2>2
  <2>. QED  BY <1>5, <2>2, <2>3, <2>4, SMT DEF AvrForced
<1>10. CASE todo = <<"low">> /\ barks = 0
  <2>1. Head(todo) = "low" /\ Tail(todo) = <<>>
    BY <1>10
  <2>2. todo' = <<>> /\ on' /\ LowStored /\ phase' = phase
    BY <1>0, <1>1, <2>1 DEF Effect
  <2>3. barks' \in Counts /\ barks' = 0
    BY <1>4, <1>10, <2>2
  <2>4. waited' <= phase'
    BY <1>5, <2>2
  <2>. QED  BY <1>5, <2>2, <2>3, <2>4, SMT DEF AvrForced
<1>. QED  BY <1>1, <1>6, <1>7, <1>8, <1>9, <1>10

\* The stores of a SAMD that is awake.
LEMMA ExecuteSamdAwake ==
  ASSUME SamdWatched, pc = "awake", Execute, phase \in 0..7
  PROVE  SamdWatched'
<1>0. /\ Effect /\ todo # <<>> /\ todo' = Tail(todo) /\ Barks' = Barks
      /\ UNCHANGED <<board, pc, resetTime, waited>>
  BY EffectForm
<1>1. /\ pc' = "awake" /\ resetTime \in GuardTimes /\ resetTime' \in GuardTimes /\ waited' = 0
  BY <1>0 DEF SamdWatched
<1>2. Barks \in Int /\ Barks >= 37
  <2>1. Barks \in 37..IntMax
    BY <1>1, GuardBarks
  <2>. QED  BY <2>1
<1>. HIDE DEF Barks
<1>3. \/ todo \in SamdOn
      \/ todo \in SamdOff /\ ~on /\ Fresh
      \/ todo \in SamdStored /\ ~on /\ Fresh /\ barks = Barks
      \/ todo = <<"count", "clear">> /\ on
      \/ todo = <<"clear">> /\ on /\ (barks = Barks \/ (barks = Barks - 1 /\ phase = 0))
  BY <1>0, Zenon DEF SamdWatched
<1>. USE DEF TimerKept
<1>4. CASE todo \in SamdOn
  <2>1. CASE Head(todo) = "count" /\ Tail(todo) \in SamdOn
    BY <1>0, <1>1, <2>1, SMT DEF SamdWatched
  <2>2. CASE Head(todo) = "off" /\ Tail(todo) \in SamdOff
    <3>1. todo' \in SamdOff /\ ~on' /\ Fresh'
      BY <1>0, <2>2 DEF Effect
    <3>. QED  BY <1>1, <3>1, SMT DEF SamdWatched
  <2>. QED  BY <1>4, <2>1, <2>2, SamdTails
<1>5. CASE todo \in SamdOff /\ ~on /\ Fresh
  <2>1. Head(todo) = "count" /\ Tail(todo) \in SamdStored
    BY <1>5, SamdTails
  <2>2. todo' \in SamdStored /\ ~on' /\ Fresh' /\ barks' = Barks'
    BY <1>0, <1>5, <2>1 DEF Effect, Fresh
  <2>. QED  BY <1>1, <2>2, SMT DEF SamdWatched
<1>6. CASE todo \in SamdStored /\ ~on /\ Fresh /\ barks = Barks
  <2>1. CASE Head(todo) = "clear" /\ Tail(todo) \in SamdStored
    <3>1. todo' \in SamdStored /\ ~on' /\ Fresh' /\ barks' = Barks'
      BY <1>0, <1>6, <2>1 DEF Effect
    <3>. QED  BY <1>1, <3>1, SMT DEF SamdWatched
  <2>2. CASE Head(todo) = "on" /\ Tail(todo) \in {<<"count", "clear">>, <<>>}
    <3>1. on' /\ Fresh' /\ barks' = Barks' /\ todo' \in {<<"count", "clear">>, <<>>}
      BY <1>0, <1>6, <2>2 DEF Effect, Fresh
    <3>2. CASE todo' = <<"count", "clear">>
      BY <1>1, <3>1, <3>2, SMT DEF SamdWatched
    <3>3. CASE todo' = <<>>
      <4>1. barks' > 0 /\ unpetted' = 8 * (Barks' - barks') + phase'
        BY <1>0, <1>2, <3>1 DEF Fresh
      <4>. QED  BY <1>1, <3>1, <3>3, <4>1, SMT DEF SamdWatched
    <3>. QED  BY <3>1, <3>2, <3>3
  <2>. QED  BY <1>6, <2>1, <2>2, SamdTails
<1>7. CASE todo = <<"count", "clear">> /\ on
  <2>1. Head(todo) = "count" /\ Tail(todo) = <<"clear">>
    BY <1>7
  <2>2. todo' = <<"clear">> /\ on' /\ barks' = Barks'
    BY <1>0, <1>7, <2>1 DEF Effect
  <2>. QED  BY <1>1, <2>2, SMT DEF SamdWatched
<1>8. CASE todo = <<"clear">> /\ on /\ (barks = Barks \/ (barks = Barks - 1 /\ phase = 0))
  <2>1. Head(todo) = "clear" /\ Tail(todo) = <<>>
    BY <1>8
  <2>2. todo' = <<>> /\ on' /\ Fresh' /\ barks' = barks
    BY <1>0, <1>8, <2>1 DEF Effect
  <2>3. barks = Barks \/ barks = Barks - 1
    BY <1>8
  <2>4. barks' > 0
    BY <1>2, <2>2, <2>3
  <2>5. unpetted' \in { 8 * (Barks' - barks') + phase', 8 * (Barks' - barks' - 1) + phase' }
    BY <1>0, <1>2, <2>2, <2>3 DEF Fresh
  <2>. QED  BY <1>1, <2>2, <2>4, <2>5, SMT DEF SamdWatched
<1>. QED  BY <1>3, <1>4, <1>5, <1>6, <1>7, <1>8

LEMMA StepExecute ==
  ASSUME TypeOK, Shape, Execute
  PROVE  Shape'
<1>0. /\ Effect /\ todo # <<>> /\ todo' = Tail(todo) /\ phase \in 0..7
      /\ UNCHANGED <<board, pc, resetTime, waited>>
  BY EffectForm DEF TypeOK
<1>1. /\ pc # "boot" /\ pc # "bitten"
      /\ pc \in {"awake", "asleep"} => waited = 0
      /\ pc = "forcing" => resetTime = 1
  BY <1>0 DEF Shape, Booting
<1>2. ASSUME board = "AVR", pc \in {"awake", "asleep"} PROVE AvrWatched'
  <2>1. AvrWatched
    BY <1>2 DEF Shape
  <2>2. pc # "asleep"
    BY <1>0, <2>1 DEF AvrWatched
  <2>. QED  BY <2>1, <2>2, ExecuteAvrWatched
<1>3. ASSUME board = "AVR", pc = "forcing" PROVE AvrForced'
  BY <1>0, <1>3, ExecuteAvrForced DEF Shape
<1>4. ASSUME board = "SAMD", pc \in {"awake", "asleep"}, resetTime # 1 PROVE SamdWatched'
  <2>1. SamdWatched
    BY <1>4 DEF Shape
  <2>2. CASE pc = "awake"
    BY <1>0, <2>1, <2>2, ExecuteSamdAwake
  <2>3. CASE pc = "asleep"
    <3>1. todo = <<"off">> /\ resetTime \in GuardTimes /\ waited = 0
      BY <1>0, <2>1, <2>3 DEF SamdWatched
    <3>2. Head(todo) = "off" /\ Tail(todo) = <<>>
      BY <3>1
    <3>3. todo' = <<>> /\ ~on' /\ Fresh'
      BY <1>0, <3>2 DEF Effect
    <3>4. pc' = "asleep" /\ resetTime' \in GuardTimes /\ waited' = 0
      BY <1>0, <2>3, <3>1
    <3>. QED  BY <3>3, <3>4, SMT DEF SamdWatched
  <2>. QED  BY <1>4, <2>2, <2>3
<1>. QED  BY <1>0, <1>1, <1>2, <1>3, <1>4, Zenon DEF Shape

--------------------------------------------------------------------------------
(* The seconds.                                                            *)

\* What a second does: with a bark or without one.
Beat ==
  /\ phase = 7 /\ phase' = 0 /\ barks' = CountDown
  /\ IF CountDown <= 0 THEN pc' = "bitten" /\ todo' = <<>> ELSE UNCHANGED <<pc, todo>>

NoBeat == phase # 7 /\ phase' = phase + 1 /\ UNCHANGED <<barks, pc, todo>>

LEMMA TickForm ==
  ASSUME Tick
  PROVE  /\ pc \notin {"boot", "bitten"} /\ UNCHANGED <<board, resetTime, on>>
         /\ Barks' = Barks
         /\ todo = <<>> => waited < 100
         /\ todo # <<>> => on /\ phase = 7
         /\ on => unpetted' = Longer(unpetted) /\ (Beat \/ NoBeat)
         /\ ~on => UNCHANGED <<unpetted, phase, barks, pc, todo>>
         /\ waited' = IF pc = "forcing" /\ todo = <<>> THEN waited + 1 ELSE waited
<1>1. /\ pc \notin {"boot", "bitten"} /\ UNCHANGED <<board, resetTime, on>>
      /\ todo = <<>> => waited < 100
      /\ todo # <<>> => on /\ phase = 7
      /\ waited' = IF pc = "forcing" /\ todo = <<>> THEN waited + 1 ELSE waited
  BY DEF Tick
<1>2. Barks' = Barks
  BY <1>1 DEF Barks
<1>3. ASSUME ~on PROVE UNCHANGED <<unpetted, phase, barks, pc, todo>>
  BY <1>3 DEF Tick
<1>4. ASSUME on PROVE unpetted' = Longer(unpetted) /\ (Beat \/ NoBeat)
  <2>1. /\ unpetted' = Longer(unpetted)
        /\ IF phase = 7 THEN Bark ELSE phase' = phase + 1 /\ UNCHANGED <<barks, pc, todo>>
    BY <1>4 DEF Tick
  <2>2. CASE phase = 7
    BY <2>1, <2>2 DEF Bark, Bites, Beat
  <2>3. CASE phase # 7
    BY <2>1, <2>3 DEF NoBeat
  <2>. QED  BY <2>1, <2>2, <2>3
<1>. QED  BY <1>1, <1>2, <1>3, <1>4, Zenon

\* A second of an AVR that is awake or asleep: one interrupt takes one from the count,
\* and the time since the clear grows with it.
LEMMA TickAvrWatched ==
  ASSUME AvrWatched, board = "AVR", Tick, pc' # "bitten", phase \in 0..7,
         unpetted \in Nat, pc \in {"awake", "asleep"}
  PROVE  AvrWatched'
<1>0. UNCHANGED <<board, resetTime, on, waited>> /\ Barks' = Barks
  BY TickForm
<1>a. /\ todo # <<>> => on /\ phase = 7
      /\ on => unpetted' = Longer(unpetted) /\ (Beat \/ NoBeat)
      /\ ~on => UNCHANGED <<unpetted, phase, barks, pc, todo>>
  BY TickForm
<1>1. resetTime \in GuardTimes /\ barks \in Counts /\ waited = 0
  BY DEF AvrWatched
<1>b. pc = "asleep" => todo = <<>>
  BY DEF AvrWatched
<1>c. barks \in Int
  BY <1>1, CountsForm
<1>2. Barks \in Int /\ 8 * Barks <= LoggerTime /\ LoggerTime \in Nat
  <2>1. Barks \in 37..IntMax
    BY <1>1, GuardBarks
  <2>2. Barks \in Int
    BY <2>1
  <2>3. 8 * Barks <= LoggerTime
    BY <1>1, GuardBarks
  <2>. QED  BY <2>2, <2>3, LoggerTimes
<1>. HIDE DEF Barks, LoggerTime
<1>3. Beat => /\ UNCHANGED <<pc, todo>> /\ barks' = barks - 1 /\ barks' > 0 /\ phase' = 0
              /\ phase = 7
  <2>2. Beat => /\ ~(CountDown <= 0) /\ UNCHANGED <<pc, todo>> /\ barks' = CountDown
                /\ phase' = 0 /\ phase = 7
    BY DEF Beat
  <2>3. CountDown = barks - 1
    BY DEF CountDown
  <2>. QED  BY <1>c, <2>2, <2>3
<1>4. NoBeat => /\ UNCHANGED <<pc, todo, barks>> /\ phase' = phase + 1 /\ phase # 7
  BY DEF NoBeat
<1>5. on => UNCHANGED <<pc, todo>> /\ barks' \in Counts
  <2>1. Beat => barks' \in Counts
    <3>1. Beat => barks' = barks - 1 /\ barks' > 0
      BY <1>3
    <3>. QED  BY <1>1, <3>1, CountsForm
  <2>2. NoBeat => barks' \in Counts
    <3>1. NoBeat => barks' = barks
      BY <1>4
    <3>. QED  BY <1>1, <3>1
  <2>. QED  BY <1>a, <1>3, <1>4, <2>1, <2>2, Zenon
<1>6. resetTime' \in GuardTimes /\ waited' = 0
  BY <1>0, <1>1
<1>7. CASE todo # <<>>
  <2>1. /\ pc' # "asleep" /\ todo' = todo /\ on /\ on' /\ barks' \in Counts /\ ~Fresh
    BY <1>0, <1>a, <1>b, <1>5, <1>7 DEF Fresh
  <2>2. todo \in AvrOff \/ todo \in AvrOn
    BY <1>7, <2>1, Zenon DEF AvrWatched
  <2>. QED  BY <1>6, <2>1, <2>2, SMT DEF AvrWatched
<1>8. CASE todo = <<>>
  <2>1. on /\ barks > 0 /\ unpetted = 8 * (Barks - barks) + phase
    <3>1. /\ todo \notin AvrStart /\ todo \notin AvrOff /\ todo \notin AvrOn
          /\ todo # <<"high", "low">> /\ todo # <<"low">>
      BY <1>8 DEF AvrStart, AvrOff, AvrOn
    <3>. QED  BY <3>1, Zenon DEF AvrWatched
  <2>2. todo' = <<>> /\ on' /\ barks' \in Counts
    BY <1>0, <1>5, <1>8, <2>1
  <2>4. unpetted <= LoggerTime
    BY <1>2, <1>c, <2>1
  <2>5. unpetted' = unpetted + 1
    BY <1>a, <2>1, <2>4 DEF Longer
  <2>6. CASE Beat
    <3>1. barks' > 0
      BY <1>3, <2>6
    <3>2. unpetted' = 8 * (Barks' - barks') + phase'
      BY <1>0, <1>2, <1>3, <1>c, <2>1, <2>5, <2>6
    <3>. QED  BY <1>6, <2>2, <3>1, <3>2, SMT DEF AvrWatched
  <2>7. CASE NoBeat
    <3>1. barks' > 0
      BY <1>4, <2>1, <2>7
    <3>2. unpetted' = 8 * (Barks' - barks') + phase'
      BY <1>0, <1>2, <1>4, <1>c, <2>1, <2>5, <2>7
    <3>. QED  BY <1>6, <2>2, <3>1, <3>2, SMT DEF AvrWatched
  <2>. QED  BY <1>a, <2>1, <2>6, <2>7
<1>. QED  BY <1>7, <1>8

\* A second of an AVR in forceSysReset: an interrupt after the count is stored resets it.
LEMMA TickAvrForced ==
  ASSUME AvrForced, board = "AVR", Tick, pc = "forcing", pc' # "bitten", phase \in 0..7,
         waited \in Nat
  PROVE  AvrForced'
<1>0. UNCHANGED <<board, resetTime, on>>
  BY TickForm
<1>a. /\ todo # <<>> => phase = 7
      /\ on => Beat \/ NoBeat
      /\ waited' = IF todo = <<>> THEN waited + 1 ELSE waited
  BY TickForm
<1>1. /\ resetTime = 1 /\ on /\ barks \in Counts
      /\ todo # <<>> => waited = 0
  BY DEF AvrForced
<1>2. barks \in Int
  BY <1>1, CountsForm
<1>3. Beat => /\ todo' = todo /\ barks' = barks - 1 /\ barks' > 0
  <2>1. Beat => ~(CountDown <= 0) /\ todo' = todo /\ barks' = CountDown
    BY DEF Beat
  <2>2. CountDown = barks - 1
    BY DEF CountDown
  <2>. QED  BY <1>2, <2>1, <2>2
<1>4. resetTime' = 1 /\ on'
  BY <1>0, <1>1
<1>5. CASE todo # <<>>
  <2>1. Beat /\ waited' = 0
    BY <1>a, <1>1, <1>5 DEF NoBeat
  <2>2. todo' = todo /\ barks' = barks - 1 /\ barks' > 0
    BY <1>3, <2>1
  <2>3. barks' \in Counts
    BY <1>1, <2>2, CountsForm
  <2>4. barks # 0
    BY <2>2
  <2>5. \/ todo = <<"high", "low", "on", "high", "low">>
        \/ todo = <<"low", "on", "high", "low">> /\ barks <= 255
    BY <1>5, <2>4, Zenon DEF AvrForced
  <2>6. barks <= 255 => barks' <= 255
    BY <1>2, <2>2
  <2>. QED  BY <1>4, <2>1, <2>2, <2>3, <2>5, <2>6, SMT DEF AvrForced
<1>6. CASE todo = <<>>
  <2>1. barks = 0 /\ waited <= phase
    <3>1. /\ todo # <<"high", "low", "on", "high", "low">>
          /\ todo # <<"low", "on", "high", "low">> /\ todo # <<"on", "high", "low">>
          /\ todo # <<"high", "low">> /\ todo # <<"low">>
      BY <1>6
    <3>. QED  BY <3>1 DEF AvrForced
  <2>2. NoBeat
    BY <1>a, <1>1, <1>2, <1>3, <2>1
  <2>3. todo' = <<>> /\ barks' = 0 /\ barks' \in Counts
    BY <1>1, <1>6, <2>1, <2>2 DEF NoBeat
  <2>4. waited' <= phase'
    BY <1>a, <1>6, <2>1, <2>2 DEF NoBeat
  <2>. QED  BY <1>4, <2>3, <2>4, SMT DEF AvrForced
<1>. QED  BY <1>5, <1>6

\* A second of a SAMD that is awake or asleep.
LEMMA TickSamdWatched ==
  ASSUME SamdWatched, board = "SAMD", Tick, pc' # "bitten", phase \in 0..7,
         unpetted \in Nat, barks \in Nat, pc \in {"awake", "asleep"}
  PROVE  SamdWatched'
<1>0. UNCHANGED <<resetTime, on, waited>> /\ Barks' = Barks
  BY TickForm
<1>a. /\ todo # <<>> => on /\ phase = 7
      /\ on => unpetted' = Longer(unpetted) /\ (Beat \/ NoBeat)
      /\ ~on => UNCHANGED <<unpetted, phase, barks, pc, todo>>
  BY TickForm
<1>1. resetTime \in GuardTimes /\ waited = 0
  BY DEF SamdWatched
<1>2. Barks \in Int /\ Barks >= 37 /\ 8 * Barks <= LoggerTime /\ LoggerTime \in Nat
  <2>1. Barks \in 37..IntMax
    BY <1>1, GuardBarks
  <2>2. Barks \in Int /\ Barks >= 37
    BY <2>1
  <2>3. 8 * Barks <= LoggerTime
    BY <1>1, GuardBarks
  <2>. QED  BY <2>2, <2>3, LoggerTimes
<1>. HIDE DEF Barks, LoggerTime
<1>3. Beat => /\ UNCHANGED <<pc, todo>> /\ phase' = 0 /\ phase = 7
              /\ barks > 0 => barks' = barks - 1 /\ barks' > 0
  <2>1. Beat => /\ ~(CountDown <= 0) /\ UNCHANGED <<pc, todo>> /\ barks' = CountDown
                /\ phase' = 0 /\ phase = 7
    BY DEF Beat
  <2>2. barks > 0 => CountDown = barks - 1
    BY DEF CountDown
  <2>. QED  BY <2>1, <2>2
<1>4. NoBeat => UNCHANGED <<pc, todo, barks>> /\ phase' = phase + 1 /\ phase # 7
  BY DEF NoBeat
<1>5. UNCHANGED <<pc, todo>>
  BY <1>a, <1>3, <1>4
<1>6. resetTime' \in GuardTimes /\ waited' = 0
  BY <1>0, <1>1
<1>7. CASE pc = "asleep"
  <2>1. CASE todo = <<"off">>
    BY <1>5, <1>6, <1>7, <2>1, SMT DEF SamdWatched
  <2>2. CASE todo # <<"off">>
    <3>1. todo = <<>> /\ ~on /\ Fresh
      BY <1>7, <2>2 DEF SamdWatched
    <3>2. todo' = <<>> /\ ~on' /\ Fresh'
      BY <1>0, <1>a, <3>1 DEF Fresh
    <3>. QED  BY <1>5, <1>6, <1>7, <3>2, SMT DEF SamdWatched
  <2>. QED  BY <2>1, <2>2
<1>8. CASE pc = "awake" /\ todo # <<>>
  <2>1. pc' = "awake" /\ todo' = todo /\ on /\ on' /\ phase = 7 /\ Beat
    BY <1>0, <1>a, <1>4, <1>5, <1>8
  <2>2. \/ todo \in SamdOn
        \/ todo = <<"count", "clear">>
        \/ todo = <<"clear">> /\ (barks = Barks \/ (barks = Barks - 1 /\ phase = 0))
    BY <1>8, <2>1, Zenon DEF SamdWatched
  <2>3. CASE todo = <<"clear">>
    <3>1. todo \notin SamdOn /\ todo # <<"count", "clear">>
      BY <2>3 DEF SamdOn
    <3>2. barks = Barks
      BY <2>1, <2>2, <3>1
    <3>3. barks' = Barks' - 1 /\ phase' = 0
      BY <1>0, <1>2, <1>3, <2>1, <3>2
    <3>. QED  BY <1>6, <2>1, <2>3, <3>3, SMT DEF SamdWatched
  <2>4. CASE todo \in SamdOn
    BY <1>6, <2>1, <2>4, SMT DEF SamdWatched
  <2>5. CASE todo = <<"count", "clear">>
    BY <1>6, <2>1, <2>5, SMT DEF SamdWatched
  <2>. QED  BY <2>2, <2>3, <2>4, <2>5
<1>9. CASE pc = "awake" /\ todo = <<>>
  <2>1. /\ on /\ barks > 0
        /\ unpetted \in { 8 * (Barks - barks) + phase, 8 * (Barks - barks - 1) + phase }
    <3>1. /\ todo \notin SamdOn /\ todo \notin SamdOff /\ todo \notin SamdStored
          /\ todo # <<"count", "clear">> /\ todo # <<"clear">>
      BY <1>9 DEF SamdOn, SamdOff, SamdStored
    <3>. QED  BY <1>9, <3>1, Zenon DEF SamdWatched
  <2>2. pc' = "awake" /\ todo' = <<>> /\ on'
    BY <1>0, <1>5, <1>9, <2>1
  <2>3. unpetted <= LoggerTime
    BY <1>2, <2>1
  <2>4. unpetted' = unpetted + 1
    BY <1>a, <2>1, <2>3 DEF Longer
  <2>5. CASE Beat
    <3>1. barks' > 0
      BY <1>3, <2>1, <2>5
    <3>2. unpetted' \in { 8 * (Barks' - barks') + phase', 8 * (Barks' - barks' - 1) + phase' }
      BY <1>0, <1>2, <1>3, <2>1, <2>4, <2>5
    <3>. QED  BY <1>6, <2>2, <3>1, <3>2, SMT DEF SamdWatched
  <2>6. CASE NoBeat
    <3>1. barks' > 0
      BY <1>4, <2>1, <2>6
    <3>2. unpetted' \in { 8 * (Barks' - barks') + phase', 8 * (Barks' - barks' - 1) + phase' }
      BY <1>0, <1>2, <1>4, <2>1, <2>4, <2>6
    <3>. QED  BY <1>6, <2>2, <3>1, <3>2, SMT DEF SamdWatched
  <2>. QED  BY <1>a, <2>1, <2>5, <2>6
<1>. QED  BY <1>7, <1>8, <1>9

LEMMA StepTick ==
  ASSUME TypeOK, Shape, Tick
  PROVE  Shape'
<1>0. /\ pc \notin {"boot", "bitten"} /\ UNCHANGED <<board, resetTime>>
      /\ waited' = IF pc = "forcing" /\ todo = <<>> THEN waited + 1 ELSE waited
      /\ on => Beat \/ NoBeat
      /\ ~on => UNCHANGED <<pc, todo>>
  BY TickForm
<1>1. \/ pc' = "bitten" /\ todo' = <<>>
      \/ pc' = pc /\ pc' # "bitten"
  <2>1. Beat => (pc' = "bitten" /\ todo' = <<>>) \/ pc' = pc
    BY DEF Beat
  <2>2. NoBeat => pc' = pc
    BY DEF NoBeat
  <2>. QED  BY <1>0, <2>1, <2>2
<1>2. /\ pc \in {"awake", "asleep"} => waited = 0
      /\ pc = "forcing" => resetTime = 1
  BY DEF Shape
<1>3. phase \in 0..7 /\ unpetted \in Nat /\ waited \in Nat /\ barks \in Int
  BY GroundsForm DEF Grounds
<1>4. board = "SAMD" => barks \in Nat
  BY LoggerTimes DEF TypeOK
<1>5. ASSUME board = "AVR", pc \in {"awake", "asleep"}, pc' # "bitten" PROVE AvrWatched'
  BY <1>3, <1>5, TickAvrWatched DEF Shape
<1>6. ASSUME board = "AVR", pc = "forcing", pc' # "bitten" PROVE AvrForced'
  BY <1>3, <1>6, TickAvrForced DEF Shape
<1>7. ASSUME board = "SAMD", pc \in {"awake", "asleep"}, resetTime # 1, pc' # "bitten"
      PROVE  SamdWatched'
  BY <1>3, <1>4, <1>7, TickSamdWatched DEF Shape
<1>8. CASE pc' = "bitten" /\ todo' = <<>>
  BY <1>8 DEF Shape
<1>9. CASE pc' = pc /\ pc' # "bitten"
  <2>1. pc' \in {"awake", "asleep"} => waited' = 0
    BY <1>0, <1>2, <1>9
  <2>. QED  BY <1>0, <1>2, <1>5, <1>6, <1>7, <1>9, <2>1 DEF Shape
<1>. QED  BY <1>1, <1>8, <1>9

--------------------------------------------------------------------------------
(* The types.                                                              *)

SamdOp == {"count", "clear", "on", "off"}

\* The types that hold of the calls and of the rest.
TodoTyped == todo \in Seq(Op) /\ (board = "SAMD" => todo \in Seq(SamdOp))

BarksTyped == barks \in IF board = "AVR" THEN -1..IntMax ELSE 0..UIntMax

RestTyped ==
  /\ board \in Boards
  /\ pc \in {"boot", "awake", "asleep", "forcing", "bitten"}
  /\ resetTime \in {0, 1, 5 * 60, LoggerTime}
  /\ on \in BOOLEAN /\ phase \in 0..7
  /\ waited \in 0..100 /\ unpetted \in 0..(LoggerTime + 1)

LEMMA TypeForm ==
  TypeOK /\ (board = "SAMD" => todo \in Seq({"count", "clear", "on", "off"}))
    <=> TodoTyped /\ BarksTyped /\ RestTyped
<1>1. TypeOK => todo \in Seq(Op) /\ RestTyped
  BY DEF TypeOK, RestTyped, Op
<1>2. TypeOK => BarksTyped
  BY DEF TypeOK, BarksTyped
<1>3. TodoTyped /\ BarksTyped /\ RestTyped => TypeOK
  BY DEF TypeOK, TodoTyped, BarksTyped, RestTyped, Op
<1>. QED  BY <1>1, <1>2, <1>3, Zenon DEF TodoTyped, SamdOp

LEMMA CallsTyped ==
  /\ <<"high", "low", "on", "high", "low">> \in Seq(Op)
  /\ <<"high", "low", "on", "high", "low", "clear", "high", "low">> \in Seq(Op)
  /\ <<"clear", "high", "low">> \in Seq(Op)
  /\ <<"on", "high", "low", "clear", "high", "low">> \in Seq(Op)
  /\ <<"count", "off", "count", "clear", "on">> \in Seq(Op) \cap Seq(SamdOp)
  /\ <<"count", "off", "count", "clear", "on", "count", "clear">> \in Seq(Op) \cap Seq(SamdOp)
  /\ <<"count", "clear">> \in Seq(Op) \cap Seq(SamdOp)
  /\ <<"count", "clear", "on">> \in Seq(Op) \cap Seq(SamdOp)
  /\ <<"off">> \in Seq(Op) \cap Seq(SamdOp)
  /\ <<>> \in Seq(Op) \cap Seq(SamdOp)
<1>1. <<"high", "low", "on", "high", "low">> \in Seq(Op)
  BY DEF Op
<1>2. <<"high", "low", "on", "high", "low", "clear", "high", "low">> \in Seq(Op)
  BY DEF Op
<1>3. <<"clear", "high", "low">> \in Seq(Op)
  BY DEF Op
<1>4. <<"on", "high", "low", "clear", "high", "low">> \in Seq(Op)
  BY DEF Op
<1>5. <<"count", "off", "count", "clear", "on">> \in Seq(Op) \cap Seq(SamdOp)
  BY DEF Op, SamdOp
<1>6. <<"count", "off", "count", "clear", "on", "count", "clear">> \in Seq(Op) \cap Seq(SamdOp)
  BY DEF Op, SamdOp
<1>7. <<"count", "clear">> \in Seq(Op) \cap Seq(SamdOp)
  BY DEF Op, SamdOp
<1>8. <<"count", "clear", "on">> \in Seq(Op) \cap Seq(SamdOp)
  BY DEF Op, SamdOp
<1>9. <<"off">> \in Seq(Op) \cap Seq(SamdOp) /\ <<>> \in Seq(Op) \cap Seq(SamdOp)
  BY DEF Op, SamdOp
<1>. QED  BY <1>1, <1>2, <1>3, <1>4, <1>5, <1>6, <1>7, <1>8, <1>9

\* The program's steps change neither the count nor the timer.
Calling ==
  startFixedWatchdog \/ begin \/ Pet \/ systemSleep \/ Wake \/ forceSysReset

LEMMA CallingTodo ==
  ASSUME TodoTyped, Calling, board \in {"AVR", "SAMD"}
  PROVE  TodoTyped'
<1>1. Functions
  BY FunctionsForm
<1>2. board' = board
  BY DEF Calling, startFixedWatchdog, begin, Pet, systemSleep, Wake, forceSysReset, Call
<1>3. \/ todo' = setupWatchDog \o enableWatchDog
      \/ todo' = setupWatchDog \o enableWatchDog \o resetWatchDog
      \/ todo' = resetWatchDog
      \/ todo' = IF board = "AVR" THEN <<>> ELSE disableWatchDog
      \/ todo' = IF board = "AVR" THEN enableWatchDog \o resetWatchDog ELSE enableWatchDog
  BY Zenon
  DEF Calling, startFixedWatchdog, begin, Pet, systemSleep, Wake, forceSysReset, Call
<1>4. CASE board = "AVR"
  <2>1. \/ todo' = <<"high", "low", "on", "high", "low">>
        \/ todo' = <<"high", "low", "on", "high", "low", "clear", "high", "low">>
        \/ todo' = <<"clear", "high", "low">> \/ todo' = <<>>
        \/ todo' = <<"on", "high", "low", "clear", "high", "low">>
    BY <1>1, <1>3, <1>4, Zenon DEF Functions
  <2>2. todo' \in Seq(Op)
    BY <2>1, CallsTyped
  <2>3. board' # "SAMD"
    BY <1>2, <1>4
  <2>. QED  BY <2>2, <2>3 DEF TodoTyped
<1>5. CASE board = "SAMD"
  <2>1. \/ todo' = <<"count", "off", "count", "clear", "on">>
        \/ todo' = <<"count", "off", "count", "clear", "on", "count", "clear">>
        \/ todo' = <<"count", "clear">> \/ todo' = <<"off">>
        \/ todo' = <<"count", "clear", "on">>
    <3>1. board # "AVR"
      BY <1>5
    <3>. QED  BY <1>1, <1>3, <1>5, <3>1, Zenon DEF Functions, disableWatchDog
  <2>2. todo' \in Seq(Op) /\ todo' \in Seq(SamdOp)
    BY <2>1, CallsTyped
  <2>. QED  BY <2>2 DEF TodoTyped
<1>. QED  BY <1>4, <1>5

LEMMA CallingTyped ==
  ASSUME BarksTyped, RestTyped, Calling
  PROVE  BarksTyped' /\ RestTyped'
<1>1. /\ UNCHANGED <<board, barks, on, phase, unpetted>>
      /\ pc' \in {"awake", "asleep", "forcing"}
      /\ resetTime' = resetTime \/ resetTime' \in {1, 5 * 60, LoggerTime}
      /\ waited' = waited \/ waited' = 0
  <2>1. CASE startFixedWatchdog \/ begin
    BY <2>1 DEF startFixedWatchdog, begin, Call
  <2>2. CASE Pet \/ forceSysReset
    BY <2>2 DEF Pet, forceSysReset, Call
  <2>3. CASE systemSleep \/ Wake
    BY <2>3 DEF systemSleep, Wake, Call
  <2>. QED  BY <2>1, <2>2, <2>3 DEF Calling
<1>2. BarksTyped'
  <2>1. board' = board /\ barks' = barks
    BY <1>1
  <2>. QED  BY <2>1, SMT DEF BarksTyped
<1>. HIDE DEF LoggerTime
<1>3. RestTyped'
  BY <1>1 DEF RestTyped
<1>. QED  BY <1>2, <1>3

\* The count of an AVR that is not bitten is never below zero.
LEMMA AvrCounts ==
  ASSUME Shape, board = "AVR", pc \in {"awake", "asleep", "forcing"}
  PROVE  barks \in Counts
<1>1. CASE pc \in {"awake", "asleep"}
  BY <1>1 DEF Shape, AvrWatched
<1>2. CASE pc = "forcing"
  BY <1>2 DEF Shape, AvrForced
<1>. QED  BY <1>1, <1>2

\* The count of either board, in its own type.
LEMMA BarksAgain ==
  /\ board' = "AVR" /\ barks' \in -1..IntMax => BarksTyped'
  /\ board' # "AVR" /\ barks' \in 0..UIntMax => BarksTyped'
<1>1. ASSUME board' = "AVR", barks' \in -1..IntMax
      PROVE  BarksTyped'
  BY <1>1, SMTT(30) DEF BarksTyped
<1>2. ASSUME board' # "AVR", barks' \in 0..UIntMax
      PROVE  BarksTyped'
  BY <1>2, SMTT(30) DEF BarksTyped
<1>. QED  BY <1>1, <1>2

LEMMA ExecuteTyped ==
  ASSUME TypeOK, TodoTyped, BarksTyped, RestTyped, Shape, Shape', Execute
  PROVE  TodoTyped' /\ BarksTyped' /\ RestTyped'
<1>1. /\ Effect /\ todo # <<>> /\ todo' = Tail(todo)
      /\ UNCHANGED <<board, pc, resetTime, waited>>
  BY EffectForm
<1>2. TodoTyped'
  <2>1. \A S : todo \in Seq(S) => Tail(todo) \in Seq(S) /\ Head(todo) \in S
    BY <1>1
  <2>. QED  BY <1>1, <2>1 DEF TodoTyped
<1>3. /\ on' \in BOOLEAN /\ phase' \in {0, phase} /\ unpetted' \in {0, unpetted}
  BY DEF Execute
<1>4. pc \in {"awake", "asleep", "forcing"}
  BY <1>1 DEF Shape, Booting, RestTyped
<1>5. BarksTyped'
  <2>1. CASE board = "AVR"
    <3>1. barks' \in Counts
      <4>. USE DEF Shape, AvrWatched, AvrForced
      <4>1. CASE pc \in {"awake", "asleep"}
        <5>1. AvrWatched'
          BY <1>1, <2>1, <4>1
        <5>. QED  BY <5>1
      <4>2. CASE pc = "forcing"
        <5>1. AvrForced'
          BY <1>1, <2>1, <4>2
        <5>. QED  BY <5>1
      <4>. QED  BY <1>4, <4>1, <4>2
    <3>2. barks' \in -1..IntMax
      BY <3>1 DEF Counts
    <3>3. board' = "AVR"
      BY <1>1, <2>1
    <3>. QED  BY <3>2, <3>3, BarksAgain
  <2>2. CASE board # "AVR"
    <3>1. board = "SAMD"
      BY <2>2, WatchDogAssumption DEF RestTyped
    <3>2. Head(todo) \in SamdOp
      BY <1>1, <3>1 DEF TodoTyped
    <3>3. barks' \in {barks, Barks}
      BY <1>1, <3>2 DEF Effect, SamdOp
    <3>4. Barks \in 0..UIntMax
      <4>. HIDE DEF Barks, LoggerTime
      <4>1. resetTime \in {0, 1} \/ resetTime \in GuardTimes
        BY DEF RestTyped, GuardTimes
      <4>2. CASE resetTime \in {0, 1}
        <5>1. Barks = 0
          BY <4>2, NoBarks
        <5>. QED  BY <5>1, LoggerTimes
      <4>3. CASE resetTime \in GuardTimes
        <5>1. Barks \in 37..IntMax
          BY <4>3, GuardBarks
        <5>2. Barks <= UIntMax
          BY <4>3, GuardBarks
        <5>. QED  BY <5>1, <5>2, LoggerTimes
      <4>. QED  BY <4>1, <4>2, <4>3
    <3>5. barks \in 0..UIntMax /\ board' # "AVR"
      BY <1>1, <2>2 DEF BarksTyped
    <3>6. barks' \in 0..UIntMax
      BY <3>3, <3>4, <3>5
    <3>. QED  BY <3>5, <3>6, BarksAgain
  <2>. QED  BY <2>1, <2>2
<1>6. RestTyped'
  <2>. HIDE DEF LoggerTime
  <2>1. LoggerTime \in Nat
    BY LoggerTimes
  <2>2. phase' \in 0..7 /\ unpetted' \in 0..(LoggerTime + 1)
    BY <1>3, <2>1 DEF RestTyped
  <2>. QED  BY <1>1, <1>3, <2>2 DEF RestTyped
<1>. QED  BY <1>2, <1>5, <1>6

LEMMA TickTyped ==
  ASSUME TypeOK, TodoTyped, BarksTyped, RestTyped, Shape, Tick
  PROVE  TodoTyped' /\ BarksTyped' /\ RestTyped'
<1>0. LoggerTime \in Nat /\ UIntMax \in Nat
  BY LoggerTimes
<1>. HIDE DEF LoggerTime
<1>1. /\ pc \notin {"boot", "bitten"} /\ UNCHANGED <<board, resetTime, on>>
      /\ todo = <<>> => waited < 100
      /\ waited' = IF pc = "forcing" /\ todo = <<>> THEN waited + 1 ELSE waited
  BY TickForm
<1>a. /\ on => unpetted' = Longer(unpetted) /\ (Beat \/ NoBeat)
      /\ ~on => UNCHANGED <<unpetted, phase, barks, pc, todo>>
  BY TickForm
<1>2. /\ todo' = todo \/ todo' = <<>>
      /\ pc' = pc \/ pc' = "bitten"
      /\ barks' = barks \/ barks' = CountDown
      /\ phase' = phase \/ phase' = 0 \/ (phase # 7 /\ phase' = phase + 1)
  <2>1. Beat => /\ todo' = todo \/ todo' = <<>>
                /\ pc' = pc \/ pc' = "bitten"
                /\ barks' = CountDown /\ phase' = 0
    BY DEF Beat
  <2>2. NoBeat => UNCHANGED <<todo, pc, barks>> /\ phase # 7 /\ phase' = phase + 1
    BY DEF NoBeat
  <2>. QED  BY <1>a, <2>1, <2>2
<1>3. TodoTyped'
  <2>1. <<>> \in Seq(Op) /\ <<>> \in Seq(SamdOp)
    BY CallsTyped
  <2>. QED  BY <1>1, <1>2, <2>1 DEF TodoTyped
<1>4. BarksTyped'
  <2>1. CASE board = "AVR"
    <3>1. barks \in Counts
      BY <1>1, <2>1, AvrCounts DEF RestTyped
    <3>2. barks' = barks \/ barks' = barks - 1
      BY <1>2, <2>1 DEF CountDown
    <3>. DEFINE Int16 == -1..IntMax
    <3>3. barks' \in Int16
      <4>1. barks \in Int16
        BY <3>1 DEF Counts
      <4>2. barks - 1 \in Int16
        BY <3>1, CountsForm
      <4>. HIDE DEF Int16
      <4>. QED  BY <3>2, <4>1, <4>2
    <3>4. barks' \in -1..IntMax /\ board' = "AVR"
      BY <1>1, <2>1, <3>3
    <3>. QED  BY <3>4, BarksAgain
  <2>2. CASE board # "AVR"
    <3>1. barks \in 0..UIntMax
      BY <2>2 DEF BarksTyped
    <3>2. barks' = barks \/ barks' = IF barks = 0 THEN UIntMax ELSE barks - 1
      BY <1>2, <2>2 DEF CountDown
    <3>3. barks' \in 0..UIntMax
      BY <1>0, <3>1, <3>2
    <3>4. board' # "AVR"
      BY <1>1, <2>2
    <3>. QED  BY <3>3, <3>4, BarksAgain
  <2>. QED  BY <2>1, <2>2
<1>5. RestTyped'
  <2>1. phase' \in 0..7
    BY <1>2 DEF RestTyped
  <2>2. unpetted' \in 0..(LoggerTime + 1)
    <3>1. unpetted \in 0..(LoggerTime + 1)
      BY DEF RestTyped
    <3>2. Longer(unpetted) \in 0..(LoggerTime + 1)
      BY <1>0, <3>1 DEF Longer
    <3>. QED  BY <1>a, <3>1, <3>2
  <2>3. waited' \in 0..100
    <3>1. waited \in 0..100
      BY DEF RestTyped
    <3>. QED  BY <1>1, <3>1
  <2>4. /\ pc' \in {"boot", "awake", "asleep", "forcing", "bitten"} /\ on' \in BOOLEAN
        /\ board' \in Boards /\ resetTime' \in {0, 1, 5 * 60, LoggerTime}
    BY <1>1, <1>2 DEF RestTyped
  <2>. QED  BY <2>1, <2>2, <2>3, <2>4 DEF RestTyped
<1>. QED  BY <1>3, <1>4, <1>5

LEMMA RestartTyped ==
  ASSUME TodoTyped, BarksTyped, RestTyped, forceReturns \/ Reboot
  PROVE  TodoTyped' /\ BarksTyped' /\ RestTyped'
<1>0. LoggerTime \in Nat /\ UIntMax \in Nat
  BY LoggerTimes
<1>. HIDE DEF LoggerTime
<1>1. CASE forceReturns
  <2>1. /\ UNCHANGED <<board, todo, resetTime, barks, on, phase, unpetted>>
        /\ pc' = "awake" /\ waited' = 0
    BY <1>1 DEF forceReturns
  <2>2. BarksTyped'
    BY <2>1 DEF BarksTyped
  <2>. QED  BY <2>1, <2>2 DEF TodoTyped, RestTyped
<1>2. CASE Reboot
  <2>1. /\ UNCHANGED <<board, todo>> /\ pc' = "boot" /\ resetTime' = 0 /\ barks' = 0
        /\ on' = FALSE /\ phase' = 0 /\ waited' = 0 /\ unpetted' = 0
    BY <1>2 DEF Reboot
  <2>2. BarksTyped'
    <3>1. barks' \in -1..IntMax /\ barks' \in 0..UIntMax
      BY <1>0, <2>1, LargestCount
    <3>. QED  BY <3>1, BarksAgain
  <2>3. RestTyped'
    <3>1. /\ phase' \in 0..7 /\ waited' \in 0..100
      BY <2>1
    <3>2. unpetted' \in 0..(LoggerTime + 1)
      BY <1>0, <2>1
    <3>3. /\ pc' \in {"boot", "awake", "asleep", "forcing", "bitten"} /\ on' \in BOOLEAN
          /\ resetTime' \in {0, 1, 5 * 60, LoggerTime}
      BY <2>1
    <3>4. board' \in Boards
      BY <2>1 DEF RestTyped
    <3>. QED  BY <3>1, <3>2, <3>3, <3>4 DEF RestTyped
  <2>. QED  BY <2>1, <2>2, <2>3 DEF TodoTyped
<1>. QED  BY <1>1, <1>2

--------------------------------------------------------------------------------
(* The invariant and the theorems.                                         *)

LEMMA Start == Init => WatchInv
<1>. SUFFICES ASSUME Init PROVE WatchInv
  OBVIOUS
<1>0. LoggerTime \in Nat /\ UIntMax \in Nat
  BY LoggerTimes
<1>. HIDE DEF LoggerTime
<1>1. RestTyped
  <2>1. /\ phase \in 0..7 /\ waited \in 0..100
    BY DEF Init
  <2>2. unpetted \in 0..(LoggerTime + 1)
    BY <1>0 DEF Init
  <2>3. /\ pc \in {"boot", "awake", "asleep", "forcing", "bitten"} /\ on \in BOOLEAN
        /\ resetTime \in {0, 1, 5 * 60, LoggerTime} /\ board \in Boards
    BY DEF Init
  <2>. QED  BY <2>1, <2>2, <2>3 DEF RestTyped
<1>2. BarksTyped
  BY <1>0, LargestCount DEF Init, BarksTyped
<1>3. TodoTyped
  BY CallsTyped DEF Init, TodoTyped
<1>4. Shape
  BY DEF Init, Shape, Booting, Fresh
<1>. QED  BY <1>1, <1>2, <1>3, <1>4, TypeForm, Zenon DEF WatchInv

LEMMA Step == WatchInv /\ [Next]_vars => WatchInv'
<1>. SUFFICES ASSUME WatchInv, [Next]_vars PROVE WatchInv'
  OBVIOUS
<1>0. TypeOK /\ Shape /\ TodoTyped /\ BarksTyped /\ RestTyped
  BY TypeForm, Zenon DEF WatchInv
<1>. SUFFICES Shape' /\ TodoTyped' /\ BarksTyped' /\ RestTyped'
  <2>1. (TypeOK /\ (board = "SAMD" => todo \in Seq({"count", "clear", "on", "off"})))'
         <=> TodoTyped' /\ BarksTyped' /\ RestTyped'
    BY TypeForm, PTL
  <2>. QED  BY <2>1, Zenon DEF WatchInv
<1>1. CASE Execute
  <2>1. Shape'
    BY <1>0, <1>1, StepExecute
  <2>. QED  BY <1>0, <1>1, <2>1, ExecuteTyped
<1>2. CASE Calling
  <2>1. Shape'
    BY <1>0, <1>2, StepStart, StepPet, StepSleep, StepForce DEF Calling
  <2>2. board \in {"AVR", "SAMD"}
    BY <1>0, GroundsForm DEF Grounds
  <2>. QED  BY <1>0, <1>2, <2>1, <2>2, CallingTodo, CallingTyped
<1>3. CASE Tick
  BY <1>0, <1>3, StepTick, TickTyped
<1>4. CASE forceReturns \/ Reboot
  BY <1>0, <1>4, StepForce, StepReboot, RestartTyped
<1>5. CASE UNCHANGED vars
  <2>1. Shape'
    BY <1>0, <1>5
    DEF vars, Shape, Booting, Fresh, AvrWatched, AvrForced, SamdWatched, Barks
  <2>2. TodoTyped' /\ BarksTyped' /\ RestTyped'
    BY <1>0, <1>5 DEF vars, TodoTyped, BarksTyped, RestTyped
  <2>. QED  BY <2>1, <2>2
<1>. QED  BY <1>1, <1>2, <1>3, <1>4, <1>5 DEF Next, Calling

LEMMA Always == Spec => []WatchInv
  BY Start, Step, PTL DEF Spec

\* The variables of the watchdog keep their types: the AVR's count stays in its int16_t
\* and the SAMD's in its uint32_t, for every logging interval.
THEOREM TypeCorrect == Spec => []TypeOK
<1>1. WatchInv => TypeOK
  BY DEF WatchInv
<1>. QED  BY <1>1, Always, PTL

\* A program that hangs is caught: whenever the program runs (and on the AVR while it
\* sleeps) with the watchdog set up, the timer runs and was cleared less than the reset
\* time ago.
THEOREM HangsAreCaught == Spec => []HangIsCaught
<1>1. WatchInv => HangIsCaught
  <2>. SUFFICES ASSUME TypeOK, Shape, todo = <<>>, resetTime # 1,
                       pc \in (IF board = "AVR" THEN {"awake", "asleep"} ELSE {"awake"})
                PROVE  on /\ unpetted < 8 * Barks
    BY DEF WatchInv, HangIsCaught
  <2>0. phase \in 0..7 /\ barks \in Int /\ board \in {"AVR", "SAMD"}
    BY GroundsForm DEF Grounds
  <2>1. CASE board = "AVR"
    <3>1. AvrIdle
      BY <2>1, IdleForm
    <3>2. /\ on /\ barks > 0 /\ unpetted = 8 * (Barks - barks) + phase
          /\ resetTime \in GuardTimes
      BY <3>1, Zenon DEF AvrIdle
    <3>3. Barks \in 37..IntMax
      BY <3>2, GuardBarks
    <3>4. Barks \in Int
      BY <3>3
    <3>. HIDE DEF Barks
    <3>5. unpetted < 8 * Barks
      BY <2>0, <3>2, <3>4
    <3>. QED  BY <3>2, <3>5
  <2>2. CASE board = "SAMD"
    <3>0. pc = "awake"
      BY <2>2
    <3>1. SamdIdle
      BY <2>2, <3>0, IdleForm
    <3>2. /\ on /\ barks > 0 /\ resetTime \in GuardTimes
          /\ unpetted \in { 8 * (Barks - barks) + phase, 8 * (Barks - barks - 1) + phase }
      BY <3>0, <3>1, Zenon DEF SamdIdle
    <3>3. Barks \in 37..IntMax
      BY <3>2, GuardBarks
    <3>4. Barks \in Int
      BY <3>3
    <3>. HIDE DEF Barks
    <3>5. unpetted < 8 * Barks
      BY <2>0, <3>2, <3>4
    <3>. QED  BY <3>2, <3>5
  <2>. QED  BY <2>0, <2>1, <2>2
<1>. QED  BY <1>1, Always, PTL

\* The watchdog resets no program that clears it in time: when the count runs out between
\* two calls, the timer has run for the whole count since it was cleared (on the SAMD,
\* which clears it after it has stored the count, for one interrupt less).
THEOREM NoResetIsEarly == Spec => NoEarlyReset
<1>. DEFINE Early == Tick /\ todo = <<>> /\ pc' = "bitten"
                       => unpetted' >= 8 * (IF board = "AVR" THEN Barks ELSE Barks - 1)
<1>1. ASSUME WatchInv, [Next]_vars PROVE [Early]_vars
  <2>. SUFFICES ASSUME TypeOK, Shape, Tick, todo = <<>>, pc' = "bitten"
                PROVE  unpetted' >= 8 * (IF board = "AVR" THEN Barks ELSE Barks - 1)
    BY <1>1 DEF WatchInv
  <2>0. phase \in 0..7 /\ barks \in Int /\ board \in {"AVR", "SAMD"} /\ unpetted \in Nat
    BY GroundsForm DEF Grounds
  <2>1. pc \in {"awake", "asleep", "forcing"}
    BY TickForm DEF TypeOK
  <2>2. on /\ unpetted' = Longer(unpetted) /\ phase = 7 /\ CountDown <= 0
    <3>1. /\ on => unpetted' = Longer(unpetted) /\ (Beat \/ NoBeat)
          /\ ~on => pc' = pc
      BY TickForm
    <3>2. on
      BY <2>1, <3>1
    <3>3. ~NoBeat
      BY <2>1 DEF NoBeat
    <3>4. Beat
      BY <3>1, <3>2, <3>3
    <3>5. phase = 7 /\ CountDown <= 0
      BY <2>1, <3>4 DEF Beat
    <3>. QED  BY <3>1, <3>2, <3>5
  <2>3. LoggerTime \in Nat
    BY LoggerTimes
  <2>. HIDE DEF LoggerTime
  <2>4. unpetted' >= unpetted /\ (unpetted <= LoggerTime => unpetted' = unpetted + 1)
    BY <2>0, <2>2, <2>3 DEF Longer
  <2>5. CASE resetTime \in {0, 1}
    <3>1. Barks = 0
      BY <2>5, NoBarks
    <3>. HIDE DEF Barks
    <3>2. 8 * (IF board = "AVR" THEN Barks ELSE Barks - 1) <= 0
      BY <3>1
    <3>3. unpetted' >= 0 /\ unpetted' \in Int
      BY <2>0, <2>2, <2>3 DEF Longer
    <3>. QED  BY <3>1, <3>2, <3>3
  <2>6. CASE resetTime \notin {0, 1}
    <3>1. resetTime \in GuardTimes /\ resetTime # 1
      BY <2>6 DEF TypeOK, GuardTimes
    <3>2. Barks \in 37..IntMax
      BY <3>1, GuardBarks
    <3>3. Barks \in Int
      BY <3>2
    <3>4. 8 * Barks <= LoggerTime
      BY <3>1, GuardBarks
    <3>5. pc \in {"awake", "asleep"}
      BY <2>1, <3>1 DEF Shape
    <3>6. CASE board = "AVR"
      <4>1. AvrIdle
        BY <3>5, <3>6, IdleForm
      <4>2. unpetted = 8 * (Barks - barks) + phase
        BY <4>1, Zenon DEF AvrIdle
      <4>3. barks > 0
        BY <4>1, Zenon DEF AvrIdle
      <4>. HIDE DEF Barks
      <4>4. barks <= 1
        BY <2>0, <2>2, <3>6 DEF CountDown
      <4>. QED  BY <2>0, <2>2, <2>3, <2>4, <3>3, <3>4, <3>6, <4>2, <4>3, <4>4
    <3>7. CASE board = "SAMD"
      <4>1. SamdIdle
        BY <3>1, <3>5, <3>7, IdleForm
      <4>2. pc = "awake"
        BY <2>2, <3>5, <4>1, Zenon DEF SamdIdle
      <4>3. unpetted \in { 8 * (Barks - barks) + phase, 8 * (Barks - barks - 1) + phase }
        BY <4>1, <4>2, Zenon DEF SamdIdle
      <4>4. barks > 0
        BY <4>1, <4>2, Zenon DEF SamdIdle
      <4>. HIDE DEF Barks
      <4>5. barks <= 1
        BY <2>0, <2>2, <3>7, <4>4 DEF CountDown
      <4>6. barks = 1 /\ phase = 7
        BY <2>0, <2>2, <4>4, <4>5
      <4>7. unpetted = 8 * Barks - 1 \/ unpetted = 8 * Barks - 9
        BY <3>3, <4>3, <4>6
      <4>8. unpetted' >= 8 * (Barks - 1)
        BY <2>3, <2>4, <3>3, <3>4, <4>7
      <4>9. board # "AVR"
        BY <3>7
      <4>10. (IF board = "AVR" THEN Barks ELSE Barks - 1) = Barks - 1
        BY <4>9
      <4>. QED  BY <4>8, <4>10, Zenon
    <3>. QED  BY <2>0, <3>6, <3>7
  <2>. QED  BY <2>5, <2>6
<1>. QED  BY <1>1, Always, PTL DEF Spec, NoEarlyReset

\* A forced reset comes within eight seconds on the AVR.
THEOREM ForcedResetComes == Spec => []ForcedInTime
<1>1. WatchInv => ForcedInTime
  <2>. SUFFICES ASSUME TypeOK, Shape, pc = "forcing", board = "AVR" PROVE waited <= 8
    BY DEF WatchInv, ForcedInTime
  <2>0. phase \in 0..7 /\ waited \in Nat
    BY GroundsForm DEF Grounds
  <2>1. CASE todo = <<>>
    <3>1. waited <= phase
      BY <2>1, IdleForm
    <3>. QED  BY <2>0, <3>1
  <2>2. CASE todo # <<>>
    <3>1. waited = 0
      BY <2>2 DEF Shape, AvrForced
    <3>. QED  BY <3>1
  <2>. QED  BY <2>1, <2>2
<1>. QED  BY <1>1, Always, PTL
================================================================================
