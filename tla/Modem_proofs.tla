------------------------------ MODULE Modem_proofs ------------------------------
(***************************************************************************)
(* What holds of every modem, however often it hangs, resets, is slow or    *)
(* refuses to be set up, and for every number of attempts.                  *)
(***************************************************************************)
EXTENDS Modem, TLAPS

--------------------------------------------------------------------------------
(* The inductive invariant: which calls can be under way, and what is known *)
(* of the set-up and of the pins in each of them.                           *)

Frames ==
  [fn : Callers \cup {"modemWake", "modemSetup", "connectInternet"},
   at : Places, count : 0..CountMax, ok : BOOLEAN,
   wasPowered : BOOLEAN, wasAwake : BOOLEAN]

Typed ==
  /\ kind \in Kinds
  /\ module \in {"off", "asleep", "awake", "hung"}
  /\ lastSetup \in {"none", "done", "failed", "given up"}
  /\ wakePin \in BOOLEAN /\ powerOn \in BOOLEAN /\ pinModesSet \in BOOLEAN
  /\ hasBeenSetup \in BOOLEAN /\ ret \in BOOLEAN /\ leftOn \in BOOLEAN
  /\ stack \in Seq(Frames)

\* The caller that started the cycle is the i-th and last call.
CallerWaits(i, at) == Len(stack) = i /\ stack[i].fn \in Callers /\ stack[i].at = at

\* Outside of set-up a modem that counts as set up was not refused last.
NotRefused == hasBeenSetup => lastSetup \in {"done", "given up"}

WakeWaits(i) == stack[i].fn = "modemWake" /\ stack[i].at = "set up"

\* The calls under way below the last one, by what that one is: a caller, its modemWake,
\* the modemSetup of that, the modemWake of the modemSetup; its connectInternet and the
\* modemWake of that.
BelowCaller == Len(stack) = 1

BelowWake == CallerWaits(2, "woken")

BelowSetup == CallerWaits(3, "woken") /\ WakeWaits(2)

BelowSetupWake ==
  /\ CallerWaits(4, "woken") /\ WakeWaits(3)
  /\ stack[2].fn = "modemSetup" /\ stack[2].at = "woken"

BelowConnect == CallerWaits(2, "connected")

BelowConnectWake ==
  /\ CallerWaits(3, "connected")
  /\ stack[2].fn = "connectInternet" /\ stack[2].at = "woken"

InCaller ==
  /\ BelowCaller /\ stack[1].fn \in Callers /\ NotRefused
  /\ \/ stack[1].at = "woken" /\ (ret => hasBeenSetup)
     \/ stack[1].at \in {"connected", "online", "metadata"} /\ hasBeenSetup
     \/ stack[1].at = "leave"

\* modemWake before it calls modemSetup; its second reset is its last.
Waking ==
  /\ stack[1].fn = "modemWake" /\ stack[1].at \in {"begin", "test", "tested"}
  /\ stack[1].at # "tested" => stack[1].count <= 1

InWake ==
  /\ BelowWake /\ NotRefused
  /\ Waking \/ (WakeWaits(1) /\ (ret => hasBeenSetup))

InSetup ==
  /\ BelowSetup /\ stack[1].fn = "modemSetup"
  /\ \/ stack[1].at = "begin" /\ NotRefused
     \/ stack[1].at \in {"woken", "extra"} /\ hasBeenSetup
     \/ stack[1].at = "close" /\ NotRefused /\ (stack[1].ok => hasBeenSetup)

\* modemWake within modemSetup: the flag is set, so there is no further set-up.
InSetupWake == BelowSetupWake /\ Waking /\ hasBeenSetup

InConnect ==
  /\ BelowConnect /\ NotRefused /\ hasBeenSetup
  /\ stack[1].fn = "connectInternet"
  /\ \/ stack[1].at = "begin"
     \/ stack[1].at = "woken" /\ (ret => isModemAwake)
     \/ stack[1].at = "join" /\ isModemAwake

\* modemWake within connectInternet: it has driven the pin of a modem that has one.
InConnectWake ==
  /\ BelowConnectWake /\ Waking /\ NotRefused /\ hasBeenSetup
  /\ stack[1].at # "begin" /\ kind.shows = "pin" => wakePin

Shape ==
  \/ stack = <<>> /\ NotRefused
  \/ InCaller \/ InWake \/ InSetup \/ InSetupWake \/ InConnect \/ InConnectWake

ModemInv == Typed /\ Shape /\ OffAfterCycle

--------------------------------------------------------------------------------
(* The stack.                                                              *)

LEMMA Limits ==
  /\ CountMax \in Nat /\ 2 <= CountMax /\ NistTries <= CountMax /\ TestUpdates <= CountMax
  /\ NistTries \in Nat /\ TestUpdates \in Nat
<1>. DEFINE S == {2, NistTries, TestUpdates}
<1>0. NistTries \in Nat /\ TestUpdates \in Nat
  BY ModemAssumption
<1>1. \E n \in S : \A m \in S : m <= n
  BY <1>0
<1>2. \E n \in S : S \subseteq 0..n
  BY <1>0, <1>1
<1>3. CountMax \in S /\ S \subseteq 0..CountMax
  BY <1>2 DEF CountMax
<1>. QED  BY <1>0, <1>3

LEMMA PopForm ==
  ASSUME NEW S, NEW s \in Seq(S), s # <<>>
  PROVE  /\ Head(s) = s[1] /\ s[1] \in S /\ Len(s) \in Nat /\ Len(s) >= 1
         /\ Tail(s) \in Seq(S) /\ Len(Tail(s)) = Len(s) - 1
         /\ \A i \in 1..(Len(s) - 1) : Tail(s)[i] = s[i + 1]
<1>1. Head(s) = s[1] /\ s[1] \in S
  OBVIOUS
<1>2. Len(s) \in Nat /\ Len(s) >= 1
  OBVIOUS
<1>3. Tail(s) \in Seq(S)
  OBVIOUS
<1>4. Len(Tail(s)) = Len(s) - 1
  OBVIOUS
<1>5. \A i \in 1..(Len(s) - 1) : Tail(s)[i] = s[i + 1]
  OBVIOUS
<1>. QED  BY <1>1, <1>2, <1>3, <1>4, <1>5

LEMMA TopForm ==
  ASSUME Typed, stack # <<>>
  PROVE  /\ Top = stack[1] /\ stack[1] \in Frames
         /\ Len(stack) \in Nat /\ Len(stack) >= 1
<1>1. stack \in Seq(Frames)
  BY DEF Typed
<1>. QED  BY <1>1, PopForm DEF Top

LEMMA PushForm ==
  ASSUME NEW s \in Seq(Frames), NEW g \in Frames
  PROVE  /\ <<g>> \o s \in Seq(Frames) /\ Len(<<g>> \o s) = Len(s) + 1
         /\ (<<g>> \o s)[1] = g
         /\ \A i \in 1..Len(s) : (<<g>> \o s)[i + 1] = s[i]
<1>1. <<g>> \in Seq(Frames) /\ Len(<<g>>) = 1 /\ <<g>>[1] = g /\ Len(s) \in Nat
  OBVIOUS
<1>2. <<g>> \o s \in Seq(Frames) /\ Len(<<g>> \o s) = Len(s) + 1
  BY <1>1
<1>3. (<<g>> \o s)[1] = g
  BY <1>1
<1>4. \A i \in 1..Len(s) : (<<g>> \o s)[i + 1] = s[i]
  BY <1>1
<1>. QED  BY <1>2, <1>3, <1>4

LEMMA LongIsNotEmpty ==
  ASSUME NEW S, NEW s \in Seq(S), Len(s) \in {1, 2, 3, 4}
  PROVE  s # <<>>
<1>1. Len(<<>>) = 0
  OBVIOUS
<1>. QED  BY <1>1

\* A call goes on: it alone changes.
LEMMA GotoForm ==
  ASSUME Typed, stack # <<>>, NEW f \in Frames, Goto(f)
  PROVE  /\ stack' \in Seq(Frames) /\ Len(stack') = Len(stack) /\ ret' = ret
         /\ stack'[1] = f /\ \A i \in 2..Len(stack) : stack'[i] = stack[i]
<1>. DEFINE t == Tail(stack)
<1>1. /\ t \in Seq(Frames) /\ Len(t) = Len(stack) - 1 /\ Len(stack) \in Nat
      /\ \A i \in 1..Len(t) : t[i] = stack[i + 1]
  <2>1. stack \in Seq(Frames)
    BY DEF Typed
  <2>. QED  BY <2>1, PopForm
<1>2. stack' = <<f>> \o t /\ ret' = ret
  BY DEF Goto
<1>. HIDE DEF t
<1>3. /\ stack' \in Seq(Frames) /\ Len(stack') = Len(t) + 1 /\ stack'[1] = f
      /\ \A i \in 1..Len(t) : stack'[i + 1] = t[i]
  BY <1>1, <1>2, PushForm
<1>4. ASSUME NEW i \in 2..Len(stack) PROVE stack'[i] = stack[i]
  <2>1. i - 1 \in 1..Len(t) /\ (i - 1) + 1 = i
    BY <1>1
  <2>. QED  BY <1>1, <1>3, <2>1
<1>. QED  BY <1>1, <1>2, <1>3, <1>4

\* A call makes another.
LEMMA CallForm ==
  ASSUME Typed, stack # <<>>, NEW f \in Frames, NEW g, Frame(g) \in Frames, Call(g, f)
  PROVE  /\ stack' \in Seq(Frames) /\ Len(stack') = Len(stack) + 1 /\ ret' = ret
         /\ stack'[1] = Frame(g) /\ stack'[2] = f
         /\ \A i \in 2..Len(stack) : stack'[i + 1] = stack[i]
<1>. DEFINE t == Tail(stack)
<1>1. /\ t \in Seq(Frames) /\ Len(t) = Len(stack) - 1 /\ Len(stack) \in Nat
      /\ \A i \in 1..Len(t) : t[i] = stack[i + 1]
  <2>1. stack \in Seq(Frames)
    BY DEF Typed
  <2>. QED  BY <2>1, PopForm
<1>. DEFINE u == <<f>> \o t
<1>2. stack' = <<Frame(g), f>> \o t /\ ret' = ret
  BY DEF Call
<1>. HIDE DEF t
<1>3. /\ u \in Seq(Frames) /\ Len(u) = Len(t) + 1 /\ u[1] = f
      /\ \A i \in 1..Len(t) : u[i + 1] = t[i]
  BY <1>1, PushForm
<1>4. stack' = <<Frame(g)>> \o u
  BY <1>1, <1>2
<1>. HIDE DEF u
<1>5. /\ stack' \in Seq(Frames) /\ Len(stack') = Len(u) + 1 /\ stack'[1] = Frame(g)
      /\ \A i \in 1..Len(u) : stack'[i + 1] = u[i]
  BY <1>3, <1>4, PushForm
<1>6. stack'[2] = f
  BY <1>1, <1>3, <1>5
<1>7. ASSUME NEW i \in 2..Len(stack) PROVE stack'[i + 1] = stack[i]
  <2>1. i - 1 \in 1..Len(t) /\ (i - 1) + 1 = i /\ i \in 1..Len(u)
    BY <1>1, <1>3
  <2>2. u[i] = stack[i]
    BY <1>1, <1>3, <2>1
  <2>. QED  BY <1>5, <2>1, <2>2
<1>. QED  BY <1>1, <1>2, <1>3, <1>5, <1>6, <1>7

\* A call returns.
LEMMA ReturnForm ==
  ASSUME Typed, stack # <<>>, NEW v, Return(v)
  PROVE  /\ stack' \in Seq(Frames) /\ Len(stack') = Len(stack) - 1 /\ ret' = v
         /\ \A i \in 1..(Len(stack) - 1) : stack'[i] = stack[i + 1]
<1>1. stack \in Seq(Frames) /\ stack' = Tail(stack) /\ ret' = v
  BY DEF Typed, Return
<1>. QED  BY <1>1, PopForm

\* What is below a call stays while it goes on, ...
LEMMA GotoBelow ==
  ASSUME Typed, stack # <<>>, NEW f \in Frames, Goto(f)
  PROVE  /\ stack' \in Seq(Frames) /\ stack' # <<>> /\ ret' = ret /\ stack'[1] = f
         /\ BelowCaller => BelowCaller'
         /\ BelowWake => BelowWake'
         /\ BelowSetup => BelowSetup'
         /\ BelowSetupWake => BelowSetupWake'
         /\ BelowConnect => BelowConnect'
         /\ BelowConnectWake => BelowConnectWake'
<1>1. /\ stack' \in Seq(Frames) /\ Len(stack') = Len(stack) /\ ret' = ret
      /\ stack'[1] = f /\ \A i \in 2..Len(stack) : stack'[i] = stack[i]
  BY GotoForm
<1>2. stack' # <<>>
  BY <1>1, TopForm
<1>3. /\ Len(stack) = 2 => stack'[2] = stack[2]
      /\ Len(stack) = 3 => stack'[2] = stack[2] /\ stack'[3] = stack[3]
      /\ Len(stack) = 4 => stack'[2] = stack[2] /\ stack'[3] = stack[3] /\ stack'[4] = stack[4]
  BY <1>1
<1>. QED
  BY <1>1, <1>2, <1>3
  DEF BelowCaller, BelowWake, BelowSetup, BelowSetupWake, BelowConnect, BelowConnectWake,
      CallerWaits, WakeWaits

\* ... is joined by the call that makes another, ...
LEMMA CallBelow ==
  ASSUME Typed, stack # <<>>, NEW f \in Frames, NEW g, Frame(g) \in Frames, Call(g, f)
  PROVE  /\ stack' \in Seq(Frames) /\ stack' # <<>> /\ ret' = ret /\ stack'[1] = Frame(g)
         /\ BelowWake /\ f.fn = "modemWake" /\ f.at = "set up" => BelowSetup'
         /\ BelowSetup /\ f.fn = "modemSetup" /\ f.at = "woken" => BelowSetupWake'
         /\ BelowCaller /\ f.fn \in Callers /\ f.at = "connected" => BelowConnect'
         /\ BelowConnect /\ f.fn = "connectInternet" /\ f.at = "woken" => BelowConnectWake'
<1>1. /\ stack' \in Seq(Frames) /\ Len(stack') = Len(stack) + 1 /\ ret' = ret
      /\ stack'[1] = Frame(g) /\ stack'[2] = f
      /\ \A i \in 2..Len(stack) : stack'[i + 1] = stack[i]
  BY CallForm
<1>0. Len(stack') = Len(stack) + 1 /\ stack'[1] = Frame(g) /\ stack'[2] = f
  BY <1>1
<1>2. stack' # <<>> /\ Len(stack) \in Nat
  BY <1>1, TopForm
<1>3. /\ Len(stack) = 2 => stack'[3] = stack[2]
      /\ Len(stack) = 3 => stack'[3] = stack[2] /\ stack'[4] = stack[3]
  <2>1. ASSUME Len(stack) = 2 PROVE stack'[2 + 1] = stack[2]
    BY <1>1, <2>1
  <2>2. ASSUME Len(stack) = 3 PROVE stack'[2 + 1] = stack[2] /\ stack'[3 + 1] = stack[3]
    BY <1>1, <2>2
  <2>. QED  BY <2>1, <2>2
<1>l. Len(stack) = 2 => Len(stack') = 3
  BY <1>0
<1>4. BelowWake /\ f.fn = "modemWake" /\ f.at = "set up" => BelowSetup'
  <2>. SUFFICES ASSUME BelowWake, f.fn = "modemWake", f.at = "set up" PROVE BelowSetup'
    OBVIOUS
  <2>1. Len(stack) = 2 /\ stack[2].fn \in Callers /\ stack[2].at = "woken"
    BY DEF BelowWake, CallerWaits
  <2>a. Len(stack) = 2
    BY <2>1
  <2>b. Len(stack') = 3
    BY <1>l, <2>a
  <2>c. stack'[3] = stack[2]
    BY <1>3, <2>a
  <2>2. Len(stack') = 3 /\ stack'[3] = stack[2] /\ stack'[2] = f
    BY <1>0, <2>b, <2>c
  <2>. QED  BY <2>1, <2>2 DEF BelowSetup, CallerWaits, WakeWaits
<1>5. BelowSetup /\ f.fn = "modemSetup" /\ f.at = "woken" => BelowSetupWake'
  <2>. SUFFICES ASSUME BelowSetup, f.fn = "modemSetup", f.at = "woken" PROVE BelowSetupWake'
    OBVIOUS
  <2>1. /\ Len(stack) = 3 /\ stack[3].fn \in Callers /\ stack[3].at = "woken"
        /\ stack[2].fn = "modemWake" /\ stack[2].at = "set up"
    BY DEF BelowSetup, CallerWaits, WakeWaits
  <2>a. Len(stack) = 3
    BY <2>1
  <2>b. Len(stack') = 4
    BY <1>0, <2>a
  <2>c. stack'[4] = stack[3] /\ stack'[3] = stack[2]
    BY <1>3, <2>a
  <2>2. Len(stack') = 4 /\ stack'[4] = stack[3] /\ stack'[3] = stack[2] /\ stack'[2] = f
    BY <1>0, <2>b, <2>c
  <2>. QED  BY <2>1, <2>2 DEF BelowSetupWake, CallerWaits, WakeWaits
<1>6. BelowCaller /\ f.fn \in Callers /\ f.at = "connected" => BelowConnect'
  BY <1>1 DEF BelowCaller, BelowConnect, CallerWaits
<1>7. BelowConnect /\ f.fn = "connectInternet" /\ f.at = "woken" => BelowConnectWake'
  BY <1>1, <1>3 DEF BelowConnect, BelowConnectWake, CallerWaits
<1>. QED  BY <1>1, <1>2, <1>4, <1>5, <1>6, <1>7

\* ... and goes on when it returns.
LEMMA ReturnBelow ==
  ASSUME Typed, stack # <<>>, NEW v, Return(v)
  PROVE  /\ stack' \in Seq(Frames) /\ ret' = v
         /\ BelowCaller => stack' = <<>>
         /\ BelowWake => /\ BelowCaller' /\ stack'[1].fn \in Callers
                         /\ stack'[1].at = "woken"
         /\ BelowSetup => BelowWake' /\ WakeWaits(1)'
         /\ BelowSetupWake => /\ BelowSetup' /\ stack'[1].fn = "modemSetup"
                              /\ stack'[1].at = "woken"
         /\ BelowConnect => /\ BelowCaller' /\ stack'[1].fn \in Callers
                            /\ stack'[1].at = "connected"
         /\ BelowConnectWake => /\ BelowConnect' /\ stack'[1].fn = "connectInternet"
                                /\ stack'[1].at = "woken"
<1>1. /\ stack' \in Seq(Frames) /\ Len(stack') = Len(stack) - 1 /\ ret' = v
      /\ \A i \in 1..(Len(stack) - 1) : stack'[i] = stack[i + 1]
  BY ReturnForm
<1>2. Len(stack) \in Nat /\ (Len(stack) = 1 => stack' = <<>>)
  <2>1. Len(stack) \in Nat
    BY TopForm
  <2>2. ASSUME Len(stack) = 1 PROVE stack' = <<>>
    <3>1. Len(stack') = 0
      BY <1>1, <2>2
    <3>. QED  BY <1>1, <3>1
  <2>. QED  BY <2>1, <2>2
<1>3. /\ Len(stack) = 2 => stack'[1] = stack[2]
      /\ Len(stack) = 3 => stack'[1] = stack[2] /\ stack'[2] = stack[3]
      /\ Len(stack) = 4 => stack'[1] = stack[2] /\ stack'[2] = stack[3] /\ stack'[3] = stack[4]
  <2>1. ASSUME Len(stack) = 2 PROVE stack'[1] = stack[1 + 1]
    BY <1>1, <2>1
  <2>2. ASSUME Len(stack) = 3 PROVE stack'[1] = stack[1 + 1] /\ stack'[2] = stack[2 + 1]
    BY <1>1, <2>2
  <2>3. ASSUME Len(stack) = 4
        PROVE  /\ stack'[1] = stack[1 + 1] /\ stack'[2] = stack[2 + 1]
               /\ stack'[3] = stack[3 + 1]
    BY <1>1, <2>3
  <2>. QED  BY <2>1, <2>2, <2>3
<1>4. BelowCaller => stack' = <<>>
  BY <1>2 DEF BelowCaller
<1>0. Len(stack') = Len(stack) - 1
  BY <1>1
<1>5. BelowWake => BelowCaller' /\ stack'[1].fn \in Callers /\ stack'[1].at = "woken"
  BY <1>1, <1>3 DEF BelowWake, BelowCaller, CallerWaits
<1>6. BelowSetup => BelowWake' /\ WakeWaits(1)'
  <2>. SUFFICES ASSUME BelowSetup PROVE BelowWake' /\ WakeWaits(1)'
    OBVIOUS
  <2>1. /\ Len(stack) = 3 /\ stack[3].fn \in Callers /\ stack[3].at = "woken"
        /\ stack[2].fn = "modemWake" /\ stack[2].at = "set up"
    BY DEF BelowSetup, CallerWaits, WakeWaits
  <2>a. Len(stack) = 3
    BY <2>1
  <2>b. Len(stack') = 2
    BY <1>0, <2>a
  <2>c. stack'[1] = stack[2] /\ stack'[2] = stack[3]
    BY <1>3, <2>a
  <2>2. Len(stack') = 2 /\ stack'[1] = stack[2] /\ stack'[2] = stack[3]
    BY <2>b, <2>c
  <2>. QED  BY <2>1, <2>2 DEF BelowWake, CallerWaits, WakeWaits
<1>7. BelowSetupWake => /\ BelowSetup' /\ stack'[1].fn = "modemSetup"
                        /\ stack'[1].at = "woken"
  <2>. SUFFICES ASSUME BelowSetupWake
                PROVE  BelowSetup' /\ stack'[1].fn = "modemSetup" /\ stack'[1].at = "woken"
    OBVIOUS
  <2>1. /\ Len(stack) = 4 /\ stack[4].fn \in Callers /\ stack[4].at = "woken"
        /\ stack[3].fn = "modemWake" /\ stack[3].at = "set up"
        /\ stack[2].fn = "modemSetup" /\ stack[2].at = "woken"
    BY DEF BelowSetupWake, CallerWaits, WakeWaits
  <2>a. Len(stack) = 4
    BY <2>1
  <2>b. Len(stack') = 3
    BY <1>0, <2>a
  <2>c. stack'[1] = stack[2] /\ stack'[2] = stack[3] /\ stack'[3] = stack[4]
    BY <1>3, <2>a
  <2>2. /\ Len(stack') = 3 /\ stack'[1] = stack[2] /\ stack'[2] = stack[3]
        /\ stack'[3] = stack[4]
    BY <2>b, <2>c
  <2>. QED  BY <2>1, <2>2 DEF BelowSetup, CallerWaits, WakeWaits
<1>8. BelowConnect => BelowCaller' /\ stack'[1].fn \in Callers /\ stack'[1].at = "connected"
  BY <1>1, <1>3 DEF BelowConnect, BelowCaller, CallerWaits
<1>9. BelowConnectWake => /\ BelowConnect' /\ stack'[1].fn = "connectInternet"
                          /\ stack'[1].at = "woken"
  BY <1>1, <1>3 DEF BelowConnect, BelowConnectWake, CallerWaits
<1>. QED  BY <1>1, <1>4, <1>5, <1>6, <1>7, <1>8, <1>9

--------------------------------------------------------------------------------
(* What a call becomes.                                                    *)

LEMMA AllPlaces ==
  /\ "begin" \in Places /\ "test" \in Places /\ "tested" \in Places
  /\ "set up" \in Places /\ "woken" \in Places /\ "extra" \in Places
  /\ "close" \in Places /\ "join" \in Places /\ "connected" \in Places
  /\ "online" \in Places /\ "metadata" \in Places /\ "leave" \in Places
BY DEF Places

Ends(value, at) == [Top EXCEPT !.ok = value, !.at = at]
Asks(at) == [Top EXCEPT !.count = 0, !.at = at]
Counts == [Top EXCEPT !.count = @ + 1]
Finds(powered, awake, at) ==
  [[Top EXCEPT !.wasPowered = powered, !.wasAwake = awake] EXCEPT !.at = at]

LEMMA ToForm ==
  ASSUME Top \in Frames, NEW a \in Places
  PROVE  /\ To(a) \in Frames /\ To(a).fn = Top.fn /\ To(a).at = a /\ To(a).count = Top.count
         /\ To(a).ok = Top.ok /\ To(a).wasPowered = Top.wasPowered
         /\ To(a).wasAwake = Top.wasAwake
BY DEF Frames, To

LEMMA EndsForm ==
  ASSUME Top \in Frames, NEW a \in Places, NEW v \in BOOLEAN
  PROVE  /\ Ends(v, a) \in Frames /\ Ends(v, a).fn = Top.fn /\ Ends(v, a).at = a
         /\ Ends(v, a).ok = v
BY DEF Frames, Ends

LEMMA AsksForm ==
  ASSUME Top \in Frames, NEW a \in Places
  PROVE  Asks(a) \in Frames /\ Asks(a).fn = Top.fn /\ Asks(a).at = a
<1>1. 0 \in 0..CountMax
  BY Limits
<1>. QED  BY <1>1 DEF Frames, Asks

LEMMA CountsForm ==
  ASSUME Top \in Frames, Top.count < CountMax
  PROVE  Counts \in Frames /\ Counts.fn = Top.fn /\ Counts.at = Top.at
<1>1. Top.count \in 0..CountMax
  BY DEF Frames
<1>2. Top.count + 1 \in 0..CountMax
  BY <1>1, Limits
<1>. QED  BY <1>2 DEF Frames, Counts

LEMMA FindsForm ==
  ASSUME Top \in Frames, NEW a \in Places, NEW p \in BOOLEAN, NEW w \in BOOLEAN
  PROVE  Finds(p, w, a) \in Frames /\ Finds(p, w, a).fn = Top.fn /\ Finds(p, w, a).at = a
BY DEF Frames, Finds

LEMMA NewForm ==
  ASSUME NEW fn \in Callers \cup {"modemWake", "modemSetup", "connectInternet"}
  PROVE  /\ Frame(fn) \in Frames /\ Frame(fn).fn = fn /\ Frame(fn).at = "begin"
         /\ Frame(fn).count = 0
<1>1. 0 \in 0..CountMax
  BY Limits
<1>2. fn \in Callers \cup {"modemWake", "modemSetup", "connectInternet"}
  OBVIOUS
<1>3. Frame(fn).fn = fn /\ Frame(fn).at = "begin" /\ Frame(fn).count = 0
  BY DEF Frame
<1>. HIDE DEF Callers
<1>4. "begin" \in Places
  BY DEF Places
<1>5. Frame(fn) \in Frames
  BY <1>1, <1>2, <1>4 DEF Frames, Frame
<1>. QED  BY <1>3, <1>5

--------------------------------------------------------------------------------
(* modemWake.                                                              *)

LEMMA WhichWake ==
  ASSUME Typed, Shape, stack # <<>>, stack[1].fn = "modemWake"
  PROVE  InWake \/ InSetupWake \/ InConnectWake
<1>1. ~InCaller /\ ~InSetup /\ ~InConnect
  BY DEF InCaller, InSetup, InConnect, Callers
<1>. QED  BY <1>1 DEF Shape

\* modemWake goes on, in each of the calls it can be made from.
LEMMA WakeGoesOn ==
  ASSUME Typed, Shape, stack # <<>>, stack[1].fn = "modemWake", stack[1].at # "set up",
         NEW f \in Frames, Goto(f), f.fn = "modemWake", f.at \in {"test", "tested"},
         f.at # "tested" => f.count <= 1,
         UNCHANGED <<kind, hasBeenSetup, lastSetup>>,
         InConnectWake /\ kind.shows = "pin" => wakePin'
  PROVE  Shape' /\ stack' \in Seq(Frames) /\ stack' # <<>> /\ ret' = ret
<1>1. /\ stack' \in Seq(Frames) /\ stack' # <<>> /\ ret' = ret /\ stack'[1] = f
      /\ BelowWake => BelowWake'
      /\ BelowSetupWake => BelowSetupWake'
      /\ BelowConnectWake => BelowConnectWake'
  BY GotoBelow
<1>2. Waking'
  BY <1>1 DEF Waking
<1>3. NotRefused => NotRefused'
  BY DEF NotRefused
<1>4. CASE InWake
  BY <1>1, <1>2, <1>3, <1>4 DEF InWake, Shape
<1>5. CASE InSetupWake
  BY <1>1, <1>2, <1>5 DEF InSetupWake, Shape
<1>6. CASE InConnectWake
  BY <1>1, <1>2, <1>3, <1>6 DEF InConnectWake, Shape
<1>. QED  BY <1>1, <1>4, <1>5, <1>6, WhichWake

\* It reports success only with an answer of the module, and then the modem looks awake.
LEMMA WakeEnds ==
  ASSUME Typed, Shape, stack # <<>>, stack[1].fn = "modemWake", NEW v \in BOOLEAN, Return(v),
         \/ stack[1].at = "tested" /\ hasBeenSetup /\ (v => module = "awake")
         \/ stack[1].at = "set up" /\ v = ret,
         UNCHANGED <<kind, module, wakePin, hasBeenSetup, lastSetup>>
  PROVE  Shape' /\ stack' \in Seq(Frames) /\ stack' # <<>> /\ ret' = v
<1>1. /\ stack' \in Seq(Frames) /\ ret' = v
      /\ BelowWake => /\ BelowCaller' /\ stack'[1].fn \in Callers
                      /\ stack'[1].at = "woken"
      /\ BelowSetupWake => /\ BelowSetup' /\ stack'[1].fn = "modemSetup"
                           /\ stack'[1].at = "woken"
      /\ BelowConnectWake => /\ BelowConnect' /\ stack'[1].fn = "connectInternet"
                             /\ stack'[1].at = "woken"
  BY ReturnBelow
<1>2. NotRefused => NotRefused'
  BY DEF NotRefused
<1>0. stack' \in Seq(Frames)
  BY <1>1
<1>4. CASE InWake
  <2>1. v => hasBeenSetup
    BY <1>4 DEF InWake, WakeWaits, Waking
  <2>2. BelowCaller' /\ stack'[1].fn \in Callers /\ stack'[1].at = "woken"
    BY <1>1, <1>4 DEF InWake
  <2>3. Len(stack') = 1
    BY <2>2 DEF BelowCaller
  <2>4. ret' => hasBeenSetup'
    BY <1>1, <2>1
  <2>5. NotRefused'
    BY <1>2, <1>4 DEF InWake
  <2>6. Shape'
    BY <1>1, <2>2, <2>4, <2>5 DEF InCaller, Shape
  <2>7. stack' # <<>>
    BY <2>3, <1>0, LongIsNotEmpty
  <2>. QED  BY <1>1, <2>6, <2>7
<1>5. CASE InSetupWake
  <2>1. BelowSetup' /\ stack'[1].fn = "modemSetup" /\ stack'[1].at = "woken" /\ hasBeenSetup'
    BY <1>1, <1>5 DEF InSetupWake
  <2>2. Len(stack') = 3
    BY <2>1 DEF BelowSetup, CallerWaits
  <2>3. Shape'
    BY <2>1 DEF InSetup, Shape
  <2>4. stack' # <<>>
    BY <2>2, <1>0, LongIsNotEmpty
  <2>. QED  BY <1>1, <2>3, <2>4
<1>6. CASE InConnectWake
  <2>1. /\ BelowConnect' /\ stack'[1].fn = "connectInternet" /\ stack'[1].at = "woken"
        /\ hasBeenSetup' /\ NotRefused'
    BY <1>1, <1>2, <1>6 DEF InConnectWake
  <2>2. Len(stack') = 2
    BY <2>1 DEF BelowConnect, CallerWaits
  <2>3. stack[1].at = "tested" /\ (v => module = "awake")
    BY <1>6 DEF InConnectWake, Waking
  <2>4. kind.shows = "pin" => wakePin
    BY <1>6, <2>3 DEF InConnectWake
  <2>5. kind.shows \in {"pin", "status", "answer"}
    BY ModemAssumption DEF Typed
  <2>6. v => isModemAwake'
    BY <2>3, <2>4, <2>5 DEF isModemAwake, Shows
  <2>7. ret' => isModemAwake'
    BY <1>1, <2>6
  <2>8. Shape'
    BY <2>1, <2>7 DEF InConnect, Shape
  <2>9. stack' # <<>>
    BY <2>2, <1>0, LongIsNotEmpty
  <2>. QED  BY <1>1, <2>8, <2>9
<1>. QED  BY <1>4, <1>5, <1>6, WhichWake

\* While calls are under way nothing is promised of the power.
LEMMA Underway ==
  ASSUME Typed', Shape', stack' # <<>>
  PROVE  ModemInv'
BY DEF ModemInv, OffAfterCycle

LEMMA InCall ==
  ASSUME ModemInv, NEW fn, NEW at, At(fn, at)
  PROVE  /\ Typed /\ Shape /\ stack # <<>> /\ Top = stack[1] /\ stack[1] \in Frames
         /\ stack[1].fn = fn /\ stack[1].at = at /\ stack[1].count \in Nat
<1>1. Typed /\ Shape /\ stack # <<>>
  BY DEF ModemInv, At
<1>2. Top = stack[1] /\ stack[1] \in Frames
  BY <1>1, TopForm
<1>3. stack[1].count \in Nat
  BY <1>2, Limits DEF Frames
<1>. QED  BY <1>1, <1>2, <1>3 DEF At

\* What a wake that has begun says of the count of its resets.
LEMMA WakeCount ==
  ASSUME Typed, Shape, stack # <<>>, stack[1].fn = "modemWake", stack[1].at \in {"begin", "test"}
  PROVE  stack[1].count <= 1
BY WhichWake DEF InWake, InSetupWake, InConnectWake, Waking, WakeWaits

LEMMA Powered ==
  ASSUME Typed
  PROVE  /\ PoweredModule \subseteq {"off", "asleep", "awake", "hung"}
         /\ PoweredPin \in BOOLEAN
BY DEF Typed, PoweredModule, PoweredPin, Up

LEMMA WakeBeginStep ==
  ASSUME ModemInv, WakeBegin
  PROVE  ModemInv'
<1>. DEFINE f == To("test")
<1>1. /\ Typed /\ Shape /\ stack # <<>> /\ Top = stack[1] /\ stack[1] \in Frames
      /\ stack[1].fn = "modemWake" /\ stack[1].at = "begin"
  BY InCall DEF WakeBegin
<1>2. f \in Frames /\ f.fn = "modemWake" /\ f.at = "test" /\ f.count = stack[1].count
  BY <1>1, AllPlaces, ToForm
<1>3. f.count <= 1
  BY <1>1, <1>2, WakeCount
<1>4. /\ Goto(f) /\ kind' = kind /\ hasBeenSetup' = hasBeenSetup
      /\ lastSetup' = lastSetup /\ leftOn' = leftOn
  BY DEF WakeBegin, history
<1>5. PICK m \in PoweredModule :
        LET pin == PoweredPin /\ pinModesSet IN
          IF Shows(m, pin) THEN module' = m /\ wakePin' = pin
                           ELSE module' \in Up /\ wakePin' = (kind.shows = "pin")
  BY DEF WakeBegin
<1>6. kind.shows = "pin" => wakePin'
  BY <1>5 DEF Shows
<1>. HIDE DEF f
<1>7. Shape' /\ stack' \in Seq(Frames) /\ stack' # <<>> /\ ret' = ret
  BY <1>1, <1>2, <1>3, <1>4, <1>6, WakeGoesOn
<1>8. module' \in {"off", "asleep", "awake", "hung"} /\ wakePin' \in BOOLEAN
  BY <1>1, <1>5, Powered DEF Up, Typed
<1>9. powerOn' \in BOOLEAN /\ pinModesSet' \in BOOLEAN
  BY DEF WakeBegin
<1>10. Typed'
  BY <1>1, <1>4, <1>7, <1>8, <1>9 DEF Typed
<1>. QED  BY <1>7, <1>10, Underway

LEMMA WakeAnswerStep ==
  ASSUME ModemInv, WakeAnswer
  PROVE  ModemInv'
<1>. DEFINE f == Ends(TRUE, "tested")
<1>1. /\ Typed /\ Shape /\ stack # <<>> /\ Top = stack[1] /\ stack[1] \in Frames
      /\ stack[1].fn = "modemWake" /\ stack[1].at = "test"
  BY InCall DEF WakeAnswer
<1>2. f \in Frames /\ f.fn = "modemWake" /\ f.at = "tested"
  BY <1>1, AllPlaces, EndsForm
<1>3. Goto(f) /\ UNCHANGED <<kind, hardware, flags, history>>
  BY DEF WakeAnswer, Ends
<1>4. InConnectWake /\ kind.shows = "pin" => wakePin'
  BY <1>1, <1>3 DEF InConnectWake, hardware
<1>. HIDE DEF f
<1>5. Shape' /\ stack' \in Seq(Frames) /\ stack' # <<>> /\ ret' = ret
  BY <1>1, <1>2, <1>3, <1>4, WakeGoesOn DEF flags, history
<1>6. Typed'
  BY <1>1, <1>3, <1>5 DEF Typed, hardware, flags, history
<1>. QED  BY <1>5, <1>6, Underway

LEMMA AfterResetForm ==
  ASSUME Top \in Frames, Top.at = "test", Top.count \in Nat, Top.count <= 1
  PROVE  /\ AfterReset \in Frames /\ AfterReset.fn = Top.fn
         /\ AfterReset.at \in {"test", "tested"}
         /\ AfterReset.at # "tested" => AfterReset.count <= 1
<1>1. Top.count + 1 \in 0..CountMax
  BY Limits
<1>2. AfterReset \in Frames
  BY <1>1 DEF AfterReset, Frames, Places
<1>3. AfterReset.fn = Top.fn
  BY DEF AfterReset, Frames
<1>4. /\ AfterReset.at = IF Top.count = 1 THEN "tested" ELSE "test"
      /\ AfterReset.count = Top.count + 1
  BY DEF AfterReset, Frames
<1>. QED  BY <1>2, <1>3, <1>4

LEMMA WakeNoAnswerStep ==
  ASSUME ModemInv, WakeNoAnswer
  PROVE  ModemInv'
<1>1. /\ Typed /\ Shape /\ stack # <<>> /\ Top = stack[1] /\ stack[1] \in Frames
      /\ stack[1].fn = "modemWake" /\ stack[1].at = "test" /\ stack[1].count \in Nat
  BY InCall DEF WakeNoAnswer
<1>2. UNCHANGED <<kind, wakePin, flags, history>>
  BY DEF WakeNoAnswer
<1>3. InConnectWake /\ kind.shows = "pin" => wakePin'
  BY <1>1, <1>2 DEF InConnectWake
<1>4. PICK f \in Frames : /\ Goto(f) /\ f.fn = "modemWake" /\ f.at \in {"test", "tested"}
                          /\ f.at # "tested" => f.count <= 1
  <2>1. CASE Goto(AfterReset)
    <3>1. Top.count <= 1
      BY <1>1, WakeCount
    <3>2. /\ AfterReset \in Frames /\ AfterReset.fn = "modemWake"
          /\ AfterReset.at \in {"test", "tested"}
          /\ AfterReset.at # "tested" => AfterReset.count <= 1
      BY <1>1, <3>1, AfterResetForm
    <3>. QED  BY <2>1, <3>2
  <2>2. CASE Goto([Top EXCEPT !.ok = FALSE, !.at = "tested"])
    <3>. DEFINE f == Ends(FALSE, "tested")
    <3>1. f \in Frames /\ f.fn = "modemWake" /\ f.at = "tested"
      BY <1>1, AllPlaces, EndsForm
    <3>. HIDE DEF f
    <3>2. Goto(f)
      BY <2>2 DEF f, Ends
    <3>. QED  BY <3>1, <3>2
  <2>. QED  BY <2>1, <2>2 DEF WakeNoAnswer
<1>5. Shape' /\ stack' \in Seq(Frames) /\ stack' # <<>> /\ ret' = ret
  BY <1>1, <1>2, <1>3, <1>4, WakeGoesOn DEF flags, history
<1>6. module' \in {"off", "asleep", "awake", "hung"}
  BY <1>1 DEF WakeNoAnswer, Up, Typed
<1>7. Typed'
  BY <1>1, <1>2, <1>5, <1>6 DEF Typed, flags, history
<1>. QED  BY <1>5, <1>7, Underway

LEMMA WakeCallsSetupStep ==
  ASSUME ModemInv, WakeCallsSetup
  PROVE  ModemInv'
<1>. DEFINE f == To("set up")
<1>1. /\ Typed /\ Shape /\ stack # <<>> /\ Top = stack[1] /\ stack[1] \in Frames
      /\ stack[1].fn = "modemWake" /\ stack[1].at = "tested"
  BY InCall DEF WakeCallsSetup
<1>2. f \in Frames /\ f.fn = "modemWake" /\ f.at = "set up"
  BY <1>1, AllPlaces, ToForm
<1>3. /\ Call("modemSetup", f) /\ ~hasBeenSetup
      /\ UNCHANGED <<kind, hardware, flags, history>>
  BY DEF WakeCallsSetup
<1>. HIDE DEF f
<1>4. /\ Frame("modemSetup") \in Frames /\ Frame("modemSetup").fn = "modemSetup"
      /\ Frame("modemSetup").at = "begin"
  BY NewForm
<1>5. InWake
  BY <1>1, <1>3, WhichWake DEF InSetupWake, InConnectWake
<1>6. /\ stack' \in Seq(Frames) /\ stack' # <<>> /\ ret' = ret
      /\ stack'[1] = Frame("modemSetup") /\ BelowSetup'
  BY <1>1, <1>2, <1>3, <1>4, <1>5, CallBelow DEF InWake
<1>7. NotRefused'
  BY <1>3 DEF NotRefused, flags
<1>8. Shape'
  BY <1>4, <1>6, <1>7 DEF InSetup, Shape
<1>9. Typed'
  BY <1>1, <1>3, <1>6 DEF Typed, hardware, flags, history
<1>. QED  BY <1>6, <1>8, <1>9, Underway

LEMMA WakeReturnsSetupStep ==
  ASSUME ModemInv, WakeReturnsSetup
  PROVE  ModemInv'
<1>1. /\ Typed /\ Shape /\ stack # <<>> /\ stack[1].fn = "modemWake" /\ stack[1].at = "set up"
  BY InCall DEF WakeReturnsSetup
<1>2. Return(ret) /\ UNCHANGED <<kind, hardware, flags, history>> /\ ret \in BOOLEAN
  BY <1>1 DEF WakeReturnsSetup, Typed
<1>3. Shape' /\ stack' \in Seq(Frames) /\ stack' # <<>> /\ ret' = ret
  BY <1>1, <1>2, WakeEnds DEF hardware, flags, history
<1>4. Typed'
  BY <1>1, <1>2, <1>3 DEF Typed, hardware, flags, history
<1>. QED  BY <1>3, <1>4, Underway

LEMMA WakeInitStep ==
  ASSUME ModemInv, WakeInit
  PROVE  ModemInv'
<1>1. /\ Typed /\ Shape /\ stack # <<>> /\ stack[1].fn = "modemWake" /\ stack[1].at = "tested"
      /\ Top = stack[1] /\ stack[1] \in Frames
  BY InCall DEF WakeInit
<1>2. hasBeenSetup /\ UNCHANGED <<kind, hardware, flags, history>>
  BY DEF WakeInit
<1>3. PICK v \in BOOLEAN : Return(v) /\ (v => module = "awake")
  <2>1. PICK ready \in BOOLEAN : (ready => module = "awake") /\ Return(Top.ok /\ ready)
    BY DEF WakeInit
  <2>2. (Top.ok /\ ready) \in BOOLEAN /\ ((Top.ok /\ ready) => module = "awake")
    BY <2>1
  <2>. QED  BY <2>1, <2>2
<1>4. Shape' /\ stack' \in Seq(Frames) /\ stack' # <<>> /\ ret' = v
  BY <1>1, <1>2, <1>3, WakeEnds DEF hardware, flags, history
<1>5. Typed'
  BY <1>1, <1>2, <1>4 DEF Typed, hardware, flags, history
<1>. QED  BY <1>4, <1>5, Underway

--------------------------------------------------------------------------------
(* modemSetup.                                                             *)

LEMMA WhichSetup ==
  ASSUME Shape, stack # <<>>, stack[1].fn = "modemSetup"
  PROVE  InSetup
BY DEF Shape, InCaller, InWake, InSetupWake, InConnect, InConnectWake, Waking, WakeWaits, Callers

\* modemSetup goes on to one of its places.
LEMMA SetupGoesOn ==
  ASSUME Typed, InSetup, stack # <<>>, NEW f \in Frames, Goto(f), f.fn = "modemSetup",
         \/ f.at = "extra" /\ hasBeenSetup'
         \/ f.at = "close" /\ NotRefused' /\ (f.ok => hasBeenSetup')
  PROVE  Shape' /\ stack' \in Seq(Frames) /\ stack' # <<>> /\ ret' = ret
<1>1. /\ stack' \in Seq(Frames) /\ stack' # <<>> /\ ret' = ret /\ stack'[1] = f
      /\ BelowSetup => BelowSetup'
  BY GotoBelow
<1>2. InSetup'
  BY <1>1 DEF InSetup
<1>. QED  BY <1>1, <1>2 DEF Shape

LEMMA SetupBeginStep ==
  ASSUME ModemInv, SetupBegin
  PROVE  ModemInv'
<1>. DEFINE w == Shows(module', wakePin')
<1>1. /\ Typed /\ Shape /\ stack # <<>> /\ Top = stack[1] /\ stack[1] \in Frames
      /\ stack[1].fn = "modemSetup" /\ stack[1].at = "begin" /\ InSetup
  BY InCall, WhichSetup DEF SetupBegin
<1>2. /\ hasBeenSetup' = TRUE /\ powerOn' = TRUE /\ module' \in PoweredModule
      /\ wakePin' = PoweredPin /\ UNCHANGED <<kind, pinModesSet, history>>
  BY DEF SetupBegin, FlagDuringSetup
<1>3. w \in BOOLEAN
  <2>1. wakePin' \in BOOLEAN
    BY <1>1, <1>2, Powered
  <2>2. kind.shows \in {"pin", "status", "answer"}
    BY <1>1, ModemAssumption DEF Typed
  <2>3. CASE kind.shows = "pin"
    BY <2>1, <2>3 DEF Shows
  <2>4. CASE kind.shows = "status"
    BY <2>4 DEF Shows
  <2>5. CASE kind.shows = "answer"
    BY <2>5 DEF Shows
  <2>. QED  BY <2>2, <2>3, <2>4, <2>5
<1>4. \/ Goto(Finds(powerOn, w, "extra"))
      \/ Call("modemWake", Finds(powerOn, w, "woken"))
  <2>. DEFINE g == [Top EXCEPT !.wasPowered = powerOn, !.wasAwake = w]
  <2>1. IF g.wasAwake THEN Goto([g EXCEPT !.at = "extra"])
                      ELSE Call("modemWake", [g EXCEPT !.at = "woken"])
    BY DEF SetupBegin
  <2>. QED  BY <2>1 DEF Finds
<1>. HIDE DEF w
<1>5. powerOn \in BOOLEAN
  BY <1>1 DEF Typed
<1>9. /\ Top \in Frames /\ Top.fn = "modemSetup"
      /\ "extra" \in Places /\ "woken" \in Places
  BY <1>1, AllPlaces
<1>6. Shape' /\ stack' \in Seq(Frames) /\ stack' # <<>> /\ ret' = ret
  <2>1. CASE Goto(Finds(powerOn, w, "extra"))
    <3>. DEFINE f == Finds(powerOn, w, "extra")
    <3>1. f \in Frames /\ f.fn = "modemSetup" /\ f.at = "extra"
      BY <1>3, <1>5, <1>9, FindsForm, Zenon
    <3>. HIDE DEF f
    <3>2. Goto(f)
      BY <2>1 DEF f
    <3>. QED  BY <1>1, <1>2, <3>1, <3>2, SetupGoesOn
  <2>2. CASE Call("modemWake", Finds(powerOn, w, "woken"))
    <3>. DEFINE f == Finds(powerOn, w, "woken")
    <3>1. f \in Frames /\ f.fn = "modemSetup" /\ f.at = "woken"
      BY <1>3, <1>5, <1>9, FindsForm, Zenon
    <3>. HIDE DEF f
    <3>2. Call("modemWake", f)
      BY <2>2 DEF f
    <3>3. /\ Frame("modemWake") \in Frames /\ Frame("modemWake").fn = "modemWake"
          /\ Frame("modemWake").at = "begin" /\ Frame("modemWake").count = 0
      BY NewForm
    <3>4. /\ stack' \in Seq(Frames) /\ stack' # <<>> /\ ret' = ret
          /\ stack'[1] = Frame("modemWake") /\ BelowSetupWake'
      BY <1>1, <3>1, <3>2, <3>3, CallBelow DEF InSetup
    <3>5. Waking'
      BY <3>3, <3>4 DEF Waking
    <3>6. InSetupWake'
      BY <1>2, <3>4, <3>5 DEF InSetupWake
    <3>. QED  BY <3>4, <3>6 DEF Shape
  <2>. QED  BY <1>4, <2>1, <2>2
<1>7. module' \in {"off", "asleep", "awake", "hung"} /\ wakePin' \in BOOLEAN
  BY <1>1, <1>2, Powered
<1>8. Typed'
  BY <1>1, <1>2, <1>6, <1>7 DEF Typed, history
<1>. QED  BY <1>6, <1>8, Underway

LEMMA SetupWokenStep ==
  ASSUME ModemInv, SetupWoken
  PROVE  ModemInv'
<1>1. /\ Typed /\ Shape /\ stack # <<>> /\ Top = stack[1] /\ stack[1] \in Frames
      /\ stack[1].fn = "modemSetup" /\ stack[1].at = "woken" /\ InSetup
  BY InCall, WhichSetup DEF SetupWoken
<1>2. hasBeenSetup
  BY <1>1 DEF InSetup
<1>3. UNCHANGED <<kind, hardware, flags, leftOn>>
  BY DEF SetupWoken
<1>4. hasBeenSetup'
  BY <1>2, <1>3 DEF flags
<1>5. /\ Shape' /\ stack' \in Seq(Frames) /\ stack' # <<>> /\ ret' = ret
      /\ lastSetup' \in {lastSetup, "given up"}
  <2>1. CASE ret
    <3>. DEFINE f == To("extra")
    <3>1. f \in Frames /\ f.fn = "modemSetup" /\ f.at = "extra"
      BY <1>1, AllPlaces, ToForm
    <3>2. Goto(f) /\ lastSetup' = lastSetup
      BY <2>1 DEF SetupWoken
    <3>. HIDE DEF f
    <3>. QED  BY <1>1, <1>4, <3>1, <3>2, SetupGoesOn
  <2>2. CASE ~ret
    <3>. DEFINE f == Ends(FALSE, "close")
    <3>1. f \in Frames /\ f.fn = "modemSetup" /\ f.at = "close"
      BY <1>1, AllPlaces, EndsForm
    <3>2. Goto(f) /\ lastSetup' = "given up"
      BY <2>2 DEF SetupWoken, Ends
    <3>. HIDE DEF f
    <3>3. NotRefused'
      BY <3>2 DEF NotRefused
    <3>. QED  BY <1>1, <1>4, <3>1, <3>2, <3>3, SetupGoesOn
  <2>. QED  BY <2>1, <2>2
<1>6. Typed'
  BY <1>1, <1>3, <1>5 DEF Typed, hardware, flags
<1>. QED  BY <1>5, <1>6, Underway

LEMMA ExtraSetupSucceedsStep ==
  ASSUME ModemInv, ExtraSetupSucceeds
  PROVE  ModemInv'
<1>. DEFINE f == To("close")
<1>1. /\ Typed /\ Shape /\ stack # <<>> /\ Top = stack[1] /\ stack[1] \in Frames
      /\ stack[1].fn = "modemSetup" /\ stack[1].at = "extra" /\ InSetup
  BY InCall, WhichSetup DEF ExtraSetupSucceeds
<1>2. f \in Frames /\ f.fn = "modemSetup" /\ f.at = "close"
  BY <1>1, AllPlaces, ToForm
<1>3. Goto(f) /\ lastSetup' = "done" /\ UNCHANGED <<kind, hardware, flags, leftOn>>
  BY DEF ExtraSetupSucceeds
<1>. HIDE DEF f
<1>4. hasBeenSetup' /\ NotRefused'
  BY <1>1, <1>3 DEF InSetup, NotRefused, flags
<1>5. Shape' /\ stack' \in Seq(Frames) /\ stack' # <<>> /\ ret' = ret
  BY <1>1, <1>2, <1>3, <1>4, SetupGoesOn
<1>6. Typed'
  BY <1>1, <1>3, <1>5 DEF Typed, hardware, flags
<1>. QED  BY <1>5, <1>6, Underway

LEMMA ExtraSetupFailsStep ==
  ASSUME ModemInv, ExtraSetupFails
  PROVE  ModemInv'
<1>. DEFINE f == Ends(FALSE, "close")
<1>1. /\ Typed /\ Shape /\ stack # <<>> /\ Top = stack[1] /\ stack[1] \in Frames
      /\ stack[1].fn = "modemSetup" /\ stack[1].at = "extra" /\ InSetup
  BY InCall, WhichSetup DEF ExtraSetupFails
<1>2. f \in Frames /\ f.fn = "modemSetup" /\ f.at = "close" /\ f.ok = FALSE
  BY <1>1, AllPlaces, EndsForm
<1>3. /\ Goto(f) /\ lastSetup' = "failed" /\ hasBeenSetup' = FALSE
      /\ UNCHANGED <<kind, wakePin, powerOn, pinModesSet, leftOn>>
  BY DEF ExtraSetupFails, Ends, FlagAfterFailure
<1>. HIDE DEF f
<1>4. NotRefused'
  BY <1>3 DEF NotRefused
<1>5. Shape' /\ stack' \in Seq(Frames) /\ stack' # <<>> /\ ret' = ret
  BY <1>1, <1>2, <1>3, <1>4, SetupGoesOn
<1>6. module' \in {"off", "asleep", "awake", "hung"}
  BY <1>1 DEF ExtraSetupFails, Up, Typed
<1>7. Typed'
  BY <1>1, <1>3, <1>5, <1>6 DEF Typed
<1>. QED  BY <1>5, <1>7, Underway

\* Sleeping leaves the modem and its pins as they may be, and takes power only away.
LEMMA SleepForm ==
  ASSUME Typed
  PROVE  /\ modemSleep => module' \in {"off", "asleep", "awake", "hung"} /\ wakePin' = FALSE
         /\ modemSleepPowerDown => /\ module' \in {"off", "asleep", "awake", "hung"}
                                   /\ wakePin' = FALSE /\ powerOn' \in BOOLEAN
                                   /\ kind.power => module' = "off" /\ ~powerOn'
BY DEF Typed, modemSleep, modemSleepPowerDown

LEMMA SetupCloseStep ==
  ASSUME ModemInv, SetupClose
  PROVE  ModemInv'
<1>1. /\ Typed /\ Shape /\ stack # <<>> /\ Top = stack[1] /\ stack[1] \in Frames
      /\ stack[1].fn = "modemSetup" /\ stack[1].at = "close" /\ InSetup
  BY InCall, WhichSetup DEF SetupClose
<1>3. Top.ok \in BOOLEAN
  BY <1>1 DEF Frames
<1>2. PICK result \in BOOLEAN :
        /\ result => Top.ok
        /\ Return(result) /\ UNCHANGED <<kind, pinModesSet, hasBeenSetup, history>>
  BY <1>3 DEF SetupClose
<1>4. /\ stack' \in Seq(Frames) /\ ret' = result /\ BelowWake' /\ WakeWaits(1)'
  BY <1>1, <1>2, ReturnBelow DEF InSetup
<1>5. Len(stack') = 2
  BY <1>4 DEF BelowWake, CallerWaits
<1>6. stack' # <<>>
  <2>1. stack' \in Seq(Frames)
    BY <1>4
  <2>. QED  BY <2>1, <1>5, LongIsNotEmpty
<1>7. NotRefused' /\ (ret' => hasBeenSetup')
  BY <1>1, <1>2, <1>4 DEF InSetup, NotRefused, history
<1>8. Shape'
  BY <1>4, <1>7 DEF InWake, Shape
<1>9. /\ module' \in {"off", "asleep", "awake", "hung"} /\ wakePin' \in BOOLEAN
      /\ powerOn' \in BOOLEAN
  BY <1>1, SleepForm DEF SetupClose, hardware, Typed
<1>10. Typed'
  BY <1>1, <1>2, <1>3, <1>4, <1>9 DEF Typed, history
<1>. QED  BY <1>6, <1>8, <1>10, Underway

--------------------------------------------------------------------------------
(* connectInternet.                                                        *)

LEMMA WhichConnect ==
  ASSUME Shape, stack # <<>>, stack[1].fn = "connectInternet"
  PROVE  InConnect
BY DEF Shape, InCaller, InWake, InSetup, InSetupWake, InConnectWake, Waking, WakeWaits, Callers

LEMMA ConnectGoesOn ==
  ASSUME Typed, InConnect, stack # <<>>, NEW f \in Frames, Goto(f),
         f.fn = "connectInternet", f.at = "join", isModemAwake',
         UNCHANGED <<hasBeenSetup, lastSetup>>
  PROVE  Shape' /\ stack' \in Seq(Frames) /\ stack' # <<>> /\ ret' = ret
<1>1. /\ stack' \in Seq(Frames) /\ stack' # <<>> /\ ret' = ret /\ stack'[1] = f
      /\ BelowConnect => BelowConnect'
  BY GotoBelow
<1>2. NotRefused' /\ hasBeenSetup'
  BY DEF InConnect, NotRefused
<1>3. InConnect'
  BY <1>1, <1>2 DEF InConnect
<1>. QED  BY <1>1, <1>3 DEF Shape

LEMMA ConnectEnds ==
  ASSUME Typed, InConnect, stack # <<>>, NEW v, Return(v), UNCHANGED <<hasBeenSetup, lastSetup>>
  PROVE  Shape' /\ stack' \in Seq(Frames) /\ stack' # <<>> /\ ret' = v
<1>1. /\ stack' \in Seq(Frames) /\ ret' = v
      /\ BelowCaller' /\ stack'[1].fn \in Callers /\ stack'[1].at = "connected"
  BY ReturnBelow DEF InConnect
<1>2. Len(stack') = 1 /\ stack' \in Seq(Frames)
  BY <1>1 DEF BelowCaller
<1>3. stack' # <<>>
  BY <1>2, LongIsNotEmpty
<1>4. NotRefused' /\ hasBeenSetup'
  BY DEF InConnect, NotRefused
<1>5. InCaller'
  BY <1>1, <1>4 DEF InCaller
<1>. QED  BY <1>1, <1>3, <1>5 DEF Shape

LEMMA ConnectBeginStep ==
  ASSUME ModemInv, ConnectBegin
  PROVE  ModemInv'
<1>1. /\ Typed /\ Shape /\ stack # <<>> /\ Top = stack[1] /\ stack[1] \in Frames
      /\ stack[1].fn = "connectInternet" /\ stack[1].at = "begin" /\ InConnect
  BY InCall, WhichConnect DEF ConnectBegin
<1>2. /\ powerOn' = TRUE /\ module' \in PoweredModule /\ wakePin' = PoweredPin
      /\ UNCHANGED <<kind, pinModesSet, hasBeenSetup, history>>
  BY DEF ConnectBegin
<1>3. Shape' /\ stack' \in Seq(Frames) /\ stack' # <<>> /\ ret' = ret
  <2>1. CASE Shows(module', wakePin')
    <3>. DEFINE f == To("join")
    <3>1. f \in Frames /\ f.fn = "connectInternet" /\ f.at = "join"
      BY <1>1, AllPlaces, ToForm
    <3>2. Goto(f)
      BY <2>1 DEF ConnectBegin, ConnectWakes
    <3>3. isModemAwake'
      BY <1>2, <2>1 DEF isModemAwake, Shows
    <3>. HIDE DEF f
    <3>. QED  BY <1>1, <1>2, <3>1, <3>2, <3>3, ConnectGoesOn DEF history
  <2>2. CASE ~Shows(module', wakePin')
    <3>. DEFINE f == To("woken")
    <3>1. f \in Frames /\ f.fn = "connectInternet" /\ f.at = "woken"
      BY <1>1, AllPlaces, ToForm
    <3>2. Call("modemWake", f)
      BY <2>2 DEF ConnectBegin, ConnectWakes
    <3>. HIDE DEF f
    <3>3. /\ Frame("modemWake") \in Frames /\ Frame("modemWake").fn = "modemWake"
          /\ Frame("modemWake").at = "begin" /\ Frame("modemWake").count = 0
      BY NewForm
    <3>4. /\ stack' \in Seq(Frames) /\ stack' # <<>> /\ ret' = ret
          /\ stack'[1] = Frame("modemWake") /\ BelowConnectWake'
      BY <1>1, <3>1, <3>2, <3>3, CallBelow DEF InConnect
    <3>5. Waking'
      BY <3>3, <3>4 DEF Waking
    <3>6. NotRefused' /\ hasBeenSetup'
      BY <1>1, <1>2 DEF InConnect, NotRefused, history
    <3>7. InConnectWake'
      BY <3>3, <3>4, <3>5, <3>6 DEF InConnectWake
    <3>. QED  BY <3>4, <3>7 DEF Shape
  <2>. QED  BY <2>1, <2>2
<1>4. module' \in {"off", "asleep", "awake", "hung"} /\ wakePin' \in BOOLEAN
  BY <1>1, <1>2, Powered
<1>5. Typed'
  BY <1>1, <1>2, <1>3, <1>4 DEF Typed, history
<1>. QED  BY <1>3, <1>5, Underway

LEMMA ConnectWokenStep ==
  ASSUME ModemInv, ConnectWoken
  PROVE  ModemInv'
<1>1. /\ Typed /\ Shape /\ stack # <<>> /\ Top = stack[1] /\ stack[1] \in Frames
      /\ stack[1].fn = "connectInternet" /\ stack[1].at = "woken" /\ InConnect
  BY InCall, WhichConnect DEF ConnectWoken
<1>2. UNCHANGED <<kind, hardware, flags, history>>
  BY DEF ConnectWoken
<1>3. Shape' /\ stack' \in Seq(Frames) /\ stack' # <<>> /\ ret' \in {ret, FALSE}
  <2>1. CASE ret
    <3>. DEFINE f == To("join")
    <3>1. f \in Frames /\ f.fn = "connectInternet" /\ f.at = "join"
      BY <1>1, AllPlaces, ToForm
    <3>2. Goto(f)
      BY <2>1 DEF ConnectWoken
    <3>3. isModemAwake
      BY <1>1, <2>1 DEF InConnect
    <3>4. isModemAwake'
      BY <1>2, <3>3 DEF isModemAwake, Shows, hardware
    <3>. HIDE DEF f
    <3>. QED  BY <1>1, <1>2, <3>1, <3>2, <3>4, ConnectGoesOn DEF flags, history
  <2>2. CASE ~ret
    <3>1. Return(FALSE)
      BY <2>2 DEF ConnectWoken
    <3>. QED  BY <1>1, <1>2, <3>1, ConnectEnds DEF flags, history
  <2>. QED  BY <2>1, <2>2
<1>4. Typed'
  BY <1>1, <1>2, <1>3 DEF Typed, hardware, flags, history
<1>. QED  BY <1>3, <1>4, Underway

LEMMA JoinStep ==
  ASSUME ModemInv, Join
  PROVE  ModemInv'
<1>1. /\ Typed /\ Shape /\ stack # <<>> /\ Top = stack[1] /\ stack[1] \in Frames
      /\ stack[1].fn = "connectInternet" /\ stack[1].at = "join" /\ InConnect
  BY InCall, WhichConnect DEF Join
<1>2. UNCHANGED <<kind, hardware, flags, history>>
  BY DEF Join
<1>3. PICK found \in BOOLEAN : Return(found)
  BY DEF Join
<1>4. Shape' /\ stack' \in Seq(Frames) /\ stack' # <<>> /\ ret' = found
  BY <1>1, <1>2, <1>3, ConnectEnds DEF flags, history
<1>5. Typed'
  BY <1>1, <1>2, <1>4 DEF Typed, hardware, flags, history
<1>. QED  BY <1>4, <1>5, Underway

--------------------------------------------------------------------------------
(* The callers.                                                            *)

LEMMA InCallerCall ==
  ASSUME ModemInv, NEW at, AtCaller(at)
  PROVE  /\ Typed /\ Shape /\ stack # <<>> /\ Top = stack[1] /\ Top \in Frames
         /\ Top.fn \in Callers /\ Top.at = at /\ InCaller
<1>1. Typed /\ Shape /\ stack # <<>>
  BY DEF ModemInv, AtCaller
<1>2. Top = stack[1] /\ stack[1] \in Frames
  BY <1>1, TopForm
<1>3. Top.fn \in Callers /\ Top.at = at
  BY DEF AtCaller
<1>4. stack[1].fn \notin {"modemWake", "modemSetup", "connectInternet"}
  BY <1>2, <1>3 DEF Callers
<1>5. InCaller
  BY <1>1, <1>4 DEF Shape, InWake, InSetup, InSetupWake, InConnect, InConnectWake, Waking, WakeWaits
<1>. QED  BY <1>1, <1>2, <1>3, <1>5

LEMMA CallerGoesOn ==
  ASSUME Typed, InCaller, stack # <<>>, NEW f \in Frames, Goto(f), f.fn \in Callers,
         \/ f.at = "leave"
         \/ f.at \in {"connected", "online", "metadata"} /\ hasBeenSetup,
         UNCHANGED <<hasBeenSetup, lastSetup>>
  PROVE  Shape' /\ stack' \in Seq(Frames) /\ stack' # <<>> /\ ret' = ret
<1>1. /\ stack' \in Seq(Frames) /\ stack' # <<>> /\ ret' = ret /\ stack'[1] = f
      /\ BelowCaller => BelowCaller'
  BY GotoBelow
<1>2. NotRefused'
  BY DEF InCaller, NotRefused
<1>3. InCaller'
  BY <1>1, <1>2 DEF InCaller
<1>. QED  BY <1>1, <1>3 DEF Shape

LEMMA CallerWokenStep ==
  ASSUME ModemInv, CallerWoken
  PROVE  ModemInv'
<1>1. /\ Typed /\ Shape /\ stack # <<>> /\ Top = stack[1] /\ Top \in Frames
      /\ Top.fn \in Callers /\ Top.at = "woken" /\ InCaller
  BY InCallerCall DEF CallerWoken
<1>2. UNCHANGED <<kind, hardware, flags, history>>
  BY DEF CallerWoken
<1>3. Shape' /\ stack' \in Seq(Frames) /\ stack' # <<>> /\ ret' = ret
  <2>1. CASE ret
    <3>. DEFINE f == To("connected")
    <3>1. f \in Frames /\ f.fn \in Callers /\ f.at = "connected"
      BY <1>1, AllPlaces, ToForm
    <3>2. Call("connectInternet", f)
      BY <2>1 DEF CallerWoken
    <3>. HIDE DEF f
    <3>3. /\ Frame("connectInternet") \in Frames
          /\ Frame("connectInternet").fn = "connectInternet"
          /\ Frame("connectInternet").at = "begin"
      BY NewForm
    <3>4. /\ stack' \in Seq(Frames) /\ stack' # <<>> /\ ret' = ret
          /\ stack'[1] = Frame("connectInternet") /\ BelowConnect'
      BY <1>1, <3>1, <3>2, <3>3, CallBelow DEF InCaller
    <3>5. NotRefused' /\ hasBeenSetup'
      BY <1>1, <1>2, <2>1 DEF InCaller, NotRefused, flags, history
    <3>6. InConnect'
      BY <3>3, <3>4, <3>5 DEF InConnect
    <3>. QED  BY <3>4, <3>6 DEF Shape
  <2>2. CASE ~ret
    <3>. DEFINE f == Ends(FALSE, "leave")
    <3>1. f \in Frames /\ f.fn \in Callers /\ f.at = "leave"
      BY <1>1, AllPlaces, EndsForm
    <3>2. Goto(f)
      BY <2>2 DEF CallerWoken, Ends
    <3>. HIDE DEF f
    <3>. QED  BY <1>1, <1>2, <3>1, <3>2, CallerGoesOn DEF flags, history
  <2>. QED  BY <2>1, <2>2
<1>4. Typed'
  BY <1>1, <1>2, <1>3 DEF Typed, hardware, flags, history
<1>. QED  BY <1>3, <1>4, Underway

LEMMA CallerConnectedStep ==
  ASSUME ModemInv, CallerConnected
  PROVE  ModemInv'
<1>1. /\ Typed /\ Shape /\ stack # <<>> /\ Top = stack[1] /\ Top \in Frames
      /\ Top.fn \in Callers /\ Top.at = "connected" /\ InCaller
  BY InCallerCall DEF CallerConnected
<1>2. UNCHANGED <<kind, hardware, flags, history>> /\ hasBeenSetup
  BY <1>1 DEF CallerConnected, InCaller
<1>3. PICK f \in Frames : Goto(f) /\ f.fn \in Callers /\ f.at \in {"leave", "metadata", "online"}
  <2>1. Goto(Ends(FALSE, "leave")) \/ Goto(To("metadata")) \/ Goto(To("online"))
    BY DEF CallerConnected, Ends
  <2>2. CASE Goto(Ends(FALSE, "leave"))
    BY <1>1, <2>2, AllPlaces, EndsForm
  <2>3. CASE Goto(To("metadata"))
    BY <1>1, <2>3, AllPlaces, ToForm
  <2>4. CASE Goto(To("online"))
    BY <1>1, <2>4, AllPlaces, ToForm
  <2>. QED  BY <2>1, <2>2, <2>3, <2>4
<1>4. Shape' /\ stack' \in Seq(Frames) /\ stack' # <<>> /\ ret' = ret
  BY <1>1, <1>2, <1>3, CallerGoesOn DEF flags, history
<1>5. Typed'
  BY <1>1, <1>2, <1>4 DEF Typed, hardware, flags, history
<1>. QED  BY <1>4, <1>5, Underway

LEMMA OnlineStep ==
  ASSUME ModemInv, NoNist \/ AskNist \/ NistFails
  PROVE  ModemInv'
<1>1. /\ Typed /\ Shape /\ stack # <<>> /\ Top = stack[1] /\ Top \in Frames
      /\ Top.fn \in Callers /\ Top.at = "online" /\ InCaller
  BY InCallerCall DEF NoNist, AskNist, NistFails
<1>2. UNCHANGED <<kind, hardware, flags, history>> /\ hasBeenSetup
  BY <1>1 DEF NoNist, AskNist, NistFails, InCaller
<1>3. PICK f \in Frames : Goto(f) /\ f.fn \in Callers /\ f.at \in {"metadata", "online"}
  <2>1. \/ Goto(To("metadata")) \/ Goto(Asks("metadata"))
        \/ Goto(Counts) /\ Top.count < NistTries
    BY DEF NoNist, AskNist, NistFails, Asks, Counts
  <2>2. CASE Goto(To("metadata"))
    BY <1>1, <2>2, AllPlaces, ToForm
  <2>3. CASE Goto(Asks("metadata"))
    BY <1>1, <2>3, AllPlaces, AsksForm
  <2>4. CASE Goto(Counts) /\ Top.count < NistTries
    <3>1. Top.count \in 0..CountMax
      BY <1>1 DEF Frames
    <3>2. Top.count < CountMax
      BY <2>4, <3>1, Limits
    <3>. QED  BY <1>1, <2>4, <3>2, CountsForm
  <2>. QED  BY <2>1, <2>2, <2>3, <2>4
<1>4. Shape' /\ stack' \in Seq(Frames) /\ stack' # <<>> /\ ret' = ret
  BY <1>1, <1>2, <1>3, CallerGoesOn DEF flags, history
<1>5. Typed'
  BY <1>1, <1>2, <1>4 DEF Typed, hardware, flags, history
<1>. QED  BY <1>4, <1>5, Underway

LEMMA MetadataStep ==
  ASSUME ModemInv, updateModemMetadata
  PROVE  ModemInv'
<1>1. /\ Typed /\ Shape /\ stack # <<>> /\ Top = stack[1] /\ Top \in Frames
      /\ Top.fn \in Callers /\ Top.at = "metadata" /\ InCaller
  BY InCallerCall DEF updateModemMetadata
<1>2. UNCHANGED <<kind, wakePin, flags, history>> /\ hasBeenSetup
  BY <1>1 DEF updateModemMetadata, InCaller
<1>3. PICK f \in Frames : Goto(f) /\ f.fn \in Callers /\ f.at \in {"metadata", "leave"}
  <2>1. \/ Goto(To("leave"))
        \/ Goto(Counts) /\ Top.count < TestUpdates - 1
    BY DEF updateModemMetadata, Counts
  <2>2. CASE Goto(To("leave"))
    BY <1>1, <2>2, AllPlaces, ToForm
  <2>3. CASE Goto(Counts) /\ Top.count < TestUpdates - 1
    <3>1. Top.count \in 0..CountMax
      BY <1>1 DEF Frames
    <3>2. Top.count < CountMax
      BY <2>3, <3>1, Limits
    <3>. QED  BY <1>1, <2>3, <3>2, CountsForm
  <2>. QED  BY <2>1, <2>2, <2>3
<1>4. Shape' /\ stack' \in Seq(Frames) /\ stack' # <<>> /\ ret' = ret
  BY <1>1, <1>2, <1>3, CallerGoesOn DEF flags, history
<1>5. module' \in {"off", "asleep", "awake", "hung"}
  BY <1>1 DEF updateModemMetadata, Up, Typed
<1>6. Typed'
  BY <1>1, <1>2, <1>4, <1>5 DEF Typed, flags, history
<1>. QED  BY <1>4, <1>6, Underway

\* The only step that ends a cycle.
LEMMA LeaveStep ==
  ASSUME ModemInv, NEW early \in BOOLEAN, Leave(early)
  PROVE  ModemInv'
<1>1. /\ Typed /\ stack # <<>> /\ Top = stack[1] /\ Top \in Frames /\ InCaller
  BY InCallerCall DEF Leave
<1>2. /\ Return(Top.ok) /\ UNCHANGED <<kind, pinModesSet, hasBeenSetup, lastSetup>>
      /\ leftOn' = (Top.fn = "syncRTC" /\ early)
      /\ IF TurnsOff(early) THEN modemSleepPowerDown ELSE UNCHANGED <<hardware, powerOn>>
  BY DEF Leave
<1>3. Top.ok \in BOOLEAN
  BY <1>1 DEF Frames
<1>4. stack' = <<>> /\ stack' \in Seq(Frames) /\ ret' = Top.ok
  BY <1>1, <1>2, ReturnBelow DEF InCaller
<1>5. NotRefused'
  BY <1>1, <1>2 DEF InCaller, NotRefused
<1>6. Shape'
  BY <1>4, <1>5 DEF Shape
<1>7. /\ module' \in {"off", "asleep", "awake", "hung"} /\ wakePin' \in BOOLEAN
      /\ powerOn' \in BOOLEAN
  BY <1>1, <1>2, SleepForm DEF hardware, Typed
<1>8. leftOn' \in BOOLEAN
  BY <1>2
<1>9. Typed'
  BY <1>1, <1>2, <1>3, <1>4, <1>7, <1>8 DEF Typed
<1>10. kind.power /\ ~leftOn' => ~powerOn' /\ module' = "off"
  BY <1>1, <1>2, SleepForm DEF TurnsOff
<1>11. OffAfterCycle'
  BY <1>2, <1>10 DEF OffAfterCycle
<1>. QED  BY <1>6, <1>9, <1>11 DEF ModemInv

LEMMA StartStep ==
  ASSUME ModemInv, NEW caller \in Callers, Start(caller)
  PROVE  ModemInv'
<1>. DEFINE g == [Frame(caller) EXCEPT !.at = "woken"]
<1>1. Typed /\ Shape /\ stack = <<>> /\ Len(<<>>) = 0
  BY DEF ModemInv, Start
<1>2. Len(stack) = 0
  BY <1>1
<1>3. NotRefused
  BY <1>1, <1>2
  DEF Shape, InCaller, InWake, InSetup, InSetupWake, InConnect, InConnectWake,
      BelowCaller, BelowWake, BelowSetup, BelowSetupWake, BelowConnect, BelowConnectWake,
      CallerWaits
<1>4. /\ Frame("modemWake") \in Frames /\ Frame("modemWake").fn = "modemWake"
      /\ Frame("modemWake").at = "begin" /\ Frame("modemWake").count = 0
  BY NewForm
<1>5. g \in Frames /\ g.fn \in Callers /\ g.at = "woken"
  <2>1. Frame(caller) \in Frames /\ Frame(caller).fn \in Callers
    BY NewForm
  <2>. QED  BY <2>1, AllPlaces DEF Frames
<1>6. /\ stack' = <<Frame("modemWake"), g>>
      /\ UNCHANGED <<kind, hardware, flags, ret, history>>
  BY DEF Start
<1>. HIDE DEF g
<1>7. /\ stack' \in Seq(Frames) /\ Len(stack') = 2
      /\ stack'[1] = Frame("modemWake") /\ stack'[2] = g
  BY <1>4, <1>5, <1>6
<1>8. stack' # <<>>
  BY <1>7, LongIsNotEmpty
<1>9. BelowWake'
  BY <1>5, <1>7 DEF BelowWake, CallerWaits
<1>10. Waking'
  BY <1>4, <1>7 DEF Waking
<1>11. NotRefused'
  BY <1>3, <1>6 DEF NotRefused, flags, history
<1>12. Shape'
  BY <1>9, <1>10, <1>11 DEF Shape, InWake
<1>13. Typed'
  BY <1>1, <1>6, <1>7 DEF Typed, hardware, flags, history
<1>. QED  BY <1>8, <1>12, <1>13, Underway

\* A modem that comes up by itself looks no less awake.
LEMMA RecoverStep ==
  ASSUME ModemInv, Recover
  PROVE  ModemInv'
<1>1. Typed /\ Shape /\ stack # <<>>
  BY DEF ModemInv, Recover
<1>2. module' = "awake" /\ UNCHANGED <<kind, wakePin, flags, stack, ret, history>>
  BY DEF Recover
<1>3. isModemAwake => isModemAwake'
  <2>1. kind.shows \in {"pin", "status", "answer"}
    BY <1>1, ModemAssumption DEF Typed
  <2>. QED  BY <1>2, <2>1 DEF isModemAwake, Shows
<1>4. NotRefused' = NotRefused
  BY <1>2 DEF NotRefused, flags, history
<1>5. InCaller => InCaller'
  BY <1>2, <1>4 DEF InCaller, BelowCaller, flags
<1>6. InWake => InWake'
  BY <1>2, <1>4 DEF InWake, BelowWake, Waking, WakeWaits, CallerWaits, flags
<1>7. InSetup => InSetup'
  BY <1>2, <1>4 DEF InSetup, BelowSetup, WakeWaits, CallerWaits, flags
<1>8. InSetupWake => InSetupWake'
  BY <1>2 DEF InSetupWake, BelowSetupWake, Waking, WakeWaits, CallerWaits, flags
<1>9. InConnect => InConnect'
  BY <1>2, <1>3, <1>4 DEF InConnect, BelowConnect, CallerWaits, flags
<1>10. InConnectWake => InConnectWake'
  BY <1>2, <1>4 DEF InConnectWake, BelowConnectWake, Waking, CallerWaits, flags
<1>11. Shape'
  BY <1>1, <1>5, <1>6, <1>7, <1>8, <1>9, <1>10 DEF Shape
<1>12. Typed'
  BY <1>1, <1>2 DEF Typed, flags, history
<1>. QED  BY <1>1, <1>2, <1>11, <1>12, Underway

--------------------------------------------------------------------------------
(* The theorems.                                                           *)

LEMMA ModemInvInit ==
  ASSUME Init
  PROVE  ModemInv
<1>a. /\ kind \in Kinds /\ module \in {"off", "asleep", "awake", "hung"}
      /\ lastSetup \in {"none", "done", "failed", "given up"}
  BY DEF Init
<1>b. wakePin \in BOOLEAN /\ powerOn \in BOOLEAN /\ pinModesSet \in BOOLEAN
  BY DEF Init
<1>c. hasBeenSetup \in BOOLEAN /\ ret \in BOOLEAN /\ leftOn \in BOOLEAN
  BY DEF Init
<1>d. stack \in Seq(Frames)
  BY DEF Init
<1>1. Typed
  BY <1>a, <1>b, <1>c, <1>d DEF Typed
<1>2. Shape
  BY DEF Init, Shape, NotRefused
<1>3. OffAfterCycle
  BY DEF Init, OffAfterCycle
<1>. QED  BY <1>1, <1>2, <1>3 DEF ModemInv

LEMMA ModemInvStep ==
  ASSUME ModemInv, [Next]_vars
  PROVE  ModemInv'
<1>1. CASE UNCHANGED vars
  <2>1. UNCHANGED <<kind, module, wakePin, powerOn, pinModesSet, hasBeenSetup, stack, ret,
                    lastSetup, leftOn>>
    BY <1>1 DEF vars, hardware, flags, history
  <2>2. Typed' /\ OffAfterCycle'
    BY <2>1 DEF ModemInv, Typed, OffAfterCycle
  <2>3. NotRefused' = NotRefused /\ isModemAwake' = isModemAwake /\ Waking' = Waking
    BY <2>1 DEF NotRefused, isModemAwake, Shows, Waking
  <2>4. /\ BelowCaller' = BelowCaller /\ BelowWake' = BelowWake
        /\ BelowSetup' = BelowSetup /\ BelowSetupWake' = BelowSetupWake
        /\ BelowConnect' = BelowConnect /\ BelowConnectWake' = BelowConnectWake
        /\ WakeWaits(1)' = WakeWaits(1)
    BY <2>1
    DEF BelowCaller, BelowWake, BelowSetup, BelowSetupWake, BelowConnect, BelowConnectWake,
        CallerWaits, WakeWaits
  <2>5. Shape'
    BY <2>1, <2>3, <2>4
    DEF ModemInv, Shape, InCaller, InWake, InSetup, InSetupWake, InConnect, InConnectWake
  <2>. QED  BY <2>2, <2>5 DEF ModemInv
<1>2. CASE Proceed
  BY <1>2, WakeBeginStep, WakeAnswerStep, WakeNoAnswerStep, WakeCallsSetupStep,
     WakeReturnsSetupStep, WakeInitStep, SetupBeginStep, SetupWokenStep,
     ExtraSetupSucceedsStep, ExtraSetupFailsStep, SetupCloseStep, ConnectBeginStep,
     ConnectWokenStep, JoinStep, CallerWokenStep, CallerConnectedStep, OnlineStep,
     MetadataStep, LeaveStep
  DEF Proceed
<1>3. CASE \E caller \in Callers : Start(caller)
  BY <1>3, StartStep
<1>4. CASE Recover
  BY <1>4, RecoverStep
<1>. QED  BY <1>1, <1>2, <1>3, <1>4 DEF Next

LEMMA Always == Spec => []ModemInv
BY ModemInvInit, ModemInvStep, PTL DEF Spec

\* The variables keep their types: whatever the modem does, no loop of the firmware runs
\* past its count of resets, of requests to the time server or of rounds of testing.
THEOREM TypeCorrect == Spec => []TypeOK
<1>1. ModemInv => TypeOK
  <2>. SUFFICES ASSUME ModemInv PROVE TypeOK
    OBVIOUS
  <2>1. Typed
    BY DEF ModemInv
  <2>2. ASSUME NEW i \in 1..Len(stack) PROVE stack[i] \in Frames
    <3>1. stack \in Seq(Frames)
      BY <2>1 DEF Typed
    <3>. QED  BY <3>1
  <2>3. {wakePin, powerOn, pinModesSet, hasBeenSetup, ret, leftOn} \subseteq BOOLEAN
    BY <2>1 DEF Typed
  <2>. QED  BY <2>1, <2>2, <2>3 DEF TypeOK, Typed, Frames
<1>. QED  BY <1>1, Always, PTL

\* modemWake and modemSetup call each other, but never more than four calls deep and
\* never a set-up inside a set-up: the flag set first stops the loop.
THEOREM SetupDoesNotNest == Spec => []CallsAreBounded
<1>1. ModemInv => CallsAreBounded
  <2>. SUFFICES ASSUME ModemInv PROVE CallsAreBounded
    OBVIOUS
  <2>1. Shape /\ Len(<<>>) = 0
    BY DEF ModemInv
  <2>2. CASE stack = <<>>
    BY <2>1, <2>2 DEF CallsAreBounded
  <2>3. CASE InCaller
    BY <2>3 DEF InCaller, BelowCaller, CallsAreBounded
  <2>4. CASE InWake
    <3>1. Len(stack) = 2 /\ stack[1].fn # "modemSetup" /\ stack[2].fn # "modemSetup"
      BY <2>4 DEF InWake, BelowWake, CallerWaits, Callers, Waking, WakeWaits
    <3>. QED  BY <3>1 DEF CallsAreBounded
  <2>5. CASE InSetup
    <3>1. Len(stack) = 3
      BY <2>5 DEF InSetup, BelowSetup, CallerWaits
    <3>2. stack[2].fn # "modemSetup" /\ stack[3].fn # "modemSetup"
      BY <2>5 DEF InSetup, BelowSetup, CallerWaits, WakeWaits, Callers
    <3>. QED  BY <3>1, <3>2 DEF CallsAreBounded
  <2>6. CASE InSetupWake
    <3>1. Len(stack) = 4
      BY <2>6 DEF InSetupWake, BelowSetupWake, CallerWaits
    <3>2. stack[1].fn # "modemSetup"
      BY <2>6 DEF InSetupWake, Waking
    <3>3. stack[3].fn # "modemSetup"
      BY <2>6 DEF InSetupWake, BelowSetupWake, WakeWaits
    <3>4. stack[4].fn # "modemSetup"
      BY <2>6 DEF InSetupWake, BelowSetupWake, CallerWaits, Callers
    <3>. QED  BY <3>1, <3>2, <3>3, <3>4 DEF CallsAreBounded
  <2>7. CASE InConnect
    <3>1. Len(stack) = 2 /\ stack[1].fn # "modemSetup" /\ stack[2].fn # "modemSetup"
      BY <2>7 DEF InConnect, BelowConnect, CallerWaits, Callers
    <3>. QED  BY <3>1 DEF CallsAreBounded
  <2>8. CASE InConnectWake
    <3>1. Len(stack) = 3
      BY <2>8 DEF InConnectWake, BelowConnectWake, CallerWaits
    <3>2. stack[1].fn # "modemSetup" /\ stack[2].fn # "modemSetup"
      BY <2>8 DEF InConnectWake, BelowConnectWake, Waking
    <3>3. stack[3].fn # "modemSetup"
      BY <2>8 DEF InConnectWake, BelowConnectWake, CallerWaits, Callers
    <3>. QED  BY <3>1, <3>2, <3>3 DEF CallsAreBounded
  <2>. QED  BY <2>1, <2>2, <2>3, <2>4, <2>5, <2>6, <2>7, <2>8 DEF Shape
<1>. QED  BY <1>1, Always, PTL

\* However a cycle went, a modem with a power pin has no power after it, unless a sync of
\* the clock left it on for the logging interval that had just begun.
THEOREM PowerIsOffAfterCycle == Spec => []OffAfterCycle
<1>1. ModemInv => OffAfterCycle
  BY DEF ModemInv
<1>. QED  BY <1>1, Always, PTL

\* connectInternet looks for the network only with a modem that shows that it is awake.
THEOREM JoiningIsAwake == Spec => []JoinsAwake
<1>1. ModemInv => JoinsAwake
  <2>. SUFFICES ASSUME ModemInv, At("connectInternet", "join")
                PROVE  Shows(module, wakePin)
    BY DEF JoinsAwake
  <2>1. stack # <<>> /\ Shape /\ stack[1].fn = "connectInternet" /\ stack[1].at = "join"
    BY InCall
  <2>. QED  BY <2>1, WhichConnect DEF InConnect, isModemAwake
<1>. QED  BY <1>1, Always, PTL

\* A modem whose set-up failed is on line only after another set-up, which it did not
\* refuse.
THEOREM RefusedIsSetUpAgain == Spec => []FailedSetupIsRetried
<1>1. ModemInv => FailedSetupIsRetried
  <2>. SUFFICES ASSUME ModemInv, AtCaller("online") PROVE lastSetup # "failed"
    BY DEF FailedSetupIsRetried
  <2>1. InCaller /\ Top = stack[1] /\ Top.at = "online"
    BY InCallerCall
  <2>. QED  BY <2>1 DEF InCaller, NotRefused
<1>. QED  BY <1>1, Always, PTL
================================================================================
