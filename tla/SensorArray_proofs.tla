--------------------------- MODULE SensorArray_proofs ---------------------------
(***************************************************************************)
(* What the sensor array guarantees for every list of variables, every     *)
(* assignment of sensors to power pins and every number of measurements.   *)
(*                                                                         *)
(* The loops poll; what keeps them right are the counts of measurements of *)
(* each sensor and of each pin, and the status bits, which must be true of *)
(* the sensors.  The counts of the pins are sums over the sensors on them: *)
(* the first lemmas are about sums over finite sets.                       *)
(***************************************************************************)
EXTENDS SensorArray, FiniteSetTheorems, TLAPS

--------------------------------------------------------------------------------
(* Sums over finite sets.                                                  *)

\* Every set of naturals has a smallest element.
LEMMA SmallestNat ==
  ASSUME NEW B \in SUBSET Nat, B # {}
  PROVE  \E n \in B : \A m \in B : n <= m
<1>. DEFINE R == OpToRel(<, Nat)
<1>1. IsWellFoundedOn(R, Nat)
  BY NatLessThanWellFounded
<1>2. \A m, n \in Nat : <<m, n>> \in R <=> m < n
  BY DEF OpToRel
<1>. HIDE DEF R
<1>3. \E n \in B : \A m \in B : ~(<<m, n>> \in R)
  BY <1>1, WFMin, Zenon
<1>4. \E n \in B : \A m \in B : ~(m < n)
  BY <1>2, <1>3, Zenon
<1>. QED  BY <1>4

\* Among subsets of a finite set there is a smallest one, that holds no other.
LEMMA SmallestSet ==
  ASSUME NEW S, IsFiniteSet(S), NEW B \in SUBSET SUBSET S, B # {}
  PROVE  \E b \in B : \A c \in B : c \subseteq b => c = b
<1>. DEFINE R == StrictSubsetOrdering(S)
<1>1. IsWellFoundedOn(R, SUBSET S)
  BY FS_StrictSubsetOrderingWellFounded, FS_FiniteSubsetsOfFinite, Zenon
<1>2. \A m, n \in SUBSET S : m \subseteq n /\ m # n => <<m, n>> \in R
  BY DEF StrictSubsetOrdering
<1>. HIDE DEF R
<1>3. \E n \in B : \A m \in B : ~(<<m, n>> \in R)
  BY <1>1, WFMin, Zenon
<1>. QED  BY <1>2, <1>3, Zenon

\* The element that a sum takes next, what it then is, and a function that is the sum of
\* every subset.
Picked(s) == CHOOSE x \in s : TRUE
SumStep(g, f, s) == IF s = {} THEN 0 ELSE f[Picked(s)] + g[s \ {Picked(s)}]
IsSum(g, f, S) == g = [s \in SUBSET S |-> SumStep(g, f, s)]

\* The sum of the community modules is the choice of a function that satisfies its
\* equation; that there is one is left to prove.
LEMMA SumIsChosen ==
  ASSUME NEW f, NEW S
  PROVE  SumFunctionOnSet(f, S) = (CHOOSE g : IsSum(g, f, S))[S]
BY DEF SumFunctionOnSet, FoldFunctionOnSet, MapThenFoldSet, IsSum, SumStep, Picked

\* The element that a sum takes next is one of its set.
LEMMA PickedIn == \A s : s # {} => Picked(s) \in s
BY DEF Picked

\* There is such a function on the subsets of a finite set: otherwise take the smallest
\* number of elements for which there is none.
LEMMA SumExists ==
  ASSUME NEW f, NEW S, IsFiniteSet(S)
  PROVE  \E g : IsSum(g, f, S)
<1>. DEFINE Small(n) == {s \in SUBSET S : Cardinality(s) <= n}
            Good(n) == \E g : \A s \in Small(n) : g[s] = SumStep(g, f, s)
            B == {n \in Nat : ~Good(n)}
<1>0. \A s \in SUBSET S : IsFiniteSet(s) /\ Cardinality(s) \in Nat /\ Cardinality(s) <= Cardinality(S)
                          /\ (Cardinality(s) = 0 => s = {})
  BY FS_Subset, FS_CardinalityType, FS_EmptySet
<1>1. Good(0)
  <2>. DEFINE g == [s \in SUBSET S |-> 0]
  <2>1. \A s \in Small(0) : s = {}
    BY <1>0
  <2>2. \A s \in Small(0) : g[s] = SumStep(g, f, s)
    BY <2>1 DEF SumStep
  <2>. QED  BY <2>2
<1>2. ASSUME NEW n \in Nat, Good(n)
      PROVE  Good(n + 1)
  <2>1. PICK g : \A s \in Small(n) : g[s] = SumStep(g, f, s)
    BY <1>2
  <2>. DEFINE h == [s \in SUBSET S |-> SumStep(g, f, s)]
  <2>2. ASSUME NEW s \in Small(n + 1)
        PROVE  h[s] = SumStep(h, f, s)
    <3>1. CASE s = {}
      BY <3>1 DEF SumStep
    <3>2. CASE s # {}
      <4>. DEFINE t == s \ {Picked(s)}
      <4>1. t \in SUBSET S /\ Cardinality(t) = Cardinality(s) - 1
        BY <1>0, <3>2, PickedIn, FS_RemoveElement
      <4>2. t \in Small(n)
        BY <1>0, <4>1
      <4>3. h[t] = g[t]
        BY <2>1, <4>1, <4>2
      <4>. HIDE DEF t
      <4>. QED  BY <3>2, <4>3 DEF SumStep, t
    <3>. QED  BY <3>1, <3>2
  <2>. QED  BY <2>2
<1>3. \A n \in Nat : Good(n)
  <2>. SUFFICES ASSUME B # {} PROVE FALSE
    OBVIOUS
  <2>. HIDE DEF Good
  <2>1. PICK n \in B : \A m \in B : n <= m
    BY SmallestNat
  <2>2. n # 0
    BY <1>1
  <2>3. n - 1 \in Nat /\ n - 1 \notin B
    BY <2>1, <2>2
  <2>4. Good(n - 1) /\ (n - 1) + 1 = n
    BY <2>3
  <2>. QED  BY <1>2, <2>3, <2>4
<1>4. Cardinality(S) \in Nat /\ Small(Cardinality(S)) = SUBSET S
  BY <1>0, FS_CardinalityType
<1>5. PICK g : \A s \in SUBSET S : g[s] = SumStep(g, f, s)
  <2>1. Good(Cardinality(S))
    BY <1>3, <1>4
  <2>. QED  BY <1>4, <2>1
<1>. DEFINE h == [s \in SUBSET S |-> g[s]]
<1>6. \A s \in SUBSET S : SumStep(h, f, s) = SumStep(g, f, s)
  <2>1. \A s \in SUBSET S : s \ {Picked(s)} \in SUBSET S
    OBVIOUS
  <2>. QED  BY <2>1 DEF SumStep
<1>7. h = [s \in SUBSET S |-> SumStep(h, f, s)]
  BY <1>5, <1>6
<1>. HIDE DEF h
<1>. QED  BY <1>7 DEF IsSum

\* A sum over a finite set takes one element after another.
LEMMA SumOf ==
  ASSUME NEW f, NEW S, IsFiniteSet(S)
  PROVE  \E g : /\ \A s \in SUBSET S : g[s] = SumStep(g, f, s)
                /\ SumFunctionOnSet(f, S) = g[S]
<1>. DEFINE g == CHOOSE g : IsSum(g, f, S)
<1>1. IsSum(g, f, S)
  BY SumExists
<1>2. SumFunctionOnSet(f, S) = g[S]
  BY SumIsChosen
<1>. HIDE DEF g
<1>3. \A s \in SUBSET S : g[s] = SumStep(g, f, s)
  BY <1>1 DEF IsSum
<1>. QED  BY <1>2, <1>3

\* A sum of smaller values is smaller, and equal only if all values are.
LEMMA SumAtMost ==
  ASSUME NEW S, IsFiniteSet(S), NEW f \in [S -> Nat], NEW h \in [S -> Nat],
         \A x \in S : f[x] <= h[x]
  PROVE  /\ SumFunctionOnSet(f, S) \in Nat /\ SumFunctionOnSet(h, S) \in Nat
         /\ SumFunctionOnSet(f, S) <= SumFunctionOnSet(h, S)
         /\ SumFunctionOnSet(f, S) = SumFunctionOnSet(h, S) => f = h
<1>1. PICK F : /\ \A s \in SUBSET S : F[s] = SumStep(F, f, s)
               /\ SumFunctionOnSet(f, S) = F[S]
  BY SumOf
<1>2. PICK H : /\ \A s \in SUBSET S : H[s] = SumStep(H, h, s)
               /\ SumFunctionOnSet(h, S) = H[S]
  BY SumOf
<1>. DEFINE Good(s) == /\ F[s] \in Nat /\ H[s] \in Nat /\ F[s] <= H[s]
                       /\ F[s] = H[s] => \A x \in s : f[x] = h[x]
            B == {s \in SUBSET S : ~Good(s)}
<1>3. ASSUME B # {} PROVE FALSE
  <2>0. B \in SUBSET SUBSET S
    OBVIOUS
  <2>1. PICK s \in B : \A c \in B : c \subseteq s => c = s
    <3>. HIDE DEF B
    <3>. QED  BY <1>3, <2>0, SmallestSet
  <2>2. CASE s = {}
    <3>1. F[{}] = 0 /\ H[{}] = 0
      BY <1>1, <1>2 DEF SumStep
    <3>2. Good({})
      BY <3>1
    <3>. QED  BY <2>1, <2>2, <3>2
  <2>3. CASE s # {}
    <3>. DEFINE x == Picked(s)  t == s \ {Picked(s)}
    <3>1. x \in S /\ x \in s /\ t \in SUBSET S /\ t \subseteq s /\ t # s
      BY <2>3, PickedIn
    <3>2. Good(t)
      BY <2>1, <3>1
    <3>3. F[s] = f[x] + F[t] /\ H[s] = h[x] + H[t]
      BY <1>1, <1>2, <2>3 DEF SumStep
    <3>4. f[x] \in Nat /\ h[x] \in Nat /\ f[x] <= h[x]
      BY <3>1
    <3>5. \A y \in s : y = x \/ y \in t
      OBVIOUS
    <3>. HIDE DEF x, t
    <3>6. Good(s)
      BY <3>2, <3>3, <3>4, <3>5
    <3>. QED  BY <2>1, <3>6
  <2>. QED  BY <2>2, <2>3
<1>4. Good(S)
  BY <1>3
<1>5. F[S] = H[S] => f = h
  BY <1>4
<1>. QED  BY <1>1, <1>2, <1>4, <1>5

\* Adding to one value adds as much to the sums that count it, and to no other.
LEMMA SumUpdate ==
  ASSUME NEW S, IsFiniteSet(S), NEW D, S \subseteq D,
         NEW f \in [D -> Nat], NEW h \in [D -> Nat], NEW j \in D,
         NEW d \in Nat, h[j] = f[j] + d, \A x \in D : x # j => h[x] = f[x]
  PROVE  /\ j \in S => SumFunctionOnSet(h, S) = SumFunctionOnSet(f, S) + d
         /\ j \notin S => SumFunctionOnSet(h, S) = SumFunctionOnSet(f, S)
<1>1. PICK F : /\ \A s \in SUBSET S : F[s] = SumStep(F, f, s)
               /\ SumFunctionOnSet(f, S) = F[S]
  BY SumOf
<1>2. PICK H : /\ \A s \in SUBSET S : H[s] = SumStep(H, h, s)
               /\ SumFunctionOnSet(h, S) = H[S]
  BY SumOf
<1>. DEFINE Good(s) == /\ F[s] \in Int
                       /\ j \in s => H[s] = F[s] + d
                       /\ j \notin s => H[s] = F[s]
            B == {s \in SUBSET S : ~Good(s)}
<1>3. ASSUME B # {} PROVE FALSE
  <2>0. B \in SUBSET SUBSET S
    OBVIOUS
  <2>1. PICK s \in B : \A c \in B : c \subseteq s => c = s
    <3>. HIDE DEF B
    <3>. QED  BY <1>3, <2>0, SmallestSet
  <2>2. CASE s = {}
    <3>1. F[{}] = 0 /\ H[{}] = 0
      BY <1>1, <1>2 DEF SumStep
    <3>2. Good({})
      BY <3>1
    <3>. QED  BY <2>1, <2>2, <3>2
  <2>3. CASE s # {}
    <3>. DEFINE x == Picked(s)  t == s \ {Picked(s)}
    <3>1. x \in S /\ x \in s /\ t \in SUBSET S /\ t \subseteq s /\ t # s
      BY <2>3, PickedIn
    <3>2. Good(t)
      BY <2>1, <3>1
    <3>3. F[s] = f[x] + F[t] /\ H[s] = h[x] + H[t]
      BY <1>1, <1>2, <2>3 DEF SumStep
    <3>4. f[x] \in Nat /\ h[x] \in Nat /\ f[j] \in Nat /\ h[j] \in Nat /\ (x # j => h[x] = f[x])
      BY <3>1
    <3>5. j \in t <=> j \in s /\ j # x
      OBVIOUS
    <3>. HIDE DEF x, t
    <3>6. Good(s)
      <4>1. CASE x = j
        BY <3>1, <3>2, <3>3, <3>4, <3>5, <4>1
      <4>2. CASE x # j
        BY <3>2, <3>3, <3>4, <3>5, <4>2
      <4>. QED  BY <4>1, <4>2
    <3>. QED  BY <2>1, <3>6
  <2>. QED  BY <2>2, <2>3
<1>4. Good(S)
  BY <1>3
<1>. QED  BY <1>1, <1>2, <1>4

\* The maximum of a set of positions is one of them.
LEMMA Largest ==
  ASSUME NEW n \in Nat, NEW S \in SUBSET (1..n), S # {}
  PROVE  Max(S) \in S /\ \A i \in S : i <= Max(S)
<1>. DEFINE B == {m \in Nat : \A i \in S : i <= m}
<1>1. n \in B
  OBVIOUS
<1>2. PICK m \in B : \A k \in B : m <= k
  BY <1>1, SmallestNat
<1>3. m \in S
  <2>. SUFFICES ASSUME m \notin S PROVE FALSE
    OBVIOUS
  <2>1. \A i \in S : i \in 1..n /\ i <= m - 1
    BY <1>2
  <2>2. m # 0
    <3>1. PICK i \in S : TRUE
      OBVIOUS
    <3>. QED  BY <2>1, <3>1
  <2>3. m - 1 \in B
    BY <1>2, <2>1, <2>2
  <2>. QED  BY <1>2, <2>3
<1>4. \E x \in S : \A y \in S : x >= y
  BY <1>2, <1>3
<1>5. Max(S) \in S /\ \A y \in S : Max(S) >= y
  BY <1>4 DEF Max
<1>. QED  BY <1>5
--------------------------------------------------------------------------------
(* Which variable stands for which sensor and which pin.                   *)

\* The variables stand in a finite array, and every sensor is the parent of one.
LEMMA ArrayFacts ==
  /\ Len(Vars) \in Nat /\ Slot = 1..Len(Vars) /\ IsFiniteSet(Slot)
  /\ \A i \in Slot : Vars[i] \in Sensor \cup {Calculated}
  /\ \A i \in Slot : Vars[i] \in Sensor <=> Vars[i] # Calculated
  /\ \A s \in Sensor : \E i \in Slot : Vars[i] = s
  /\ IsFiniteSet(Sensor)
<1>1. /\ Vars \in Seq(Sensor \cup {Calculated})
      /\ Len(Vars) \in Nat /\ DOMAIN Vars = 1..Len(Vars)
  BY ArrayAssumption
<1>2. IsFiniteSet(Slot)
  BY <1>1, FS_Interval DEF Slot
<1>3. \A i \in Slot : Vars[i] \in Sensor \cup {Calculated}
  BY <1>1 DEF Slot
<1>4. \A i \in Slot : Vars[i] \in Sensor <=> Vars[i] # Calculated
  BY <1>3 DEF Sensor
<1>5. ToSet(Vars) = {Vars[i] : i \in Slot}
  BY <1>1 DEF ToSet, Slot
<1>6. \A s \in Sensor : \E i \in Slot : Vars[i] = s
  BY <1>5 DEF Sensor
<1>7. IsFiniteSet(Sensor)
  <2>. DEFINE f == [i \in Slot |-> Vars[i]]
  <2>1. f \in Surjection(Slot, ToSet(Vars))
    BY <1>5 DEF Surjection
  <2>2. IsFiniteSet(ToSet(Vars))
    BY <1>2, <2>1, FS_Surjection, Zenon
  <2>. QED  BY <2>2, FS_Difference DEF Sensor
<1>. QED  BY <1>1, <1>2, <1>3, <1>4, <1>6, <1>7 DEF Slot

\* The variables that represent a sensor, one for each.
Reps == {i \in Slot : lastSensorVariable[i]}

\* Each sensor is stood for by exactly one variable, its last in the array.
LEMMA LastFacts ==
  /\ Reps \in SUBSET Slot /\ IsFiniteSet(Reps)
  /\ \A i \in Slot : lastSensorVariable[i] <=> i \in Reps
  /\ \A i \in Reps : Vars[i] \in Sensor
  /\ \A i, j \in Reps : Vars[i] = Vars[j] => i = j
  /\ \A s \in Sensor : \E i \in Reps : Vars[i] = s
  /\ SensorCount = Cardinality(Reps) /\ SensorCount = Cardinality(Sensor)
  /\ SensorCount \in Nat
<1>. USE ArrayFacts
<1>1. Reps \in SUBSET Slot /\ \A i \in Slot : lastSensorVariable[i] <=> i \in Reps
  BY DEF Reps
<1>2. \A i \in Reps : Vars[i] # Calculated /\ \A j \in (i + 1)..Len(Vars) : Vars[j] # Vars[i]
  BY DEF Reps, lastSensorVariable, IsLastVarFromSensor
<1>3. \A i \in Reps : Vars[i] \in Sensor
  BY <1>1, <1>2
<1>4. ASSUME NEW i \in Reps, NEW j \in Reps, Vars[i] = Vars[j]
      PROVE  i = j
  <2>1. i \in 1..Len(Vars) /\ j \in 1..Len(Vars)
    BY <1>1
  <2>2. ~(i < j) /\ ~(j < i)
    BY <1>2, <1>4, <2>1
  <2>. QED  BY <2>1, <2>2
<1>5. ASSUME NEW s \in Sensor
      PROVE  \E i \in Reps : Vars[i] = s
  <2>. DEFINE I == {i \in Slot : Vars[i] = s}
  <2>1. I \in SUBSET (1..Len(Vars)) /\ I # {}
    OBVIOUS
  <2>2. Max(I) \in I /\ \A i \in I : i <= Max(I)
    <3>. HIDE DEF I
    <3>. QED  BY <2>1, Largest
  <2>3. IsLastVarFromSensor(Max(I))
    <3>1. Vars[Max(I)] = s /\ Max(I) \in 1..Len(Vars) /\ s # Calculated
      BY <2>2 DEF Sensor
    <3>2. ASSUME NEW j \in (Max(I) + 1)..Len(Vars) PROVE Vars[j] # s
      <4>1. j \in Slot /\ ~(j <= Max(I))
        BY <3>1, <3>2
      <4>2. j \notin I
        BY <2>2, <4>1
      <4>. QED  BY <4>1, <4>2
    <3>. HIDE DEF I
    <3>. QED  BY <3>1, <3>2 DEF IsLastVarFromSensor
  <2>4. Max(I) \in Reps /\ Vars[Max(I)] = s
    BY <2>2, <2>3 DEF Reps, lastSensorVariable
  <2>. QED  BY <2>4
<1>6. IsFiniteSet(Reps) /\ Cardinality(Reps) \in Nat
  BY <1>1, FS_Subset, FS_CardinalityType
<1>7. SensorCount = Cardinality(Reps)
  BY DEF SensorCount, Reps
<1>8. Cardinality(Reps) = Cardinality(Sensor)
  <2>. DEFINE f == [i \in Reps |-> Vars[i]]
  <2>1. f \in Bijection(Reps, Sensor)
    BY <1>3, <1>4, <1>5 DEF Bijection, Injection, Surjection, IsInjective
  <2>2. ExistsBijection(Reps, Sensor)
    BY <2>1, Zenon DEF ExistsBijection
  <2>. QED  BY <1>6, <2>2, FS_Bijection, Zenon
<1>. QED  BY <1>1, <1>3, <1>4, <1>5, <1>6, <1>7, <1>8
--------------------------------------------------------------------------------
(* One sensor: what its bits and stamps say of where it really is.         *)

\* What the program keeps of a sensor.
Known == [status : SUBSET Bits, powerOn : Stamps, activated : Stamps, requested : Stamps]

\* What the program keeps, x, runs ahead neither of the sensor, at this level, nor of the
\* pins that are HIGH.
Honest(s, x, level, high) ==
  /\ Pin[s] < 0 => level >= 2
  /\ Pin[s] \in high => level >= 1
  /\ Pin[s] >= 0 /\ "power" \notin x.status => x.powerOn = "zero"
  /\ "power" \in x.status /\ x.powerOn # "recent" => level >= 2
  /\ "awake" \in x.status => /\ "wakeTried" \in x.status /\ "power" \in x.status
                             /\ level = 4 \/ (level = 3 /\ x.activated = "recent")
  /\ "measTried" \in x.status => "awake" \in x.status
  /\ "measuring" \in x.status => "measTried" \in x.status /\ level = 4
  /\ Pin[s] >= 0 /\ Pin[s] \notin high => x.status \subseteq {"setup", "wakeTried"}

\* A sensor has no power pin, -1, or a real one.
LEMMA PinFacts ==
  \A s \in Sensor : /\ Pin[s] \in Int
                    /\ Pin[s] < 0 <=> Pin[s] = -1
                    /\ Pin[s] >= 0 <=> Pin[s] # -1
                    /\ Pin[s] >= 0 => Pin[s] \in SensorPins /\ Pin[s] # 0
BY ArrayAssumption DEF SensorPins

\* The maximum of two numbers is the larger.
LEMMA MaxOfTwo ==
  ASSUME NEW a \in Int, NEW b \in Int
  PROVE  Max({a, b}) = IF a >= b THEN a ELSE b
<1>1. \E m \in {a, b} : \A y \in {a, b} : m >= y
  OBVIOUS
<1>2. Max({a, b}) \in {a, b} /\ \A y \in {a, b} : Max({a, b}) >= y
  BY <1>1 DEF Max
<1>. QED  BY <1>2

\* Switching pins powers the sensors on them and unpowers the others, leaving those
\* without a pin as they are.
LEMMA PoweredFacts ==
  ASSUME NEW pins, NEW level \in [Sensor -> 0..4]
  PROVE  /\ Powered(pins, level) \in [Sensor -> 0..4]
         /\ \A s \in Sensor :
              Powered(pins, level)[s]
                = IF Pin[s] = -1 THEN level[s]
                  ELSE IF Pin[s] \in pins THEN (IF level[s] = 0 THEN 1 ELSE level[s]) ELSE 0
<1>1. ASSUME NEW s \in Sensor
      PROVE  Powered(pins, level)[s]
                = IF Pin[s] = -1 THEN level[s]
                  ELSE IF Pin[s] \in pins THEN (IF level[s] = 0 THEN 1 ELSE level[s]) ELSE 0
  <2>1. Max({level[s], 1}) = IF level[s] = 0 THEN 1 ELSE level[s]
    BY MaxOfTwo
  <2>2. CASE Pin[s] < 0
    BY <2>2, PinFacts DEF Powered
  <2>3. CASE Pin[s] >= 0 /\ Pin[s] \in pins
    BY <2>1, <2>3, PinFacts DEF Powered
  <2>4. CASE Pin[s] >= 0 /\ Pin[s] \notin pins
    BY <2>4, PinFacts DEF Powered
  <2>. QED  BY <2>2, <2>3, <2>4, PinFacts
<1>2. \A s \in Sensor : Powered(pins, level)[s] \in 0..4
  BY <1>1
<1>3. Powered(pins, level) = [s \in Sensor |-> Powered(pins, level)[s]]
  <2>. DEFINE e(s) == CASE Pin[s] < 0                        -> level[s]
                        [] Pin[s] >= 0 /\ Pin[s] \in pins    -> Max({level[s], 1})
                        [] Pin[s] >= 0 /\ Pin[s] \notin pins -> 0
  <2>1. Powered(pins, level) = [s \in Sensor |-> e(s)]
    BY Zenon DEF Powered
  <2>. HIDE DEF e
  <2>. QED  BY <2>1
<1>. QED  BY <1>1, <1>2, <1>3

\* powerUp leaves bits that are true of a sensor that has power.
LEMMA PowerUpHonest ==
  ASSUME NEW s \in Sensor, NEW x \in Known, NEW level \in 0..4, NEW high, NEW pins,
         Honest(s, x, level, high), Pin[s] = -1 \/ Pin[s] \in pins
  PROVE  /\ PowerUp(s, x) \in Known
         /\ PowerUp(s, x).status = x.status \cup {"power"}
         /\ LET now == IF Pin[s] = -1 THEN level ELSE IF level = 0 THEN 1 ELSE level
            IN  Honest(s, PowerUp(s, x), now, pins)
<1>. DEFINE y == PowerUp(s, x)
<1>1. /\ y \in Known /\ y.status = x.status \cup {"power"}
      /\ y.activated = x.activated /\ y.requested = x.requested
      /\ Pin[s] >= 0 => y.powerOn = "recent"
  BY DEF PowerUp, Known, Bits, Stamps
<1>. QED  BY <1>1, PinFacts DEF Honest

\* Switching other pins on does not make the bits of a sensor untrue.
LEMMA MorePinsHonest ==
  ASSUME NEW s \in Sensor, NEW x \in Known, NEW level \in 0..4, NEW high, NEW pins,
         Honest(s, x, level, high), high \subseteq pins
  PROVE  LET now == IF Pin[s] = -1 THEN level
                    ELSE IF Pin[s] \in pins THEN (IF level = 0 THEN 1 ELSE level) ELSE 0
         IN  Honest(s, x, now, pins)
BY PinFacts DEF Honest, Known

\* powerDown leaves no bit that needs power, unless the sensor has no pin.
LEMMA PowerDownHonest ==
  ASSUME NEW s \in Sensor, NEW x \in Known, NEW level \in 0..4, NEW high, NEW pins,
         Pin[s] = -1 => Honest(s, x, level, high), -1 \notin pins
  PROVE  /\ PowerDown(s, x) \in Known
         /\ Pin[s] >= 0 => PowerDown(s, x).status \subseteq {"setup"}
         /\ LET now == IF Pin[s] = -1 THEN level
                       ELSE IF Pin[s] \in pins THEN (IF level = 0 THEN 1 ELSE level) ELSE 0
            IN  Honest(s, PowerDown(s, x), now, pins)
<1>1. CASE Pin[s] = -1
  BY <1>1, PinFacts DEF PowerDown, Honest
<1>2. CASE Pin[s] # -1
  <2>. DEFINE y == PowerDown(s, x)
  <2>1. y = [status |-> x.status \cap {"setup"},
             powerOn |-> "zero", activated |-> "zero", requested |-> "zero"]
    BY <1>2, PinFacts DEF PowerDown
  <2>2. y \in Known /\ y.status \subseteq {"setup"} /\ y.powerOn = "zero"
    BY <2>1 DEF Known, Bits, Stamps
  <2>. QED  BY <1>2, <2>2, PinFacts DEF Honest
<1>. QED  BY <1>1, <1>2

\* checkPowerOn leaves bits that agree with the pin.
LEMMA CheckPowerOnHonest ==
  ASSUME NEW s \in Sensor, NEW x \in Known, NEW level \in 0..4,
         Honest(s, x, level, pinHigh)
  PROVE  /\ CheckPowerOn(s, x) \in Known
         /\ Honest(s, CheckPowerOn(s, x), level, pinHigh)
         /\ IsOn(s) => /\ CheckPowerOn(s, x).status = x.status \cup {"power"}
                       /\ CheckPowerOn(s, x).activated = x.activated
         /\ ~IsOn(s) => CheckPowerOn(s, x).status = x.status \cap {"setup"}
<1>. DEFINE y == CheckPowerOn(s, x)
<1>1. CASE IsOn(s)
  <2>1. /\ y \in Known /\ y.status = x.status \cup {"power"}
        /\ y.powerOn = IF x.powerOn = "zero" THEN "recent" ELSE x.powerOn
        /\ y.activated = x.activated
    BY <1>1 DEF CheckPowerOn, Known, Bits, Stamps
  <2>. QED  BY <1>1, <2>1, PinFacts DEF Honest, IsOn
<1>2. CASE ~IsOn(s)
  <2>1. /\ y \in Known /\ y.status = x.status \cap {"setup"}
        /\ y.powerOn = "zero"
    BY <1>2 DEF CheckPowerOn, Known, Bits, Stamps
  <2>. QED  BY <1>2, <2>1, PinFacts DEF Honest, IsOn
<1>. QED  BY <1>1, <1>2

\* wake, after the warm-up, leaves bits that are true of the sensor woken.
LEMMA WakeHonest ==
  ASSUME NEW s \in Sensor, NEW x \in Known, NEW level \in 0..4, NEW high,
         NEW answered \in BOOLEAN,
         Honest(s, x, level, high), "wakeTried" \notin x.status, IsWarmedUp(x)
  PROVE  /\ Wake(x, answered) \in Known
         /\ LET now == IF "awake" \in Wake(x, answered).status /\ level >= 2
                         THEN 3 ELSE level
            IN  Honest(s, Wake(x, answered), now, high)
<1>. DEFINE y == Wake(x, answered)
<1>1. CASE "power" \in x.status /\ answered
  <2>1. /\ y \in Known /\ y.status = x.status \cup {"wakeTried", "awake"}
        /\ y.powerOn = x.powerOn /\ y.activated = "recent"
    BY <1>1 DEF Wake, Known, Bits, Stamps
  <2>2. level >= 2 /\ "measTried" \notin y.status /\ "measuring" \notin y.status
    BY <1>1, <2>1 DEF Honest, IsWarmedUp
  <2>3. Pin[s] < 0 \/ Pin[s] \in high
    BY <1>1, PinFacts DEF Honest
  <2>. HIDE DEF y
  <2>4. Honest(s, y, 3, high)
    BY <1>1, <2>1, <2>2, <2>3, PinFacts DEF Honest, Known
  <2>5. (IF "awake" \in y.status /\ level >= 2 THEN 3 ELSE level) = 3
    BY <2>1, <2>2
  <2>6. y \in Known /\ Honest(s, y, IF "awake" \in y.status /\ level >= 2 THEN 3 ELSE level, high)
    BY <2>1, <2>4, <2>5
  <2>. QED  BY <2>6 DEF y
<1>2. CASE ~("power" \in x.status /\ answered)
  <2>1. /\ y \in Known /\ y.status = (x.status \cup {"wakeTried"}) \ {"awake"}
        /\ y.powerOn = x.powerOn
    BY <1>2 DEF Wake, Known, Bits, Stamps
  <2>. QED  BY <1>2, <2>1, PinFacts DEF Honest
<1>. QED  BY <1>1, <1>2

\* startSingleMeasurement, once stable, measures only a sensor that really is.
LEMMA StartHonest ==
  ASSUME NEW s \in Sensor, NEW x \in Known, NEW level \in 0..4, NEW high,
         NEW answered \in BOOLEAN,
         Honest(s, x, level, high), "awake" \in x.status, IsStable(x)
  PROVE  /\ StartMeasurement(x, answered) \in Known
         /\ {"awake", "wakeTried", "measTried"} \subseteq StartMeasurement(x, answered).status
         /\ Honest(s, StartMeasurement(x, answered), level, high)
<1>. DEFINE y == StartMeasurement(x, answered)
<1>0. level = 4
  BY DEF Honest, IsStable
<1>1. CASE answered
  <2>1. /\ y \in Known /\ y.status = x.status \cup {"setup", "measTried", "measuring"}
        /\ y.powerOn = x.powerOn /\ y.activated = x.activated
    BY <1>1 DEF StartMeasurement, Known, Bits, Stamps
  <2>. QED  BY <1>0, <2>1, PinFacts DEF Honest
<1>2. CASE ~answered
  <2>1. /\ y \in Known /\ y.status = (x.status \cup {"setup", "measTried"}) \ {"measuring"}
        /\ y.powerOn = x.powerOn /\ y.activated = x.activated
    BY <1>2 DEF StartMeasurement, Known, Bits, Stamps
  <2>. QED  BY <1>0, <2>1, PinFacts DEF Honest
<1>. QED  BY <1>1, <1>2

\* addSingleMeasurementResult forgets the measurement and nothing else.
LEMMA AddResultHonest ==
  ASSUME NEW s \in Sensor, NEW x \in Known, NEW level \in 0..4, NEW high,
         Honest(s, x, level, high)
  PROVE  /\ AddResult(x) \in Known
         /\ AddResult(x).status = x.status \ {"measTried", "measuring"}
         /\ Honest(s, AddResult(x), level, high)
<1>. DEFINE y == AddResult(x)
<1>1. /\ y \in Known /\ y.status = x.status \ {"measTried", "measuring"}
      /\ y.powerOn = x.powerOn /\ y.activated = x.activated
  BY DEF AddResult, Known, Bits, Stamps
<1>. QED  BY <1>1, PinFacts DEF Honest

\* sleep never forgets less than the sensor does.
LEMMA SleepHonest ==
  ASSUME NEW s \in Sensor, NEW x \in Known, NEW level \in 0..4,
         NEW answered \in BOOLEAN,
         Honest(s, x, level, pinHigh)
  PROVE  /\ Sleep(s, x, answered) \in Known
         /\ Sleep(s, x, answered).status \subseteq x.status \cup {"power"}
         /\ LET now == IF Stops(s, x) /\ answered /\ level >= 2 THEN 2 ELSE level
            IN  Honest(s, Sleep(s, x, answered), now, pinHigh)
<1>. DEFINE y == Sleep(s, x, answered)  z == CheckPowerOn(s, x)
<1>1. CASE s \notin Commanded
  <2>1. y = x /\ ~Stops(s, x)
    BY <1>1 DEF Sleep, Stops
  <2>. QED  BY <2>1
<1>2. CASE s \in Commanded /\ Stops(s, x) /\ answered
  <2>1. z \in Known /\ Honest(s, z, level, pinHigh) /\ IsOn(s)
    BY <1>2, CheckPowerOnHonest DEF Stops
  <2>2. y = [z EXCEPT !.status = @ \cap {"setup", "power"},
                      !.activated = "zero", !.requested = "zero"]
    BY <1>2 DEF Sleep
  <2>3. /\ y \in Known /\ y.status = z.status \cap {"setup", "power"}
        /\ y.powerOn = z.powerOn
    BY <2>1, <2>2 DEF Known, Bits, Stamps
  <2>4. z.status = x.status \cup {"power"}
    BY <2>1, CheckPowerOnHonest
  <2>. HIDE DEF z
  <2>5. Honest(s, y, IF level >= 2 THEN 2 ELSE level, pinHigh)
    BY <2>1, <2>3, PinFacts DEF Honest, IsOn
  <2>6. y.status \subseteq x.status \cup {"power"}
    BY <2>3, <2>4
  <2>. QED  BY <1>2, <2>3, <2>5, <2>6
<1>3. CASE s \in Commanded /\ ~(Stops(s, x) /\ answered)
  <2>1. y = z
    BY <1>3 DEF Sleep
  <2>. QED  BY <1>3, <2>1, CheckPowerOnHonest
<1>. QED  BY <1>1, <1>2, <1>3
--------------------------------------------------------------------------------
(* The invariant of the loops and of the single updates.                   *)

BitsAreTrue == \A s \in Sensor : Honest(s, sensor[s], phys[s], pinHigh)

SensorsTyped ==
  /\ sensor \in [Sensor -> Known]
  /\ phys \in [Sensor -> 0..4]
  /\ pinHigh \subseteq SensorPins

\* The loops that measure.
Loops == {"complete", "updating"}

\* Where the loop is in its visit of a variable.
CursorInv ==
  /\ stage # "wake" => pc \in Loops /\ at \in Reps
  /\ stage = "start" => /\ pc = "complete"
                        /\ \/ completed[at] < nMeasurementsToAverage[at]
                           \/ "awake" \notin sensor[Vars[at]].status
  /\ stage = "collect" => /\ completed[at] < nMeasurementsToAverage[at]
                          /\ "measTried" \in sensor[Vars[at]].status

\* The variables whose sensor has been counted as completed.
Finished == {i \in Reps : /\ completed[i] = nMeasurementsToAverage[i]
                          /\ stage = "wake" \/ i # at}

\* The sensors that sensorsWake need not wake, or no more.
Tried == {s \in Sensor : "wakeTried" \in sensor[s].status}

\* No sensor is measured too often, and the loops end when each has been counted once.
CountInv ==
  /\ \A i \in Slot : completed[i] <= nMeasurementsToAverage[i]
  /\ pc \in Loops => done = Cardinality(Finished)
  /\ pc = "waking" => done = Cardinality(Tried)

--------------------------------------------------------------------------------
(* The bits stay true.                                                     *)

\* A step of one sensor, the others and the pins left alone, keeps all bits true.
LEMMA OneSensor ==
  ASSUME SensorsTyped, BitsAreTrue,
         NEW s \in Sensor, NEW y \in Known, NEW now \in 0..4, Honest(s, y, now, pinHigh),
         sensor' = [sensor EXCEPT ![s] = y], phys' = [phys EXCEPT ![s] = now],
         pinHigh' = pinHigh
  PROVE  SensorsTyped' /\ BitsAreTrue'
<1>1. SensorsTyped'
  BY DEF SensorsTyped
<1>2. ASSUME NEW t \in Sensor
      PROVE  Honest(t, sensor'[t], phys'[t], pinHigh')
  BY DEF SensorsTyped, BitsAreTrue
<1>. QED  BY <1>1, <1>2 DEF BitsAreTrue

\* No bit is set at boot.
LEMMA BitsInit == Init => SensorsTyped /\ BitsAreTrue
<1>. SUFFICES ASSUME Init PROVE SensorsTyped /\ BitsAreTrue
  OBVIOUS
<1>1. SensorsTyped
  BY DEF Init, SensorsTyped, Known, Bits, Stamps
<1>2. ASSUME NEW s \in Sensor
      PROVE  Honest(s, sensor[s], phys[s], pinHigh)
  BY PinFacts DEF Init, Honest
<1>. QED  BY <1>1, <1>2 DEF BitsAreTrue

\* setupSensors sets no bit but that of the setup.
LEMMA BitsSetupSensors ==
  ASSUME SensorsTyped, BitsAreTrue, SetupSensors
  PROVE  SensorsTyped' /\ BitsAreTrue'
<1>1. PICK answered \in SUBSET Sensor :
        sensor' = [s \in Sensor |->
                    IF s \in answered
                      THEN [sensor[s] EXCEPT !.status = @ \cup {"setup"}]
                      ELSE sensor[s]]
  BY DEF SetupSensors
<1>2. ASSUME NEW s \in Sensor
      PROVE  /\ sensor'[s] \in Known
             /\ Honest(s, sensor'[s], phys'[s], pinHigh')
  <2>1. /\ sensor[s] \in Known /\ Honest(s, sensor[s], phys[s], pinHigh)
        /\ phys' = phys /\ pinHigh' = pinHigh
    BY DEF SensorsTyped, BitsAreTrue, SetupSensors
  <2>2. CASE s \in answered
    <3>. DEFINE x == sensor[s]  y == [x EXCEPT !.status = @ \cup {"setup"}]
    <3>1. sensor'[s] = y
      BY <1>1, <2>2
    <3>2. /\ y \in Known /\ y.status = x.status \cup {"setup"}
          /\ y.powerOn = x.powerOn /\ y.activated = x.activated
      BY <2>1 DEF Known, Bits
    <3>. HIDE DEF y
    <3>3. Honest(s, y, phys[s], pinHigh)
      BY <2>1, <3>2, PinFacts DEF Honest
    <3>. QED  BY <2>1, <3>1, <3>2, <3>3
  <2>3. CASE s \notin answered
    BY <1>1, <2>1, <2>3
  <2>. QED  BY <2>2, <2>3
<1>3. sensor' \in [Sensor -> Known]
  <2>1. sensor' = [s \in Sensor |-> sensor'[s]]
    BY <1>1
  <2>. QED  BY <1>2, <2>1
<1>4. SensorsTyped'
  BY <1>3 DEF SensorsTyped, SetupSensors
<1>. QED  BY <1>2, <1>4 DEF BitsAreTrue

\* sensorsPowerUp raises every pin and sets no bit but that of the power.
LEMMA BitsPowerUp ==
  ASSUME SensorsTyped, BitsAreTrue, SensorsPowerUp
  PROVE  /\ SensorsTyped' /\ BitsAreTrue'
         /\ pinHigh' = SensorPins
         /\ \A s \in Sensor : sensor'[s].status = sensor[s].status \cup {"power"}
<1>1. /\ sensor' = [s \in Sensor |-> PowerUp(s, sensor[s])]
      /\ pinHigh' = SensorPins
      /\ phys' = Powered(pinHigh', phys)
  BY DEF SensorsPowerUp, SensorsTyped
<1>2. ASSUME NEW s \in Sensor
      PROVE  /\ sensor'[s] \in Known
             /\ sensor'[s].status = sensor[s].status \cup {"power"}
             /\ Honest(s, sensor'[s], phys'[s], pinHigh')
  <2>1. /\ sensor[s] \in Known /\ phys[s] \in 0..4
        /\ Honest(s, sensor[s], phys[s], pinHigh)
    BY DEF SensorsTyped, BitsAreTrue
  <2>2. Pin[s] = -1 \/ Pin[s] \in pinHigh'
    BY <1>1, PinFacts
  <2>3. phys'[s] = IF Pin[s] = -1 THEN phys[s] ELSE IF phys[s] = 0 THEN 1 ELSE phys[s]
    BY <1>1, <2>2, PoweredFacts DEF SensorsTyped
  <2>4. sensor'[s] = PowerUp(s, sensor[s])
    BY <1>1
  <2>5. /\ PowerUp(s, sensor[s]) \in Known
        /\ PowerUp(s, sensor[s]).status = sensor[s].status \cup {"power"}
        /\ Honest(s, PowerUp(s, sensor[s]), phys'[s], SensorPins)
    BY <1>1, <2>1, <2>2, <2>3, PowerUpHonest
  <2>. QED  BY <1>1, <2>4, <2>5
<1>3. SensorsTyped'
  BY <1>1, <1>2, PoweredFacts DEF SensorsTyped
<1>. QED  BY <1>1, <1>2, <1>3 DEF BitsAreTrue

\* Testing ends with all pins LOW and the sensors on them forgotten.
LEMMA BitsEndTesting ==
  ASSUME SensorsTyped, BitsAreTrue, EndTesting
  PROVE  /\ SensorsTyped' /\ BitsAreTrue'
         /\ pinHigh' = {}
         /\ \A s \in Sensor : Pin[s] >= 0 => sensor'[s].status \subseteq {"setup"}
<1>1. PICK answered \in SUBSET Commanded :
        /\ sensor' = [s \in Sensor |-> PowerDown(s, Sleep(s, sensor[s], s \in answered))]
        /\ phys' = Powered({}, [s \in Sensor |-> Slept(s, s \in answered)[s]])
  BY DEF EndTesting
<1>2. pinHigh' = {}
  BY DEF EndTesting, SensorsTyped
<1>. DEFINE slept == [s \in Sensor |-> Slept(s, s \in answered)[s]]
<1>3. ASSUME NEW s \in Sensor
      PROVE  slept[s] = IF Stops(s, sensor[s]) /\ s \in answered /\ phys[s] >= 2
                          THEN 2 ELSE phys[s]
  BY DEF Slept, SensorsTyped
<1>4. slept \in [Sensor -> 0..4]
  BY <1>3 DEF SensorsTyped
<1>5. phys' \in [Sensor -> 0..4]
      /\ \A s \in Sensor : phys'[s] = IF Pin[s] = -1 THEN slept[s] ELSE 0
  <2>. HIDE DEF slept
  <2>1. phys' = Powered({}, slept)
    BY <1>1 DEF slept
  <2>. QED  BY <1>4, <2>1, PoweredFacts
<1>6. ASSUME NEW s \in Sensor
      PROVE  /\ sensor'[s] \in Known
             /\ Pin[s] >= 0 => sensor'[s].status \subseteq {"setup"}
             /\ Honest(s, sensor'[s], phys'[s], pinHigh')
  <2>. DEFINE x == Sleep(s, sensor[s], s \in answered)
  <2>1. /\ sensor[s] \in Known /\ phys[s] \in 0..4
        /\ Honest(s, sensor[s], phys[s], pinHigh)
    BY DEF SensorsTyped, BitsAreTrue
  <2>2. x \in Known /\ Honest(s, x, slept[s], pinHigh) /\ slept[s] \in 0..4
    <3>1. (s \in answered) \in BOOLEAN
      OBVIOUS
    <3>. QED  BY <1>3, <1>4, <2>1, <3>1, SleepHonest
  <2>3. sensor'[s] = PowerDown(s, x)
    BY <1>1
  <2>. HIDE DEF x, slept
  <2>4. phys'[s] = IF Pin[s] = -1 THEN slept[s] ELSE 0
    BY <1>5
  <2>. QED  BY <1>2, <2>2, <2>3, <2>4, PowerDownHonest
<1>. HIDE DEF slept
<1>7. sensor' = [s \in Sensor |-> sensor'[s]]
  BY <1>1
<1>8. SensorsTyped'
  BY <1>2, <1>5, <1>6, <1>7 DEF SensorsTyped
<1>. QED  BY <1>2, <1>6, <1>8 DEF BitsAreTrue

\* An attempt to wake a sensor keeps the bits true.
LEMMA BitsWakeSensor ==
  ASSUME SensorsTyped, BitsAreTrue, s_at \in Sensor,
         NEW answered \in BOOLEAN, WakeSensor(answered), pinHigh' = pinHigh
  PROVE  SensorsTyped' /\ BitsAreTrue'
<1>. DEFINE s == s_at  x == sensor[s]  y == Wake(x, answered)
            now == IF "awake" \in y.status /\ phys[s] >= 2 THEN 3 ELSE phys[s]
<1>1. /\ x \in Known /\ phys[s] \in 0..4 /\ Honest(s, x, phys[s], pinHigh)
  BY DEF SensorsTyped, BitsAreTrue
<1>2. "wakeTried" \notin x.status /\ IsWarmedUp(x) /\ sensor' = [sensor EXCEPT ![s] = y]
  BY DEF WakeSensor, CanWake
<1>3. sensor'[s] = y
  BY <1>2 DEF SensorsTyped
<1>4. phys' = [phys EXCEPT ![s] = now]
  BY <1>3 DEF WakeSensor, Woken, SensorsTyped
<1>5. y \in Known /\ Honest(s, y, now, pinHigh)
  BY <1>1, <1>2, WakeHonest
<1>6. now \in 0..4
  BY <1>1
<1>. HIDE DEF x, y, now, s
<1>7. s \in Sensor
  BY DEF s
<1>. QED  BY <1>2, <1>4, <1>5, <1>6, <1>7, OneSensor

\* So does the start of a measurement,
LEMMA BitsStart ==
  ASSUME SensorsTyped, BitsAreTrue, s_at \in Sensor, Start
  PROVE  SensorsTyped' /\ BitsAreTrue'
<1>1. CASE UNCHANGED sensor
  BY <1>1 DEF Start, SensorsTyped, BitsAreTrue
<1>2. CASE sensor' # sensor
  <2>. DEFINE s == s_at  x == sensor[s]
  <2>1. PICK answered \in BOOLEAN :
          sensor' = [sensor EXCEPT ![s] = StartMeasurement(x, answered)]
    BY <1>2 DEF Start
  <2>2. "awake" \in x.status /\ IsStable(x) /\ phys' = phys /\ pinHigh' = pinHigh
    BY <1>2 DEF Start, ReadyToMeasure
  <2>3. x \in Known /\ phys[s] \in 0..4 /\ Honest(s, x, phys[s], pinHigh)
    BY DEF SensorsTyped, BitsAreTrue
  <2>4. StartMeasurement(x, answered) \in Known
        /\ Honest(s, StartMeasurement(x, answered), phys[s], pinHigh)
    BY <2>2, <2>3, StartHonest
  <2>5. phys' = [phys EXCEPT ![s] = phys[s]]
    BY <2>2 DEF SensorsTyped
  <2>. HIDE DEF x
  <2>. QED  BY <2>1, <2>2, <2>3, <2>4, <2>5, OneSensor
<1>. QED  BY <1>1, <1>2

\* the collection of its result,
LEMMA BitsCollect ==
  ASSUME SensorsTyped, BitsAreTrue, s_at \in Sensor, Collect
  PROVE  SensorsTyped' /\ BitsAreTrue'
<1>1. CASE UNCHANGED sensor
  BY <1>1 DEF Collect, SensorsTyped, BitsAreTrue
<1>2. CASE sensor' # sensor
  <2>. DEFINE s == s_at  x == sensor[s]
  <2>1. sensor' = [sensor EXCEPT ![s] = AddResult(x)]
        /\ phys' = phys /\ pinHigh' = pinHigh
    BY <1>2 DEF Collect
  <2>2. x \in Known /\ phys[s] \in 0..4 /\ Honest(s, x, phys[s], pinHigh)
    BY DEF SensorsTyped, BitsAreTrue
  <2>3. AddResult(x) \in Known /\ Honest(s, AddResult(x), phys[s], pinHigh)
    BY <2>2, AddResultHonest
  <2>4. phys' = [phys EXCEPT ![s] = phys[s]]
    BY <2>1 DEF SensorsTyped
  <2>. HIDE DEF x
  <2>. QED  BY <2>1, <2>2, <2>3, <2>4, OneSensor
<1>. QED  BY <1>1, <1>2

\* The sensors whose power goes together are all that hang on their pin.
LEMMA GroupSharesPin ==
  ASSUME NEW i \in Slot, NEW s \in group[i], NEW t \in Sensor, Pin[t] = Pin[s]
  PROVE  t \in group[i]
<1>1. PICK k \in Reps : Vars[k] = s /\ powerPinIndex[k] = powerPinIndex[i]
  BY DEF group, Reps
<1>2. PICK j \in Reps : Vars[j] = t
  BY LastFacts
<1>3. s \in Sensor
  BY <1>1, LastFacts
<1>4. powerPins[k] = Pin[s] /\ powerPins[j] = Pin[t]
  BY <1>1, <1>2, LastFacts DEF powerPins
<1>5. powerPinIndex[j] = powerPinIndex[k]
  BY <1>4, LastFacts DEF powerPinIndex
<1>6. t \in group[i]
  BY <1>1, <1>2, <1>5, LastFacts DEF group
<1>. QED  BY <1>6

\* and the end of a visit, which may power down several sensors.
LEMMA BitsFinishAsleep ==
  ASSUME SensorsTyped, BitsAreTrue, at \in Slot, s_at \in Sensor, FinishAsleep
  PROVE  SensorsTyped' /\ BitsAreTrue'
<1>. DEFINE off == IF onPin[powerPinIndex[at]] = nMeasurementsOnPin[powerPinIndex[at]]
                     THEN group[at] ELSE {}
            pins == pinHigh \ {Pin[s] : s \in off}
<1>1. PICK answered \in BOOLEAN :
        LET slept == [sensor EXCEPT ![s_at] = Sleep(s_at, @, answered)]
        IN  /\ sensor' = [s \in Sensor |-> IF s \in off THEN PowerDown(s, slept[s])
                                            ELSE slept[s]]
            /\ phys' = Powered(pins, Slept(s_at, answered))
  BY DEF FinishAsleep, Answers
<1>2. pinHigh' = pins
  BY DEF FinishAsleep
<1>3. \A s, t \in Sensor : s \in off /\ Pin[t] = Pin[s] => t \in off
  BY GroupSharesPin
<1>4. off \subseteq Sensor
  BY LastFacts DEF group
<1>. HIDE DEF off
<1>. DEFINE slept == [sensor EXCEPT ![s_at] = Sleep(s_at, @, answered)]
            level == Slept(s_at, answered)
<1>5. level \in [Sensor -> 0..4]
  BY DEF Slept, SensorsTyped
<1>6. ASSUME NEW s \in Sensor
      PROVE  slept[s] \in Known /\ Honest(s, slept[s], level[s], pinHigh)
  <2>1. /\ sensor[s] \in Known /\ phys[s] \in 0..4
        /\ Honest(s, sensor[s], phys[s], pinHigh)
    BY DEF SensorsTyped, BitsAreTrue
  <2>2. CASE s = s_at
    <3>1. slept[s] = Sleep(s, sensor[s], answered)
      BY <2>2 DEF SensorsTyped
    <3>2. level[s] = IF Stops(s, sensor[s]) /\ answered /\ phys[s] >= 2 THEN 2 ELSE phys[s]
      BY <2>2 DEF Slept, SensorsTyped
    <3>. QED  BY <2>1, <3>1, <3>2, SleepHonest
  <2>3. CASE s # s_at
    BY <2>1, <2>3 DEF Slept, SensorsTyped
  <2>. QED  BY <2>2, <2>3
<1>7. sensor' = [s \in Sensor |-> IF s \in off THEN PowerDown(s, slept[s]) ELSE slept[s]]
      /\ phys' = Powered(pins, level)
  BY <1>1
<1>. HIDE DEF slept, level
<1>8. -1 \notin pins /\ pins \subseteq SensorPins
  BY DEF SensorsTyped, SensorPins
<1>9. phys' \in [Sensor -> 0..4]
      /\ \A s \in Sensor :
           phys'[s] = IF Pin[s] = -1 THEN level[s]
                  ELSE IF Pin[s] \in pins THEN (IF level[s] = 0 THEN 1 ELSE level[s]) ELSE 0
  <2>. HIDE DEF pins
  <2>. QED  BY <1>5, <1>7, PoweredFacts
<1>10. ASSUME NEW s \in Sensor
       PROVE  sensor'[s] \in Known /\ Honest(s, sensor'[s], phys'[s], pinHigh')
  <2>1. CASE s \in off
    <3>1. sensor'[s] = PowerDown(s, slept[s])
      BY <1>7, <2>1
    <3>. HIDE DEF pins
    <3>. QED  BY <1>2, <1>5, <1>6, <1>8, <1>9, <3>1, PowerDownHonest
  <2>2. CASE s \notin off
    <3>1. sensor'[s] = slept[s]
      BY <1>7, <2>2
    <3>2. Pin[s] \in pinHigh <=> Pin[s] \in pins
      BY <1>3, <1>4, <2>2
    <3>3. slept[s] \in Known /\ Honest(s, slept[s], level[s], pinHigh) /\ level[s] \in 0..4
      BY <1>5, <1>6
    <3>. HIDE DEF pins
    <3>4. Honest(s, slept[s], phys'[s], pins)
      BY <1>9, <3>2, <3>3, PinFacts DEF Honest
    <3>. QED  BY <1>2, <3>1, <3>3, <3>4
  <2>. QED  BY <2>1, <2>2
<1>11. sensor' \in [Sensor -> Known]
  BY <1>7, <1>10
<1>12. SensorsTyped'
  BY <1>2, <1>8, <1>9, <1>11 DEF SensorsTyped
<1>. QED  BY <1>10, <1>12 DEF BitsAreTrue

--------------------------------------------------------------------------------
(* One sensor alone: what a whole update makes of its bits.                *)

\* Sensor::update measures a sensor after waiting until it is stable.
LEMMA MeasuredHonest ==
  ASSUME NEW s \in Sensor, NEW x \in Known, NEW level \in 0..4, NEW high,
         Honest(s, x, level, high)
  PROVE  /\ Measured(x) \in Known
         /\ Measured(x).status \subseteq x.status \cup {"setup"}
         /\ "measuring" \notin Measured(x).status /\ "measTried" \notin Measured(x).status
         /\ Honest(s, Measured(x), IF level = 3 THEN 4 ELSE level, high)
<1>. DEFINE y == Stabilized(x)  z == StartMeasurement(y, TRUE)  w == Measured(x)
            now == IF level = 3 THEN 4 ELSE level
<1>1. /\ y \in Known /\ y.status = x.status /\ y.powerOn = x.powerOn
      /\ y.activated = IF x.activated = "recent" THEN "past" ELSE x.activated
  BY DEF Stabilized, Known, Stamps
<1>2. now \in 0..4 /\ Honest(s, y, now, high)
  BY <1>1, PinFacts DEF Honest
<1>. HIDE DEF y, now
<1>3. z \in Known
  BY <1>1 DEF StartMeasurement, Known, Bits, Stamps
<1>4. /\ z.status \subseteq x.status \cup {"setup", "measTried", "measuring"}
      /\ "awake" \in z.status <=> "awake" \in x.status
      /\ "wakeTried" \in z.status <=> "wakeTried" \in x.status
      /\ "power" \in z.status <=> "power" \in x.status
      /\ z.powerOn = y.powerOn /\ z.activated = y.activated
  BY <1>1 DEF StartMeasurement, Known
<1>. HIDE DEF z
<1>5. /\ w = AddResult(z)
  BY DEF Measured, y, z
<1>6. /\ w \in Known /\ w.status = z.status \ {"measTried", "measuring"}
      /\ w.powerOn = z.powerOn /\ w.activated = z.activated
  BY <1>3, <1>5 DEF AddResult, Known, Stamps, Bits
<1>. HIDE DEF w
<1>7. /\ "awake" \in w.status <=> "awake" \in y.status
      /\ "wakeTried" \in w.status <=> "wakeTried" \in y.status
      /\ "power" \in w.status <=> "power" \in y.status
      /\ w.powerOn = y.powerOn /\ w.activated = y.activated
      /\ "measTried" \notin w.status /\ "measuring" \notin w.status
      /\ w.status \subseteq y.status \cup {"setup"}
  BY <1>1, <1>4, <1>6
<1>8. Honest(s, w, now, high)
  BY <1>2, <1>7, PinFacts DEF Honest
<1>. QED  BY <1>1, <1>6, <1>7, <1>8 DEF w, now

\* Waiting for the warm-up changes the stamp of the power only.
LEMMA PowerWaitedFacts ==
  ASSUME NEW x \in Known
  PROVE  /\ PowerWaited(x) \in Known /\ PowerWaited(x).status = x.status
         /\ PowerWaited(x).powerOn = IF x.powerOn = "recent" THEN "past" ELSE x.powerOn
         /\ PowerWaited(x).activated = x.activated
BY DEF PowerWaited, Known, Stamps

\* Sensor::update gives power to a sensor that has none, and takes it for asleep.
LEMMA PoweredAloneFacts ==
  ASSUME SensorsTyped, BitsAreTrue, NEW s \in Sensor
  PROVE  LET x == PoweredAlone(s)
         IN  /\ x \in Known /\ "power" \in x.status
             /\ IsOn(s) => /\ x.status = sensor[s].status \cup {"power"}
                           /\ Honest(s, x, phys[s], pinHigh)
             /\ ~IsOn(s) => x.status \subseteq {"setup", "power"}
<1>. DEFINE x == CheckPowerOn(s, sensor[s])
<1>1. /\ sensor[s] \in Known /\ phys[s] \in 0..4 /\ Honest(s, sensor[s], phys[s], pinHigh)
  BY DEF SensorsTyped, BitsAreTrue
<1>2. /\ x \in Known
      /\ Honest(s, x, phys[s], pinHigh)
      /\ IsOn(s) => x.status = sensor[s].status \cup {"power"}
      /\ ~IsOn(s) => x.status = sensor[s].status \cap {"setup"}
  BY <1>1, CheckPowerOnHonest
<1>. HIDE DEF x
<1>3. CASE IsOn(s)
  <2>1. PoweredAlone(s) = x
    BY <1>3 DEF PoweredAlone, x
  <2>. QED  BY <1>2, <1>3, <2>1
<1>4. CASE ~IsOn(s)
  <2>1. PoweredAlone(s) = PowerUp(s, x)
    BY <1>4 DEF PoweredAlone, x
  <2>2. PowerUp(s, x) \in Known /\ PowerUp(s, x).status = x.status \cup {"power"}
    BY <1>2 DEF PowerUp, Known, Bits, Stamps
  <2>. QED  BY <1>2, <1>4, <2>1, <2>2
<1>. QED  BY <1>3, <1>4

\* Updating one sensor that was active keeps all bits true,
LEMMA BitsUpdateActive ==
  ASSUME SensorsTyped, BitsAreTrue, NEW s \in Sensor, UpdateActive(s)
  PROVE  SensorsTyped' /\ BitsAreTrue'
<1>. DEFINE a == PoweredAlone(s)  x == Measured(a)
            warm == IF phys[s] = 3 THEN 4 ELSE phys[s]
<1>1. PICK answered \in BOOLEAN :
        /\ sensor' = [sensor EXCEPT ![s] = Sleep(s, x, answered)]
        /\ phys' = [phys EXCEPT ![s] = IF Stops(s, x) /\ answered /\ @ >= 2 THEN 2
                                       ELSE IF @ = 3 THEN 4 ELSE @]
  BY DEF UpdateActive, Answers
<1>2. pinHigh' = pinHigh /\ "wakeTried" \in a.status
  BY DEF UpdateActive, WasActive
<1>3. a \in Known /\ Honest(s, a, phys[s], pinHigh) /\ phys[s] \in 0..4
  BY <1>2, PoweredAloneFacts DEF SensorsTyped
<1>. HIDE DEF a
<1>4. x \in Known /\ Honest(s, x, warm, pinHigh) /\ warm \in 0..4
  BY <1>3, MeasuredHonest
<1>. HIDE DEF x
<1>. DEFINE y == Sleep(s, x, answered)
            now == IF Stops(s, x) /\ answered /\ warm >= 2 THEN 2 ELSE warm
<1>5. y \in Known /\ Honest(s, y, now, pinHigh) /\ now \in 0..4
  BY <1>4, SleepHonest
<1>6. phys' = [phys EXCEPT ![s] = now]
  <2>1. (IF Stops(s, x) /\ answered /\ phys[s] >= 2 THEN 2
         ELSE IF phys[s] = 3 THEN 4 ELSE phys[s]) = now
    BY <1>3
  <2>. HIDE DEF now
  <2>. QED  BY <1>1, <2>1
<1>7. sensor' = [sensor EXCEPT ![s] = y]
  BY <1>1
<1>. HIDE DEF y, now
<1>. QED  BY <1>2, <1>5, <1>6, <1>7, OneSensor

\* one that was not,
LEMMA BitsUpdateInactive ==
  ASSUME SensorsTyped, BitsAreTrue, NEW s \in Sensor, UpdateInactive(s)
  PROVE  SensorsTyped' /\ BitsAreTrue'
<1>. DEFINE a == PoweredAlone(s)  b == PowerWaited(a)  c == Wake(b, TRUE)  x == Measured(c)
<1>1. pinHigh' = pinHigh /\ "wakeTried" \notin a.status
  BY DEF UpdateInactive, WasActive
<1>2. /\ a \in Known /\ "power" \in a.status /\ phys[s] \in 0..4
      /\ IsOn(s) => Honest(s, a, phys[s], pinHigh)
  BY PoweredAloneFacts DEF SensorsTyped
<1>3. /\ IsOn(s) => /\ sensor' = [sensor EXCEPT ![s] = x]
                    /\ phys' = [phys EXCEPT ![s] = 4]
      /\ ~IsOn(s) => /\ sensor' = [sensor EXCEPT ![s] = PowerDown(s, x)]
                     /\ phys' = phys
  BY DEF UpdateInactive
<1>. HIDE DEF a
<1>4. /\ b \in Known /\ b.status = a.status /\ "wakeTried" \notin b.status
      /\ "power" \in b.status /\ b.powerOn # "recent" /\ b.activated = a.activated
  BY <1>1, <1>2, PowerWaitedFacts
<1>. HIDE DEF b
<1>5. /\ c = [b EXCEPT !.status = @ \cup {"wakeTried", "awake"}, !.activated = "recent"]
      /\ c \in Known /\ c.status = b.status \cup {"wakeTried", "awake"}
      /\ c.powerOn = b.powerOn /\ c.activated = "recent"
  BY <1>4 DEF Wake, Known, Bits, Stamps
<1>. HIDE DEF c
<1>6. CASE IsOn(s)
  <2>1. "measTried" \notin c.status /\ "measuring" \notin c.status
    BY <1>1, <1>2, <1>4, <1>5, <1>6 DEF Honest
  <2>2. Honest(s, c, 4, pinHigh)
    BY <1>2, <1>4, <1>5, <1>6, <2>1, PinFacts DEF Honest, IsOn
  <2>3. x \in Known /\ Honest(s, x, 4, pinHigh)
    BY <1>5, <2>2, MeasuredHonest
  <2>. HIDE DEF x
  <2>. QED  BY <1>1, <1>3, <1>6, <2>3, OneSensor
<1>7. CASE ~IsOn(s)
  <2>1. Pin[s] >= 0 /\ Pin[s] \notin pinHigh
    BY <1>7, PinFacts DEF IsOn
  <2>2. x \in Known
    <3>1. Stabilized(c) \in Known
      BY <1>5 DEF Stabilized, Known, Stamps
    <3>2. StartMeasurement(Stabilized(c), TRUE) \in Known
      BY <3>1 DEF StartMeasurement, Known, Bits, Stamps
    <3>. QED  BY <3>2 DEF Measured, AddResult, Known, Bits, Stamps
  <2>. HIDE DEF x
  <2>. DEFINE y == PowerDown(s, x)
  <2>3. y \in Known /\ y.status \subseteq {"setup"} /\ y.powerOn = "zero"
    BY <2>1, <2>2 DEF PowerDown, Known, Stamps, Bits
  <2>4. sensor' = [sensor EXCEPT ![s] = y] /\ phys' = [phys EXCEPT ![s] = phys[s]]
    BY <1>2, <1>3, <1>7 DEF SensorsTyped
  <2>. HIDE DEF y
  <2>5. Honest(s, y, phys[s], pinHigh)
    BY <2>1, <2>3, PinFacts DEF Honest
  <2>. QED  BY <1>1, <1>2, <2>3, <2>4, <2>5, OneSensor
<1>. QED  BY <1>6, <1>7

\* and one that does not wake.
LEMMA BitsUpdateFails ==
  ASSUME SensorsTyped, BitsAreTrue, NEW s \in Sensor, UpdateFails(s)
  PROVE  SensorsTyped' /\ BitsAreTrue'
<1>. DEFINE a == PoweredAlone(s)  b == PowerWaited(a)  y == Wake(b, FALSE)
            pins == pinHigh \cup ({Pin[s]} \ {-1})  level == Powered(pins, phys)
<1>1. /\ pinHigh' = pins /\ "wakeTried" \notin a.status
      /\ sensor' = [sensor EXCEPT ![s] = y]
      /\ phys' = [level EXCEPT ![s] = Max({level[s], 2})]
  BY DEF UpdateFails, WasActive, Powered
<1>2. /\ a \in Known /\ "power" \in a.status
      /\ IsOn(s) => Honest(s, a, phys[s], pinHigh)
      /\ ~IsOn(s) => a.status \subseteq {"setup", "power"}
  BY PoweredAloneFacts
<1>3. pins \subseteq SensorPins /\ pinHigh \subseteq pins /\ (Pin[s] # -1 => Pin[s] \in pins)
  BY PinFacts DEF SensorsTyped
<1>4. level \in [Sensor -> 0..4]
      /\ \A t \in Sensor :
              level[t]
                = IF Pin[t] = -1 THEN phys[t]
                  ELSE IF Pin[t] \in pins THEN (IF phys[t] = 0 THEN 1 ELSE phys[t]) ELSE 0
  BY PoweredFacts DEF SensorsTyped
<1>. HIDE DEF a, level, pins
<1>5. /\ b \in Known /\ b.status = a.status /\ b.powerOn # "recent"
  BY <1>2, PowerWaitedFacts
<1>. HIDE DEF b
<1>6. /\ y \in Known /\ y.status = (b.status \cup {"wakeTried"}) \ {"awake"}
      /\ y.powerOn = b.powerOn
  BY <1>5 DEF Wake, Known, Bits, Stamps
<1>. HIDE DEF y
<1>7. Max({level[s], 2}) = IF level[s] >= 2 THEN level[s] ELSE 2
  BY <1>4, MaxOfTwo
<1>8. phys' \in [Sensor -> 0..4] /\ phys'[s] >= 2 /\ \A t \in Sensor : t # s => phys'[t] = level[t]
  BY <1>1, <1>4, <1>7
<1>9. Honest(s, y, phys'[s], pins)
  <2>1. "measTried" \notin y.status /\ "measuring" \notin y.status /\ "power" \in y.status
    BY <1>1, <1>2, <1>5, <1>6 DEF Honest
  <2>2. Pin[s] = -1 \/ Pin[s] \in pins
    BY <1>3
  <2>. QED  BY <1>5, <1>6, <1>8, <2>1, <2>2, PinFacts DEF Honest
<1>10. ASSUME NEW t \in Sensor, t # s
       PROVE  Honest(t, sensor[t], level[t], pins)
  <2>1. /\ sensor[t] \in Known /\ phys[t] \in 0..4
        /\ Honest(t, sensor[t], phys[t], pinHigh)
    BY DEF SensorsTyped, BitsAreTrue
  <2>. QED  BY <1>3, <1>4, <2>1, MorePinsHonest
<1>11. \A t \in Sensor : sensor'[t] = IF t = s THEN y ELSE sensor[t]
  BY <1>1 DEF SensorsTyped
<1>12. SensorsTyped'
  BY <1>1, <1>3, <1>6, <1>8 DEF SensorsTyped
<1>13. \A t \in Sensor : Honest(t, sensor'[t], phys'[t], pinHigh')
  BY <1>1, <1>8, <1>9, <1>10, <1>11
<1>. QED  BY <1>12, <1>13 DEF BitsAreTrue

\* Time changes stamps and sensors together, and no bit.
LEMMA BitsElapse ==
  ASSUME SensorsTyped, BitsAreTrue, NEW s \in Sensor,
         WarmUpElapses(s) \/ StabilizationElapses(s) \/ MeasurementElapses(s)
  PROVE  /\ SensorsTyped' /\ BitsAreTrue'
         /\ \A t \in Sensor : sensor'[t].status = sensor[t].status
<1>. DEFINE x == sensor[s]  y == sensor'[s]
<1>1. /\ x \in Known /\ phys[s] \in 0..4 /\ Honest(s, x, phys[s], pinHigh)
      /\ \A t \in Sensor : sensor[t] \in Known
  BY DEF SensorsTyped, BitsAreTrue
<1>2. pinHigh' = pinHigh /\ \A t \in Sensor : t # s => sensor'[t] = sensor[t]
  BY DEF WarmUpElapses, StabilizationElapses, MeasurementElapses, SensorsTyped
<1>3. CASE WarmUpElapses(s)
  <2>1. y = [x EXCEPT !.powerOn = IF @ = "recent" THEN "past" ELSE @]
        /\ sensor' = [sensor EXCEPT ![s] = y]
        /\ phys' = [phys EXCEPT ![s] = IF phys[s] = 1 THEN 2 ELSE phys[s]]
    BY <1>3 DEF WarmUpElapses, SensorsTyped
  <2>2. /\ y \in Known /\ y.status = x.status /\ y.activated = x.activated
        /\ y.powerOn = IF x.powerOn = "recent" THEN "past" ELSE x.powerOn
    BY <1>1, <2>1 DEF Known, Stamps
  <2>. HIDE DEF y
  <2>. DEFINE now == IF phys[s] = 1 THEN 2 ELSE phys[s]
  <2>3. Honest(s, y, now, pinHigh) /\ now \in 0..4 /\ phys' = [phys EXCEPT ![s] = now]
    BY <1>1, <2>1, <2>2, PinFacts DEF Honest
  <2>. HIDE DEF now
  <2>4. SensorsTyped' /\ BitsAreTrue'
    BY <1>1, <1>2, <2>1, <2>2, <2>3, OneSensor
  <2>. QED  BY <1>2, <2>2, <2>4 DEF y
<1>4. CASE StabilizationElapses(s)
  <2>1. y = [x EXCEPT !.activated = IF @ = "recent" THEN "past" ELSE @]
        /\ sensor' = [sensor EXCEPT ![s] = y]
        /\ phys' = [phys EXCEPT ![s] = IF phys[s] = 3 THEN 4 ELSE phys[s]]
    BY <1>4 DEF StabilizationElapses, SensorsTyped
  <2>2. /\ y \in Known /\ y.status = x.status /\ y.powerOn = x.powerOn
        /\ y.activated = IF x.activated = "recent" THEN "past" ELSE x.activated
    BY <1>1, <2>1 DEF Known, Stamps
  <2>. HIDE DEF y
  <2>. DEFINE now == IF phys[s] = 3 THEN 4 ELSE phys[s]
  <2>3. Honest(s, y, now, pinHigh) /\ now \in 0..4 /\ phys' = [phys EXCEPT ![s] = now]
    BY <1>1, <2>1, <2>2, PinFacts DEF Honest
  <2>. HIDE DEF now
  <2>4. SensorsTyped' /\ BitsAreTrue'
    BY <1>1, <1>2, <2>1, <2>2, <2>3, OneSensor
  <2>. QED  BY <1>2, <2>2, <2>4 DEF y
<1>5. CASE MeasurementElapses(s)
  <2>1. y = [x EXCEPT !.requested = "past"]
        /\ sensor' = [sensor EXCEPT ![s] = y]
        /\ phys' = [phys EXCEPT ![s] = phys[s]]
    BY <1>5 DEF MeasurementElapses, SensorsTyped
  <2>2. /\ y \in Known /\ y.status = x.status /\ y.powerOn = x.powerOn
        /\ y.activated = x.activated
    BY <1>1, <2>1 DEF Known, Stamps
  <2>. HIDE DEF y
  <2>3. Honest(s, y, phys[s], pinHigh)
    BY <1>1, <2>2, PinFacts DEF Honest
  <2>4. SensorsTyped' /\ BitsAreTrue'
    BY <1>1, <1>2, <2>1, <2>2, <2>3, OneSensor
  <2>. QED  BY <1>2, <2>2, <2>4 DEF y
<1>. QED  BY <1>3, <1>4, <1>5

--------------------------------------------------------------------------------
(* The counts of the loops.                                                *)

RestTyped ==
  /\ pc \in {"boot", "idle", "complete", "waking", "testing", "updating"}
  /\ at \in 1..(Len(Vars) + 1) /\ stage \in {"wake", "start", "collect", "finish"}
  /\ completed \in [Slot -> 0..255] /\ onPin \in [Slot -> 0..255]
  /\ done \in 0..SensorCount
  /\ asked \in [Sensor -> Nat]

LoopInv == SensorsTyped /\ RestTyped /\ BitsAreTrue /\ CursorInv /\ CountInv

\* The type invariant is that of the sensors and that of the rest.
LEMMA TypeParts == TypeOK <=> SensorsTyped /\ RestTyped
BY DEF TypeOK, SensorsTyped, RestTyped, Known

\* Only a variable that stands for a sensor wants measurements, between 1 and 255.
LEMMA MeasurementFacts ==
  /\ nMeasurementsToAverage \in [Slot -> 0..255]
  /\ \A i \in Reps : /\ nMeasurementsToAverage[i] = ToAverage[Vars[i]]
                     /\ nMeasurementsToAverage[i] \in 1..255
  /\ \A i \in Slot : i \notin Reps => nMeasurementsToAverage[i] = 0
<1>1. \A i \in Reps : ToAverage[Vars[i]] \in 1..255
  BY LastFacts, ArrayAssumption
<1>2. \A i \in Slot : nMeasurementsToAverage[i] = IF i \in Reps THEN ToAverage[Vars[i]] ELSE 0
  BY LastFacts DEF nMeasurementsToAverage
<1>3. nMeasurementsToAverage = [i \in Slot |-> nMeasurementsToAverage[i]]
  BY DEF nMeasurementsToAverage
<1>4. \A i \in Slot : nMeasurementsToAverage[i] \in 0..255
  BY <1>1, <1>2
<1>. QED  BY <1>1, <1>2, <1>3, <1>4, LastFacts

\* There are as many sensors as variables that stand for one.
LEMMA CountFacts ==
  /\ \A F \in SUBSET Reps : /\ IsFiniteSet(F) /\ Cardinality(F) \in 0..SensorCount
                            /\ Cardinality(F) = SensorCount => F = Reps
  /\ \A F \in SUBSET Sensor : IsFiniteSet(F) /\ Cardinality(F) \in 0..SensorCount
<1>1. ASSUME NEW F \in SUBSET Reps
      PROVE  /\ IsFiniteSet(F) /\ Cardinality(F) \in 0..SensorCount
             /\ Cardinality(F) = SensorCount => F = Reps
  <2>1. /\ IsFiniteSet(F) /\ Cardinality(F) <= Cardinality(Reps)
        /\ Cardinality(Reps) = Cardinality(F) => F = Reps
    BY LastFacts, FS_Subset, Zenon
  <2>2. Cardinality(F) \in Nat
    BY <2>1, FS_CardinalityType
  <2>. QED  BY <2>1, <2>2, LastFacts
<1>2. ASSUME NEW F \in SUBSET Sensor
      PROVE  IsFiniteSet(F) /\ Cardinality(F) \in 0..SensorCount
  BY ArrayFacts, LastFacts, FS_Subset, FS_CardinalityType
<1>. QED  BY <1>1, <1>2

\* A byte is a byte.
LEMMA UInt8Facts == \A n \in Int : UInt8(n) \in 0..255
BY DEF UInt8

\* A count of at most a byte that has not reached its limit can take one more.
LEMMA ByteFacts ==
  ASSUME NEW m \in 0..255, NEW n \in 0..255
  PROVE  m + n \in Int /\ (m < n => m + 1 \in 0..255 /\ m + 1 <= n)
OBVIOUS

\* The counts are right at boot, where none is in use.
LEMMA LoopInit == Init => LoopInv
<1>. SUFFICES ASSUME Init PROVE LoopInv
  OBVIOUS
<1>1. RestTyped
  BY LastFacts, ArrayFacts DEF Init, RestTyped
<1>2. CursorInv
  BY DEF Init, CursorInv
<1>3. CountInv
  <2>1. ASSUME NEW i \in Slot
        PROVE  completed[i] <= nMeasurementsToAverage[i]
    <3>1. completed[i] = 0
      BY DEF Init
    <3>2. nMeasurementsToAverage[i] \in 0..255
      BY MeasurementFacts
    <3>. QED  BY <3>1, <3>2
  <2>2. pc \notin Loops /\ pc # "waking"
    BY DEF Init, Loops
  <2>. QED  BY <2>1, <2>2, Zenon DEF CountInv
<1>. QED  BY <1>1, <1>2, <1>3, BitsInit DEF LoopInv

\* Outside the loops there is nothing to count.
LEMMA AtRest ==
  ASSUME LoopInv, pc' \in {"idle", "testing"}, stage' = "wake", at' \in 1..(Len(Vars) + 1),
         completed' = completed, onPin' = onPin, done' = done, asked' = asked
  PROVE  RestTyped' /\ CursorInv' /\ CountInv'
BY DEF LoopInv, RestTyped, CursorInv, CountInv, Loops

\* setupSensors does not begin a loop,
LEMMA LoopSetupSensors ==
  ASSUME LoopInv, SetupSensors
  PROVE  LoopInv'
<1>1. SensorsTyped' /\ BitsAreTrue'
  BY BitsSetupSensors DEF LoopInv
<1>2. stage = "wake"
  BY DEF LoopInv, CursorInv, SetupSensors, Loops
<1>3. RestTyped' /\ CursorInv' /\ CountInv'
  BY <1>2, AtRest DEF SetupSensors, LoopInv, RestTyped, counts
<1>. QED  BY <1>1, <1>3 DEF LoopInv

\* nor does the end of testing,
LEMMA LoopEndTesting ==
  ASSUME LoopInv, EndTesting
  PROVE  LoopInv'
<1>1. SensorsTyped' /\ BitsAreTrue'
  BY BitsEndTesting DEF LoopInv
<1>2. stage = "wake"
  BY DEF LoopInv, CursorInv, EndTesting, Loops
<1>3. RestTyped' /\ CursorInv' /\ CountInv'
  BY <1>2, AtRest DEF EndTesting, LoopInv, RestTyped, counts
<1>. QED  BY <1>1, <1>3 DEF LoopInv

\* nor an update of one sensor.
LEMMA LoopAlone ==
  ASSUME LoopInv, NEW s \in Sensor, UpdateActive(s) \/ UpdateInactive(s) \/ UpdateFails(s)
  PROVE  LoopInv'
<1>1. SensorsTyped' /\ BitsAreTrue'
  BY BitsUpdateActive, BitsUpdateInactive, BitsUpdateFails DEF LoopInv
<1>2. stage = "wake" /\ pc' = "idle" /\ UNCHANGED <<pc, at, stage, counts, asked>>
  BY DEF LoopInv, CursorInv, UpdateActive, UpdateInactive, UpdateFails, Loops
<1>3. RestTyped' /\ CursorInv' /\ CountInv'
  BY <1>2, AtRest DEF LoopInv, RestTyped, counts
<1>. QED  BY <1>1, <1>3 DEF LoopInv

\* The index starts within the array or just behind an empty one.
LEMMA FirstSlot == 1 \in 1..(Len(Vars) + 1)
BY ArrayFacts

\* completeUpdate begins with nothing counted,
LEMMA LoopCompleteUpdate ==
  ASSUME LoopInv, CompleteUpdate
  PROVE  LoopInv'
<1>1. SensorsTyped' /\ BitsAreTrue'
  BY BitsPowerUp DEF LoopInv, CompleteUpdate
<1>2. RestTyped'
  BY FirstSlot, LastFacts DEF CompleteUpdate, BeginLoop, RestTyped
<1>3. CursorInv'
  BY DEF CompleteUpdate, BeginLoop, CursorInv
<1>4. CountInv'
  <2>1. Finished' = {}
    BY LastFacts, MeasurementFacts DEF Finished, CompleteUpdate
  <2>2. Cardinality(Finished') = 0
    BY <2>1, FS_EmptySet
  <2>. QED  BY <2>2, MeasurementFacts DEF CountInv, CompleteUpdate, BeginLoop
<1>. QED  BY <1>1, <1>2, <1>3, <1>4 DEF LoopInv

\* sensorsWake with the sensors that need not be woken,
LEMMA LoopBeginTesting ==
  ASSUME LoopInv, BeginTesting
  PROVE  LoopInv'
<1>1. SensorsTyped' /\ BitsAreTrue' /\ Tried' = Tried
  <2>1. SensorsTyped' /\ BitsAreTrue'
        /\ \A s \in Sensor : sensor'[s].status = sensor[s].status \cup {"power"}
    BY BitsPowerUp DEF LoopInv, BeginTesting
  <2>. QED  BY <2>1 DEF Tried
<1>2. done' = Cardinality(Tried)
  BY DEF BeginTesting, Tried
<1>3. RestTyped'
  BY <1>2, FirstSlot, CountFacts DEF BeginTesting, BeginLoop, RestTyped, Tried, LoopInv
<1>4. CursorInv'
  BY DEF BeginTesting, BeginLoop, CursorInv
<1>5. CountInv'
  BY <1>1, <1>2 DEF BeginTesting, BeginLoop, CountInv, LoopInv, Loops
<1>. QED  BY <1>1, <1>3, <1>4, <1>5 DEF LoopInv

\* and updateAllSensors with those that are not awake.
LEMMA LoopUpdateAllSensors ==
  ASSUME LoopInv, UpdateAllSensors
  PROVE  LoopInv'
<1>1. SensorsTyped' /\ BitsAreTrue' /\ sensor' = sensor
  BY DEF LoopInv, UpdateAllSensors, SensorsTyped, BitsAreTrue
<1>. DEFINE asleep == {s \in Sensor : "awake" \notin sensor[s].status}
            passed == {i \in Reps : Vars[i] \in asleep}
<1>2. done' = Cardinality(asleep) /\ asleep \in SUBSET Sensor
  BY DEF UpdateAllSensors
<1>3. /\ completed' \in [Slot -> 0..255]
      /\ \A i \in Slot : completed'[i] = IF i \in passed THEN nMeasurementsToAverage[i] ELSE 0
  <2>1. completed' = [i \in Slot |->
                     IF lastSensorVariable[i] /\ "awake" \notin sensor[Vars[i]].status
                       THEN nMeasurementsToAverage[i] ELSE 0]
    BY DEF UpdateAllSensors
  <2>2. \A i \in Slot : completed'[i] = IF i \in passed THEN nMeasurementsToAverage[i] ELSE 0
    BY <2>1, LastFacts
  <2>3. \A i \in Slot : nMeasurementsToAverage[i] \in 0..255
    BY MeasurementFacts
  <2>. QED  BY <2>1, <2>2, <2>3
<1>4. Cardinality(passed) = Cardinality(asleep)
  <2>. DEFINE f == [i \in passed |-> Vars[i]]
  <2>1. f \in Bijection(passed, asleep)
    BY LastFacts DEF Bijection, Injection, Surjection, IsInjective
  <2>2. ExistsBijection(passed, asleep)
    BY <2>1, Zenon DEF ExistsBijection
  <2>3. IsFiniteSet(passed)
    BY CountFacts
  <2>. QED  BY <2>2, <2>3, FS_Bijection, Zenon
<1>5. stage' = "wake" /\ pc' = "updating" /\ at' = 1 /\ onPin' = [i \in Slot |-> 0]
  BY DEF UpdateAllSensors, BeginLoop
<1>6. Finished' = passed
  BY <1>3, <1>5, LastFacts, MeasurementFacts DEF Finished
<1>7. done' = Cardinality(Finished')
  BY <1>2, <1>4, <1>6
<1>8. done' \in 0..SensorCount /\ asked' \in [Sensor -> Nat]
  BY <1>2, CountFacts DEF UpdateAllSensors
<1>. HIDE DEF asleep, passed
<1>9. RestTyped'
  BY <1>3, <1>5, <1>8, FirstSlot DEF RestTyped
<1>10. CursorInv'
  BY <1>5 DEF CursorInv
<1>11. CountInv'
  BY <1>3, <1>5, <1>7, MeasurementFacts DEF CountInv
<1>. QED  BY <1>1, <1>9, <1>10, <1>11 DEF LoopInv

\* Each variable counts for its pin at an index of the array.
LEMMA IndexFacts == \A i \in Slot : powerPinIndex[i] \in Slot
<1>. TAKE i \in Slot
<1>. DEFINE standing == {j \in Slot : lastPinVariable[j] /\ powerPins[j] = powerPins[i]}
<1>1. powerPinIndex[i] = IF standing = {} THEN 1 ELSE Max(standing)
  BY DEF powerPinIndex
<1>2. standing \in SUBSET (1..Len(Vars)) /\ 1 \in Slot
  BY ArrayFacts
<1>. HIDE DEF standing
<1>3. standing # {} => Max(standing) \in standing
  BY <1>2, ArrayFacts, Largest
<1>. QED  BY <1>1, <1>2, <1>3, ArrayFacts

\* The loop moves on without having touched anything.
LEMMA LoopMovesOn ==
  ASSUME LoopInv, UNCHANGED <<sensor, pinHigh, phys, counts, asked, pc>>,
         at \in Slot, NextVariable,
         stage = "wake" \/ completed[at] # nMeasurementsToAverage[at]
  PROVE  LoopInv'
<1>1. SensorsTyped' /\ BitsAreTrue'
  BY DEF LoopInv, SensorsTyped, BitsAreTrue
<1>2. RestTyped' /\ at' # at
  BY ArrayFacts DEF LoopInv, RestTyped, NextVariable, counts
<1>3. CursorInv'
  BY DEF CursorInv, NextVariable
<1>4. Finished' = Finished /\ Tried' = Tried
  BY LastFacts DEF Finished, Tried, NextVariable, counts
<1>5. CountInv'
  BY <1>4 DEF LoopInv, CountInv, counts
<1>. QED  BY <1>1, <1>2, <1>3, <1>5 DEF LoopInv

\* The loop passes over a variable with nothing to do,
LEMMA LoopPassOver ==
  ASSUME LoopInv, PassOver PROVE LoopInv'
BY LoopMovesOn DEF PassOver

\* and over a sensor that is not through.
LEMMA LoopStillMeasuring ==
  ASSUME LoopInv, StillMeasuring PROVE LoopInv'
<1>1. at \in Slot
  BY LastFacts DEF LoopInv, CursorInv, StillMeasuring
<1>. QED  BY <1>1, LoopMovesOn DEF StillMeasuring, AllMeasured

\* sensorsWake counts a sensor once, for it is not tried twice.
LEMMA LoopWakeInTurn ==
  ASSUME LoopInv, WakeInTurn
  PROVE  LoopInv'
<1>1. at \in Reps /\ s_at \in Sensor /\ pc = "waking" /\ stage = "wake" /\ pc' = pc
  BY LastFacts DEF WakeInTurn, LoopInv, CursorInv, Loops, s_at
<1>2. PICK answered \in BOOLEAN : WakeSensor(answered)
  BY DEF WakeInTurn
<1>3. SensorsTyped' /\ BitsAreTrue'
  BY <1>1, <1>2, BitsWakeSensor DEF LoopInv, WakeInTurn
<1>4. Tried' = Tried \cup {s_at} /\ s_at \notin Tried
  <2>1. sensor' = [sensor EXCEPT ![s_at] = Wake(sensor[s_at], answered)]
        /\ s_at \notin Tried
    BY <1>2 DEF WakeSensor, CanWake, Tried
  <2>2. sensor'[s_at] = Wake(sensor[s_at], answered)
        /\ \A s \in Sensor : s # s_at => sensor'[s] = sensor[s]
    BY <1>1, <2>1 DEF LoopInv, SensorsTyped
  <2>3. "wakeTried" \in Wake(sensor[s_at], answered).status
    BY <1>1 DEF Wake, LoopInv, SensorsTyped, Known
  <2>. QED  BY <1>1, <2>1, <2>2, <2>3 DEF Tried
<1>5. Cardinality(Tried') = Cardinality(Tried) + 1 /\ Cardinality(Tried') \in 0..SensorCount
      /\ Cardinality(Tried) \in 0..SensorCount
  <2>1. Tried \in SUBSET Sensor /\ Tried \cup {s_at} \in SUBSET Sensor
    BY <1>1 DEF Tried
  <2>. QED  BY <1>4, <2>1, CountFacts, FS_AddElement
<1>6. done' = Cardinality(Tried')
  BY <1>1, <1>5 DEF WakeInTurn, LoopInv, CountInv
<1>7. RestTyped'
  BY <1>1, <1>5, <1>6, LastFacts, ArrayFacts DEF LoopInv, RestTyped, WakeInTurn, NextVariable
<1>8. CursorInv'
  BY DEF CursorInv, WakeInTurn, NextVariable
<1>9. CountInv'
  BY <1>1, <1>6 DEF LoopInv, CountInv, WakeInTurn, Loops
<1>. QED  BY <1>3, <1>7, <1>8, <1>9 DEF LoopInv

\* Completing the sensor at hand, which is not counted as finished until the visit ends.
LEMMA FinishedElsewhere ==
  ASSUME LoopInv, at' = at, at \notin Finished, stage' # "wake",
         completed' \in [Slot -> 0..255], \A i \in Slot : i # at => completed'[i] = completed[i]
  PROVE  Finished' = Finished
<1>1. \A i \in Reps : i \in Slot
  BY LastFacts
<1>. QED  BY <1>1 DEF Finished

\* completeUpdate finishes a sensor that will never measure in the same visit.
LEMMA LoopWakeToMeasure ==
  ASSUME LoopInv, WakeToMeasure
  PROVE  LoopInv'
<1>1. /\ at \in Reps /\ at \in Slot /\ s_at \in Sensor
      /\ pc = "complete" /\ stage = "wake" /\ completed[at] < nMeasurementsToAverage[at]
      /\ stage' = "start" /\ UNCHANGED <<pc, pinHigh, at, done, asked>>
  BY LastFacts DEF WakeToMeasure, Unfinished, s_at
<1>2. SensorsTyped' /\ BitsAreTrue'
  <2>1. CASE NoNeedToWake
    BY <1>1, <2>1 DEF NoNeedToWake, LoopInv, SensorsTyped, BitsAreTrue
  <2>2. CASE \E answered \in BOOLEAN : WakeSensor(answered)
    BY <1>1, <2>2, BitsWakeSensor DEF LoopInv
  <2>. QED  BY <2>1, <2>2 DEF WakeToMeasure
<1>3. /\ completed' \in [Slot -> 0..255] /\ onPin' \in [Slot -> 0..255]
      /\ \A i \in Slot : i # at => completed'[i] = completed[i]
      /\ completed'[at] <= nMeasurementsToAverage[at]
      /\ completed'[at] < nMeasurementsToAverage[at] \/ "awake" \notin sensor'[s_at].status
  <2>1. CASE WillNeverMeasure(sensor'[s_at])
    <3>1. /\ completed' = [completed EXCEPT ![at] = nMeasurementsToAverage[at]]
          /\ onPin' = [onPin EXCEPT ![powerPinIndex[at]] =
                            UInt8(@ + nMeasurementsToAverage[at])]
      BY <2>1 DEF WakeToMeasure
    <3>2. UInt8(onPin[powerPinIndex[at]] + nMeasurementsToAverage[at]) \in 0..255
      <4>1. powerPinIndex[at] \in Slot
        BY <1>1, IndexFacts
      <4>2. onPin[powerPinIndex[at]] \in 0..255 /\ nMeasurementsToAverage[at] \in 0..255
        BY <1>1, <4>1, MeasurementFacts DEF LoopInv, RestTyped
      <4>3. onPin[powerPinIndex[at]] + nMeasurementsToAverage[at] \in Int
        BY <4>2, ByteFacts, Zenon
      <4>. QED  BY <4>3, UInt8Facts
    <3>3. nMeasurementsToAverage[at] \in 0..255
      BY <1>1, MeasurementFacts
    <3>4. completed \in [Slot -> 0..255] /\ onPin \in [Slot -> 0..255]
      BY DEF LoopInv, RestTyped
    <3>5. completed' \in [Slot -> 0..255] /\ onPin' \in [Slot -> 0..255]
      BY <3>1, <3>2, <3>3, <3>4, Zenon
    <3>6. /\ \A i \in Slot : i # at => completed'[i] = completed[i]
          /\ completed'[at] = nMeasurementsToAverage[at]
      BY <1>1, <3>1, <3>4, Zenon
    <3>7. "awake" \notin sensor'[s_at].status
      BY <2>1 DEF WillNeverMeasure
    <3>. QED  BY <3>3, <3>5, <3>6, <3>7
  <2>2. CASE ~WillNeverMeasure(sensor'[s_at])
    <3>1. completed' = completed /\ onPin' = onPin
      BY <2>2 DEF WakeToMeasure
    <3>2. completed \in [Slot -> 0..255] /\ onPin \in [Slot -> 0..255]
      BY DEF LoopInv, RestTyped
    <3>3. completed[at] <= nMeasurementsToAverage[at]
      BY <1>1 DEF LoopInv, CountInv
    <3>. QED  BY <1>1, <3>1, <3>2, <3>3, Zenon
  <2>. QED  BY <2>1, <2>2
<1>4. at \notin Finished
  BY <1>1, MeasurementFacts DEF Finished
<1>5. Finished' = Finished
  BY <1>1, <1>3, <1>4, FinishedElsewhere
<1>6. RestTyped'
  BY <1>1, <1>3 DEF LoopInv, RestTyped
<1>7. CursorInv'
  BY <1>1, <1>3, LastFacts DEF CursorInv, Loops, s_at
<1>8. CountInv'
  BY <1>1, <1>3, <1>5 DEF LoopInv, CountInv, Loops
<1>. QED  BY <1>2, <1>6, <1>7, <1>8 DEF LoopInv

\* A measurement is started in the visit of a sensor that is not through,
LEMMA LoopStart ==
  ASSUME LoopInv, Start
  PROVE  LoopInv'
<1>1. /\ at \in Reps /\ at \in Slot /\ s_at \in Sensor /\ pc \in Loops
      /\ at \notin Finished
      /\ UNCHANGED <<pc, pinHigh, phys, at, counts>>
      /\ stage' \in {"collect", "finish"}
  BY LastFacts, MeasurementFacts
     DEF Start, LoopInv, CursorInv, Unfinished, Loops, s_at, Finished
<1>2. SensorsTyped' /\ BitsAreTrue'
  BY <1>1, BitsStart DEF LoopInv
<1>3. stage' = "collect" => completed[at] < nMeasurementsToAverage[at]
                            /\ "measTried" \in sensor'[s_at].status
  <2>. SUFFICES ASSUME stage' = "collect"
                PROVE  completed[at] < nMeasurementsToAverage[at]
                       /\ "measTried" \in sensor'[s_at].status
    OBVIOUS
  <2>1. ReadyToMeasure
    BY DEF Start
  <2>2. completed[at] < nMeasurementsToAverage[at]
    BY <1>1, <2>1, MeasurementFacts
       DEF Start, LoopInv, CursorInv, Unfinished, ReadyToMeasure, s_at, RestTyped
  <2>3. CASE "measTried" \in sensor[s_at].status
    BY <2>1, <2>2, <2>3 DEF Start
  <2>4. CASE "measTried" \notin sensor[s_at].status
    <3>1. PICK answered \in BOOLEAN :
            sensor' = [sensor EXCEPT ![s_at] = StartMeasurement(@, answered)]
      BY <2>1, <2>4 DEF Start
    <3>2. sensor'[s_at] = StartMeasurement(sensor[s_at], answered)
      BY <1>1, <3>1 DEF LoopInv, SensorsTyped
    <3>3. "measTried" \in StartMeasurement(sensor[s_at], answered).status
      <4>1. /\ sensor[s_at] \in Known /\ phys[s_at] \in 0..4
            /\ Honest(s_at, sensor[s_at], phys[s_at], pinHigh)
        BY <1>1 DEF LoopInv, SensorsTyped, BitsAreTrue
      <4>. QED  BY <1>1, <2>1, <4>1, StartHonest DEF ReadyToMeasure
    <3>. QED  BY <2>2, <3>2, <3>3
  <2>. QED  BY <2>3, <2>4
<1>4. asked' \in [Sensor -> Nat]
  BY <1>1 DEF Start, LoopInv, RestTyped
<1>5. RestTyped'
  BY <1>1, <1>4 DEF LoopInv, RestTyped, counts
<1>6. CursorInv'
  BY <1>1, <1>3 DEF CursorInv, s_at, counts
<1>7. Finished' = Finished
  BY <1>1, FinishedElsewhere DEF counts, LoopInv, RestTyped
<1>8. CountInv'
  BY <1>1, <1>7 DEF LoopInv, CountInv, Loops, counts
<1>. QED  BY <1>2, <1>5, <1>6, <1>8 DEF LoopInv

\* and its result takes the count at most to the limit.
LEMMA LoopCollect ==
  ASSUME LoopInv, Collect
  PROVE  LoopInv'
<1>1. /\ at \in Reps /\ at \in Slot /\ s_at \in Sensor /\ pc \in Loops
      /\ at \notin Finished
      /\ UNCHANGED <<pc, pinHigh, phys, at, done, asked>>
      /\ completed[at] < nMeasurementsToAverage[at] /\ stage' = "finish"
  BY LastFacts DEF Collect, LoopInv, CursorInv, s_at, Finished
<1>2. SensorsTyped' /\ BitsAreTrue'
  BY <1>1, BitsCollect DEF LoopInv
<1>3. /\ completed' \in [Slot -> 0..255] /\ onPin' \in [Slot -> 0..255]
      /\ \A i \in Slot : i # at => completed'[i] = completed[i]
      /\ completed'[at] <= nMeasurementsToAverage[at]
  <2>1. CASE IsMeasurementComplete(sensor[s_at])
    <3>1. /\ completed' = [completed EXCEPT ![at] = @ + 1]
          /\ \/ onPin' = onPin
             \/ onPin' = [onPin EXCEPT ![powerPinIndex[at]] = UInt8(@ + 1)]
      BY <2>1 DEF Collect
    <3>2. UInt8(onPin[powerPinIndex[at]] + 1) \in 0..255
      <4>1. powerPinIndex[at] \in Slot
        BY <1>1, IndexFacts
      <4>2. onPin[powerPinIndex[at]] \in 0..255
        BY <1>1, <4>1 DEF LoopInv, RestTyped
      <4>3. onPin[powerPinIndex[at]] + 1 \in Int
        BY <4>2
      <4>. QED  BY <4>3, UInt8Facts
    <3>3. completed[at] + 1 \in 0..255 /\ completed[at] + 1 <= nMeasurementsToAverage[at]
      <4>1. nMeasurementsToAverage[at] \in 0..255 /\ completed[at] \in 0..255
        BY <1>1, MeasurementFacts DEF LoopInv, RestTyped
      <4>. QED  BY <1>1, <4>1, ByteFacts, Zenon
    <3>4. completed \in [Slot -> 0..255] /\ onPin \in [Slot -> 0..255]
      BY DEF LoopInv, RestTyped
    <3>5. completed' \in [Slot -> 0..255] /\ onPin' \in [Slot -> 0..255]
      BY <3>1, <3>2, <3>3, <3>4, Zenon
    <3>6. /\ \A i \in Slot : i # at => completed'[i] = completed[i]
          /\ completed'[at] = completed[at] + 1
      BY <1>1, <3>1, <3>4, Zenon
    <3>. QED  BY <3>3, <3>5, <3>6
  <2>2. CASE ~IsMeasurementComplete(sensor[s_at])
    BY <1>1, <2>2 DEF Collect, LoopInv, RestTyped, CountInv
  <2>. QED  BY <2>1, <2>2
<1>4. Finished' = Finished
  BY <1>1, <1>3, FinishedElsewhere
<1>5. RestTyped'
  BY <1>1, <1>3 DEF LoopInv, RestTyped
<1>6. CursorInv'
  BY <1>1 DEF CursorInv
<1>7. CountInv'
  BY <1>1, <1>3, <1>4 DEF LoopInv, CountInv, Loops
<1>. QED  BY <1>2, <1>5, <1>6, <1>7 DEF LoopInv

\* A sensor is finished: its variable is counted once, at the end of the visit.
LEMMA LoopFinish ==
  ASSUME LoopInv, FinishAwake \/ FinishAsleep
  PROVE  /\ RestTyped' /\ CursorInv' /\ CountInv'
         /\ at \in Reps /\ at \in Slot /\ s_at \in Sensor
         /\ Finished' = Finished \cup {at} /\ at \notin Finished
<1>1. /\ at \in Reps /\ at \in Slot /\ s_at \in Sensor /\ pc \in Loops
      /\ stage = "finish" /\ completed[at] = nMeasurementsToAverage[at]
      /\ UNCHANGED <<pc, completed, onPin, asked>> /\ done' = done + 1
      /\ at' = at + 1 /\ stage' = "wake"
  BY LastFacts
     DEF FinishAwake, FinishAsleep, NextVariable, AllMeasured, LoopInv, CursorInv, s_at
<1>2. Finished' = Finished \cup {at} /\ at \notin Finished
  BY <1>1 DEF Finished
<1>3. Cardinality(Finished') = Cardinality(Finished) + 1
      /\ Cardinality(Finished) \in 0..SensorCount /\ Cardinality(Finished') \in 0..SensorCount
  <2>1. Finished \in SUBSET Reps /\ Finished \cup {at} \in SUBSET Reps
    BY <1>1 DEF Finished
  <2>. QED  BY <1>2, <2>1, CountFacts, FS_AddElement
<1>4. done' = Cardinality(Finished')
  BY <1>1, <1>3 DEF LoopInv, CountInv
<1>5. RestTyped'
  BY <1>1, <1>3, <1>4, ArrayFacts DEF LoopInv, RestTyped
<1>6. CursorInv'
  BY <1>1 DEF CursorInv
<1>7. CountInv'
  BY <1>1, <1>4 DEF LoopInv, CountInv, Loops
<1>. QED  BY <1>1, <1>2, <1>5, <1>6, <1>7

\* A loop ends when every sensor has been counted.
LEMMA LoopEndPass ==
  ASSUME LoopInv, EndPass
  PROVE  LoopInv'
<1>1. SensorsTyped' /\ BitsAreTrue'
  BY DEF LoopInv, SensorsTyped, BitsAreTrue, EndPass
<1>2. stage = "wake" /\ stage' = "wake" /\ at' = 1
      /\ pc' \in {pc, "idle", "testing"}
  BY LastFacts, ArrayFacts DEF LoopInv, CursorInv, EndPass
<1>3. RestTyped'
  BY <1>2, FirstSlot DEF LoopInv, RestTyped, EndPass, counts
<1>4. CursorInv'
  BY <1>2 DEF CursorInv
<1>5. Finished' = Finished /\ Tried' = Tried
  BY <1>2 DEF Finished, Tried, EndPass, counts
<1>6. CountInv'
  BY <1>2, <1>5 DEF LoopInv, CountInv, EndPass, Loops, counts
<1>. QED  BY <1>1, <1>3, <1>4, <1>6 DEF LoopInv

\* Time does not change the counts.
LEMMA LoopElapse ==
  ASSUME LoopInv, NEW s \in Sensor,
         WarmUpElapses(s) \/ StabilizationElapses(s) \/ MeasurementElapses(s)
  PROVE  LoopInv'
<1>1. SensorsTyped' /\ BitsAreTrue' /\ \A t \in Sensor : sensor'[t].status = sensor[t].status
  BY BitsElapse DEF LoopInv
<1>2. UNCHANGED <<pc, pinHigh, at, stage, counts, asked>>
  BY DEF WarmUpElapses, StabilizationElapses, MeasurementElapses
<1>3. RestTyped'
  BY <1>2 DEF LoopInv, RestTyped, counts
<1>4. CursorInv'
  <2>1. \A i \in Reps : sensor'[Vars[i]].status = sensor[Vars[i]].status
    BY <1>1, LastFacts
  <2>. QED  BY <1>2, <2>1 DEF LoopInv, CursorInv, counts
<1>5. Finished' = Finished /\ Tried' = Tried
  BY <1>1, <1>2 DEF Finished, Tried, counts
<1>6. CountInv'
  BY <1>2, <1>5 DEF LoopInv, CountInv, counts
<1>. QED  BY <1>1, <1>3, <1>4, <1>6 DEF LoopInv

\* Nor does a step that changes nothing.
LEMMA LoopStutter ==
  ASSUME LoopInv, UNCHANGED vars
  PROVE  LoopInv'
<1>1. SensorsTyped' /\ BitsAreTrue'
  BY DEF LoopInv, SensorsTyped, BitsAreTrue, vars
<1>2. RestTyped' /\ CursorInv'
  BY DEF LoopInv, RestTyped, CursorInv, vars, counts
<1>3. Finished' = Finished /\ Tried' = Tried
  BY DEF Finished, Tried, vars, counts
<1>4. CountInv'
  BY <1>3 DEF LoopInv, CountInv, vars, counts
<1>. QED  BY <1>1, <1>2, <1>4 DEF LoopInv

\* The invariant of the loops is inductive.
LEMMA LoopStep == LoopInv /\ [Next]_vars => LoopInv'
<1>. SUFFICES ASSUME LoopInv, [Next]_vars PROVE LoopInv'
  OBVIOUS
<1>1. CASE Call
  BY <1>1, LoopSetupSensors, LoopCompleteUpdate, LoopBeginTesting, LoopUpdateAllSensors,
     LoopEndTesting, LoopAlone DEF Call
<1>2. CASE Proceed
  <2>1. CASE FinishAwake
    <3>1. SensorsTyped' /\ BitsAreTrue'
      BY <2>1 DEF FinishAwake, LoopInv, SensorsTyped, BitsAreTrue
    <3>. QED  BY <2>1, <3>1, LoopFinish DEF LoopInv
  <2>2. CASE FinishAsleep
    <3>1. SensorsTyped' /\ BitsAreTrue'
      BY <2>2, LoopFinish, BitsFinishAsleep DEF LoopInv
    <3>. QED  BY <2>2, <3>1, LoopFinish DEF LoopInv
  <2>. QED
    BY <1>2, <2>1, <2>2, LoopPassOver, LoopWakeInTurn, LoopWakeToMeasure, LoopStart,
       LoopCollect, LoopStillMeasuring, LoopEndPass DEF Proceed
<1>3. CASE Elapse
  BY <1>3, LoopElapse DEF Elapse
<1>4. CASE UNCHANGED vars
  BY <1>4, LoopStutter
<1>. QED  BY <1>1, <1>2, <1>3, <1>4 DEF Next

\* The counts stay bytes and within their limits, whatever the sensors answer and in
\* whatever order they are polled: the unsigned differences of the loops never wrap.
THEOREM SensorArrayTypeCorrect == Spec => []TypeOK
<1>1. LoopInv => TypeOK
  BY TypeParts DEF LoopInv
<1>. QED  BY <1>1, LoopInit, LoopStep, PTL DEF Spec

\* However completeUpdate, testing and single updates follow on one another, a
\* measurement runs only on a sensor that has power, is warm, was woken and is stable.
THEOREM NeverMeasuredCold == Spec => []NoColdMeasurement
<1>1. LoopInv => NoColdMeasurement
  BY DEF LoopInv, BitsAreTrue, Honest, NoColdMeasurement
<1>. QED  BY <1>1, LoopInit, LoopStep, PTL DEF Spec

--------------------------------------------------------------------------------
(* The counts of a power pin.                                              *)

\* The variables that count for the pin of variable i.
SamePin(i) == {j \in Slot : powerPins[j] = powerPins[i]}

\* The sum over a set looks at nothing outside of it.
LEMMA SumSame ==
  ASSUME NEW S, IsFiniteSet(S), NEW f, NEW h, \A x \in S : f[x] = h[x]
  PROVE  SumFunctionOnSet(f, S) = SumFunctionOnSet(h, S)
<1>1. PICK F : /\ \A s \in SUBSET S : F[s] = SumStep(F, f, s)
               /\ SumFunctionOnSet(f, S) = F[S]
  BY SumOf
<1>2. PICK H : /\ \A s \in SUBSET S : H[s] = SumStep(H, h, s)
               /\ SumFunctionOnSet(h, S) = H[S]
  BY SumOf
<1>. DEFINE B == {s \in SUBSET S : F[s] # H[s]}
<1>3. ASSUME B # {} PROVE FALSE
  <2>0. B \in SUBSET SUBSET S
    OBVIOUS
  <2>1. PICK s \in B : \A c \in B : c \subseteq s => c = s
    <3>. HIDE DEF B
    <3>. QED  BY <1>3, <2>0, SmallestSet
  <2>2. CASE s = {}
    BY <1>1, <1>2, <2>1, <2>2 DEF SumStep
  <2>3. CASE s # {}
    <3>. DEFINE x == Picked(s)  t == s \ {Picked(s)}
    <3>1. x \in S /\ t \in SUBSET S /\ t \subseteq s /\ t # s
      BY <2>3, PickedIn
    <3>2. F[t] = H[t]
      BY <2>1, <3>1
    <3>3. F[s] = f[x] + F[t] /\ H[s] = h[x] + H[t]
      BY <1>1, <1>2, <2>3 DEF SumStep
    <3>. QED  BY <2>1, <3>1, <3>2, <3>3
  <2>. QED  BY <2>2, <2>3
<1>. QED  BY <1>1, <1>2, <1>3

\* A sum of zeros is zero.
LEMMA SumOfZeros ==
  ASSUME NEW S, IsFiniteSet(S), NEW f, \A x \in S : f[x] = 0
  PROVE  SumFunctionOnSet(f, S) = 0
<1>1. PICK F : /\ \A s \in SUBSET S : F[s] = SumStep(F, f, s)
               /\ SumFunctionOnSet(f, S) = F[S]
  BY SumOf
<1>. DEFINE B == {s \in SUBSET S : F[s] # 0}
<1>3. ASSUME B # {} PROVE FALSE
  <2>0. B \in SUBSET SUBSET S
    OBVIOUS
  <2>1. PICK s \in B : \A c \in B : c \subseteq s => c = s
    <3>. HIDE DEF B
    <3>. QED  BY <1>3, <2>0, SmallestSet
  <2>2. CASE s = {}
    BY <1>1, <2>1, <2>2 DEF SumStep
  <2>3. CASE s # {}
    <3>. DEFINE x == Picked(s)  t == s \ {Picked(s)}
    <3>1. x \in S /\ t \in SUBSET S /\ t \subseteq s /\ t # s
      BY <2>3, PickedIn
    <3>2. F[t] = 0
      BY <2>1, <3>1
    <3>3. F[s] = f[x] + F[t]
      BY <1>1, <2>3 DEF SumStep
    <3>. QED  BY <2>1, <3>1, <3>2, <3>3
  <2>. QED  BY <2>2, <2>3
<1>. QED  BY <1>1, <1>3

\* Counts of which none exceeds its limit: their sum does not either, and reaches the
\* sum of the limits only when each has reached its own.
LEMMA SumWithin ==
  ASSUME NEW D, NEW S \in SUBSET D, IsFiniteSet(S), NEW f \in [D -> Nat], NEW h \in [D -> Nat],
         \A x \in S : f[x] <= h[x]
  PROVE  /\ SumFunctionOnSet(f, S) \in Nat /\ SumFunctionOnSet(h, S) \in Nat
         /\ SumFunctionOnSet(f, S) <= SumFunctionOnSet(h, S)
         /\ SumFunctionOnSet(f, S) = SumFunctionOnSet(h, S) <=> \A x \in S : f[x] = h[x]
<1>. DEFINE f1 == [x \in S |-> f[x]]  h1 == [x \in S |-> h[x]]
<1>1. /\ f1 \in [S -> Nat] /\ h1 \in [S -> Nat] /\ \A x \in S : f1[x] <= h1[x]
      /\ \A x \in S : f1[x] = f[x] /\ h1[x] = h[x]
  OBVIOUS
<1>. HIDE DEF f1, h1
<1>2. /\ SumFunctionOnSet(f1, S) = SumFunctionOnSet(f, S)
      /\ SumFunctionOnSet(h1, S) = SumFunctionOnSet(h, S)
  BY <1>1, SumSame
<1>3. /\ SumFunctionOnSet(f1, S) \in Nat /\ SumFunctionOnSet(h1, S) \in Nat
      /\ SumFunctionOnSet(f1, S) <= SumFunctionOnSet(h1, S)
      /\ SumFunctionOnSet(f1, S) = SumFunctionOnSet(h1, S) => f1 = h1
  BY <1>1, SumAtMost
<1>4. (\A x \in S : f[x] = h[x]) => SumFunctionOnSet(f, S) = SumFunctionOnSet(h, S)
  BY SumSame
<1>. QED  BY <1>1, <1>2, <1>3, <1>4

\* The variables that stand for the sensors of one pin count at one index of their own;
\* what that index expects is the byte of the sum of their measurements.
LEMMA PinGroups ==
  /\ \A i \in Reps : SamePin(i) \in SUBSET Reps /\ i \in SamePin(i) /\ IsFiniteSet(SamePin(i))
  /\ \A i \in Reps : powerPins[i] = Pin[Vars[i]]
  /\ \A i, k \in Reps : /\ powerPinIndex[i] = powerPinIndex[k] <=> Pin[Vars[i]] = Pin[Vars[k]]
                        /\ SamePin(i) = SamePin(k) <=> Pin[Vars[i]] = Pin[Vars[k]]
                        /\ k \in SamePin(i) <=> Pin[Vars[i]] = Pin[Vars[k]]
  /\ \A i \in Reps : nMeasurementsOnPin[powerPinIndex[i]]
                       = UInt8(SumFunctionOnSet(nMeasurementsToAverage, SamePin(i)))
  /\ \A i \in Reps : group[i] = {s \in Sensor : Pin[s] = Pin[Vars[i]]}
<1>1. \A i \in Reps : i \in Slot /\ powerPins[i] = Pin[Vars[i]] /\ Pin[Vars[i]] # 0
  BY LastFacts, PinFacts DEF powerPins
<1>2. \A j \in Slot : j \notin Reps => powerPins[j] = 0
  BY LastFacts DEF powerPins
<1>3. ASSUME NEW i \in Reps
      PROVE  SamePin(i) \in SUBSET Reps /\ i \in SamePin(i) /\ IsFiniteSet(SamePin(i))
  <2>1. SamePin(i) \in SUBSET Reps /\ i \in SamePin(i)
    BY <1>1, <1>2 DEF SamePin
  <2>. QED  BY <2>1, LastFacts, FS_Subset
<1>4. ASSUME NEW i \in Reps
      PROVE  /\ powerPinIndex[i] \in SamePin(i)
             /\ powerPinIndex[powerPinIndex[i]] = powerPinIndex[i]
  <2>. DEFINE m == Max(SamePin(i))
              standing == {j \in Slot : lastPinVariable[j] /\ powerPins[j] = powerPins[i]}
  <2>1. m \in SamePin(i) /\ \A j \in SamePin(i) : j <= m
    <3>1. SamePin(i) \in SUBSET (1..Len(Vars)) /\ SamePin(i) # {}
      BY <1>3, LastFacts, ArrayFacts
    <3>. QED  BY <3>1, ArrayFacts, Largest
  <2>2. m \in Reps /\ m \in 1..Len(Vars) /\ powerPins[m] = powerPins[i]
    BY <1>1, <1>3, <2>1, ArrayFacts DEF SamePin
  <2>3. m = Len(Vars) \/ powerPins[m] # powerPins[m + 1]
    <3>. SUFFICES ASSUME m # Len(Vars), powerPins[m] = powerPins[m + 1] PROVE FALSE
      OBVIOUS
    <3>. HIDE DEF m
    <3>1. m + 1 \in Slot /\ ~(m + 1 <= m)
      BY <2>2, ArrayFacts
    <3>2. m + 1 \in SamePin(i)
      BY <2>2, <3>1 DEF SamePin
    <3>. QED  BY <2>1, <3>1, <3>2
  <2>. HIDE DEF m
  <2>4. m \in standing
    BY <2>2, <2>3, ArrayFacts, LastFacts DEF lastPinVariable
  <2>5. powerPinIndex[i] = IF standing = {} THEN 1 ELSE Max(standing)
    BY <1>1 DEF powerPinIndex
  <2>6. standing \in SUBSET (1..Len(Vars)) /\ standing \in SUBSET SamePin(i)
    BY ArrayFacts DEF SamePin
  <2>7. powerPinIndex[i] \in standing
    <3>. HIDE DEF standing
    <3>. QED  BY <2>4, <2>5, <2>6, ArrayFacts, Largest
  <2>8. powerPins[powerPinIndex[i]] = powerPins[i] /\ powerPinIndex[i] \in Slot
    BY <2>7
  <2>9. powerPinIndex[powerPinIndex[i]] = powerPinIndex[i]
    BY <1>1, <2>8 DEF powerPinIndex
  <2>. QED  BY <2>6, <2>7, <2>9
<1>5. ASSUME NEW i \in Reps, NEW k \in Reps
      PROVE  /\ powerPinIndex[i] = powerPinIndex[k] <=> Pin[Vars[i]] = Pin[Vars[k]]
             /\ SamePin(i) = SamePin(k) <=> Pin[Vars[i]] = Pin[Vars[k]]
             /\ k \in SamePin(i) <=> Pin[Vars[i]] = Pin[Vars[k]]
  <2>1. Pin[Vars[i]] = Pin[Vars[k]] => powerPinIndex[i] = powerPinIndex[k]
    BY <1>1 DEF powerPinIndex
  <2>2. powerPins[powerPinIndex[i]] = powerPins[i] /\ powerPins[powerPinIndex[k]] = powerPins[k]
    BY <1>4 DEF SamePin
  <2>3. powerPinIndex[i] = powerPinIndex[k] => Pin[Vars[i]] = Pin[Vars[k]]
    BY <1>1, <2>2
  <2>4. k \in SamePin(i) <=> Pin[Vars[i]] = Pin[Vars[k]]
    BY <1>1 DEF SamePin
  <2>5. SamePin(i) = SamePin(k) <=> Pin[Vars[i]] = Pin[Vars[k]]
    BY <1>1, <1>3, <2>4 DEF SamePin
  <2>. QED  BY <2>1, <2>3, <2>4, <2>5
<1>6. ASSUME NEW i \in Reps
      PROVE  nMeasurementsOnPin[powerPinIndex[i]]
                       = UInt8(SumFunctionOnSet(nMeasurementsToAverage, SamePin(i)))
  <2>1. /\ powerPinIndex[i] \in Slot /\ powerPins[powerPinIndex[i]] = powerPins[i]
        /\ powerPinIndex[powerPinIndex[i]] = powerPinIndex[i]
    BY <1>4 DEF SamePin
  <2>. QED  BY <2>1 DEF nMeasurementsOnPin, SamePin
<1>7. ASSUME NEW i \in Reps
      PROVE  group[i] = {s \in Sensor : Pin[s] = Pin[Vars[i]]}
  <2>1. group[i] = {Vars[j] : j \in {k \in Slot : /\ lastSensorVariable[k]
                                               /\ powerPinIndex[k] = powerPinIndex[i]}}
    BY <1>1 DEF group
  <2>2. {k \in Slot : /\ lastSensorVariable[k] /\ powerPinIndex[k] = powerPinIndex[i]}
          = {k \in Reps : Pin[Vars[k]] = Pin[Vars[i]]}
    BY <1>5, LastFacts
  <2>. QED  BY <2>1, <2>2, LastFacts
<1>. QED  BY <1>1, <1>3, <1>5, <1>6, <1>7

--------------------------------------------------------------------------------
(* What the steps of a visit do to the bits.                               *)

\* wake tries a sensor that is not awake and measures nothing.
LEMMA WakeEffect ==
  ASSUME LoopInv, s_at \in Sensor, NEW answered \in BOOLEAN, WakeSensor(answered)
  PROVE  /\ \A s \in Sensor : s # s_at => sensor'[s] = sensor[s]
         /\ "awake" \notin sensor[s_at].status
         /\ "measTried" \notin sensor[s_at].status /\ "measTried" \notin sensor'[s_at].status
<1>1. sensor' = [sensor EXCEPT ![s_at] = Wake(sensor[s_at], answered)]
      /\ "wakeTried" \notin sensor[s_at].status
  BY DEF WakeSensor, CanWake
<1>2. sensor[s_at] \in Known /\ Honest(s_at, sensor[s_at], phys[s_at], pinHigh)
  BY DEF LoopInv, SensorsTyped, BitsAreTrue
<1>3. "awake" \notin sensor[s_at].status /\ "measTried" \notin sensor[s_at].status
  BY <1>1, <1>2 DEF Honest
<1>4. "measTried" \notin Wake(sensor[s_at], answered).status
  BY <1>2, <1>3 DEF Wake, Known
<1>. QED  BY <1>1, <1>3, <1>4 DEF LoopInv, SensorsTyped

\* A measurement is asked of a sensor that is awake, when none is under way.
LEMMA StartEffect ==
  ASSUME LoopInv, s_at \in Sensor, at \in Reps, Start
  PROVE  /\ \A s \in Sensor : s # s_at => sensor'[s] = sensor[s] /\ asked'[s] = asked[s]
         /\ \/ sensor' = sensor /\ asked' = asked
            \/ /\ "measTried" \notin sensor[s_at].status /\ "awake" \in sensor[s_at].status
               /\ "measTried" \in sensor'[s_at].status /\ "awake" \in sensor'[s_at].status
               /\ asked'[s_at] = asked[s_at] + 1
               /\ completed[at] < nMeasurementsToAverage[at]
<1>1. CASE UNCHANGED <<sensor, asked>>
  BY <1>1
<1>2. CASE ~UNCHANGED <<sensor, asked>>
  <2>1. PICK answered \in BOOLEAN :
          sensor' = [sensor EXCEPT ![s_at] = StartMeasurement(@, answered)]
    BY <1>2 DEF Start
  <2>2. /\ ReadyToMeasure /\ "measTried" \notin sensor[s_at].status
        /\ asked' = [asked EXCEPT ![s_at] = @ + 1]
    BY <1>2 DEF Start
  <2>3. /\ sensor[s_at] \in Known /\ phys[s_at] \in 0..4
        /\ Honest(s_at, sensor[s_at], phys[s_at], pinHigh)
    BY DEF LoopInv, SensorsTyped, BitsAreTrue
  <2>4. "awake" \in sensor[s_at].status
        /\ {"awake", "wakeTried", "measTried"} \subseteq StartMeasurement(sensor[s_at], answered).status
    BY <2>2, <2>3, StartHonest DEF ReadyToMeasure
  <2>5. sensor'[s_at] = StartMeasurement(sensor[s_at], answered)
        /\ \A s \in Sensor : s # s_at => sensor'[s] = sensor[s]
    BY <2>1 DEF LoopInv, SensorsTyped
  <2>6. asked'[s_at] = asked[s_at] + 1 /\ \A s \in Sensor : s # s_at => asked'[s] = asked[s]
    BY <2>2 DEF LoopInv, RestTyped
  <2>7. completed[at] < nMeasurementsToAverage[at]
    <3>1. CASE stage = "start"
      BY <2>4, <3>1 DEF LoopInv, CursorInv, s_at
    <3>2. CASE stage = "wake"
      BY <3>2, LastFacts, MeasurementFacts DEF Start, Unfinished, LoopInv, RestTyped
    <3>. QED  BY <3>1, <3>2 DEF Start
  <2>. QED  BY <2>2, <2>4, <2>5, <2>6, <2>7
<1>. QED  BY <1>1, <1>2

\* A result is collected from a sensor that stays awake, and counted twice: for the
\* sensor and, in completeUpdate, for its pin.
LEMMA CollectEffect ==
  ASSUME LoopInv, s_at \in Sensor, at \in Slot, Collect
  PROVE  \/ UNCHANGED <<sensor, completed, onPin>>
         \/ /\ sensor' = [sensor EXCEPT ![s_at] = AddResult(sensor[s_at])]
            /\ \A s \in Sensor : s # s_at => sensor'[s] = sensor[s]
            /\ "measTried" \in sensor[s_at].status /\ "awake" \in sensor[s_at].status
            /\ sensor'[s_at].status = sensor[s_at].status \ {"measTried", "measuring"}
            /\ completed' = [completed EXCEPT ![at] = completed[at] + 1]
            /\ onPin' = IF pc = "complete"
                          THEN [onPin EXCEPT ![powerPinIndex[at]] =
                                  UInt8(onPin[powerPinIndex[at]] + 1)]
                          ELSE onPin
<1>1. CASE UNCHANGED <<sensor, completed, onPin>>
  BY <1>1
<1>2. CASE ~UNCHANGED <<sensor, completed, onPin>>
  <2>1. /\ sensor' = [sensor EXCEPT ![s_at] = AddResult(sensor[s_at])]
        /\ completed' = [completed EXCEPT ![at] = completed[at] + 1]
        /\ onPin' = IF pc = "complete"
                          THEN [onPin EXCEPT ![powerPinIndex[at]] =
                                  UInt8(onPin[powerPinIndex[at]] + 1)]
                          ELSE onPin
    BY <1>2 DEF Collect
  <2>2. /\ sensor[s_at] \in Known /\ phys[s_at] \in 0..4
        /\ Honest(s_at, sensor[s_at], phys[s_at], pinHigh)
    BY DEF LoopInv, SensorsTyped, BitsAreTrue
  <2>3. "measTried" \in sensor[s_at].status
    BY DEF Collect, LoopInv, CursorInv, s_at
  <2>4. "awake" \in sensor[s_at].status
    BY <2>2, <2>3 DEF Honest
  <2>5. sensor'[s_at] = AddResult(sensor[s_at])
        /\ \A s \in Sensor : s # s_at => sensor'[s] = sensor[s]
    BY <2>1 DEF LoopInv, SensorsTyped
  <2>6. AddResult(sensor[s_at]).status = sensor[s_at].status \ {"measTried", "measuring"}
    BY <2>2, AddResultHonest
  <2>. QED  BY <2>1, <2>3, <2>4, <2>5, <2>6
<1>. QED  BY <1>1, <1>2

\* When a loop ends every sensor has its measurements.
LEMMA AllFinished ==
  ASSUME LoopInv, pc \in Loops, ~(done < SensorCount)
  PROVE  Finished = Reps /\ \A i \in Reps : completed[i] = nMeasurementsToAverage[i]
<1>1. Finished \in SUBSET Reps /\ done = Cardinality(Finished) /\ done \in 0..SensorCount
  BY DEF Finished, LoopInv, CountInv, RestTyped
<1>2. Finished = Reps
  BY <1>1, CountFacts, LastFacts
<1>. QED  BY <1>2 DEF Finished

\* The counts are bytes within the limits of their sensors.
LEMMA TypedCounts ==
  ASSUME LoopInv
  PROVE  /\ completed \in [Slot -> 0..255] /\ onPin \in [Slot -> 0..255]
         /\ completed \in [Slot -> Nat]
         /\ \A j \in Slot : completed[j] <= nMeasurementsToAverage[j]
<1>1. \A n \in 0..255 : n \in Nat
  OBVIOUS
<1>2. completed \in [Slot -> 0..255]
  BY DEF LoopInv, RestTyped
<1>3. completed \in [Slot -> Nat]
  BY <1>1, <1>2, Zenon
<1>. QED  BY <1>2, <1>3 DEF LoopInv, RestTyped, CountInv

--------------------------------------------------------------------------------
(* The power pins, whatever becomes of their counts.                       *)

\* The count of a HIGH pin is the byte of what its sensors have completed.
PinCounts ==
  pc = "complete" =>
    \A i \in Reps : Pin[Vars[i]] \in pinHigh =>
      onPin[powerPinIndex[i]] = UInt8(SumFunctionOnSet(completed, SamePin(i)))

\* A sensor on a HIGH pin that has begun to measure stays awake until it is through.
HeldAwake ==
  pc = "complete" =>
    \A i \in Reps : /\ Pin[Vars[i]] \in pinHigh
                    /\ 0 < completed[i] /\ completed[i] < nMeasurementsToAverage[i]
                    => "awake" \in sensor[Vars[i]].status

\* A pin is not HIGH for longer than a sensor on it has not finished.
PinsHeld ==
  /\ pc = "boot" => pinHigh = {}
  /\ pc \in {"waking", "testing", "updating"} => pinHigh = SensorPins
  /\ pc = "complete" =>
       \A i \in Reps : Pin[Vars[i]] \in pinHigh => \E j \in SamePin(i) : j \notin Finished

PowerInv == LoopInv /\ PinCounts /\ HeldAwake /\ PinsHeld

\* Nothing is counted, measured or powered at boot.
LEMMA PowerInit == Init => PowerInv
BY LoopInit DEF Init, PowerInv, PinCounts, HeldAwake, PinsHeld

\* A byte that wraps early has the same value as one that wraps at the end.
LEMMA UInt8Added ==
  ASSUME NEW n \in Nat, NEW more \in Nat
  PROVE  UInt8(UInt8(n) + more) = UInt8(n + more)
BY DEF UInt8

\* Some more measurements of one sensor, added to the count of its pin.
LEMMA CountsAdded ==
  ASSUME LoopInv, LoopInv', PinCounts, pc = "complete", at \in Reps, pinHigh' = pinHigh,
         NEW more \in Nat,
         completed' = [completed EXCEPT ![at] = completed[at] + more],
         onPin' = [onPin EXCEPT ![powerPinIndex[at]] = UInt8(onPin[powerPinIndex[at]] + more)]
  PROVE  PinCounts'
<1>. SUFFICES ASSUME NEW i \in Reps, Pin[Vars[i]] \in pinHigh
              PROVE  onPin'[powerPinIndex[i]] = UInt8(SumFunctionOnSet(completed', SamePin(i)))
  BY DEF PinCounts
<1>1. /\ i \in Slot /\ at \in Slot
      /\ SamePin(i) \in SUBSET Slot /\ IsFiniteSet(SamePin(i))
      /\ powerPinIndex[i] \in Slot /\ powerPinIndex[at] \in Slot
  BY LastFacts, PinGroups, IndexFacts
<1>2. /\ completed \in [Slot -> Nat] /\ completed[at] \in Nat /\ completed[at] + more \in Nat
      /\ onPin \in [Slot -> 0..255]
  BY <1>1, TypedCounts
<1>3. /\ at \in SamePin(i) => SumFunctionOnSet(completed', SamePin(i))
                                = SumFunctionOnSet(completed, SamePin(i)) + more
      /\ at \notin SamePin(i) => SumFunctionOnSet(completed', SamePin(i))
                                   = SumFunctionOnSet(completed, SamePin(i))
  <2>1. /\ completed' \in [Slot -> Nat] /\ completed'[at] = completed[at] + more
        /\ \A j \in Slot : j # at => completed'[j] = completed[j]
    BY <1>1, <1>2
  <2>2. SamePin(i) \subseteq Slot /\ IsFiniteSet(SamePin(i)) /\ at \in Slot
    BY <1>1
  <2>3. completed \in [Slot -> Nat]
    BY <1>2
  <2>4. ASSUME NEW h \in [Slot -> Nat], h[at] = completed[at] + more,
               \A j \in Slot : j # at => h[j] = completed[j]
        PROVE  /\ at \in SamePin(i) => SumFunctionOnSet(h, SamePin(i))
                                        = SumFunctionOnSet(completed, SamePin(i)) + more
               /\ at \notin SamePin(i) => SumFunctionOnSet(h, SamePin(i))
                                           = SumFunctionOnSet(completed, SamePin(i))
    BY <2>2, <2>3, <2>4, SumUpdate
  <2>. QED  BY <2>1, <2>4, Zenon
<1>4. onPin[powerPinIndex[i]] = UInt8(SumFunctionOnSet(completed, SamePin(i)))
  BY DEF PinCounts
<1>5. SumFunctionOnSet(completed, SamePin(i)) \in Nat
  <2>1. \A x \in SamePin(i) : completed[x] <= completed[x]
    BY <1>1, <1>2
  <2>. QED  BY <1>1, <1>2, <2>1, SumWithin
<1>6. CASE at \in SamePin(i)
  <2>1. powerPinIndex[at] = powerPinIndex[i]
    BY <1>6, PinGroups
  <2>2. onPin'[powerPinIndex[i]] = UInt8(onPin[powerPinIndex[i]] + more)
    BY <1>1, <1>2, <2>1, Zenon
  <2>. QED  BY <1>3, <1>4, <1>5, <1>6, <2>2, UInt8Added
<1>7. CASE at \notin SamePin(i)
  <2>1. powerPinIndex[at] # powerPinIndex[i]
    BY <1>7, PinGroups
  <2>2. onPin'[powerPinIndex[i]] = onPin[powerPinIndex[i]]
    BY <1>1, <1>2, <2>1, Zenon
  <2>. QED  BY <1>3, <1>4, <1>7, <2>2
<1>. QED  BY <1>6, <1>7

\* The pin of the sensor goes down at the latest when all on it have been measured.
LEMMA FinishCuts ==
  ASSUME PowerInv, FinishAsleep
  PROVE  /\ at \in Reps /\ s_at \in Sensor /\ s_at = Vars[at] /\ pc = "complete"
         /\ completed[at] = nMeasurementsToAverage[at]
         /\ pinHigh' \subseteq pinHigh
         /\ \A p \in pinHigh \ pinHigh' :
              /\ p = Pin[s_at] /\ p >= 0
              /\ onPin[powerPinIndex[at]] = nMeasurementsOnPin[powerPinIndex[at]]
         /\ Pin[s_at] \in pinHigh' =>
              \E j \in SamePin(at) : completed[j] # nMeasurementsToAverage[j]
         /\ \A s \in Sensor : \/ sensor'[s] = sensor[s]
                              \/ s = s_at /\ sensor'[s].status \subseteq sensor[s].status \cup {"power"}
                              \/ /\ Pin[s] >= 0 /\ Pin[s] = Pin[s_at] /\ Pin[s] \notin pinHigh'
                                 /\ sensor'[s].status \subseteq {"setup"}
         /\ \A s \in Sensor : Pin[s] >= 0 /\ Pin[s] = Pin[s_at] /\ Pin[s] \in pinHigh \ pinHigh'
                                => sensor'[s].status \subseteq {"setup"}
<1>. USE DEF PowerInv
<1>1. /\ at \in Reps /\ at \in Slot /\ s_at \in Sensor /\ s_at = Vars[at] /\ pc = "complete"
      /\ completed[at] = nMeasurementsToAverage[at]
  BY LastFacts DEF FinishAsleep, LoopInv, CursorInv, s_at, AllMeasured
<1>. DEFINE cut == onPin[powerPinIndex[at]] = nMeasurementsOnPin[powerPinIndex[at]]
            off == IF cut THEN group[at] ELSE {}
            pins == pinHigh \ {Pin[s] : s \in off}
            slept(answered) == [sensor EXCEPT ![s_at] = Sleep(s_at, @, answered)]
<1>2. pinHigh' = pins
  BY DEF FinishAsleep
<1>3. PICK answered \in BOOLEAN :
        sensor' = [s \in Sensor |-> IF s \in off THEN PowerDown(s, slept(answered)[s])
                                    ELSE slept(answered)[s]]
  BY DEF FinishAsleep, Answers
<1>4. group[at] = {s \in Sensor : Pin[s] = Pin[s_at]}
  BY <1>1, PinGroups
<1>5. pins = pinHigh \ (IF cut THEN {Pin[s_at]} ELSE {})
  BY <1>1, <1>4
<1>6. ASSUME Pin[s_at] \in pinHigh,
             \A j \in SamePin(at) : completed[j] = nMeasurementsToAverage[j]
      PROVE  cut
  <2>1. SumFunctionOnSet(completed, SamePin(at))
          = SumFunctionOnSet(nMeasurementsToAverage, SamePin(at))
    BY <1>1, <1>6, PinGroups, SumSame
  <2>. QED  BY <1>1, <1>6, <2>1, PinGroups DEF PinCounts
<1>7. \A p \in pinHigh : p >= 0
  BY PinFacts DEF LoopInv, SensorsTyped, SensorPins
<1>8. ASSUME NEW s \in Sensor
      PROVE  /\ \/ sensor'[s] = sensor[s]
                \/ s = s_at /\ sensor'[s].status \subseteq sensor[s].status \cup {"power"}
                \/ /\ Pin[s] >= 0 /\ Pin[s] = Pin[s_at] /\ cut
                   /\ sensor'[s].status \subseteq {"setup"}
             /\ cut /\ Pin[s] >= 0 /\ Pin[s] = Pin[s_at] => sensor'[s].status \subseteq {"setup"}
  <2>. DEFINE y == slept(answered)[s]
  <2>1. /\ sensor[s] \in Known /\ phys[s] \in 0..4
        /\ Honest(s, sensor[s], phys[s], pinHigh)
    BY DEF LoopInv, SensorsTyped, BitsAreTrue
  <2>2. /\ s # s_at => y = sensor[s]
        /\ y.status \subseteq sensor[s].status \cup {"power"}
    <3>1. CASE s = s_at
      <4>1. y = Sleep(s, sensor[s], answered)
        BY <3>1 DEF LoopInv, SensorsTyped
      <4>2. Sleep(s, sensor[s], answered).status \subseteq sensor[s].status \cup {"power"}
        BY <2>1, SleepHonest
      <4>. QED  BY <3>1, <4>1, <4>2
    <3>2. CASE s # s_at
      BY <3>2 DEF LoopInv, SensorsTyped
    <3>. QED  BY <3>1, <3>2
  <2>3. sensor'[s] = IF s \in off THEN PowerDown(s, y) ELSE y
    BY <1>3
  <2>. HIDE DEF y, cut
  <2>4. /\ Pin[s] >= 0 => PowerDown(s, y).status \subseteq {"setup"}
        /\ ~(Pin[s] >= 0) => PowerDown(s, y) = y
    BY DEF PowerDown
  <2>. QED  BY <1>4, <2>2, <2>3, <2>4
<1>9. \A p \in pinHigh \ pinHigh' : p = Pin[s_at] /\ p >= 0 /\ cut
  BY <1>2, <1>5, <1>7
<1>10. (cut => Pin[s_at] \notin pinHigh') /\ pinHigh' \subseteq pinHigh
  BY <1>2, <1>5
<1>11. Pin[s_at] \in pinHigh' => \E j \in SamePin(at) : completed[j] # nMeasurementsToAverage[j]
  BY <1>6, <1>10
<1>12. \A s \in Sensor : Pin[s] \in pinHigh \ pinHigh' => cut
  BY <1>9
<1>13. cut <=> onPin[powerPinIndex[at]] = nMeasurementsOnPin[powerPinIndex[at]]
  OBVIOUS
<1>. HIDE DEF cut, pins
<1>. QED  BY <1>1, <1>8, <1>9, <1>10, <1>11, <1>12, <1>13

\* A sensor that is being measured is not put to sleep before it is through.
LEMMA HeldAwakeStep ==
  ASSUME PowerInv, [Next]_vars, LoopInv'
  PROVE  HeldAwake'
<1>. USE DEF PowerInv
<1>. SUFFICES ASSUME pc' = "complete", NEW i \in Reps, Pin[Vars[i]] \in pinHigh',
                     0 < completed'[i], completed'[i] < nMeasurementsToAverage[i]
              PROVE  "awake" \in sensor'[Vars[i]].status
  BY DEF HeldAwake
<1>. DEFINE s == Vars[i]
<1>1. /\ LoopInv /\ i \in Slot /\ s \in Sensor /\ completed[i] \in Nat
      /\ \A j \in Reps : Vars[j] = s <=> j = i
  BY LastFacts, TypedCounts
<1>2. CASE pc = "complete" /\ pinHigh' \subseteq pinHigh /\ completed'[i] = completed[i]
           /\ sensor'[s].status = sensor[s].status
  BY <1>2 DEF HeldAwake
<1>3. CASE CompleteUpdate
  BY <1>1, <1>3 DEF CompleteUpdate
<1>4. CASE SetupSensors \/ BeginTesting \/ UpdateAllSensors \/ EndTesting \/ WakeInTurn
           \/ \E t \in Sensor : UpdateActive(t) \/ UpdateInactive(t) \/ UpdateFails(t)
  BY <1>4 DEF SetupSensors, BeginTesting, BeginLoop, UpdateAllSensors, EndTesting,
     WakeInTurn, UpdateActive, UpdateInactive, UpdateFails
<1>5. CASE PassOver \/ StillMeasuring \/ FinishAwake
  BY <1>2, <1>5 DEF PassOver, StillMeasuring, FinishAwake, counts
<1>6. CASE WakeToMeasure
  <2>1. /\ at \in Reps /\ at \in Slot /\ s_at \in Sensor /\ s_at = Vars[at] /\ pc = "complete"
        /\ pinHigh' = pinHigh /\ completed[at] < nMeasurementsToAverage[at]
        /\ completed \in [Slot -> 0..255]
    BY <1>1, <1>6, LastFacts, TypedCounts DEF WakeToMeasure, Unfinished, s_at
  <2>2. CASE i # at
    <3>1. completed'[i] = completed[i]
      BY <1>1, <1>6, <2>1, <2>2 DEF WakeToMeasure
    <3>2. sensor'[s] = sensor[s]
      BY <1>1, <1>6, <2>1, <2>2, WakeEffect DEF WakeToMeasure, NoNeedToWake
    <3>. QED  BY <1>2, <2>1, <3>1, <3>2
  <2>3. CASE i = at
    <3>1. completed'[i] = nMeasurementsToAverage[i] \/ completed'[i] = completed[i]
      BY <1>1, <1>6, <2>1, <2>3 DEF WakeToMeasure
    <3>2. nMeasurementsToAverage[i] \in Nat
      BY <1>1, MeasurementFacts
    <3>3. completed'[i] = completed[i]
      BY <3>1, <3>2
    <3>4. \/ sensor'[s] = sensor[s]
          \/ "awake" \notin sensor[s].status
      BY <1>1, <1>6, <2>1, <2>3, WakeEffect DEF WakeToMeasure, NoNeedToWake
    <3>. QED  BY <2>1, <2>3, <3>3, <3>4 DEF HeldAwake
  <2>. QED  BY <2>2, <2>3
<1>7. CASE Start
  <2>1. /\ at \in Reps /\ s_at \in Sensor /\ s_at = Vars[at]
        /\ UNCHANGED <<pc, pinHigh, completed>>
    BY <1>1, <1>7, LastFacts DEF Start, Unfinished, s_at, LoopInv, CursorInv, counts
  <2>. QED  BY <1>1, <1>2, <1>7, <2>1, StartEffect
<1>8. CASE Collect
  <2>1. /\ at \in Reps /\ at \in Slot /\ s_at \in Sensor /\ s_at = Vars[at]
        /\ UNCHANGED <<pc, pinHigh>> /\ completed \in [Slot -> 0..255]
    BY <1>1, <1>8, LastFacts, TypedCounts DEF Collect, s_at, LoopInv, CursorInv
  <2>2. CASE UNCHANGED <<sensor, completed, onPin>>
    BY <1>2, <2>1, <2>2
  <2>3. CASE ~UNCHANGED <<sensor, completed, onPin>> /\ i = at
    <3>1. /\ "awake" \in sensor[s_at].status
          /\ sensor'[s_at].status = sensor[s_at].status \ {"measTried", "measuring"}
      BY <1>1, <1>8, <2>1, <2>3, CollectEffect
    <3>. QED  BY <2>1, <2>3, <3>1
  <2>4. CASE ~UNCHANGED <<sensor, completed, onPin>> /\ i # at
    <3>1. sensor'[s] = sensor[s] /\ completed' = [completed EXCEPT ![at] = completed[at] + 1]
      BY <1>1, <1>8, <2>1, <2>4, CollectEffect
    <3>. QED  BY <1>1, <1>2, <2>1, <2>4, <3>1
  <2>. QED  BY <2>2, <2>3, <2>4
<1>9. CASE FinishAsleep
  <2>1. /\ pc = "complete" /\ completed' = completed /\ pinHigh' \subseteq pinHigh
        /\ s_at = Vars[at] /\ at \in Reps /\ completed[at] = nMeasurementsToAverage[at]
    BY <1>9, FinishCuts DEF FinishAsleep
  <2>2. i # at
    BY <1>1, <2>1
  <2>3. sensor'[s] = sensor[s]
    BY <1>1, <1>9, <2>1, <2>2, FinishCuts
  <2>. QED  BY <1>2, <2>1, <2>3
<1>10. CASE EndPass
  BY <1>2, <1>10 DEF EndPass, counts
<1>11. CASE Elapse
  <2>1. PICK t \in Sensor : WarmUpElapses(t) \/ StabilizationElapses(t) \/ MeasurementElapses(t)
    BY <1>11 DEF Elapse
  <2>2. sensor'[s].status = sensor[s].status /\ UNCHANGED <<completed, pc, pinHigh>>
    BY <1>1, <2>1, BitsElapse
       DEF LoopInv, WarmUpElapses, StabilizationElapses, MeasurementElapses, counts
  <2>. QED  BY <1>2, <2>2
<1>12. CASE UNCHANGED vars
  BY <1>2, <1>12 DEF vars, counts
<1>. QED
  BY <1>3, <1>4, <1>5, <1>6, <1>7, <1>8, <1>9, <1>10, <1>11, <1>12 DEF Next, Call, Proceed

\* Each completed measurement of a sensor is counted for its pin; of one that will
\* never measure all are, and none was before.
LEMMA PinCountsStep ==
  ASSUME PowerInv, [Next]_vars, LoopInv'
  PROVE  PinCounts'
<1>. USE DEF PowerInv
<1>1. CASE UNCHANGED <<pc, completed, onPin>> /\ pinHigh' \subseteq pinHigh
  BY <1>1 DEF PinCounts
<1>2. CASE pc' # "complete"
  BY <1>2 DEF PinCounts
<1>3. CASE CompleteUpdate
  <2>1. completed' = [i \in Slot |-> 0] /\ onPin' = [i \in Slot |-> 0]
    BY <1>3 DEF CompleteUpdate, BeginLoop
  <2>2. ASSUME NEW i \in Reps
        PROVE  onPin'[powerPinIndex[i]] = 0 /\ SumFunctionOnSet(completed', SamePin(i)) = 0
    <3>1. powerPinIndex[i] \in Slot
      BY LastFacts, IndexFacts
    <3>2. IsFiniteSet(SamePin(i)) /\ SamePin(i) \in SUBSET Slot
      BY PinGroups, LastFacts
    <3>3. \A j \in SamePin(i) : completed'[j] = 0
      BY <2>1, <3>2
    <3>. QED  BY <2>1, <3>1, <3>2, <3>3, SumOfZeros
  <2>3. UInt8(0) = 0
    BY DEF UInt8
  <2>. QED  BY <2>2, <2>3 DEF PinCounts
<1>4. CASE WakeToMeasure
  <2>1. /\ at \in Reps /\ at \in Slot /\ s_at \in Sensor /\ s_at = Vars[at] /\ pc = "complete"
        /\ completed[at] < nMeasurementsToAverage[at] /\ pc' = pc /\ pinHigh' = pinHigh
    BY <1>4, LastFacts DEF WakeToMeasure, Unfinished, s_at
  <2>2. CASE ~WillNeverMeasure(sensor'[s_at])
    BY <1>1, <1>4, <2>1, <2>2 DEF WakeToMeasure
  <2>3. CASE WillNeverMeasure(sensor'[s_at]) /\ Pin[s_at] \in pinHigh
    <3>1. "awake" \notin sensor[s_at].status
      BY <1>4, <2>1, <2>3, WakeEffect DEF WakeToMeasure, NoNeedToWake, WillNeverMeasure
    <3>2. completed[at] \in Nat /\ nMeasurementsToAverage[at] \in Nat
      BY <2>1, TypedCounts, MeasurementFacts
    <3>3. completed[at] = 0
      BY <2>1, <2>3, <3>1, <3>2 DEF HeldAwake
    <3>4. /\ completed' = [completed EXCEPT ![at] = completed[at] + nMeasurementsToAverage[at]]
          /\ onPin' = [onPin EXCEPT ![powerPinIndex[at]] =
                          UInt8(onPin[powerPinIndex[at]] + nMeasurementsToAverage[at])]
      BY <1>4, <2>3, <3>2, <3>3 DEF WakeToMeasure
    <3>. QED  BY <2>1, <3>2, <3>4, CountsAdded
  <2>4. CASE WillNeverMeasure(sensor'[s_at]) /\ Pin[s_at] \notin pinHigh
    <3>. SUFFICES ASSUME NEW i \in Reps, Pin[Vars[i]] \in pinHigh
                  PROVE  onPin'[powerPinIndex[i]] = UInt8(SumFunctionOnSet(completed', SamePin(i)))
      BY <2>1 DEF PinCounts
    <3>1. at \notin SamePin(i) /\ powerPinIndex[at] # powerPinIndex[i]
      BY <2>1, <2>4, PinGroups
    <3>2. /\ i \in Slot /\ powerPinIndex[i] \in Slot
          /\ SamePin(i) \in SUBSET Slot /\ IsFiniteSet(SamePin(i))
          /\ completed \in [Slot -> 0..255] /\ onPin \in [Slot -> 0..255]
      BY LastFacts, IndexFacts, PinGroups, TypedCounts
    <3>3. onPin'[powerPinIndex[i]] = onPin[powerPinIndex[i]]
      BY <1>4, <3>1, <3>2, Zenon DEF WakeToMeasure
    <3>4. \A x \in SamePin(i) : completed'[x] = completed[x]
      BY <1>4, <3>1, <3>2 DEF WakeToMeasure
    <3>5. SumFunctionOnSet(completed', SamePin(i)) = SumFunctionOnSet(completed, SamePin(i))
      BY <3>2, <3>4, SumSame
    <3>. QED  BY <2>1, <3>3, <3>5 DEF PinCounts
  <2>. QED  BY <2>2, <2>3, <2>4
<1>5. CASE Collect /\ pc = "complete"
  <2>1. at \in Reps /\ at \in Slot /\ s_at \in Sensor /\ pc' = pc /\ pinHigh' = pinHigh
    BY <1>5, LastFacts DEF Collect, LoopInv, CursorInv, s_at
  <2>2. CASE UNCHANGED <<sensor, completed, onPin>>
    BY <1>1, <2>1, <2>2
  <2>3. CASE ~UNCHANGED <<sensor, completed, onPin>>
    <3>1. /\ completed' = [completed EXCEPT ![at] = completed[at] + 1]
          /\ onPin' = [onPin EXCEPT ![powerPinIndex[at]] = UInt8(onPin[powerPinIndex[at]] + 1)]
      BY <1>5, <2>1, <2>3, CollectEffect
    <3>. QED  BY <1>5, <2>1, <3>1, CountsAdded
  <2>. QED  BY <2>2, <2>3
<1>6. CASE SetupSensors \/ BeginTesting \/ UpdateAllSensors \/ EndTesting
           \/ \E t \in Sensor : UpdateActive(t) \/ UpdateInactive(t) \/ UpdateFails(t)
  BY <1>2, <1>6 DEF SetupSensors, BeginTesting, BeginLoop, UpdateAllSensors, EndTesting,
     UpdateActive, UpdateInactive, UpdateFails
<1>7. CASE PassOver \/ WakeInTurn \/ Start \/ StillMeasuring \/ FinishAwake
  BY <1>1, <1>2, <1>7 DEF PassOver, WakeInTurn, Start, StillMeasuring, FinishAwake, counts
<1>8. CASE FinishAsleep
  BY <1>1, <1>8, FinishCuts DEF FinishAsleep
<1>9. CASE Collect /\ pc # "complete"
  BY <1>2, <1>9 DEF Collect
<1>10. CASE EndPass \/ Elapse
  BY <1>1, <1>2, <1>10 DEF EndPass, Elapse, WarmUpElapses, StabilizationElapses,
     MeasurementElapses, counts
<1>11. CASE UNCHANGED vars
  BY <1>1, <1>11 DEF vars, counts
<1>. QED
  BY <1>3, <1>4, <1>5, <1>6, <1>7, <1>8, <1>9, <1>10, <1>11 DEF Next, Call, Proceed

\* All pins are HIGH at the start of a loop, and completeUpdate lowers one with the
\* last sensor on it.
LEMMA PinsHeldStep ==
  ASSUME PowerInv, [Next]_vars, LoopInv'
  PROVE  PinsHeld'
<1>. USE DEF PowerInv
<1>0. /\ pc' \in {"boot", "idle", "complete", "waking", "testing", "updating"}
      /\ pinHigh \subseteq SensorPins /\ pinHigh' \subseteq SensorPins
  BY DEF LoopInv, RestTyped, SensorsTyped
<1>1. CASE UNCHANGED <<pc, pinHigh>> /\ Finished' = Finished
  BY <1>1 DEF PinsHeld
<1>2. CASE pc' = "idle"
  BY <1>2 DEF PinsHeld
<1>3. CASE pc' \in {"waking", "testing", "updating"} /\ pinHigh' = SensorPins
  BY <1>3 DEF PinsHeld
<1>4. CASE SetupSensors \/ EndTesting
           \/ \E t \in Sensor : UpdateActive(t) \/ UpdateInactive(t) \/ UpdateFails(t)
  BY <1>2, <1>4 DEF SetupSensors, EndTesting, UpdateActive, UpdateInactive, UpdateFails
<1>5. CASE CompleteUpdate
  <2>1. pc' = "complete"
    BY <1>5 DEF CompleteUpdate, BeginLoop
  <2>2. Finished' = {}
    BY <1>5, LastFacts, MeasurementFacts DEF Finished, CompleteUpdate
  <2>. QED  BY <2>1, <2>2, PinGroups DEF PinsHeld
<1>6. CASE BeginTesting
  BY <1>3, <1>6, BitsPowerUp DEF LoopInv, BeginTesting, BeginLoop
<1>7. CASE UpdateAllSensors
  BY <1>3, <1>7 DEF UpdateAllSensors, BeginLoop, PinsHeld
<1>8. CASE PassOver \/ StillMeasuring
  <2>1. at \in Slot /\ at' = at + 1 /\ stage' = "wake"
        /\ (stage = "wake" \/ completed[at] # nMeasurementsToAverage[at])
        /\ UNCHANGED <<pc, completed, pinHigh>>
    BY <1>8, LastFacts DEF PassOver, StillMeasuring, NextVariable, AllMeasured, counts,
       LoopInv, CursorInv
  <2>2. Finished' = Finished
    BY <2>1 DEF Finished
  <2>. QED  BY <1>1, <2>1, <2>2
<1>9. CASE WakeInTurn
  BY <1>3, <1>9 DEF WakeInTurn, PinsHeld
<1>10. CASE WakeToMeasure
  <2>1. /\ at \in Reps /\ at \in Slot /\ pc = "complete" /\ pc' = pc /\ pinHigh' = pinHigh
        /\ stage' = "start" /\ at' = at
        /\ completed[at] < nMeasurementsToAverage[at] /\ completed \in [Slot -> 0..255]
    BY <1>10, LastFacts, TypedCounts DEF WakeToMeasure, Unfinished
  <2>2. \A i \in Slot : i # at => completed'[i] = completed[i]
    BY <1>10, <2>1, Zenon DEF WakeToMeasure
  <2>3. at \notin Finished /\ completed' \in [Slot -> 0..255]
    <3>1. completed[at] # nMeasurementsToAverage[at]
      BY <2>1, MeasurementFacts
    <3>. QED  BY <3>1 DEF Finished, LoopInv, RestTyped
  <2>4. Finished' = Finished
    BY <2>1, <2>2, <2>3, FinishedElsewhere
  <2>. QED  BY <1>1, <2>1, <2>4
<1>11. CASE Start
  <2>1. /\ at \in Reps /\ at' = at /\ stage' # "wake" /\ UNCHANGED <<pc, completed, pinHigh>>
        /\ at \notin Finished
    BY <1>11, LastFacts, MeasurementFacts
       DEF Start, Unfinished, LoopInv, CursorInv, Finished, counts
  <2>2. completed' \in [Slot -> 0..255]
    BY DEF LoopInv, RestTyped
  <2>3. Finished' = Finished
    BY <2>1, <2>2, FinishedElsewhere
  <2>. QED  BY <1>1, <2>1, <2>3
<1>12. CASE Collect
  <2>1. /\ at \in Reps /\ at \in Slot /\ s_at \in Sensor /\ at' = at /\ stage' # "wake"
        /\ pc' = pc /\ pinHigh' = pinHigh
        /\ at \notin Finished /\ completed \in [Slot -> 0..255]
    BY <1>12, LastFacts, TypedCounts DEF Collect, LoopInv, CursorInv, Finished, s_at
  <2>2. \A i \in Slot : i # at => completed'[i] = completed[i]
    BY <1>12, <2>1, CollectEffect, Zenon
  <2>3. completed' \in [Slot -> 0..255]
    BY DEF LoopInv, RestTyped
  <2>4. Finished' = Finished
    BY <2>1, <2>2, <2>3, FinishedElsewhere
  <2>. QED  BY <1>1, <2>1, <2>4
<1>13. CASE FinishAwake
  BY <1>3, <1>13 DEF FinishAwake, PinsHeld
<1>14. CASE FinishAsleep
  <2>1. /\ at \in Reps /\ s_at = Vars[at] /\ completed' = completed /\ pc = "complete" /\ pc' = pc
        /\ pinHigh' \subseteq pinHigh
        /\ Pin[s_at] \in pinHigh' =>
             \E j \in SamePin(at) : completed[j] # nMeasurementsToAverage[j]
    BY <1>14, FinishCuts DEF FinishAsleep
  <2>2. Finished' = Finished \cup {at}
    BY <1>14, LoopFinish
  <2>3. ASSUME NEW i \in Reps, Pin[Vars[i]] \in pinHigh'
        PROVE  \E j \in SamePin(i) : j \notin Finished'
    <3>1. PICK j \in SamePin(i) : j \notin Finished
      BY <2>1, <2>3 DEF PinsHeld
    <3>2. CASE Pin[Vars[i]] # Pin[Vars[at]]
      <4>1. at \notin SamePin(i)
        BY <2>1, <3>2, PinGroups
      <4>. QED  BY <2>2, <3>1, <4>1
    <3>3. CASE Pin[Vars[i]] = Pin[Vars[at]]
      <4>1. PICK k \in SamePin(at) : completed[k] # nMeasurementsToAverage[k]
        BY <2>1, <2>3, <3>3
      <4>2. k \notin Finished'
        BY <2>1, <4>1 DEF Finished
      <4>3. SamePin(i) = SamePin(at)
        BY <2>1, <3>3, PinGroups
      <4>. QED  BY <4>1, <4>2, <4>3
    <3>. QED  BY <3>2, <3>3
  <2>. QED  BY <2>1, <2>3 DEF PinsHeld
<1>15. CASE EndPass
  <2>1. UNCHANGED <<completed, pinHigh>> /\ stage = "wake" /\ stage' = "wake"
    BY <1>15, LastFacts, ArrayFacts DEF EndPass, counts, LoopInv, CursorInv
  <2>2. CASE pc' = pc
    <3>1. Finished' = Finished
      BY <2>1 DEF Finished
    <3>. QED  BY <1>1, <2>1, <2>2, <3>1
  <2>3. CASE pc' # pc /\ pc = "complete"
    BY <1>2, <1>15, <2>3 DEF EndPass
  <2>4. CASE pc' # pc /\ pc # "complete"
    <3>1. pc' = "testing"
      BY <1>15, <2>4 DEF EndPass
    <3>2. pc \in {"waking", "updating"}
      BY <1>15, <2>4 DEF EndPass
    <3>. QED  BY <1>3, <2>1, <3>1, <3>2 DEF PinsHeld
  <2>. QED  BY <2>2, <2>3, <2>4
<1>16. CASE Elapse
  <2>1. UNCHANGED <<pc, completed, pinHigh, at, stage>>
    BY <1>16 DEF Elapse, WarmUpElapses, StabilizationElapses, MeasurementElapses, counts
  <2>. QED  BY <1>1, <2>1 DEF Finished
<1>17. CASE UNCHANGED vars
  <2>1. UNCHANGED <<pc, completed, pinHigh, at, stage>>
    BY <1>17 DEF vars, counts
  <2>. QED  BY <1>1, <2>1 DEF Finished
<1>. QED
  BY <1>4, <1>5, <1>6, <1>7, <1>8, <1>9, <1>10, <1>11, <1>12, <1>13, <1>14, <1>15, <1>16, <1>17
     DEF Next, Call, Proceed

\* The invariant of the power pins is inductive.
LEMMA PowerStep == PowerInv /\ [Next]_vars => PowerInv'
BY LoopStep, PinCountsStep, HeldAwakeStep, PinsHeldStep DEF PowerInv

\* How a step comes back to idle.
LEMMA BackToIdle ==
  ASSUME Next, pc # "idle", pc' = "idle"
  PROVE  SetupSensors \/ EndTesting
         \/ (EndPass /\ pc = "complete" /\ ~(done < SensorCount))
BY DEF Next, Call, Proceed, Elapse, CompleteUpdate, BeginTesting, UpdateAllSensors, BeginLoop,
       UpdateActive, UpdateInactive, UpdateFails, PassOver, WakeInTurn,
       WakeToMeasure, Start, Collect, StillMeasuring, FinishAwake, FinishAsleep, EndPass,
       WarmUpElapses, StabilizationElapses, MeasurementElapses

\* When the program comes back to idle all sensors have finished, or were powered down.
LEMMA IdleLeavesNoPinHigh ==
  ASSUME PowerInv, Next, pc # "idle", pc' = "idle"
  PROVE  pinHigh' = {}
<1>1. CASE SetupSensors
  BY <1>1 DEF SetupSensors, PowerInv, PinsHeld
<1>2. CASE EndTesting
  BY <1>2, BitsEndTesting DEF PowerInv, LoopInv
<1>3. CASE EndPass /\ pc = "complete" /\ ~(done < SensorCount)
  <2>1. Finished = Reps /\ pinHigh' = pinHigh
    BY <1>3, AllFinished DEF PowerInv, Loops, EndPass
  <2>2. ASSUME NEW p \in pinHigh PROVE FALSE
    <3>1. PICK s \in Sensor : Pin[s] = p
      BY DEF PowerInv, LoopInv, SensorsTyped, SensorPins
    <3>2. PICK i \in Reps : Vars[i] = s
      BY LastFacts
    <3>3. PICK j \in SamePin(i) : j \notin Finished
      BY <1>3, <3>1, <3>2 DEF PowerInv, PinsHeld
    <3>. QED  BY <2>1, <3>3, PinGroups
  <2>. QED  BY <2>1, <2>2
<1>. QED  BY <1>1, <1>2, <1>3, BackToIdle

\* completeUpdate and testingMode leave no power pin HIGH, whatever the sensors answer
\* and however many of them hang on a pin: a pin whose count wraps may be cut too
\* early, but is never left on.
THEOREM NoPinLeftOn == Spec => NothingLeftOn
<1>1. PowerInv /\ [Next]_vars => PowerInv'
  BY PowerStep
<1>2. PowerInv /\ [Next]_vars => [pc # "idle" /\ pc' = "idle" => pinHigh' = {}]_vars
  BY IdleLeavesNoPinHigh
<1>. QED  BY <1>1, <1>2, PowerInit, PTL DEF Spec, NothingLeftOn

--------------------------------------------------------------------------------
(* Power and measurements, when the counts of the pins fit their bytes.    *)

\* What has been asked of a sensor against what has been completed of it.
Tally(status, got, wanted, requests, where) ==
  /\ "measTried" \in status => where \in Loops /\ got < wanted
  /\ where = "complete" =>
       /\ "measTried" \in status => requests = got + 1
       /\ "measTried" \notin status => requests = got \/ (requests = 0 /\ got = wanted)
       /\ 0 < got /\ got < wanted => "awake" \in status

\* Of every sensor.
AskedInv ==
  \A i \in Reps : Tally(sensor[Vars[i]].status, completed[i], nMeasurementsToAverage[i],
                        asked[Vars[i]], pc)

\* A sensor has power as long as it has not been measured.
StillOn ==
  pc = "complete" =>
    \A i \in Reps : completed[i] < nMeasurementsToAverage[i] => IsOn(Vars[i])

StrongInv == PowerInv /\ OffIsForgotten /\ AskedInv /\ StillOn

\* When they fit, the count of a pin is the number expected exactly when each sensor on
\* it has all of its measurements.
LEMMA PinTotals ==
  ASSUME CountsFit, NEW f \in [Slot -> 0..255],
         \A j \in Slot : f[j] <= nMeasurementsToAverage[j],
         NEW i \in Reps, Pin[Vars[i]] >= 0
  PROVE  LET total == SumFunctionOnSet(f, SamePin(i))
         IN  /\ total \in Nat /\ UInt8(total) = total
             /\ total = nMeasurementsOnPin[powerPinIndex[i]]
                  <=> \A j \in SamePin(i) : f[j] = nMeasurementsToAverage[j]
<1>. DEFINE total == SumFunctionOnSet(f, SamePin(i))
            all == SumFunctionOnSet(nMeasurementsToAverage, SamePin(i))
<1>1. SamePin(i) \in SUBSET Slot /\ IsFiniteSet(SamePin(i))
  BY PinGroups, LastFacts
<1>2. f \in [Slot -> Nat] /\ nMeasurementsToAverage \in [Slot -> Nat]
  <2>1. \A n \in 0..255 : n \in Nat
    OBVIOUS
  <2>2. \A j \in Slot : f[j] \in Nat /\ nMeasurementsToAverage[j] \in Nat
    BY <2>1, MeasurementFacts, Zenon
  <2>3. f = [j \in Slot |-> f[j]] /\ nMeasurementsToAverage = [j \in Slot |-> nMeasurementsToAverage[j]]
    BY MeasurementFacts, Zenon
  <2>. QED  BY <2>2, <2>3
<1>3. /\ total \in Nat /\ all \in Nat /\ total <= all
      /\ total = all <=> \A j \in SamePin(i) : f[j] = nMeasurementsToAverage[j]
  BY <1>1, <1>2, SumWithin
<1>4. all <= 255
  BY PinGroups, LastFacts DEF CountsFit, SamePin
<1>5. \A n \in Nat : n <= 255 => UInt8(n) = n
  BY DEF UInt8
<1>6. UInt8(all) = all /\ UInt8(total) = total
  <2>. HIDE DEF all, total
  <2>. QED  BY <1>3, <1>4, <1>5
<1>7. nMeasurementsOnPin[powerPinIndex[i]] = all
  BY <1>6, PinGroups
<1>. QED  BY <1>3, <1>6, <1>7

\* At boot no bit is set and nothing is asked for.
LEMMA StrongInit == Init => StrongInv
<1>. SUFFICES ASSUME Init PROVE StrongInv
  OBVIOUS
<1>1. OffIsForgotten
  BY DEF Init, OffIsForgotten
<1>2. AskedInv
  BY LastFacts DEF Init, AskedInv, Tally, Loops
<1>3. StillOn
  BY DEF Init, StillOn
<1>. QED  BY <1>1, <1>2, <1>3, PowerInit DEF StrongInv, PowerInv

\* The pin of the sensor goes down when all on it have been measured, and only then.
LEMMA FinishEffect ==
  ASSUME CountsFit, StrongInv, FinishAsleep
  PROVE  /\ at \in Reps /\ s_at \in Sensor /\ s_at = Vars[at]
         /\ completed[at] = nMeasurementsToAverage[at]
         /\ \A s \in Sensor : \/ sensor'[s] = sensor[s]
                              \/ s = s_at /\ sensor'[s].status \subseteq sensor[s].status \cup {"power"}
                              \/ /\ Pin[s] >= 0 /\ Pin[s] = Pin[s_at]
                                 /\ \A j \in SamePin(at) : completed[j] = nMeasurementsToAverage[j]
                                 /\ sensor'[s].status \subseteq {"setup"}
         /\ \A p \in pinHigh \ pinHigh' :
              /\ p = Pin[s_at] /\ p >= 0
              /\ \A j \in SamePin(at) : completed[j] = nMeasurementsToAverage[j]
         /\ \A s \in Sensor : Pin[s] >= 0 /\ Pin[s] = Pin[s_at] /\ Pin[s] \in pinHigh \ pinHigh'
                                => sensor'[s].status \subseteq {"setup"}
<1>. USE DEF StrongInv
<1>1. /\ at \in Reps /\ s_at \in Sensor /\ s_at = Vars[at] /\ pc = "complete"
      /\ completed \in [Slot -> 0..255] /\ \A j \in Slot : completed[j] <= nMeasurementsToAverage[j]
  BY FinishCuts, TypedCounts DEF PowerInv
<1>2. ASSUME Pin[s_at] \in pinHigh \ pinHigh'
      PROVE  \A j \in SamePin(at) : completed[j] = nMeasurementsToAverage[j]
  <2>. DEFINE total == SumFunctionOnSet(completed, SamePin(at))
  <2>1. /\ onPin[powerPinIndex[at]] = nMeasurementsOnPin[powerPinIndex[at]]
        /\ Pin[s_at] >= 0
    BY <1>2, FinishCuts
  <2>2. onPin[powerPinIndex[at]] = UInt8(total)
    BY <1>1, <1>2 DEF PowerInv, PinCounts
  <2>3. /\ UInt8(total) = total
        /\ total = nMeasurementsOnPin[powerPinIndex[at]]
             <=> \A j \in SamePin(at) : completed[j] = nMeasurementsToAverage[j]
    BY <1>1, <2>1, PinTotals
  <2>. QED  BY <2>1, <2>2, <2>3
<1>3. ASSUME Pin[s_at] >= 0, Pin[s_at] \notin pinHigh
      PROVE  \A j \in SamePin(at) : completed[j] = nMeasurementsToAverage[j]
  <2>. TAKE j \in SamePin(at)
  <2>1. j \in Reps /\ j \in Slot /\ Pin[Vars[j]] = Pin[s_at]
    BY <1>1, PinGroups, LastFacts
  <2>2. ~(completed[j] < nMeasurementsToAverage[j])
    BY <1>1, <1>3, <2>1, PinFacts DEF StillOn, IsOn
  <2>3. completed[j] \in Nat /\ nMeasurementsToAverage[j] \in Nat
    BY <1>1, <2>1, MeasurementFacts, TypedCounts DEF PowerInv
  <2>. QED  BY <1>1, <2>1, <2>2, <2>3
<1>. QED  BY <1>1, <1>2, <1>3, FinishCuts

\* An update of one sensor lowers no pin for good and leaves no measurement under way.
LEMMA AloneEffect ==
  ASSUME StrongInv, NEW s \in Sensor, UpdateActive(s) \/ UpdateInactive(s) \/ UpdateFails(s)
  PROVE  /\ \A t \in Sensor : t # s => sensor'[t] = sensor[t]
         /\ pinHigh \subseteq pinHigh'
         /\ "measTried" \notin sensor'[s].status
         /\ Pin[s] >= 0 /\ Pin[s] \notin pinHigh' => sensor'[s].status \subseteq {"setup"}
<1>. DEFINE a == PoweredAlone(s)
<1>1. SensorsTyped /\ BitsAreTrue /\ pc = "idle"
  BY DEF StrongInv, PowerInv, LoopInv, UpdateActive, UpdateInactive, UpdateFails
<1>2. "measTried" \notin sensor[s].status
  <2>1. PICK i \in Reps : Vars[i] = s
    BY LastFacts
  <2>. QED  BY <1>1, <2>1 DEF StrongInv, PowerInv, AskedInv, Tally, Loops
<1>3. /\ a \in Known /\ "power" \in a.status /\ "measTried" \notin a.status
      /\ IsOn(s) => a.status = sensor[s].status \cup {"power"} /\ Honest(s, a, phys[s], pinHigh)
      /\ ~IsOn(s) => a.status \subseteq {"setup", "power"}
  BY <1>1, <1>2, PoweredAloneFacts
<1>4. CASE UpdateActive(s)
  <2>1. PICK answered \in BOOLEAN :
          sensor' = [sensor EXCEPT ![s] = Sleep(s, Measured(a), answered)]
    BY <1>4 DEF UpdateActive, Answers
  <2>2. pinHigh' = pinHigh /\ "wakeTried" \in a.status
    BY <1>4 DEF UpdateActive, WasActive
  <2>3. IsOn(s)
    BY <1>3, <2>2
  <2>4. phys[s] \in 0..4 /\ (IF phys[s] = 3 THEN 4 ELSE phys[s]) \in 0..4
    BY <1>1 DEF SensorsTyped
  <2>. HIDE DEF a
  <2>5. /\ Measured(a) \in Known /\ "measTried" \notin Measured(a).status
        /\ Honest(s, Measured(a), IF phys[s] = 3 THEN 4 ELSE phys[s], pinHigh)
    BY <1>3, <2>3, <2>4, MeasuredHonest
  <2>6. Sleep(s, Measured(a), answered).status \subseteq Measured(a).status \cup {"power"}
    BY <2>4, <2>5, SleepHonest
  <2>7. sensor'[s] = Sleep(s, Measured(a), answered)
        /\ \A t \in Sensor : t # s => sensor'[t] = sensor[t]
    BY <1>1, <2>1 DEF SensorsTyped
  <2>. QED  BY <2>2, <2>3, <2>5, <2>6, <2>7, PinFacts DEF IsOn
<1>5. CASE UpdateInactive(s)
  <2>. DEFINE c == Wake(PowerWaited(a), TRUE)
  <2>1. /\ pinHigh' = pinHigh
        /\ IsOn(s) => sensor' = [sensor EXCEPT ![s] = Measured(c)]
        /\ ~IsOn(s) => sensor' = [sensor EXCEPT ![s] = PowerDown(s, Measured(c))]
    BY <1>5 DEF UpdateInactive
  <2>. HIDE DEF a
  <2>2. c \in Known
    <3>1. PowerWaited(a) \in Known
      BY <1>3, PowerWaitedFacts
    <3>. QED  BY <3>1 DEF Wake, Known, Bits, Stamps
  <2>. HIDE DEF c
  <2>3. "measTried" \notin Measured(c).status
    <3>1. Stabilized(c) \in Known
      BY <2>2 DEF Stabilized, Known, Stamps
    <3>2. StartMeasurement(Stabilized(c), TRUE) \in Known
      BY <3>1 DEF StartMeasurement, Known, Bits, Stamps
    <3>. QED  BY <3>2 DEF Measured, AddResult, Known, Bits, Stamps
  <2>4. ~IsOn(s) => Pin[s] >= 0 /\ PowerDown(s, Measured(c)).status \subseteq {"setup"}
    BY PinFacts DEF PowerDown, IsOn
  <2>5. /\ \A t \in Sensor : t # s => sensor'[t] = sensor[t]
        /\ sensor'[s] = IF IsOn(s) THEN Measured(c) ELSE PowerDown(s, Measured(c))
    BY <1>1, <2>1 DEF SensorsTyped
  <2>. QED  BY <2>1, <2>3, <2>4, <2>5, PinFacts DEF IsOn
<1>6. CASE UpdateFails(s)
  <2>. DEFINE b == PowerWaited(a)
  <2>1. /\ pinHigh' = pinHigh \cup ({Pin[s]} \ {-1})
        /\ sensor' = [sensor EXCEPT ![s] = Wake(b, FALSE)]
    BY <1>6 DEF UpdateFails
  <2>. HIDE DEF a
  <2>2. b \in Known /\ "measTried" \notin b.status
    BY <1>3, PowerWaitedFacts
  <2>. HIDE DEF b
  <2>3. "measTried" \notin Wake(b, FALSE).status
    BY <2>2 DEF Wake, Known
  <2>4. sensor'[s] = Wake(b, FALSE) /\ \A t \in Sensor : t # s => sensor'[t] = sensor[t]
    BY <1>1, <2>1 DEF SensorsTyped
  <2>. QED  BY <2>1, <2>3, <2>4, PinFacts
<1>. QED  BY <1>4, <1>5, <1>6

\* No measurement is under way when testing ends.
LEMMA EndTestingEffect ==
  ASSUME StrongInv, EndTesting
  PROVE  \A s \in Sensor : "measTried" \notin sensor'[s].status
<1>1. PICK answered \in SUBSET Commanded :
        sensor' = [s \in Sensor |-> PowerDown(s, Sleep(s, sensor[s], s \in answered))]
  BY DEF EndTesting
<1>. TAKE s \in Sensor
<1>. DEFINE y == Sleep(s, sensor[s], s \in answered)
<1>2. "measTried" \notin sensor[s].status
  <2>1. PICK i \in Reps : Vars[i] = s
    BY LastFacts
  <2>. QED  BY <2>1 DEF StrongInv, PowerInv, AskedInv, Tally, Loops, EndTesting
<1>3. /\ sensor[s] \in Known /\ phys[s] \in 0..4
      /\ Honest(s, sensor[s], phys[s], pinHigh)
  BY DEF StrongInv, PowerInv, LoopInv, SensorsTyped, BitsAreTrue
<1>4. y.status \subseteq sensor[s].status \cup {"power"}
  <2>1. (s \in answered) \in BOOLEAN
    OBVIOUS
  <2>. QED  BY <1>3, <2>1, SleepHonest
<1>5. sensor'[s] = PowerDown(s, y)
  BY <1>1
<1>. HIDE DEF y
<1>. QED  BY <1>2, <1>4, <1>5 DEF PowerDown

\* A step leaves no bit set of a sensor whose pin is LOW.
LEMMA OffStep ==
  ASSUME CountsFit, StrongInv, [Next]_vars, LoopInv'
  PROVE  OffIsForgotten'
<1>. SUFFICES ASSUME NEW s \in Sensor, Pin[s] >= 0, Pin[s] \notin pinHigh'
              PROVE  sensor'[s].status \subseteq {"setup"}
  BY PinFacts DEF OffIsForgotten, IsOn
<1>1. /\ LoopInv /\ SensorsTyped /\ BitsAreTrue
      /\ \A t \in Sensor : Pin[t] >= 0 /\ Pin[t] \notin pinHigh => sensor[t].status \subseteq {"setup"}
  BY PinFacts DEF StrongInv, PowerInv, LoopInv, OffIsForgotten, IsOn
<1>2. CASE UNCHANGED <<sensor, pinHigh>>
  BY <1>1, <1>2
<1>3. CASE SetupSensors
  <2>1. sensor'[s].status \subseteq sensor[s].status \cup {"setup"} /\ pinHigh' = pinHigh
    <3>1. PICK answered \in SUBSET Sensor :
            sensor' = [t \in Sensor |->
                    IF t \in answered
                      THEN [sensor[t] EXCEPT !.status = @ \cup {"setup"}]
                      ELSE sensor[t]]
      BY <1>3 DEF SetupSensors
    <3>2. sensor[s] \in Known
      BY <1>1 DEF SensorsTyped
    <3>3. sensor'[s] = IF s \in answered
                         THEN [sensor[s] EXCEPT !.status = @ \cup {"setup"}] ELSE sensor[s]
      BY <3>1
    <3>. QED  BY <1>3, <3>2, <3>3 DEF SetupSensors, Known
  <2>. QED  BY <1>1, <2>1
<1>4. CASE CompleteUpdate \/ BeginTesting
  BY <1>1, <1>4, BitsPowerUp, PinFacts DEF CompleteUpdate, BeginTesting
<1>5. CASE UpdateAllSensors
  BY <1>2, <1>5 DEF UpdateAllSensors
<1>6. CASE EndTesting
  BY <1>1, <1>6, BitsEndTesting
<1>7. CASE \E t \in Sensor : UpdateActive(t) \/ UpdateInactive(t) \/ UpdateFails(t)
  <2>1. PICK t \in Sensor : UpdateActive(t) \/ UpdateInactive(t) \/ UpdateFails(t)
    BY <1>7
  <2>. QED  BY <1>1, <2>1, AloneEffect
<1>8. CASE PassOver \/ StillMeasuring \/ FinishAwake \/ EndPass
  BY <1>2, <1>8 DEF PassOver, StillMeasuring, FinishAwake, EndPass
<1>9. ASSUME at \in Reps, s_at = Vars[at], s_at \in Sensor, IsOn(s_at),
             \A t \in Sensor : t # s_at => sensor'[t] = sensor[t], pinHigh' = pinHigh
      PROVE  sensor'[s].status \subseteq {"setup"}
  BY <1>1, <1>9, PinFacts DEF IsOn
<1>10. CASE WakeInTurn
  <2>1. at \in Reps /\ s_at = Vars[at] /\ s_at \in Sensor /\ pinHigh = SensorPins /\ pinHigh' = pinHigh
    BY <1>10, LastFacts DEF WakeInTurn, s_at, StrongInv, PowerInv, PinsHeld
  <2>2. IsOn(s_at)
    BY <2>1, PinFacts DEF IsOn
  <2>. QED  BY <1>1, <1>9, <1>10, <2>1, <2>2, WakeEffect DEF WakeInTurn
<1>11. CASE WakeToMeasure
  <2>1. at \in Reps /\ s_at = Vars[at] /\ s_at \in Sensor /\ pinHigh' = pinHigh
        /\ completed[at] < nMeasurementsToAverage[at]
    BY <1>11, LastFacts DEF WakeToMeasure, Unfinished, s_at
  <2>2. IsOn(s_at)
    BY <1>11, <2>1 DEF WakeToMeasure, StrongInv, StillOn
  <2>. QED  BY <1>1, <1>2, <1>9, <1>11, <2>1, <2>2, WakeEffect DEF WakeToMeasure, NoNeedToWake
<1>12. ASSUME NEW t \in Sensor, "awake" \in sensor[t].status
       PROVE  IsOn(t)
  BY <1>1, <1>12, PinFacts DEF BitsAreTrue, Honest, IsOn
<1>13. CASE Start
  <2>1. at \in Reps /\ s_at = Vars[at] /\ s_at \in Sensor /\ pinHigh' = pinHigh
    BY <1>13, LastFacts DEF Start, StrongInv, LoopInv, CursorInv, Unfinished, s_at
  <2>. QED  BY <1>1, <1>2, <1>9, <1>12, <1>13, <2>1, StartEffect
<1>14. CASE Collect
  <2>1. at \in Reps /\ s_at = Vars[at] /\ s_at \in Sensor /\ pinHigh' = pinHigh /\ at \in Slot
    BY <1>14, LastFacts DEF Collect, StrongInv, LoopInv, CursorInv, s_at
  <2>. QED  BY <1>1, <1>2, <1>9, <1>12, <1>14, <2>1, CollectEffect
<1>15. CASE FinishAsleep
  <2>1. /\ \/ sensor'[s] = sensor[s]
           \/ s = s_at /\ sensor'[s].status \subseteq sensor[s].status \cup {"power"}
           \/ sensor'[s].status \subseteq {"setup"}
        /\ Pin[s] \in pinHigh => Pin[s] = Pin[s_at] /\ sensor'[s].status \subseteq {"setup"}
    BY <1>15, FinishEffect, PinFacts
  <2>2. CASE Pin[s] \in pinHigh
    BY <2>1, <2>2
  <2>3. CASE Pin[s] \notin pinHigh
    <3>1. Honest(s, sensor'[s], phys'[s], pinHigh')
      BY DEF LoopInv, BitsAreTrue
    <3>. QED  BY <1>1, <2>1, <2>3, <3>1 DEF Honest
  <2>. QED  BY <2>2, <2>3
<1>16. CASE Elapse
  <2>1. PICK t \in Sensor : WarmUpElapses(t) \/ StabilizationElapses(t) \/ MeasurementElapses(t)
    BY <1>16 DEF Elapse
  <2>2. pinHigh' = pinHigh /\ sensor'[s].status = sensor[s].status
    BY <1>1, <2>1, BitsElapse DEF WarmUpElapses, StabilizationElapses, MeasurementElapses
  <2>. QED  BY <1>1, <2>2
<1>. QED
  BY <1>2, <1>3, <1>4, <1>5, <1>6, <1>7, <1>8, <1>10, <1>11, <1>13, <1>14, <1>15, <1>16
     DEF Next, Call, Proceed, vars

\* setupSensors sets no other bit.
LEMMA SetupEffect ==
  ASSUME LoopInv, SetupSensors
  PROVE  \A s \in Sensor : sensor'[s].status \subseteq sensor[s].status \cup {"setup"}
<1>1. PICK answered \in SUBSET Sensor :
        sensor' = [t \in Sensor |->
                    IF t \in answered
                      THEN [sensor[t] EXCEPT !.status = @ \cup {"setup"}]
                      ELSE sensor[t]]
  BY DEF SetupSensors
<1>. TAKE s \in Sensor
<1>2. sensor[s] \in Known
  BY DEF LoopInv, SensorsTyped
<1>3. sensor'[s] = IF s \in answered
                     THEN [sensor[s] EXCEPT !.status = @ \cup {"setup"}] ELSE sensor[s]
  BY <1>1
<1>. QED  BY <1>2, <1>3 DEF Known

\* Every measurement completed was asked for, and a sensor that did not wake was asked
\* for none.
LEMMA AskedStep ==
  ASSUME CountsFit, StrongInv, [Next]_vars, LoopInv'
  PROVE  AskedInv'
<1>. SUFFICES ASSUME NEW i \in Reps
              PROVE  Tally(sensor'[Vars[i]].status, completed'[i], nMeasurementsToAverage[i],
                           asked'[Vars[i]], pc')
  BY DEF AskedInv
<1>. DEFINE s == Vars[i]  n == nMeasurementsToAverage[i]
<1>1. /\ LoopInv /\ i \in Slot /\ s \in Sensor /\ n > 0 /\ n \in Nat
      /\ Tally(sensor[s].status, completed[i], n, asked[s], pc)
      /\ completed[i] \in Nat /\ completed'[i] \in Nat /\ completed'[i] <= n
      /\ asked[s] \in Nat /\ asked'[s] \in Nat
  <2>1. i \in Slot /\ s \in Sensor /\ n \in 1..255
    BY LastFacts, MeasurementFacts
  <2>2. completed[i] \in 0..255 /\ completed'[i] \in 0..255 /\ completed'[i] <= n
        /\ asked[s] \in Nat /\ asked'[s] \in Nat
    BY <2>1 DEF StrongInv, PowerInv, LoopInv, RestTyped, CountInv
  <2>. QED  BY <2>1, <2>2 DEF StrongInv, PowerInv, AskedInv
<1>2. \A j \in Reps : Vars[j] = s <=> j = i
  BY LastFacts
<1>. HIDE DEF n
<1>3. /\ n > 0 /\ completed[i] \in Nat /\ asked[s] \in Nat
      /\ Honest(s, sensor'[s], phys'[s], pinHigh')
      /\ Honest(s, sensor[s], phys[s], pinHigh)
  BY <1>1 DEF LoopInv, BitsAreTrue
<1>4. CASE UNCHANGED <<sensor, completed, asked, pc>>
  BY <1>1, <1>4 DEF n
<1>5. CASE SetupSensors
  BY <1>1, <1>5, SetupEffect DEF SetupSensors, Tally, Loops
<1>6. CASE CompleteUpdate \/ BeginTesting
  <2>1. sensor'[s].status = sensor[s].status \cup {"power"} /\ pc = "idle"
    BY <1>1, <1>6, BitsPowerUp DEF LoopInv, CompleteUpdate, BeginTesting
  <2>2. "measTried" \notin sensor'[s].status
    BY <1>1, <2>1 DEF Tally, Loops
  <2>3. CASE CompleteUpdate
    <3>1. completed'[i] = 0 /\ asked'[s] = 0 /\ pc' = "complete"
      BY <1>1, <2>3 DEF CompleteUpdate, BeginLoop
    <3>. QED  BY <1>1, <2>2, <3>1 DEF Tally
  <2>4. CASE BeginTesting
    BY <2>2, <2>4 DEF BeginTesting, BeginLoop, Tally
  <2>. QED  BY <1>6, <2>3, <2>4
<1>7. CASE UpdateAllSensors
  BY <1>1, <1>7 DEF UpdateAllSensors, BeginLoop, Tally, Loops
<1>8. CASE EndTesting
  BY <1>1, <1>8, EndTestingEffect DEF EndTesting, Tally
<1>9. CASE \E t \in Sensor : UpdateActive(t) \/ UpdateInactive(t) \/ UpdateFails(t)
  <2>1. PICK t \in Sensor : UpdateActive(t) \/ UpdateInactive(t) \/ UpdateFails(t)
    BY <1>9
  <2>2. pc = "idle" /\ pc' = "idle"
    BY <2>1 DEF UpdateActive, UpdateInactive, UpdateFails
  <2>3. "measTried" \notin sensor'[s].status
    BY <1>1, <2>1, <2>2, AloneEffect DEF Tally, Loops
  <2>. QED  BY <2>2, <2>3 DEF Tally
<1>10. CASE PassOver \/ StillMeasuring \/ FinishAwake
  BY <1>4, <1>10 DEF PassOver, StillMeasuring, FinishAwake, counts
<1>11. CASE WakeInTurn
  <2>1. pc = "waking" /\ pc' = "waking" /\ s_at \in Sensor
    BY <1>11, LastFacts DEF WakeInTurn, s_at
  <2>2. "measTried" \notin sensor'[s].status
    BY <1>1, <1>11, <2>1, WakeEffect DEF WakeInTurn, Tally, Loops
  <2>. QED  BY <2>1, <2>2 DEF Tally
<1>12. CASE WakeToMeasure
  <2>1. /\ at \in Reps /\ s_at \in Sensor /\ s_at = Vars[at] /\ pc = "complete" /\ pc' = "complete"
        /\ completed[at] < nMeasurementsToAverage[at] /\ asked' = asked
        /\ at \in Slot /\ completed \in [Slot -> 0..255]
    BY <1>1, <1>12, LastFacts DEF WakeToMeasure, Unfinished, s_at, LoopInv, RestTyped
  <2>2. CASE i # at
    <3>1. completed'[i] = completed[i]
      BY <1>1, <1>12, <2>1, <2>2 DEF WakeToMeasure
    <3>2. sensor'[s] = sensor[s]
      BY <1>1, <1>2, <1>12, <2>1, <2>2, WakeEffect DEF WakeToMeasure, NoNeedToWake
    <3>. QED  BY <1>1, <2>1, <3>1, <3>2 DEF n
  <2>3. CASE i = at
    <3>1. IF WillNeverMeasure(sensor'[s]) THEN completed'[i] = n ELSE completed'[i] = completed[i]
      BY <1>1, <1>12, <2>1, <2>3 DEF WakeToMeasure, n
    <3>2. \/ sensor'[s] = sensor[s]
          \/ /\ "awake" \notin sensor[s].status /\ "measTried" \notin sensor[s].status
             /\ "measTried" \notin sensor'[s].status
      BY <1>1, <1>2, <1>12, <2>1, <2>3, WakeEffect DEF WakeToMeasure, NoNeedToWake
    <3>3. completed[i] < n /\ asked'[s] = asked[s]
      BY <2>1, <2>3 DEF n
    <3>4. CASE WillNeverMeasure(sensor'[s])
      <4>1. "awake" \notin sensor'[s].status
        BY <3>4 DEF WillNeverMeasure
      <4>2. "awake" \notin sensor[s].status /\ "measTried" \notin sensor[s].status
            /\ "measTried" \notin sensor'[s].status
        BY <1>3, <3>2, <4>1 DEF Honest
      <4>3. completed[i] = 0 /\ asked[s] = 0
        BY <1>1, <2>1, <3>3, <4>2 DEF Tally
      <4>4. completed'[i] = n /\ asked'[s] = 0 /\ pc' = "complete"
        BY <2>1, <3>1, <3>3, <3>4, <4>3
      <4>5. Tally(sensor'[s].status, n, n, 0, "complete")
        BY <1>1, <4>2 DEF Tally
      <4>. QED  BY <4>4, <4>5 DEF n
    <3>5. CASE ~WillNeverMeasure(sensor'[s])
      <4>1. completed'[i] = completed[i]
        BY <3>1, <3>5
      <4>2. CASE sensor'[s] = sensor[s]
        BY <1>1, <2>1, <3>3, <4>1, <4>2 DEF n
      <4>3. CASE sensor'[s] # sensor[s]
        <5>1. completed[i] = 0 /\ asked[s] = 0
          BY <1>1, <2>1, <3>2, <3>3, <4>3 DEF Tally
        <5>. QED  BY <2>1, <3>2, <3>3, <4>1, <4>3, <5>1 DEF Tally
      <4>. QED  BY <4>2, <4>3
    <3>. QED  BY <3>4, <3>5
  <2>. QED  BY <2>2, <2>3
<1>13. CASE Start
  <2>1. /\ at \in Reps /\ s_at \in Sensor /\ s_at = Vars[at] /\ pc' = pc /\ pc \in Loops
        /\ completed' = completed
    BY <1>1, <1>13, LastFacts DEF Start, Unfinished, s_at, LoopInv, CursorInv, Loops, counts
  <2>2. CASE i # at \/ UNCHANGED <<sensor, asked>>
    BY <1>1, <1>2, <1>13, <2>1, <2>2, StartEffect DEF n
  <2>3. CASE i = at /\ ~UNCHANGED <<sensor, asked>>
    <3>1. /\ "measTried" \notin sensor[s].status /\ "measTried" \in sensor'[s].status
          /\ "awake" \in sensor'[s].status /\ asked'[s] = asked[s] + 1
          /\ completed[i] < n
      BY <1>1, <1>13, <2>1, <2>3, StartEffect DEF n
    <3>. QED  BY <1>1, <2>1, <3>1 DEF Tally, n
  <2>. QED  BY <2>2, <2>3
<1>14. CASE Collect
  <2>1. /\ at \in Reps /\ at \in Slot /\ s_at \in Sensor /\ s_at = Vars[at] /\ pc' = pc
        /\ pc \in Loops
        /\ asked' = asked /\ completed \in [Slot -> 0..255]
    BY <1>1, <1>14, LastFacts DEF Collect, s_at, LoopInv, CursorInv, RestTyped
  <2>2. CASE i # at \/ UNCHANGED <<sensor, completed, onPin>>
    BY <1>1, <1>2, <1>14, <2>1, <2>2, CollectEffect DEF n
  <2>3. CASE i = at /\ ~UNCHANGED <<sensor, completed, onPin>>
    <3>1. /\ "measTried" \in sensor[s].status /\ "awake" \in sensor[s].status
          /\ sensor'[s].status = sensor[s].status \ {"measTried", "measuring"}
          /\ completed'[i] = completed[i] + 1
      BY <1>1, <1>14, <2>1, <2>3, CollectEffect DEF n
    <3>2. "awake" \in sensor'[s].status /\ "measTried" \notin sensor'[s].status
      BY <3>1
    <3>. QED  BY <1>1, <2>1, <3>1, <3>2 DEF Tally, n
  <2>. QED  BY <2>2, <2>3
<1>15. CASE FinishAsleep
  <2>1. /\ pc = "complete" /\ pc' = pc /\ completed' = completed /\ asked' = asked
        /\ at \in Reps /\ s_at = Vars[at]
    BY <1>15, FinishEffect DEF FinishAsleep
  <2>2. CASE sensor'[s] = sensor[s]
    BY <1>1, <2>1, <2>2 DEF n
  <2>3. CASE sensor'[s] # sensor[s]
    <3>1. completed[i] = n
      BY <1>1, <1>2, <1>15, <2>1, <2>3, FinishEffect, PinGroups DEF n
    <3>2. "measTried" \notin sensor[s].status
      BY <1>1, <3>1 DEF Tally
    <3>3. "measTried" \notin sensor'[s].status
      BY <1>1, <1>15, <2>3, <3>2, FinishEffect
    <3>. QED  BY <1>1, <2>1, <3>1, <3>2, <3>3 DEF Tally, n
  <2>. QED  BY <2>2, <2>3
<1>16. CASE EndPass
  <2>1. UNCHANGED <<sensor, completed, asked>>
    BY <1>16 DEF EndPass, counts
  <2>2. CASE pc' = pc
    BY <1>4, <2>1, <2>2
  <2>3. CASE pc' # pc
    <3>1. ~(done < SensorCount) /\ pc' \in {"idle", "testing"}
      BY <1>16, <2>3 DEF EndPass
    <3>2. pc \in Loops => completed[i] = n
      BY <1>1, <3>1, AllFinished DEF n
    <3>3. "measTried" \notin sensor[s].status
      BY <1>1, <3>2 DEF Tally
    <3>. QED  BY <2>1, <3>1, <3>3 DEF Tally
  <2>. QED  BY <2>2, <2>3
<1>17. CASE Elapse
  <2>1. PICK t \in Sensor : WarmUpElapses(t) \/ StabilizationElapses(t) \/ MeasurementElapses(t)
    BY <1>17 DEF Elapse
  <2>2. sensor'[s].status = sensor[s].status /\ UNCHANGED <<completed, asked, pc>>
    BY <1>1, <2>1, BitsElapse
       DEF LoopInv, WarmUpElapses, StabilizationElapses, MeasurementElapses, counts
  <2>. QED  BY <1>1, <2>2 DEF n
<1>. QED
  BY <1>4, <1>5, <1>6, <1>7, <1>8, <1>9, <1>10, <1>11, <1>12, <1>13, <1>14, <1>15, <1>16, <1>17
     DEF Next, Call, Proceed, vars, counts

\* A pin goes down when all sensors on it have been measured.
LEMMA StillOnStep ==
  ASSUME CountsFit, StrongInv, [Next]_vars, LoopInv'
  PROVE  StillOn'
<1>. USE DEF StrongInv
<1>. SUFFICES ASSUME pc' = "complete", NEW i \in Reps, completed'[i] < nMeasurementsToAverage[i]
              PROVE  Pin[Vars[i]] < 0 \/ Pin[Vars[i]] \in pinHigh'
  BY DEF StillOn, IsOn
<1>1. LoopInv /\ i \in Slot /\ Vars[i] \in Sensor /\ completed \in [Slot -> 0..255]
  BY LastFacts, TypedCounts DEF PowerInv
<1>2. CASE pc = "complete" /\ pinHigh \subseteq pinHigh'
           /\ (completed'[i] = completed[i] \/ completed[i] < nMeasurementsToAverage[i])
  BY <1>2 DEF StillOn, IsOn
<1>3. CASE CompleteUpdate
  BY <1>1, <1>3, BitsPowerUp, PinFacts DEF LoopInv, CompleteUpdate
<1>4. CASE SetupSensors \/ BeginTesting \/ UpdateAllSensors \/ EndTesting \/ WakeInTurn
           \/ \E t \in Sensor : UpdateActive(t) \/ UpdateInactive(t) \/ UpdateFails(t)
  BY <1>4 DEF SetupSensors, BeginTesting, BeginLoop, UpdateAllSensors, EndTesting,
     WakeInTurn, UpdateActive, UpdateInactive, UpdateFails
<1>5. CASE PassOver \/ StillMeasuring \/ FinishAwake \/ Start \/ EndPass
  BY <1>2, <1>5 DEF PassOver, StillMeasuring, FinishAwake, Start, EndPass, counts
<1>6. CASE WakeToMeasure
  <2>1. pc = "complete" /\ pinHigh' = pinHigh /\ completed[at] < nMeasurementsToAverage[at]
    BY <1>6 DEF WakeToMeasure, Unfinished
  <2>2. i # at => completed'[i] = completed[i]
    BY <1>1, <1>6, Zenon DEF WakeToMeasure
  <2>. QED  BY <1>2, <2>1, <2>2
<1>7. CASE Collect
  <2>1. /\ pc = "complete" /\ pinHigh' = pinHigh /\ at \in Slot /\ s_at \in Sensor
        /\ completed[at] < nMeasurementsToAverage[at]
    BY <1>1, <1>7, LastFacts DEF Collect, LoopInv, CursorInv, s_at
  <2>2. i # at => completed'[i] = completed[i]
    BY <1>1, <1>7, <2>1, CollectEffect, Zenon
  <2>. QED  BY <1>2, <2>1, <2>2
<1>8. CASE FinishAsleep
  <2>1. /\ at \in Reps /\ s_at = Vars[at] /\ completed' = completed /\ pc = "complete"
        /\ \A p \in pinHigh \ pinHigh' :
             /\ p = Pin[s_at]
             /\ \A j \in SamePin(at) : completed[j] = nMeasurementsToAverage[j]
    BY <1>8, FinishEffect DEF FinishAsleep
  <2>2. Pin[Vars[i]] < 0 \/ Pin[Vars[i]] \in pinHigh
    BY <2>1 DEF StillOn, IsOn
  <2>3. completed[i] # nMeasurementsToAverage[i]
    BY <1>1, <2>1, MeasurementFacts
  <2>4. Pin[Vars[i]] = Pin[Vars[at]] => i \in SamePin(at)
    BY <2>1, PinGroups
  <2>. QED  BY <2>1, <2>2, <2>3, <2>4
<1>9. CASE Elapse
  BY <1>2, <1>9 DEF Elapse, WarmUpElapses, StabilizationElapses, MeasurementElapses, counts
<1>10. CASE UNCHANGED vars
  BY <1>2, <1>10 DEF vars, counts
<1>. QED
  BY <1>3, <1>4, <1>5, <1>6, <1>7, <1>8, <1>9, <1>10 DEF Next, Call, Proceed

\* The whole invariant is inductive.
LEMMA StrongStep == CountsFit => (StrongInv /\ [Next]_vars => StrongInv')
BY PowerStep, LoopStep, OffStep, AskedStep, StillOnStep DEF StrongInv, PowerInv

\* When the measurements of a pin fit a byte, a sensor whose pin is LOW is never taken
\* for one that is awake or measuring, so that the next update wakes it.
THEOREM OffSensorsAreForgotten == ASSUME CountsFit PROVE Spec => []OffIsForgotten
<1>1. StrongInv /\ [Next]_vars => StrongInv'
  BY StrongStep
<1>2. StrongInv => OffIsForgotten
  BY DEF StrongInv, PowerInv
<1>. QED  BY <1>1, <1>2, StrongInit, PTL DEF Spec

\* A pin that goes down has no sensor with a measurement to come.
LEMMA CutAfterTheLast ==
  ASSUME CountsFit, StrongInv, [Next]_vars, LoopInv', pc = "complete",
         NEW i \in Slot, lastSensorVariable[i], Pin[Vars[i]] \in pinHigh \ pinHigh'
  PROVE  completed[i] = nMeasurementsToAverage[i]
<1>1. i \in Reps /\ Vars[i] \in Sensor /\ Pin[Vars[i]] >= 0
  BY LastFacts, PinFacts DEF StrongInv, PowerInv, LoopInv, SensorsTyped, SensorPins
<1>2. CASE UNCHANGED pinHigh
  BY <1>2
<1>3. CASE FinishAsleep
  <2>1. /\ at \in Reps /\ Pin[Vars[i]] = Pin[Vars[at]]
        /\ \A j \in SamePin(at) : completed[j] = nMeasurementsToAverage[j]
    BY <1>1, <1>3, FinishEffect, PinFacts
  <2>. QED  BY <1>1, <2>1, PinGroups
<1>. QED
  BY <1>2, <1>3
     DEF Next, Call, Proceed, Elapse, SetupSensors, CompleteUpdate, BeginTesting, UpdateAllSensors,
         EndTesting, UpdateActive, UpdateInactive, UpdateFails, PassOver, WakeInTurn,
         WakeToMeasure, Start, Collect, StillMeasuring, FinishAwake, EndPass, WarmUpElapses,
         StabilizationElapses, MeasurementElapses, vars

\* When the measurements of a pin fit a byte, completeUpdate cuts the pin only after the
\* last measurement of every sensor on it.
THEOREM PowerIsCutWhenDone == ASSUME CountsFit PROVE Spec => PowerCutWhenDone
<1>1. StrongInv /\ [Next]_vars => StrongInv'
  BY StrongStep
<1>2. StrongInv /\ [Next]_vars =>
        [pc = "complete" =>
           \A i \in Slot : /\ lastSensorVariable[i]
                           /\ Pin[Vars[i]] \in pinHigh \ pinHigh'
                           => completed[i] = nMeasurementsToAverage[i]]_vars
  BY CutAfterTheLast, LoopStep DEF StrongInv, PowerInv
<1>. QED  BY <1>1, <1>2, StrongInit, PTL DEF Spec, PowerCutWhenDone

\* A sensor with all measurements completed was asked for all or for none.
LEMMA IdleAfterAll ==
  ASSUME StrongInv, Next, pc = "complete", pc' = "idle", NEW s \in Sensor
  PROVE  asked[s] \in {0, ToAverage[s]}
<1>1. ~(done < SensorCount)
  BY BackToIdle DEF SetupSensors, EndTesting
<1>2. PICK i \in Reps : Vars[i] = s
  BY LastFacts
<1>3. completed[i] = nMeasurementsToAverage[i] /\ nMeasurementsToAverage[i] = ToAverage[s]
      /\ completed[i] \in Nat
  BY <1>1, <1>2, AllFinished, MeasurementFacts, TypedCounts, LastFacts DEF StrongInv, PowerInv, Loops
<1>4. Tally(sensor[s].status, completed[i], nMeasurementsToAverage[i], asked[s], pc)
  BY <1>2 DEF StrongInv, PowerInv, AskedInv
<1>. QED  BY <1>3, <1>4 DEF Tally

\* When the measurements of a pin fit a byte, completeUpdate asks each sensor for all of
\* its measurements, or for none at all.
THEOREM AllMeasurementsAsked == ASSUME CountsFit PROVE Spec => AskedInFull
<1>1. StrongInv /\ [Next]_vars => StrongInv'
  BY StrongStep
<1>2. StrongInv /\ [Next]_vars =>
        [pc = "complete" /\ pc' = "idle" => \A s \in Sensor : asked[s] \in {0, ToAverage[s]}]_vars
  BY IdleAfterAll
<1>. QED  BY <1>1, <1>2, StrongInit, PTL DEF Spec, AskedInFull

================================================================================
