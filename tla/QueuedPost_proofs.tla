--------------------------- MODULE QueuedPost_proofs ---------------------------
(***************************************************************************)
(* What posting a line of the queue guarantees for every number of         *)
(* variables, of values and of their characters.                           *)
(*                                                                         *)
(* The line is cut where it lies in the buffer, by functions that stop at  *)
(* the first comma or NUL they meet: first comes where those are in a line *)
(* that fits, then what the functions find, then what the lengths of the   *)
(* values add up to, and at last the steps.                                *)
(***************************************************************************)
EXTENDS QueuedPost, WellFoundedInduction, TLAPS

--------------------------------------------------------------------------------
(* Induction and recursion over the natural numbers.                       *)

\* Every set of naturals has a smallest element.
LEMMA SmallestNat ==
  ASSUME NEW B \in SUBSET Nat, B # {}
  PROVE  \E n \in B : \A m \in B : n <= m
<1>. DEFINE R == OpToRel(<, Nat)
<1>1. IsWellFoundedOn(R, Nat)
  BY NatLessThanWellFounded
<1>2. \A m, n \in Nat : <<m, n>> \in R <=> m < n
  BY DEF OpToRel
<1>. HIDE DEF R
<1>3. \E n \in B : \A m \in B : ~(<<m, n>> \in R)
  BY <1>1, WFMin, Zenon
<1>4. \E n \in B : \A m \in B : ~(m < n)
  BY <1>2, <1>3, Zenon
<1>. QED  BY <1>4

\* Whatever holds of 0, and of n + 1 if of n, holds of every number: the smallest one of
\* which it does not hold would have a predecessor.
LEMMA EveryNumber ==
  ASSUME NEW B \in SUBSET Nat, 0 \in B, \A n \in B : n + 1 \in B
  PROVE  B = Nat
<1>. SUFFICES ASSUME Nat \ B # {} PROVE FALSE
  OBVIOUS
<1>1. PICK n \in Nat \ B : \A m \in Nat \ B : n <= m
  <2>1. Nat \ B \in SUBSET Nat
    OBVIOUS
  <2>. QED  BY <2>1, SmallestNat, Zenon
<1>2. n - 1 \in Nat /\ ~(n <= n - 1) /\ (n - 1) + 1 = n
  <2>1. n # 0
    BY <1>1
  <2>. QED  BY <2>1
<1>3. n - 1 \in B
  BY <1>1, <1>2
<1>. QED  BY <1>1, <1>2, <1>3

\* One step of a recursion over m..n that starts with a: F[i] makes the value at i out of
\* the one before.
IsRun(g, m, n, a, F) ==
  g = [i \in m..n |-> IF i = m THEN a ELSE F[i][g[i - 1]]]

\* Every such recursion has a solution, and its values are where those of F are.
LEMMA RunExists ==
  ASSUME NEW S, NEW a \in S, NEW m \in Nat, NEW F \in [Nat -> [S -> S]]
  PROVE  \A n \in Nat : \E g \in [m..n -> S] : IsRun(g, m, n, a, F)
<1>. DEFINE B == {n \in Nat : \E g \in [m..n -> S] : IsRun(g, m, n, a, F)}
<1>1. 0 \in B
  <2>. DEFINE g == [i \in m..0 |-> a]
  <2>1. g \in [m..0 -> S]
    OBVIOUS
  <2>2. \A i \in m..0 : i = m
    OBVIOUS
  <2>3. IsRun(g, m, 0, a, F)
    BY <2>2 DEF IsRun
  <2>. QED  BY <2>1, <2>3
<1>2. ASSUME NEW n \in B PROVE n + 1 \in B
  <2>1. PICK g \in [m..n -> S] : IsRun(g, m, n, a, F)
    OBVIOUS
  <2>. DEFINE h == [i \in m..(n + 1) |->
                     IF i = m THEN a ELSE IF i = n + 1 THEN F[i][g[i - 1]] ELSE g[i]]
  <2>2. \A i \in m..(n + 1) : i # m => i - 1 \in m..n /\ (i # n + 1 => i \in m..n)
    OBVIOUS
  <2>3. \A i \in m..n : g[i] = IF i = m THEN a ELSE F[i][g[i - 1]]
    BY <2>1, Zenon DEF IsRun
  <2>4. h \in [m..(n + 1) -> S]
    <3>1. ASSUME NEW i \in m..(n + 1) PROVE h[i] \in S
      <4>1. CASE i = m
        BY <4>1
      <4>2. CASE i # m /\ i = n + 1
        <5>1. g[i - 1] \in S /\ i \in Nat
          BY <2>2, <4>2
        <5>2. F[i] \in [S -> S]
          BY <5>1
        <5>. QED  BY <4>2, <5>1, <5>2
      <4>3. CASE i # m /\ i # n + 1
        BY <2>2, <4>3
      <4>. QED  BY <4>1, <4>2, <4>3
    <3>. QED  BY <3>1
  <2>5. ASSUME NEW i \in m..(n + 1), i # m PROVE h[i] = F[i][h[i - 1]]
    <3>1. h[i - 1] = g[i - 1]
      <4>1. i - 1 \in m..n /\ i - 1 \in m..(n + 1) /\ i - 1 # n + 1
        BY <2>2, <2>5
      <4>2. g[m] = a \/ m \notin m..n
        BY <2>3
      <4>. QED  BY <4>1, <4>2
    <3>2. h[i] = F[i][g[i - 1]]
      <4>1. CASE i = n + 1
        BY <2>5, <4>1
      <4>2. CASE i # n + 1
        <5>1. i \in m..n
          BY <2>2, <2>5, <4>2
        <5>2. h[i] = g[i]
          BY <2>5, <4>2
        <5>. QED  BY <2>3, <2>5, <5>1, <5>2
      <4>. QED  BY <4>1, <4>2
    <3>. QED  BY <3>1, <3>2
  <2>6. m \in m..(n + 1) => h[m] = a
    OBVIOUS
  <2>7. h = [i \in m..(n + 1) |-> h[i]]
    OBVIOUS
  <2>. HIDE DEF h
  <2>8. \A i \in m..(n + 1) : h[i] = IF i = m THEN a ELSE F[i][h[i - 1]]
    BY <2>5, <2>6
  <2>9. IsRun(h, m, n + 1, a, F)
    BY <2>7, <2>8 DEF IsRun
  <2>. QED  BY <2>4, <2>9
<1>. HIDE DEF B
<1>3. B = Nat
  <2>1. B \in SUBSET Nat
    BY DEF B
  <2>. QED  BY <1>1, <1>2, <2>1, EveryNumber
<1>. QED  BY <1>3 DEF B

--------------------------------------------------------------------------------
(* What the recursive functions of the model are.                          *)

\* The concatenation of the first i sequences.
IsFlat(g, ss) == g = [i \in 1..Len(ss) |-> IF i = 1 THEN ss[i] ELSE g[i - 1] \o ss[i]]

\* The flattening of the community modules is the choice of a function that satisfies its
\* equation.
LEMMA FlatIsChosen ==
  ASSUME NEW ss
  PROVE  FlattenSeq(ss) = IF Len(ss) = 0 THEN ss ELSE (CHOOSE g : IsFlat(g, ss))[Len(ss)]
BY DEF FlattenSeq, IsFlat

\* There is one if there is at least one sequence.
LEMMA FlatExists ==
  ASSUME NEW T, NEW ss \in Seq(Seq(T)), Len(ss) # 0
  PROVE  \E g : IsFlat(g, ss) /\ FlattenSeq(ss) = g[Len(ss)]
<1>. DEFINE S == Seq(T)  n == Len(ss)
            F == [i \in Nat |-> [x \in S |-> IF i \in 1..n THEN x \o ss[i] ELSE x]]
<1>1. /\ n \in Nat /\ \A i \in 1..n : ss[i] \in S
      /\ 1 \in 1..n /\ n \in 1..n
  OBVIOUS
<1>2. F \in [Nat -> [S -> S]]
  <2>1. ASSUME NEW i \in Nat, NEW x \in S
        PROVE  (IF i \in 1..n THEN x \o ss[i] ELSE x) \in S
    <3>1. CASE i \in 1..n
      <4>1. ss[i] \in Seq(T) /\ x \in Seq(T)
        BY <1>1, <3>1
      <4>. QED  BY <4>1, <3>1
    <3>. QED  BY <3>1
  <2>. QED  BY <2>1
<1>3. PICK g \in [1..n -> S] : IsRun(g, 1, n, ss[1], F)
  <2>. HIDE DEF S, F, n
  <2>. QED  BY <1>1, <1>2, RunExists
<1>4. IsFlat(g, ss)
  <2>1. g = [i \in 1..n |-> IF i = 1 THEN ss[1] ELSE F[i][g[i - 1]]]
    BY <1>3, Zenon DEF IsRun
  <2>2. ASSUME NEW i \in 1..n, i # 1
        PROVE  F[i][g[i - 1]] = g[i - 1] \o ss[i]
    <3>1. i - 1 \in 1..n /\ i \in Nat
      BY <2>2, <1>1
    <3>2. g[i - 1] \in S
      BY <3>1
    <3>. QED  BY <3>1, <3>2
  <2>. HIDE DEF F
  <2>3. g = [i \in 1..n |-> IF i = 1 THEN ss[i] ELSE g[i - 1] \o ss[i]]
    BY <2>1, <2>2
  <2>. QED  BY <2>3, Zenon DEF IsFlat
<1>. DEFINE ch == CHOOSE h : IsFlat(h, ss)
<1>5. IsFlat(ch, ss)
  BY <1>4, Zenon
<1>6. FlattenSeq(ss) = ch[n]
  <2>. HIDE DEF F
  <2>. QED  BY FlatIsChosen
<1>. HIDE DEF ch
<1>. QED  BY <1>5, <1>6

\* The cursor is the choice of a function that satisfies its equation, in the present
\* contents of the buffer.
IsCursor(g, n) ==
  g = [i \in 1..n |->
        IF i = 1 THEN [at |-> Values, size |-> deszFind(Values) - Values, found |-> TRUE]
                 ELSE deszqNextCh(g[i - 1].at)]

\* There is one, however many variables the array has.
LEMMA CursorExists == \A n \in Nat : \E g : IsCursor(g, n)
<1>. DEFINE B == {n \in Nat : \E g : IsCursor(g, n)}
            a == [at |-> Values, size |-> deszFind(Values) - Values, found |-> TRUE]
<1>1. 0 \in B
  <2>. DEFINE g == [i \in 1..0 |-> a]
  <2>1. \A i \in 1..0 : FALSE
    OBVIOUS
  <2>2. IsCursor(g, 0)
    BY <2>1, Zenon DEF IsCursor
  <2>. QED  BY <2>2
<1>2. ASSUME NEW n \in B PROVE n + 1 \in B
  <2>1. PICK g : IsCursor(g, n)
    OBVIOUS
  <2>. DEFINE h == [i \in 1..(n + 1) |->
                     IF i = 1 THEN a ELSE IF i = n + 1 THEN deszqNextCh(g[i - 1].at) ELSE g[i]]
  <2>. HIDE DEF a
  <2>2. \A i \in 1..n : g[i] = IF i = 1 THEN a ELSE deszqNextCh(g[i - 1].at)
    BY <2>1, Zenon DEF IsCursor, a
  <2>3. ASSUME NEW i \in 1..(n + 1), i # 1
        PROVE  h[i] = deszqNextCh(h[i - 1].at)
    <3>1. i - 1 \in 1..n /\ i - 1 \in 1..(n + 1) /\ i - 1 # n + 1
      BY <2>3
    <3>2. h[i - 1] = g[i - 1]
      BY <2>2, <3>1
    <3>3. h[i] = deszqNextCh(g[i - 1].at)
      <4>1. CASE i = n + 1
        BY <2>3, <4>1
      <4>2. CASE i # n + 1
        <5>1. i \in 1..n
          BY <2>3, <4>2
        <5>2. h[i] = g[i]
          BY <2>3, <4>2
        <5>. QED  BY <5>1, <5>2, <2>2, <2>3, Zenon
      <4>. QED  BY <4>1, <4>2
    <3>. QED  BY <3>2, <3>3
  <2>4. 1 \in 1..(n + 1) => h[1] = a
    OBVIOUS
  <2>5. h = [i \in 1..(n + 1) |-> h[i]]
    OBVIOUS
  <2>. HIDE DEF h
  <2>6. \A i \in 1..(n + 1) : h[i] = IF i = 1 THEN a ELSE deszqNextCh(h[i - 1].at)
    BY <2>3, <2>4
  <2>7. h = [i \in 1..(n + 1) |-> IF i = 1 THEN a ELSE deszqNextCh(h[i - 1].at)]
    BY <2>5, <2>6, Zenon
  <2>8. IsCursor(h, n + 1)
    BY <2>7, Zenon DEF IsCursor, a
  <2>. QED  BY <2>8
<1>. HIDE DEF B
<1>3. B = Nat
  <2>1. B \in SUBSET Nat
    BY DEF B
  <2>. QED  BY <1>1, <1>2, <2>1, EveryNumber
<1>. QED  BY <1>3 DEF B

\* So the cursor satisfies its equation.
LEMMA CursorFacts ==
  /\ Cursor[1] = [at |-> Values, size |-> deszFind(Values) - Values, found |-> TRUE]
  /\ \A i \in 1..NumVars : i # 1 => Cursor[i] = deszqNextCh(Cursor[i - 1].at)
<1>1. Cursor = CHOOSE g : IsCursor(g, NumVars)
  BY DEF Cursor, IsCursor
<1>2. NumVars \in Nat /\ 1 \in 1..NumVars
  BY PostAssumption
<1>3. IsCursor(Cursor, NumVars)
  BY <1>1, <1>2, CursorExists, Zenon
<1>4. \A i \in 1..NumVars :
        Cursor[i] = IF i = 1
                      THEN [at |-> Values, size |-> deszFind(Values) - Values, found |-> TRUE]
                      ELSE deszqNextCh(Cursor[i - 1].at)
  BY <1>3, Zenon DEF IsCursor
<1>. QED  BY <1>2, <1>4, Zenon

\* The lengths of what has been printed up to each variable add up.
LEMMA BodyFacts ==
  ASSUME \A i \in 1..NumVars : Cursor[i].size \in Nat
  PROVE  /\ Body[0] = 0
         /\ \A i \in 1..NumVars :
               Body[i] = Body[i - 1] + (IF i \in Posted THEN KeySize + Cursor[i].size + 1 ELSE 0)
         /\ \A i \in 0..NumVars : Body[i] \in Nat
<1>. DEFINE f(i) == IF i \in Posted THEN KeySize + Cursor[i].size + 1 ELSE 0
            F == [i \in Nat |-> [x \in Nat |-> IF i \in 1..NumVars THEN x + f(i) ELSE x]]
            Is(g) == g = [i \in 0..NumVars |-> IF i = 0 THEN 0 ELSE g[i - 1] + f(i)]
<1>1. NumVars \in Nat /\ \A i \in 1..NumVars : i \in Nat /\ i \in 0..NumVars /\ i # 0 /\ i - 1 \in 0..NumVars
  BY PostAssumption
<1>2. \A i \in 1..NumVars : f(i) \in Nat
  BY DEF KeySize
<1>3. F \in [Nat -> [Nat -> Nat]]
  <2>. HIDE DEF f
  <2>. QED  BY <1>2
<1>4. PICK g \in [0..NumVars -> Nat] : IsRun(g, 0, NumVars, 0, F)
  <2>. HIDE DEF F
  <2>. QED  BY <1>1, <1>3, RunExists
<1>5. Is(g)
  <2>. HIDE DEF f
  <2>1. g = [i \in 0..NumVars |-> IF i = 0 THEN 0 ELSE F[i][g[i - 1]]]
    BY <1>4, Zenon DEF IsRun
  <2>2. ASSUME NEW i \in 0..NumVars, i # 0 PROVE F[i][g[i - 1]] = g[i - 1] + f(i)
    <3>1. i \in 1..NumVars /\ i \in Nat /\ i - 1 \in 0..NumVars
      BY <2>2, <1>1
    <3>2. g[i - 1] \in Nat
      BY <3>1
    <3>. QED  BY <3>1, <3>2
  <2>. HIDE DEF F
  <2>. QED  BY <2>1, <2>2
<1>6. Body = CHOOSE h : Is(h)
  BY DEF Body
<1>7. Is(Body)
  BY <1>5, <1>6, Zenon
<1>. HIDE DEF f, F
<1>8. \A i \in 0..NumVars : Body[i] = IF i = 0 THEN 0 ELSE Body[i - 1] + f(i)
  BY <1>7, Zenon
<1>9. Body[0] = 0 /\ \A i \in 1..NumVars : Body[i] = Body[i - 1] + f(i)
  <2>1. 0 \in 0..NumVars
    BY <1>1
  <2>. QED  BY <1>1, <1>8, <2>1, Zenon
<1>10. \A i \in 0..NumVars : Body[i] \in Nat
  <2>. DEFINE A == {i \in Nat : i \in 0..NumVars => Body[i] \in Nat}
  <2>1. 0 \in A
    BY <1>9
  <2>2. ASSUME NEW i \in A PROVE i + 1 \in A
    <3>1. i \in Nat /\ i + 1 \in Nat /\ (i + 1) - 1 = i
      OBVIOUS
    <3>2. ASSUME i + 1 \in 0..NumVars PROVE Body[i + 1] \in Nat
      <4>1. i \in 0..NumVars /\ i + 1 \in 1..NumVars
        BY <3>1, <3>2, <1>1
      <4>2. Body[i + 1] = Body[i] + f(i + 1)
        BY <1>9, <3>1, <4>1
      <4>3. Body[i] \in Nat /\ f(i + 1) \in Nat
        BY <1>2, <4>1
      <4>. QED  BY <4>2, <4>3
    <3>. QED  BY <3>1, <3>2
  <2>3. A \in SUBSET Nat
    OBVIOUS
  <2>. HIDE DEF A
  <2>4. A = Nat
    BY <2>1, <2>2, <2>3, EveryNumber
  <2>5. \A i \in 0..NumVars : i \in Nat
    BY <1>1
  <2>. QED  BY <2>4, <2>5 DEF A
<1>. QED  BY <1>9, <1>10 DEF f

--------------------------------------------------------------------------------
(* The string functions.                                                   *)

\* What the code takes for granted of the numbers.
LEMMA NumberFacts ==
  /\ LineMax \in Nat /\ LineMax >= 2 /\ NumVars \in Nat /\ NumVars >= 1
  /\ Beyond \in Nat /\ Beyond = LineMax + NumVars + 3
BY PostAssumption DEF Beyond

\* A cell of the set with none of it before is the first one.
LEMMA FirstIs ==
  ASSUME NEW at \in Int, NEW set, NEW m \in at..Beyond,
         At(m) \in set, \A j \in at..(m - 1) : At(j) \notin set
  PROVE  First(at, set) = m
<1>1. \A i \in at..Beyond : i # m => m \in at..(i - 1) \/ i \in at..(m - 1)
  BY NumberFacts
<1>2. \A i \in at..Beyond :
        (At(i) \in set /\ \A j \in at..(i - 1) : At(j) \notin set) => i = m
  BY <1>1
<1>. QED  BY <1>2 DEF First

\* If there is a cell of the set there is a first one.
LEMMA FirstFacts ==
  ASSUME NEW at \in Nat, NEW set, NEW e \in at..Beyond, At(e) \in set
  PROVE  First(at, set) \in at..e
<1>. DEFINE B == {i \in at..Beyond : At(i) \in set}
<1>1. B \in SUBSET Nat /\ e \in B
  BY NumberFacts
<1>2. PICK m \in B : \A i \in B : m <= i
  BY <1>1, SmallestNat
<1>3. m \in at..Beyond /\ m \in at..e /\ At(m) \in set
  BY <1>1, <1>2, NumberFacts
<1>4. \A j \in at..(m - 1) : At(j) \notin set
  BY <1>2, <1>3, NumberFacts
<1>. QED  BY <1>3, <1>4, FirstIs

\* The buffer holds a string, and behind it there are zeros.
Terminated == At(LineMax) = NUL

\* From any place in it the end of the string is found, and it is not behind the end of
\* the buffer unless the place is.
LEMMA FindFacts ==
  ASSUME Terminated, NEW at \in 1..Beyond
  PROVE  /\ deszFind(at) \in at..Beyond /\ (at <= LineMax => deszFind(at) <= LineMax)
         /\ at > LineMax => deszFind(at) = at
         /\ strlen(at) \in Nat
<1>1. \A i \in Nat : i > LineMax => At(i) = NUL
  BY NumberFacts DEF At
<1>2. CASE at <= LineMax
  <2>1. LineMax \in at..Beyond /\ at \in Nat
    BY <1>2, NumberFacts
  <2>2. First(at, {Comma, NUL}) \in at..LineMax
    BY <2>1, FirstFacts DEF Terminated
  <2>3. First(at, {NUL}) \in at..LineMax
    BY <2>1, FirstFacts DEF Terminated
  <2>. QED  BY <1>2, <2>2, <2>3, NumberFacts DEF deszFind, strlen
<1>3. CASE at > LineMax
  <2>1. at \in at..Beyond /\ at \in Nat /\ At(at) = NUL
    BY <1>1, <1>3, NumberFacts
  <2>2. First(at, {Comma, NUL}) \in at..at
    BY <2>1, FirstFacts
  <2>3. First(at, {NUL}) \in at..at
    BY <2>1, FirstFacts
  <2>. QED  BY <1>3, <2>2, <2>3, NumberFacts DEF deszFind, strlen
<1>. QED  BY <1>2, <1>3, NumberFacts

\* The cursor stays where strings can be read, and its fields have a size.
LEMMA CursorRange ==
  ASSUME Terminated
  PROVE  \A i \in 1..NumVars : /\ Cursor[i].at \in 1..(LineMax + i + 1)
                               /\ Cursor[i].size \in Nat
<1>. DEFINE A == {i \in Nat : i + 1 \in 1..NumVars =>
                    /\ Cursor[i + 1].at \in 1..(LineMax + (i + 1) + 1)
                    /\ Cursor[i + 1].size \in Nat}
<1>1. 0 \in A
  <2>1. deszFind(1) \in 1..LineMax
    BY FindFacts, NumberFacts
  <2>2. 1 + deszFind(1) \in 1..Beyond /\ 1 + deszFind(1) <= LineMax + 1
    BY <2>1, NumberFacts
  <2>3. deszFind(1 + deszFind(1)) \in 1..(LineMax + 1)
    <3>. DEFINE at == 1 + deszFind(1)
    <3>1. at \in 1..Beyond /\ at <= LineMax + 1
      BY <2>2
    <3>. HIDE DEF at
    <3>2. deszFind(at) \in 1..(LineMax + 1)
      BY <3>1, FindFacts, NumberFacts
    <3>. QED  BY <3>2 DEF at
  <2>4. Values \in 1..(LineMax + 2) /\ Values \in 1..Beyond
    BY <2>3, NumberFacts DEF Values
  <2>5. deszFind(Values) - Values \in Nat
    BY <2>4, FindFacts, NumberFacts
  <2>6. Cursor[1].at = Values /\ Cursor[1].size = deszFind(Values) - Values
    BY CursorFacts
  <2>7. 0 + 1 = 1 /\ LineMax + 1 + 1 = LineMax + 2
    BY NumberFacts
  <2>8. Cursor[0 + 1].at \in 1..(LineMax + (0 + 1) + 1) /\ Cursor[0 + 1].size \in Nat
    BY <2>4, <2>5, <2>6, <2>7
  <2>. QED  BY <2>8
<1>2. ASSUME NEW i \in A PROVE i + 1 \in A
  <2>. DEFINE n == i + 1
  <2>1. i \in Nat /\ n \in Nat /\ (n + 1) - 1 = n /\ n + 1 # 1
        /\ (n + 1 \in 1..NumVars => n \in 1..NumVars)
    BY NumberFacts
  <2>2. ASSUME n + 1 \in 1..NumVars
        PROVE  /\ Cursor[n + 1].at \in 1..(LineMax + (n + 1) + 1)
               /\ Cursor[n + 1].size \in Nat
    <3>1. Cursor[n].at \in 1..(LineMax + n + 1)
      BY <2>1, <2>2
    <3>. DEFINE at == Cursor[n].at  next == 1 + deszFind(at)
    <3>2. Cursor[n + 1] = deszqNextCh(at)
      BY <2>1, <2>2, CursorFacts
    <3>3. at \in 1..Beyond
      BY <2>1, <2>2, <3>1, NumberFacts
    <3>4. deszFind(at) \in 1..(LineMax + n + 1)
      BY <2>1, <3>1, <3>3, FindFacts, NumberFacts
    <3>5. next \in 1..(LineMax + (n + 1) + 1) /\ next \in 1..Beyond
      BY <2>1, <2>2, <3>4, NumberFacts
    <3>6. deszFind(next) - next \in Nat /\ strlen(next) \in Nat
      <4>. HIDE DEF next
      <4>. QED  BY <3>5, FindFacts, NumberFacts
    <3>7. deszqNextCh(at).at = next /\ deszqNextCh(at).size \in Nat
      BY <3>6 DEF deszqNextCh
    <3>. QED  BY <3>2, <3>5, <3>7
  <2>. QED  BY <2>1, <2>2
<1>3. A \in SUBSET Nat
  OBVIOUS
<1>. HIDE DEF A
<1>4. A = Nat
  BY <1>1, <1>2, <1>3, EveryNumber
<1>5. \A i \in 1..NumVars : i - 1 \in A /\ (i - 1) + 1 = i
  BY <1>4, NumberFacts
<1>. QED  BY <1>5 DEF A

--------------------------------------------------------------------------------
(* Where the fields of a line are.                                         *)

\* What a line consists of.
Cells == {Comma, LF} \cup {<<"line", f, j>> : f \in Int, j \in Nat}

\* The separators, the characters of values and the end of a string are all different.
LEMMA CellFacts ==
  /\ Comma \in Cells /\ LF \in Cells /\ \A f \in Int, j \in Nat : <<"line", f, j>> \in Cells
  /\ NUL \notin Cells /\ Comma # LF /\ Comma # NUL /\ LF # NUL
  /\ \A f \in Int, j \in Nat : <<"line", f, j>> # Comma
<1>1. \A f \in Int, j \in Nat : <<"line", f, j>>[1] = "line"
  OBVIOUS
<1>2. Comma[1] = "comma" /\ LF[1] = "LF" /\ NUL[1] = "NUL"
  BY DEF Comma, LF, NUL
<1>. QED  BY <1>1, <1>2 DEF Cells

\* c[f] is the place of the comma in front of value f, and that of the line feed behind
\* the last value.
Separates(c, ws, k) ==
  /\ c \in [1..(k + 1) -> Nat] /\ c[1] = 4
  /\ \A f \in 1..k : c[f + 1] = c[f] + 1 + ws[f]

\* There is such a c for every list of widths.
LEMMA SeparatorsExist ==
  ASSUME NEW k \in Nat \ {0}, NEW ws \in [1..k -> Nat \ {0}]
  PROVE  \E c : Separates(c, ws, k)
<1>. DEFINE F == [i \in Nat |-> [x \in Nat |->
                    IF i - 1 \in 1..k THEN x + 1 + ws[i - 1] ELSE x]]
<1>1. F \in [Nat -> [Nat -> Nat]]
  OBVIOUS
<1>2. PICK c \in [1..(k + 1) -> Nat] : IsRun(c, 1, k + 1, 4, F)
  <2>1. 4 \in Nat /\ 1 \in Nat /\ k + 1 \in Nat
    OBVIOUS
  <2>. HIDE DEF F
  <2>. QED  BY <1>1, <2>1, RunExists, Zenon
<1>3. c[1] = 4
  BY <1>2 DEF IsRun
<1>4. ASSUME NEW f \in 1..k PROVE c[f + 1] = c[f] + 1 + ws[f]
  <2>1. /\ f + 1 \in 1..(k + 1) /\ f + 1 # 1 /\ (f + 1) - 1 = f /\ f \in 1..(k + 1)
        /\ f + 1 \in Nat
    OBVIOUS
  <2>2. c[f + 1] = F[f + 1][c[(f + 1) - 1]]
    <3>. HIDE DEF F
    <3>. QED  BY <1>2, <2>1, Zenon DEF IsRun
  <2>3. c[f] \in Nat
    BY <2>1
  <2>. QED  BY <2>1, <2>2, <2>3
<1>. QED  BY <1>3, <1>4 DEF Separates

\* The separators lie in their order.
LEMMA SeparatorsAscend ==
  ASSUME NEW k \in Nat \ {0}, NEW ws \in [1..k -> Nat \ {0}], NEW c, Separates(c, ws, k)
  PROVE  /\ \A f, g \in 1..(k + 1) : f < g => c[f] < c[g]
         /\ \A f \in 1..(k + 1) : c[f] \in Nat /\ c[f] >= 4
<1>1. /\ c \in [1..(k + 1) -> Nat] /\ c[1] = 4
      /\ \A f \in 1..k : c[f] \in Nat /\ c[f + 1] \in Nat /\ c[f] < c[f + 1]
  <2>1. /\ c \in [1..(k + 1) -> Nat] /\ c[1] = 4
        /\ \A f \in 1..k : c[f + 1] = c[f] + 1 + ws[f]
    BY DEF Separates
  <2>2. ASSUME NEW f \in 1..k
        PROVE  c[f] \in Nat /\ c[f + 1] \in Nat /\ c[f] < c[f + 1]
    <3>1. f \in 1..(k + 1) /\ f + 1 \in 1..(k + 1) /\ ws[f] \in Nat
      OBVIOUS
    <3>2. c[f] \in Nat /\ c[f + 1] \in Nat /\ c[f + 1] = c[f] + 1 + ws[f]
      BY <2>1, <3>1
    <3>. QED  BY <3>1, <3>2
  <2>. QED  BY <2>1, <2>2
<1>. DEFINE A == {n \in Nat : \A f \in 1..(k + 1) : f + n + 1 \in 1..(k + 1) => c[f] < c[f + n + 1]}
<1>2. 0 \in A
  BY <1>1
<1>3. ASSUME NEW n \in A PROVE n + 1 \in A
  <2>1. ASSUME NEW f \in 1..(k + 1), f + (n + 1) + 1 \in 1..(k + 1)
        PROVE  c[f] < c[f + (n + 1) + 1]
    <3>. DEFINE m == f + n + 1
    <3>1. m \in 1..k /\ m \in 1..(k + 1) /\ f + (n + 1) + 1 = m + 1
      BY <2>1
    <3>2. c[f] < c[m]
      BY <3>1
    <3>. HIDE DEF m
    <3>3. c[m] < c[m + 1] /\ c[m] \in Nat /\ c[m + 1] \in Nat /\ c[f] \in Nat
      BY <1>1, <3>1
    <3>4. c[f] < c[m + 1]
      BY <3>2, <3>3
    <3>. QED  BY <3>1, <3>4, Zenon
  <2>. QED  BY <2>1
<1>4. A \in SUBSET Nat
  OBVIOUS
<1>. HIDE DEF A
<1>5. A = Nat
  BY <1>2, <1>3, <1>4, EveryNumber
<1>6. ASSUME NEW f \in 1..(k + 1), NEW g \in 1..(k + 1), f < g PROVE c[f] < c[g]
  <2>1. g - f - 1 \in A /\ f + (g - f - 1) + 1 = g
    BY <1>5, <1>6
  <2>. QED  BY <2>1 DEF A
<1>7. ASSUME NEW f \in 1..(k + 1) PROVE c[f] \in Nat /\ c[f] >= 4
  <2>1. 1 \in 1..(k + 1) /\ c[f] \in Nat /\ (f = 1 \/ 1 < f)
    BY <1>1
  <2>. QED  BY <1>1, <1>6, <2>1
<1>. QED  BY <1>6, <1>7

\* Behind a value there is the next separator, and every later one lies behind that.
LEMMA SeparatorFacts ==
  ASSUME NEW k \in Nat \ {0}, NEW ws \in [1..k -> Nat \ {0}], NEW c, Separates(c, ws, k)
  PROVE  /\ \A f \in 1..k : /\ c[f] \in Nat /\ c[f] >= 4 /\ ws[f] \in Nat /\ ws[f] >= 1
                           /\ c[f + 1] \in Nat /\ c[f + 1] = c[f] + 1 + ws[f]
         /\ \A f \in 1..k, g \in 1..(k + 1) : f < g => c[f] + 1 + ws[f] <= c[g]
<1>1. /\ \A f, g \in 1..(k + 1) : f < g => c[f] < c[g]
      /\ \A f \in 1..(k + 1) : c[f] \in Nat /\ c[f] >= 4
  BY SeparatorsAscend
<1>2. \A f \in 1..k : c[f + 1] = c[f] + 1 + ws[f]
  BY DEF Separates
<1>3. \A f \in 1..k : ws[f] \in Nat /\ ws[f] >= 1 /\ f \in 1..(k + 1) /\ f + 1 \in 1..(k + 1)
  OBVIOUS
<1>4. ASSUME NEW f \in 1..k, NEW g \in 1..(k + 1), f < g PROVE c[f + 1] <= c[g]
  <2>1. f + 1 \in 1..(k + 1) /\ (f + 1 = g \/ f + 1 < g) /\ c[f + 1] \in Nat /\ c[g] \in Nat
    BY <1>1, <1>3, <1>4
  <2>2. CASE f + 1 = g
    BY <2>1, <2>2
  <2>3. CASE f + 1 < g
    <3>1. c[f + 1] < c[g]
      BY <1>1, <2>1, <2>3, Zenon
    <3>. QED  BY <2>1, <3>1
  <2>. QED  BY <2>1, <2>2, <2>3
<1>5. \A f \in 1..k, g \in 1..(k + 1) : f < g => c[f] + 1 + ws[f] <= c[g]
  BY <1>2, <1>4, Zenon
<1>. QED  BY <1>1, <1>2, <1>3, <1>5, Zenon

\* Places of a value between the one of its comma and that of the end of the values.
LEMMA Places ==
  ASSUME NEW x \in Nat, x >= 4, NEW w \in Nat, NEW y \in Nat, x + 1 + w <= y
  PROVE  /\ x - 3 \in 1..(y - 4) /\ 3 + (x - 3) = x
         /\ \A j \in 1..w : (x - 3) + j \in 1..(y - 4) /\ 3 + ((x - 3) + j) = x + j
OBVIOUS

\* Places of a value that is put behind others that end before the place x.
LEMMA PlacesBehind ==
  ASSUME NEW x \in Nat, NEW w \in Nat, NEW n, n = x - 4
  PROVE  /\ x - 3 = n + 1 /\ 1 \in 1..(w + 1)
         /\ \A j \in 1..w : (x - 3) + j = n + (1 + j) /\ 1 + j \in 1..(w + 1)
OBVIOUS

\* A value with the comma in front of it.
LEMMA FieldFacts ==
  ASSUME NEW f \in Int, NEW w \in Nat
  PROVE  LET s == <<Comma>> \o Field(f, w)
         IN /\ s \in Seq(Cells) /\ Len(s) = w + 1 /\ s[1] = Comma
            /\ \A j \in 1..w : s[1 + j] = <<"line", f, j>>
<1>1. Field(f, w) \in Seq(Cells) /\ Len(Field(f, w)) = w
  <2>1. \A j \in 1..w : <<"line", f, j>> \in Cells
    BY CellFacts
  <2>. QED  BY <2>1 DEF Field
<1>2. \A j \in 1..w : Field(f, w)[j] = <<"line", f, j>>
  BY DEF Field
<1>. HIDE DEF Field
<1>. QED  BY <1>1, <1>2, CellFacts

\* The elements of two sequences put together.
LEMMA ConcatElements ==
  ASSUME NEW T, NEW s \in Seq(T), NEW t \in Seq(T)
  PROVE  /\ s \o t \in Seq(T) /\ Len(s \o t) = Len(s) + Len(t)
         /\ Len(s) \in Nat /\ Len(t) \in Nat
         /\ \A p \in 1..Len(s) : (s \o t)[p] = s[p]
         /\ \A p \in 1..Len(t) : (s \o t)[Len(s) + p] = t[p]
OBVIOUS

\* The same, for a sequence u that is those two put together.
LEMMA ConcatFacts ==
  ASSUME NEW T, NEW s \in Seq(T), NEW t \in Seq(T), NEW u, u = s \o t
  PROVE  /\ u \in Seq(T) /\ Len(u) = Len(s) + Len(t)
         /\ \A p \in 1..Len(s) : u[p] = s[p]
         /\ \A p \in 1..Len(t) : u[Len(s) + p] = t[p]
BY ConcatElements

\* What is known of a line with k values and the separators c.
Laid(ws, c, k) ==
  /\ Line(ws) \in Seq(Cells) /\ Len(Line(ws)) = c[k + 1]
  /\ Line(ws)[1] = <<"line", Status, 1>> /\ Line(ws)[2] = Comma
  /\ Line(ws)[3] = <<"line", Time, 1>>
  /\ \A f \in 1..k : /\ Line(ws)[c[f]] = Comma
                    /\ \A j \in 1..ws[f] : Line(ws)[c[f] + j] = <<"line", f, j>>
  /\ Line(ws)[c[k + 1]] = LF

\* What is known of its first i values put together.
Begun(s, ws, c, i) ==
  /\ s \in Seq(Cells) /\ Len(s) = c[i + 1] - 4
  /\ \A f \in 1..i : /\ s[c[f] - 3] = Comma
                    /\ \A j \in 1..ws[f] : s[(c[f] - 3) + j] = <<"line", f, j>>

\* The first value begins the line.
LEMMA BegunFirst ==
  ASSUME NEW k \in Nat \ {0}, NEW ws \in [1..k -> Nat \ {0}], NEW c, Separates(c, ws, k),
         NEW s, s = <<Comma>> \o Field(1, ws[1])
  PROVE  Begun(s, ws, c, 1)
<1>1. 1 \in 1..k /\ ws[1] \in Nat /\ c[1] = 4 /\ c[1 + 1] = 4 + 1 + ws[1]
  BY DEF Separates
<1>2. /\ s \in Seq(Cells) /\ Len(s) = ws[1] + 1 /\ s[1] = Comma
      /\ \A j \in 1..ws[1] : s[1 + j] = <<"line", 1, j>>
  <2>. DEFINE w == ws[1]  r == <<Comma>> \o Field(1, w)
  <2>1. w \in Nat /\ 1 \in Int /\ s = r
    BY <1>1
  <2>. HIDE DEF w
  <2>2. /\ r \in Seq(Cells) /\ Len(r) = w + 1 /\ r[1] = Comma
        /\ \A j \in 1..w : r[1 + j] = <<"line", 1, j>>
    BY <2>1, FieldFacts, Zenon
  <2>. HIDE DEF r
  <2>. QED  BY <2>1, <2>2 DEF w
<1>3. \A f \in 1..1 : f = 1
  OBVIOUS
<1>4. c[1] - 3 = 1 /\ c[1 + 1] - 4 = ws[1] + 1
  BY <1>1
<1>. QED  BY <1>2, <1>3, <1>4 DEF Begun

\* One more value goes on with it.
LEMMA BegunNext ==
  ASSUME NEW k \in Nat \ {0}, NEW ws \in [1..k -> Nat \ {0}], NEW c, Separates(c, ws, k),
         NEW i \in 1..k, i + 1 \in 1..k, NEW s, Begun(s, ws, c, i),
         NEW t, t = <<Comma>> \o Field(i + 1, ws[i + 1])
  PROVE  Begun(s \o t, ws, c, i + 1)
<1>. DEFINE n == i + 1  u == s \o t
<1>1. /\ n \in 1..k /\ n \in Int /\ ws[n] \in Nat /\ n \in 1..(k + 1) /\ n + 1 \in 1..(k + 1)
      /\ i < n /\ i \in 1..(k + 1)
  OBVIOUS
<1>. HIDE DEF n
<1>2. c[n + 1] = c[n] + 1 + ws[n] /\ c[n] \in Nat /\ c[n] >= 4
  BY <1>1, SeparatorsAscend DEF Separates
<1>3. /\ t \in Seq(Cells) /\ Len(t) = ws[n] + 1 /\ t[1] = Comma
      /\ \A j \in 1..ws[n] : t[1 + j] = <<"line", n, j>>
  BY <1>1, FieldFacts DEF n
<1>4. s \in Seq(Cells) /\ Len(s) = c[n] - 4
  BY DEF Begun, n
<1>5. /\ u \in Seq(Cells) /\ Len(u) = Len(s) + Len(t)
      /\ \A p \in 1..Len(s) : u[p] = s[p]
      /\ \A p \in 1..Len(t) : u[Len(s) + p] = t[p]
  <2>1. s \in Seq(Cells) /\ t \in Seq(Cells) /\ Len(s) \in Nat /\ Len(t) \in Nat /\ u = s \o t
    BY <1>3, <1>4
  <2>. HIDE DEF u
  <2>. QED  BY <2>1, ConcatFacts
<1>. HIDE DEF u
<1>6. Len(u) = c[n + 1] - 4
  <2>1. Len(s) = c[n] - 4 /\ Len(t) = ws[n] + 1 /\ Len(u) = Len(s) + Len(t)
    BY <1>3, <1>4, <1>5, Zenon
  <2>. DEFINE lu == Len(u)  ls == Len(s)  lt == Len(t)  cn == c[n]  cm == c[n + 1]  w == ws[n]
  <2>2. /\ ls = cn - 4 /\ lt = w + 1 /\ lu = ls + lt /\ cm = cn + 1 + w
        /\ cn \in Nat /\ w \in Nat
    BY <2>1, <1>1, <1>2
  <2>. HIDE DEF lu, ls, lt, cn, cm, w
  <2>3. lu = cm - 4
    BY <2>2
  <2>. QED  BY <2>3 DEF lu, cm
<1>7. ASSUME NEW f \in 1..n
      PROVE  /\ u[c[f] - 3] = Comma
             /\ \A j \in 1..ws[f] : u[(c[f] - 3) + j] = <<"line", f, j>>
  <2>1. CASE f \in 1..i
    <3>1. /\ f \in 1..k /\ f \in 1..(k + 1) /\ f + 1 \in 1..(k + 1) /\ (f + 1 = n \/ f + 1 < n)
          /\ ws[f] \in Nat
      BY <2>1 DEF n
    <3>2. c[f] \in Nat /\ c[f] >= 4 /\ c[f] + 1 + ws[f] <= c[n] /\ f < n
      <4>1. f < n
        BY <2>1 DEF n
      <4>. QED  BY <1>1, <3>1, <4>1, SeparatorFacts
    <3>4. /\ c[f] - 3 \in 1..Len(s)
          /\ \A j \in 1..ws[f] : (c[f] - 3) + j \in 1..Len(s)
      <4>. DEFINE x == c[f]  w == ws[f]  y == c[n]
      <4>1. x \in Nat /\ x >= 4 /\ w \in Nat /\ y \in Nat /\ x + 1 + w <= y
        BY <1>2, <3>1, <3>2, Zenon
      <4>. HIDE DEF x, w, y
      <4>2. x - 3 \in 1..(y - 4) /\ \A j \in 1..w : (x - 3) + j \in 1..(y - 4)
        BY <4>1, Places
      <4>3. Len(s) = y - 4
        BY <1>4 DEF y
      <4>. QED  BY <4>2, <4>3, Zenon DEF x, w
    <3>5. /\ s[c[f] - 3] = Comma
          /\ \A j \in 1..ws[f] : s[(c[f] - 3) + j] = <<"line", f, j>>
      BY <2>1 DEF Begun
    <3>. QED  BY <1>5, <3>4, <3>5
  <2>2. CASE f = n
    <3>1. /\ c[n] - 3 = Len(s) + 1 /\ 1 \in 1..Len(t)
          /\ \A j \in 1..ws[n] : (c[n] - 3) + j = Len(s) + (1 + j) /\ 1 + j \in 1..Len(t)
      <4>. DEFINE x == c[n]  w == ws[n]  m == Len(s)
      <4>1. x \in Nat /\ w \in Nat /\ m = x - 4 /\ Len(t) = w + 1
        BY <1>1, <1>2, <1>3, <1>4, Zenon
      <4>. HIDE DEF x, w, m
      <4>2. /\ x - 3 = m + 1 /\ 1 \in 1..(w + 1)
            /\ \A j \in 1..w : (x - 3) + j = m + (1 + j) /\ 1 + j \in 1..(w + 1)
        BY <4>1, PlacesBehind
      <4>. QED  BY <4>1, <4>2, Zenon DEF x, w, m
    <3>2. u[c[n] - 3] = Comma
      BY <1>3, <1>5, <3>1
    <3>3. \A j \in 1..ws[n] : u[(c[n] - 3) + j] = <<"line", n, j>>
      BY <1>3, <1>5, <3>1
    <3>. QED  BY <2>2, <3>2, <3>3
  <2>3. f \in 1..i \/ f = n
    BY DEF n
  <2>. QED  BY <2>1, <2>2, <2>3
<1>8. Begun(u, ws, c, n)
  BY <1>5, <1>6, <1>7, Zenon DEF Begun
<1>. QED  BY <1>8 DEF n, u

\* A line is laid out as its separators say.
LEMMA LineLaid ==
  ASSUME NEW k \in Nat \ {0}, NEW ws \in [1..k -> Nat \ {0}], NEW c, Separates(c, ws, k)
  PROVE  Laid(ws, c, k)
<1>. DEFINE ss == [f \in DOMAIN ws |-> <<Comma>> \o Field(f, ws[f])]
<1>1. /\ ss \in Seq(Seq(Cells)) /\ Len(ss) = k
      /\ \A f \in 1..k : ss[f] = <<Comma>> \o Field(f, ws[f])
  <2>1. ASSUME NEW f \in 1..k PROVE <<Comma>> \o Field(f, ws[f]) \in Seq(Cells)
    <3>1. f \in Int /\ ws[f] \in Nat
      OBVIOUS
    <3>. QED  BY <3>1, FieldFacts, Zenon
  <2>2. ss = [f \in 1..k |-> <<Comma>> \o Field(f, ws[f])]
    OBVIOUS
  <2>. HIDE DEF ss
  <2>. QED  BY <2>1, <2>2
<1>. HIDE DEF ss
<1>2. PICK g : IsFlat(g, ss) /\ FlattenSeq(ss) = g[k]
  BY <1>1, FlatExists
<1>3. \A i \in 1..k : g[i] = IF i = 1 THEN ss[i] ELSE g[i - 1] \o ss[i]
  BY <1>1, <1>2, Zenon DEF IsFlat
<1>. DEFINE A == {i \in Nat : i + 1 \in 1..k => Begun(g[i + 1], ws, c, i + 1)}
<1>4. 0 \in A
  <2>1. 1 \in 1..k
    OBVIOUS
  <2>2. g[1] = <<Comma>> \o Field(1, ws[1])
    BY <1>1, <1>3, <2>1, Zenon
  <2>3. Begun(g[1], ws, c, 1)
    BY <2>2, BegunFirst
  <2>4. 0 + 1 = 1
    OBVIOUS
  <2>. QED  BY <2>3, <2>4
<1>5. ASSUME NEW i \in A PROVE i + 1 \in A
  <2>. DEFINE n == i + 1
  <2>1. /\ n \in Nat /\ n + 1 # 1 /\ (n + 1) - 1 = n /\ (n + 1 \in 1..k => n \in 1..k)
    OBVIOUS
  <2>2. ASSUME n + 1 \in 1..k PROVE Begun(g[n + 1], ws, c, n + 1)
    <3>1. Begun(g[n], ws, c, n) /\ n \in 1..k
      BY <2>1, <2>2
    <3>. HIDE DEF n
    <3>2. g[n + 1] = g[n] \o ss[n + 1] /\ ss[n + 1] = <<Comma>> \o Field(n + 1, ws[n + 1])
      BY <1>1, <1>3, <2>1, <2>2, Zenon
    <3>. QED  BY <2>2, <3>1, <3>2, BegunNext
  <2>. QED  BY <2>1, <2>2
<1>6. A \in SUBSET Nat
  OBVIOUS
<1>. HIDE DEF A
<1>7. A = Nat
  BY <1>4, <1>5, <1>6, EveryNumber
<1>8. Begun(g[k], ws, c, k)
  <2>1. k - 1 \in A /\ (k - 1) + 1 = k /\ k \in 1..k
    BY <1>7
  <2>. QED  BY <2>1 DEF A
<1>. DEFINE h == Field(Status, 1) \o <<Comma>> \o Field(Time, 1)  b == g[k]
<1>9. Line(ws) = h \o b \o <<LF>>
  BY <1>2, Zenon DEF Line, ss
<1>10. /\ h \in Seq(Cells) /\ Len(h) = 3 /\ <<LF>> \in Seq(Cells) /\ Len(<<LF>>) = 1 /\ <<LF>>[1] = LF
       /\ h[1] = <<"line", Status, 1>> /\ h[2] = Comma /\ h[3] = <<"line", Time, 1>>
  <2>. DEFINE s == Field(Status, 1)  t == Field(Time, 1)
  <2>1. /\ s \in Seq(Cells) /\ Len(s) = 1 /\ s[1] = <<"line", Status, 1>>
        /\ t \in Seq(Cells) /\ Len(t) = 1 /\ t[1] = <<"line", Time, 1>>
    <3>1. <<"line", Status, 1>> \in Cells /\ <<"line", Time, 1>> \in Cells
      BY CellFacts DEF Status, Time
    <3>. QED  BY <3>1 DEF Field
  <2>2. <<Comma>> \in Seq(Cells) /\ <<LF>> \in Seq(Cells)
    BY CellFacts
  <2>. HIDE DEF s, t
  <2>. DEFINE u == s \o <<Comma>>
  <2>3. u = s \o <<Comma>> /\ Len(<<Comma>>) = 1 /\ <<Comma>>[1] = Comma
    OBVIOUS
  <2>4. h = u \o t
    BY DEF u, s, t
  <2>. HIDE DEF u, h
  <2>5. /\ u \in Seq(Cells) /\ Len(u) = 1 + 1 /\ \A p \in 1..1 : u[p] = s[p]
        /\ \A p \in 1..1 : u[1 + p] = <<Comma>>[p]
    <3>1. /\ u \in Seq(Cells) /\ Len(u) = Len(s) + Len(<<Comma>>)
          /\ \A p \in 1..Len(s) : u[p] = s[p]
          /\ \A p \in 1..Len(<<Comma>>) : u[Len(s) + p] = <<Comma>>[p]
      <4>. DEFINE r == <<Comma>>
      <4>1. s \in Seq(Cells) /\ r \in Seq(Cells) /\ u = s \o r
        BY <2>1, <2>2, <2>3
      <4>. HIDE DEF r
      <4>2. /\ u \in Seq(Cells) /\ Len(u) = Len(s) + Len(r)
            /\ \A p \in 1..Len(s) : u[p] = s[p]
            /\ \A p \in 1..Len(r) : u[Len(s) + p] = r[p]
        BY <4>1, ConcatFacts
      <4>. QED  BY <4>2 DEF r
    <3>. QED  BY <2>1, <2>3, <3>1, Zenon
  <2>6. /\ u \in Seq(Cells) /\ Len(u) = 2 /\ u[1] = s[1] /\ u[2] = Comma
    BY <2>3, <2>5
  <2>7. /\ h \in Seq(Cells) /\ Len(h) = 2 + 1 /\ \A p \in 1..2 : h[p] = u[p]
        /\ \A p \in 1..1 : h[2 + p] = t[p]
    <3>1. /\ h \in Seq(Cells) /\ Len(h) = Len(u) + Len(t)
          /\ \A p \in 1..Len(u) : h[p] = u[p]
          /\ \A p \in 1..Len(t) : h[Len(u) + p] = t[p]
      <4>1. u \in Seq(Cells) /\ t \in Seq(Cells) /\ h = u \o t
        BY <2>1, <2>4, <2>6
      <4>. QED  BY <4>1, ConcatFacts
    <3>. QED  BY <2>1, <2>6, <3>1, Zenon
  <2>8. Len(h) = 3 /\ h[1] = u[1] /\ h[2] = u[2] /\ h[3] = t[1]
    BY <2>7
  <2>9. Len(<<LF>>) = 1 /\ <<LF>>[1] = LF
    OBVIOUS
  <2>. QED  BY <2>1, <2>2, <2>6, <2>7, <2>8, <2>9, Zenon
<1>11. /\ b \in Seq(Cells) /\ Len(b) = c[k + 1] - 4
       /\ \A f \in 1..k : /\ b[c[f] - 3] = Comma
                         /\ \A j \in 1..ws[f] : b[(c[f] - 3) + j] = <<"line", f, j>>
  BY <1>8 DEF Begun
<1>. HIDE DEF h, b
<1>12. /\ Line(ws) \in Seq(Cells) /\ Len(Line(ws)) = 3 + Len(b) + 1
       /\ \A p \in 1..3 : Line(ws)[p] = h[p]
       /\ \A p \in 1..Len(b) : Line(ws)[3 + p] = b[p]
       /\ Line(ws)[3 + Len(b) + 1] = LF
  <2>. DEFINE x == h \o b
  <2>1. /\ h \in Seq(Cells) /\ b \in Seq(Cells) /\ Len(h) = 3 /\ Len(b) \in Nat
        /\ x = h \o b /\ Line(ws) = x \o <<LF>>
    BY <1>9, <1>10, <1>11
  <2>. HIDE DEF x
  <2>2. /\ x \in Seq(Cells) /\ Len(x) = 3 + Len(b)
        /\ \A p \in 1..3 : x[p] = h[p]
        /\ \A p \in 1..Len(b) : x[3 + p] = b[p]
    <3>1. /\ x \in Seq(Cells) /\ Len(x) = Len(h) + Len(b)
          /\ \A p \in 1..Len(h) : x[p] = h[p]
          /\ \A p \in 1..Len(b) : x[Len(h) + p] = b[p]
      <4>1. h \in Seq(Cells) /\ b \in Seq(Cells) /\ x = h \o b
        BY <2>1
      <4>. QED  BY <4>1, ConcatFacts
    <3>. QED  BY <2>1, <3>1, Zenon
  <2>3. /\ Line(ws) \in Seq(Cells) /\ Len(Line(ws)) = Len(x) + 1
        /\ \A p \in 1..Len(x) : Line(ws)[p] = x[p]
        /\ Line(ws)[Len(x) + 1] = LF
    <3>1. Len(x) \in Nat /\ 1 \in Nat /\ 1 \in 1..1
      BY <2>1, <2>2
    <3>2. /\ Line(ws) \in Seq(Cells) /\ Len(Line(ws)) = Len(x) + 1
          /\ \A p \in 1..Len(x) : Line(ws)[p] = x[p]
          /\ \A p \in 1..1 : Line(ws)[Len(x) + p] = <<LF>>[p]
      BY <1>10, <2>1, <2>2, <3>1, ConcatFacts
    <3>. QED  BY <1>10, <3>1, <3>2, Zenon
  <2>5. /\ \A p \in 1..3 : p \in 1..Len(x)
        /\ \A p \in 1..Len(b) : 3 + p \in 1..Len(x)
    BY <2>1, <2>2
  <2>. QED  BY <2>1, <2>2, <2>3, <2>5
<1>13. \A f \in 1..(k + 1) : c[f] \in Nat /\ c[f] >= 4
  BY SeparatorsAscend
<1>14. c[k + 1] \in Nat /\ 3 + Len(b) + 1 = c[k + 1]
  BY <1>11, <1>13
<1>15. ASSUME NEW f \in 1..k
       PROVE  /\ Line(ws)[c[f]] = Comma
              /\ \A j \in 1..ws[f] : Line(ws)[c[f] + j] = <<"line", f, j>>
  <2>1. /\ f \in 1..(k + 1) /\ f + 1 \in 1..(k + 1) /\ (f + 1 = k + 1 \/ f + 1 < k + 1)
        /\ k + 1 \in 1..(k + 1) /\ ws[f] \in Nat
    OBVIOUS
  <2>2. f < k + 1 /\ c[f] \in Nat /\ c[f] >= 4 /\ c[f] + 1 + ws[f] <= c[k + 1]
    <3>1. f < k + 1
      OBVIOUS
    <3>. QED  BY <2>1, <3>1, SeparatorFacts
  <2>3. /\ c[f] - 3 \in 1..Len(b) /\ 3 + (c[f] - 3) = c[f]
        /\ \A j \in 1..ws[f] : (c[f] - 3) + j \in 1..Len(b) /\ 3 + ((c[f] - 3) + j) = c[f] + j
    <3>. DEFINE x == c[f]  w == ws[f]  y == c[k + 1]
    <3>1. x \in Nat /\ x >= 4 /\ w \in Nat /\ y \in Nat /\ x + 1 + w <= y /\ Len(b) = y - 4
      BY <1>11, <1>14, <2>1, <2>2, Zenon
    <3>. HIDE DEF x, w, y
    <3>2. /\ x - 3 \in 1..(y - 4) /\ 3 + (x - 3) = x
          /\ \A j \in 1..w : (x - 3) + j \in 1..(y - 4) /\ 3 + ((x - 3) + j) = x + j
      BY <3>1, Places
    <3>. QED  BY <3>1, <3>2, Zenon DEF x, w
  <2>. QED  BY <1>11, <1>12, <2>3
<1>. QED  BY <1>10, <1>12, <1>14, <1>15 DEF Laid

--------------------------------------------------------------------------------
(* What the string functions find in a line.                               *)

\* The buffer holds a line of k values with the separators c, and it holds it whole.
Holds(c, ws, k) ==
  /\ Separates(c, ws, k) /\ Terminated /\ c[k + 1] < LineMax
  /\ \A p \in 1..c[k + 1] : At(p) \in Cells
  /\ At(c[k + 1] + 1) = NUL
  /\ At(1) = <<"line", Status, 1>> /\ At(2) = Comma /\ At(3) = <<"line", Time, 1>>
  /\ \A f \in 1..k : /\ At(c[f]) = Comma
                    /\ \A j \in 1..ws[f] : At(c[f] + j) = <<"line", f, j>>
  /\ At(c[k + 1]) = LF

\* A stretch of digits up to a cell at which a field ends.
LEMMA FieldEnds ==
  ASSUME NEW at \in Nat, NEW f \in Int, NEW w \in Nat, NEW m \in at..Beyond, w <= m - at,
         \A j \in 0..(w - 1) : At(at + j) = <<"line", f, 1 + j>>,
         \A j \in w..((m - at) - 1) : At(at + j) = LF,
         At(m) \in {Comma, NUL}
  PROVE  deszFind(at) = m
<1>1. ASSUME NEW i \in at..(m - 1) PROVE At(i) \notin {Comma, NUL}
  <2>1. i - at \in Nat /\ at + (i - at) = i /\ (i - at \in 0..(w - 1) \/ i - at \in w..((m - at) - 1))
    BY NumberFacts
  <2>2. CASE i - at \in 0..(w - 1)
    <3>1. At(i) = <<"line", f, 1 + (i - at)>> /\ 1 + (i - at) \in Nat
      BY <2>1, <2>2
    <3>. QED  BY <3>1, CellFacts
  <2>3. CASE i - at \in w..((m - at) - 1)
    <3>1. At(i) = LF
      BY <2>1, <2>3
    <3>. QED  BY <3>1, CellFacts
  <2>. QED  BY <2>1, <2>2, <2>3
<1>2. at \in Int
  OBVIOUS
<1>. QED  BY <1>1, <1>2, FirstIs DEF deszFind

\* Each value but the last ends at a comma, the last one at the end of the string.
LEMMA FindInLine ==
  ASSUME NEW k \in Nat \ {0}, NEW ws \in [1..k -> Nat \ {0}], NEW c, Holds(c, ws, k)
  PROVE  /\ deszFind(1) = 2 /\ deszFind(3) = 4
         /\ \A f \in 1..k :
              /\ f < k => deszFind(c[f] + 1) = c[f + 1]
              /\ f = k => deszFind(c[f] + 1) = c[k + 1] + 1
              /\ HasComma(c[f] + 1) <=> f < k
              /\ strlen(c[f] + 1) = c[k + 1] - c[f]
<1>1. Separates(c, ws, k)
  BY DEF Holds
<1>2. c[k + 1] \in Nat /\ c[k + 1] + 1 <= LineMax /\ c[1] = 4 /\ c[k + 1] >= 6
  <2>1. 1 \in 1..k /\ 1 < k + 1 /\ k + 1 \in 1..(k + 1)
    OBVIOUS
  <2>2. c[k + 1] \in Nat /\ c[1] + 1 + ws[1] <= c[k + 1] /\ ws[1] >= 1 /\ ws[1] \in Nat
    BY <1>1, <2>1, SeparatorFacts, SeparatorsAscend
  <2>3. c[1] = 4
    BY <1>1 DEF Separates
  <2>4. c[k + 1] < LineMax
    BY DEF Holds
  <2>. QED  BY <2>2, <2>3, <2>4, NumberFacts
<1>3. deszFind(1) = 2
  <2>1. 2 \in 1..Beyond /\ At(2) \in {Comma, NUL}
    BY NumberFacts DEF Holds
  <2>2. \A j \in 1..(2 - 1) : At(j) \notin {Comma, NUL}
    <3>1. At(1) = <<"line", Status, 1>> /\ Status \in Int
      BY DEF Holds, Status
    <3>2. At(1) \notin {Comma, NUL}
      BY <3>1, CellFacts
    <3>. QED  BY <3>2
  <2>. QED  BY <2>1, <2>2, FirstIs DEF deszFind
<1>4. deszFind(3) = 4
  <2>1. 4 \in 3..Beyond /\ At(4) \in {Comma, NUL}
    <3>1. 1 \in 1..k
      OBVIOUS
    <3>2. At(c[1]) = Comma
      BY <3>1 DEF Holds
    <3>. QED  BY <1>2, <3>2, NumberFacts
  <2>2. \A j \in 3..(4 - 1) : At(j) \notin {Comma, NUL}
    <3>1. At(3) = <<"line", Time, 1>> /\ Time \in Int
      BY DEF Holds, Time
    <3>2. At(3) \notin {Comma, NUL}
      BY <3>1, CellFacts
    <3>. QED  BY <3>2
  <2>3. 3 \in Int
    OBVIOUS
  <2>. QED  BY <2>1, <2>2, <2>3, FirstIs, Zenon DEF deszFind
<1>5. ASSUME NEW f \in 1..k
      PROVE  /\ f < k => deszFind(c[f] + 1) = c[f + 1]
             /\ f = k => deszFind(c[f] + 1) = c[k + 1] + 1
             /\ HasComma(c[f] + 1) <=> f < k
             /\ strlen(c[f] + 1) = c[k + 1] - c[f]
  <2>. DEFINE x == c[f]  w == ws[f]  y == c[f + 1]  e == c[k + 1]  at == x + 1
  <2>1. x \in Nat /\ w \in Nat /\ w >= 1 /\ y \in Nat /\ y = x + 1 + w /\ x >= 4
    BY <1>1, SeparatorFacts
  <2>2. e \in Nat /\ e + 1 <= LineMax /\ y <= e /\ (f = k => y = e)
    <3>1. f < k + 1 /\ k + 1 \in 1..(k + 1)
      OBVIOUS
    <3>2. x + 1 + w <= e
      BY <1>1, <3>1, SeparatorFacts
    <3>. QED  BY <1>2, <2>1, <3>2
  <2>3. \A j \in 1..w : At(x + j) = <<"line", f, j>>
    BY DEF Holds
  <2>4. \A j \in 0..(w - 1) : At(at + j) = <<"line", f, 1 + j>>
    <3>. SUFFICES ASSUME NEW j \in 0..(w - 1) PROVE At(at + j) = <<"line", f, 1 + j>>
      OBVIOUS
    <3>1. 1 + j \in 1..w /\ at + j = x + (1 + j)
      <4>. HIDE DEF x, w
      <4>. QED  BY <2>1
    <3>. QED  BY <2>3, <3>1
  <2>5. (f < k => At(y) = Comma) /\ At(e) = LF /\ At(e + 1) = NUL
    <3>1. f < k => f + 1 \in 1..k
      OBVIOUS
    <3>. QED  BY <3>1 DEF Holds
  <2>6. \A p \in 1..e : At(p) # NUL
    BY CellFacts DEF Holds
  <2>. HIDE DEF x, w, y, e
  <2>7. at \in Nat /\ f \in Int
    BY <2>1
  <2>8. ASSUME f < k PROVE deszFind(at) = y
    <3>1. y \in at..Beyond /\ w <= y - at /\ At(y) \in {Comma, NUL}
      BY <2>1, <2>2, <2>5, <2>8, NumberFacts
    <3>2. \A j \in w..((y - at) - 1) : At(at + j) = LF
      BY <2>1
    <3>. HIDE DEF at
    <3>. QED  BY <2>1, <2>4, <2>7, <3>1, <3>2, FieldEnds
  <2>9. ASSUME f = k PROVE deszFind(at) = e + 1
    <3>1. e + 1 \in at..Beyond /\ w <= (e + 1) - at /\ At(e + 1) \in {Comma, NUL}
      BY <2>1, <2>2, <2>5, <2>9, NumberFacts
    <3>2. \A j \in w..(((e + 1) - at) - 1) : At(at + j) = LF
      <4>1. \A j \in w..(((e + 1) - at) - 1) : at + j = e
        BY <2>1, <2>2, <2>9
      <4>. QED  BY <2>5, <4>1
    <3>. HIDE DEF at
    <3>. QED  BY <2>1, <2>4, <2>7, <3>1, <3>2, FieldEnds
  <2>10. /\ f < k => deszFind(at) = y
         /\ f = k => deszFind(at) = e + 1
    BY <2>8, <2>9, Zenon
  <2>11. HasComma(at) <=> f < k
    <3>1. f < k \/ f = k
      OBVIOUS
    <3>. QED  BY <2>5, <2>10, <3>1, CellFacts DEF HasComma
  <2>12. strlen(at) = e - x
    <3>1. e + 1 \in at..Beyond /\ At(e + 1) \in {NUL}
      BY <2>1, <2>2, <2>5, NumberFacts
    <3>2. \A j \in at..((e + 1) - 1) : At(j) \notin {NUL}
      <4>1. \A j \in at..((e + 1) - 1) : j \in 1..e
        BY <2>1, <2>2
      <4>. QED  BY <2>6, <4>1
    <3>3. First(at, {NUL}) = e + 1
      <4>1. at \in Int
        BY <2>7
      <4>. HIDE DEF at
      <4>. QED  BY <4>1, <3>1, <3>2, FirstIs, Zenon
    <3>. QED  BY <2>1, <2>2, <3>3 DEF strlen
  <2>. QED  BY <2>10, <2>11, <2>12 DEF x, y, e
<1>. QED  BY <1>3, <1>4, <1>5

\* The line feed goes with a value if that is the only one.
SizeInLine(k, w) == IF k = 1 THEN w + 1 ELSE w

\* The cursor goes from value to value, and takes each but for its last character if that
\* is the line feed; if the first value is the only one, the line feed goes with it.
LEMMA CursorInLine ==
  ASSUME NEW k \in Nat \ {0}, NEW ws \in [1..k -> Nat \ {0}], NEW c, Holds(c, ws, k)
  PROVE  \A i \in 1..NumVars : i <= k =>
           /\ Cursor[i].at = c[i] + 1 /\ Cursor[i].found = TRUE
           /\ Cursor[i].size = SizeInLine(k, ws[i])
<1>1. Separates(c, ws, k)
  BY DEF Holds
<1>2. \A f \in 1..k : /\ c[f] \in Nat /\ ws[f] \in Nat /\ ws[f] >= 1
                     /\ c[f + 1] = c[f] + 1 + ws[f]
  BY <1>1, SeparatorFacts
<1>3. 1 \in 1..k /\ c[1] = 4
  BY <1>1 DEF Separates
<1>. DEFINE Right(i) == /\ Cursor[i].at = c[i] + 1 /\ Cursor[i].found = TRUE
                        /\ Cursor[i].size = SizeInLine(k, ws[i])
            A == {i \in Nat : i + 1 \in 1..NumVars /\ i + 1 <= k => Right(i + 1)}
<1>4. Right(1)
  <2>1. Values = 5 /\ c[1] + 1 = 5
    BY <1>3, FindInLine DEF Values
  <2>2. deszFind(5) = 5 + (IF k = 1 THEN ws[1] + 1 ELSE ws[1])
    <3>1. /\ 1 < k => deszFind(c[1] + 1) = c[1 + 1]
          /\ 1 = k => deszFind(c[1] + 1) = c[k + 1] + 1
      BY <1>3, FindInLine
    <3>2. c[1 + 1] = 5 + ws[1]
      BY <1>2, <1>3
    <3>3. 1 < k \/ k = 1
      OBVIOUS
    <3>. QED  BY <2>1, <3>1, <3>2, <3>3, <1>2, <1>3
  <2>3. /\ Cursor[1].at = Values /\ Cursor[1].found = TRUE
        /\ Cursor[1].size = deszFind(Values) - Values
    BY CursorFacts
  <2>4. deszFind(5) - 5 = SizeInLine(k, ws[1])
    BY <2>2, <1>2, <1>3 DEF SizeInLine
  <2>. QED  BY <2>1, <2>3, <2>4
<1>5. ASSUME NEW n \in 1..k, n + 1 \in 1..NumVars, n + 1 <= k, Right(n)
      PROVE  Right(n + 1)
  <2>1. /\ n + 1 \in 1..k /\ n < k /\ (n + 1) - 1 = n /\ n + 1 # 1 /\ k # 1
    BY <1>5
  <2>. DEFINE m == n + 1  next == c[m] + 1
  <2>2. Cursor[m] = deszqNextCh(c[n] + 1)
    BY <1>5, <2>1, CursorFacts
  <2>3. deszFind(c[n] + 1) = c[m]
    BY <2>1, FindInLine
  <2>4. c[m] \in Nat /\ ws[m] \in Nat /\ ws[m] >= 1 /\ c[m + 1] = c[m] + 1 + ws[m]
    BY <1>2, <2>1
  <2>5. 1 + deszFind(c[n] + 1) = next
    BY <2>3, <2>4
  <2>6. /\ m < k => deszFind(next) = c[m + 1]
        /\ m = k => strlen(next) = c[m + 1] - c[m]
        /\ HasComma(next) <=> m < k
        /\ strlen(next) = c[k + 1] - c[m]
    BY <2>1, FindInLine
  <2>7. strlen(next) \in Nat /\ strlen(next) # 0
    <3>1. m < k + 1 /\ k + 1 \in 1..(k + 1)
      BY <2>1
    <3>2. c[m] + 1 + ws[m] <= c[k + 1] /\ c[k + 1] \in Nat
      BY <1>1, <2>1, <3>1, SeparatorFacts, SeparatorsAscend
    <3>. QED  BY <2>4, <2>6, <3>2
  <2>. HIDE DEF next, m
  <2>8. deszqNextCh(c[n] + 1) =
          [at |-> next,
           size |-> IF HasComma(next) THEN deszFind(next) - next
                    ELSE IF strlen(next) = 0 THEN 0 ELSE strlen(next) - 1,
           found |-> strlen(next) # 0 /\
                     (HasComma(next) =>
                       (IF HasComma(next) THEN deszFind(next) - next
                        ELSE IF strlen(next) = 0 THEN 0 ELSE strlen(next) - 1) # 0)]
    BY <2>5 DEF deszqNextCh
  <2>9. m < k \/ m = k
    BY <2>1 DEF m
  <2>10. (IF HasComma(next) THEN deszFind(next) - next
          ELSE IF strlen(next) = 0 THEN 0 ELSE strlen(next) - 1) = ws[m]
    <3>1. CASE m < k
      <4>1. HasComma(next) /\ deszFind(next) = c[m + 1]
        BY <2>6, <3>1
      <4>2. c[m + 1] - next = ws[m]
        BY <2>4 DEF next
      <4>. QED  BY <4>1, <4>2
    <3>2. CASE m = k
      <4>1. ~HasComma(next) /\ strlen(next) = c[m + 1] - c[m]
        BY <2>6, <3>2
      <4>2. (c[m + 1] - c[m]) - 1 = ws[m]
        BY <2>4
      <4>. QED  BY <2>7, <4>1, <4>2
    <3>. QED  BY <2>9, <3>1, <3>2
  <2>11. Cursor[m].at = next /\ Cursor[m].size = ws[m] /\ Cursor[m].found = TRUE
    <3>1. Cursor[m].at = next /\ Cursor[m].size = ws[m]
      BY <2>2, <2>8, <2>10
    <3>2. Cursor[m].found = (strlen(next) # 0 /\ (HasComma(next) => ws[m] # 0))
      BY <2>2, <2>8, <2>10
    <3>3. ws[m] # 0
      BY <2>4
    <3>. QED  BY <2>7, <3>1, <3>2, <3>3, Zenon
  <2>12. SizeInLine(k, ws[m]) = ws[m]
    BY <2>1 DEF SizeInLine
  <2>. QED  BY <2>11, <2>12 DEF next, m
<1>. HIDE DEF Right
<1>6. 0 \in A
  <2>1. 0 + 1 = 1
    OBVIOUS
  <2>. QED  BY <1>4, <2>1
<1>7. ASSUME NEW i \in A PROVE i + 1 \in A
  <2>. DEFINE n == i + 1
  <2>1. ASSUME n + 1 \in 1..NumVars, n + 1 <= k PROVE Right(n + 1)
    <3>1. i \in Nat /\ n \in 1..NumVars /\ n <= k /\ n \in 1..k
      BY <2>1, NumberFacts
    <3>2. Right(n)
      BY <3>1
    <3>. HIDE DEF n
    <3>. QED  BY <1>5, <2>1, <3>1, <3>2
  <2>2. n \in Nat
    OBVIOUS
  <2>. QED  BY <2>1, <2>2
<1>8. A \in SUBSET Nat
  OBVIOUS
<1>. HIDE DEF A
<1>9. A = Nat
  BY <1>6, <1>7, <1>8, EveryNumber
<1>10. ASSUME NEW i \in 1..NumVars, i <= k PROVE Right(i)
  <2>1. i - 1 \in A /\ (i - 1) + 1 = i
    BY <1>9, NumberFacts
  <2>. QED  BY <1>10, <2>1 DEF A
<1>. QED  BY <1>10 DEF Right

\* The stamp has the announced length in the time zones that are printed with hours and
\* minutes, and in no other.
LEMMA StampedZones == StampAsAnnounced <=> LoggerTimeZone \in (-24..24) \ {0}
<1>1. LoggerTimeZone \in -128..127
  BY PostAssumption
<1>2. LoggerTimeZone \in (-24..24) \ {0} <=> ZoneSize = 6
  BY <1>1 DEF ZoneSize
<1>3. ZoneSize \in 1..6
  BY <1>1 DEF ZoneSize
<1>. QED  BY <1>2, <1>3 DEF StampAsAnnounced, StampPrinted, StampAnnounced

\* What is announced is the length of the values of the line, a key for each variable and
\* the time stamp.
LEMMA AnnouncedLength ==
  ASSUME NEW k \in Nat \ {0}, NEW ws \in [1..k -> Nat \ {0}], NEW c, Holds(c, ws, k)
  PROVE  calculateJsonSize = StampAnnounced + (NumVars * KeySize + (c[k + 1] - 4))
<1>1. 1 \in 1..k /\ c[1] = 4 /\ c[k + 1] \in Nat
  <2>1. k + 1 \in 1..(k + 1) /\ Separates(c, ws, k)
    BY DEF Holds
  <2>. QED  BY <2>1 DEF Separates
<1>2. Values = c[1] + 1
  BY <1>1, FindInLine DEF Values
<1>3. strlen(c[1] + 1) = c[k + 1] - c[1]
  BY <1>1, FindInLine
<1>4. deszq_timeVariant_sz = (c[k + 1] - 4) - 1
  BY <1>1, <1>2, <1>3 DEF deszq_timeVariant_sz
<1>5. NumVars * KeySize \in Nat
  BY NumberFacts DEF KeySize
<1>. DEFINE x == c[k + 1] - 4  y == NumVars * KeySize
<1>6. calculateJsonSize = StampAnnounced + y + (x - 1) + 1 /\ x \in Int /\ y \in Int
  BY <1>1, <1>4, <1>5 DEF calculateJsonSize
<1>. HIDE DEF x, y
<1>7. calculateJsonSize = StampAnnounced + (y + x)
  BY <1>6 DEF StampAnnounced
<1>. QED  BY <1>7 DEF x, y

\* The line feed that goes with a value that is the only one.
Extra(k) == IF k = 1 THEN 1 ELSE 0

\* As long as the line has values, the body is as long as what is announced of them.
LEMMA BodyInLine ==
  ASSUME NEW k \in Nat \ {0}, NEW ws \in [1..k -> Nat \ {0}], NEW c, Holds(c, ws, k)
  PROVE  \A m \in 1..NumVars : m <= k =>
           Body[m] = m * KeySize + (c[m + 1] - 4) + Extra(k)
<1>1. Separates(c, ws, k) /\ Terminated
  BY DEF Holds
<1>2. \A i \in 1..NumVars : Cursor[i].size \in Nat
  BY <1>1, CursorRange
<1>3. /\ Body[0] = 0 /\ \A i \in 0..NumVars : Body[i] \in Nat
      /\ \A i \in 1..NumVars :
            Body[i] = Body[i - 1] + (IF i \in Posted THEN KeySize + Cursor[i].size + 1 ELSE 0)
  BY <1>2, BodyFacts
<1>4. \A i \in 1..NumVars : i <= k =>
        /\ Cursor[i].found = TRUE
        /\ Cursor[i].size = SizeInLine(k, ws[i])
  <2>1. \A i \in 1..NumVars : i <= k =>
           /\ Cursor[i].at = c[i] + 1 /\ Cursor[i].found = TRUE
           /\ Cursor[i].size = SizeInLine(k, ws[i])
    BY CursorInLine
  <2>. QED  BY <2>1
<1>5. \A i \in 1..NumVars : i <= k => i \in Posted
  <2>1. \A i \in 1..NumVars : i <= k => \A j \in 1..i : j \in 1..NumVars /\ j <= k
    BY NumberFacts
  <2>. QED  BY <1>4, <2>1 DEF Posted
<1>6. \A f \in 1..k : /\ c[f] \in Nat /\ ws[f] \in Nat /\ c[f + 1] \in Nat
                     /\ c[f + 1] = c[f] + 1 + ws[f]
  BY <1>1, SeparatorFacts
<1>. DEFINE Right(m) == Body[m] = m * KeySize + (c[m + 1] - 4) + Extra(k)
            A == {m \in Nat : m + 1 \in 1..NumVars /\ m + 1 <= k => Right(m + 1)}
<1>7. Right(1)
  <2>1. 1 \in 1..NumVars /\ 1 <= k /\ 1 \in 1..k /\ 1 - 1 = 0
    BY NumberFacts
  <2>2. Body[1] = KeySize + Cursor[1].size + 1
    <3>1. Body[1] = Body[1 - 1] + (IF 1 \in Posted THEN KeySize + Cursor[1].size + 1 ELSE 0)
      BY <1>3, <2>1
    <3>2. 1 \in Posted /\ Cursor[1].size \in Nat /\ KeySize \in Nat
      BY <1>2, <1>5, <2>1 DEF KeySize
    <3>. QED  BY <1>3, <2>1, <3>1, <3>2
  <2>3. c[1] = 4 /\ c[1 + 1] = 4 + 1 + ws[1] /\ ws[1] \in Nat
    BY <1>1, <1>6, <2>1 DEF Separates
  <2>4. Cursor[1].size = ws[1] + Extra(k)
    BY <1>4, <2>1, <2>3 DEF Extra, SizeInLine
  <2>. QED  BY <2>2, <2>3, <2>4 DEF KeySize, Extra
<1>8. ASSUME NEW n \in 1..NumVars, n + 1 \in 1..NumVars, n + 1 <= k, Right(n)
      PROVE  Right(n + 1)
  <2>. DEFINE m == n + 1
  <2>1. m \in 1..NumVars /\ m <= k /\ m \in 1..k /\ m - 1 = n /\ k # 1 /\ n \in Nat
    BY <1>8, NumberFacts
  <2>. HIDE DEF m
  <2>2. Body[m] = Body[n] + (KeySize + ws[m] + 1)
    BY <1>3, <1>4, <1>5, <2>1 DEF SizeInLine
  <2>3. c[m + 1] = c[m] + 1 + ws[m] /\ c[m] \in Nat /\ ws[m] \in Nat
    BY <1>6, <2>1
  <2>4. Body[n] = n * KeySize + (c[m] - 4) + Extra(k)
    BY <1>8 DEF m
  <2>5. Extra(k) = 0 /\ m = n + 1
    BY <2>1 DEF Extra, m
  <2>. DEFINE b == Body[n]  bm == Body[m]  x == c[m]  y == c[m + 1]  w == ws[m]
  <2>6. /\ b = n * 39 + (x - 4) + 0 /\ bm = b + (39 + w + 1) /\ y = x + 1 + w
        /\ x \in Nat /\ w \in Nat
    BY <2>2, <2>3, <2>4, <2>5 DEF KeySize
  <2>. HIDE DEF b, bm, x, y, w
  <2>7. bm = (n + 1) * 39 + (y - 4) + 0
    BY <2>1, <2>6
  <2>. QED  BY <2>5, <2>7 DEF bm, y, m, KeySize
<1>. HIDE DEF Right
<1>9. 0 \in A
  <2>1. 0 + 1 = 1
    OBVIOUS
  <2>. QED  BY <1>7, <2>1
<1>10. ASSUME NEW i \in A PROVE i + 1 \in A
  <2>. DEFINE n == i + 1
  <2>1. ASSUME n + 1 \in 1..NumVars, n + 1 <= k PROVE Right(n + 1)
    <3>1. i \in Nat /\ n \in 1..NumVars /\ n <= k
      BY <2>1, NumberFacts
    <3>2. Right(n)
      BY <3>1
    <3>. HIDE DEF n
    <3>. QED  BY <1>8, <2>1, <3>1, <3>2
  <2>2. n \in Nat
    OBVIOUS
  <2>. QED  BY <2>1, <2>2
<1>11. A \in SUBSET Nat
  OBVIOUS
<1>. HIDE DEF A
<1>12. A = Nat
  BY <1>9, <1>10, <1>11, EveryNumber
<1>13. ASSUME NEW m \in 1..NumVars, m <= k PROVE Right(m)
  <2>1. m - 1 \in A /\ (m - 1) + 1 = m
    BY <1>12, NumberFacts
  <2>. QED  BY <1>13, <2>1 DEF A
<1>. QED  BY <1>13 DEF Right

\* Variables that have no value of their own in the line make the body longer than what is
\* announced.
LEMMA BodyBehindLine ==
  ASSUME NEW k \in Nat \ {0}, NEW ws \in [1..k -> Nat \ {0}], NEW c, Holds(c, ws, k),
         Posted = 1..NumVars, k < NumVars
  PROVE  Body[NumVars] > NumVars * KeySize + (c[k + 1] - 4)
<1>1. Separates(c, ws, k) /\ Terminated
  BY DEF Holds
<1>2. \A i \in 1..NumVars : Cursor[i].size \in Nat
  BY <1>1, CursorRange
<1>3. /\ \A i \in 0..NumVars : Body[i] \in Nat
      /\ \A i \in 1..NumVars : Body[i] = Body[i - 1] + (KeySize + Cursor[i].size + 1)
  BY <1>2, BodyFacts
<1>. DEFINE x == c[k + 1] - 4
            A == {n \in Nat : k + n + 1 \in 1..NumVars =>
                    Body[k + n + 1] > (k + n + 1) * KeySize + x}
<1>4. x \in Int
  <2>1. k + 1 \in 1..(k + 1)
    OBVIOUS
  <2>. QED  BY <1>1, <2>1 DEF Separates
<1>5. Body[k] >= k * KeySize + x /\ k \in 1..NumVars
  <2>1. k \in 1..NumVars /\ k <= k
    BY NumberFacts
  <2>2. Body[k] = k * KeySize + (c[k + 1] - 4) + Extra(k)
    BY <2>1, BodyInLine
  <2>3. k * KeySize \in Nat /\ Extra(k) \in Nat
    BY DEF KeySize, Extra
  <2>. QED  BY <1>4, <2>1, <2>2, <2>3
<1>. HIDE DEF x
<1>6. ASSUME NEW n \in 1..NumVars, n + 1 \in 1..NumVars, Body[n] >= n * KeySize + x
      PROVE  Body[n + 1] > (n + 1) * KeySize + x
  <2>1. /\ Body[n + 1] = Body[n] + (KeySize + Cursor[n + 1].size + 1)
        /\ Body[n] \in Nat /\ Cursor[n + 1].size \in Nat /\ n \in Nat
    <3>1. (n + 1) - 1 = n /\ n \in 0..NumVars /\ n \in Nat
      BY NumberFacts
    <3>. QED  BY <1>2, <1>3, <1>6, <3>1
  <2>. DEFINE b == Body[n]  bm == Body[n + 1]  w == Cursor[n + 1].size
  <2>2. /\ b \in Nat /\ w \in Nat /\ n \in Nat /\ x \in Int
        /\ bm = b + (39 + w + 1) /\ b >= n * 39 + x
    BY <1>4, <1>6, <2>1 DEF KeySize
  <2>. HIDE DEF b, bm, w
  <2>3. bm > (n + 1) * 39 + x
    BY <2>2
  <2>. QED  BY <2>3 DEF bm, KeySize
<1>7. 0 \in A
  <2>1. k + 0 + 1 = k + 1
    OBVIOUS
  <2>. QED  BY <1>5, <1>6, <2>1
<1>8. ASSUME NEW i \in A PROVE i + 1 \in A
  <2>. DEFINE n == k + i + 1
  <2>1. n \in Nat /\ k + (i + 1) + 1 = n + 1 /\ i \in Nat
    OBVIOUS
  <2>2. ASSUME n + 1 \in 1..NumVars PROVE Body[n + 1] > (n + 1) * KeySize + x
    <3>1. n \in 1..NumVars /\ n \in 0..NumVars
      BY <2>1, <2>2, NumberFacts
    <3>2. Body[n] > n * KeySize + x
      BY <3>1
    <3>. HIDE DEF n
    <3>3. Body[n] >= n * KeySize + x
      <4>1. Body[n] \in Nat /\ n * KeySize \in Nat
        BY <1>3, <2>1, <3>1 DEF KeySize
      <4>. QED  BY <1>4, <3>2, <4>1
    <3>. QED  BY <1>6, <2>2, <3>1, <3>3
  <2>. HIDE DEF n
  <2>3. i + 1 \in Nat
    OBVIOUS
  <2>. QED  BY <2>1, <2>2, <2>3
<1>9. A \in SUBSET Nat
  OBVIOUS
<1>. HIDE DEF A
<1>10. A = Nat
  BY <1>7, <1>8, <1>9, EveryNumber
<1>11. (NumVars - k) - 1 \in A /\ k + ((NumVars - k) - 1) + 1 = NumVars /\ NumVars \in 1..NumVars
  BY <1>10, NumberFacts
<1>12. Body[NumVars] > NumVars * KeySize + x
  BY <1>11 DEF A
<1>. QED  BY <1>12 DEF x

\* The lengths agree for a line with a value for each variable, if it has more than one and
\* the time stamp has the length that is announced for it.
LEMMA AgreeInLine ==
  ASSUME NEW k \in Nat \ {0}, NEW ws \in [1..k -> Nat \ {0}], NEW c, Holds(c, ws, k),
         k = NumVars, NumVars > 1, StampAsAnnounced
  PROVE  calculateJsonSize = BodySize
<1>1. Extra(k) = 0 /\ NumVars \in 1..NumVars /\ NumVars <= k
  BY NumberFacts DEF Extra
<1>2. Body[NumVars] = NumVars * KeySize + (c[NumVars + 1] - 4) + Extra(k)
  BY <1>1, BodyInLine
<1>3. calculateJsonSize = StampAnnounced + (NumVars * KeySize + (c[k + 1] - 4))
  BY AnnouncedLength
<1>. DEFINE x == NumVars * KeySize + (c[k + 1] - 4)
<1>4. x \in Int
  <2>1. k + 1 \in 1..(k + 1) /\ Separates(c, ws, k)
    BY DEF Holds
  <2>2. c[k + 1] \in Nat
    BY <2>1 DEF Separates
  <2>. QED  BY <2>2, NumberFacts DEF KeySize
<1>5. Body[NumVars] = x + 0 /\ calculateJsonSize = StampAnnounced + x
  BY <1>1, <1>2, <1>3
<1>. HIDE DEF x
<1>6. BodySize = StampAnnounced + x
  BY <1>4, <1>5 DEF BodySize, StampAsAnnounced
<1>. QED  BY <1>5, <1>6

\* A post that the server understands is that of a line with a value for each variable, and
\* it has those values.
LEMMA UnderstoodIsTheLine ==
  ASSUME NEW k \in Nat \ {0}, NEW ws \in [1..k -> Nat \ {0}], NEW c, Holds(c, ws, k),
         Understood, StampAsAnnounced
  PROVE  k = NumVars /\ Content = [i \in 1..NumVars |-> Field(i, ws[i])]
<1>. DEFINE x == c[k + 1]  n == NumVars * KeySize
<1>1. Separates(c, ws, k)
  BY DEF Holds
<1>2. x \in Nat /\ n \in Nat /\ NumVars \in 1..NumVars
  <2>1. k + 1 \in 1..(k + 1)
    OBVIOUS
  <2>. QED  BY <1>1, <2>1, NumberFacts DEF Separates, KeySize
<1>3. Body[NumVars] = n + (x - 4) /\ Posted = 1..NumVars
  <2>1. /\ calculateJsonSize = StampAnnounced + (n + (x - 4))
        /\ calculateJsonSize = StampAnnounced + Body[NumVars] /\ Posted = 1..NumVars
    BY AnnouncedLength DEF Understood, BodySize, StampAsAnnounced
  <2>2. Body[NumVars] \in Nat
    <3>1. \A i \in 1..NumVars : Cursor[i].size \in Nat
      BY CursorRange DEF Holds
    <3>2. NumVars \in 0..NumVars
      BY NumberFacts
    <3>. QED  BY <3>1, <3>2, BodyFacts
  <2>. HIDE DEF x, n
  <2>. QED  BY <1>2, <2>1, <2>2 DEF StampAnnounced
<1>4. ~(k < NumVars)
  <2>1. k < NumVars => Body[NumVars] > n + (x - 4)
    BY <1>3, BodyBehindLine
  <2>. HIDE DEF x, n
  <2>. QED  BY <1>2, <1>3, <2>1
<1>5. NumVars <= k
  BY <1>4, NumberFacts
<1>6. Body[NumVars] = n + (c[NumVars + 1] - 4) + Extra(k)
  BY <1>2, <1>5, BodyInLine
<1>7. ~(NumVars < k)
  <2>. SUFFICES ASSUME NumVars < k PROVE FALSE
    OBVIOUS
  <2>1. /\ NumVars + 1 \in 1..(k + 1) /\ k + 1 \in 1..(k + 1) /\ NumVars + 1 < k + 1
        /\ Extra(k) = 0
    BY NumberFacts DEF Extra
  <2>. DEFINE y == c[NumVars + 1]
  <2>2. y < x /\ y \in Nat
    BY <1>1, <2>1, SeparatorsAscend
  <2>3. n + (x - 4) = n + (y - 4) + 0
    BY <1>3, <1>6, <2>1
  <2>. HIDE DEF x, y, n
  <2>. QED  BY <1>2, <2>2, <2>3
<1>8. k = NumVars
  BY <1>5, <1>7, NumberFacts
<1>9. k # 1
  <2>. SUFFICES ASSUME k = 1 PROVE FALSE
    OBVIOUS
  <2>1. n + (x - 4) = n + (x - 4) + 1
    BY <1>3, <1>6, <1>8 DEF Extra
  <2>. HIDE DEF x, n
  <2>. QED  BY <1>2, <2>1
<1>10. ASSUME NEW i \in 1..NumVars
       PROVE  Value(i) = Field(i, ws[i])
  <2>1. i \in 1..k /\ i <= k
    BY <1>8
  <2>2. Cursor[i].at = c[i] + 1 /\ Cursor[i].size = ws[i]
    <3>1. \A m \in 1..NumVars : m <= k =>
             /\ Cursor[m].at = c[m] + 1 /\ Cursor[m].found = TRUE
             /\ Cursor[m].size = SizeInLine(k, ws[m])
      BY CursorInLine
    <3>. QED  BY <1>9, <2>1, <3>1 DEF SizeInLine
  <2>3. c[i] \in Nat /\ ws[i] \in Nat
    BY <1>1, <2>1, SeparatorFacts
  <2>4. \A j \in 1..ws[i] : At(c[i] + j) = <<"line", i, j>>
    BY <2>1 DEF Holds
  <2>5. \A j \in 1..ws[i] : At((c[i] + 1) + j - 1) = <<"line", i, j>>
    <3>1. \A j \in 1..ws[i] : (c[i] + 1) + j - 1 = c[i] + j
      BY <2>3
    <3>. QED  BY <2>4, <3>1
  <2>6. Value(i) = [j \in 1..ws[i] |-> At((c[i] + 1) + j - 1)]
    BY <2>2 DEF Value
  <2>. QED  BY <2>5, <2>6 DEF Field
<1>. QED  BY <1>8, <1>10, Zenon DEF Content

--------------------------------------------------------------------------------
(* The buffer, the rest of a line and the answers.                         *)

\* What Min of the community modules is for two numbers.
LEMMA MinFacts ==
  ASSUME NEW a \in Int, NEW b \in Int
  PROVE  Min({a, b}) = IF a <= b THEN a ELSE b
BY DEF Min

\* The lines of the file and the one that is not there consist of cells.
LEMMA LineFacts ==
  /\ \A ws \in Lines : \E k \in Nat \ {0} : ws \in [1..k -> Nat \ {0}]
  /\ \A ws \in Lines \cup {<<>>} : Line(ws) \in Seq(Cells) /\ Len(Line(ws)) > 0
<1>1. ASSUME NEW ws \in Lines PROVE \E k \in Nat \ {0} : ws \in [1..k -> Nat \ {0}]
  <2>1. PICK k \in Records : ws \in [1..k -> Widths]
    BY DEF Lines
  <2>2. k \in Nat \ {0} /\ Widths \subseteq Nat \ {0}
    BY PostAssumption
  <2>3. ws \in [1..k -> Nat \ {0}]
    BY <2>1, <2>2
  <2>. QED  BY <2>2, <2>3
<1>2. ASSUME NEW ws \in Lines PROVE Line(ws) \in Seq(Cells) /\ Len(Line(ws)) > 0
  <2>1. PICK k \in Nat \ {0} : ws \in [1..k -> Nat \ {0}]
    BY <1>1
  <2>2. PICK c : Separates(c, ws, k)
    BY <2>1, SeparatorsExist
  <2>3. Laid(ws, c, k)
    BY <2>1, <2>2, LineLaid
  <2>4. c[k + 1] \in Nat /\ c[k + 1] >= 4
    <3>1. k + 1 \in 1..(k + 1)
      OBVIOUS
    <3>. QED  BY <2>1, <2>2, <3>1, SeparatorsAscend
  <2>. QED  BY <2>3, <2>4 DEF Laid
<1>3. Line(<<>>) \in Seq(Cells) /\ Len(Line(<<>>)) > 0
  <2>. DEFINE s == Field(Status, 1)  t == Field(Time, 1)
              e == [f \in DOMAIN <<>> |-> <<Comma>> \o Field(f, <<>>[f])]
  <2>1. s \in Seq(Cells) /\ t \in Seq(Cells) /\ <<Comma>> \in Seq(Cells) /\ <<LF>> \in Seq(Cells)
        /\ Len(<<LF>>) = 1
    <3>1. <<"line", Status, 1>> \in Cells /\ <<"line", Time, 1>> \in Cells
      BY CellFacts DEF Status, Time
    <3>. QED  BY <3>1, CellFacts DEF Field
  <2>2. e = <<>>
    OBVIOUS
  <2>3. FlattenSeq(e) = <<>>
    <3>1. Len(e) = 0
      BY <2>2
    <3>. HIDE DEF e
    <3>. QED  BY <2>2, <3>1, FlatIsChosen
  <2>4. Line(<<>>) = s \o <<Comma>> \o t \o <<>> \o <<LF>>
    BY <2>3, Zenon DEF Line
  <2>5. \A u, v \in Seq(Cells) : u \o v \in Seq(Cells) /\ Len(u \o v) = Len(u) + Len(v)
    BY ConcatElements
  <2>6. <<>> \in Seq(Cells) /\ \A u \in Seq(Cells) : Len(u) \in Nat
    OBVIOUS
  <2>. HIDE DEF s, t
  <2>. DEFINE a == s \o <<Comma>> \o t \o <<>>
  <2>7. a \in Seq(Cells)
    <3>1. s \o <<Comma>> \in Seq(Cells)
      BY <2>1, <2>5, Zenon
    <3>2. (s \o <<Comma>>) \o t \in Seq(Cells)
      BY <2>1, <2>5, <3>1, Zenon
    <3>. QED  BY <2>5, <2>6, <3>2, Zenon
  <2>8. Line(<<>>) = a \o <<LF>>
    BY <2>4
  <2>. HIDE DEF a
  <2>9. Line(<<>>) \in Seq(Cells) /\ Len(Line(<<>>)) = Len(a) + Len(<<LF>>)
    BY <2>1, <2>5, <2>7, <2>8, Zenon
  <2>. QED  BY <2>1, <2>6, <2>7, <2>9
<1>. QED  BY <1>1, <1>2, <1>3

\* What fgets does to a buffer that ends in a NUL: it still does, and the rest of the line is
\* shorter than what was read; a line that fits lies in the buffer as it is.
LEMMA FgetsFacts ==
  ASSUME NEW text \in Seq(Cells), Len(text) > 0, DOMAIN deszq_line = 1..LineMax, Terminated,
         Fgets(text)
  PROVE  /\ DOMAIN deszq_line' = 1..LineMax /\ Terminated'
         /\ rest' \in Seq(Cells) /\ Len(rest') < Len(text)
         /\ Len(text) < LineMax =>
              /\ rest' = <<>> /\ \A p \in 1..Len(text) : deszq_line'[p] = text[p]
              /\ deszq_line'[Len(text) + 1] = NUL
<1>. DEFINE n == Len(text)  size == FgetsSize(text)
<1>1. n \in Nat /\ n > 0
  OBVIOUS
<1>2. size \in 1..n /\ size <= LineMax - 1 /\ (n < LineMax => size = n)
  <2>1. size = IF n <= LineMax - 1 THEN n ELSE LineMax - 1
    BY <1>1, NumberFacts, MinFacts DEF FgetsSize
  <2>. HIDE DEF n, size
  <2>. QED  BY <1>1, <2>1, NumberFacts
<1>3. /\ deszq_line' = [i \in 1..LineMax |-> IF i <= size THEN text[i]
                                             ELSE IF i = size + 1 THEN NUL
                                             ELSE Stale(deszq_line[i])]
      /\ rest' = SubSeq(text, size + 1, n)
  BY DEF Fgets
<1>. HIDE DEF size
<1>4. DOMAIN deszq_line' = 1..LineMax
  BY <1>3
<1>5. Terminated'
  <2>1. LineMax \in 1..LineMax /\ LineMax \in Nat
    BY NumberFacts
  <2>2. deszq_line[LineMax] = NUL
    BY <2>1 DEF Terminated, At
  <2>3. Stale(NUL) = NUL
    <3>1. Len(NUL) = 1
      BY DEF NUL
    <3>. QED  BY <3>1 DEF Stale, IsDigit
  <2>4. ~(LineMax <= size)
    BY <1>2, NumberFacts
  <2>5. deszq_line'[LineMax] = NUL
    BY <1>3, <2>1, <2>2, <2>3, <2>4
  <2>. QED  BY <2>1, <2>5 DEF Terminated, At
<1>6. /\ rest' \in Seq(Cells) /\ Len(rest') = n - size
  BY <1>1, <1>2, <1>3
<1>7. Len(rest') < n
  BY <1>1, <1>2, <1>6
<1>8. ASSUME n < LineMax
      PROVE  /\ rest' = <<>> /\ \A p \in 1..n : deszq_line'[p] = text[p]
             /\ deszq_line'[n + 1] = NUL
  <2>1. size = n /\ n + 1 \in 1..LineMax /\ ~(n + 1 <= n)
    BY <1>1, <1>2, <1>8, NumberFacts
  <2>2. rest' = <<>>
    BY <1>6, <2>1
  <2>3. \A p \in 1..n : p \in 1..LineMax /\ p <= n
    BY <1>1, <1>8, NumberFacts
  <2>. QED  BY <1>3, <2>1, <2>2, <2>3
<1>. QED  BY <1>4, <1>5, <1>6, <1>7, <1>8

--------------------------------------------------------------------------------
(* Types and answers, whatever the lengths of the lines.                   *)

\* TypeOK, and what is left of a line consists of cells.
Typed == TypeOK /\ rest \in Seq(Cells)

\* An answer of the station is a number, and not zero.
LEMMA AnswerFacts ==
  /\ HTTPSTATUS_NC_901 # 0 /\ HTTPSTATUS_GT_504 # 0
  /\ ~publishRspCodeAccepted(HTTPSTATUS_NC_901) /\ ~publishRspCodeAccepted(HTTPSTATUS_GT_504)
  /\ \A code \in {201, 400, 500}, fourth \in Fourth :
        /\ atoi(code, fourth) # 0
        /\ publishRspCodeAccepted(atoi(code, fourth)) => code = 201
BY DEF HTTPSTATUS_NC_901, HTTPSTATUS_GT_504, publishRspCodeAccepted, Fourth, atoi

\* The values that are posted are not nothing.
LEMMA ContentIsSomething == Content # Nothing
<1>1. 1 \in 1..NumVars
  BY NumberFacts
<1>2. 1 \in DOMAIN Content
  BY <1>1 DEF Content
<1>3. DOMAIN Nothing = {}
  BY DEF Nothing
<1>. QED  BY <1>2, <1>3

\* The buffer is empty at first.
LEMMA TypedInit == Init => Typed
<1>. SUFFICES ASSUME Init PROVE Typed
  OBVIOUS
<1>1. DOMAIN deszq_line = 1..LineMax /\ At(LineMax) = NUL
  BY NumberFacts DEF Init, At
<1>2. widths = <<>> /\ rest = <<>> /\ Len(rest) = 0 /\ rest \in Seq(Cells)
  BY DEF Init
<1>3. Len(rest) < Len(Line(widths))
  BY <1>2, LineFacts
<1>. QED  BY <1>1, <1>2, <1>3 DEF Init, Typed, TypeOK

\* Reading a line, or what is left of one, leaves less of it.
LEMMA TypedReadLine ==
  ASSUME Typed, NEW ws \in Lines, ReadLine(ws)
  PROVE  Typed'
<1>1. /\ DOMAIN deszq_line = 1..LineMax /\ Terminated /\ rest \in Seq(Cells)
      /\ widths \in Lines \cup {<<>>} /\ Len(rest) < Len(Line(widths))
  BY DEF Typed, TypeOK, Terminated
<1>2. /\ DOMAIN deszq_line' = 1..LineMax /\ Terminated' /\ rest' \in Seq(Cells)
      /\ widths' \in Lines \cup {<<>>} /\ Len(rest') < Len(Line(widths'))
  <2>1. CASE rest = <<>>
    <3>1. Fgets(Line(ws)) /\ widths' = ws
      BY <2>1 DEF ReadLine
    <3>2. Line(ws) \in Seq(Cells) /\ Len(Line(ws)) > 0
      BY LineFacts
    <3>3. /\ DOMAIN deszq_line' = 1..LineMax /\ Terminated' /\ rest' \in Seq(Cells)
          /\ Len(rest') < Len(Line(ws))
      BY <1>1, <3>1, <3>2, FgetsFacts
    <3>. QED  BY <3>1, <3>3
  <2>2. CASE rest # <<>>
    <3>1. Fgets(rest) /\ widths' = widths
      BY <2>2 DEF ReadLine
    <3>2. Len(rest) > 0 /\ Len(rest) \in Nat
      BY <1>1, <2>2
    <3>3. /\ DOMAIN deszq_line' = 1..LineMax /\ Terminated' /\ rest' \in Seq(Cells)
          /\ Len(rest') < Len(rest)
      BY <1>1, <3>1, <3>2, FgetsFacts
    <3>4. Len(Line(widths)) \in Nat /\ Len(rest') \in Nat
      BY <1>1, <3>3, LineFacts
    <3>5. Len(rest') < Len(Line(widths))
      BY <1>1, <3>2, <3>3, <3>4
    <3>. QED  BY <1>1, <3>1, <3>3, <3>5
  <2>. QED  BY <2>1, <2>2
<1>3. /\ pc' \in {"read", "ended"} /\ parsed' \in BOOLEAN /\ rspCode' = 0 /\ stored' = Nothing
  BY DEF ReadLine, IsDigit
<1>4. At(LineMax)' = NUL
  BY <1>2 DEF Terminated
<1>. QED  BY <1>2, <1>3, <1>4, Zenon DEF Typed, TypeOK

\* Every step keeps the types.
LEMMA TypedNext ==
  ASSUME Typed, [Next]_vars
  PROVE  Typed'
<1>. USE DEF Typed, TypeOK
<1>1. ASSUME NEW ws \in Lines, ReadLine(ws) PROVE Typed'
  BY <1>1, TypedReadLine
<1>2. ASSUME UNCHANGED deszq_line PROVE At(LineMax)' = NUL
  BY <1>2 DEF At
<1>3. CASE EndOfFile
  <2>1. <<>> \in Lines \cup {<<>>} /\ Len(<<>>) < Len(Line(<<>>))
    <3>1. Len(<<>>) = 0 /\ Len(Line(<<>>)) > 0
      BY LineFacts
    <3>. QED  BY <3>1
  <2>2. rest' = <<>> /\ widths' = <<>> /\ rspCode = 0 /\ rspCode' = 0
    BY <1>3 DEF EndOfFile
  <2>. QED  BY <1>2, <1>3, <2>1, <2>2 DEF EndOfFile
<1>4. CASE RemoveFile
  <2>1. Len(<<>>) < Len(Line(widths)) /\ <<>> \in Seq(Cells)
    <3>1. Len(<<>>) = 0 /\ Len(Line(widths)) > 0
      BY LineFacts
    <3>. QED  BY <3>1
  <2>. QED  BY <1>2, <1>4, <2>1 DEF RemoveFile
<1>5. ASSUME NEW code, Answered(code), code # 0 PROVE Typed'
  BY <1>2, <1>5 DEF Answered
<1>6. CASE NoConnection
  BY <1>5, <1>6, AnswerFacts DEF NoConnection
<1>7. CASE Timeout
  BY <1>5, <1>7, AnswerFacts DEF Timeout
<1>8. ASSUME NEW code \in {201, 400, 500}, NEW fourth \in Fourth, Answer(code, fourth)
      PROVE  Typed'
  BY <1>5, <1>8, AnswerFacts DEF Answer
<1>9. CASE NextLine
  BY <1>2, <1>9 DEF NextLine
<1>10. CASE UNCHANGED vars
  BY <1>2, <1>10 DEF vars
<1>. QED  BY <1>1, <1>3, <1>4, <1>6, <1>7, <1>8, <1>9, <1>10 DEF Next

\* The buffer always ends in a NUL, what is left of a line is less than the line, and an
\* answer is there exactly between a post and the next line.
THEOREM QueuedPostTypeCorrect == Spec => []TypeOK
<1>1. Init => Typed
  BY TypedInit
<1>2. Typed /\ [Next]_vars => Typed'
  BY TypedNext
<1>3. Typed => TypeOK
  BY DEF Typed
<1>. QED  BY <1>1, <1>2, <1>3, PTL DEF Spec

\* Only the answer 201 is accepted, and with it the server has the line.
LEMMA AcceptedNext ==
  ASSUME AcceptedIsStored, [Next]_vars
  PROVE  AcceptedIsStored'
<1>. USE DEF AcceptedIsStored
<1>1. ASSUME NEW ws \in Lines, ReadLine(ws) PROVE AcceptedIsStored'
  BY <1>1 DEF ReadLine
<1>2. CASE EndOfFile \/ RemoveFile \/ NextLine
  BY <1>2 DEF EndOfFile, RemoveFile, NextLine
<1>3. CASE NoConnection
  BY <1>3, AnswerFacts DEF NoConnection, Answered, publishRspCodeAccepted
<1>4. CASE Timeout
  BY <1>4, AnswerFacts DEF Timeout, Answered, publishRspCodeAccepted
<1>5. ASSUME NEW code \in {201, 400, 500}, NEW fourth \in Fourth, Answer(code, fourth)
      PROVE  AcceptedIsStored'
  <2>1. rspCode' = atoi(code, fourth)
    BY <1>5 DEF Answer, Answered
  <2>2. code = 201 => stored' # Nothing
    BY <1>5, ContentIsSomething DEF Answer
  <2>3. publishRspCodeAccepted(rspCode)' => code = 201
    BY <2>1, AnswerFacts DEF publishRspCodeAccepted
  <2>. QED  BY <2>2, <2>3
<1>6. CASE UNCHANGED vars
  BY <1>6 DEF vars, publishRspCodeAccepted
<1>. QED  BY <1>1, <1>2, <1>3, <1>4, <1>5, <1>6 DEF Next

\* A line is forgotten only if the server has it: publishRspCodeAccepted takes no code of
\* the station, and none that the missing terminator of responseCode_char makes of another.
THEOREM AcceptedLineIsStored == Spec => []AcceptedIsStored
<1>1. Init => AcceptedIsStored
  BY DEF Init, AcceptedIsStored
<1>2. AcceptedIsStored /\ [Next]_vars => AcceptedIsStored'
  BY AcceptedNext
<1>. QED  BY <1>1, <1>2, PTL DEF Spec

--------------------------------------------------------------------------------
(* Lines that fit into the buffer.                                         *)

\* The line that is being posted lies in the buffer as it is in the file.
InBuffer ==
  /\ widths \in Lines
  /\ \A p \in 1..Len(Line(widths)) : deszq_line[p] = Line(widths)[p]
  /\ deszq_line[Len(Line(widths)) + 1] = NUL

\* Nothing is ever left of a line, so each read is one of a whole line.
FitInv ==
  /\ Typed /\ rest = <<>> /\ parsed = TRUE
  /\ pc = "read" => InBuffer

\* A line that lies in the buffer is found there where its separators say.
LEMMA BufferHolds ==
  ASSUME LinesFit, Typed, InBuffer
  PROVE  \E k \in Nat \ {0} : \E c :
           widths \in [1..k -> Nat \ {0}] /\ Len(widths) = k /\ Holds(c, widths, k)
<1>1. PICK k \in Nat \ {0} : widths \in [1..k -> Nat \ {0}]
  BY LineFacts DEF InBuffer
<1>2. PICK c : Separates(c, widths, k)
  BY <1>1, SeparatorsExist
<1>3. Laid(widths, c, k)
  BY <1>1, <1>2, LineLaid
<1>. DEFINE L == Line(widths)  e == c[k + 1]
<1>4. e \in Nat /\ Len(L) = e /\ e < LineMax
  <2>1. k + 1 \in 1..(k + 1)
    OBVIOUS
  <2>2. Len(L) < LineMax
    BY DEF LinesFit, InBuffer
  <2>. QED  BY <1>1, <1>2, <1>3, <2>1, <2>2, SeparatorsAscend DEF Laid
<1>5. \A p \in 1..e : At(p) = L[p]
  BY <1>4, NumberFacts DEF InBuffer, At
<1>6. At(e + 1) = NUL
  BY <1>4, NumberFacts DEF InBuffer, At
<1>7. Terminated
  BY DEF Typed, TypeOK, Terminated
<1>8. /\ L \in Seq(Cells) /\ L[1] = <<"line", Status, 1>> /\ L[2] = Comma /\ L[3] = <<"line", Time, 1>>
      /\ \A f \in 1..k : /\ L[c[f]] = Comma
                        /\ \A j \in 1..widths[f] : L[c[f] + j] = <<"line", f, j>>
      /\ L[e] = LF
  BY <1>3 DEF Laid
<1>9. e >= 6
  <2>1. 1 \in 1..k /\ k + 1 \in 1..(k + 1) /\ 1 < k + 1
    OBVIOUS
  <2>2. c[1] + 1 + widths[1] <= e /\ c[1] >= 4 /\ widths[1] >= 1 /\ c[1] \in Nat /\ widths[1] \in Nat
    BY <1>1, <1>2, <2>1, SeparatorFacts
  <2>. HIDE DEF e
  <2>. QED  BY <1>4, <2>2
<1>10. \A p \in 1..e : At(p) \in Cells
  <2>1. \A p \in 1..e : L[p] \in Cells
    <3>. HIDE DEF L, e
    <3>. QED  BY <1>4, <1>8
  <2>. QED  BY <1>5, <2>1
<1>11. /\ At(1) = <<"line", Status, 1>> /\ At(2) = Comma /\ At(3) = <<"line", Time, 1>>
       /\ At(e) = LF
  <2>1. 1 \in 1..e /\ 2 \in 1..e /\ 3 \in 1..e /\ e \in 1..e
    <3>. HIDE DEF e
    <3>. QED  BY <1>4, <1>9
  <2>. QED  BY <1>5, <1>8, <2>1
<1>12. ASSUME NEW f \in 1..k
       PROVE  /\ At(c[f]) = Comma
              /\ \A j \in 1..widths[f] : At(c[f] + j) = <<"line", f, j>>
  <2>1. /\ c[f] \in Nat /\ c[f] >= 4 /\ widths[f] \in Nat /\ c[f] + 1 + widths[f] <= e
    <3>1. f < k + 1 /\ k + 1 \in 1..(k + 1)
      OBVIOUS
    <3>. QED  BY <1>1, <1>2, <3>1, SeparatorFacts
  <2>2. c[f] \in 1..e /\ \A j \in 1..widths[f] : c[f] + j \in 1..e
    <3>. DEFINE x == c[f]  w == widths[f]
    <3>1. x \in Nat /\ x >= 4 /\ w \in Nat /\ x + 1 + w <= e /\ e \in Nat
      BY <1>4, <2>1
    <3>. HIDE DEF x, w, e
    <3>2. x \in 1..e /\ \A j \in 1..w : x + j \in 1..e
      BY <3>1
    <3>. QED  BY <3>2 DEF x, w
  <2>. QED  BY <1>5, <1>8, <2>2
<1>13. Len(widths) = k
  BY <1>1
<1>14. Holds(c, widths, k)
  BY <1>2, <1>4, <1>6, <1>7, <1>10, <1>11, <1>12 DEF Holds
<1>. QED  BY <1>1, <1>13, <1>14

\* What a server that understands the post has of it.
LEMMA ContentIsTheReading ==
  ASSUME LinesFit, StampAsAnnounced, Typed, InBuffer, Understood
  PROVE  /\ Len(widths) = NumVars
         /\ Content = [i \in 1..NumVars |-> Field(i, widths[i])]
<1>1. PICK k \in Nat \ {0} :
        /\ widths \in [1..k -> Nat \ {0}] /\ Len(widths) = k
        /\ \E c : Holds(c, widths, k)
  BY BufferHolds
<1>2. PICK c : Holds(c, widths, k)
  BY <1>1
<1>. QED  BY <1>1, <1>2, UnderstoodIsTheLine

\* Every step keeps the invariant.
LEMMA FitNext ==
  ASSUME LinesFit, FitInv, [Next]_vars
  PROVE  FitInv'
<1>1. Typed'
  BY TypedNext DEF FitInv
<1>2. ASSUME NEW ws \in Lines, ReadLine(ws) PROVE FitInv'
  <2>1. Fgets(Line(ws)) /\ widths' = ws
    BY <1>2 DEF FitInv, ReadLine
  <2>2. /\ Line(ws) \in Seq(Cells) /\ Len(Line(ws)) > 0 /\ Len(Line(ws)) < LineMax
        /\ DOMAIN deszq_line = 1..LineMax /\ Terminated
    BY LineFacts DEF LinesFit, FitInv, Typed, TypeOK, Terminated
  <2>3. /\ rest' = <<>> /\ \A p \in 1..Len(Line(ws)) : deszq_line'[p] = Line(ws)[p]
        /\ deszq_line'[Len(Line(ws)) + 1] = NUL
    BY <2>1, <2>2, FgetsFacts
  <2>4. InBuffer'
    BY <2>1, <2>3 DEF InBuffer
  <2>5. parsed' = TRUE
    <3>1. deszq_line'[1] = Line(ws)[1]
      <4>1. 1 \in 1..Len(Line(ws))
        BY <2>2
      <4>. QED  BY <2>3, <4>1
    <3>2. Line(ws)[1] = <<"line", Status, 1>>
      <4>1. PICK k \in Nat \ {0} : ws \in [1..k -> Nat \ {0}]
        BY LineFacts
      <4>2. PICK c : Separates(c, ws, k)
        BY <4>1, SeparatorsExist
      <4>. QED  BY <4>1, <4>2, LineLaid DEF Laid
    <3>3. IsDigit(deszq_line'[1]) = TRUE
      BY <3>1, <3>2 DEF IsDigit
    <3>. QED  BY <1>2, <3>3 DEF ReadLine
  <2>. QED  BY <1>1, <2>3, <2>4, <2>5 DEF FitInv
<1>3. CASE EndOfFile
  BY <1>1, <1>3 DEF EndOfFile, FitInv
<1>4. CASE RemoveFile
  BY <1>1, <1>4 DEF RemoveFile, FitInv
<1>5. ASSUME NEW code, Answered(code) PROVE FitInv'
  BY <1>1, <1>5 DEF Answered, FitInv
<1>6. CASE NoConnection \/ Timeout
  BY <1>5, <1>6 DEF NoConnection, Timeout
<1>7. ASSUME NEW code \in {201, 400, 500}, NEW fourth \in Fourth, Answer(code, fourth)
      PROVE  FitInv'
  BY <1>5, <1>7 DEF Answer
<1>8. CASE NextLine
  BY <1>1, <1>8 DEF NextLine, FitInv
<1>9. CASE UNCHANGED vars
  <2>1. UNCHANGED <<pc, deszq_line, rest, widths, parsed>>
    BY <1>9 DEF vars
  <2>2. InBuffer' = InBuffer
    BY <2>1 DEF InBuffer
  <2>. QED  BY <1>1, <2>1, <2>2 DEF FitInv
<1>. QED  BY <1>2, <1>3, <1>4, <1>6, <1>7, <1>8, <1>9 DEF Next

\* The invariant holds of every behaviour, if the lines fit.
LEMMA AlwaysFit ==
  ASSUME LinesFit
  PROVE  Spec => []FitInv
<1>1. Init => FitInv
  <2>1. Init => Typed
    BY TypedInit
  <2>. QED  BY <2>1 DEF Init, FitInv
<1>2. FitInv /\ [Next]_vars => FitInv'
  BY FitNext
<1>. QED  BY <1>1, <1>2, PTL DEF Spec

\* A post stores the reading or nothing.
LEMMA StoredNext ==
  ASSUME LinesFit, StampAsAnnounced, FitInv, StoredIsTheReading, [Next]_vars
  PROVE  StoredIsTheReading'
<1>1. ASSUME stored' = Nothing PROVE StoredIsTheReading'
  BY <1>1 DEF StoredIsTheReading
<1>2. ASSUME pc = "read", widths' = widths, Understood, stored' = Content
      PROVE  StoredIsTheReading'
  <2>1. InBuffer /\ Typed
    BY <1>2 DEF FitInv
  <2>2. /\ Len(widths) = NumVars
        /\ Content = [i \in 1..NumVars |-> Field(i, widths[i])]
    BY <1>2, <2>1, ContentIsTheReading
  <2>. QED  BY <1>2, <2>2 DEF StoredIsTheReading
<1>3. ASSUME NEW ws \in Lines, ReadLine(ws) PROVE StoredIsTheReading'
  BY <1>1, <1>3 DEF ReadLine
<1>4. CASE EndOfFile \/ NoConnection \/ NextLine
  BY <1>1, <1>4 DEF EndOfFile, NoConnection, NextLine
<1>5. CASE Timeout
  <2>1. /\ pc = "read" /\ widths' = widths
        /\ stored' \in {Nothing} \cup (IF Understood THEN {Content} ELSE {})
    BY <1>5 DEF Timeout, Answered
  <2>2. stored' = Nothing \/ (Understood /\ stored' = Content)
    BY <2>1
  <2>. QED  BY <1>1, <1>2, <2>1, <2>2
<1>6. ASSUME NEW code \in {201, 400, 500}, NEW fourth \in Fourth, Answer(code, fourth)
      PROVE  StoredIsTheReading'
  <2>1. /\ pc = "read" /\ widths' = widths
        /\ stored' = Nothing \/ (Understood /\ stored' = Content)
    BY <1>6 DEF Answer, Answered
  <2>. QED  BY <1>1, <1>2, <2>1
<1>7. CASE RemoveFile \/ UNCHANGED vars
  BY <1>7 DEF RemoveFile, vars, StoredIsTheReading
<1>. QED  BY <1>3, <1>4, <1>5, <1>6, <1>7 DEF Next

\* What the server has of a line are all the values of that line, whole and each under its
\* own key, whatever other lines the buffer has held and whatever the array was when the
\* line was written, if the lines fit into the buffer and the time stamp has the announced
\* length.
THEOREM StoredPostIsTheReading ==
  ASSUME LinesFit, StampAsAnnounced
  PROVE  Spec => []StoredIsTheReading
<1>1. Init => StoredIsTheReading
  BY DEF Init, StoredIsTheReading
<1>2. FitInv /\ StoredIsTheReading /\ [Next]_vars => StoredIsTheReading'
  BY StoredNext
<1>3. Spec => []FitInv
  BY AlwaysFit
<1>. QED  BY <1>1, <1>2, <1>3, PTL DEF Spec

\* calculateJsonSize announces what mmwPostDataQued prints, for every line with a value for
\* each variable of the array, if there is more than one variable, the lines fit and the
\* logger's time zone is one whose stamp has the 25 characters announced for it: not UTC.
THEOREM AnnouncedIsPrinted ==
  ASSUME LinesFit, NumVars > 1, StampAsAnnounced
  PROVE  Spec => []LengthsAgree
<1>1. FitInv => LengthsAgree
  <2>. SUFFICES ASSUME FitInv, pc = "read", Len(widths) = NumVars
                PROVE  calculateJsonSize = BodySize
    BY DEF LengthsAgree
  <2>1. Typed /\ InBuffer
    BY DEF FitInv
  <2>2. PICK k \in Nat \ {0} :
          /\ widths \in [1..k -> Nat \ {0}] /\ Len(widths) = k
          /\ \E c : Holds(c, widths, k)
    BY <2>1, BufferHolds
  <2>3. PICK c : Holds(c, widths, k)
    BY <2>2
  <2>. QED  BY <2>2, <2>3, AgreeInLine
<1>2. Spec => []FitInv
  BY AlwaysFit
<1>. QED  BY <1>1, <1>2, PTL

\* deszLine fails on no line, so that the loop over the file does not end before the file
\* does, and the file is not removed with lines in it that nobody has read, if the lines fit.
THEOREM NoLineStopsTheLoop ==
  ASSUME LinesFit
  PROVE  Spec => []EveryLineIsRead
<1>1. FitInv => EveryLineIsRead
  BY DEF FitInv, EveryLineIsRead
<1>2. Spec => []FitInv
  BY AlwaysFit
<1>. QED  BY <1>1, <1>2, PTL
================================================================================
