--------------------- MODULE ReliableDelivery_order_proofs ---------------------
(***************************************************************************)
(* That the queue holds no line twice, keeps the order of the lines, and   *)
(* sends nothing again that was acknowledged, that a queue file keeps to   *)
(* its limit, and that the queue keeps the contract of DeliveryContract,   *)
(* for every value of the constants.                                       *)
(***************************************************************************)
EXTENDS ReliableDelivery_proofs, FiniteSetTheorems

--------------------------------------------------------------------------------
(* The order of the lines of a file.                                       *)

\* Line x stands somewhere before line y in s.
Precedes(s, x, y) ==
  \E i, j \in 1..Len(s) : i < j /\ s[i] = x /\ s[j] = y

\* No line stands before itself.
Distinct(s) == \A x : ~Precedes(s, x, x)

\* s holds some of the lines of t, in the order they have there.
Excerpt(s, t) ==
  /\ ToSet(s) \subseteq ToSet(t)
  /\ \A x, y : Precedes(s, x, y) => Precedes(t, x, y)

\* A file has no line twice if no position repeats another.
LEMMA DistinctIsInjective ==
  ASSUME NEW S, NEW s \in Seq(S)
  PROVE  Distinct(s) <=> IsInjective(s)
<1>1. DOMAIN s = 1..Len(s) /\ Len(s) \in Nat
  OBVIOUS
<1>2. ASSUME Distinct(s), NEW i \in 1..Len(s), NEW j \in 1..Len(s), s[i] = s[j]
      PROVE  i = j
  <2>1. ~(i < j) /\ ~(j < i)
    BY <1>2 DEF Distinct, Precedes
  <2>. QED  BY <2>1, <1>1
<1>3. ASSUME IsInjective(s) PROVE Distinct(s)
  <2>. SUFFICES ASSUME NEW i \in 1..Len(s), NEW j \in 1..Len(s), i < j, s[i] = s[j]
                PROVE  FALSE
    BY DEF Distinct, Precedes
  <2>1. i = j
    BY <1>3, <1>1 DEF IsInjective
  <2>. QED  BY <2>1, <1>1
<1>. QED  BY <1>1, <1>2, <1>3 DEF IsInjective

\* Only lines of the file stand before one another in it.
LEMMA PrecedesInFile ==
  ASSUME NEW S, NEW s \in Seq(S), NEW x, NEW y, Precedes(s, x, y)
  PROVE  x \in ToSet(s) /\ y \in ToSet(s)
  BY ToSetDef DEF Precedes

\* Of two lines of a file without repetitions only one stands before the other.
LEMMA PrecedesOneWay ==
  ASSUME NEW S, NEW s \in Seq(S), Distinct(s), NEW x, NEW y, Precedes(s, x, y)
  PROVE  ~Precedes(s, y, x)
<1>. SUFFICES ASSUME Precedes(s, y, x) PROVE FALSE
  OBVIOUS
<1>1. PICK i, j \in 1..Len(s) : i < j /\ s[i] = x /\ s[j] = y
  BY DEF Precedes
<1>2. PICK k, l \in 1..Len(s) : k < l /\ s[k] = y /\ s[l] = x
  BY DEF Precedes
<1>3. DOMAIN s = 1..Len(s) /\ Len(s) \in Nat /\ IsInjective(s)
  BY DistinctIsInjective
<1>4. i = l /\ j = k
  BY <1>1, <1>2, <1>3 DEF IsInjective
<1>. QED  BY <1>1, <1>2, <1>4, <1>3

\* An empty file and a file of one line.
LEMMA PrecedesOne ==
  /\ \A x, y : ~Precedes(<<>>, x, y)
  /\ \A e, x, y : ~Precedes(<<e>>, x, y)
<1>1. Len(<<>>) = 0 /\ \A e : Len(<<e>>) = 1
  OBVIOUS
<1>. QED  BY <1>1 DEF Precedes

\* Two files one after the other.
LEMMA PrecedesConcat ==
  ASSUME NEW S, NEW s \in Seq(S), NEW t \in Seq(S), NEW x, NEW y
  PROVE  Precedes(s \o t, x, y) <=>
           \/ Precedes(s, x, y) \/ Precedes(t, x, y)
           \/ x \in ToSet(s) /\ y \in ToSet(t)
<1>0. /\ s \o t \in Seq(S) /\ Len(s \o t) = Len(s) + Len(t)
      /\ Len(s) \in Nat /\ Len(t) \in Nat
  OBVIOUS
<1>a. \A i \in 1..Len(s) : i \in 1..Len(s \o t) /\ (s \o t)[i] = s[i]
  BY <1>0
<1>b. \A i \in 1..Len(t) : /\ Len(s) + i \in 1..Len(s \o t)
                           /\ (s \o t)[Len(s) + i] = t[i]
  BY <1>0
<1>c. \A i \in 1..Len(s \o t) : i \notin 1..Len(s) =>
         /\ i - Len(s) \in 1..Len(t) /\ (s \o t)[i] = t[i - Len(s)]
         /\ i > Len(s)
  BY <1>0
<1>1. ASSUME Precedes(s, x, y) PROVE Precedes(s \o t, x, y)
  BY <1>1, <1>a DEF Precedes
<1>2. ASSUME Precedes(t, x, y) PROVE Precedes(s \o t, x, y)
  <2>1. PICK i, j \in 1..Len(t) : i < j /\ t[i] = x /\ t[j] = y
    BY <1>2 DEF Precedes
  <2>2. Len(s) + i < Len(s) + j
    BY <2>1, <1>0
  <2>. QED  BY <2>1, <2>2, <1>b DEF Precedes
<1>3. ASSUME x \in ToSet(s), y \in ToSet(t) PROVE Precedes(s \o t, x, y)
  <2>1. PICK i \in 1..Len(s) : x = s[i]
    BY <1>3, ToSetDef
  <2>2. PICK j \in 1..Len(t) : y = t[j]
    BY <1>3, ToSetDef
  <2>3. i < Len(s) + j
    BY <1>0
  <2>. QED  BY <2>1, <2>2, <2>3, <1>a, <1>b DEF Precedes
<1>4. ASSUME Precedes(s \o t, x, y)
      PROVE  \/ Precedes(s, x, y) \/ Precedes(t, x, y)
             \/ x \in ToSet(s) /\ y \in ToSet(t)
  <2>1. PICK i, j \in 1..Len(s \o t) : i < j /\ (s \o t)[i] = x /\ (s \o t)[j] = y
    BY <1>4 DEF Precedes
  <2>2. CASE i \in 1..Len(s) /\ j \in 1..Len(s)
    BY <2>1, <2>2, <1>a DEF Precedes
  <2>3. CASE i \in 1..Len(s) /\ j \notin 1..Len(s)
    BY <2>1, <2>3, <1>a, <1>c, ToSetDef
  <2>4. CASE i \notin 1..Len(s)
    <3>1. j \notin 1..Len(s) /\ i - Len(s) < j - Len(s)
      BY <2>1, <2>4, <1>0
    <3>. QED  BY <2>1, <2>4, <3>1, <1>c DEF Precedes
  <2>. QED  BY <2>2, <2>3, <2>4
<1>. QED  BY <1>1, <1>2, <1>3, <1>4

\* Neither of two files repeats a line of itself or of the other.
LEMMA DistinctConcat ==
  ASSUME NEW S, NEW s \in Seq(S), NEW t \in Seq(S)
  PROVE  Distinct(s \o t) <=>
           Distinct(s) /\ Distinct(t) /\ ToSet(s) \cap ToSet(t) = {}
<1>1. \A x : Precedes(s \o t, x, x) <=>
         \/ Precedes(s, x, x) \/ Precedes(t, x, x)
         \/ x \in ToSet(s) /\ x \in ToSet(t)
  BY PrecedesConcat
<1>. QED  BY <1>1 DEF Distinct

--------------------------------------------------------------------------------
(* Excerpts.                                                               *)

LEMMA ExcerptItself ==
  ASSUME NEW s
  PROVE  Excerpt(s, s) /\ Excerpt(<<>>, s)
  BY PrecedesOne, ToSetOne DEF Excerpt

LEMMA ExcerptTransitive ==
  ASSUME NEW s, NEW t, NEW u, Excerpt(s, t), Excerpt(t, u)
  PROVE  Excerpt(s, u)
  BY DEF Excerpt

LEMMA ExcerptDistinct ==
  ASSUME NEW s, NEW t, Excerpt(s, t), Distinct(t)
  PROVE  Distinct(s)
  BY DEF Excerpt, Distinct

LEMMA ExcerptConcat ==
  ASSUME NEW S, NEW s \in Seq(S), NEW t \in Seq(S), NEW u \in Seq(S), NEW v \in Seq(S),
         Excerpt(s, u), Excerpt(t, v)
  PROVE  Excerpt(s \o t, u \o v)
<1>1. /\ ToSet(s \o t) = ToSet(s) \cup ToSet(t)
      /\ ToSet(u \o v) = ToSet(u) \cup ToSet(v)
  BY ToSetConcat
<1>2. \A x, y : Precedes(s \o t, x, y) <=>
           \/ Precedes(s, x, y) \/ Precedes(t, x, y)
           \/ x \in ToSet(s) /\ y \in ToSet(t)
  BY PrecedesConcat
<1>3. \A x, y : Precedes(u \o v, x, y) <=>
           \/ Precedes(u, x, y) \/ Precedes(v, x, y)
           \/ x \in ToSet(u) /\ y \in ToSet(v)
  BY PrecedesConcat
<1>. QED  BY <1>1, <1>2, <1>3 DEF Excerpt

\* Joining files is associative, and an empty one adds nothing.
LEMMA JoinFiles ==
  \A s, t, u \in Seq(Reading) : (s \o t) \o u = s \o (t \o u)
  OBVIOUS

\* A file one line of which has been read.
LEMMA ExcerptTail ==
  ASSUME NEW S, NEW s \in Seq(S), s # <<>>
  PROVE  /\ s = <<Head(s)>> \o Tail(s) /\ <<Head(s)>> \in Seq(S) /\ Tail(s) \in Seq(S)
         /\ Excerpt(Tail(s), s)
<1>1. s = <<Head(s)>> \o Tail(s) /\ <<Head(s)>> \in Seq(S) /\ Tail(s) \in Seq(S)
  OBVIOUS
<1>2. Excerpt(<<>>, <<Head(s)>>) /\ Excerpt(Tail(s), Tail(s)) /\ <<>> \in Seq(S)
  BY ExcerptItself
<1>3. Excerpt(<<>> \o Tail(s), <<Head(s)>> \o Tail(s))
  BY <1>1, <1>2, ExcerptConcat
<1>4. <<>> \o Tail(s) = Tail(s)
  BY <1>1
<1>. QED  BY <1>1, <1>3, <1>4

\* What a flush copies.
LEMMA ExcerptKept ==
  ASSUME rest \in Seq(Reading)
  PROVE  Excerpt(Kept, rest)
<1>. DEFINE k == SubSeq(rest, 1, SendQueSz)
<1>1. CASE Kept = rest
  BY <1>1, ExcerptItself
<1>2. CASE Kept = k /\ Len(rest) > SendQueSz
  <2>1. k \in Seq(Reading) /\ Len(k) = SendQueSz
        /\ \A i \in 1..Len(k) : k[i] = rest[i] /\ i \in 1..Len(rest)
    BY <1>2, DeliveryAssumption
  <2>. HIDE DEF k
  <2>2. \A x, y : Precedes(k, x, y) => Precedes(rest, x, y)
    BY <2>1 DEF Precedes
  <2>. QED  BY <2>2, <1>2, KeptType DEF Excerpt
<1>. QED  BY <1>1, <1>2, DeliveryAssumption DEF Kept

\* Two excerpts of one file agree on the order of the lines they share.
LEMMA ExcerptsAgree ==
  ASSUME NEW S, NEW s \in Seq(S), NEW t \in Seq(S), NEW u \in Seq(S),
         Distinct(u), Excerpt(s, u), Excerpt(t, u)
  PROVE  \A i, j \in 1..Len(s) : \A k, l \in 1..Len(t) :
            i < j /\ t[k] = s[i] /\ t[l] = s[j] => k < l
<1>. SUFFICES ASSUME NEW i \in 1..Len(s), NEW j \in 1..Len(s),
                     NEW k \in 1..Len(t), NEW l \in 1..Len(t),
                     i < j, t[k] = s[i], t[l] = s[j], ~(k < l)
              PROVE  FALSE
  OBVIOUS
<1>1. Precedes(u, s[i], s[j])
  BY DEF Precedes, Excerpt
<1>2. CASE k = l
  BY <1>1, <1>2 DEF Distinct
<1>3. CASE l < k
  <2>1. Precedes(t, s[j], s[i])
    BY <1>3 DEF Precedes
  <2>2. Precedes(u, s[j], s[i])
    BY <2>1 DEF Excerpt
  <2>. QED  BY <1>1, <2>2, PrecedesOneWay
<1>. QED  BY <1>2, <1>3

--------------------------------------------------------------------------------
(* The order of the files during a pass.                                   *)

\* Each file of its own is in order, and what a pass has made of one is an excerpt of
\* it, so that neither a flush nor a reset can bring lines out of order or back twice.
Ordered ==
  /\ Distinct(rdel) /\ hand \notin ToSet(rdel)
  /\ \A p \in Publisher : /\ Distinct(que[p]) /\ hand \notin ToSet(que[p])
                          /\ ToSet(que[p]) \cap ToSet(rdel) = {}
  /\ pc \notin {"idle", "logged"} /\ (pc # "forward" \/ pub # 1) => rdel = <<>>
  /\ pc = "forward" => Excerpt(tail \o rest, rdel)
  /\ pc = "removed" => Distinct(que[pub] \o tail)
  /\ pc = "retry" => Excerpt(rest, que[pub]) /\ (posted = 0 => rest = que[pub])
  /\ pc = "flush" => Excerpt(AsLines(line) \o rest, que[pub])
  /\ pc = "copied" => Excerpt(tmp, que[pub])
  /\ pc = "renamed" => Distinct(tmp) /\ que[pub] = <<>>

OrdInv == IndInv /\ Ordered

LEMMA NoLineInNoFile ==
  ASSUME NEW s \in Seq(Reading)
  PROVE  NoLine \notin ToSet(s)
  BY ToSetType, DeliveryAssumption

LEMMA EmptyFile ==
  /\ Distinct(<<>>) /\ ToSet(<<>>) = {} /\ <<>> \in Seq(Reading)
  /\ \A e : Distinct(<<e>>) /\ ToSet(<<e>>) = {e}
  BY PrecedesOne, ToSetOne DEF Distinct

\* What publisher p can still be sent, step by step.
UnsentForm(p) ==
  /\ Unsent(p) \in Seq(Reading)
  /\ pc \in {"idle", "logged"} => Unsent(p) = que[p] \o rdel \o AsLines(hand)
  /\ pc \notin {"idle", "logged"} /\ p < pub => Unsent(p) = que[p]
  /\ pc \notin {"idle", "logged"} /\ p > pub => Unsent(p) = que[p] \o rdel
  /\ p = pub =>
       /\ pc \in {"forward", "removed"} => Unsent(p) = que[p] \o tail \o rest
       /\ pc = "done" => Unsent(p) = que[p]
       /\ pc \in {"retry", "flush"} => Unsent(p) = AsLines(line) \o rest
       /\ pc \in {"copied", "renamed"} => Unsent(p) = tmp

LEMMA UnsentHasForm ==
  ASSUME TypeOK, NEW p \in Publisher
  PROVE  UnsentForm(p)
<1>0. /\ que[p] \in Seq(Reading) /\ rdel \in Seq(Reading) /\ tail \in Seq(Reading)
      /\ rest \in Seq(Reading) /\ tmp \in Seq(Reading)
      /\ AsLines(line) \in Seq(Reading) /\ AsLines(hand) \in Seq(Reading)
  BY ToSetAsLines DEF TypeOK
<1>b. pub \in Nat /\ p \in Nat
  BY DeliveryAssumption DEF TypeOK, Publisher
<1>c. /\ p < pub => ~(p > pub) /\ p # pub
      /\ p > pub => ~(p < pub) /\ p # pub
      /\ p = pub => ~(p < pub) /\ ~(p > pub)
      /\ p < pub \/ p > pub \/ p = pub
  BY <1>b
<1>1. /\ que[p] \o rdel \in Seq(Reading) /\ que[p] \o rdel \o AsLines(hand) \in Seq(Reading)
      /\ que[p] \o tail \o rest \in Seq(Reading) /\ AsLines(line) \o rest \in Seq(Reading)
  <2>1. \A s, t \in Seq(Reading) : s \o t \in Seq(Reading)
    OBVIOUS
  <2>. QED  BY <1>0, <2>1
<1>2. CASE pc \in {"idle", "logged"}
  BY <1>1, <1>0, <1>c, <1>2 DEF Unsent, UnsentForm
<1>3. CASE pc \notin {"idle", "logged"} /\ p < pub
  BY <1>1, <1>0, <1>c, <1>3 DEF Unsent, UnsentForm
<1>4. CASE pc \notin {"idle", "logged"} /\ p > pub
  BY <1>1, <1>0, <1>c, <1>4 DEF Unsent, UnsentForm
<1>5. CASE p = pub /\ pc \in {"forward", "removed"}
  BY <1>1, <1>0, <1>c, <1>5 DEF Unsent, UnsentForm
<1>6. CASE p = pub /\ pc = "done"
  BY <1>1, <1>0, <1>c, <1>6 DEF Unsent, UnsentForm
<1>7. CASE p = pub /\ pc \in {"retry", "flush"}
  BY <1>1, <1>0, <1>c, <1>7 DEF Unsent, UnsentForm
<1>8. CASE p = pub /\ pc \in {"copied", "renamed"}
  BY <1>1, <1>0, <1>c, <1>8 DEF Unsent, UnsentForm
<1>. QED
  BY <1>c, <1>2, <1>3, <1>4, <1>5, <1>6, <1>7, <1>8 DEF TypeOK, Steps

LEMMA UnsentHasFormNext == TypeOK' => (\A p \in Publisher : UnsentForm(p))'
<1>1. TypeOK => \A p \in Publisher : UnsentForm(p)
  BY UnsentHasForm
<1>. QED  BY <1>1, PTL

--------------------------------------------------------------------------------
(* Every step keeps the files in order.                                    *)

\* A new reading is on no file.
LEMMA OrdLogReading ==
  ASSUME OrdInv, NEW r \in Reading, LogReading(r)
  PROVE  Ordered'
<1>. USE DEF OrdInv, IndInv, LogReading, card
<1>1. \A p \in Publisher : r \notin ToSet(que[p]) \cup ToSet(rdel)
  <2>. TAKE p \in Publisher
  <2>0. /\ que[p] \in Seq(Reading) /\ rdel \in Seq(Reading)
        /\ AsLines(hand) \in Seq(Reading)
    BY ToSetAsLines DEF TypeOK
  <2>1. Held(p) = ToSet(que[p] \o rdel \o AsLines(hand))
    BY UnsentHasForm DEF UnsentForm, Held
  <2>2. ToSet(que[p]) \cup ToSet(rdel) \subseteq Held(p)
    BY <2>0, <2>1, ToSetConcatThree
  <2>. QED  BY <2>2
<1>2. r \notin ToSet(rdel)
  BY <1>1, DeliveryAssumption DEF Publisher
<1>. QED  BY <1>1, <1>2 DEF Ordered

\* It becomes the last line of RDELAY.TXT.
LEMMA OrdSerzRdelLine ==
  ASSUME OrdInv, SerzRdelLine
  PROVE  Ordered'
<1>. USE DEF OrdInv, IndInv, SerzRdelLine
<1>1. hand \in Reading /\ rdel \in Seq(Reading) /\ <<hand>> \in Seq(Reading)
  BY DEF TypeOK, Backed
<1>2. rdel' = rdel \o <<hand>> /\ rdel' \in Seq(Reading)
  BY <1>1
<1>3. Distinct(rdel') /\ ToSet(rdel') = ToSet(rdel) \cup {hand}
  <2>1. /\ Distinct(rdel) /\ Distinct(<<hand>>)
        /\ ToSet(rdel) \cap ToSet(<<hand>>) = {} /\ ToSet(<<hand>>) = {hand}
    BY EmptyFile DEF Ordered
  <2>2. Distinct(rdel \o <<hand>>)
    BY <1>1, <2>1, DistinctConcat
  <2>3. ToSet(rdel \o <<hand>>) = ToSet(rdel) \cup ToSet(<<hand>>)
    BY <1>1, ToSetConcat
  <2>. QED  BY <1>2, <2>1, <2>2, <2>3
<1>4. NoLine \notin ToSet(rdel') /\ \A p \in Publisher : NoLine \notin ToSet(que[p])
  BY <1>2, NoLineInNoFile DEF TypeOK
<1>. QED  BY <1>3, <1>4 DEF Ordered

\* The files of a pass are opened.
LEMMA OrdOpen ==
  ASSUME OrdInv, (\E c \in BOOLEAN : StartPass(c)) \/ NextPublisher
  PROVE  Ordered'
<1>. USE DEF OrdInv, IndInv, OpenFiles, card
<1>1. pc' = "forward" /\ que' = que /\ rdel' = rdel /\ hand' = hand
      /\ tail' = <<>> /\ rest' = rdel /\ rdel \in Seq(Reading)
      /\ (pub' # 1 => pc = "done")
  BY DEF StartPass, NextPublisher, TypeOK
<1>2. tail' \o rest' = rdel
  BY <1>1
<1>3. Excerpt(tail' \o rest', rdel')
  BY <1>1, <1>2, ExcerptItself
<1>. QED  BY <1>1, <1>3 DEF Ordered

\* A pass ends, or a reset ends it.
LEMMA OrdPassOver ==
  ASSUME OrdInv, EndPass \/ Reset
  PROVE  Ordered'
<1>. USE DEF OrdInv, IndInv, card
<1>1. pc' = "idle" /\ que' = que /\ rdel' = rdel /\ hand' \in {hand, NoLine}
  BY DEF EndPass, Reset, PassOver
<1>2. NoLine \notin ToSet(rdel) /\ \A p \in Publisher : NoLine \notin ToSet(que[p])
  BY NoLineInNoFile DEF TypeOK
<1>. QED  BY <1>1, <1>2 DEF Ordered

\* A line of RDELAY.TXT is posted or goes to the end of QUEn.TXT.
LEMMA OrdForward ==
  ASSUME OrdInv, ForwardAccepted \/ ForwardRefused
  PROVE  Ordered'
<1>. USE DEF OrdInv, IndInv, ForwardAccepted, ForwardRefused, card
<1>0. /\ pc = "forward" /\ pc' = pc /\ pub' = pub /\ que' = que /\ rdel' = rdel /\ hand' = hand
      /\ rest # <<>> /\ rest' = Tail(rest)
      /\ tail \in Seq(Reading) /\ rest \in Seq(Reading)
  BY DEF TypeOK
<1>1. /\ rest = <<Head(rest)>> \o Tail(rest) /\ <<Head(rest)>> \in Seq(Reading)
      /\ Tail(rest) \in Seq(Reading) /\ Excerpt(Tail(rest), rest)
  BY <1>0, ExcerptTail
<1>2. Excerpt(tail' \o rest', tail \o rest)
  <2>1. CASE tail' = tail
    BY <2>1, <1>0, <1>1, ExcerptItself, ExcerptConcat
  <2>2. CASE tail' = Append(tail, Head(rest))
    <3>1. tail' \o rest' = tail \o rest
      BY <2>2, <1>0, <1>1
    <3>. QED  BY <3>1, ExcerptItself
  <2>. QED  BY <2>1, <2>2
<1>3. Excerpt(tail' \o rest', rdel)
  BY <1>0, <1>2, ExcerptTransitive DEF Ordered
<1>. QED  BY <1>0, <1>3 DEF Ordered

\* What goes to QUEn.TXT is in the order of RDELAY.TXT.
LEMMA OrdRemoveRdel ==
  ASSUME OrdInv, RemoveRdel
  PROVE  Ordered'
<1>. USE DEF OrdInv, IndInv, RemoveRdel
<1>0. /\ tail \in Seq(Reading) /\ que[pub] \in Seq(Reading) /\ pub \in Publisher
      /\ hand' = hand /\ que' = que /\ tail' = tail /\ pub' = pub /\ rdel' = <<>> /\ pc' = "removed"
  BY DEF TypeOK
<1>1. tail \o rest = tail
  BY <1>0
<1>2. Excerpt(tail, rdel)
  BY <1>1 DEF Ordered
<1>3. Distinct(tail) /\ ToSet(que[pub]) \cap ToSet(tail) = {} /\ Distinct(que[pub])
  BY <1>0, <1>2, ExcerptDistinct DEF Ordered, Excerpt
<1>4. Distinct(que'[pub'] \o tail')
  BY <1>0, <1>3, DistinctConcat
<1>. QED  BY <1>0, <1>4, EmptyFile DEF Ordered

\* The lines of QUEn.TXT are now on the card, and are read from the first.
LEMMA OrdCloseQue ==
  ASSUME OrdInv, CloseQue
  PROVE  Ordered'
<1>. USE DEF OrdInv, IndInv, CloseQue
<1>0. /\ tail \in Seq(Reading) /\ que[pub] \in Seq(Reading) /\ pub \in Publisher
      /\ rdel = <<>> /\ rdel' = rdel /\ pub' = pub /\ posted' = 0
      /\ pc' \in {"retry", "done"} /\ (pc' = "retry" => rest' = que'[pub])
  BY DEF TypeOK, Ordered
<1>1. /\ que'[pub] = que[pub] \o tail
      /\ \A p \in Publisher : p # pub => que'[p] = que[p]
  BY <1>0 DEF TypeOK
<1>2. \A p \in Publisher : Distinct(que'[p])
  BY <1>1 DEF Ordered
<1>3. hand' = NoLine /\ \A p \in Publisher : que'[p] \in Seq(Reading)
  <2>1. que[pub] \o tail \in Seq(Reading)
    BY <1>0
  <2>. QED  BY <1>1, <2>1 DEF Backed, TypeOK
<1>4. \A p \in Publisher : hand' \notin ToSet(que'[p])
  BY <1>3, NoLineInNoFile
<1>. QED  BY <1>0, <1>2, <1>3, <1>4, EmptyFile, ExcerptItself DEF Ordered

\* A line of QUEn.TXT is posted.
LEMMA OrdRetryAccepted ==
  ASSUME OrdInv, NEW low \in BOOLEAN, RetryAccepted(low)
  PROVE  Ordered'
<1>. USE DEF OrdInv, IndInv, RetryAccepted, card
<1>0. /\ rest \in Seq(Reading) /\ rest # <<>> /\ posted \in Nat /\ line = NoLine
      /\ Excerpt(rest, que[pub]) /\ posted' = posted + 1 /\ posted' # 0
      /\ pc' \in {"retry", "flush"} /\ rest' = Tail(rest)
  BY DEF TypeOK, Backed, Ordered
<1>1. Excerpt(rest', que[pub]) /\ rest' \in Seq(Reading)
  BY <1>0, ExcerptTail, ExcerptTransitive
<1>2. AsLines(line') \o rest' = rest'
  BY <1>0, <1>1 DEF AsLines
<1>. QED  BY <1>0, <1>1, <1>2 DEF Ordered

\* A retry is refused and its line kept in front of the others; or all are read.
LEMMA OrdRetryStopped ==
  ASSUME OrdInv, RetryRefused \/ RetryEnd
  PROVE  Ordered'
<1>. USE DEF OrdInv, IndInv, RetryRefused, RetryEnd, AfterRetry, card
<1>0. /\ rest \in Seq(Reading) /\ Excerpt(rest, que[pub])
      /\ pc' \in {"flush", "done"} /\ que' = que /\ pub' = pub /\ rdel' = rdel /\ hand' = hand
      /\ pc = "retry"
  BY DEF TypeOK, Ordered
<1>1. AsLines(line') \o rest' = rest
  <2>1. CASE RetryRefused
    <3>1. /\ rest = <<Head(rest)>> \o Tail(rest) /\ Head(rest) \in Reading
          /\ line' = Head(rest) /\ rest' = Tail(rest)
      BY <2>1, <1>0
    <3>. QED  BY <3>1, DeliveryAssumption DEF AsLines
  <2>2. CASE RetryEnd
    BY <2>2 DEF AsLines
  <2>. QED  BY <2>1, <2>2
<1>. QED  BY <1>0, <1>1 DEF Ordered

\* TMP01.TXT is an excerpt of QUEn.TXT and takes its place.
LEMMA OrdFlush ==
  ASSUME OrdInv, CopyUnsent \/ RenameQue \/ RenameTmp
  PROVE  Ordered'
<1>. USE DEF OrdInv, IndInv, card, buffers
<1>1. CASE CopyUnsent
  <2>0. /\ rest \in Seq(Reading) /\ Excerpt(AsLines(line) \o rest, que[pub])
        /\ Kept \in Seq(Reading) /\ AsLines(line) \in Seq(Reading)
    BY <1>1, KeptType, ToSetAsLines DEF CopyUnsent, TypeOK, Ordered
  <2>1. Excerpt(AsLines(line) \o Kept, AsLines(line) \o rest)
    BY <2>0, ExcerptKept, ExcerptItself, ExcerptConcat
  <2>2. Excerpt(tmp', que[pub])
    BY <1>1, <2>0, <2>1, ExcerptTransitive DEF CopyUnsent
  <2>. QED  BY <1>1, <2>2 DEF CopyUnsent, Ordered
<1>2. CASE RenameQue
  <2>1. /\ que'[pub] = <<>> /\ \A p \in Publisher : p # pub => que'[p] = que[p]
        /\ pub \in Publisher
    BY <1>2 DEF RenameQue, TypeOK
  <2>2. Distinct(tmp)
    BY <1>2, <2>1, ExcerptDistinct DEF RenameQue, Ordered
  <2>. QED  BY <1>2, <2>1, <2>2, EmptyFile DEF RenameQue, Ordered
<1>3. CASE RenameTmp
  <2>1. /\ que'[pub] = tmp /\ \A p \in Publisher : p # pub => que'[p] = que[p]
        /\ tmp \in Seq(Reading) /\ Distinct(tmp) /\ rdel = <<>> /\ hand = NoLine
    BY <1>3 DEF RenameTmp, TypeOK, Ordered, Backed
  <2>2. NoLine \notin ToSet(tmp)
    BY <2>1, NoLineInNoFile
  <2>. QED  BY <1>3, <2>1, <2>2, EmptyFile DEF RenameTmp, Ordered
<1>. QED  BY <1>1, <1>2, <1>3

\* Nothing that is on a file or read from one changes.
LEMMA OrdUnchanged ==
  ASSUME OrdInv, ServerRecovers \/ UNCHANGED vars
  PROVE  Ordered'
<1>. USE DEF OrdInv, vars, card, buffers, limits
<1>1. UNCHANGED <<rdel, que, tail, tmp, rest, line, hand, pc, pub, posted>>
  BY DEF ServerRecovers
<1>. QED  BY <1>1 DEF Ordered, AsLines

LEMMA OrdStep == OrdInv /\ [Next]_vars => OrdInv'
<1>. SUFFICES ASSUME OrdInv, [Next]_vars PROVE Ordered'
  BY IndStep DEF OrdInv
<1>1. ASSUME Proceed PROVE Ordered'
  BY <1>1, OrdSerzRdelLine, OrdForward, OrdRemoveRdel, OrdCloseQue, OrdRetryAccepted,
     OrdRetryStopped, OrdFlush, OrdOpen, OrdPassOver
  DEF Proceed, Forward, Retry, Flush
<1>. QED
  BY <1>1, OrdLogReading, OrdOpen, OrdPassOver, OrdUnchanged DEF Next

LEMMA OrdInit == Init => OrdInv
<1>. SUFFICES ASSUME Init PROVE Ordered
  BY IndInit DEF OrdInv
<1>. QED  BY EmptyFile DEF Init, Ordered

LEMMA OrdAlways == Spec => []OrdInv
  BY OrdInit, OrdStep, PTL DEF Spec

--------------------------------------------------------------------------------
(* What each step does to the lines publisher p can still be sent.         *)

\* The files of publisher p, and its place among the publishers.
Files(p) ==
  /\ que[p] \in Seq(Reading) /\ rdel \in Seq(Reading) /\ tail \in Seq(Reading)
  /\ rest \in Seq(Reading) /\ tmp \in Seq(Reading)
  /\ AsLines(line) \in Seq(Reading) /\ AsLines(hand) \in Seq(Reading)
  /\ p < pub \/ p = pub \/ p > pub

LEMMA FilesType ==
  ASSUME TypeOK, NEW p \in Publisher
  PROVE  Files(p)
<1>1. /\ que[p] \in Seq(Reading) /\ rdel \in Seq(Reading) /\ tail \in Seq(Reading)
      /\ rest \in Seq(Reading) /\ tmp \in Seq(Reading)
      /\ AsLines(line) \in Seq(Reading) /\ AsLines(hand) \in Seq(Reading)
  BY ToSetAsLines DEF TypeOK
<1>2. p < pub \/ p = pub \/ p > pub
  BY DeliveryAssumption DEF TypeOK, Publisher
<1>. QED  BY <1>1, <1>2 DEF Files

LEMMA JoinedFiles ==
  ASSUME NEW p \in Publisher, Files(p)
  PROVE  /\ que[p] \o tail \o rest = que[p] \o (tail \o rest)
         /\ \A s, t \in Seq(Reading) :
              que[p] \o (tail \o s) \o t = que[p] \o tail \o (s \o t)
         /\ \A s \in Seq(Reading) : que[p] \o (rdel \o s) \o <<>> = que[p] \o rdel \o s
<1>1. que[p] \in Seq(Reading) /\ tail \in Seq(Reading) /\ rest \in Seq(Reading)
      /\ rdel \in Seq(Reading)
  BY DEF Files
<1>2. que[p] \o tail \o rest = que[p] \o (tail \o rest)
  BY <1>1, JoinFiles, ZenonT(60)
<1>3. ASSUME NEW s \in Seq(Reading), NEW t \in Seq(Reading)
      PROVE  que[p] \o (tail \o s) \o t = que[p] \o tail \o (s \o t)
  <2>1. que[p] \o (tail \o s) = que[p] \o tail \o s
    BY <1>1, JoinFiles, ZenonT(60)
  <2>2. que[p] \o tail \in Seq(Reading)
    BY <1>1
  <2>3. que[p] \o tail \o s \o t = que[p] \o tail \o (s \o t)
    BY <2>2, JoinFiles, ZenonT(60)
  <2>. QED  BY <2>1, <2>3, Zenon
<1>4. ASSUME NEW s \in Seq(Reading)
      PROVE  que[p] \o (rdel \o s) \o <<>> = que[p] \o rdel \o s
  <2>1. que[p] \o (rdel \o s) = que[p] \o rdel \o s
    BY <1>1, JoinFiles, ZenonT(60)
  <2>2. que[p] \o rdel \o s \in Seq(Reading)
    BY <1>1
  <2>3. que[p] \o rdel \o s \o <<>> = que[p] \o rdel \o s
    BY <2>2
  <2>. QED  BY <2>1, <2>3, Zenon
<1>. QED  BY <1>2, <1>3, <1>4

\* The invariant at both ends of a step, and what it says of publisher p.
Ends(p) ==
  /\ TypeOK /\ TypeOK' /\ Backed /\ Ordered /\ Ordered'
  /\ UnsentForm(p) /\ UnsentForm(p)' /\ Files(p)

LEMMA EndsOfStep ==
  ASSUME OrdInv, OrdInv', NEW p \in Publisher
  PROVE  Ends(p)
  BY UnsentHasForm, UnsentHasFormNext, FilesType DEF OrdInv, IndInv, Ends

\* Nothing is added and nothing changes places.
Shrinks(p) == Excerpt(Unsent(p)', Unsent(p))

\* No line is twice among those a publisher can still be sent.
LEMMA UnsentIsDistinct ==
  ASSUME OrdInv, NEW p \in Publisher
  PROVE  Distinct(Unsent(p))
<1>. USE DEF OrdInv, IndInv
<1>a. Files(p) /\ UnsentForm(p)
  BY UnsentHasForm, FilesType
<1>0. /\ que[p] \in Seq(Reading) /\ rdel \in Seq(Reading) /\ tail \in Seq(Reading)
      /\ rest \in Seq(Reading) /\ tmp \in Seq(Reading)
      /\ AsLines(line) \in Seq(Reading) /\ AsLines(hand) \in Seq(Reading)
      /\ (p < pub \/ p = pub \/ p > pub) /\ UnsentForm(p)
  BY <1>a DEF Files
<1>1. /\ que[p] \o rdel \in Seq(Reading) /\ Distinct(que[p] \o rdel)
      /\ ToSet(que[p] \o rdel) = ToSet(que[p]) \cup ToSet(rdel)
  BY <1>0, DistinctConcat, ToSetConcat DEF Ordered
<1>2. CASE pc \in {"idle", "logged"}
  <2>1. /\ Distinct(AsLines(hand)) /\ ToSet(AsLines(hand)) \subseteq {hand}
    BY EmptyFile DEF AsLines
  <2>2. ToSet(que[p] \o rdel) \cap ToSet(AsLines(hand)) = {}
    BY <1>1, <2>1 DEF Ordered
  <2>3. Distinct((que[p] \o rdel) \o AsLines(hand))
    BY <1>0, <1>1, <2>1, <2>2, DistinctConcat
  <2>. QED  BY <1>0, <1>2, <2>3 DEF UnsentForm
<1>3. CASE pc \notin {"idle", "logged"} /\ p # pub
  BY <1>0, <1>1, <1>3 DEF UnsentForm, Ordered
<1>4. CASE p = pub /\ pc = "forward"
  <2>1. tail \o rest \in Seq(Reading) /\ Excerpt(tail \o rest, rdel)
    BY <1>0, <1>4 DEF Ordered
  <2>2. Excerpt(que[p] \o (tail \o rest), que[p] \o rdel)
    BY <1>0, <2>1, ExcerptItself, ExcerptConcat
  <2>3. que[p] \o tail \o rest = que[p] \o (tail \o rest)
    BY <1>a, JoinedFiles
  <2>. QED  BY <1>0, <1>1, <1>4, <2>2, <2>3, ExcerptDistinct DEF UnsentForm
<1>5. CASE p = pub /\ pc = "removed"
  <2>1. que[p] \o tail \o rest = que[p] \o tail
    BY <1>0, <1>5 DEF Backed
  <2>. QED  BY <1>0, <1>5, <2>1 DEF UnsentForm, Ordered
<1>6. CASE p = pub /\ pc \in {"retry", "flush"}
  <2>1. Excerpt(AsLines(line) \o rest, que[p])
    <3>1. CASE pc = "retry"
      <4>1. AsLines(line) \o rest = rest
        BY <1>0, <3>1 DEF Backed, AsLines
      <4>. QED  BY <1>6, <3>1, <4>1 DEF Ordered
    <3>2. CASE pc = "flush"
      BY <1>6, <3>2 DEF Ordered
    <3>. QED  BY <1>6, <3>1, <3>2
  <2>. QED  BY <1>0, <1>6, <2>1, ExcerptDistinct DEF UnsentForm, Ordered
<1>7. CASE p = pub /\ pc \in {"copied", "renamed", "done"}
  BY <1>0, <1>7, ExcerptDistinct DEF UnsentForm, Ordered
<1>. QED  BY <1>0, <1>2, <1>3, <1>4, <1>5, <1>6, <1>7 DEF TypeOK, Steps

\* A reading that is logged comes after all others.
LEMMA LoggedLast ==
  ASSUME OrdInv, OrdInv', NEW p \in Publisher, NEW r \in Reading, LogReading(r)
  PROVE  Excerpt(Unsent(p), Unsent(p)') /\ Held(p)' \ Held(p) \subseteq {r}
<1>. DEFINE before == que[p] \o rdel
<1>1. before \in Seq(Reading) /\ <<>> \in Seq(Reading) /\ <<r>> \in Seq(Reading)
  BY EndsOfStep DEF Ends, Files
<1>2. Unsent(p) = before \o <<>> /\ Unsent(p)' = before \o <<r>>
  BY EndsOfStep, DeliveryAssumption DEF Ends, UnsentForm, LogReading, card, Backed, AsLines
<1>. HIDE DEF before
<1>3. Excerpt(before \o <<>>, before \o <<r>>)
  BY <1>1, ExcerptItself, ExcerptConcat
<1>4. ToSet(before \o <<r>>) = ToSet(before \o <<>>) \cup {r}
  <2>1. \A t \in Seq(Reading) : ToSet(before \o t) = ToSet(before) \cup ToSet(t)
    BY <1>1, ToSetConcat
  <2>. QED  BY <1>1, <2>1, ToSetOne
<1>. QED  BY <1>2, <1>3, <1>4 DEF Held

\* Writing a reading to RDELAY.TXT, opening the files of a pass and ending it.
LEMMA ShrinksOutside ==
  ASSUME OrdInv, OrdInv', NEW p \in Publisher,
         SerzRdelLine \/ (\E c \in BOOLEAN : StartPass(c)) \/ NextPublisher \/ EndPass
  PROVE  Shrinks(p)
<1>e. Ends(p)
  BY EndsOfStep
<1>. USE <1>e DEF Ends, Files, UnsentForm, card
<1>1. CASE SerzRdelLine
  <2>0. hand # NoLine /\ hand \in Reading
    BY <1>1 DEF SerzRdelLine, TypeOK, Backed
  <2>1. rdel' = rdel \o <<hand>> /\ <<hand>> \in Seq(Reading)
    BY <1>1, <2>0 DEF SerzRdelLine
  <2>2. Unsent(p) = que[p] \o rdel \o <<hand>>
    BY <1>1, <2>0 DEF SerzRdelLine, AsLines
  <2>3. Unsent(p)' = que[p] \o (rdel \o <<hand>>) \o <<>>
    BY <1>1, <2>1 DEF SerzRdelLine, AsLines
  <2>4. que[p] \o (rdel \o <<hand>>) \o <<>> = que[p] \o rdel \o <<hand>>
    BY <2>1, JoinedFiles
  <2>. QED  BY <2>2, <2>3, <2>4, ExcerptItself DEF Shrinks
<1>2. CASE \E c \in BOOLEAN : StartPass(c)
  <2>1. Unsent(p) = que[p] \o rdel \o <<>>
    BY <1>2 DEF StartPass, Backed, AsLines
  <2>2. que[p] \o rdel \o <<>> = que[p] \o rdel /\ que[p] \o <<>> \o rdel = que[p] \o rdel
    OBVIOUS
  <2>3. pub' = 1 /\ pc' = "forward" /\ rdel' = rdel /\ que' = que /\ tail' = <<>> /\ rest' = rdel
    BY <1>2 DEF StartPass, OpenFiles
  <2>4. p = 1 \/ p > 1
    BY DEF Publisher
  <2>5. CASE p = 1
    BY <2>1, <2>2, <2>3, <2>5, ExcerptItself DEF Shrinks
  <2>6. CASE p > 1
    BY <2>1, <2>2, <2>3, <2>6, ExcerptItself DEF Shrinks
  <2>. QED  BY <2>4, <2>5, <2>6
<1>3. CASE NextPublisher
  <2>1. rdel = <<>> /\ rdel' = <<>>
    BY <1>3 DEF NextPublisher, Ordered
  <2>2. que[p] \o <<>> = que[p] /\ que[p] \o <<>> \o <<>> = que[p]
    OBVIOUS
  <2>3. Unsent(p) = que[p]
    BY <1>3, <2>1, <2>2 DEF NextPublisher
  <2>4. Unsent(p)' = que[p]
    <3>1. /\ pc' = "forward" /\ rdel' = <<>> /\ que' = que /\ tail' = <<>> /\ rest' = <<>>
          /\ p < pub' \/ p = pub' \/ p > pub'
      BY <1>3, <2>1 DEF NextPublisher, OpenFiles, Publisher, TypeOK
    <3>. QED  BY <2>2, <3>1
  <2>. QED  BY <2>3, <2>4, ExcerptItself DEF Shrinks
<1>4. CASE EndPass
  <2>1. rdel = <<>> /\ hand = NoLine
    BY <1>4 DEF EndPass, Ordered, Backed
  <2>2. que[p] \o <<>> \o <<>> = que[p]
    OBVIOUS
  <2>3. Unsent(p) = que[p]
    BY <1>4, <2>1, <2>2 DEF EndPass, TypeOK, Publisher
  <2>4. Unsent(p)' = que[p]
    BY <1>4, <2>1, <2>2 DEF EndPass, PassOver, AsLines
  <2>. QED  BY <2>3, <2>4, ExcerptItself DEF Shrinks
<1>. QED  BY <1>1, <1>2, <1>3, <1>4

\* A step of a pass for another publisher.
LEMMA ShrinksOther ==
  ASSUME OrdInv, OrdInv', NEW p \in Publisher, p # pub, pub' = pub,
         pc \notin {"idle", "logged"}, pc' \notin {"idle", "logged"},
         que'[p] = que[p], rdel' \in {rdel, <<>>}
  PROVE  Shrinks(p)
<1>e. Ends(p)
  BY EndsOfStep
<1>. USE <1>e DEF Ends, Files, UnsentForm
<1>1. CASE p < pub
  <2>1. Unsent(p) = que[p] /\ Unsent(p)' = que[p]
    BY <1>1
  <2>. QED  BY <2>1, ExcerptItself DEF Shrinks
<1>2. CASE p > pub
  <2>1. Unsent(p) = que[p] \o rdel /\ Unsent(p)' = que[p] \o rdel'
    BY <1>2
  <2>2. rdel' \in Seq(Reading) /\ Excerpt(rdel', rdel) /\ Excerpt(que[p], que[p])
    <3>1. CASE rdel' = rdel
      BY <3>1, ExcerptItself
    <3>2. CASE rdel' = <<>>
      BY <3>2, ExcerptItself, EmptyFile
    <3>. QED  BY <3>1, <3>2
  <2>3. Excerpt(que[p] \o rdel', que[p] \o rdel)
    BY <2>2, ExcerptConcat
  <2>. QED  BY <2>1, <2>3 DEF Shrinks
<1>. QED  BY <1>1, <1>2

\* The loop over RDELAY.TXT and the closing of the files.
LEMMA ShrinksForward ==
  ASSUME OrdInv, OrdInv', NEW p \in Publisher, Forward
  PROVE  Shrinks(p)
<1>e. Ends(p)
  BY EndsOfStep
<1>. USE <1>e DEF Ends, Files, UnsentForm, card
<1>1. CASE p # pub
  <2>1. /\ pub' = pub /\ pc \notin {"idle", "logged"} /\ pc' \notin {"idle", "logged"}
        /\ que'[p] = que[p] /\ rdel' \in {rdel, <<>>}
    BY <1>1 DEF Forward, ForwardAccepted, ForwardRefused, RemoveRdel, CloseQue, TypeOK
  <2>. QED  BY <1>1, <2>1, ShrinksOther
<1>2. CASE p = pub /\ (ForwardAccepted \/ ForwardRefused)
  <2>0. /\ rest # <<>> /\ rest' = Tail(rest) /\ que' = que /\ pub' = pub
        /\ pc = "forward" /\ pc' = "forward"
        /\ tail' \in {tail, Append(tail, Head(rest))}
    BY <1>2 DEF ForwardAccepted, ForwardRefused
  <2>1. /\ rest = <<Head(rest)>> \o Tail(rest) /\ <<Head(rest)>> \in Seq(Reading)
        /\ Tail(rest) \in Seq(Reading) /\ Excerpt(Tail(rest), rest)
    BY <2>0, ExcerptTail
  <2>2. CASE tail' = tail
    <3>1. que[p] \o tail \in Seq(Reading)
      OBVIOUS
    <3>2. Excerpt((que[p] \o tail) \o Tail(rest), (que[p] \o tail) \o rest)
      BY <2>1, <3>1, ExcerptItself, ExcerptConcat
    <3>3. Unsent(p) = (que[p] \o tail) \o rest /\ Unsent(p)' = (que[p] \o tail) \o Tail(rest)
      BY <1>2, <2>0, <2>2
    <3>. QED  BY <3>2, <3>3 DEF Shrinks
  <2>3. CASE tail' = Append(tail, Head(rest))
    <3>1. Append(tail, Head(rest)) = tail \o <<Head(rest)>>
      OBVIOUS
    <3>2. Unsent(p) = que[p] \o tail \o rest
          /\ Unsent(p)' = que[p] \o (tail \o <<Head(rest)>>) \o Tail(rest)
      BY <1>2, <2>0, <2>3, <3>1
    <3>3. que[p] \o (tail \o <<Head(rest)>>) \o Tail(rest)
            = que[p] \o tail \o (<<Head(rest)>> \o Tail(rest))
      BY <2>1, JoinedFiles
    <3>. QED  BY <2>1, <3>2, <3>3, ExcerptItself DEF Shrinks
  <2>. QED  BY <2>0, <2>2, <2>3
<1>3. CASE p = pub /\ RemoveRdel
  <2>1. Unsent(p)' = Unsent(p)
    BY <1>3 DEF RemoveRdel
  <2>. QED  BY <2>1, ExcerptItself DEF Shrinks
<1>4. CASE p = pub /\ CloseQue
  <2>1. rest = <<>> /\ line = NoLine /\ que'[p] = que[p] \o tail
        /\ que[p] \o tail \in Seq(Reading)
    BY <1>4 DEF CloseQue, Backed, TypeOK
  <2>2. Unsent(p) = que[p] \o tail
    BY <1>4, <2>1 DEF CloseQue
  <2>3. Unsent(p)' = que[p] \o tail
    <3>1. CASE rsp = "accepted"
      <4>1. Unsent(p)' = <<>> \o (que[p] \o tail)
        BY <1>4, <2>1, <3>1 DEF CloseQue, AsLines
      <4>. QED  BY <2>1, <4>1
    <3>2. CASE rsp # "accepted"
      BY <1>4, <2>1, <3>2 DEF CloseQue
    <3>. QED  BY <3>1, <3>2
  <2>. QED  BY <2>2, <2>3, ExcerptItself DEF Shrinks
<1>. QED  BY <1>1, <1>2, <1>3, <1>4 DEF Forward

\* The loop over QUEn.TXT.
LEMMA ShrinksRetry ==
  ASSUME OrdInv, OrdInv', NEW p \in Publisher, Retry
  PROVE  Shrinks(p)
<1>e. Ends(p)
  BY EndsOfStep
<1>. USE <1>e DEF Ends, Files, UnsentForm, card
<1>0. /\ pc = "retry" /\ pc' \in {"retry", "flush", "done"} /\ pub' = pub /\ que' = que
      /\ rdel' = rdel /\ line = NoLine
  BY DEF Retry, RetryAccepted, RetryRefused, RetryEnd, AfterRetry, Backed
<1>1. CASE p # pub
  BY <1>0, <1>1, ShrinksOther
<1>2. CASE p = pub
  <2>1. Unsent(p) = rest
    <3>1. Unsent(p) = <<>> \o rest
      BY <1>0, <1>2 DEF AsLines
    <3>. QED  BY <3>1
  <2>2. CASE \E low \in BOOLEAN : RetryAccepted(low)
    <3>1. rest # <<>> /\ rest' = Tail(rest) /\ line' = NoLine /\ pc' \in {"retry", "flush"}
      BY <1>0, <2>2 DEF RetryAccepted
    <3>2. Unsent(p)' = <<>> \o Tail(rest)
      BY <1>0, <1>2, <3>1 DEF AsLines
    <3>3. Tail(rest) \in Seq(Reading) /\ Excerpt(Tail(rest), rest)
      BY <3>1, ExcerptTail
    <3>. QED  BY <2>1, <3>2, <3>3 DEF Shrinks
  <2>3. CASE RetryRefused \/ RetryEnd
    <3>1. CASE pc' = "done"
      <4>1. posted = 0 /\ rest = que[p]
        BY <1>0, <1>2, <2>3, <3>1 DEF RetryRefused, RetryEnd, AfterRetry, Ordered, TypeOK
      <4>2. Unsent(p)' = que[p]
        BY <1>0, <1>2, <3>1
      <4>. QED  BY <2>1, <4>1, <4>2, ExcerptItself DEF Shrinks
    <3>2. CASE pc' = "flush"
      <4>1. Unsent(p)' = AsLines(line') \o rest'
        BY <1>0, <1>2, <3>2
      <4>2. AsLines(line') \o rest' = rest
        <5>1. CASE RetryRefused
          <6>1. /\ rest = <<Head(rest)>> \o Tail(rest) /\ Head(rest) \in Reading
                /\ line' = Head(rest) /\ rest' = Tail(rest)
            BY <5>1 DEF RetryRefused
          <6>. QED  BY <6>1, DeliveryAssumption DEF AsLines
        <5>2. CASE RetryEnd
          BY <5>2 DEF RetryEnd, AsLines
        <5>. QED  BY <2>3, <5>1, <5>2
      <4>. QED  BY <2>1, <4>1, <4>2, ExcerptItself DEF Shrinks
    <3>. QED  BY <1>0, <2>3, <3>1, <3>2 DEF RetryRefused, RetryEnd, AfterRetry
  <2>. QED  BY <2>2, <2>3 DEF Retry
<1>. QED  BY <1>1, <1>2

\* The copy to TMP01.TXT and the two renames.
LEMMA ShrinksFlush ==
  ASSUME OrdInv, OrdInv', NEW p \in Publisher, Flush
  PROVE  Shrinks(p)
<1>e. Ends(p)
  BY EndsOfStep
<1>. USE <1>e DEF Ends, Files, UnsentForm, card, buffers
<1>0. /\ pc \notin {"idle", "logged"} /\ pc' \notin {"idle", "logged"} /\ pub' = pub
      /\ rdel' = rdel /\ (p # pub => que'[p] = que[p])
  BY DEF Flush, CopyUnsent, RenameQue, RenameTmp, TypeOK
<1>1. CASE p # pub
  BY <1>0, <1>1, ShrinksOther
<1>2. CASE p = pub /\ CopyUnsent
  <2>1. Kept \in Seq(Reading) /\ Excerpt(Kept, rest)
    BY KeptType, ExcerptKept
  <2>2. Excerpt(AsLines(line) \o Kept, AsLines(line) \o rest)
    BY <2>1, ExcerptItself, ExcerptConcat
  <2>3. Unsent(p) = AsLines(line) \o rest
    BY <1>2 DEF CopyUnsent
  <2>4. Unsent(p)' = AsLines(line) \o Kept
    BY <1>0, <1>2 DEF CopyUnsent
  <2>. QED  BY <2>2, <2>3, <2>4 DEF Shrinks
<1>3. CASE p = pub /\ (RenameQue \/ RenameTmp)
  <2>1. Unsent(p) = tmp
    BY <1>3 DEF RenameQue, RenameTmp
  <2>2. Unsent(p)' = tmp
    BY <1>0, <1>3 DEF RenameQue, RenameTmp, TypeOK
  <2>. QED  BY <2>1, <2>2, ExcerptItself DEF Shrinks
<1>. QED  BY <1>1, <1>2, <1>3 DEF Flush

\* Every step of the firmware but logging, and every step that changes no file.
LEMMA StepShrinks ==
  ASSUME OrdInv, OrdInv', NEW p \in Publisher,
         (\E c \in BOOLEAN : StartPass(c)) \/ Proceed \/ ServerRecovers \/ UNCHANGED vars
  PROVE  Shrinks(p)
<1>1. CASE ServerRecovers \/ UNCHANGED vars
  <2>1. Unsent(p)' = Unsent(p)
    BY <1>1 DEF ServerRecovers, vars, card, buffers, Unsent
  <2>. QED  BY <2>1, ExcerptItself DEF Shrinks
<1>. QED
  BY <1>1, ShrinksOutside, ShrinksForward, ShrinksRetry, ShrinksFlush DEF Proceed

\* A reset: what was left before it and what is left after it are excerpts of one file.
LEMMA ResetKeepsOrder ==
  ASSUME OrdInv, OrdInv', NEW p \in Publisher, Reset
  PROVE  \E c \in Seq(Reading) :
           Distinct(c) /\ Excerpt(Unsent(p), c) /\ Excerpt(Unsent(p)', c)
<1>e. Ends(p)
  BY EndsOfStep
<1>. USE <1>e DEF Ends, Files, UnsentForm, card
<1>0. que[p] \o rdel \in Seq(Reading) /\ Distinct(que[p] \o rdel)
  BY DistinctConcat DEF Ordered
<1>1. Unsent(p)' = que[p] \o rdel
  <2>1. Unsent(p)' = que[p] \o rdel \o <<>>
    BY DEF Reset, PassOver, AsLines
  <2>. QED  BY <2>1, <1>0
<1>2. CASE pc \in {"idle", "logged"}
  <2>1. Excerpt((que[p] \o rdel) \o <<>>, (que[p] \o rdel) \o AsLines(hand))
    BY <1>0, EmptyFile, ExcerptItself, ExcerptConcat
  <2>2. (que[p] \o rdel) \o <<>> = que[p] \o rdel
    BY <1>0
  <2>3. Excerpt(que[p] \o rdel, Unsent(p))
    BY <1>2, <2>1, <2>2
  <2>. QED  BY <1>1, <2>3, UnsentIsDistinct, ExcerptItself
<1>3. CASE pc = "removed" /\ p = pub
  <2>1. Unsent(p) = que[p] \o tail /\ rdel = <<>>
    <3>1. Unsent(p) = que[p] \o tail \o <<>> /\ rdel = <<>>
      BY <1>3 DEF Backed, Ordered
    <3>. QED  BY <3>1
  <2>2. Excerpt(que[p] \o <<>>, que[p] \o tail)
    BY EmptyFile, ExcerptItself, ExcerptConcat
  <2>. QED  BY <1>1, <2>1, <2>2, UnsentIsDistinct, ExcerptItself
<1>4. CASE pc = "renamed" /\ p = pub
  <2>1. Unsent(p)' = <<>>
    <3>1. que[p] = <<>> /\ rdel = <<>>
      BY <1>4 DEF Ordered
    <3>. QED  BY <1>1, <3>1
  <2>. QED  BY <2>1, UnsentIsDistinct, ExcerptItself
<1>5. CASE pc \notin {"idle", "logged"} /\ (p # pub \/ pc \notin {"removed", "renamed"})
  <2>1. Excerpt(Unsent(p), que[p] \o rdel)
    <3>0. /\ Excerpt(que[p], que[p]) /\ Excerpt(<<>>, rdel) /\ <<>> \in Seq(Reading)
          /\ que[p] \o <<>> = que[p]
      BY EmptyFile, ExcerptItself
    <3>1. Excerpt(que[p], que[p] \o rdel)
      <4>1. Excerpt(que[p] \o <<>>, que[p] \o rdel)
        BY <3>0, ExcerptConcat
      <4>. QED  BY <3>0, <4>1
    <3>2. CASE p # pub
      BY <1>5, <3>1, <3>2, ExcerptItself
    <3>3. CASE p = pub /\ pc = "forward"
      <4>1. Unsent(p) = que[p] \o (tail \o rest) /\ tail \o rest \in Seq(Reading)
        <5>1. Unsent(p) = que[p] \o tail \o rest
          BY <3>3
        <5>2. tail \o rest \in Seq(Reading)
          OBVIOUS
        <5>3. que[p] \o tail \o rest = que[p] \o (tail \o rest)
          BY JoinedFiles
        <5>. QED  BY <5>1, <5>2, <5>3, Zenon
      <4>2. Excerpt(tail \o rest, rdel)
        BY <3>3 DEF Ordered
      <4>3. Excerpt(que[p] \o (tail \o rest), que[p] \o rdel)
        BY <3>0, <4>1, <4>2, ExcerptConcat
      <4>. QED  BY <4>1, <4>3
    <3>4. CASE p = pub /\ pc \in {"retry", "flush"}
      <4>1. Unsent(p) = AsLines(line) \o rest
        BY <3>4
      <4>2. pc = "retry" => AsLines(line) \o rest = rest
        BY DEF Backed, AsLines
      <4>3. Excerpt(AsLines(line) \o rest, que[p])
        BY <3>4, <4>2 DEF Ordered
      <4>. QED  BY <3>1, <4>1, <4>3, ExcerptTransitive
    <3>5. CASE p = pub /\ pc = "copied"
      BY <3>1, <3>5, ExcerptTransitive DEF Ordered
    <3>6. CASE p = pub /\ pc = "done"
      BY <3>1, <3>6
    <3>. QED  BY <1>5, <3>2, <3>3, <3>4, <3>5, <3>6 DEF TypeOK, Steps
  <2>. QED  BY <1>0, <1>1, <2>1, ExcerptItself
<1>. QED  BY <1>2, <1>3, <1>4, <1>5

LEMMA UnsentIsDistinctNext ==
  ASSUME NEW p \in Publisher
  PROVE  OrdInv' => Distinct(Unsent(p))'
<1>1. OrdInv => Distinct(Unsent(p))
  BY UnsentIsDistinct
<1>. QED  BY <1>1, PTL

--------------------------------------------------------------------------------
\* Whatever the servers answer and wherever a reset falls, no line is on the card twice
\* for a publisher.
THEOREM LinesAreDistinct == Spec => []NoDuplicates
<1>1. OrdInv => NoDuplicates
  <2>. SUFFICES ASSUME OrdInv, NEW p \in Publisher PROVE IsInjective(Unsent(p))
    BY DEF NoDuplicates
  <2>1. Unsent(p) \in Seq(Reading)
    BY UnsentHasForm DEF OrdInv, IndInv, UnsentForm
  <2>. QED  BY <2>1, UnsentIsDistinct, DistinctIsInjective
<1>. QED  BY <1>1, OrdAlways, PTL

\* Two readings that stay on the card stay in the order in which they were logged.
THEOREM OrderIsKept == Spec => KeepsOrder
<1>. DEFINE InOrder(p) ==
       LET before == Unsent(p)
           after == Unsent(p)'
       IN \A i, j \in 1..Len(before) : \A k, l \in 1..Len(after) :
            i < j /\ after[k] = before[i] /\ after[l] = before[j] => k < l
<1>1. OrdInv /\ OrdInv' /\ [Next]_vars => [\A p \in Publisher : InOrder(p)]_vars
  <2>. SUFFICES ASSUME OrdInv, OrdInv', [Next]_vars, NEW p \in Publisher
                PROVE  InOrder(p)
    OBVIOUS
  <2>1. Unsent(p) \in Seq(Reading) /\ Unsent(p)' \in Seq(Reading)
    BY EndsOfStep DEF Ends, UnsentForm
  <2>2. Distinct(Unsent(p)) /\ Distinct(Unsent(p)')
    BY UnsentIsDistinct, UnsentIsDistinctNext
  <2>3. \E c \in Seq(Reading) :
          Distinct(c) /\ Excerpt(Unsent(p), c) /\ Excerpt(Unsent(p)', c)
    BY <2>1, <2>2, StepShrinks, LoggedLast, ResetKeepsOrder, ExcerptItself
    DEF Next, Shrinks
  <2>. QED  BY <2>1, <2>3, ExcerptsAgree
<1>. QED  BY <1>1, OrdAlways, PTL DEF Spec, KeepsOrder

\* What is held after a step that is no reset was held before, or has just been logged.
LEMMA HeldShrinks ==
  ASSUME OrdInv, OrdInv', [Next]_vars, NEW p \in Publisher, ~Reset
  PROVE  \/ Held(p)' \subseteq Held(p)
         \/ \E r \in Reading : LogReading(r) /\ Held(p)' \ Held(p) \subseteq {r}
  BY StepShrinks, LoggedLast DEF Next, Shrinks, Excerpt, Held

\* Only a reset brings an acknowledged reading back to be sent again.
THEOREM OnlyResetReturns == Spec => ReturnsOnlyByReset
<1>. DEFINE Returns ==
       \A p \in Publisher : (Held(p)' \ Held(p)) \subseteq owed'[p] \/ resets' > resets
<1>1. OrdInv /\ OrdInv' /\ [Next]_vars => [Returns]_vars
  <2>. SUFFICES ASSUME OrdInv, OrdInv', [Next]_vars, NEW p \in Publisher
                PROVE  (Held(p)' \ Held(p)) \subseteq owed'[p] \/ resets' > resets
    OBVIOUS
  <2>1. CASE Reset
    BY <2>1, EndsOfStep DEF Ends, Reset, TypeOK
  <2>2. CASE ~Reset
    <3>1. \A r \in Reading : LogReading(r) => r \in owed'[p]
      BY EndsOfStep DEF Ends, LogReading, TypeOK
    <3>. QED  BY <2>2, <3>1, HeldShrinks
  <2>. QED  BY <2>1, <2>2
<1>. QED  BY <1>1, OrdAlways, PTL DEF Spec, ReturnsOnlyByReset

--------------------------------------------------------------------------------
\* A line that is acknowledged, or finds the queue full, is taken from what can still
\* be sent; no other line is.
LEMMA TakenIsGone ==
  ASSUME OrdInv, OrdInv',
         \/ ForwardAccepted
         \/ ForwardRefused /\ QueFull
         \/ \E low \in BOOLEAN : RetryAccepted(low)
  PROVE  /\ Head(rest) \in Reading /\ Head(rest) \in Held(pub) /\ pub' = pub
         /\ Held(pub)' = Held(pub) \ {Head(rest)}
<1>0. /\ pub \in Publisher /\ rest \in Seq(Reading) /\ rest # <<>> /\ rest' = Tail(rest)
      /\ pub' = pub
  BY DEF ForwardAccepted, ForwardRefused, RetryAccepted, OrdInv, IndInv, TypeOK
<1>1. /\ rest = <<Head(rest)>> \o Tail(rest) /\ <<Head(rest)>> \in Seq(Reading)
      /\ Tail(rest) \in Seq(Reading)
  BY <1>0, ExcerptTail
<1>e. Ends(pub)
  BY <1>0, EndsOfStep
<1>. USE <1>0, <1>e DEF Ends, Files, UnsentForm, card
<1>2. PICK f \in Seq(Reading) :
        Unsent(pub) = f \o rest /\ Unsent(pub)' = f \o Tail(rest)
  <2>1. CASE ForwardAccepted \/ (ForwardRefused /\ QueFull)
    <3>1. que[pub] \o tail \in Seq(Reading)
      OBVIOUS
    <3>2. /\ pc = "forward" /\ pc' = "forward" /\ que' = que /\ tail' = tail
      BY <2>1 DEF ForwardAccepted, ForwardRefused
    <3>3. Unsent(pub) = (que[pub] \o tail) \o rest
      BY <3>2
    <3>4. Unsent(pub)' = (que[pub] \o tail) \o Tail(rest)
      BY <3>2
    <3>. QED  BY <3>1, <3>3, <3>4
  <2>2. CASE \E low \in BOOLEAN : RetryAccepted(low)
    <3>1. Unsent(pub) = AsLines(line) \o rest
      BY <2>2 DEF RetryAccepted
    <3>2. Unsent(pub)' = AsLines(line) \o Tail(rest)
      BY <2>2 DEF RetryAccepted
    <3>. QED  BY <3>1, <3>2
  <2>. QED  BY <2>1, <2>2
<1>3. Distinct(f \o rest)
  BY <1>2, UnsentIsDistinct
<1>4. Distinct(rest) /\ ToSet(f) \cap ToSet(rest) = {}
  BY <1>3, DistinctConcat
<1>5. ToSet(<<Head(rest)>>) \cap ToSet(Tail(rest)) = {}
  <2>1. Distinct(<<Head(rest)>> \o Tail(rest))
    BY <1>1, <1>4
  <2>. QED  BY <1>1, <2>1, DistinctConcat
<1>6. /\ Head(rest) \in Reading /\ Head(rest) \notin ToSet(Tail(rest))
      /\ ToSet(rest) = {Head(rest)} \cup ToSet(Tail(rest))
  BY <1>1, <1>5, ToSetOne, ToSetTail
<1>7. /\ ToSet(f \o rest) = ToSet(f) \cup ToSet(rest)
      /\ ToSet(f \o Tail(rest)) = ToSet(f) \cup ToSet(Tail(rest))
  <2>1. \A t \in Seq(Reading) : ToSet(f \o t) = ToSet(f) \cup ToSet(t)
    BY ToSetConcat
  <2>. QED  BY <1>1, <2>1
<1>8. Held(pub)' = ToSet(Unsent(pub)')
  BY DEF Held
<1>. QED  BY <1>2, <1>4, <1>6, <1>7, <1>8 DEF Held

\* Without resets, nothing that the server has acknowledged is kept to be sent again.
THEOREM NothingIsResent ==
  ASSUME MaxResets = 0
  PROVE  Spec => []NothingResent
<1>1. Init => NothingResent
  <2>. SUFFICES ASSUME Init, NEW p \in Publisher PROVE Held(p) = {}
    BY DEF NothingResent
  <2>1. Unsent(p) = <<>> \o <<>> \o <<>>
    BY DEF Init, Unsent, AsLines
  <2>. QED  BY <2>1, EmptyFile DEF Held
<1>2. OrdInv /\ OrdInv' /\ [Next]_vars /\ NothingResent => NothingResent'
  <2>. SUFFICES ASSUME OrdInv, OrdInv', [Next]_vars, NothingResent,
                       NEW p \in Publisher, NEW x \in Held(p)'
                PROVE  x \in owed'[p]
    BY DEF NothingResent
  <2>1. ~Reset
    BY EndsOfStep DEF Ends, Reset, TypeOK
  <2>2. CASE \E r \in Reading : LogReading(r)
    <3>1. PICK r \in Reading : LogReading(r)
      BY <2>2
    <3>2. owed'[p] = owed[p] \cup {r}
      BY <3>1, EndsOfStep DEF Ends, LogReading, TypeOK
    <3>. QED  BY <3>1, <3>2, LoggedLast DEF NothingResent
  <2>3. CASE ~\E r \in Reading : LogReading(r)
    <3>1. x \in owed[p]
      BY <2>1, <2>3, HeldShrinks DEF NothingResent
    <3>2. CASE ForwardAccepted \/ (\E low \in BOOLEAN : RetryAccepted(low))
      <4>1. x \notin {Head(rest)} \/ p # pub
        <5>1. Held(pub)' = Held(pub) \ {Head(rest)} /\ pub' = pub
          BY <3>2, TakenIsGone
        <5>. QED  BY <5>1
      <4>2. owed'[p] = IF p = pub THEN owed[p] \ {Head(rest)} ELSE owed[p]
        BY <3>2, EndsOfStep DEF Ends, ForwardAccepted, RetryAccepted, Acknowledged, TypeOK
      <4>. QED  BY <3>1, <4>1, <4>2
    <3>3. CASE ~(ForwardAccepted \/ (\E low \in BOOLEAN : RetryAccepted(low)))
      <4>1. owed' = owed
        BY <2>1, <2>3, <3>3
        DEF Next, Proceed, Forward, Retry, Flush, vars, SerzRdelLine, StartPass,
            NextPublisher, EndPass, ForwardRefused, RemoveRdel, CloseQue, RetryRefused,
            RetryEnd, CopyUnsent, RenameQue, RenameTmp, ServerRecovers
      <4>. QED  BY <3>1, <4>1
    <3>. QED  BY <3>2, <3>3
  <2>. QED  BY <2>2, <2>3
<1>. QED  BY <1>1, <1>2, OrdAlways, PTL DEF Spec

--------------------------------------------------------------------------------
(* The lines of the queue file, counted.  desz_pending_records is one      *)
(* counter for all publishers and is lost by a reset, so the count is of   *)
(* the file only where one publisher is queued and there is no reset.      *)

CountApplies ==
  NumPublishers = 1 /\ MaxResets = 0 /\ SendQueSz # MMWGI_SEND_QUE_SZ_NUM_NOP

\* The counter is the length of the file or one less: a flush does not count the
\* record a retry left in deszq_line.  A flush follows at least one success, so what
\* it copies is no longer than the limit and the next line refused finds the file full.
Counted ==
  /\ pending <= SendQueSz /\ Len(que[1]) <= SendQueSz + 1
  /\ pc \notin {"forward", "removed"} => tail = <<>>
  /\ pc \notin {"copied", "renamed"} =>
       /\ pending <= Len(que[1]) + Len(tail)
       /\ Len(que[1]) + Len(tail) <= pending + 1
  /\ pc = "retry" => Len(rest) + posted = Len(que[1])
  /\ pc = "flush" =>
       posted > 0 /\ Len(AsLines(line)) + Len(rest) + posted = Len(que[1])
  /\ pc \in {"copied", "renamed"} => pending <= Len(tmp) /\ Len(tmp) <= pending + 1

CountInv == IndInv /\ Counted

\* The lengths a step adds to or takes from.
Lengths ==
  /\ pub = 1 /\ Publisher = {1} /\ DOMAIN que = {1}
  /\ que[1] \in Seq(Reading) /\ tail \in Seq(Reading) /\ rest \in Seq(Reading)
  /\ AsLines(line) \in Seq(Reading)
  /\ Len(que[1]) \in Nat /\ Len(tail) \in Nat /\ Len(rest) \in Nat
  /\ Len(tmp) \in Nat /\ Len(AsLines(line)) \in Nat
  /\ posted \in Nat /\ pending \in Nat /\ SendQueSz \in Nat
  /\ rest # <<>> => Len(Tail(rest)) = Len(rest) - 1 /\ Len(rest) > 0
  /\ line = NoLine => Len(AsLines(line)) = 0
  /\ line # NoLine => Len(AsLines(line)) = 1

LEMMA LengthsForm ==
  ASSUME NumPublishers = 1
  PROVE  TypeOK => Lengths
<1>. SUFFICES ASSUME TypeOK PROVE Lengths
  OBVIOUS
<1>1. Publisher = {1}
  BY DEF Publisher
<1>2. /\ pub = 1 /\ que[1] \in Seq(Reading) /\ DOMAIN que = {1} /\ tail \in Seq(Reading)
      /\ rest \in Seq(Reading) /\ tmp \in Seq(Reading)
      /\ {posted, pending, SendQueSz} \subseteq Nat
  BY <1>1, DeliveryAssumption DEF TypeOK
<1>3. /\ AsLines(line) \in Seq(Reading)
      /\ line = NoLine => Len(AsLines(line)) = 0
      /\ line # NoLine => Len(AsLines(line)) = 1
  <2>1. AsLines(line) \in Seq(Reading)
    BY ToSetAsLines DEF TypeOK
  <2>2. Len(<<>>) = 0 /\ Len(<<line>>) = 1
    OBVIOUS
  <2>. QED  BY <2>1, <2>2 DEF AsLines
<1>4. rest # <<>> => Len(Tail(rest)) = Len(rest) - 1 /\ Len(rest) > 0
  BY <1>2
<1>5. /\ Len(que[1]) \in Nat /\ Len(tail) \in Nat /\ Len(rest) \in Nat
      /\ Len(tmp) \in Nat /\ Len(AsLines(line)) \in Nat
  <2>1. \A s \in Seq(Reading) : Len(s) \in Nat
    OBVIOUS
  <2>. QED  BY <1>2, <1>3, <2>1
<1>. QED  BY <1>1, <1>2, <1>3, <1>4, <1>5 DEF Lengths

LEMMA LengthsNext ==
  ASSUME NumPublishers = 1
  PROVE  TypeOK' => Lengths'
<1>1. TypeOK => Lengths
  BY LengthsForm
<1>. QED  BY <1>1, PTL

\* The invariant before a step, and the lengths at both ends of it.
LEMMA CountEnds ==
  ASSUME CountApplies, CountInv, IndInv'
  PROVE  /\ TypeOK /\ Backed /\ Counted /\ Lengths /\ Lengths'
         /\ SendQueSz # MMWGI_SEND_QUE_SZ_NUM_NOP
  BY LengthsForm, LengthsNext DEF CountApplies, CountInv, IndInv

\* Taking a reading, opening the files, ending a pass: no file that counts changes.
LEMMA CountOutside ==
  ASSUME CountApplies, CountInv, IndInv',
         \/ \E r \in Reading : LogReading(r)
         \/ \E c \in BOOLEAN : StartPass(c)
         \/ SerzRdelLine \/ NextPublisher \/ EndPass \/ ServerRecovers \/ UNCHANGED vars
  PROVE  Counted'
<1>1. CASE (\E r \in Reading : LogReading(r)) \/ SerzRdelLine
  BY <1>1, CountEnds DEF LogReading, SerzRdelLine, card, Counted
<1>2. CASE \E c \in BOOLEAN : StartPass(c)
  BY <1>2, CountEnds DEF StartPass, OpenFiles, card, Counted
<1>3. CASE NextPublisher
  BY <1>3, CountEnds DEF NextPublisher, Lengths, CountApplies
<1>4. CASE EndPass
  BY <1>4, CountEnds DEF EndPass, PassOver, card, Counted
<1>5. CASE ServerRecovers \/ UNCHANGED vars
  BY <1>5, CountEnds DEF ServerRecovers, vars, card, buffers, Counted
<1>. QED  BY <1>1, <1>2, <1>3, <1>4, <1>5

\* The loop over RDELAY.TXT: a line refused is counted as it is printed.
LEMMA CountForward ==
  ASSUME CountApplies, CountInv, IndInv', Forward
  PROVE  Counted'
<1>e. /\ TypeOK /\ Backed /\ Counted /\ Lengths /\ Lengths'
      /\ SendQueSz # MMWGI_SEND_QUE_SZ_NUM_NOP
  BY CountEnds
<1>t. /\ Len(que[1]) \in Nat /\ Len(tail) \in Nat /\ Len(rest) \in Nat
      /\ Len(AsLines(line)) \in Nat
      /\ posted \in Nat /\ pending \in Nat /\ SendQueSz \in Nat
  BY <1>e DEF Lengths
<1>1. CASE ForwardAccepted \/ RemoveRdel
  BY <1>1, <1>e DEF ForwardAccepted, RemoveRdel, card, Counted
<1>2. CASE ForwardRefused /\ QueFull
  BY <1>2, <1>e DEF ForwardRefused, card, Counted
<1>3. CASE ForwardRefused /\ ~QueFull
  <2>1. /\ pending' = pending + 1 /\ que' = que /\ pc = "forward" /\ pc' = "forward"
        /\ pending < SendQueSz
    BY <1>3, <1>t, <1>e DEF ForwardRefused, QueFull, card
  <2>2. Len(tail') = Len(tail) + 1
    BY <1>3, <1>e DEF ForwardRefused, Lengths
  <2>3. /\ Len(que[1]) <= SendQueSz + 1 /\ pending <= Len(que[1]) + Len(tail)
        /\ Len(que[1]) + Len(tail) <= pending + 1
    BY <1>e, <2>1 DEF Counted
  <2>4. /\ pending' <= SendQueSz /\ Len(que'[1]) <= SendQueSz + 1
        /\ pending' <= Len(que'[1]) + Len(tail')
        /\ Len(que'[1]) + Len(tail') <= pending' + 1
    <3>1. pending + 1 <= SendQueSz /\ Len(que'[1]) = Len(que[1])
      BY <1>t, <2>1
    <3>2. /\ pending + 1 <= Len(que[1]) + (Len(tail) + 1)
          /\ Len(que[1]) + (Len(tail) + 1) <= (pending + 1) + 1
      <4>1. \A k, l, n \in Nat : n <= k + l /\ k + l <= n + 1 =>
               n + 1 <= k + (l + 1) /\ k + (l + 1) <= (n + 1) + 1
        OBVIOUS
      <4>. QED  BY <1>t, <2>3, <4>1, Zenon
    <3>. QED  BY <2>1, <2>2, <2>3, <3>1, <3>2
  <2>. QED  BY <1>e, <1>t, <2>1, <2>4 DEF Counted
<1>4. CASE CloseQue
  <2>1. /\ que'[1] = que[1] \o tail /\ tail' = <<>> /\ posted' = 0 /\ pending' = pending
        /\ pc = "removed" /\ pc' \in {"retry", "done"}
        /\ pc' = "retry" => rest' = que'[1]
    BY <1>4, <1>e DEF CloseQue, Lengths
  <2>2. Len(que[1] \o tail) = Len(que[1]) + Len(tail) /\ Len(<<>>) = 0
    BY <1>e DEF Lengths
  <2>3. Len(que'[1]) = Len(que[1]) + Len(tail) /\ Len(tail') = 0
    BY <1>e, <2>1, <2>2 DEF Lengths
  <2>4. Len(que[1]) + Len(tail) <= pending + 1
    BY <1>e, <2>1 DEF Counted
  <2>. QED  BY <1>e, <1>t, <2>1, <2>3, <2>4 DEF Counted
<1>. QED  BY <1>1, <1>2, <1>3, <1>4 DEF Forward

\* The loop over QUEn.TXT: each success is a line less to copy.
LEMMA CountRetry ==
  ASSUME CountApplies, CountInv, IndInv', Retry
  PROVE  Counted'
<1>e. /\ TypeOK /\ Backed /\ Counted /\ Lengths /\ Lengths'
      /\ SendQueSz # MMWGI_SEND_QUE_SZ_NUM_NOP
  BY CountEnds
<1>t. /\ Len(que[1]) \in Nat /\ Len(tail) \in Nat /\ Len(rest) \in Nat
      /\ Len(AsLines(line)) \in Nat
      /\ posted \in Nat /\ pending \in Nat /\ SendQueSz \in Nat
  BY <1>e DEF Lengths
<1>0. pc = "retry" /\ que' = que /\ tail' = tail /\ pending' = pending /\ line = NoLine
  BY <1>e DEF Retry, RetryAccepted, RetryRefused, RetryEnd, card, Backed
<1>1. CASE \E low \in BOOLEAN : RetryAccepted(low)
  <2>1. /\ posted' = posted + 1 /\ line' = NoLine /\ rest' = Tail(rest) /\ rest # <<>>
        /\ pc' \in {"retry", "flush"}
    BY <1>0, <1>1 DEF RetryAccepted
  <2>2. Len(rest') = Len(rest) - 1 /\ Len(AsLines(line')) = 0
    BY <1>e, <2>1 DEF Lengths
  <2>. QED  BY <1>e, <1>t, <1>0, <2>1, <2>2 DEF Counted
<1>2. CASE RetryRefused
  <2>1. /\ posted' = posted /\ line' = Head(rest) /\ rest' = Tail(rest) /\ rest # <<>>
        /\ pc' = IF posted > 0 THEN "flush" ELSE "done"
    BY <1>2 DEF RetryRefused, AfterRetry
  <2>2. Head(rest) # NoLine
    BY <1>e, <2>1, DeliveryAssumption DEF Lengths
  <2>3. Len(rest') = Len(rest) - 1 /\ Len(AsLines(line')) = 1
    BY <1>e, <2>1, <2>2 DEF Lengths
  <2>4. Len(AsLines(line')) + Len(rest') + posted' = Len(que'[1])
    <3>1. Len(rest) + posted = Len(que[1])
      BY <1>e, <1>0 DEF Counted
    <3>2. 1 + (Len(rest) - 1) + posted = Len(que[1])
      BY <1>t, <3>1
    <3>3. que'[1] = que[1]
      BY <1>0
    <3>. QED  BY <2>1, <2>3, <3>2, <3>3
  <2>5. CASE posted > 0
    BY <1>e, <1>0, <2>1, <2>4, <2>5 DEF Counted
  <2>6. CASE ~(posted > 0)
    BY <1>e, <1>0, <2>1, <2>6 DEF Counted
  <2>. QED  BY <2>5, <2>6
<1>3. CASE RetryEnd
  <2>1. /\ posted' = posted /\ line' = NoLine /\ rest' = rest
        /\ pc' = IF posted > 0 THEN "flush" ELSE "done"
    BY <1>3 DEF RetryEnd, AfterRetry
  <2>. QED  BY <1>e, <1>t, <1>0, <2>1 DEF Counted, Lengths
<1>. QED  BY <1>1, <1>2, <1>3 DEF Retry

\* What a flush has to copy is within the limit.
LEMMA FlushKeepsAll ==
  ASSUME CountApplies, CountInv, IndInv', CopyUnsent
  PROVE  Kept = rest /\ Len(AsLines(line)) + Len(rest) <= SendQueSz
<1>1. Len(AsLines(line)) + Len(rest) <= SendQueSz
  BY CountEnds DEF CopyUnsent, Counted, Lengths
<1>. QED  BY <1>1, CountEnds DEF Kept, Lengths

LEMMA CountFlush ==
  ASSUME CountApplies, CountInv, IndInv', Flush
  PROVE  Counted'
<1>e. /\ TypeOK /\ Backed /\ Counted /\ Lengths /\ Lengths'
      /\ SendQueSz # MMWGI_SEND_QUE_SZ_NUM_NOP
  BY CountEnds
<1>t. /\ Len(que[1]) \in Nat /\ Len(tail) \in Nat /\ Len(rest) \in Nat
      /\ Len(AsLines(line)) \in Nat
      /\ posted \in Nat /\ pending \in Nat /\ SendQueSz \in Nat
  BY <1>e DEF Lengths
<1>1. CASE CopyUnsent
  <2>1. /\ tmp' = AsLines(line) \o rest /\ pending' = Len(rest) /\ que' = que
        /\ tail' = tail /\ pc = "flush" /\ pc' = "copied"
    BY <1>1, FlushKeepsAll DEF CopyUnsent, card
  <2>2. Len(AsLines(line) \o rest) = Len(AsLines(line)) + Len(rest)
    BY <1>e DEF Lengths
  <2>3. Len(AsLines(line)) \in {0, 1}
    BY <1>e DEF Lengths
  <2>4. Len(rest) <= SendQueSz
    BY <1>e, <1>t, <1>1, <2>3, FlushKeepsAll
  <2>5. /\ pending' <= SendQueSz /\ pending' <= Len(tmp') /\ Len(tmp') <= pending' + 1
    BY <1>t, <2>1, <2>2, <2>3, <2>4
  <2>6. Len(que'[1]) <= SendQueSz + 1 /\ tail' = <<>>
    BY <1>e, <2>1 DEF Counted
  <2>. QED  BY <1>e, <1>t, <2>1, <2>5, <2>6 DEF Counted
<1>2. CASE RenameQue
  <2>1. que'[1] = <<>> /\ tmp' = tmp /\ tail' = tail /\ pending' = pending
        /\ pc = "copied" /\ pc' = "renamed"
    BY <1>2, <1>e DEF RenameQue, buffers, Lengths
  <2>2. Len(que'[1]) = 0
    BY <1>e, <2>1 DEF Lengths
  <2>. QED  BY <1>e, <1>t, <2>1, <2>2 DEF Counted
<1>3. CASE RenameTmp
  <2>1. que'[1] = tmp /\ tail' = tail /\ tail = <<>> /\ pending' = pending
        /\ pc = "renamed" /\ pc' = "done"
    BY <1>3, <1>e DEF RenameTmp, Counted, Lengths
  <2>2. Len(tail') = 0 /\ Len(que'[1]) = Len(tmp)
    BY <1>e, <2>1 DEF Lengths
  <2>. QED  BY <1>e, <1>t, <2>1, <2>2 DEF Counted
<1>. QED  BY <1>1, <1>2, <1>3 DEF Flush

LEMMA CountStep ==
  ASSUME CountApplies
  PROVE  CountInv /\ [Next]_vars => CountInv'
<1>. SUFFICES ASSUME CountInv, [Next]_vars PROVE CountInv'
  OBVIOUS
<1>1. IndInv'
  BY IndStep DEF CountInv
<1>2. ~Reset
  BY DEF CountApplies, CountInv, IndInv, TypeOK, Reset
<1>. QED
  BY <1>1, <1>2, CountOutside, CountForward, CountRetry, CountFlush
  DEF CountInv, Next, Proceed

LEMMA CountInit ==
  ASSUME CountApplies
  PROVE  Init => CountInv
<1>. SUFFICES ASSUME Init PROVE Counted
  BY IndInit DEF CountInv
<1>1. Len(<<>>) = 0 /\ que[1] = <<>> /\ tail = <<>>
  BY DEF Init, Publisher, CountApplies
<1>. QED  BY <1>1, DeliveryAssumption DEF Init, Counted

LEMMA CountAlways ==
  ASSUME CountApplies
  PROVE  Spec => []CountInv
  BY CountInit, CountStep, PTL DEF Spec

\* With one queued publisher and no resets, its queue file exceeds the limit by one
\* line at most, whatever the limit and whatever the servers answer.
THEOREM QueIsBounded ==
  ASSUME NumPublishers = 1, MaxResets = 0
  PROVE  Spec => []QueBounded
<1>1. CASE SendQueSz = MMWGI_SEND_QUE_SZ_NUM_NOP
  <2>1. QueBounded
    BY <1>1 DEF QueBounded
  <2>. QED  BY <2>1, PTL
<1>2. CASE SendQueSz # MMWGI_SEND_QUE_SZ_NUM_NOP
  <2>1. CountApplies
    BY <1>2 DEF CountApplies
  <2>2. CountInv => QueBounded
    BY DEF CountInv, Counted, QueBounded, Publisher
  <2>. QED  BY <2>1, <2>2, CountAlways, PTL
<1>. QED  BY <1>1, <1>2

--------------------------------------------------------------------------------
(* The contract.                                                           *)

\* A file without repetitions holds as many readings as it has lines.
LEMMA DistinctCount ==
  ASSUME NEW S, NEW s \in Seq(S), Distinct(s)
  PROVE  Cardinality(ToSet(s)) = Len(s)
<1>1. IsInjective(s) /\ DOMAIN s = 1..Len(s) /\ Len(s) \in Nat
  BY DistinctIsInjective
<1>2. s \in [1..Len(s) -> ToSet(s)]
  <2>1. s = [i \in 1..Len(s) |-> s[i]] /\ \A i \in 1..Len(s) : s[i] \in ToSet(s)
    BY <1>1, ToSetDef
  <2>. QED  BY <2>1
<1>3. s \in Surjection(1..Len(s), ToSet(s))
  BY <1>2, ToSetDef DEF Surjection
<1>4. s \in Injection(1..Len(s), ToSet(s))
  BY <1>1, <1>2 DEF Injection, IsInjective
<1>5. IsFiniteSet(1..Len(s)) /\ Cardinality(1..Len(s)) = Len(s)
  BY <1>1, FS_Interval
<1>. QED  BY <1>3, <1>4, <1>5, FS_Surjection

\* What the counts add to the order when there is a limit, and nothing otherwise.
LimitInv ==
  /\ OrdInv /\ NothingResent
  /\ SendQueSz # MMWGI_SEND_QUE_SZ_NUM_NOP => NumPublishers = 1 /\ CountInv

LEMMA LimitAlways ==
  ASSUME MaxResets = 0,
         NumPublishers = 1 \/ SendQueSz = MMWGI_SEND_QUE_SZ_NUM_NOP
  PROVE  Spec => []LimitInv
<1>1. CASE SendQueSz = MMWGI_SEND_QUE_SZ_NUM_NOP
  <2>1. OrdInv /\ NothingResent => LimitInv
    BY <1>1 DEF LimitInv
  <2>. QED  BY <2>1, OrdAlways, NothingIsResent, PTL
<1>2. CASE SendQueSz # MMWGI_SEND_QUE_SZ_NUM_NOP
  <2>1. CountApplies
    BY <1>2 DEF CountApplies
  <2>2. OrdInv /\ NothingResent /\ CountInv => LimitInv
    BY <1>2 DEF LimitInv
  <2>. QED  BY <2>1, <2>2, OrdAlways, NothingIsResent, CountAlways, PTL
<1>. QED  BY <1>1, <1>2

\* A line that finds the queue full is one of more than the limit.
LEMMA FullIsOverLimit ==
  ASSUME LimitInv, ForwardRefused, QueFull
  PROVE  pub = 1 /\ Cardinality(Held(1)) > SendQueSz
<1>1. /\ NumPublishers = 1 /\ CountInv /\ OrdInv /\ TypeOK /\ Counted
      /\ pc = "forward" /\ rest # <<>> /\ pending >= SendQueSz
  BY DEF LimitInv, QueFull, ForwardRefused, CountInv, IndInv
<1>2. Lengths
  BY <1>1, LengthsForm
<1>3. Unsent(1) = que[1] \o tail \o rest /\ Unsent(1) \in Seq(Reading)
  BY <1>1, <1>2, UnsentHasForm DEF Lengths, UnsentForm
<1>4. Len(que[1] \o tail \o rest) = Len(que[1]) + Len(tail) + Len(rest)
  BY <1>2 DEF Lengths
<1>5. Len(que[1]) + Len(tail) + Len(rest) > SendQueSz
  <2>1. pending <= Len(que[1]) + Len(tail)
    BY <1>1 DEF Counted
  <2>2. /\ Len(que[1]) \in Nat /\ Len(tail) \in Nat /\ Len(rest) \in Nat
        /\ pending \in Nat /\ SendQueSz \in Nat /\ Len(rest) > 0
    BY <1>1, <1>2 DEF Lengths
  <2>3. \A k, l, m, n, z \in Nat : n <= k + l /\ n >= z /\ m > 0 => k + l + m > z
    OBVIOUS
  <2>. QED  BY <1>1, <2>1, <2>2, <2>3, Zenon
<1>6. Distinct(Unsent(1))
  BY <1>1, <1>2, UnsentIsDistinct DEF Lengths
<1>7. Cardinality(Held(1)) = Len(Unsent(1))
  BY <1>3, <1>6, DistinctCount DEF Held
<1>. QED  BY <1>2, <1>3, <1>4, <1>5, <1>7 DEF Lengths

\* A flush drops nothing.
LEMMA FlushDropsNothing ==
  ASSUME MaxResets = 0, LimitInv, IndInv', CopyUnsent
  PROVE  Kept = rest
<1>1. CASE SendQueSz = MMWGI_SEND_QUE_SZ_NUM_NOP
  BY <1>1 DEF Kept
<1>2. CASE SendQueSz # MMWGI_SEND_QUE_SZ_NUM_NOP
  BY <1>2, FlushKeepsAll DEF LimitInv, CountApplies
<1>. QED  BY <1>1, <1>2

\* What the contract has of the state.
SameHeld == UNCHANGED <<owed[1], Held(1)>>

\* A step that neither logs nor takes a line is none of the contract's.
LEMMA OthersStutter ==
  ASSUME MaxResets = 0, LimitInv, OrdInv', [Next]_vars, owed'[1] = owed[1],
         ~(ForwardRefused /\ QueFull),
         ~\E r \in Reading : LogReading(r)
  PROVE  SameHeld
<1>1. OrdInv /\ IndInv /\ IndInv' /\ TypeOK /\ 1 \in Publisher
  BY DeliveryAssumption DEF LimitInv, OrdInv, IndInv, Publisher
<1>2. ~Reset
  BY <1>1 DEF Reset, TypeOK
<1>3. ~Exempt
  BY <1>1, <1>2, FlushDropsNothing DEF Exempt
<1>4. owed'[1] \cap Held(1) \subseteq Held(1)'
  BY <1>1, <1>3, StepKeeps DEF KeepsOwed
<1>5. Held(1) \subseteq owed[1]
  BY <1>1 DEF LimitInv, NothingResent
<1>6. Held(1)' \subseteq Held(1)
  BY <1>1, <1>2, HeldShrinks
<1>. QED  BY <1>4, <1>5, <1>6 DEF SameHeld

\* Every step is one of the contract's or changes nothing of it.
LEMMA StepKeepsContract ==
  ASSUME MaxResets = 0, LimitInv, OrdInv', [Next]_vars
  PROVE  Contract!Next \/ SameHeld
<1>1. OrdInv /\ TypeOK /\ 1 \in Publisher
  BY DeliveryAssumption DEF LimitInv, OrdInv, IndInv, Publisher
<1>2. ASSUME NEW r \in Reading, LogReading(r) PROVE Contract!Next
  <2>1. r \notin Held(1) /\ owed'[1] = owed[1] \cup {r}
    BY <1>1, <1>2 DEF LogReading, TypeOK
  <2>2. Held(1)' = Held(1) \cup {r}
    <3>1. Held(1) \subseteq Held(1)' /\ Held(1)' \ Held(1) \subseteq {r}
      BY <1>1, <1>2, LoggedLast DEF Excerpt, Held
    <3>2. r \in Held(1)'
      BY <1>1, <1>2, DeliveryAssumption, HeldFirstNext
      DEF LogReading, HeldFirst, OrdInv, IndInv
    <3>. QED  BY <3>1, <3>2
  <2>3. Contract!Log(r)
    BY <2>1, <2>2 DEF Contract!Log
  <2>. QED  BY <2>3 DEF Contract!Next
<1>3. CASE ForwardAccepted \/ \E low \in BOOLEAN : RetryAccepted(low)
  <2>1. owed' = [owed EXCEPT ![pub] = @ \ {Head(rest)}]
    BY <1>3 DEF ForwardAccepted, RetryAccepted, Acknowledged
  <2>2. CASE pub = 1
    <3>1. owed'[1] = owed[1] \ {Head(rest)}
      BY <1>1, <2>1, <2>2 DEF TypeOK
    <3>2. /\ Head(rest) \in Reading /\ Head(rest) \in Held(pub)
          /\ Held(pub)' = Held(pub) \ {Head(rest)} /\ pub' = pub
      BY <1>1, <1>3, TakenIsGone
    <3>3. Contract!Acknowledge(Head(rest))
      BY <2>2, <3>1, <3>2 DEF Contract!Acknowledge
    <3>. QED  BY <3>2, <3>3 DEF Contract!Next
  <2>3. CASE pub # 1
    <3>1. owed'[1] = owed[1]
      BY <1>1, <2>1, <2>3 DEF TypeOK
    <3>2. ~ForwardRefused /\ ~\E r \in Reading : LogReading(r)
      BY <1>1, <1>3 DEF ForwardAccepted, ForwardRefused, RetryAccepted, LogReading
    <3>. QED  BY <3>1, <3>2, OthersStutter
  <2>. QED  BY <2>2, <2>3
<1>4. CASE ForwardRefused /\ QueFull
  <2>1. pub = 1 /\ Cardinality(Held(1)) > SendQueSz
    BY <1>4, FullIsOverLimit
  <2>2. /\ Head(rest) \in Reading /\ Head(rest) \in Held(pub)
        /\ Held(pub)' = Held(pub) \ {Head(rest)} /\ pub' = pub
    BY <1>1, <1>4, TakenIsGone
  <2>3. owed' = owed /\ SendQueSz # MMWGI_SEND_QUE_SZ_NUM_NOP
    BY <1>4 DEF ForwardRefused, QueFull
  <2>4. Contract!Discard(Head(rest))
    <3>1. Head(rest) \in Held(1) /\ Held(1)' = Held(1) \ {Head(rest)}
      BY <2>1, <2>2
    <3>2. owed'[1] = owed[1]
      BY <2>3
    <3>3. Contract!Cardinality(Held(1)) = Cardinality(Held(1))
      BY Zenon DEF Contract!Cardinality, Cardinality
    <3>. QED  BY <2>1, <2>3, <3>1, <3>2, <3>3, Zenon DEF Contract!Discard
  <2>. QED  BY <2>2, <2>4 DEF Contract!Next
<1>5. CASE /\ ~\E r \in Reading : LogReading(r)
           /\ ~ForwardAccepted /\ ~\E low \in BOOLEAN : RetryAccepted(low)
           /\ ~(ForwardRefused /\ QueFull)
  <2>1. owed' = owed
    BY <1>5
    DEF Next, Proceed, Forward, Retry, Flush, vars, SerzRdelLine, StartPass,
        NextPublisher, EndPass, ForwardRefused, RemoveRdel, CloseQue, RetryRefused,
        RetryEnd, CopyUnsent, RenameQue, RenameTmp, Reset, ServerRecovers
  <2>. QED  BY <1>5, <2>1, OthersStutter
<1>. QED  BY <1>2, <1>3, <1>4, <1>5

\* Without resets, and with one queued publisher if the queue has a limit, delivery to
\* the first publisher is what the contract promises: a reading leaves the card when
\* the server has acknowledged it or, one at a time, when the card holds more than the
\* limit, and in no other way.
THEOREM ContractIsKept ==
  ASSUME MaxResets = 0,
         NumPublishers = 1 \/ SendQueSz = MMWGI_SEND_QUE_SZ_NUM_NOP
  PROVE  Spec => KeepsContract
<1>1. Init => Contract!Init
  <2>. SUFFICES ASSUME Init PROVE owed[1] = {} /\ Held(1) = {}
    BY DEF Contract!Init
  <2>1. Unsent(1) = <<>> \o <<>> \o <<>> /\ owed[1] = {}
    BY DeliveryAssumption DEF Init, Unsent, AsLines, Publisher
  <2>. QED  BY <2>1, EmptyFile DEF Held
<1>2. LimitInv /\ OrdInv' /\ [Next]_vars => [Contract!Next]_(Contract!contractVars)
  BY StepKeepsContract DEF Contract!contractVars, SameHeld
<1>3. LimitInv => OrdInv
  BY DEF LimitInv
<1>. QED  BY <1>1, <1>2, <1>3, LimitAlways, PTL DEF Spec, KeepsContract, Contract!Spec
================================================================================
