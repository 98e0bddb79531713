------------------------ MODULE ReliableDelivery_proofs ------------------------
(***************************************************************************)
(* What holds of the reliable delivery queue for every set of readings,    *)
(* number of publishers and setting of the limits.                         *)
(***************************************************************************)
EXTENDS ReliableDelivery, TLAPS

--------------------------------------------------------------------------------
(* The lines of the sequences a pass makes of its files.                   *)

\* A line of a file is what some position of it holds.
LEMMA ToSetDef ==
  ASSUME NEW S, NEW s \in Seq(S), NEW x
  PROVE  x \in ToSet(s) <=> \E i \in 1..Len(s) : x = s[i]
<1>1. DOMAIN s = 1..Len(s)
  OBVIOUS
<1>. QED  BY <1>1 DEF ToSet

\* A file holds nothing but readings.
LEMMA ToSetType ==
  ASSUME NEW S, NEW s \in Seq(S)
  PROVE  ToSet(s) \subseteq S
<1>. SUFFICES ASSUME NEW x \in ToSet(s) PROVE x \in S
  OBVIOUS
<1>1. PICK i \in 1..Len(s) : x = s[i]
  BY ToSetDef
<1>. QED  BY <1>1

\* Two files one after the other.
LEMMA ToSetConcat ==
  ASSUME NEW S, NEW s \in Seq(S), NEW t \in Seq(S)
  PROVE  s \o t \in Seq(S) /\ ToSet(s \o t) = ToSet(s) \cup ToSet(t)
<1>0. s \o t \in Seq(S) /\ Len(s \o t) = Len(s) + Len(t)
  OBVIOUS
<1>1. ASSUME NEW x \in ToSet(s \o t) PROVE x \in ToSet(s) \cup ToSet(t)
  <2>1. PICK i \in 1..Len(s \o t) : x = (s \o t)[i]
    BY <1>0, ToSetDef
  <2>2. CASE i <= Len(s)
    <3>1. i \in 1..Len(s) /\ x = s[i]
      BY <2>1, <2>2, <1>0
    <3>. QED  BY <3>1, ToSetDef
  <2>3. CASE i > Len(s)
    <3>1. i - Len(s) \in 1..Len(t) /\ x = t[i - Len(s)]
      BY <2>1, <2>3, <1>0
    <3>. QED  BY <3>1, ToSetDef
  <2>. QED  BY <2>2, <2>3, <1>0
<1>2. ASSUME NEW x \in ToSet(s) PROVE x \in ToSet(s \o t)
  <2>1. PICK i \in 1..Len(s) : x = s[i]
    BY ToSetDef
  <2>2. i \in 1..Len(s \o t) /\ (s \o t)[i] = x
    BY <2>1, <1>0
  <2>. QED  BY <2>2, <1>0, ToSetDef
<1>3. ASSUME NEW x \in ToSet(t) PROVE x \in ToSet(s \o t)
  <2>1. PICK i \in 1..Len(t) : x = t[i]
    BY ToSetDef
  <2>2. Len(s) + i \in 1..Len(s \o t) /\ (s \o t)[Len(s) + i] = x
    BY <2>1, <1>0
  <2>. QED  BY <2>2, <1>0, ToSetDef
<1>. QED  BY <1>0, <1>1, <1>2, <1>3

\* Three files one after the other.
LEMMA ToSetConcatThree ==
  ASSUME NEW S, NEW s \in Seq(S), NEW t \in Seq(S), NEW u \in Seq(S)
  PROVE  ToSet(s \o t \o u) = ToSet(s) \cup ToSet(t) \cup ToSet(u)
<1>1. s \o t \in Seq(S) /\ ToSet(s \o t) = ToSet(s) \cup ToSet(t)
  BY ToSetConcat
<1>2. \A w \in Seq(S) : ToSet(w \o u) = ToSet(w) \cup ToSet(u)
  BY ToSetConcat
<1>. QED  BY <1>1, <1>2

\* An empty file and a file of one line.
LEMMA ToSetOne ==
  /\ ToSet(<<>>) = {}
  /\ \A e : ToSet(<<e>>) = {e}
<1>1. DOMAIN <<>> = {} /\ \A e : DOMAIN <<e>> = {1} /\ <<e>>[1] = e
  OBVIOUS
<1>. QED  BY <1>1 DEF ToSet

\* A file with one more line printed at its end.
LEMMA ToSetAppend ==
  ASSUME NEW S, NEW s \in Seq(S), NEW e \in S
  PROVE  Append(s, e) \in Seq(S) /\ ToSet(Append(s, e)) = ToSet(s) \cup {e}
<1>1. Append(s, e) = s \o <<e>> /\ <<e>> \in Seq(S)
  OBVIOUS
<1>2. /\ s \o <<e>> \in Seq(S)
      /\ ToSet(s \o <<e>>) = ToSet(s) \cup ToSet(<<e>>)
  BY <1>1, ToSetConcat
<1>. QED  BY <1>1, <1>2, ToSetOne

\* A file one line of which has been read.
LEMMA ToSetTail ==
  ASSUME NEW S, NEW s \in Seq(S), s # <<>>
  PROVE  /\ Head(s) \in S /\ Tail(s) \in Seq(S)
         /\ ToSet(s) = {Head(s)} \cup ToSet(Tail(s))
<1>1. Head(s) \in S /\ Tail(s) \in Seq(S) /\ <<Head(s)>> \in Seq(S)
  OBVIOUS
<1>2. s = <<Head(s)>> \o Tail(s)
  OBVIOUS
<1>3. ToSet(<<Head(s)>> \o Tail(s)) = ToSet(<<Head(s)>>) \cup ToSet(Tail(s))
  BY <1>1, ToSetConcat
<1>. QED  BY <1>1, <1>2, <1>3, ToSetOne

\* A buffer is an empty file or a file of one line.
LEMMA ToSetAsLines ==
  ASSUME NEW l \in Reading \cup {NoLine}
  PROVE  AsLines(l) \in Seq(Reading) /\ ToSet(AsLines(l)) = {l} \ {NoLine}
<1>1. CASE l = NoLine
  BY <1>1, ToSetOne DEF AsLines
<1>2. CASE l # NoLine
  BY <1>2, ToSetOne DEF AsLines
<1>. QED  BY <1>1, <1>2

\* What a flush copies of the lines it has not sent.
LEMMA KeptType ==
  ASSUME rest \in Seq(Reading)
  PROVE  /\ Kept \in Seq(Reading) /\ Len(Kept) \in Nat
         /\ ToSet(Kept) \subseteq ToSet(rest)
<1>. DEFINE k == SubSeq(rest, 1, SendQueSz)
<1>1. CASE Kept = rest
  BY <1>1
<1>2. CASE Kept = k /\ Len(rest) > SendQueSz
  <2>1. k \in Seq(Reading) /\ Len(k) = SendQueSz
        /\ \A i \in 1..Len(k) : k[i] = rest[i]
    BY <1>2, DeliveryAssumption
  <2>. HIDE DEF k
  <2>2. ASSUME NEW x \in ToSet(k) PROVE x \in ToSet(rest)
    <3>1. PICK i \in 1..Len(k) : x = k[i]
      BY <2>1, ToSetDef
    <3>2. i \in 1..Len(rest) /\ x = rest[i]
      BY <3>1, <2>1, <1>2, DeliveryAssumption
    <3>. QED  BY <3>2, ToSetDef
  <2>. QED  BY <2>1, <2>2, <1>2, DeliveryAssumption
<1>. QED  BY <1>1, <1>2, DeliveryAssumption DEF Kept

--------------------------------------------------------------------------------
(* The inductive invariant.  The type alone is not: only because a reading *)
(* is in hand at "logged" is it a reading that goes into RDELAY.TXT.       *)

IndInv == TypeOK /\ Backed

\* The variables of a pass when it is over.
LEMMA PassOverType ==
  ASSUME PassOver
  PROVE  /\ tail' \in Seq(Reading) /\ rest' \in Seq(Reading) /\ line' = NoLine
         /\ pc' = "idle" /\ pub' \in Publisher /\ net' \in BOOLEAN
         /\ rsp' \in {"none", "accepted", "refused"}
         /\ {tries', fails', posted'} \subseteq Nat /\ attempt' \in BOOLEAN
<1>1. tail' \in Seq(Reading) /\ rest' \in Seq(Reading)
  BY DEF PassOver
<1>2. pub' \in Publisher /\ {tries', fails', posted'} \subseteq Nat
  BY DeliveryAssumption DEF PassOver, Publisher
<1>. QED  BY <1>1, <1>2 DEF PassOver

\* The variables of a pass when it opens the files of publisher p.
LEMMA OpenFilesType ==
  ASSUME TypeOK, NEW p \in Publisher, OpenFiles(p)
  PROVE  /\ tail' \in Seq(Reading) /\ rest' \in Seq(Reading)
         /\ pc' = "forward" /\ pub' \in Publisher
         /\ {tries', fails'} \subseteq Nat /\ attempt' \in BOOLEAN
         /\ ToSet(tail') \cup ToSet(rest') \subseteq ToSet(rdel)
  BY ToSetOne DEF TypeOK, OpenFiles

\* The counters of the posts of a pass.
LEMMA CountAttemptType ==
  ASSUME TypeOK, NEW n \in Nat, CountAttempt(n)
  PROVE  {tries', fails'} \subseteq Nat /\ attempt' \in BOOLEAN
  BY DeliveryAssumption DEF TypeOK, CountAttempt

\* A file of publisher pub is given new lines.
LEMMA QueType ==
  ASSUME TypeOK, NEW s \in Seq(Reading), que' = [que EXCEPT ![pub] = s]
  PROVE  que' \in [Publisher -> Seq(Reading)] /\ que'[pub] = s
  BY DEF TypeOK

\* A reading is logged to the data file and is in hand.
LEMMA IndLogReading ==
  ASSUME IndInv, NEW r \in Reading, LogReading(r)
  PROVE  IndInv'
<1>. USE DEF IndInv, LogReading, card, limits
<1>1. TypeOK'
  BY DeliveryAssumption DEF TypeOK, Steps
<1>2. Backed'
  BY DeliveryAssumption DEF Backed
<1>. QED  BY <1>1, <1>2

\* It is appended to RDELAY.TXT.
LEMMA IndSerzRdelLine ==
  ASSUME IndInv, SerzRdelLine
  PROVE  IndInv'
<1>. USE DEF IndInv, SerzRdelLine, limits
<1>1. hand \in Reading
  BY DEF TypeOK, Backed
<1>2. rdel' \in Seq(Reading)
  BY <1>1 DEF TypeOK
<1>3. TypeOK'
  BY <1>2 DEF TypeOK, Steps
<1>4. Backed'
  BY DEF Backed
<1>. QED  BY <1>3, <1>4

\* A pass starts.
LEMMA IndStartPass ==
  ASSUME IndInv, NEW connected \in BOOLEAN, StartPass(connected)
  PROVE  IndInv'
<1>. USE DEF IndInv, StartPass, card
<1>1. 1 \in Publisher
  BY DeliveryAssumption DEF Publisher
<1>2. TypeOK'
  BY <1>1, OpenFilesType DEF TypeOK, Steps
<1>3. Backed'
  BY <1>1, OpenFilesType DEF Backed, AsLines
<1>. QED  BY <1>2, <1>3

\* It goes on with the next publisher.
LEMMA IndNextPublisher ==
  ASSUME IndInv, NextPublisher
  PROVE  IndInv'
<1>. USE DEF IndInv, NextPublisher, card
<1>1. pub + 1 \in Publisher
  BY DeliveryAssumption DEF TypeOK, Publisher
<1>2. TypeOK'
  BY <1>1, OpenFilesType DEF TypeOK, Steps
<1>3. Backed'
  BY <1>1, OpenFilesType DEF Backed, AsLines
<1>. QED  BY <1>2, <1>3

\* It ends.
LEMMA IndEndPass ==
  ASSUME IndInv, EndPass
  PROVE  IndInv'
<1>. USE DEF IndInv, EndPass, card
<1>1. TypeOK'
  BY PassOverType DEF TypeOK, Steps
<1>2. Backed'
  BY PassOverType DEF Backed
<1>. QED  BY <1>1, <1>2

\* A line of RDELAY.TXT is acknowledged.
LEMMA IndForwardAccepted ==
  ASSUME IndInv, ForwardAccepted
  PROVE  IndInv'
<1>. USE DEF IndInv, ForwardAccepted, Acknowledged, card
<1>1. /\ rest' \in Seq(Reading) /\ ToSet(rest') \subseteq ToSet(rest)
  BY ToSetTail DEF TypeOK
<1>2. {tries', fails'} \subseteq Nat /\ attempt' \in BOOLEAN
  BY CountAttemptType
<1>3. TypeOK'
  BY <1>1, <1>2 DEF TypeOK, Steps
<1>4. Backed'
  BY <1>1 DEF Backed
<1>. QED  BY <1>3, <1>4

\* A line of RDELAY.TXT is refused and goes to QUEn.TXT, if there is room.
LEMMA IndForwardRefused ==
  ASSUME IndInv, ForwardRefused
  PROVE  IndInv'
<1>. USE DEF IndInv, ForwardRefused, card
<1>1. /\ Head(rest) \in Reading /\ rest' \in Seq(Reading)
      /\ ToSet(rest) = {Head(rest)} \cup ToSet(rest')
  BY ToSetTail DEF TypeOK
<1>2. {tries', fails'} \subseteq Nat /\ attempt' \in BOOLEAN
  BY CountAttemptType DEF TypeOK
<1>3. /\ tail' \in Seq(Reading) /\ pending' \in Nat
      /\ ToSet(tail') \subseteq ToSet(tail) \cup {Head(rest)}
  <2>1. CASE QueFull
    BY <2>1 DEF TypeOK
  <2>2. CASE ~QueFull
    <3>1. tail' = Append(tail, Head(rest)) /\ pending' = pending + 1
      BY <2>2
    <3>. QED  BY <1>1, <3>1, ToSetAppend DEF TypeOK
  <2>. QED  BY <2>1, <2>2
<1>4. TypeOK'
  BY <1>1, <1>2, <1>3 DEF TypeOK, Steps
<1>5. Backed'
  BY <1>1, <1>3 DEF Backed
<1>. QED  BY <1>4, <1>5

\* RDELAY.TXT is removed.
LEMMA IndRemoveRdel ==
  ASSUME IndInv, RemoveRdel
  PROVE  IndInv'
<1>. USE DEF IndInv, RemoveRdel, limits
<1>1. TypeOK'
  BY DEF TypeOK, Steps
<1>2. Backed'
  BY DEF Backed
<1>. QED  BY <1>1, <1>2

\* QUEn.TXT is closed, and opened again to be retried.
LEMMA IndCloseQue ==
  ASSUME IndInv, CloseQue
  PROVE  IndInv'
<1>. USE DEF IndInv, CloseQue, limits
<1>1. que[pub] \o tail \in Seq(Reading)
  BY ToSetConcat DEF TypeOK
<1>2. que' \in [Publisher -> Seq(Reading)] /\ que'[pub] \in Seq(Reading)
  BY <1>1, QueType
<1>3. CASE rsp = "accepted"
  <2>1. rest' = que'[pub] /\ pc' = "retry"
    BY <1>3
  <2>2. TypeOK'
    BY <1>2, <2>1 DEF TypeOK, Steps
  <2>3. Backed'
    BY <2>1, ToSetAsLines, ToSetOne DEF Backed
  <2>. QED  BY <2>2, <2>3
<1>4. CASE rsp # "accepted"
  <2>1. rest' = rest /\ pc' = "done"
    BY <1>4
  <2>2. TypeOK'
    BY <1>2, <2>1 DEF TypeOK, Steps
  <2>3. Backed'
    BY <2>1 DEF Backed
  <2>. QED  BY <2>2, <2>3
<1>. QED  BY <1>3, <1>4

\* A line of QUEn.TXT is acknowledged.
LEMMA IndRetryAccepted ==
  ASSUME IndInv, NEW low \in BOOLEAN, RetryAccepted(low)
  PROVE  IndInv'
<1>. USE DEF IndInv, RetryAccepted, Acknowledged, card, limits
<1>1. /\ rest' \in Seq(Reading) /\ ToSet(rest') \subseteq ToSet(rest)
  BY ToSetTail DEF TypeOK
<1>2. TypeOK'
  BY <1>1 DEF TypeOK, Steps
<1>3. Backed'
  BY <1>1 DEF Backed, AsLines
<1>. QED  BY <1>2, <1>3

\* A line of QUEn.TXT is refused and stays in deszq_line.
LEMMA IndRetryRefused ==
  ASSUME IndInv, RetryRefused
  PROVE  IndInv'
<1>. USE DEF IndInv, RetryRefused, AfterRetry, card, limits
<1>1. /\ Head(rest) \in Reading /\ rest' \in Seq(Reading)
      /\ ToSet(rest) = {Head(rest)} \cup ToSet(rest')
  BY ToSetTail DEF TypeOK
<1>2. ToSet(AsLines(line'))  = {Head(rest)}
  BY <1>1, ToSetAsLines, DeliveryAssumption
<1>3. TypeOK'
  BY <1>1 DEF TypeOK, Steps
<1>4. Backed'
  BY <1>1, <1>2 DEF Backed
<1>. QED  BY <1>3, <1>4

\* The end of QUEn.TXT is reached.
LEMMA IndRetryEnd ==
  ASSUME IndInv, RetryEnd
  PROVE  IndInv'
<1>. USE DEF IndInv, RetryEnd, AfterRetry, card, limits
<1>1. TypeOK'
  BY DEF TypeOK, Steps
<1>2. Backed'
  BY DEF Backed
<1>. QED  BY <1>1, <1>2

\* The unsent lines are copied to TMP01.TXT.
LEMMA IndCopyUnsent ==
  ASSUME IndInv, CopyUnsent
  PROVE  IndInv'
<1>. USE DEF IndInv, CopyUnsent, card, limits
<1>1. /\ Kept \in Seq(Reading) /\ Len(Kept) \in Nat
      /\ ToSet(Kept) \subseteq ToSet(rest)
  BY KeptType DEF TypeOK
<1>2. AsLines(line) \in Seq(Reading)
  BY ToSetAsLines DEF TypeOK
<1>3. /\ tmp' \in Seq(Reading)
      /\ ToSet(tmp') = ToSet(AsLines(line)) \cup ToSet(Kept)
  BY <1>1, <1>2, ToSetConcat
<1>4. TypeOK'
  BY <1>1, <1>3 DEF TypeOK, Steps
<1>5. Backed'
  BY <1>1, <1>3 DEF Backed
<1>. QED  BY <1>4, <1>5

\* QUEn.TXT is renamed away.
LEMMA IndRenameQue ==
  ASSUME IndInv, RenameQue
  PROVE  IndInv'
<1>. USE DEF IndInv, RenameQue, buffers, limits
<1>1. TypeOK'
  BY QueType DEF TypeOK, Steps
<1>2. Backed'
  BY DEF Backed
<1>. QED  BY <1>1, <1>2

\* TMP01.TXT takes its place.
LEMMA IndRenameTmp ==
  ASSUME IndInv, RenameTmp
  PROVE  IndInv'
<1>. USE DEF IndInv, RenameTmp, limits
<1>1. TypeOK'
  BY QueType DEF TypeOK, Steps
<1>2. Backed'
  BY DEF Backed
<1>. QED  BY <1>1, <1>2

\* A reset.
LEMMA IndReset ==
  ASSUME IndInv, Reset
  PROVE  IndInv'
<1>. USE DEF IndInv, Reset, card
<1>1. TypeOK'
  BY PassOverType DEF TypeOK, Steps
<1>2. Backed'
  BY PassOverType DEF Backed
<1>. QED  BY <1>1, <1>2

\* Nothing that the invariant is about changes.
LEMMA IndUnchanged ==
  ASSUME IndInv, ServerRecovers \/ UNCHANGED vars
  PROVE  IndInv'
<1>. USE DEF IndInv, ServerRecovers, vars, card, buffers, limits
<1>1. TypeOK'
  BY DEF TypeOK
<1>2. Backed'
  BY DEF Backed, AsLines
<1>. QED  BY <1>1, <1>2

\* Every step keeps the inductive invariant.
LEMMA IndStep == IndInv /\ [Next]_vars => IndInv'
<1>. SUFFICES ASSUME IndInv, [Next]_vars PROVE IndInv'
  OBVIOUS
<1>1. ASSUME Proceed PROVE IndInv'
  BY <1>1, IndSerzRdelLine, IndForwardAccepted, IndForwardRefused, IndRemoveRdel,
     IndCloseQue, IndRetryAccepted, IndRetryRefused, IndRetryEnd, IndCopyUnsent,
     IndRenameQue, IndRenameTmp, IndNextPublisher, IndEndPass
  DEF Proceed, Forward, Retry, Flush
<1>. QED
  BY <1>1, IndLogReading, IndStartPass, IndReset, IndUnchanged DEF Next

\* And it holds before the first.
LEMMA IndInit == Init => IndInv
<1>. SUFFICES ASSUME Init PROVE IndInv
  OBVIOUS
<1>1. TypeOK
  <2>1. que \in [Publisher -> Seq(Reading)] /\ owed \in [Publisher -> SUBSET Reading]
    BY DEF Init
  <2>2. pub \in Publisher
    BY DeliveryAssumption DEF Init, Publisher
  <2>3. {tail, tmp, rest} \subseteq Seq(Reading) /\ rdel \in Seq(Reading)
    BY DEF Init
  <2>4. net \in BOOLEAN /\ attempt \in BOOLEAN /\ server \in {"flaky", "up"}
    BY DEF Init
  <2>5. {tries, fails, posted, pending, resets} \subseteq Nat
    BY DEF Init
  <2>. QED  BY <2>1, <2>2, <2>3, <2>4, <2>5 DEF Init, TypeOK, Steps
<1>2. Backed
  BY DEF Init, Backed
<1>. QED  BY <1>1, <1>2 DEF IndInv

LEMMA IndAlways == Spec => []IndInv
  BY IndInit, IndStep, PTL DEF Spec

\* The variables of the queue keep their types.
THEOREM TypeCorrect == Spec => []TypeOK
<1>1. IndInv => TypeOK
  BY DEF IndInv
<1>. QED  BY <1>1, IndAlways, PTL

\* Outside the loss windows whatever a pass holds in RAM, or has copied to TMP01.TXT,
\* is in a file that a reset would find again.
THEOREM AlwaysBacked == Spec => []Backed
<1>1. IndInv => Backed
  BY DEF IndInv
<1>. QED  BY <1>1, IndAlways, PTL

--------------------------------------------------------------------------------
(* What publisher 1 can still send, file by file.                          *)

HeldFirst ==
  /\ pc \in {"idle", "logged"} =>
       Held(1) = ToSet(que[1]) \cup ToSet(rdel) \cup ({hand} \ {NoLine})
  /\ pc \notin {"idle", "logged"} /\ pub # 1 => Held(1) = ToSet(que[1])
  /\ pub = 1 /\ pc \in {"forward", "removed"} =>
       Held(1) = ToSet(que[1]) \cup ToSet(tail) \cup ToSet(rest)
  /\ pub = 1 /\ pc \in {"retry", "flush"} =>
       Held(1) = ({line} \ {NoLine}) \cup ToSet(rest)
  /\ pub = 1 /\ pc \in {"copied", "renamed"} => Held(1) = ToSet(tmp)
  /\ pc = "done" => Held(1) = ToSet(que[1])

LEMMA HeldFirstForm == TypeOK => HeldFirst
<1>. SUFFICES ASSUME TypeOK PROVE HeldFirst
  OBVIOUS
<1>0. /\ que[1] \in Seq(Reading) /\ rdel \in Seq(Reading) /\ tail \in Seq(Reading)
      /\ rest \in Seq(Reading) /\ tmp \in Seq(Reading)
      /\ line \in Reading \cup {NoLine} /\ hand \in Reading \cup {NoLine}
      /\ pub \in Nat /\ ~(1 > pub) /\ (pub # 1 => 1 < pub) /\ (pub = 1 => ~(1 < pub))
  BY DeliveryAssumption DEF TypeOK, Publisher
<1>1. /\ AsLines(hand) \in Seq(Reading) /\ ToSet(AsLines(hand)) = {hand} \ {NoLine}
      /\ AsLines(line) \in Seq(Reading) /\ ToSet(AsLines(line)) = {line} \ {NoLine}
  BY <1>0, ToSetAsLines
<1>2. CASE pc \in {"idle", "logged"}
  <2>1. Unsent(1) = que[1] \o rdel \o AsLines(hand)
    BY <1>2, <1>0 DEF Unsent
  <2>2. ToSet(que[1] \o rdel \o AsLines(hand)) =
          ToSet(que[1]) \cup ToSet(rdel) \cup ToSet(AsLines(hand))
    BY <1>0, <1>1, ToSetConcatThree
  <2>. QED  BY <1>2, <1>1, <2>1, <2>2 DEF HeldFirst, Held
<1>3. CASE pub # 1 /\ pc \notin {"idle", "logged"}
  <2>1. Unsent(1) = que[1]
    BY <1>3, <1>0 DEF Unsent
  <2>. QED  BY <1>3, <2>1 DEF HeldFirst, Held
<1>4. CASE pub = 1 /\ pc \in {"forward", "removed"}
  <2>1. Unsent(1) = que[1] \o tail \o rest
    BY <1>4, <1>0 DEF Unsent
  <2>2. ToSet(que[1] \o tail \o rest) = ToSet(que[1]) \cup ToSet(tail) \cup ToSet(rest)
    BY <1>0, ToSetConcatThree
  <2>. QED  BY <1>4, <2>1, <2>2 DEF HeldFirst, Held
<1>5. CASE pub = 1 /\ pc \in {"retry", "flush"}
  <2>1. Unsent(1) = AsLines(line) \o rest
    BY <1>5, <1>0 DEF Unsent
  <2>2. ToSet(AsLines(line) \o rest) = ToSet(AsLines(line)) \cup ToSet(rest)
    BY <1>0, <1>1, ToSetConcat
  <2>. QED  BY <1>5, <1>1, <2>1, <2>2 DEF HeldFirst, Held
<1>6. CASE pub = 1 /\ pc \in {"copied", "renamed"}
  <2>1. Unsent(1) = tmp
    BY <1>6, <1>0 DEF Unsent
  <2>. QED  BY <1>6, <2>1 DEF HeldFirst, Held
<1>7. CASE pub = 1 /\ pc = "done"
  <2>1. Unsent(1) = que[1]
    BY <1>7, <1>0 DEF Unsent
  <2>. QED  BY <1>7, <2>1 DEF HeldFirst, Held
<1>. QED  BY <1>2, <1>3, <1>4, <1>5, <1>6, <1>7 DEF TypeOK, Steps

LEMMA HeldFirstNext == TypeOK' => HeldFirst'
  BY HeldFirstForm, PTL

--------------------------------------------------------------------------------
(* What each step does to the readings publisher 1 can still send.  The    *)
(* steps of the firmware that are not in question have a lemma each; those *)
(* that may lose readings have the condition in the lemma.                 *)

\* No reading that is still owed leaves the card, and one that becomes owed is on it.
KeepsOwed ==
  /\ owed[1]' \cap Held(1) \subseteq Held(1)'
  /\ owed[1]' \subseteq owed[1] \cup Held(1)'

\* The invariant of both ends of a step, and what the card holds at both.
LEMMA BothEnds ==
  ASSUME IndInv, IndInv'
  PROVE  TypeOK /\ TypeOK' /\ Backed /\ HeldFirst /\ HeldFirst' /\ 1 \in Publisher
  BY HeldFirstForm, HeldFirstNext, DeliveryAssumption DEF IndInv, Publisher

\* Logging a reading, writing it to RDELAY.TXT.
LEMMA KeepTaken ==
  ASSUME IndInv, IndInv', (\E r \in Reading : LogReading(r)) \/ SerzRdelLine
  PROVE  KeepsOwed
<1>1. CASE \E r \in Reading : LogReading(r)
  <2>1. PICK r \in Reading : LogReading(r)
    BY <1>1
  <2>2. /\ Held(1) = ToSet(que[1]) \cup ToSet(rdel) \cup ({hand} \ {NoLine})
        /\ Held(1)' = ToSet(que[1]) \cup ToSet(rdel) \cup ({r} \ {NoLine})
        /\ hand = NoLine /\ r # NoLine
        /\ owed[1]' = owed[1] \cup {r}
    BY <2>1, BothEnds, DeliveryAssumption DEF LogReading, card, HeldFirst, Backed, TypeOK
  <2>. QED  BY <2>2 DEF KeepsOwed
<1>2. CASE SerzRdelLine
  <2>1. ToSet(rdel') = ToSet(rdel) \cup {hand}
    BY <1>2, BothEnds, ToSetAppend DEF SerzRdelLine, Backed, TypeOK
  <2>2. /\ Held(1) \subseteq ToSet(que[1]) \cup ToSet(rdel) \cup {hand}
        /\ Held(1)' = ToSet(que[1]) \cup ToSet(rdel') \cup ({hand'} \ {NoLine})
        /\ owed' = owed
    BY <1>2, BothEnds DEF SerzRdelLine, HeldFirst
  <2>. QED  BY <2>1, <2>2 DEF KeepsOwed
<1>. QED  BY <1>1, <1>2

\* Opening the files of a pass or of its next publisher, ending it.
LEMMA KeepOpened ==
  ASSUME IndInv, IndInv',
         (\E c \in BOOLEAN : StartPass(c)) \/ NextPublisher \/ EndPass
  PROVE  KeepsOwed
<1>1. CASE \E c \in BOOLEAN : StartPass(c)
  <2>1. /\ Held(1) = ToSet(que[1]) \cup ToSet(rdel)
        /\ Held(1)' = ToSet(que[1]) \cup ToSet(<<>>) \cup ToSet(rdel)
        /\ owed' = owed
    BY <1>1, BothEnds DEF StartPass, OpenFiles, card, HeldFirst, Backed
  <2>. QED  BY <2>1 DEF KeepsOwed
<1>2. CASE NextPublisher
  <2>1. pub' # 1
    BY <1>2, BothEnds DEF NextPublisher, OpenFiles, TypeOK, Publisher
  <2>2. Held(1) = ToSet(que[1]) /\ Held(1)' = ToSet(que[1]) /\ owed' = owed
    BY <1>2, <2>1, BothEnds DEF NextPublisher, OpenFiles, card, HeldFirst
  <2>. QED  BY <2>2 DEF KeepsOwed
<1>3. CASE EndPass
  <2>1. Held(1) = ToSet(que[1]) /\ ToSet(que[1]) \subseteq Held(1)' /\ owed' = owed
    BY <1>3, BothEnds DEF EndPass, PassOver, card, HeldFirst
  <2>. QED  BY <2>1 DEF KeepsOwed
<1>. QED  BY <1>1, <1>2, <1>3

\* A post that is accepted, in either loop.
LEMMA KeepAccepted ==
  ASSUME IndInv, IndInv',
         ForwardAccepted \/ (\E low \in BOOLEAN : RetryAccepted(low))
  PROVE  KeepsOwed
<1>1. ToSet(rest) = {Head(rest)} \cup ToSet(rest')
  BY BothEnds, ToSetTail DEF ForwardAccepted, RetryAccepted, TypeOK
<1>2. /\ owed[1]' \subseteq owed[1]
      /\ pub = 1 => Head(rest) \notin owed[1]'
  BY BothEnds DEF ForwardAccepted, RetryAccepted, Acknowledged, TypeOK
<1>3. CASE pub # 1
  <2>1. Held(1)' = Held(1)
    BY <1>3, BothEnds DEF ForwardAccepted, RetryAccepted, card, HeldFirst
  <2>. QED  BY <1>2, <2>1 DEF KeepsOwed
<1>4. CASE pub = 1
  <2>1. Held(1) \subseteq Held(1)' \cup {Head(rest)}
    BY <1>1, <1>4, BothEnds DEF ForwardAccepted, RetryAccepted, card, HeldFirst
  <2>. QED  BY <1>2, <1>4, <2>1 DEF KeepsOwed
<1>. QED  BY <1>3, <1>4

\* A post that is refused, or not made, while QUEn.TXT has room.
LEMMA KeepForwardRefused ==
  ASSUME IndInv, IndInv', ForwardRefused, ~QueFull
  PROVE  KeepsOwed
<1>1. ToSet(rest) = {Head(rest)} \cup ToSet(rest') /\ Head(rest) \in Reading
  BY BothEnds, ToSetTail DEF ForwardRefused, TypeOK
<1>2. tail' = Append(tail, Head(rest))
  BY DEF ForwardRefused
<1>3. tail \in Seq(Reading)
  BY BothEnds DEF TypeOK
<1>4. ToSet(Append(tail, Head(rest))) = ToSet(tail) \cup {Head(rest)}
  BY <1>1, <1>3, ToSetAppend
<1>5. Held(1) \subseteq Held(1)' /\ owed' = owed
  BY <1>1, <1>2, <1>4, BothEnds DEF ForwardRefused, card, HeldFirst
<1>. QED  BY <1>5 DEF KeepsOwed

\* RDELAY.TXT removed, QUEn.TXT closed.
LEMMA KeepClosed ==
  ASSUME IndInv, IndInv', RemoveRdel \/ CloseQue
  PROVE  KeepsOwed
<1>1. CASE RemoveRdel
  <2>1. Held(1) = Held(1)' /\ owed' = owed
    BY <1>1, BothEnds DEF RemoveRdel, HeldFirst
  <2>. QED  BY <2>1 DEF KeepsOwed
<1>2. CASE CloseQue /\ pub # 1
  <2>1. Held(1) = ToSet(que[1]) /\ Held(1)' = ToSet(que'[1]) /\ que'[1] = que[1]
    BY <1>2, BothEnds DEF CloseQue, HeldFirst, TypeOK
  <2>2. owed' = owed
    BY <1>2 DEF CloseQue
  <2>. QED  BY <2>1, <2>2 DEF KeepsOwed
<1>3. CASE CloseQue /\ pub = 1
  <2>1. /\ que'[1] = que[1] \o tail /\ owed' = owed
        /\ ToSet(que[1] \o tail) = ToSet(que[1]) \cup ToSet(tail)
    BY <1>3, BothEnds, ToSetConcat DEF CloseQue, TypeOK
  <2>2. Held(1) = ToSet(que[1]) \cup ToSet(tail)
    BY <1>3, BothEnds, ToSetOne DEF CloseQue, HeldFirst, Backed
  <2>3. ToSet(que'[1]) \subseteq Held(1)'
    <3>1. CASE rsp = "accepted"
      BY <1>3, <3>1, BothEnds DEF CloseQue, HeldFirst
    <3>2. CASE rsp # "accepted"
      BY <1>3, <3>2, BothEnds DEF CloseQue, HeldFirst
    <3>. QED  BY <3>1, <3>2
  <2>. QED  BY <2>1, <2>2, <2>3 DEF KeepsOwed
<1>. QED  BY <1>1, <1>2, <1>3

\* A retry that is refused, or the end of QUEn.TXT.
LEMMA KeepRetryStopped ==
  ASSUME IndInv, IndInv', RetryRefused \/ RetryEnd
  PROVE  KeepsOwed
<1>1. que' = que /\ owed' = owed /\ pub' = pub
  BY DEF RetryRefused, RetryEnd, card
<1>2. pc' \in {"flush", "done"} /\ pc = "retry" /\ line = NoLine
  BY BothEnds DEF RetryRefused, RetryEnd, AfterRetry, Backed
<1>3. CASE pub # 1
  <2>1. Held(1)' = Held(1)
    BY <1>1, <1>2, <1>3, BothEnds DEF HeldFirst
  <2>. QED  BY <1>1, <2>1 DEF KeepsOwed
<1>4. CASE pub = 1 /\ pc' = "done"
  <2>1. Held(1) \subseteq ToSet(que[1]) /\ Held(1)' = ToSet(que[1])
    BY <1>1, <1>2, <1>4, BothEnds DEF HeldFirst, Backed
  <2>. QED  BY <1>1, <2>1 DEF KeepsOwed
<1>5. CASE pub = 1 /\ pc' = "flush"
  <2>1. ToSet(rest) \subseteq ({line'} \ {NoLine}) \cup ToSet(rest')
    <3>1. CASE RetryRefused
      <4>1. rest \in Seq(Reading) /\ rest # <<>>
        BY <3>1, BothEnds DEF RetryRefused, TypeOK
      <4>2. /\ Head(rest) \in Reading
            /\ ToSet(rest) = {Head(rest)} \cup ToSet(Tail(rest))
        BY <4>1, ToSetTail
      <4>3. line' = Head(rest) /\ rest' = Tail(rest)
        BY <3>1 DEF RetryRefused
      <4>4. Head(rest) # NoLine
        BY <4>2, DeliveryAssumption
      <4>. QED  BY <4>2, <4>3, <4>4
    <3>2. CASE RetryEnd
      BY <3>2 DEF RetryEnd
    <3>. QED  BY <3>1, <3>2
  <2>2. Held(1) \subseteq Held(1)'
    BY <1>1, <1>2, <1>5, <2>1, BothEnds DEF HeldFirst
  <2>. QED  BY <1>1, <2>2 DEF KeepsOwed
<1>. QED  BY <1>2, <1>3, <1>4, <1>5

\* The copy to TMP01.TXT when it has room for every line, and the two renames.
LEMMA KeepFlushed ==
  ASSUME IndInv, IndInv',
         (CopyUnsent /\ Kept = rest) \/ RenameQue \/ RenameTmp
  PROVE  KeepsOwed
<1>1. owed' = owed /\ pub' = pub
  BY DEF CopyUnsent, RenameQue, RenameTmp
<1>2. CASE pub # 1
  <2>1. que'[1] = que[1]
    BY <1>2, BothEnds DEF CopyUnsent, RenameQue, RenameTmp, card, TypeOK
  <2>2. Held(1) = ToSet(que[1]) /\ Held(1)' = ToSet(que'[1])
    BY <1>1, <1>2, BothEnds DEF CopyUnsent, RenameQue, RenameTmp, HeldFirst
  <2>. QED  BY <1>1, <2>1, <2>2 DEF KeepsOwed
<1>3. CASE pub = 1 /\ CopyUnsent /\ Kept = rest
  <2>1. AsLines(line) \in Seq(Reading) /\ ToSet(AsLines(line)) = {line} \ {NoLine}
    BY BothEnds, ToSetAsLines DEF TypeOK
  <2>2. ToSet(AsLines(line) \o rest) = ({line} \ {NoLine}) \cup ToSet(rest)
    <3>1. rest \in Seq(Reading)
      BY BothEnds DEF TypeOK
    <3>2. ToSet(AsLines(line) \o rest) = ToSet(AsLines(line)) \cup ToSet(rest)
      BY <2>1, <3>1, ToSetConcat
    <3>. QED  BY <2>1, <3>2
  <2>3. Held(1)' = Held(1)
    BY <1>1, <1>3, <2>2, BothEnds DEF CopyUnsent, HeldFirst
  <2>. QED  BY <1>1, <2>3 DEF KeepsOwed
<1>4. CASE pub = 1 /\ RenameQue
  <2>1. Held(1)' = Held(1)
    BY <1>1, <1>4, BothEnds DEF RenameQue, buffers, HeldFirst
  <2>. QED  BY <1>1, <2>1 DEF KeepsOwed
<1>5. CASE pub = 1 /\ RenameTmp
  <2>1. que'[1] = tmp
    BY <1>5, BothEnds DEF RenameTmp, TypeOK
  <2>2. Held(1)' = Held(1)
    BY <1>1, <1>5, <2>1, BothEnds DEF RenameTmp, HeldFirst
  <2>. QED  BY <1>1, <2>2 DEF KeepsOwed
<1>. QED  BY <1>2, <1>3, <1>4, <1>5

\* A reset outside the loss windows.
LEMMA KeepReset ==
  ASSUME IndInv, IndInv', Reset, pc \notin LossWindow
  PROVE  KeepsOwed
<1>1. owed' = owed /\ Held(1)' = ToSet(que[1]) \cup ToSet(rdel)
  BY BothEnds DEF Reset, PassOver, card, HeldFirst
<1>2. Held(1) \subseteq ToSet(que[1]) \cup ToSet(rdel)
  <2>1. CASE pc = "idle"
    BY <2>1, BothEnds DEF HeldFirst, Backed
  <2>2. CASE pc # "idle" /\ pub # 1
    BY <2>2, BothEnds DEF HeldFirst, LossWindow
  <2>3. CASE pub = 1 /\ pc = "forward"
    BY <2>3, BothEnds DEF HeldFirst, Backed
  <2>4. CASE pub = 1 /\ pc \in {"retry", "flush"}
    <3>1. ToSet(AsLines(line)) = {line} \ {NoLine}
      BY BothEnds, ToSetAsLines DEF TypeOK
    <3>. QED  BY <2>4, <3>1, BothEnds DEF HeldFirst, Backed
  <2>5. CASE pub = 1 /\ pc = "copied"
    BY <2>5, BothEnds DEF HeldFirst, Backed
  <2>6. CASE pc = "done"
    BY <2>6, BothEnds DEF HeldFirst
  <2>. QED  BY <2>1, <2>2, <2>3, <2>4, <2>5, <2>6, BothEnds DEF TypeOK, Steps, LossWindow
<1>. QED  BY <1>1, <1>2 DEF KeepsOwed

\* Nothing that the card holds changes.
LEMMA KeepUnchanged ==
  ASSUME IndInv, ServerRecovers \/ UNCHANGED vars
  PROVE  KeepsOwed
<1>1. Held(1)' = Held(1) /\ owed' = owed
  BY DEF ServerRecovers, vars, card, buffers, Held, Unsent
<1>. QED  BY <1>1 DEF KeepsOwed

\* Every step keeps what is owed, but a reset in a loss window and the two places
\* where the limit of the queue drops a line.
Exempt ==
  \/ Reset /\ pc \in LossWindow
  \/ ForwardRefused /\ QueFull
  \/ CopyUnsent /\ Kept # rest

LEMMA StepKeeps ==
  ASSUME IndInv, IndInv', [Next]_vars, ~Exempt
  PROVE  KeepsOwed
<1>1. ASSUME Proceed PROVE KeepsOwed
  BY <1>1, KeepTaken, KeepOpened, KeepAccepted, KeepForwardRefused, KeepClosed,
     KeepRetryStopped, KeepFlushed
  DEF Proceed, Forward, Retry, Flush, Exempt
<1>. QED
  BY <1>1, KeepTaken, KeepOpened, KeepReset, KeepUnchanged DEF Next, Exempt

--------------------------------------------------------------------------------
\* Whatever the number of readings and publishers, the limits and the resets: for the
\* publisher served first, an unacknowledged reading leaves the card only by a reset
\* in a loss window or because the queue has no room for it.
THEOREM LossesAreInWindow == Spec => LossOnlyInWindow
<1>. DEFINE Allowed ==
       Lost # {} => \/ resets' > resets /\ pc \in LossWindow
                    \/ pc = "forward" /\ QueFull
                    \/ pc = "flush" /\ Kept # rest
<1>1. IndInv /\ IndInv' /\ [Next]_vars => [Allowed]_vars
  <2>. SUFFICES ASSUME IndInv, IndInv', [Next]_vars, Lost # {}
                PROVE  Allowed
    OBVIOUS
  <2>1. CASE Exempt
    <3>1. Reset => resets' > resets
      <4>1. resets \in Nat
        BY BothEnds DEF TypeOK
      <4>2. Reset => resets' = resets + 1
        BY DEF Reset
      <4>. QED  BY <4>1, <4>2
    <3>2. ForwardRefused => pc = "forward"
      BY DEF ForwardRefused
    <3>3. CopyUnsent => pc = "flush"
      BY DEF CopyUnsent
    <3>. QED  BY <2>1, <3>1, <3>2, <3>3 DEF Exempt
  <2>2. CASE ~Exempt
    BY <2>2, StepKeeps DEF Lost, KeepsOwed
  <2>. QED  BY <2>1, <2>2
<1>. QED  BY <1>1, IndAlways, PTL DEF Spec, LossOnlyInWindow

\* Without resets and without a limit on the queue, no logged reading is off the card
\* before publisher 1's server has acknowledged it.
THEOREM FirstIsReliable ==
  ASSUME MaxResets = 0, SendQueSz = MMWGI_SEND_QUE_SZ_NUM_NOP
  PROVE  Spec => []FirstLosesNothing
<1>1. Init => FirstLosesNothing
  BY DeliveryAssumption DEF Init, FirstLosesNothing, NothingLostFor, Publisher
<1>2. IndInv /\ IndInv' /\ [Next]_vars /\ FirstLosesNothing => FirstLosesNothing'
  <2>. SUFFICES ASSUME IndInv, IndInv', [Next]_vars, FirstLosesNothing
                PROVE  FirstLosesNothing'
    OBVIOUS
  <2>1. ~Exempt
    <3>1. ~Reset
      BY BothEnds DEF Reset, TypeOK
    <3>2. ~QueFull /\ Kept = rest
      BY DEF QueFull, Kept
    <3>. QED  BY <3>1, <3>2 DEF Exempt
  <2>2. KeepsOwed
    BY <2>1, StepKeeps
  <2>. QED  BY <2>2 DEF KeepsOwed, FirstLosesNothing, NothingLostFor
<1>. QED  BY <1>1, <1>2, IndAlways, PTL DEF Spec
================================================================================
