--------------------------- MODULE ReliableDelivery ---------------------------
(***************************************************************************)
(* The reliable delivery queue of the logger (LoggerBaseExtCpp.h).         *)
(*                                                                         *)
(* A reading is appended to RDELAY.TXT when it is taken.  A delivery pass  *)
(* (publishDataQuedToRemotes) posts every line of RDELAY.TXT to each       *)
(* queued publisher and appends what the server does not accept to that    *)
(* publisher's QUEn.TXT; if the last post was accepted it then retries the *)
(* lines of QUEn.TXT, oldest first, and rewrites the file without the      *)
(* lines that went through.                                                *)
(*                                                                         *)
(* The firmware is one thread, so the steps of a pass are a program        *)
(* counter.  Reset stands for the watchdog, a brown-out, or forceSysReset  *)
(* at any point between two steps.  Each step changes the durable content  *)
(* of at most one file.                                                    *)
(*                                                                         *)
(* The card (SdFat) is external: what is written to an open file becomes   *)
(* durable when the file is closed or renamed, because only then does the  *)
(* directory entry record the new size.  A file that cannot be opened or   *)
(* written is not modelled.  A line is the reading it was made from.       *)
(***************************************************************************)
EXTENDS Naturals, Sequences, FiniteSets, SequencesExt

CONSTANTS
  Reading,         \* the readings that can be on the card at once
  Poison,          \* those the server will never accept
  NoLine,          \* an empty line buffer
  NumPublishers,   \* queued publishers (the others are passed over)
  SendQueSz,       \* _sendQueSz_num: lines a queue file may hold
  PostMax,         \* _postMax_num: posts per publisher and pass, 0 no limit
  SendAtOnce,      \* _sendAtOneTimeMaxX_num: retries per battery check
  Threshold,       \* RDELAY_FAILED_POSTS_THRESHOLD
  MaxResets        \* bound on the resets of a behaviour

MMWGI_SEND_QUE_SZ_NUM_NOP == 65535      \* "FFFF no limit"

ASSUME DeliveryAssumption ==
  /\ Poison \subseteq Reading
  /\ NoLine \notin Reading
  /\ NumPublishers \in Nat \ {0}
  /\ SendAtOnce \in Nat \ {0}
  /\ {SendQueSz, PostMax, Threshold, MaxResets} \subseteq Nat

Publisher == 1..NumPublishers

VARIABLES
  rdel,      \* RDELAY.TXT
  que,       \* QUEn.TXT of each publisher, as it is on the card
  tail,      \* lines printed to the open QUEn.TXT, not yet durable
  tmp,       \* TMP01.TXT, the new QUEn.TXT being written
  rest,      \* lines the file being read has still to give
  line,      \* deszq_line when a retry left its record there
  hand,      \* the reading logged to the data file but not yet to RDELAY.TXT
  pc, pub,   \* the next step, and the publisher it is for (_dataPubInstance)
  net,       \* internetPresent
  rsp,       \* rspCode, by what publishRspCodeAccepted makes of it
  tries, fails, attempt,   \* attemptPostCnt, attemptPostFailedCnt, attemptPostStatus
  posted,    \* tot_posted
  pending,   \* desz_pending_records
  server,    \* "flaky": it may refuse or time out;  "up": it accepts
  owed,      \* history: readings logged and not yet acknowledged, per publisher
  resets     \* resets so far

card == <<rdel, que>>
buffers == <<tail, tmp, rest, line, hand>>
limits == <<tries, fails, attempt>>
vars == <<card, buffers, pc, pub, net, rsp, limits, posted, pending, server,
          owed, resets>>

Steps == {"idle", "logged", "forward", "removed", "retry", "flush", "copied",
          "renamed", "done"}

--------------------------------------------------------------------------------
(* What can still be sent to publisher p if the firmware keeps running,    *)
(* oldest first.                                                           *)

AsLines(l) == IF l = NoLine THEN <<>> ELSE <<l>>

Unsent(p) ==
  CASE pc \in {"idle", "logged"}                 -> que[p] \o rdel \o AsLines(hand)
    [] pc \notin {"idle", "logged"} /\ p < pub   -> que[p]
    [] pc \notin {"idle", "logged"} /\ p > pub   -> que[p] \o rdel
    [] pc \in {"forward", "removed"} /\ p = pub  -> que[p] \o tail \o rest
    [] pc = "done" /\ p = pub                    -> que[p]
    [] pc \in {"retry", "flush"} /\ p = pub      -> AsLines(line) \o rest
    [] pc \in {"copied", "renamed"} /\ p = pub   -> tmp

Held(p) == ToSet(Unsent(p))

--------------------------------------------------------------------------------
Init ==
  /\ rdel = <<>> /\ que = [p \in Publisher |-> <<>>]
  /\ tail = <<>> /\ tmp = <<>> /\ rest = <<>> /\ line = NoLine /\ hand = NoLine
  /\ pc = "idle" /\ pub = 1 /\ net = FALSE /\ rsp = "none"
  /\ tries = 0 /\ fails = 0 /\ attempt = TRUE /\ posted = 0 /\ pending = 0
  /\ server = "flaky"
  /\ owed = [p \in Publisher |-> {}]
  /\ resets = 0

--------------------------------------------------------------------------------
(* Taking a reading: the data file first, then RDELAY.TXT.                 *)

LogReading(r) ==
  /\ pc = "idle"
  /\ \A p \in Publisher : r \notin Held(p)
  /\ hand' = r
  /\ owed' = [p \in Publisher |-> owed[p] \cup {r}]
  /\ pc' = "logged"
  /\ UNCHANGED <<card, tail, tmp, rest, line, pub, net, rsp, limits, posted,
                 pending, server, resets>>

SerzRdelLine ==
  /\ pc = "logged"
  /\ rdel' = Append(rdel, hand)
  /\ hand' = NoLine
  /\ pc' = "idle"
  /\ UNCHANGED <<que, tail, tmp, rest, line, pub, net, rsp, limits, posted,
                 pending, server, owed, resets>>

--------------------------------------------------------------------------------
(* A pass: for each queued publisher, serzQuedStart and deszRdelStart.     *)

OpenFiles(p) ==
  /\ pub' = p
  /\ tail' = <<>>
  /\ rest' = rdel
  /\ tries' = 0 /\ fails' = 0 /\ attempt' = TRUE
  /\ pc' = "forward"

\* Mutant of StartPass: RDELAY.TXT is truncated as it is opened.
StartPassTruncates(internetPresent) ==
  /\ pc = "idle"
  /\ net' = internetPresent
  /\ rsp' = "none"
  /\ OpenFiles(1)
  /\ rdel' = <<>>
  /\ UNCHANGED <<que, tmp, line, hand, posted, pending, server, owed, resets>>

StartPass(internetPresent) ==
  /\ pc = "idle"
  /\ net' = internetPresent
  /\ rsp' = "none"
  /\ OpenFiles(1)
  /\ UNCHANGED <<card, tmp, line, hand, posted, pending, server, owed, resets>>

NextPublisher ==
  /\ pc = "done" /\ pub < NumPublishers
  /\ OpenFiles(pub + 1)
  /\ UNCHANGED <<card, tmp, line, hand, net, rsp, posted, pending, server, owed,
                 resets>>

\* The locals of a pass end with it, and what deszq_line still holds is
\* overwritten before it is read again.
PassOver ==
  /\ pc' = "idle" /\ pub' = 1 /\ net' = FALSE /\ rsp' = "none"
  /\ tries' = 0 /\ fails' = 0 /\ attempt' = TRUE /\ posted' = 0
  /\ tail' = <<>> /\ rest' = <<>> /\ line' = NoLine

EndPass ==
  /\ pc = "done" /\ pub = NumPublishers
  /\ PassOver
  /\ UNCHANGED <<card, tmp, hand, pending, server, owed, resets>>

(* publishData: the answers the server can give to a post of r.            *)
Accepts(r) == r \notin Poison
Refuses(r) == r \in Poison \/ server = "flaky"

Acknowledged(r) == owed' = [owed EXCEPT ![pub] = @ \ {r}]

--------------------------------------------------------------------------------
(* The loop over RDELAY.TXT.                                               *)

\* The limits are looked at after every line, accepted or not: attemptPostFailedCnt
\* is incremented after it has been reset.
CountAttempt(failedBefore) ==
  /\ tries' = tries + 1
  /\ fails' = failedBefore + 1
  /\ attempt' = /\ attempt
                /\ ~(PostMax # 0 /\ tries' >= PostMax)
                /\ fails' <= Threshold

\* Mutant of QueFull: one more.
QueFullLate == SendQueSz # MMWGI_SEND_QUE_SZ_NUM_NOP /\ pending > SendQueSz

QueFull == SendQueSz # MMWGI_SEND_QUE_SZ_NUM_NOP /\ pending >= SendQueSz

ForwardAccepted ==
  /\ pc = "forward" /\ rest # <<>>
  /\ net /\ attempt /\ Accepts(Head(rest))
  /\ Acknowledged(Head(rest))
  /\ rsp' = "accepted"
  /\ rest' = Tail(rest)
  /\ CountAttempt(0)
  /\ UNCHANGED <<card, tail, tmp, line, hand, pc, pub, net, posted, pending,
                 server, resets>>

\* Mutant of ForwardRefused: what was not posted is not kept.
ForwardRefusedDrops ==
  /\ pc = "forward" /\ rest # <<>>
  /\ net /\ attempt => Refuses(Head(rest))
  /\ IF QueFull \/ ~(net /\ attempt)
       THEN UNCHANGED <<tail, pending>>
       ELSE tail' = Append(tail, Head(rest)) /\ pending' = pending + 1
  /\ rsp' = "refused"
  /\ rest' = Tail(rest)
  /\ CountAttempt(fails)
  /\ UNCHANGED <<card, tmp, line, hand, pc, pub, net, posted, server, owed, resets>>

\* Mutant of ForwardRefused: each line is written through to the card.
ForwardRefusedSyncs ==
  /\ pc = "forward" /\ rest # <<>>
  /\ net /\ attempt => Refuses(Head(rest))
  /\ IF QueFull
       THEN UNCHANGED <<que, pending>>
       ELSE /\ que' = [que EXCEPT ![pub] = Append(@, Head(rest))]
            /\ pending' = pending + 1
  /\ rsp' = "refused"
  /\ rest' = Tail(rest)
  /\ CountAttempt(fails)
  /\ UNCHANGED <<rdel, tail, tmp, line, hand, pc, pub, net, posted, server, owed,
                 resets>>

\* Refused by the server, or not even posted (codes 901 and 904).
ForwardRefused ==
  /\ pc = "forward" /\ rest # <<>>
  /\ net /\ attempt => Refuses(Head(rest))
  /\ IF QueFull
       THEN UNCHANGED <<tail, pending>>
       ELSE tail' = Append(tail, Head(rest)) /\ pending' = pending + 1
  /\ rsp' = "refused"
  /\ rest' = Tail(rest)
  /\ CountAttempt(fails)
  /\ UNCHANGED <<card, tmp, line, hand, pc, pub, net, posted, server, owed, resets>>

\* Mutant of RemoveRdel: before its last line has been read.
RemoveRdelEarly ==
  /\ pc = "forward" /\ Len(rest) <= 1
  /\ rdel' = <<>>
  /\ line' = NoLine
  /\ pc' = "removed"
  /\ UNCHANGED <<que, tail, tmp, rest, hand, pub, net, rsp, limits, posted,
                 pending, server, owed, resets>>

\* deszRdelClose(true): RDELAY.TXT goes before QUEn.TXT has been closed.
RemoveRdel ==
  /\ pc = "forward" /\ rest = <<>>
  /\ rdel' = <<>>
  /\ line' = NoLine
  /\ pc' = "removed"
  /\ UNCHANGED <<que, tail, tmp, rest, hand, pub, net, rsp, limits, posted,
                 pending, server, owed, resets>>

\* Mutant of CloseQue: the retries are made when the posts have failed.
CloseQueInverted ==
  /\ pc = "removed"
  /\ que' = [que EXCEPT ![pub] = @ \o tail]
  /\ tail' = <<>>
  /\ posted' = 0
  /\ IF rsp # "accepted"
       THEN rest' = que'[pub] /\ pc' = "retry"
       ELSE UNCHANGED rest /\ pc' = "done"
  /\ UNCHANGED <<rdel, tmp, line, hand, pub, net, rsp, limits, pending, server,
                 owed, resets>>

\* serzQuedCloseFile(false), and deszQuedStart if the last answer was an acceptance.
CloseQue ==
  /\ pc = "removed"
  /\ que' = [que EXCEPT ![pub] = @ \o tail]
  /\ tail' = <<>>
  /\ posted' = 0
  /\ IF rsp = "accepted"
       THEN rest' = que'[pub] /\ pc' = "retry"
       ELSE UNCHANGED rest /\ pc' = "done"
  /\ UNCHANGED <<rdel, tmp, line, hand, pub, net, rsp, limits, pending, server,
                 owed, resets>>

--------------------------------------------------------------------------------
(* The loop over QUEn.TXT.                                                 *)

\* Mutant of RetryAccepted: the record stays in deszq_line.
RetryAcceptedKeepsLine(batteryLow) ==
  /\ pc = "retry" /\ rest # <<>>
  /\ Accepts(Head(rest))
  /\ Acknowledged(Head(rest))
  /\ rsp' = "accepted"
  /\ line' = Head(rest)
  /\ rest' = Tail(rest)
  /\ posted' = posted + 1
  /\ batteryLow => posted' % SendAtOnce = 0
  /\ pc' = IF batteryLow \/ (PostMax # 0 /\ posted' >= PostMax)
             THEN "flush" ELSE "retry"
  /\ UNCHANGED <<card, tail, tmp, hand, pub, net, limits, pending, server, resets>>

\* The battery is measured after every SendAtOnce posts and may be too low for more.
RetryAccepted(batteryLow) ==
  /\ pc = "retry" /\ rest # <<>>
  /\ Accepts(Head(rest))
  /\ Acknowledged(Head(rest))
  /\ rsp' = "accepted"
  /\ rest' = Tail(rest)
  /\ posted' = posted + 1
  /\ batteryLow => posted' % SendAtOnce = 0
  /\ pc' = IF batteryLow \/ (PostMax # 0 /\ posted' >= PostMax)
             THEN "flush" ELSE "retry"
  /\ UNCHANGED <<card, tail, tmp, line, hand, pub, net, limits, pending, server,
                 resets>>

\* Mutant of AfterRetry: the file is closed as it is after a success too.
AfterRetryNoFlush == "done"

\* Without one success the file is closed as it is.
AfterRetry == IF posted > 0 THEN "flush" ELSE "done"

RetryRefused ==
  /\ pc = "retry" /\ rest # <<>>
  /\ Refuses(Head(rest))
  /\ rsp' = "refused"
  /\ line' = Head(rest)
  /\ rest' = Tail(rest)
  /\ pc' = AfterRetry
  /\ UNCHANGED <<card, tail, tmp, hand, pub, net, limits, posted, pending, server,
                 owed, resets>>

RetryEnd ==
  /\ pc = "retry" /\ rest = <<>>
  /\ line' = NoLine
  /\ pc' = AfterRetry
  /\ UNCHANGED <<card, tail, tmp, rest, hand, pub, net, rsp, limits, posted,
                 pending, server, owed, resets>>

--------------------------------------------------------------------------------
(* serzQuedFlushFile: copy what is unsent to TMP01.TXT, then put it in the *)
(* place of QUEn.TXT with two renames.                                     *)

\* Mutant of Kept: one line too few.
KeptOneLess ==
  IF SendQueSz = MMWGI_SEND_QUE_SZ_NUM_NOP \/ Len(rest) < SendQueSz
    THEN rest
    ELSE SubSeq(rest, 1, SendQueSz - 1)

Kept == IF SendQueSz = MMWGI_SEND_QUE_SZ_NUM_NOP \/ Len(rest) <= SendQueSz
          THEN rest
          ELSE SubSeq(rest, 1, SendQueSz)

\* Mutant of CopyUnsent: an empty deszq_line is written too.
CopyUnsentEmptyLine ==
  /\ pc = "flush"
  /\ tmp' = <<line>> \o Kept
  /\ pending' = Len(Kept)
  /\ line' = NoLine
  /\ rest' = <<>>
  /\ pc' = "copied"
  /\ UNCHANGED <<card, tail, hand, pub, net, rsp, limits, posted, server, owed,
                 resets>>

\* Mutant of CopyUnsent: the record of the failed post goes to the end.
CopyUnsentHeadLast ==
  /\ pc = "flush"
  /\ tmp' = Kept \o AsLines(line)
  /\ pending' = Len(Kept)
  /\ line' = NoLine
  /\ rest' = <<>>
  /\ pc' = "copied"
  /\ UNCHANGED <<card, tail, hand, pub, net, rsp, limits, posted, server, owed,
                 resets>>

\* The record a retry left in deszq_line is written first and not counted.
CopyUnsent ==
  /\ pc = "flush"
  /\ tmp' = AsLines(line) \o Kept
  /\ pending' = Len(Kept)
  /\ line' = NoLine
  /\ rest' = <<>>
  /\ pc' = "copied"
  /\ UNCHANGED <<card, tail, hand, pub, net, rsp, limits, posted, server, owed,
                 resets>>

RenameQue ==
  /\ pc = "copied"
  /\ que' = [que EXCEPT ![pub] = <<>>]
  /\ pc' = "renamed"
  /\ UNCHANGED <<rdel, buffers, pub, net, rsp, limits, posted, pending, server,
                 owed, resets>>

RenameTmp ==
  /\ pc = "renamed"
  /\ que' = [que EXCEPT ![pub] = tmp]
  /\ tmp' = <<>>
  /\ pc' = "done"
  /\ UNCHANGED <<rdel, tail, rest, line, hand, pub, net, rsp, limits, posted,
                 pending, server, owed, resets>>

--------------------------------------------------------------------------------
(* The environment.                                                        *)

\* Everything in RAM is lost; TMP01.TXT is never read again.  The failed rename of
\* QUEn.TXT forces the same reset from step "copied".
Reset ==
  /\ resets < MaxResets
  /\ resets' = resets + 1
  /\ PassOver
  /\ tmp' = <<>> /\ hand' = NoLine /\ pending' = 0
  /\ UNCHANGED <<card, server, owed>>

ServerRecovers ==
  /\ server = "flaky"
  /\ server' = "up"
  /\ UNCHANGED <<card, buffers, pc, pub, net, rsp, limits, posted, pending, owed,
                 resets>>

--------------------------------------------------------------------------------
Forward == ForwardAccepted \/ ForwardRefused \/ RemoveRdel \/ CloseQue
Retry == (\E low \in BOOLEAN : RetryAccepted(low)) \/ RetryRefused \/ RetryEnd
Flush == CopyUnsent \/ RenameQue \/ RenameTmp

(* What the firmware does by itself once it has begun. *)
Proceed == SerzRdelLine \/ Forward \/ Retry \/ Flush \/ NextPublisher \/ EndPass

Next ==
  \/ \E r \in Reading : LogReading(r)
  \/ \E connected \in BOOLEAN : StartPass(connected)
  \/ Proceed
  \/ Reset
  \/ ServerRecovers

Spec == Init /\ [][Next]_vars

(* The firmware keeps running, readings keep coming, the server recovers in *)
(* the end, and again and again the modem connects for a pass that has a    *)
(* fresh reading: the scheduler posts in, or after, a cycle that took one.  *)
Fairness ==
  /\ WF_vars(Proceed)
  /\ SF_vars(\E r \in Reading : LogReading(r))
  /\ SF_vars(StartPass(TRUE) /\ rdel # <<>>)
  /\ WF_vars(ServerRecovers)

FairSpec == Spec /\ Fairness

--------------------------------------------------------------------------------
TypeOK ==
  /\ rdel \in Seq(Reading) /\ que \in [Publisher -> Seq(Reading)]
  /\ {tail, tmp, rest} \subseteq Seq(Reading)
  /\ {line, hand} \subseteq Reading \cup {NoLine}
  /\ pc \in Steps /\ pub \in Publisher
  /\ net \in BOOLEAN /\ rsp \in {"none", "accepted", "refused"}
  /\ {tries, fails, posted, pending, resets} \subseteq Nat /\ attempt \in BOOLEAN
  /\ server \in {"flaky", "up"}
  /\ owed \in [Publisher -> SUBSET Reading]

\* Outside the loss windows a pass gives up no line that a reset would not find again:
\* what is still to be read, kept in deszq_line or copied is in a file on the card.
Backed ==
  /\ (pc = "logged") <=> (hand # NoLine)
  /\ pc = "removed" => rest = <<>>
  /\ pc \in {"removed", "retry"} => line = NoLine
  /\ pc = "forward" => ToSet(tail) \cup ToSet(rest) \subseteq ToSet(rdel)
  /\ pc \in {"retry", "flush"} =>
       ToSet(AsLines(line)) \cup ToSet(rest) \subseteq ToSet(que[pub])
  /\ pc = "copied" => ToSet(tmp) \subseteq ToSet(que[pub])

\* "Reliable delivery of the sensor readings to the cloud": a reading that was logged
\* and that publisher p's server has not acknowledged is still on the card (or in the
\* hand of the code that is about to write it there) and will be sent.
NothingLostFor(p) == owed[p] \subseteq Held(p)

\* It holds for the publisher served first, through every copy, close and rename of a
\* pass and whatever the servers answer, as long as there is no reset and no limit on
\* the queue.
FirstLosesNothing == NothingLostFor(1)

\* It should hold for every publisher: "Potentially multiple versions of files based on
\* dataPublisher[]".
NothingLost == \A p \in Publisher : NothingLostFor(p)

\* What the server has acknowledged is never kept to be sent again.
NothingResent == \A p \in Publisher : Held(p) \subseteq owed[p]

\* No line is on the card twice: RDELAY.TXT is removed, TMP01.TXT replaces QUEn.TXT
\* and the record left in deszq_line is written back, each without a second copy, and
\* a reset in the middle leaves none either.
NoDuplicates == \A p \in Publisher : IsInjective(Unsent(p))

\* Two readings that stay on the card stay in the order in which they were logged,
\* whatever a pass or a reset does with the files.
KeepsOrder ==
  [][\A p \in Publisher :
       LET before == Unsent(p)
           after == Unsent(p)'
       IN \A i, j \in 1..Len(before) : \A k, l \in 1..Len(after) :
            i < j /\ after[k] = before[i] /\ after[l] = before[j] => k < l]_vars

\* The steps before which a reset loses readings: in the data file but not in
\* RDELAY.TXT; no longer in RDELAY.TXT and not yet in QUEn.TXT; in TMP01.TXT only.
LossWindow == {"logged", "removed", "renamed"}

\* A reset at any other step loses nothing: for the publisher served first, an
\* unacknowledged reading leaves the card only by a reset in a loss window or because
\* the queue has no room for it.
Lost == (Held(1) \ Held(1)') \cap owed'[1]
LossOnlyInWindow ==
  [][Lost # {} => \/ resets' > resets /\ pc \in LossWindow
                  \/ pc = "forward" /\ QueFull
                  \/ pc = "flush" /\ Kept # rest]_vars

\* Only a reset brings an acknowledged reading back to be sent again.
ReturnsOnlyByReset ==
  [][\A p \in Publisher : (Held(p)' \ Held(p)) \subseteq owed'[p] \/ resets' > resets]_vars

\* Without resets a queue file exceeds the limit by one line at most: the record a
\* retry left in deszq_line is not counted when the file is rewritten.
QueBounded ==
  SendQueSz # MMWGI_SEND_QUE_SZ_NUM_NOP =>
    \A p \in Publisher : Len(que[p]) <= SendQueSz + 1

\* A reading in a queue file is in the end acknowledged.
QueuedIsDelivered ==
  \A p \in Publisher : \A r \in Reading :
    r \in ToSet(que[p]) ~> r \notin owed[p]

\* Without resets, delivery to the first publisher is what the contract promises.
Contract == INSTANCE DeliveryContract WITH
  owed <- owed[1], held <- Held(1), Limit <- SendQueSz,
  Bounded <- SendQueSz # MMWGI_SEND_QUE_SZ_NUM_NOP
KeepsContract == Contract!Spec
================================================================================
