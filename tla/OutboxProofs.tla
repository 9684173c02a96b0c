----------------------------- MODULE OutboxProofs -----------------------------
(***************************************************************************)
(* The safety properties of Outbox for every set of rows, keys and          *)
(* publishers and every choice of faults, and the proof that Outbox         *)
(* implements OutboxPromise.                                                *)
(*                                                                          *)
(* ClaimedOnce is what makes the rest inductive: because a row is held by   *)
(* one pass at a time and is "processing" meanwhile, no other publisher can *)
(* settle it between PublishJSON and the Mark statement.                    *)
(***************************************************************************)
EXTENDS Outbox, TLAPS

\* A row that can be locked has an attempt left: AddTx inserts it with none
\* spent, MarkRetry puts it back only below the limit.
AttemptLeft ==
  \A e \in EventIds : status[e] \in {"none", "pending", "retry"} =>
                        attempts[e] < MaxAttempts

\* A row locked and not yet reached has an attempt no copy was sent for.
UnspentAttempt ==
  \A p \in Publishers : \A e \in batch[p] : copies[e] < attempts[e]

\* A row whose publish was tried has spent at least that attempt.
SpentAttempt ==
  \A p \in Publishers : mark[p] # NoMark => attempts[mark[p].id] > 0

\* A success still to be recorded is a copy the broker has.
AckedMark ==
  \A p \in Publishers : mark[p] # NoMark /\ mark[p].ok => copies[mark[p].id] > 0

IInv ==
  /\ TypeOK
  /\ ClaimedOnce
  /\ AttemptLeft
  /\ UnspentAttempt
  /\ SpentAttempt
  /\ BoundedCopies
  /\ AckedMark
  /\ PublishedWasAccepted
  /\ DeadLetterAfterLastAttempt

\* The backoff of MarkRetry is a number of seconds.
LEMMA BackoffNat ==
  ASSUME NEW a \in Nat \ {0}
  PROVE  Backoff(a) \in Nat
<1>1. \A i \in 1 .. 10 : Powers[i] \in Nat
  BY DEF Powers
<1>2. (IF a < 10 THEN a ELSE 10) \in 1 .. 10
  OBVIOUS
<1>3. QED
  BY <1>1, <1>2 DEF Backoff

LEMMA InitIInv == Init => IInv
  BY OutboxAssumption
  DEF Init, IInv, TypeOK, Statuses, ClaimedOnce, Claimed, AttemptLeft,
      UnspentAttempt, SpentAttempt, BoundedCopies, AckedMark, PublishedWasAccepted,
      DeadLetterAfterLastAttempt

LEMMA AddTxIInv ==
  ASSUME IInv, NEW e \in EventIds, AddTx(e)
  PROVE  IInv'
  BY OutboxAssumption
  DEF AddTx, publisherVars, IInv, TypeOK, Statuses, Mark, ClaimedOnce, Claimed,
      AttemptLeft, UnspentAttempt, SpentAttempt, BoundedCopies, AckedMark,
      PublishedWasAccepted, DeadLetterAfterLastAttempt

LEMMA LockPendingIInv ==
  ASSUME IInv, NEW p \in Publishers, LockPending(p)
  PROVE  IInv'
<1> DEFINE S == Oldest(Due)
<1>1. S \subseteq EventIds /\ \A e \in S : status[e] \in {"pending", "retry"}
  BY DEF Oldest, Due
<1>2. batch[p] = {} /\ mark[p] = NoMark
  BY DEF LockPending, Idle
<1>3. /\ status' = [e \in EventIds |-> IF e \in S THEN "processing" ELSE status[e]]
      /\ attempts' = [e \in EventIds |->
                        IF e \in S THEN attempts[e] + 1 ELSE attempts[e]]
      /\ batch' = [batch EXCEPT ![p] = S]
      /\ blocked' = [blocked EXCEPT ![p] = {}]
      /\ UNCHANGED <<wait, deadLetters, mark, copies>>
  BY DEF LockPending
<1> HIDE DEF S
<1>4. \A e \in S : attempts[e] < MaxAttempts
  BY <1>1 DEF IInv, AttemptLeft
<1>5. \A q \in Publishers : Claimed(q) \cap S = {}
  BY <1>1 DEF IInv, ClaimedOnce
<1>6. TypeOK'
  BY <1>1, <1>3, <1>4, OutboxAssumption DEF IInv, TypeOK, Statuses
<1>7. ClaimedOnce'
  BY <1>1, <1>2, <1>3, <1>5 DEF IInv, TypeOK, Mark, ClaimedOnce, Claimed
<1>8. AttemptLeft' /\ BoundedCopies'
  BY <1>1, <1>3, <1>4, OutboxAssumption
  DEF IInv, TypeOK, AttemptLeft, BoundedCopies
<1>9. \A e \in EventIds : attempts[e] <= attempts'[e]
  BY <1>3, OutboxAssumption DEF IInv, TypeOK
<1>10. UnspentAttempt'
  <2> SUFFICES ASSUME NEW q \in Publishers, NEW e \in batch'[q]
               PROVE  copies'[e] < attempts'[e]
    BY DEF UnspentAttempt
  <2>1. CASE e \in S
    <3>1. attempts'[e] = attempts[e] + 1 /\ copies'[e] = copies[e]
      BY <1>1, <1>3, <2>1
    <3>2. QED
      BY <1>1, <2>1, <3>1, OutboxAssumption DEF IInv, TypeOK, BoundedCopies
  <2>2. CASE e \notin S
    <3>1. e \in batch[q] /\ e \in EventIds
      BY <1>3, <2>2 DEF IInv, TypeOK
    <3>2. attempts'[e] = attempts[e] /\ copies'[e] = copies[e]
      BY <1>3, <2>2, <3>1
    <3>3. QED
      BY <3>1, <3>2 DEF IInv, UnspentAttempt
  <2>3. QED
    BY <2>1, <2>2
<1>11. SpentAttempt'
  <2> SUFFICES ASSUME NEW q \in Publishers, mark'[q] # NoMark
               PROVE  attempts'[mark'[q].id] > 0
    BY DEF SpentAttempt
  <2>1. mark'[q] = mark[q] /\ mark[q].id \in EventIds
    <3>1. mark' = mark
      BY <1>3
    <3>2. mark[q] \in Mark
      BY <3>1 DEF IInv, TypeOK
    <3>3. QED
      BY <3>1, <3>2 DEF Mark
  <2>2. attempts[mark[q].id] > 0
    BY <2>1 DEF IInv, SpentAttempt
  <2>3. \A e \in EventIds : attempts[e] \in Nat /\ attempts'[e] \in Nat
    BY <1>6, OutboxAssumption DEF IInv, TypeOK
  <2>4. QED
    BY <1>9, <2>1, <2>2, <2>3
<1>12. AckedMark' /\ PublishedWasAccepted' /\ DeadLetterAfterLastAttempt'
  BY <1>1, <1>3, <1>4, OutboxAssumption
  DEF IInv, TypeOK, AckedMark, PublishedWasAccepted, DeadLetterAfterLastAttempt
<1>13. QED
  BY <1>6, <1>7, <1>8, <1>10, <1>11, <1>12 DEF IInv

LEMMA SkipBlockedIInv ==
  ASSUME IInv, NEW p \in Publishers, NEW e \in EventIds, SkipBlocked(p, e)
  PROVE  IInv'
<1>1. e \in batch[p] /\ status[e] = "processing" /\ mark[p] = NoMark
  BY DEF SkipBlocked, Reaches, IInv, ClaimedOnce, Claimed
<1>2. attempts[e] \in Nat \ {0}
  BY <1>1, OutboxAssumption DEF IInv, TypeOK, UnspentAttempt
<1>3. /\ status' \in [EventIds -> Statuses] /\ wait' \in [EventIds -> Nat]
      /\ \A f \in EventIds : f # e => status'[f] = status[f]
      /\ status'[e] \in {"processing", "retry", "failed"}
      /\ status'[e] = "retry" => attempts[e] < MaxAttempts
  BY <1>1, <1>2, BackoffNat, OutboxAssumption
  DEF SkipBlocked, RetryRow, RowWriteLost, IInv, TypeOK, Statuses
<1>4. batch' = [batch EXCEPT ![p] = @ \ {e}]
      /\ UNCHANGED <<attempts, deadLetters, blocked, mark, copies>>
  BY DEF SkipBlocked
<1>5. TypeOK'
  BY <1>3, <1>4 DEF IInv, TypeOK
<1>6. \A q \in Publishers : Claimed(q)' \subseteq Claimed(q) /\ e \notin Claimed(q)'
  BY <1>1, <1>4 DEF IInv, TypeOK, ClaimedOnce, Claimed, Mark
<1>7. ClaimedOnce'
  BY <1>3, <1>4, <1>6 DEF IInv, TypeOK, ClaimedOnce, Claimed, Mark
<1>8. QED
  BY <1>3, <1>4, <1>5, <1>7, <1>1
  DEF IInv, TypeOK, AttemptLeft, UnspentAttempt, SpentAttempt, BoundedCopies, AckedMark,
      PublishedWasAccepted, DeadLetterAfterLastAttempt

LEMMA PublishOkIInv ==
  ASSUME IInv, NEW p \in Publishers, NEW e \in EventIds, PublishOk(p, e)
  PROVE  IInv'
  BY OutboxAssumption
  DEF PublishOk, Reaches, rowVars, IInv, TypeOK, Statuses, Mark, ClaimedOnce, Claimed,
      AttemptLeft, UnspentAttempt, SpentAttempt, BoundedCopies, AckedMark,
      PublishedWasAccepted, DeadLetterAfterLastAttempt

LEMMA PublishErrIInv ==
  ASSUME IInv, NEW p \in Publishers, NEW e \in EventIds, PublishErr(p, e)
  PROVE  IInv'
<1>1. e \in batch[p] /\ mark[p] = NoMark /\ copies[e] < attempts[e]
  BY DEF PublishErr, Reaches, IInv, UnspentAttempt
<1>2. /\ batch' = [batch EXCEPT ![p] = @ \ {e}]
      /\ mark' = [mark EXCEPT ![p] = [id |-> e, ok |-> FALSE]]
      /\ copies' = copies \/ copies' = [copies EXCEPT ![e] = @ + 1]
      /\ UNCHANGED <<status, attempts, wait, deadLetters, blocked>>
  BY DEF PublishErr, rowVars
<1>3. \A f \in EventIds : copies'[f] \in Nat /\ copies[f] <= copies'[f]
  BY <1>2 DEF IInv, TypeOK
<1>4. TypeOK'
  BY <1>2 DEF IInv, TypeOK, Mark
<1>5. \A q \in Publishers : Claimed(q)' = Claimed(q)
  <2> TAKE q \in Publishers
  <2>1. CASE q = p
    <3>1. batch'[p] = batch[p] \ {e} /\ mark'[p] = [id |-> e, ok |-> FALSE]
      BY <1>2 DEF IInv, TypeOK
    <3>2. [id |-> e, ok |-> FALSE] \in Mark
      BY DEF Mark
    <3>3. mark'[p] # NoMark /\ mark'[p].id = e
      <4>1. mark'[p] # NoMark
        BY <3>1, <3>2, OutboxAssumption, Zenon
      <4>2. mark'[p].id = e
        BY <3>1
      <4>3. QED
        BY <4>1, <4>2
    <3>4. Claimed(p)' = (batch[p] \ {e}) \cup {e}
      BY <3>1, <3>3 DEF Claimed
    <3>5. QED
      BY <1>1, <2>1, <3>4 DEF Claimed
  <2>2. CASE q # p
    BY <1>2, <2>2 DEF Claimed
  <2>3. QED
    BY <2>1, <2>2
<1>6. ClaimedOnce'
  BY <1>1, <1>2, <1>5, OutboxAssumption DEF IInv, TypeOK, ClaimedOnce, Mark
<1>7. \A q \in Publishers : \A f \in batch'[q] : f # e
  BY <1>1, <1>2 DEF IInv, TypeOK, ClaimedOnce, Claimed
<1>8. UnspentAttempt' /\ BoundedCopies'
  BY <1>1, <1>2, <1>7 DEF IInv, TypeOK, UnspentAttempt, BoundedCopies
<1>9. SpentAttempt'
  BY <1>1, <1>2 DEF IInv, TypeOK, Mark, SpentAttempt
<1>10. AckedMark'
  BY <1>2, <1>3 DEF IInv, TypeOK, Mark, AckedMark
<1>11. PublishedWasAccepted'
  BY <1>2, <1>3 DEF IInv, TypeOK, PublishedWasAccepted
<1>12. AttemptLeft' /\ DeadLetterAfterLastAttempt'
  BY <1>2 DEF IInv, AttemptLeft, DeadLetterAfterLastAttempt
<1>13. QED
  BY <1>4, <1>6, <1>8, <1>9, <1>10, <1>11, <1>12 DEF IInv

LEMMA MarkPublishedIInv ==
  ASSUME IInv, NEW p \in Publishers, MarkPublished(p)
  PROVE  IInv'
<1> DEFINE e == mark[p].id
<1>1. e \in EventIds /\ status[e] = "processing" /\ copies[e] > 0
  BY DEF MarkPublished, IInv, TypeOK, ClaimedOnce, Claimed, AckedMark, Mark
<1>2. /\ status' \in [EventIds -> Statuses] /\ wait' = wait
      /\ \A f \in EventIds : f # e => status'[f] = status[f]
      /\ status'[e] \in {"processing", "published"}
  BY <1>1 DEF MarkPublished, RowWriteLost, IInv, TypeOK, Statuses
<1>3. mark' = [mark EXCEPT ![p] = NoMark]
      /\ UNCHANGED <<attempts, deadLetters, batch, blocked, copies>>
  BY DEF MarkPublished
<1>4. TypeOK'
  BY <1>2, <1>3 DEF IInv, TypeOK
<1>5. \A q \in Publishers : Claimed(q)' \subseteq Claimed(q) /\ e \notin Claimed(q)'
  BY <1>1, <1>3 DEF MarkPublished, IInv, TypeOK, ClaimedOnce, Claimed, Mark
<1>6. ClaimedOnce'
  BY <1>2, <1>3, <1>5 DEF IInv, TypeOK, ClaimedOnce, Claimed, Mark
<1>7. QED
  BY <1>1, <1>2, <1>3, <1>4, <1>6
  DEF IInv, TypeOK, AttemptLeft, UnspentAttempt, SpentAttempt, BoundedCopies, AckedMark,
      PublishedWasAccepted, DeadLetterAfterLastAttempt

LEMMA MarkFailedIInv ==
  ASSUME IInv, NEW p \in Publishers, MarkFailed(p)
  PROVE  IInv'
<1> DEFINE e == mark[p].id
<1>1. e \in EventIds /\ status[e] = "processing" /\ mark[p] \in Mark
  BY DEF MarkFailed, IInv, TypeOK, ClaimedOnce, Claimed, Mark
<1>2. attempts[e] \in 0 .. MaxAttempts /\ KeyOf[e] \in Keys
  BY <1>1, OutboxAssumption DEF IInv, TypeOK
<1>3. mark' = [mark EXCEPT ![p] = NoMark]
      /\ blocked' = [blocked EXCEPT ![p] = @ \cup {KeyOf[e]}]
      /\ UNCHANGED <<attempts, batch, copies>>
  BY DEF MarkFailed
<1>4. attempts[e] # 0
  BY <1>2 DEF MarkFailed, IInv, SpentAttempt
<1>5. /\ status' \in [EventIds -> Statuses] /\ wait' \in [EventIds -> Nat]
      /\ \A f \in EventIds : f # e => status'[f] = status[f]
      /\ status'[e] \in {"processing", "retry", "failed"}
      /\ status'[e] = "retry" => attempts[e] < MaxAttempts
  BY <1>1, <1>2, <1>4, BackoffNat, OutboxAssumption
  DEF MarkFailed, RetryRow, RowWriteLost, IInv, TypeOK, Statuses
<1>6. deadLetters' \subseteq deadLetters \cup {e}
      /\ (deadLetters' # deadLetters => attempts[e] = MaxAttempts)
  BY <1>2, OutboxAssumption DEF MarkFailed
<1>7. TypeOK'
  BY <1>1, <1>2, <1>3, <1>5, <1>6 DEF IInv, TypeOK
<1>8. \A q \in Publishers : Claimed(q)' \subseteq Claimed(q) /\ e \notin Claimed(q)'
  BY <1>1, <1>3 DEF MarkFailed, IInv, TypeOK, ClaimedOnce, Claimed, Mark
<1>9. ClaimedOnce'
  BY <1>3, <1>5, <1>8 DEF IInv, TypeOK, ClaimedOnce, Claimed, Mark
<1>10. QED
  BY <1>1, <1>3, <1>5, <1>6, <1>7, <1>9
  DEF IInv, TypeOK, AttemptLeft, UnspentAttempt, SpentAttempt, BoundedCopies, AckedMark,
      PublishedWasAccepted, DeadLetterAfterLastAttempt

LEMMA CrashIInv ==
  ASSUME IInv, NEW p \in Publishers, Crash(p)
  PROVE  IInv'
  BY OutboxAssumption
  DEF Crash, rowVars, IInv, TypeOK, Statuses, Mark, ClaimedOnce, Claimed,
      AttemptLeft, UnspentAttempt, SpentAttempt, BoundedCopies, AckedMark,
      PublishedWasAccepted, DeadLetterAfterLastAttempt

LEMMA CleanupIInv ==
  ASSUME IInv, NEW e \in EventIds, CleanupPublished(e)
  PROVE  IInv'
  BY OutboxAssumption
  DEF CleanupPublished, publisherVars, IInv, TypeOK, Statuses, Mark, ClaimedOnce, Claimed,
      AttemptLeft, UnspentAttempt, SpentAttempt, BoundedCopies, AckedMark,
      PublishedWasAccepted, DeadLetterAfterLastAttempt

LEMMA TickIInv ==
  ASSUME IInv, Tick
  PROVE  IInv'
  BY OutboxAssumption
  DEF Tick, publisherVars, IInv, TypeOK, Statuses, Mark, ClaimedOnce, Claimed,
      AttemptLeft, UnspentAttempt, SpentAttempt, BoundedCopies, AckedMark,
      PublishedWasAccepted, DeadLetterAfterLastAttempt

LEMMA StutterIInv == IInv /\ UNCHANGED vars => IInv'
  BY DEF vars, rowVars, publisherVars, IInv, TypeOK, ClaimedOnce, Claimed,
         AttemptLeft, UnspentAttempt, SpentAttempt, BoundedCopies, AckedMark,
         PublishedWasAccepted, DeadLetterAfterLastAttempt

\* IInv is inductive.
LEMMA NextIInv == IInv /\ [Next]_vars => IInv'
<1> SUFFICES ASSUME IInv, [Next]_vars PROVE IInv'
  OBVIOUS
<1>1. CASE \E e \in EventIds : AddTx(e) \/ CleanupPublished(e)
  BY <1>1, AddTxIInv, CleanupIInv
<1>2. CASE \E p \in Publishers : LockPending(p) \/ PassStep(p) \/ Crash(p)
  <2> PICK p \in Publishers : LockPending(p) \/ PassStep(p) \/ Crash(p)
    BY <1>2
  <2>1. CASE PassStep(p)
    BY <2>1, SkipBlockedIInv, PublishOkIInv, PublishErrIInv, MarkPublishedIInv,
       MarkFailedIInv DEF PassStep
  <2>2. QED
    BY <2>1, LockPendingIInv, CrashIInv
<1>3. CASE Tick
  BY <1>3, TickIInv
<1>4. CASE UNCHANGED vars
  BY <1>4, StutterIInv
<1>5. QED
  BY <1>1, <1>2, <1>3, <1>4 DEF Next

LEMMA InvariantIInv == Spec => []IInv
  BY InitIInv, NextIInv, PTL DEF Spec

\* Every variable keeps its type; in particular no row spends more than
\* MaxAttempts attempts.
THEOREM TypeCorrect == Spec => []TypeOK
<1>1. IInv => TypeOK
  BY DEF IInv
<1>2. QED
  BY <1>1, InvariantIInv, PTL

\* FOR UPDATE SKIP LOCKED: no row is ever in two publishers' hands.
THEOREM RowsClaimedOnce == Spec => []ClaimedOnce
<1>1. IInv => ClaimedOnce
  BY DEF IInv
<1>2. QED
  BY <1>1, InvariantIInv, PTL

\* Retries, lost acknowledgements and crashes send no more than MaxAttempts copies.
THEOREM CopiesBounded == Spec => []BoundedCopies
<1>1. IInv => BoundedCopies
  BY DEF IInv
<1>2. QED
  BY <1>1, InvariantIInv, PTL

\* The broker has every event the table says is published.
THEOREM PublishedAccepted == Spec => []PublishedWasAccepted
<1>1. IInv => PublishedWasAccepted
  BY DEF IInv
<1>2. QED
  BY <1>1, InvariantIInv, PTL

\* An event is copied to failed_messages only when its attempts are used up, however often
\* it was claimed, lost and found again (MarkFailed, MarkRetry and SaveFailedMessage).
THEOREM DeadLettersLast == Spec => []DeadLetterAfterLastAttempt
<1>1. IInv => DeadLetterAfterLastAttempt
  BY DEF IInv
<1>2. QED
  BY <1>1, InvariantIInv, PTL

------------------------------------------------------------------------------
(* Refinement: a row owed, delivered or given up is what Fate says of it.    *)

LEMMA InitPromise == Init => Promise!Init
  BY DEF Init, Promise!Init, Fate

Owing == {"pending", "processing", "retry"}

\* The promise does not tell pending, processing and retry rows apart.
LEMMA SameFate ==
  ASSUME \A f \in EventIds : \/ status'[f] = status[f]
                             \/ status[f] \in Owing /\ status'[f] \in Owing
                             \/ status[f] = "published" /\ status'[f] = "deleted"
  PROVE  Fate' = Fate
<1>1. ASSUME NEW f \in EventIds PROVE Fate'[f] = Fate[f]
  BY DEF Fate, Owing
<1>2. QED
  BY <1>1 DEF Fate

\* One row that reaches a settled status is one change of fate.
LEMMA FateChanges ==
  ASSUME NEW e \in EventIds, \A f \in EventIds : f # e => status'[f] = status[f],
         NEW v, Fate'[e] = v
  PROVE  Fate' = [Fate EXCEPT ![e] = v]
<1>1. ASSUME NEW f \in EventIds, f # e PROVE Fate'[f] = Fate[f]
  BY <1>1 DEF Fate
<1>2. QED
  BY <1>1 DEF Fate

\* A step that changes neither the copies nor any fate.
LEMMA Invisible ==
  ASSUME \A f \in EventIds : \/ status'[f] = status[f]
                             \/ status[f] \in Owing /\ status'[f] \in Owing
                             \/ status[f] = "published" /\ status'[f] = "deleted",
         UNCHANGED copies
  PROVE  UNCHANGED Promise!vars
  BY SameFate DEF Promise!vars

LEMMA AddTxPromise ==
  ASSUME IInv, NEW e \in EventIds, AddTx(e)
  PROVE  Promise!Commit(e)
<1>1. /\ status[e] = "none" /\ status'[e] = "pending" /\ UNCHANGED copies
      /\ \A f \in EventIds : f # e => status'[f] = status[f]
  BY DEF AddTx, IInv, TypeOK
<1>2. Fate[e] = "none" /\ Fate'[e] = "owed"
  BY <1>1 DEF Fate
<1>3. QED
  BY <1>1, <1>2, FateChanges DEF Promise!Commit

LEMMA LockPendingPromise ==
  ASSUME IInv, NEW p \in Publishers, LockPending(p)
  PROVE  UNCHANGED Promise!vars
<1>1. Oldest(Due) \subseteq {e \in EventIds : status[e] \in {"pending", "retry"}}
  BY DEF Oldest, Due
<1>2. \A f \in EventIds : \/ status'[f] = status[f]
                          \/ status[f] \in Owing /\ status'[f] \in Owing
  BY <1>1 DEF LockPending, Owing
<1>3. UNCHANGED copies
  BY DEF LockPending
<1>4. QED
  BY <1>2, <1>3, Invisible

\* A row in a publisher's hands goes back to retry, or the event is given up.
LEMMA RetryPromise ==
  ASSUME IInv, NEW e \in EventIds, status[e] = "processing",
         RetryRow(e) \/ RowWriteLost, UNCHANGED copies
  PROVE  Promise!GiveUp(e) \/ UNCHANGED Promise!vars
<1>1. /\ \A f \in EventIds : f # e => status'[f] = status[f]
      /\ status'[e] \in {"failed", "retry", "processing"}
  BY DEF RetryRow, RowWriteLost, IInv, TypeOK
<1>2. CASE status'[e] = "failed"
  <2>1. Fate[e] = "owed" /\ Fate'[e] = "givenUp"
    BY <1>2 DEF Fate
  <2>2. QED
    BY <1>1, <2>1, FateChanges DEF Promise!GiveUp
<1>3. CASE status'[e] \in Owing
  <2>1. \A f \in EventIds : \/ status'[f] = status[f]
                            \/ status[f] \in Owing /\ status'[f] \in Owing
    BY <1>1, <1>3 DEF Owing
  <2>2. QED
    BY <2>1, Invisible
<1>4. QED
  BY <1>1, <1>2, <1>3 DEF Owing

LEMMA SkipBlockedPromise ==
  ASSUME IInv, NEW p \in Publishers, NEW e \in EventIds, SkipBlocked(p, e)
  PROVE  Promise!GiveUp(e) \/ UNCHANGED Promise!vars
<1>1. status[e] = "processing"
  BY DEF SkipBlocked, Reaches, IInv, ClaimedOnce, Claimed
<1>2. (RetryRow(e) \/ RowWriteLost) /\ UNCHANGED copies
  BY DEF SkipBlocked
<1>3. QED
  BY <1>1, <1>2, RetryPromise

\* A publish is a copy of an event still owed, or no copy at all.
LEMMA PublishPromise ==
  ASSUME IInv, NEW p \in Publishers, NEW e \in EventIds,
         PublishOk(p, e) \/ PublishErr(p, e)
  PROVE  Promise!Send(e) \/ UNCHANGED Promise!vars
<1>1. status[e] = "processing"
  BY DEF PublishOk, PublishErr, Reaches, IInv, ClaimedOnce, Claimed
<1>2. UNCHANGED status /\ (copies' = [copies EXCEPT ![e] = @ + 1] \/ UNCHANGED copies)
  BY DEF PublishOk, PublishErr, rowVars
<1>3. Fate' = Fate
  BY <1>2, SameFate
<1>4. Fate[e] = "owed"
  BY <1>1 DEF Fate
<1>5. QED
  BY <1>2, <1>3, <1>4 DEF Promise!Send, Promise!vars

LEMMA MarkPublishedPromise ==
  ASSUME IInv, NEW p \in Publishers, MarkPublished(p)
  PROVE  (\E e \in EventIds : Promise!Settle(e)) \/ UNCHANGED Promise!vars
<1> DEFINE e == mark[p].id
<1>1. e \in EventIds /\ status[e] = "processing" /\ copies[e] > 0
  BY DEF MarkPublished, IInv, TypeOK, ClaimedOnce, Claimed, AckedMark, Mark
<1>2. UNCHANGED copies
  BY DEF MarkPublished
<1>3. CASE UNCHANGED status
  BY <1>2, <1>3, Invisible
<1>4. CASE status' = [status EXCEPT ![e] = "published"]
  <2>1. /\ \A f \in EventIds : f # e => status'[f] = status[f]
        /\ status'[e] = "published"
    BY <1>1, <1>4 DEF IInv, TypeOK
  <2>2. Fate[e] = "owed" /\ Fate'[e] = "delivered"
    BY <1>1, <2>1 DEF Fate
  <2>3. Promise!Settle(e)
    BY <1>1, <1>2, <2>1, <2>2, FateChanges DEF Promise!Settle
  <2>4. QED
    BY <1>1, <2>3
<1>5. QED
  BY <1>3, <1>4 DEF MarkPublished, RowWriteLost

LEMMA MarkFailedPromise ==
  ASSUME IInv, NEW p \in Publishers, MarkFailed(p)
  PROVE  (\E e \in EventIds : Promise!GiveUp(e)) \/ UNCHANGED Promise!vars
<1> DEFINE e == mark[p].id
<1>1. e \in EventIds /\ status[e] = "processing"
  BY DEF MarkFailed, IInv, TypeOK, ClaimedOnce, Claimed, Mark
<1>2. (RetryRow(e) \/ RowWriteLost) /\ UNCHANGED copies
  BY DEF MarkFailed
<1>3. QED
  BY <1>1, <1>2, RetryPromise

LEMMA CleanupPromise ==
  ASSUME IInv, NEW e \in EventIds, CleanupPublished(e)
  PROVE  UNCHANGED Promise!vars
<1>1. \A f \in EventIds : \/ status'[f] = status[f]
                          \/ status[f] = "published" /\ status'[f] = "deleted"
  BY DEF CleanupPublished, IInv, TypeOK
<1>2. UNCHANGED copies
  BY DEF CleanupPublished
<1>3. QED
  BY <1>1, <1>2, Invisible

\* Every step of the outbox is a step of its promise or is invisible to it.
LEMMA NextPromise == IInv /\ [Next]_vars => [Promise!Next]_(Promise!vars)
<1> SUFFICES ASSUME IInv, [Next]_vars
             PROVE  Promise!Next \/ UNCHANGED Promise!vars
  OBVIOUS
<1>1. CASE \E e \in EventIds : AddTx(e) \/ CleanupPublished(e)
  BY <1>1, AddTxPromise, CleanupPromise DEF Promise!Next
<1>2. CASE \E p \in Publishers : LockPending(p) \/ PassStep(p) \/ Crash(p)
  <2> PICK p \in Publishers : LockPending(p) \/ PassStep(p) \/ Crash(p)
    BY <1>2
  <2>1. CASE LockPending(p)
    BY <2>1, LockPendingPromise
  <2>2. CASE PassStep(p)
    BY <2>2, SkipBlockedPromise, PublishPromise, MarkPublishedPromise,
       MarkFailedPromise DEF PassStep, Promise!Next
  <2>3. CASE Crash(p)
    <3>1. UNCHANGED <<status, copies>>
      BY <2>3 DEF Crash, rowVars
    <3>2. QED
      BY <3>1, Invisible
  <2>4. QED
    BY <2>1, <2>2, <2>3
<1>3. CASE Tick
  <2>1. UNCHANGED <<status, copies>>
    BY <1>3 DEF Tick
  <2>2. QED
    BY <2>1, Invisible
<1>4. CASE UNCHANGED vars
  <2>1. UNCHANGED <<status, copies>>
    BY <1>4 DEF vars, rowVars
  <2>2. QED
    BY <2>1, Invisible
<1>5. QED
  BY <1>1, <1>2, <1>3, <1>4 DEF Next

\* The outbox of every service keeps the promise of OutboxPromise: an event sent
\* was committed, an event settled as delivered reached the broker, and a settled
\* event is never sent again, whatever the broker, the database and crashes do.
THEOREM KeepsPromise == Spec => PromiseKept
  BY InitPromise, NextPromise, InvariantIInv, PTL DEF Spec, PromiseKept, Promise!Spec

=============================================================================
