-------------------------------- MODULE Outbox --------------------------------
(***************************************************************************)
(* The transactional outbox of internal/common/outbox: the event_outbox     *)
(* table, the publisher loop every service runs over that one table         *)
(* (RunPublisher), its retries and backoff, failed_messages and the cleanup *)
(* of published rows.                                                       *)
(*                                                                          *)
(* A row is named by its BIGSERIAL id, so ids are also the insertion order  *)
(* of the events of one key.  Time is relative: wait[e] is what is left     *)
(* until next_attempt_at, in seconds, and Tick lets one second pass.        *)
(* Payload, topic and last_error are left out.                              *)
(***************************************************************************)
EXTENDS Naturals, FiniteSets

CONSTANTS
  EventIds,         \* ids of the rows that will be inserted
  Keys,             \* message keys (telegram ids)
  KeyOf,            \* the message_key of each row
  Publishers,       \* running RunPublisher loops, one per service replica
  BatchSize,        \* OUTBOX_BATCH_SIZE, 50 by default
  MaxAttempts,      \* 20 in the code
  ReturningSorted,  \* whether UPDATE ... RETURNING yields ids in order
  Faults,           \* the faults the environment may inject
  NoMark            \* a publisher with no outcome left to record

Mark == [id : EventIds, ok : BOOLEAN]

ASSUME OutboxAssumption ==
  /\ EventIds \subseteq Nat
  /\ KeyOf \in [EventIds -> Keys]
  /\ BatchSize \in Nat \ {0}
  /\ MaxAttempts \in Nat \ {0}
  /\ ReturningSorted \in BOOLEAN
  /\ Faults \subseteq {"publish", "timeout", "db", "crash"}
  /\ NoMark \notin Mark

VARIABLES
  status,       \* event_outbox.status; "none": not inserted, "deleted": cleaned
  attempts,     \* event_outbox.attempts
  wait,         \* seconds left until event_outbox.next_attempt_at
  deadLetters,  \* rows copied to failed_messages
  batch,        \* per publisher: rows its pass locked and has not reached yet
  blocked,      \* per publisher: blockedKeys, local to one pass
  mark,         \* per publisher: outcome of PublishJSON not yet written back
  copies        \* how many copies of each event the broker has accepted

rowVars == <<status, attempts, wait, deadLetters>>
publisherVars == <<batch, blocked, mark>>
vars == <<rowVars, publisherVars, copies>>

Statuses ==
  {"none", "pending", "processing", "retry", "published", "failed", "deleted"}

TypeOK ==
  /\ status \in [EventIds -> Statuses]
  /\ attempts \in [EventIds -> 0 .. MaxAttempts]
  /\ wait \in [EventIds -> Nat]
  /\ deadLetters \subseteq EventIds
  /\ batch \in [Publishers -> SUBSET EventIds]
  /\ blocked \in [Publishers -> SUBSET Keys]
  /\ mark \in [Publishers -> Mark \cup {NoMark}]
  /\ copies \in [EventIds -> Nat]

------------------------------------------------------------------------------
(* LEAST(3600, POWER(2, LEAST(attempts, 10))) seconds, attempts being >= 1.  *)
Powers == <<2, 4, 8, 16, 32, 64, 128, 256, 512, 1024>>
Backoff(a) == Powers[IF a < 10 THEN a ELSE 10]

\* Mutants of Due: a claim that forgets what "failed", "processing" or "retry" means.
DueOnce ==
  {e \in EventIds : status[e] = "pending" /\ wait[e] = 0}
DueOrFailed ==
  {e \in EventIds : status[e] \in {"pending", "retry", "failed"} /\ wait[e] = 0}
DueOrHeld ==
  {e \in EventIds : status[e] \in {"pending", "retry", "processing"} /\ wait[e] = 0}

Due == {e \in EventIds : status[e] \in {"pending", "retry"} /\ wait[e] = 0}

\* The rows ORDER BY id ASC LIMIT BatchSize selects.
Oldest(S) == {e \in S : Cardinality({f \in S : f < e}) < BatchSize}

Idle(p) == batch[p] = {} /\ mark[p] = NoMark

\* The row the loop of publisher p reaches next may be e.
Reaches(p, e) ==
  /\ mark[p] = NoMark
  /\ e \in batch[p]
  /\ ReturningSorted => \A f \in batch[p] : e <= f

------------------------------------------------------------------------------
Init ==
  /\ status = [e \in EventIds |-> "none"]
  /\ attempts = [e \in EventIds |-> 0]
  /\ wait = [e \in EventIds |-> 0]
  /\ deadLetters = {}
  /\ batch = [p \in Publishers |-> {}]
  /\ blocked = [p \in Publishers |-> {}]
  /\ mark = [p \in Publishers |-> NoMark]
  /\ copies = [e \in EventIds |-> 0]

\* AddTx: the row becomes visible when the business transaction commits.  The
\* events of one key are written under that user's row lock, so in id order.
AddTx(e) ==
  /\ status[e] = "none"
  /\ \A f \in EventIds : f < e /\ KeyOf[f] = KeyOf[e] => status[f] # "none"
  /\ status' = [status EXCEPT ![e] = "pending"]
  /\ UNCHANGED <<attempts, wait, deadLetters, publisherVars, copies>>

\* LockPending: one autocommitted statement; FOR UPDATE SKIP LOCKED makes it
\* atomic with respect to the other publishers.  A new pass forgets blockedKeys.
LockPending(p) ==
  /\ Idle(p)
  /\ Due # {}
  /\ status' = [e \in EventIds |->
                  IF e \in Oldest(Due) THEN "processing" ELSE status[e]]
  /\ attempts' = [e \in EventIds |->
                    IF e \in Oldest(Due) THEN attempts[e] + 1 ELSE attempts[e]]
  /\ batch' = [batch EXCEPT ![p] = Oldest(Due)]
  /\ blocked' = [blocked EXCEPT ![p] = {}]
  /\ UNCHANGED <<wait, deadLetters, mark, copies>>

\* Mutant of RetryRow: attempts > MaxAttempts instead of >=.
RetryRowOnceMore(e) ==
  IF attempts[e] > MaxAttempts
    THEN /\ status' = [status EXCEPT ![e] = "failed"]
         /\ UNCHANGED wait
    ELSE /\ status' = [status EXCEPT ![e] = "retry"]
         /\ wait' = [wait EXCEPT ![e] = Backoff(attempts[e])]

\* The UPDATE of MarkRetry: "failed" at the last attempt, "retry" before it.
RetryRow(e) ==
  IF attempts[e] >= MaxAttempts
    THEN /\ status' = [status EXCEPT ![e] = "failed"]
         /\ UNCHANGED wait
    ELSE /\ status' = [status EXCEPT ![e] = "retry"]
         /\ wait' = [wait EXCEPT ![e] = Backoff(attempts[e])]

\* The error of a Mark statement is discarded (_ = ...): the row stays as it is.
RowWriteLost == "db" \in Faults /\ UNCHANGED <<status, wait>>

\* The loop reaches a row whose key failed earlier in this pass.
SkipBlocked(p, e) ==
  /\ Reaches(p, e)
  /\ KeyOf[e] \in blocked[p]
  /\ batch' = [batch EXCEPT ![p] = @ \ {e}]
  /\ RetryRow(e) \/ RowWriteLost
  /\ UNCHANGED <<attempts, deadLetters, blocked, mark, copies>>

\* PublishJSON returns nil: the broker acknowledged the message.
PublishOk(p, e) ==
  /\ Reaches(p, e)
  /\ KeyOf[e] \notin blocked[p]
  /\ batch' = [batch EXCEPT ![p] = @ \ {e}]
  /\ mark' = [mark EXCEPT ![p] = [id |-> e, ok |-> TRUE]]
  /\ copies' = [copies EXCEPT ![e] = @ + 1]
  /\ UNCHANGED <<rowVars, blocked>>

\* PublishJSON returns an error: the broker refused the message, or accepted it
\* and the acknowledgement missed the five second deadline.
PublishErr(p, e) ==
  /\ Reaches(p, e)
  /\ KeyOf[e] \notin blocked[p]
  /\ batch' = [batch EXCEPT ![p] = @ \ {e}]
  /\ mark' = [mark EXCEPT ![p] = [id |-> e, ok |-> FALSE]]
  /\ \/ "publish" \in Faults /\ UNCHANGED copies
     \/ "timeout" \in Faults /\ copies' = [copies EXCEPT ![e] = @ + 1]
  /\ UNCHANGED <<rowVars, blocked>>

\* Mutant of MarkPublished: the error of PublishJSON is not looked at.
MarkPublishedAlways(p) ==
  /\ mark[p] # NoMark
  /\ mark' = [mark EXCEPT ![p] = NoMark]
  /\ \/ status' = [status EXCEPT ![mark[p].id] = "published"] /\ UNCHANGED wait
     \/ RowWriteLost
  /\ UNCHANGED <<attempts, deadLetters, batch, blocked, copies>>

\* MarkPublished after a successful publish.
MarkPublished(p) ==
  /\ mark[p] # NoMark /\ mark[p].ok
  /\ mark' = [mark EXCEPT ![p] = NoMark]
  /\ \/ status' = [status EXCEPT ![mark[p].id] = "published"] /\ UNCHANGED wait
     \/ RowWriteLost
  /\ UNCHANGED <<attempts, deadLetters, batch, blocked, copies>>

\* Mutant of MarkFailed: SaveFailedMessage on every failure.
MarkFailedSavesAll(p) ==
  /\ mark[p] # NoMark /\ ~mark[p].ok
  /\ mark' = [mark EXCEPT ![p] = NoMark]
  /\ blocked' = [blocked EXCEPT ![p] = @ \cup {KeyOf[mark[p].id]}]
  /\ RetryRow(mark[p].id) \/ RowWriteLost
  /\ deadLetters' = deadLetters \cup {mark[p].id}
  /\ UNCHANGED <<attempts, batch, copies>>

\* MarkRetry after a failed publish, SaveFailedMessage at the last attempt, and
\* the key is blocked for the rest of the pass.
MarkFailed(p) ==
  /\ mark[p] # NoMark /\ ~mark[p].ok
  /\ mark' = [mark EXCEPT ![p] = NoMark]
  /\ blocked' = [blocked EXCEPT ![p] = @ \cup {KeyOf[mark[p].id]}]
  /\ RetryRow(mark[p].id) \/ RowWriteLost
  /\ \/ /\ attempts[mark[p].id] >= MaxAttempts
        /\ deadLetters' = deadLetters \cup {mark[p].id}
     \/ /\ attempts[mark[p].id] < MaxAttempts \/ "db" \in Faults
        /\ UNCHANGED deadLetters
  /\ UNCHANGED <<attempts, batch, copies>>

\* The process dies, or LockPending's answer is lost after its UPDATE committed:
\* the pass is forgotten, its rows stay "processing".
Crash(p) ==
  /\ "crash" \in Faults
  /\ ~Idle(p)
  /\ batch' = [batch EXCEPT ![p] = {}]
  /\ blocked' = [blocked EXCEPT ![p] = {}]
  /\ mark' = [mark EXCEPT ![p] = NoMark]
  /\ UNCHANGED <<rowVars, copies>>

\* Mutant of CleanupPublished: the TTL alone decides, whatever the status.
CleanupByAge(e) ==
  /\ status[e] # "none"
  /\ status' = [status EXCEPT ![e] = "deleted"]
  /\ UNCHANGED <<attempts, wait, deadLetters, publisherVars, copies>>

\* cleanupOnce, for a row whose published_at is older than the outbox TTL.
CleanupPublished(e) ==
  /\ status[e] = "published"
  /\ status' = [status EXCEPT ![e] = "deleted"]
  /\ UNCHANGED <<attempts, wait, deadLetters, publisherVars, copies>>

\* One second passes.
Tick ==
  /\ \E e \in EventIds : wait[e] > 0
  /\ wait' = [e \in EventIds |-> IF wait[e] > 0 THEN wait[e] - 1 ELSE 0]
  /\ UNCHANGED <<status, attempts, deadLetters, publisherVars, copies>>

\* A pass of publisher p once it has locked its rows.
PassStep(p) ==
  \/ \E e \in EventIds : SkipBlocked(p, e) \/ PublishOk(p, e) \/ PublishErr(p, e)
  \/ MarkPublished(p)
  \/ MarkFailed(p)

Next ==
  \/ \E e \in EventIds : AddTx(e) \/ CleanupPublished(e)
  \/ \E p \in Publishers : LockPending(p) \/ PassStep(p) \/ Crash(p)
  \/ Tick

Spec == Init /\ [][Next]_vars

\* A publisher loop never stops by itself and the clock advances.
Fairness ==
  /\ WF_vars(Tick)
  /\ \A p \in Publishers : WF_vars(LockPending(p)) /\ WF_vars(PassStep(p))

FairSpec == Spec /\ Fairness

------------------------------------------------------------------------------
(* Properties.                                                               *)

Claimed(p) == batch[p] \cup (IF mark[p] = NoMark THEN {} ELSE {mark[p].id})

\* FOR UPDATE SKIP LOCKED hands every row to one publisher at a time
\* (LockPending; TestLockPendingNoDoubleProcessing): no two passes hold the same
\* row, a held row is "processing", and a pass holds a row once.
ClaimedOnce ==
  /\ \A p, q \in Publishers : p # q => Claimed(p) \cap Claimed(q) = {}
  /\ \A p \in Publishers : \A e \in Claimed(p) : status[e] = "processing"
  /\ \A p \in Publishers : mark[p] # NoMark => mark[p].id \notin batch[p]

\* RunPublisher sends a row at most once per attempt, counting the sends whose
\* acknowledgement was lost and those of crashed passes, and never more than
\* MaxAttempts times.
BoundedCopies ==
  \A e \in EventIds :
    /\ copies[e] <= attempts[e]
    /\ attempts[e] <= MaxAttempts

\* A row is marked published, and later removed by cleanupOnce, only when the
\* broker has the event: an acknowledged write is never confused with a refusal.
PublishedWasAccepted ==
  \A e \in EventIds : status[e] \in {"published", "deleted"} => copies[e] > 0

\* A row goes to failed_messages (SaveFailedMessage) only after its last attempt.
DeadLetterAfterLastAttempt ==
  \A e \in deadLetters : attempts[e] = MaxAttempts

\* A row whose pass died, or whose outcome could not be written back.
Abandoned(e) == status[e] = "processing" /\ \A p \in Publishers : e \notin Claimed(p)

Settled(e) == status[e] \in {"published", "deleted", "failed"}

\* Every event committed by a business transaction is eventually published, or
\* declared failed, whatever the broker does; only a crash or a lost write of its
\* row takes it out of the publishers' reach (RunPublisher, MarkRetry).
EveryEventSettles ==
  \A e \in EventIds : status[e] = "pending" ~> Settled(e) \/ Abandoned(e)

\* The promise made to the platform: see OutboxPromise.
Fate ==
  [e \in EventIds |->
     CASE status[e] = "none" -> "none"
       [] status[e] \in {"published", "deleted"} -> "delivered"
       [] status[e] = "failed" -> "givenUp"
       [] OTHER -> "owed"]

Promise == INSTANCE OutboxPromise WITH fate <- Fate
PromiseKept == Promise!Spec

------------------------------------------------------------------------------
(* Statements of the documentation the code does not keep.                   *)

\* docs/adr/0001: "Events sharing a message key are published in insertion
\* order.  When one fails, later events with the same key are deferred rather
\* than overtaking it."  First acceptance by the broker, in id order, unless the
\* earlier event was given up.
KeyOrder ==
  [][\A e, f \in EventIds :
       /\ f < e /\ KeyOf[f] = KeyOf[e]
       /\ copies[e] = 0 /\ copies'[e] > 0
       => copies[f] > 0 \/ status[f] = "failed"]_vars

\* docs/adr/0001: "No lost or phantom events."
NoLostEvents == \A e \in EventIds : status[e] = "pending" ~> Settled(e)

=============================================================================
