-------------------------------- MODULE Billing --------------------------------
(***************************************************************************)
(* The card payments of one user in internal/billing: the row of            *)
(* billing_recurring_profiles, the renewal scheduler and the worker that    *)
(* ends grace periods, the checkouts, the webhooks of YooKassa with their   *)
(* fingerprints, and the payments table that ties them together.            *)
(*                                                                          *)
(* A charge is a conversation: the profile is locked in one statement, the  *)
(* payment is created by a call to YooKassa, its id is written in a second  *)
(* statement and its outcome in a third, while YooKassa reports the same    *)
(* outcome by webhook, the user disables the renewal and the subscription   *)
(* service moves the next charge.  Each of these is an action of its own.   *)
(*                                                                          *)
(* YooKassa is modelled as far as the code sees it: a payment is created    *)
(* once per idempotence key while the key is remembered, it is settled at   *)
(* most once, and its webhook is delivered until it is answered with 200.   *)
(* Plans, amounts, cards, the binding of a card and refunds are left out.   *)
(***************************************************************************)
EXTENDS Naturals, Sequences

CONSTANTS
  Checkouts,      \* command ids of the user's checkouts
  RetrySchedule,  \* BILLING_RETRY_SCHEDULE
  GracePeriod,    \* BILLING_GRACE_PERIOD
  Period,         \* length of a paid period
  Terms,          \* how far ahead the end of a subscription may be when billing is told
  LockTimeout,    \* 30 minutes: a lock older than this is taken over
  KeyLife,        \* 24 hours: YooKassa remembers an idempotence key
  MaxPayments,    \* bound: payments created at YooKassa
  MaxFaults,      \* bound: crashes, lost answers, failed statements, outages
  MaxTime,        \* bound: the last instant of the calendar
  Horizon         \* bound: how far from MaxTime a renewal of RenewalEnds begins

ASSUME BillingAssumption ==
  /\ RetrySchedule \in Seq(Nat \ {0})
  /\ {GracePeriod, Period, LockTimeout, KeyLife} \subseteq Nat \ {0}
  /\ KeyLife < Period
  /\ Terms \subseteq Nat
  /\ {MaxPayments, MaxFaults, MaxTime, Horizon} \subseteq Nat
  /\ Checkouts \cap Nat = {}

VARIABLES
  now,           \* the clock
  profile,       \* the row of billing_recurring_profiles
  rows,          \* payments.payment_id of each order, 0 while it is empty
  yoo,           \* the payments YooKassa has created
  hooks,         \* payments whose webhook is not answered yet
  fingerprints,  \* billing_webhook_events
  working,       \* webhooks being processed
  job,           \* the charge the renewal scheduler is at
  ending,        \* the grace worker has locked the profile
  reported,      \* payments published as billing payment.succeeded
  faults         \* faults so far

hookVars == <<hooks, fingerprints, working>>
bookVars == <<now, rows, yoo>>
vars == <<bookVars, profile, hookVars, job, ending, reported, faults>>

Attempts == 1 .. Len(RetrySchedule) + 1

\* A renewal's order id, "renewal:<user>:<plan>:<attempt>", is its attempt here, the
\* same in every period; it is the idempotence key too.
Orders == Checkouts \cup Attempts

Payment == [order : Orders, status : {"pending", "succeeded", "canceled"},
            saved : BOOLEAN, since : Nat]

Profile == [status : {"none", "active", "retry", "processing", "grace", "expiring",
                      "expired", "disabled"},
            auto : BOOLEAN, next : Nat, retry : 0 .. Len(RetrySchedule), grace : Nat,
            locked : Nat]

Ids == 1 .. Len(yoo)

Idle == [at |-> "idle", attempt |-> 1, id |-> 0, answer |-> "error"]

Jobs == [at : {"idle", "charge", "record", "conclude"}, attempt : Attempts,
         id : 0 .. MaxPayments, answer : {"pending", "succeeded", "canceled", "error"}]

TypeOK ==
  /\ now \in Nat
  /\ profile \in Profile
  /\ rows \in [Orders -> 0 .. MaxPayments]
  /\ yoo \in Seq(Payment) /\ Len(yoo) <= MaxPayments
  /\ hooks \subseteq Ids /\ fingerprints \subseteq Ids /\ working \subseteq Ids
  /\ job \in Jobs
  /\ ending \in BOOLEAN
  /\ reported \subseteq Ids
  /\ faults \in 0 .. MaxFaults

------------------------------------------------------------------------------
(* The statements on the profile.                                            *)

\* Mutant of Disabled: the status is left to the workers.
DisabledFlagOnly(p) == IF p.status = "none" THEN p ELSE [p EXCEPT !.auto = FALSE]

\* DisableAutoRenewTx
Disabled(p) ==
  IF p.status = "none"
    THEN p
    ELSE [p EXCEPT !.auto = FALSE, !.locked = 0, !.status = "disabled"]

\* UpsertRecurringProfileTx and, after a renewal, MarkRecurringSuccessTx.
Renewed(p, recurring) ==
  [p EXCEPT !.status = "active", !.auto = TRUE, !.next = now + Period, !.retry = 0,
            !.grace = 0, !.locked = IF recurring THEN 0 ELSE @]

\* Mutant of Failed: one more retry than the schedule has, as late as the last one.
FailedOnceMore(p, attempt) ==
  [p EXCEPT !.status = "retry", !.locked = 0, !.retry = attempt, !.next = now + 1]

\* handleRecurringPaymentFailed: ScheduleRenewalRetryTx or StartGracePeriodTx.
Failed(p, attempt) ==
  IF attempt <= Len(RetrySchedule)
    THEN [p EXCEPT !.status = "retry", !.locked = 0, !.retry = attempt,
                   !.next = now + RetrySchedule[attempt]]
    ELSE [p EXCEPT !.status = "grace", !.locked = 0, !.next = 0,
                   !.grace = now + GracePeriod]

\* handleSubscriptionPaymentSucceeded: the renewal goes on only with a saved card.
PaymentSucceeded(id) ==
  /\ yoo[id].status = "succeeded"
  /\ profile' = IF yoo[id].saved THEN Renewed(profile, yoo[id].order \in Attempts)
                                 ELSE Disabled(profile)
  /\ reported' = reported \cup {id}

PaymentFailed(attempt) ==
  /\ profile' = Failed(profile, attempt)
  /\ UNCHANGED reported

------------------------------------------------------------------------------
Init ==
  /\ now = 1
  /\ profile = [status |-> "none", auto |-> FALSE, next |-> 0, retry |-> 0, grace |-> 0,
                locked |-> 0]
  /\ rows = [o \in Orders |-> 0]
  /\ yoo = <<>>
  /\ hooks = {} /\ fingerprints = {} /\ working = {}
  /\ job = Idle
  /\ ending = FALSE
  /\ reported = {}
  /\ faults = 0

Fault == faults < MaxFaults /\ faults' = faults + 1

\* YooKassa: a payment is settled, and its webhook is due.
Settle(id) ==
  /\ id \in Ids
  /\ yoo[id].status = "pending"
  /\ \E status \in {"succeeded", "canceled"} : yoo' = [yoo EXCEPT ![id].status = status]
  /\ hooks' = hooks \cup {id}
  /\ UNCHANGED <<now, rows, profile, fingerprints, working, job, ending, reported, faults>>

\* HandleCreateSubscriptionCheckout; the user pays later, through the link.  The card is
\* saved when the user agrees to it.  The age of its key is left out: a checkout is not
\* charged again.  When YooKassa refuses or its answer is lost, the command is skipped
\* (notifyCardPaymentUnavailable): there is no link, and nothing here has changed.
Checkout(c) ==
  /\ rows[c] = 0
  /\ Len(yoo) < MaxPayments
  /\ \E saved \in BOOLEAN :
       yoo' = Append(yoo, [order |-> c, status |-> "pending", saved |-> saved,
                           since |-> 0])
  /\ rows' = [rows EXCEPT ![c] = Len(yoo')]
  /\ UNCHANGED <<now, profile, hookVars, job, ending, reported, faults>>

\* The same, answered with a payment that is paid already: handlePaymentSucceeded follows
\* in the handler, and the webhook comes as well.
CheckoutPaid(c) ==
  /\ rows[c] = 0
  /\ Len(yoo) < MaxPayments
  /\ \E saved \in BOOLEAN :
       /\ yoo' = Append(yoo, [order |-> c, status |-> "succeeded", saved |-> saved,
                              since |-> 0])
       /\ profile' = IF saved THEN Renewed(profile, FALSE) ELSE Disabled(profile)
  /\ rows' = [rows EXCEPT ![c] = Len(yoo')]
  /\ hooks' = hooks \cup {Len(yoo')}
  /\ reported' = reported \cup {Len(yoo')}
  /\ UNCHANGED <<now, fingerprints, working, job, ending, faults>>

\* HandleDisableAutoRenew and HandleUnbindCard
DisableAutoRenew ==
  /\ profile.status # "none"
  /\ profile' = Disabled(profile)
  /\ UNCHANGED <<bookVars, hookVars, job, ending, reported, faults>>

\* HandleSubscriptionActivated, UpdateNextChargeAt: a payment of any provider or free
\* months have moved the end of the subscription, by a period at least and on top of the
\* time left.  The event says where to: when that is nearer than a period, it is late.
SubscriptionActivated ==
  /\ profile.auto
  /\ \E term \in Terms :
       /\ profile' = [profile EXCEPT !.status = "active", !.next = now + term]
       /\ IF term < Period THEN Fault ELSE UNCHANGED faults
  /\ UNCHANGED <<bookVars, hookVars, job, ending, reported>>

------------------------------------------------------------------------------
(* The renewal scheduler: LockDueRenewals, then chargeRecurringProfile.      *)

Stale(status) ==
  /\ profile.status = status
  /\ profile.locked # 0
  /\ profile.locked + LockTimeout < now

\* Mutant of RenewalDue: a lock is never taken over.
RenewalDueNoTakeover ==
  /\ profile.auto /\ profile.status \in {"active", "retry"}
  /\ profile.next # 0 /\ profile.next <= now

RenewalDue ==
  \/ /\ profile.auto /\ profile.status \in {"active", "retry"}
     /\ profile.next # 0 /\ profile.next <= now
  \/ Stale("processing")

\* A profile without auto-renewal is locked all the same and not charged.
LockDueRenewals ==
  /\ job.at = "idle"
  /\ RenewalDue
  /\ profile' = [profile EXCEPT !.status = "processing", !.locked = now]
  /\ job' = IF profile.auto
              THEN [Idle EXCEPT !.at = "charge", !.attempt = profile.retry + 1]
              ELSE Idle
  /\ UNCHANGED <<bookVars, hookVars, ending, reported, faults>>

\* The payment YooKassa answers with for a key it remembers.
Remembered(order) ==
  {id \in Ids : yoo[id].order = order /\ now < yoo[id].since + KeyLife}

Charged(status, saved) ==
  /\ Len(yoo) < MaxPayments
  /\ yoo' = Append(yoo, [order |-> job.attempt, status |-> status, saved |-> saved,
                         since |-> now])
  /\ job' = [job EXCEPT !.at = "record", !.id = Len(yoo'), !.answer = status]
  /\ hooks' = IF status = "pending" THEN hooks ELSE hooks \cup {Len(yoo')}

\* Mutant of Charge: a new key for every call.
ChargeFreshKey ==
  /\ job.at = "charge"
  /\ \E status \in {"pending", "succeeded", "canceled"}, saved \in BOOLEAN :
       Charged(status, saved)
  /\ UNCHANGED <<now, rows, profile, fingerprints, working, ending, reported, faults>>

\* createYooKassaPayment, answered: with the payment of the key, or with a new one.
Charge ==
  /\ job.at = "charge"
  /\ \/ \E id \in Remembered(job.attempt) :
          /\ job' = [job EXCEPT !.at = "record", !.id = id, !.answer = yoo[id].status]
          /\ UNCHANGED <<yoo, hooks>>
     \/ /\ Remembered(job.attempt) = {}
        /\ \E status \in {"pending", "succeeded", "canceled"}, saved \in BOOLEAN :
             Charged(status, saved)
  /\ UNCHANGED <<now, rows, profile, fingerprints, working, ending, reported, faults>>

\* createYooKassaPayment refused: an HTTP error, no payment.  For a key YooKassa
\* remembers that is a failure of its own.
ChargeRefused ==
  /\ job.at = "charge"
  /\ IF Remembered(job.attempt) = {} THEN UNCHANGED faults ELSE Fault
  /\ job' = [job EXCEPT !.at = "conclude"]
  /\ UNCHANGED <<bookVars, profile, hookVars, ending, reported>>

\* Its answer is lost: the code cannot tell that from a refusal.
ChargeLost ==
  /\ job.at = "record"
  /\ Fault
  /\ job' = [job EXCEPT !.at = "conclude", !.id = 0, !.answer = "error"]
  /\ UNCHANGED <<bookVars, profile, hookVars, ending, reported>>

\* UpdatePaymentCreated
Record ==
  /\ job.at = "record"
  /\ rows' = [rows EXCEPT ![job.attempt] = job.id]
  /\ job' = IF job.answer = "pending" THEN Idle ELSE [job EXCEPT !.at = "conclude"]
  /\ UNCHANGED <<now, yoo, profile, hookVars, ending, reported, faults>>

\* handlePaymentSucceeded or handleRecurringPaymentFailed, by the answer.
Conclude ==
  /\ job.at = "conclude"
  /\ IF job.answer = "succeeded" THEN PaymentSucceeded(job.id) ELSE PaymentFailed(job.attempt)
  /\ job' = Idle
  /\ UNCHANGED <<bookVars, hookVars, ending, faults>>

\* A statement after the call to YooKassa fails: the charge is given up where it is.
ChargeStops ==
  /\ job.at \in {"record", "conclude"}
  /\ Fault
  /\ job' = Idle
  /\ UNCHANGED <<bookVars, profile, hookVars, ending, reported>>

------------------------------------------------------------------------------
(* The webhooks: ProcessWebhook.                                             *)

\* The fingerprint is recorded first, in a statement of its own; a delivery that finds
\* it is answered 200.
HookArrives(id) ==
  /\ id \in hooks \ working
  /\ IF id \in fingerprints
       THEN hooks' = hooks \ {id} /\ UNCHANGED <<fingerprints, working>>
       ELSE /\ fingerprints' = fingerprints \cup {id}
            /\ working' = working \cup {id}
            /\ UNCHANGED hooks
  /\ UNCHANGED <<bookVars, profile, job, ending, reported, faults>>

\* YooKassa does not wait for the answer and delivers once more meanwhile.
HookDuplicated(id) ==
  /\ id \in hooks \cap working
  /\ Fault
  /\ hooks' = hooks \ {id}
  /\ UNCHANGED <<bookVars, profile, fingerprints, working, job, ending, reported>>

\* processWebhookPayload finds the payment by its id.
Known(id) == rows[yoo[id].order] = id

\* processWebhookPayload, and 200.
HookApplied(id) ==
  /\ id \in working
  /\ Known(id)
  /\ \/ yoo[id].status = "succeeded" /\ PaymentSucceeded(id)
     \/ /\ yoo[id].status = "canceled" /\ yoo[id].order \in Attempts
        /\ PaymentFailed(yoo[id].order)
     \/ /\ yoo[id].status = "canceled" /\ yoo[id].order \in Checkouts
        /\ UNCHANGED <<profile, reported>>
  /\ working' = working \ {id}
  /\ hooks' = hooks \ {id}
  /\ UNCHANGED <<bookVars, fingerprints, job, ending, faults>>

\* Mutant of HookRejected: the fingerprint stays.
HookForgotten(id) ==
  /\ id \in working
  /\ ~Known(id)
  /\ working' = working \ {id}
  /\ UNCHANGED <<bookVars, profile, hooks, fingerprints, job, ending, reported, faults>>

\* The payment is not in the table, or not yet: the fingerprint is deleted, YooKassa
\* is answered 400 and delivers the webhook again.
HookRejected(id) ==
  /\ id \in working
  /\ ~Known(id)
  /\ working' = working \ {id}
  /\ fingerprints' = fingerprints \ {id}
  /\ UNCHANGED <<bookVars, profile, hooks, job, ending, reported, faults>>

\* Processing fails: YooKassa cannot be asked about the payment, or a statement fails,
\* which of a failed renewal may be the one that publishes it, after the profile is
\* written.  The fingerprint is deleted with the context of the request, so not when it
\* is that context's ten seconds that have run out.
HookStops(id) ==
  /\ id \in working
  /\ Fault
  /\ \/ UNCHANGED <<profile, reported>>
     \/ /\ Known(id) /\ yoo[id].status = "canceled" /\ yoo[id].order \in Attempts
        /\ PaymentFailed(yoo[id].order)
  /\ working' = working \ {id}
  /\ fingerprints' \in {fingerprints, fingerprints \ {id}}
  /\ UNCHANGED <<bookVars, hooks, job, ending>>

------------------------------------------------------------------------------
(* The grace worker: ProcessExpiredGrace.                                    *)

GraceOver ==
  \/ profile.status = "grace" /\ profile.grace # 0 /\ profile.grace <= now
  \/ Stale("expiring")

LockExpiredGrace ==
  /\ ~ending
  /\ GraceOver
  /\ ending' = TRUE
  /\ profile' = [profile EXCEPT !.status = "expiring", !.locked = now]
  /\ UNCHANGED <<bookVars, hookVars, job, reported, faults>>

\* SuspendExpiredGraceTx, and the event billing.access.expired.
SuspendExpiredGrace ==
  /\ ending
  /\ ending' = FALSE
  /\ profile' = [profile EXCEPT !.auto = FALSE, !.locked = 0, !.status = "expired",
                                !.next = 0]
  /\ UNCHANGED <<bookVars, hookVars, job, reported, faults>>

SuspendFails ==
  /\ ending
  /\ Fault
  /\ ending' = FALSE
  /\ UNCHANGED <<bookVars, profile, hookVars, job, reported>>

------------------------------------------------------------------------------
\* The service dies.
Crash ==
  /\ Fault
  /\ working' = {}
  /\ job' = Idle
  /\ ending' = FALSE
  /\ UNCHANGED <<bookVars, profile, hooks, fingerprints, reported>>

\* Something of the program is at work, or ought to be.
Busy ==
  \/ job.at # "idle" \/ RenewalDue
  \/ ending \/ GraceOver
  \/ \E id \in hooks \cup working : Known(id)

\* The workers run every minute and a webhook is delivered at once; the calendar moves
\* in steps longer than that, and time that passes meanwhile is an outage.  A renewal
\* is settled while YooKassa remembers its key.
Tick ==
  /\ now < MaxTime
  /\ \A id \in Ids : yoo[id].status = "pending" /\ yoo[id].order \in Attempts
                       => now + 1 < yoo[id].since + KeyLife
  /\ now' = now + 1
  /\ IF Busy THEN Fault ELSE UNCHANGED faults
  /\ UNCHANGED <<rows, yoo, profile, hookVars, job, ending, reported>>

Scheduler ==
  LockDueRenewals \/ Charge \/ ChargeRefused \/ ChargeLost \/ Record \/ Conclude \/ ChargeStops

Hook(id) ==
  HookArrives(id) \/ HookDuplicated(id) \/ HookApplied(id) \/ HookRejected(id) \/ HookStops(id)

Next ==
  \/ \E c \in Checkouts : Checkout(c) \/ CheckoutPaid(c)
  \/ DisableAutoRenew \/ SubscriptionActivated
  \/ Scheduler
  \/ \E id \in 1 .. MaxPayments : Settle(id) \/ Hook(id)
  \/ LockExpiredGrace \/ SuspendExpiredGrace \/ SuspendFails
  \/ Crash \/ Tick

Spec == Init /\ [][Next]_vars

\* The two workers run from their tickers, the clock moves, YooKassa settles what it has
\* created and repeats a webhook that is not answered 200.  Nothing is assumed of the
\* user, of the answers of YooKassa or of the subscription service.
Fairness ==
  /\ WF_vars(Scheduler)
  /\ WF_vars(LockExpiredGrace \/ SuspendExpiredGrace)
  /\ \A id \in 1 .. MaxPayments : WF_vars(Settle(id)) /\ WF_vars(Hook(id))
  /\ WF_vars(Tick)

FairSpec == Spec /\ Fairness

------------------------------------------------------------------------------
(* Properties.                                                               *)

\* Whatever interrupts a charge or the end of a grace period, a state the workers owe
\* something to is one their statements can find: a profile to renew has a date, a
\* locked one a lock that can grow old and a renewal to make, one in grace an end.
SomeWorkerPicksIt ==
  /\ profile.auto /\ profile.status \in {"active", "retry"} => profile.next # 0
  /\ profile.status = "processing" => profile.auto /\ profile.locked # 0
  /\ profile.status = "grace" => profile.grace # 0
  /\ profile.status = "expiring" => profile.locked # 0

\* While nothing fails, the user is charged for one renewal a period, although the same
\* answer comes twice, a lock is taken over and the schedule is moved meanwhile.
OneRenewalAPeriod ==
  faults = 0 =>
    \A i, j \in Ids :
      i < j /\ {yoo[i].order, yoo[j].order} \subseteq Attempts
            /\ yoo[i].status = "succeeded" /\ yoo[j].status = "succeeded"
        => yoo[i].since + Period <= yoo[j].since

Taken(id) == id \in Ids /\ yoo[id].status = "succeeded"

\* While nothing fails, every payment YooKassa has taken is reported, also when its
\* webhook comes before the statement that stores its id.
PaidIsReported ==
  \A id \in 1 .. MaxPayments :
    Taken(id) ~> (id \in reported \/ faults > 0)

\* A renewal that has begun comes to an end, through retries, the grace period, crashes
\* in any of its steps and an outage: it is paid, or it is given up.
RenewalEnds ==
  (profile.status \in {"retry", "processing", "grace", "expiring"} /\ now + Horizon <= MaxTime)
    ~> (profile.status = "active" \/ ~profile.auto)

=============================================================================
