----------------------------- MODULE BillingProofs -----------------------------
(***************************************************************************)
(* Type correctness of Billing, and that no interruption leaves the profile *)
(* in a state neither worker can find, for every value of the constants.    *)
(***************************************************************************)
EXTENDS Billing, TLAPS

\* A profile some worker can find: SomeWorkerPicksIt of any row.
Found(p) ==
  /\ p.auto /\ p.status \in {"active", "retry"} => p.next # 0
  /\ p.status = "processing" => p.auto /\ p.locked # 0
  /\ p.status = "grace" => p.grace # 0
  /\ p.status = "expiring" => p.locked # 0

\* The answer the scheduler holds is that of a payment.
JobHasPayment ==
  job.at = "record" \/ job.answer # "error" => job.id \in Ids

IInv ==
  /\ TypeOK
  /\ now # 0
  /\ Found(profile)
  /\ JobHasPayment

(* The statements keep the row's type and leave a row that can be found.     *)

\* DisableAutoRenewTx takes the row from both workers.
LEMMA DisabledFound ==
  ASSUME NEW p \in Profile, Found(p)
  PROVE  Disabled(p) \in Profile /\ Found(Disabled(p))
BY DEF Disabled, Profile, Found

\* A row made active has its next date.
LEMMA ActiveRow ==
  ASSUME NEW p \in Profile, NEW n \in Nat \ {0}, NEW locked \in Nat, NEW q,
         q = [p EXCEPT !.status = "active", !.auto = TRUE, !.next = n, !.retry = 0,
                       !.grace = 0, !.locked = locked]
  PROVE  q \in Profile /\ Found(q)
<1>1. q \in Profile
  <2>1. 0 \in 0 .. Len(RetrySchedule)
    BY BillingAssumption
  <2> QED
    BY <2>1 DEF Profile
<1>2. q.status = "active" /\ q.next = n
  BY DEF Profile
<1> QED
  BY <1>1, <1>2 DEF Found

\* A row to be retried has the date of its retry.
LEMMA RetryRow ==
  ASSUME NEW p \in Profile, NEW n \in Nat \ {0}, NEW retry \in 0 .. Len(RetrySchedule),
         NEW q,
         q = [p EXCEPT !.status = "retry", !.locked = 0, !.retry = retry, !.next = n]
  PROVE  q \in Profile /\ Found(q)
<1>1. q \in Profile
  BY DEF Profile
<1>2. q.status = "retry" /\ q.next = n
  BY DEF Profile
<1> QED
  BY <1>1, <1>2 DEF Found

\* A row in its grace period has the end of it.
LEMMA GraceRow ==
  ASSUME NEW p \in Profile, NEW n \in Nat \ {0}, NEW q,
         q = [p EXCEPT !.status = "grace", !.locked = 0, !.next = 0, !.grace = n]
  PROVE  q \in Profile /\ Found(q)
<1>1. q \in Profile
  BY DEF Profile
<1>2. q.status = "grace" /\ q.grace = n
  BY DEF Profile
<1> QED
  BY <1>1, <1>2 DEF Found

\* A row locked by a worker has the time of its lock, and is charged only when it renews.
LEMMA LockedRow ==
  ASSUME NEW p \in Profile, NEW status \in {"processing", "expiring"},
         status = "processing" => p.auto, NEW n \in Nat \ {0}, NEW q,
         q = [p EXCEPT !.status = status, !.locked = n]
  PROVE  q \in Profile /\ Found(q)
<1>1. q \in Profile
  BY DEF Profile
<1>2. q.status = status /\ q.locked = n /\ q.auto = p.auto
  BY DEF Profile
<1> QED
  BY <1>1, <1>2 DEF Found

\* UpsertRecurringProfileTx and MarkRecurringSuccessTx
LEMMA RenewedFound ==
  ASSUME NEW p \in Profile, NEW recurring \in BOOLEAN, now \in Nat
  PROVE  Renewed(p, recurring) \in Profile /\ Found(Renewed(p, recurring))
<1> DEFINE locked == IF recurring THEN 0 ELSE p.locked
           n == now + Period
<1>1. n \in Nat \ {0} /\ locked \in Nat
  <2>1. Period \in Nat \ {0}
    BY BillingAssumption
  <2> QED
    BY <2>1 DEF Profile
<1>2. Renewed(p, recurring) =
        [p EXCEPT !.status = "active", !.auto = TRUE, !.next = n, !.retry = 0,
                  !.grace = 0, !.locked = locked]
  BY DEF Renewed
<1> QED
  BY <1>1, <1>2, ActiveRow

\* ScheduleRenewalRetryTx and StartGracePeriodTx
LEMMA FailedFound ==
  ASSUME NEW p \in Profile, NEW attempt \in Attempts, now \in Nat
  PROVE  Failed(p, attempt) \in Profile /\ Found(Failed(p, attempt))
<1>1. GracePeriod \in Nat \ {0} /\ Len(RetrySchedule) \in Nat /\ attempt \in Nat \ {0}
  BY BillingAssumption DEF Attempts
<1>2. CASE attempt <= Len(RetrySchedule)
  <2> DEFINE n == now + RetrySchedule[attempt]
  <2>1. RetrySchedule[attempt] \in Nat \ {0}
    BY <1>1, <1>2, BillingAssumption
  <2>2. n \in Nat \ {0} /\ attempt \in 0 .. Len(RetrySchedule)
    BY <1>1, <1>2, <2>1
  <2>3. Failed(p, attempt) = [p EXCEPT !.status = "retry", !.locked = 0, !.retry = attempt,
                                       !.next = n]
    BY <1>2 DEF Failed
  <2> QED
    BY <2>2, <2>3, RetryRow
<1>3. CASE ~(attempt <= Len(RetrySchedule))
  <2> DEFINE n == now + GracePeriod
  <2>1. n \in Nat \ {0}
    BY <1>1
  <2>2. Failed(p, attempt) = [p EXCEPT !.status = "grace", !.locked = 0, !.next = 0,
                                       !.grace = n]
    BY <1>3 DEF Failed
  <2> QED
    BY <2>1, <2>2, GraceRow
<1> QED
  BY <1>2, <1>3

\* handlePaymentSucceeded reports a payment and leaves a row that can be found.
LEMMA SucceededFound ==
  ASSUME TypeOK, Found(profile), NEW id \in Ids, PaymentSucceeded(id)
  PROVE  profile' \in Profile /\ Found(profile') /\ reported' \subseteq Ids
<1>1. profile \in Profile /\ now \in Nat /\ reported \subseteq Ids
  BY DEF TypeOK
<1>2. reported' \subseteq Ids
  BY <1>1 DEF PaymentSucceeded
<1>3. CASE yoo[id].saved
  <2>1. profile' = Renewed(profile, yoo[id].order \in Attempts)
    BY <1>3 DEF PaymentSucceeded
  <2>2. (yoo[id].order \in Attempts) \in BOOLEAN
    OBVIOUS
  <2> QED
    BY <1>1, <1>2, <2>1, <2>2, RenewedFound
<1>4. CASE ~yoo[id].saved
  BY <1>1, <1>2, <1>4, DisabledFound DEF PaymentSucceeded
<1> QED
  BY <1>3, <1>4

\* handleRecurringPaymentFailed leaves a row that can be found.
LEMMA FailureFound ==
  ASSUME TypeOK, NEW attempt \in Attempts, PaymentFailed(attempt)
  PROVE  profile' \in Profile /\ Found(profile') /\ reported' = reported
BY FailedFound DEF PaymentFailed, TypeOK

\* A fault counts up to the bound.
LEMMA FaultCounted ==
  ASSUME TypeOK, Fault
  PROVE  faults' \in 0 .. MaxFaults
<1>1. MaxFaults \in Nat
  BY BillingAssumption
<1> QED
  BY <1>1 DEF TypeOK, Fault

\* A new payment has the next number.
LEMMA PaymentAppended ==
  ASSUME TypeOK, NEW p \in Payment, Len(yoo) < MaxPayments, yoo' = Append(yoo, p)
  PROVE  /\ yoo' \in Seq(Payment)
         /\ Len(yoo') = Len(yoo) + 1
         /\ Len(yoo') \in 1 .. MaxPayments
         /\ Ids' = Ids \cup {Len(yoo')}
<1>1. yoo \in Seq(Payment) /\ MaxPayments \in Nat /\ Len(yoo) \in Nat
  BY BillingAssumption DEF TypeOK
<1>2. yoo' \in Seq(Payment) /\ Len(yoo') = Len(yoo) + 1
  BY <1>1
<1> QED
  BY <1>1, <1>2 DEF Ids

------------------------------------------------------------------------------
(* The invariant.                                                            *)

LEMMA InitInv ==
  ASSUME Init
  PROVE  IInv
<1>1. MaxFaults \in Nat /\ Len(RetrySchedule) \in Nat /\ MaxPayments \in Nat
  BY BillingAssumption
<1>2. profile \in Profile /\ Found(profile)
  BY <1>1 DEF Init, Profile, Found
<1>3. job \in Jobs /\ JobHasPayment
  BY <1>1 DEF Init, Idle, Jobs, Attempts, JobHasPayment
<1>4. rows \in [Orders -> 0 .. MaxPayments]
  BY <1>1 DEF Init
<1>5. yoo \in Seq(Payment) /\ Len(yoo) <= MaxPayments
  BY <1>1 DEF Init
<1>6. hooks = {} /\ fingerprints = {} /\ working = {} /\ reported = {}
  BY DEF Init
<1>7. now = 1 /\ faults \in 0 .. MaxFaults
  BY <1>1 DEF Init
<1>8. ending \in BOOLEAN
  BY DEF Init
<1> QED
  BY <1>2, <1>3, <1>4, <1>5, <1>6, <1>7, <1>8 DEF IInv, TypeOK

\* Most steps change one or two of these; IInv' follows from what they say of each.
LEMMA Parts ==
  ASSUME IInv,
         now' \in Nat \ {0},
         profile' \in Profile, Found(profile'),
         rows' \in [Orders -> 0 .. MaxPayments],
         yoo' \in Seq(Payment), Len(yoo') <= MaxPayments,
         hooks' \subseteq Ids', fingerprints' \subseteq Ids', working' \subseteq Ids',
         reported' \subseteq Ids',
         job' \in Jobs, JobHasPayment',
         ending' \in BOOLEAN,
         faults' \in 0 .. MaxFaults
  PROVE  IInv'
BY DEF IInv, TypeOK, Jobs

LEMMA IdleJob == Idle \in Jobs /\ Idle.at = "idle" /\ Idle.answer = "error"
<1>1. Len(RetrySchedule) \in Nat /\ MaxPayments \in Nat
  BY BillingAssumption
<1> QED
  BY <1>1 DEF Idle, Jobs, Attempts

\* The scheduler keeps the invariant.
LEMMA SchedulerStep ==
  ASSUME IInv, Scheduler
  PROVE  IInv'
<1> USE DEF IInv
<1>0. TypeOK /\ MaxPayments \in Nat /\ Len(yoo) \in Nat
  BY BillingAssumption DEF TypeOK
<1>1. CASE LockDueRenewals
  <2>1. profile.auto \/ profile.status = "processing"
    BY <1>1 DEF LockDueRenewals, RenewalDue, Stale
  <2>2. profile.auto
    BY <2>1 DEF Found
  <2>3. profile' \in Profile /\ Found(profile')
    BY <1>1, <2>2, LockedRow DEF LockDueRenewals, TypeOK
  <2>4. job' = [Idle EXCEPT !.at = "charge", !.attempt = profile.retry + 1]
    BY <1>1, <2>2 DEF LockDueRenewals
  <2>5. profile.retry + 1 \in Attempts
    <3>1. profile.retry \in 0 .. Len(RetrySchedule) /\ Len(RetrySchedule) \in Nat
      BY <1>0, BillingAssumption DEF TypeOK, Profile
    <3> QED
      BY <3>1 DEF Attempts
  <2>6. job' \in Jobs /\ JobHasPayment'
    BY <2>4, <2>5, IdleJob DEF Jobs, JobHasPayment, Idle
  <2> QED
    BY <1>1, <2>3, <2>6, Parts DEF LockDueRenewals, bookVars, hookVars, TypeOK, Ids
<1>2. CASE Charge
  <2>1. CASE \E id \in Remembered(job.attempt) :
               /\ job' = [job EXCEPT !.at = "record", !.id = id, !.answer = yoo[id].status]
               /\ UNCHANGED <<yoo, hooks>>
    <3>1. PICK id \in Ids :
            job' = [job EXCEPT !.at = "record", !.id = id, !.answer = yoo[id].status]
      BY <2>1 DEF Remembered
    <3>2. yoo[id] \in Payment /\ id \in 0 .. MaxPayments
      <4>1. yoo \in Seq(Payment) /\ Len(yoo) <= MaxPayments /\ id \in 1 .. Len(yoo)
        BY <1>0 DEF Ids, TypeOK
      <4> QED
        BY <1>0, <4>1
    <3>3. yoo[id].status \in {"pending", "succeeded", "canceled"}
      BY <3>2 DEF Payment
    <3>4. job' \in Jobs /\ job'.id = id
      BY <3>1, <3>2, <3>3 DEF Jobs, TypeOK
    <3>5. JobHasPayment'
      BY <2>1, <3>4 DEF JobHasPayment, Ids
    <3> QED
      BY <1>2, <2>1, <3>4, <3>5, Parts DEF Charge, TypeOK, Ids
  <2>2. CASE \E status \in {"pending", "succeeded", "canceled"}, saved \in BOOLEAN :
               Charged(status, saved)
    <3>1. PICK status \in {"pending", "succeeded", "canceled"}, saved \in BOOLEAN :
            Charged(status, saved)
      BY <2>2
    <3> DEFINE payment == [order |-> job.attempt, status |-> status, saved |-> saved,
                           since |-> now]
    <3>2. payment \in Payment
      BY DEF TypeOK, Jobs, Payment, Orders
    <3>3. /\ yoo' \in Seq(Payment) /\ Len(yoo') \in 1 .. MaxPayments
          /\ Ids' = Ids \cup {Len(yoo')}
      BY <3>1, <3>2, PaymentAppended DEF Charged
    <3> DEFINE n == Len(yoo')
    <3>n. n \in 0 .. MaxPayments
      BY <3>3
    <3>j. job' = [job EXCEPT !.at = "record", !.id = n, !.answer = status]
      BY <3>1 DEF Charged
    <3>4. job' \in Jobs /\ job'.id = n
      <4> HIDE DEF n
      <4> QED
        BY <3>n, <3>j DEF Jobs, TypeOK
    <3>5. JobHasPayment'
      BY <3>3, <3>4 DEF JobHasPayment
    <3>6. hooks' \subseteq Ids'
      BY <3>1, <3>3 DEF Charged, TypeOK
    <3>7. Len(yoo') <= MaxPayments
      BY <3>3, <1>0
    <3> QED
      BY <1>2, <3>3, <3>4, <3>5, <3>6, <3>7, Parts DEF Charge, TypeOK
  <2> QED
    BY <1>2, <2>1, <2>2 DEF Charge
<1>3. CASE ChargeRefused
  <2>1. faults' \in 0 .. MaxFaults
    BY <1>3, FaultCounted DEF ChargeRefused, TypeOK
  <2>2. job' \in Jobs /\ JobHasPayment'
    BY <1>3 DEF ChargeRefused, Jobs, JobHasPayment, TypeOK, bookVars, Ids
  <2> QED
    BY <1>3, <2>1, <2>2, Parts DEF ChargeRefused, bookVars, hookVars, TypeOK, Ids
<1>4. CASE ChargeLost
  <2>1. faults' \in 0 .. MaxFaults
    BY <1>4, FaultCounted DEF ChargeLost
  <2>2. job' = [job EXCEPT !.at = "conclude", !.id = 0, !.answer = "error"]
    BY <1>4 DEF ChargeLost
  <2>3. 0 \in 0 .. MaxPayments
    BY <1>0
  <2>4. job' \in Jobs /\ job'.at = "conclude" /\ job'.answer = "error"
    BY <2>2, <2>3 DEF Jobs, TypeOK
  <2>5. JobHasPayment'
    BY <2>4 DEF JobHasPayment
  <2> QED
    BY <1>4, <2>1, <2>4, <2>5, Parts DEF ChargeLost, bookVars, hookVars, TypeOK, Ids
<1>5. CASE Record
  <2>1. job.id \in 0 .. MaxPayments
    BY DEF TypeOK, Jobs
  <2>2. rows' \in [Orders -> 0 .. MaxPayments]
    BY <1>5, <2>1 DEF Record, TypeOK
  <2>3. job' \in Jobs /\ JobHasPayment'
    <3>1. CASE job' = Idle
      BY <3>1, IdleJob DEF JobHasPayment
    <3>2. CASE job' = [job EXCEPT !.at = "conclude"]
      BY <1>5, <3>2 DEF Record, Jobs, JobHasPayment, TypeOK, Ids
    <3> QED
      BY <1>5, <3>1, <3>2 DEF Record
  <2> QED
    BY <1>5, <2>2, <2>3, Parts DEF Record, hookVars, TypeOK, Ids
<1>6. CASE Conclude
  <2>1. profile' \in Profile /\ Found(profile') /\ reported' \subseteq Ids
    <3>1. CASE job.answer = "succeeded"
      BY <1>6, <3>1, SucceededFound DEF Conclude, JobHasPayment
    <3>2. CASE job.answer # "succeeded"
      BY <1>6, <3>2, FailureFound DEF Conclude, TypeOK, Jobs
    <3> QED
      BY <3>1, <3>2
  <2>2. job' \in Jobs /\ JobHasPayment'
    BY <1>6, IdleJob DEF Conclude, JobHasPayment
  <2> QED
    BY <1>6, <2>1, <2>2, Parts DEF Conclude, bookVars, hookVars, TypeOK, Ids
<1>7. CASE ChargeStops
  <2>1. faults' \in 0 .. MaxFaults
    BY <1>7, FaultCounted DEF ChargeStops
  <2>2. job' \in Jobs /\ JobHasPayment'
    BY <1>7, IdleJob DEF ChargeStops, JobHasPayment
  <2> QED
    BY <1>7, <2>1, <2>2, Parts DEF ChargeStops, bookVars, hookVars, TypeOK, Ids
<1> QED
  BY <1>1, <1>2, <1>3, <1>4, <1>5, <1>6, <1>7 DEF Scheduler

\* A webhook keeps the invariant.
LEMMA HookStep ==
  ASSUME IInv, NEW id \in 1 .. MaxPayments, Hook(id)
  PROVE  IInv'
<1> USE DEF IInv
<1>0. TypeOK /\ MaxPayments \in Nat /\ Len(yoo) \in Nat
  BY BillingAssumption DEF TypeOK
<1>1. /\ yoo' = yoo /\ Ids' = Ids /\ now' = now /\ rows' = rows /\ job' = job
      /\ ending' = ending
  BY DEF Hook, HookArrives, HookDuplicated, HookApplied, HookRejected, HookStops, bookVars, Ids
<1>2. JobHasPayment'
  BY <1>1 DEF JobHasPayment
<1>3. SUFFICES /\ profile' \in Profile /\ Found(profile') /\ reported' \subseteq Ids
               /\ hooks' \subseteq Ids /\ fingerprints' \subseteq Ids /\ working' \subseteq Ids
               /\ faults' \in 0 .. MaxFaults
  BY <1>1, <1>2, Parts DEF TypeOK
<1>4. CASE HookArrives(id)
  BY <1>4 DEF HookArrives, bookVars, TypeOK
<1>5. CASE HookDuplicated(id)
  BY <1>5, FaultCounted DEF HookDuplicated, bookVars, TypeOK
<1>6. CASE HookApplied(id)
  <2>1. id \in Ids /\ yoo[id] \in Payment
    BY <1>6 DEF HookApplied, TypeOK, Ids
  <2>2. profile' \in Profile /\ Found(profile') /\ reported' \subseteq Ids
    <3>1. CASE PaymentSucceeded(id)
      BY <3>1, <2>1, SucceededFound
    <3>2. CASE yoo[id].order \in Attempts /\ PaymentFailed(yoo[id].order)
      BY <3>2, FailureFound DEF TypeOK
    <3>3. CASE UNCHANGED <<profile, reported>>
      BY <3>3 DEF TypeOK
    <3> QED
      BY <1>6, <3>1, <3>2, <3>3 DEF HookApplied
  <2> QED
    BY <1>6, <2>2 DEF HookApplied, bookVars, TypeOK
<1>7. CASE HookRejected(id)
  BY <1>7 DEF HookRejected, bookVars, TypeOK
<1>8. CASE HookStops(id)
  <2>1. profile' \in Profile /\ Found(profile') /\ reported' \subseteq Ids
    <3>1. CASE yoo[id].order \in Attempts /\ PaymentFailed(yoo[id].order)
      BY <3>1, FailureFound DEF TypeOK
    <3>2. CASE UNCHANGED <<profile, reported>>
      BY <3>2 DEF TypeOK
    <3> QED
      BY <1>8, <3>1, <3>2 DEF HookStops
  <2>2. faults' \in 0 .. MaxFaults
    BY <1>8, FaultCounted DEF HookStops
  <2> QED
    BY <1>8, <2>1, <2>2 DEF HookStops, TypeOK
<1> QED
  BY <1>4, <1>5, <1>6, <1>7, <1>8 DEF Hook

\* So do the checkouts.
LEMMA CheckoutStep ==
  ASSUME IInv, NEW c \in Checkouts, Checkout(c) \/ CheckoutPaid(c)
  PROVE  IInv'
<1> USE DEF IInv
<1>0. TypeOK /\ MaxPayments \in Nat /\ Len(yoo) \in Nat
  BY BillingAssumption DEF TypeOK
<1>1. PICK payment \in Payment : yoo' = Append(yoo, payment)
  <2>1. \A status \in {"pending", "succeeded"}, saved \in BOOLEAN :
          [order |-> c, status |-> status, saved |-> saved, since |-> 0] \in Payment
    BY DEF Payment, Orders
  <2> QED
    BY <2>1 DEF Checkout, CheckoutPaid
<1>2. /\ yoo' \in Seq(Payment) /\ Len(yoo') \in 1 .. MaxPayments
      /\ Ids' = Ids \cup {Len(yoo')}
  BY <1>0, <1>1, PaymentAppended DEF Checkout, CheckoutPaid
<1>3. Len(yoo') <= MaxPayments /\ Len(yoo') \in 0 .. MaxPayments
  BY <1>0, <1>2
<1>4. rows' \in [Orders -> 0 .. MaxPayments]
  BY <1>0, <1>3 DEF Checkout, CheckoutPaid, TypeOK
<1>5. JobHasPayment' /\ UNCHANGED <<now, fingerprints, working, job, ending, faults>>
  BY <1>2 DEF Checkout, CheckoutPaid, JobHasPayment, hookVars
<1>6. hooks' \subseteq Ids' /\ reported' \subseteq Ids'
  BY <1>0, <1>2 DEF Checkout, CheckoutPaid, hookVars, TypeOK
<1>7. profile' \in Profile /\ Found(profile')
  BY <1>0, RenewedFound, DisabledFound DEF Checkout, CheckoutPaid, TypeOK
<1> QED
  BY <1>0, <1>2, <1>3, <1>4, <1>5, <1>6, <1>7, Parts DEF TypeOK

\* So does everything else.
LEMMA OtherStep ==
  ASSUME IInv,
         \/ DisableAutoRenew \/ SubscriptionActivated
         \/ \E id \in 1 .. MaxPayments : Settle(id)
         \/ LockExpiredGrace \/ SuspendExpiredGrace \/ SuspendFails
         \/ Crash \/ Tick
  PROVE  IInv'
<1> USE DEF IInv
<1>0. TypeOK /\ MaxPayments \in Nat /\ Len(yoo) \in Nat
  BY BillingAssumption DEF TypeOK
<1>2. CASE DisableAutoRenew
  <2>1. profile' \in Profile /\ Found(profile')
    BY <1>2, DisabledFound DEF DisableAutoRenew, TypeOK
  <2> QED
    BY <1>2, <2>1, Parts DEF DisableAutoRenew, bookVars, hookVars, TypeOK, Ids, JobHasPayment
<1>3. CASE SubscriptionActivated
  <2>1. PICK term \in Terms :
          /\ profile' = [profile EXCEPT !.status = "active", !.next = now + term]
          /\ IF term < Period THEN Fault ELSE UNCHANGED faults
    BY <1>3 DEF SubscriptionActivated
  <2> DEFINE n == now + term
  <2>2. n \in Nat \ {0}
    BY BillingAssumption DEF TypeOK
  <2>3. profile' \in Profile /\ profile'.status = "active" /\ profile'.next = n
    <3>1. profile' = [profile EXCEPT !.status = "active", !.next = n]
      BY <2>1
    <3> HIDE DEF n
    <3> QED
      BY <2>2, <3>1 DEF Profile, TypeOK
  <2>4. Found(profile')
    BY <2>2, <2>3 DEF Found
  <2>5. faults' \in 0 .. MaxFaults
    BY <2>1, FaultCounted DEF TypeOK
  <2> QED
    BY <1>3, <2>3, <2>4, <2>5, Parts
    DEF SubscriptionActivated, bookVars, hookVars, TypeOK, Ids, JobHasPayment
<1>4. ASSUME NEW id \in 1 .. MaxPayments, Settle(id) PROVE IInv'
  <2>1. PICK status \in {"succeeded", "canceled"} :
          yoo' = [yoo EXCEPT ![id].status = status]
    BY <1>4 DEF Settle
  <2>2. id \in Ids /\ yoo[id] \in Payment
    BY <1>4 DEF Settle, TypeOK, Ids
  <2>3. [yoo[id] EXCEPT !.status = status] \in Payment
    BY <2>2 DEF Payment
  <2>4. yoo' \in Seq(Payment) /\ Len(yoo') = Len(yoo)
    BY <2>1, <2>2, <2>3, <1>0 DEF TypeOK, Ids
  <2> QED
    BY <1>4, <2>2, <2>4, Parts DEF Settle, TypeOK, Ids, JobHasPayment
<1>5. CASE LockExpiredGrace
  <2>1. profile' \in Profile /\ Found(profile')
    BY <1>5, LockedRow DEF LockExpiredGrace, TypeOK
  <2>2. ending' \in BOOLEAN
    BY <1>5 DEF LockExpiredGrace
  <2> QED
    BY <1>5, <2>1, <2>2, Parts DEF LockExpiredGrace, bookVars, hookVars, TypeOK, Ids, JobHasPayment
<1>6. CASE SuspendExpiredGrace
  <2>1. profile' \in Profile /\ profile'.status = "expired"
    BY <1>6 DEF SuspendExpiredGrace, TypeOK, Profile
  <2>2. Found(profile')
    BY <2>1 DEF Found
  <2>3. ending' \in BOOLEAN
    BY <1>6 DEF SuspendExpiredGrace
  <2> QED
    BY <1>6, <2>1, <2>2, <2>3, Parts
    DEF SuspendExpiredGrace, bookVars, hookVars, TypeOK, Ids, JobHasPayment
<1>7. CASE SuspendFails
  <2>1. faults' \in 0 .. MaxFaults
    BY <1>7, FaultCounted DEF SuspendFails
  <2>2. ending' \in BOOLEAN
    BY <1>7 DEF SuspendFails
  <2> QED
    BY <1>7, <2>1, <2>2, Parts DEF SuspendFails, bookVars, hookVars, TypeOK, Ids, JobHasPayment
<1>8. CASE Crash
  <2>1. faults' \in 0 .. MaxFaults
    BY <1>8, FaultCounted DEF Crash
  <2>2. ending' \in BOOLEAN
    BY <1>8 DEF Crash
  <2>3. job' \in Jobs /\ JobHasPayment'
    BY <1>8, IdleJob DEF Crash, JobHasPayment
  <2> QED
    BY <1>8, <2>1, <2>2, <2>3, Parts DEF Crash, bookVars, TypeOK, Ids
<1>9. CASE Tick
  <2>1. faults' \in 0 .. MaxFaults
    BY <1>9, FaultCounted DEF Tick, TypeOK
  <2>2. now' \in Nat \ {0}
    BY <1>9 DEF Tick, TypeOK
  <2> QED
    BY <1>9, <2>1, <2>2, Parts DEF Tick, hookVars, TypeOK, Ids, JobHasPayment
<1> QED
  BY <1>2, <1>3, <1>4, <1>5, <1>6, <1>7, <1>8, <1>9

------------------------------------------------------------------------------
LEMMA StutterInv ==
  ASSUME IInv, UNCHANGED vars
  PROVE  IInv'
BY DEF IInv, TypeOK, JobHasPayment, Ids, vars, bookVars, hookVars

LEMMA Invariance == Spec => []IInv
<1>1. Init => IInv
  BY InitInv
<1>2. IInv /\ [Next]_vars => IInv'
  BY SchedulerStep, HookStep, CheckoutStep, OtherStep, StutterInv DEF Next
<1> QED
  BY <1>1, <1>2, PTL DEF Spec

\* The statements of the scheduler, the webhooks and the grace worker keep every row and
\* payment of its type, in every interleaving and after every fault.
THEOREM BillingTypeCorrect == Spec => []TypeOK
<1>1. IInv => TypeOK
  BY DEF IInv
<1> QED
  BY <1>1, Invariance, PTL

\* Whatever interrupts a charge or the end of a grace period, a state the workers owe
\* something to is one LockDueRenewals or LockExpiredGrace can find.
THEOREM WorkersFindIt == Spec => []SomeWorkerPicksIt
<1>1. IInv => SomeWorkerPicksIt
  BY DEF IInv, Found, SomeWorkerPicksIt
<1> QED
  BY <1>1, Invariance, PTL
=============================================================================
