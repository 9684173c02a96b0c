-------------------------- MODULE BillingRenewalProofs --------------------------
(***************************************************************************)
(* OneRenewalAPeriod of Billing for every value of the constants.           *)
(*                                                                          *)
(* Two renewals could be taken in one period if the scheduler created a     *)
(* payment while an earlier one still counts.  The invariant Apart says why *)
(* it does not: at most one renewal is open, the scheduler in the middle of *)
(* a charge is at that one, and while one is open the profile is locked for *)
(* it or its next charge lies beyond the period.  It holds while no fault   *)
(* has happened, and a fault ends what the property says.                   *)
(***************************************************************************)
EXTENDS BillingProofs

\* The renewals YooKassa has a payment of.
Renewals == {i \in Ids : yoo[i].order \in Attempts}

\* A payment that is taken or may yet be.
Alive(i) == yoo[i].status # "canceled"

\* Its outcome has not reached the table through a webhook yet.
Unanswered(i) == yoo[i].status = "pending" \/ i \in hooks

\* A renewal that stands against another one: its period runs, or its webhook is to come.
Open(i) ==
  /\ i \in Renewals
  /\ (Alive(i) /\ now < yoo[i].since + Period) \/ i \in hooks

KeyLives(i) == now < yoo[i].since + KeyLife

\* A payment has a webhook once it is settled, and a fingerprint only while it is processed
\* or after it.
HooksInOrder ==
  /\ working \subseteq hooks
  /\ fingerprints \cap hooks \subseteq working
  /\ \A i \in Ids : yoo[i].status = "pending" => i \notin hooks \cup fingerprints

\* One payment at a time has a key.
KeysApart ==
  \A i, j \in Renewals :
    i < j /\ yoo[i].order = yoo[j].order => yoo[i].since + KeyLife <= yoo[j].since

\* Only a renewal that is charged right now is not in the table.
UnansweredKnown ==
  \A i \in Renewals :
    Unanswered(i) => KeyLives(i) /\ (Known(i) \/ (job.at = "record" /\ job.id = i))

OneOpen == \A i, j \in Ids : Open(i) /\ Open(j) => i = j

\* OneRenewalAPeriod of the payments that may yet be taken, too.
PeriodsApart ==
  \A i, j \in Renewals :
    i < j /\ Alive(i) /\ Alive(j) => yoo[i].since + Period <= yoo[j].since

\* The payment the scheduler has been answered with.
JobPayment ==
  job.at \in {"record", "conclude"} /\ job.answer # "error" =>
    /\ job.id \in Renewals
    /\ yoo[job.id].order = job.attempt
    /\ KeyLives(job.id)
    /\ job.answer # "pending" => yoo[job.id].status = job.answer

JobAnswer ==
  /\ job.at = "charge" => job.answer = "error"
  /\ job.at = "record" => job.answer # "error"
  /\ job.at = "conclude" => job.answer # "pending"

\* What the scheduler does concerns the open renewal, when there is one.
JobKnowsOpen ==
  /\ job.at = "charge" => \A i \in Ids : Open(i) => i \in Remembered(job.attempt)
  /\ job.at \in {"record", "conclude"} =>
       \A i \in Ids : Open(i) => job.answer # "error" /\ i = job.id

\* No renewal falls due before the instant t.
NotDueBefore(t) ==
  /\ profile.status # "processing"
  /\ profile.auto /\ profile.status \in {"active", "retry"} => t <= profile.next

\* While a renewal is open the profile is locked for it, or its next one is not due.
OpenHoldsProfile ==
  \A i \in Ids :
    Open(i) =>
      \/ profile.status = "processing" /\ profile.retry + 1 = yoo[i].order /\ Unanswered(i)
      \/ NotDueBefore(now + 1) /\ (Alive(i) => NotDueBefore(yoo[i].since + Period))

\* A new payment finds the profile locked for it, or renewed meanwhile.
ChargeHoldsProfile ==
  job.at = "charge" /\ Remembered(job.attempt) = {} =>
    \/ profile.status = "processing" /\ profile.retry + 1 = job.attempt
    \/ NotDueBefore(now + Period)

Apart ==
  /\ \A i \in Ids : yoo[i].since <= now
  /\ HooksInOrder /\ KeysApart /\ UnansweredKnown /\ OneOpen /\ PeriodsApart
  /\ JobPayment /\ JobAnswer /\ JobKnowsOpen /\ OpenHoldsProfile /\ ChargeHoldsProfile

\* While nothing fails, renewals are apart.
RenewalInv == faults = 0 => Apart

------------------------------------------------------------------------------
(* What the steps share.                                                     *)

LEMMA PaymentFields ==
  ASSUME TypeOK, NEW i \in Ids
  PROVE  /\ yoo[i].order \in Orders /\ yoo[i].since \in Nat
         /\ yoo[i].status \in {"pending", "succeeded", "canceled"}
<1>1. yoo[i] \in Payment
  BY DEF TypeOK, Ids
<1> QED
  BY <1>1 DEF Payment

LEMMA Numbers ==
  ASSUME TypeOK
  PROVE  /\ now \in Nat /\ Period \in Nat \ {0} /\ KeyLife \in Nat \ {0} /\ KeyLife < Period
         /\ Len(yoo) \in Nat /\ Len(RetrySchedule) \in Nat /\ Ids \subseteq Nat
  BY BillingAssumption DEF TypeOK, Ids

\* A checkout has no order of a renewal.
LEMMA OrdersApart == \A c \in Checkouts : c \notin Attempts
  BY BillingAssumption DEF Attempts

\* Steps that create no payment, settle none and leave the charge alone: what the webhooks,
\* the user, the subscription service and the grace worker do.
LEMMA HookSteps ==
  ASSUME Apart, UNCHANGED <<bookVars, job>>, hooks' \subseteq hooks,
         HooksInOrder', OpenHoldsProfile', ChargeHoldsProfile'
  PROVE  Apart'
<1>1. Ids' = Ids /\ Renewals' = Renewals
  BY DEF bookVars, Ids, Renewals
<1>2. \A i : /\ Open(i)' => Open(i)
             /\ Unanswered(i)' => Unanswered(i)
             /\ Alive(i)' = Alive(i) /\ KeyLives(i)' = KeyLives(i) /\ Known(i)' = Known(i)
  BY DEF Open, Unanswered, Alive, KeyLives, Known, Renewals, Ids, bookVars
<1>3. \A o : Remembered(o)' = Remembered(o)
  BY DEF Remembered, Ids, bookVars
<1>4. \A i \in Ids' : yoo[i]'.since <= now'
  BY <1>1 DEF Apart, bookVars
<1>5. KeysApart'
  BY <1>1 DEF Apart, KeysApart, bookVars
<1>6. UnansweredKnown'
  BY <1>1, <1>2 DEF Apart, UnansweredKnown
<1>7. OneOpen'
  BY <1>1, <1>2 DEF Apart, OneOpen
<1>8. PeriodsApart'
  BY <1>1, <1>2 DEF Apart, PeriodsApart, bookVars
<1>9. JobPayment' /\ JobAnswer'
  BY <1>1, <1>2 DEF Apart, JobPayment, JobAnswer, bookVars
<1>10. JobKnowsOpen'
  BY <1>1, <1>2, <1>3 DEF Apart, JobKnowsOpen
<1> QED
  BY <1>4, <1>5, <1>6, <1>7, <1>8, <1>9, <1>10 DEF Apart

\* A row renewed now, or withdrawn, suits whatever is open.
LEMMA RowNotDue ==
  ASSUME IInv, IInv', Apart, now' = now, NotDueBefore(now + Period)',
         \A i \in Ids' : Open(i)' => i \in Ids /\ yoo'[i].since = yoo[i].since
  PROVE  OpenHoldsProfile' /\ ChargeHoldsProfile'
<1>2. TypeOK /\ profile' \in Profile
  BY DEF IInv, TypeOK
<1>3. now \in Nat /\ Period \in Nat \ {0} /\ profile'.next \in Nat
  BY <1>2, Numbers DEF Profile
<1>4. \A t \in Nat : t <= now + Period => NotDueBefore(t)'
  BY <1>3 DEF NotDueBefore
<1>5. \A i \in Ids : yoo[i].since \in Nat /\ yoo[i].since <= now
  BY <1>2, PaymentFields DEF Apart
<1>6. \A i \in Ids' : Open(i)' => NotDueBefore(yoo[i].since + Period)'
  <2> SUFFICES ASSUME NEW i \in Ids', Open(i)'
               PROVE  NotDueBefore(yoo[i].since + Period)'
    OBVIOUS
  <2>1. yoo'[i].since + Period \in Nat /\ yoo'[i].since + Period <= now + Period
    BY <1>3, <1>5
  <2> QED
    BY <2>1, <1>4
<1>7. NotDueBefore(now + 1)'
  <2>1. now + 1 \in Nat /\ now + 1 <= now + Period
    BY <1>3
  <2> QED
    BY <2>1, <1>4
<1> QED
  BY <1>6, <1>7 DEF OpenHoldsProfile, ChargeHoldsProfile

LEMMA NotDue ==
  ASSUME IInv, IInv', Apart, UNCHANGED bookVars, NotDueBefore(now + Period)'
  PROVE  OpenHoldsProfile' /\ ChargeHoldsProfile'
<1>1. now' = now /\ yoo' = yoo /\ Ids' = Ids
  BY DEF bookVars, Ids
<1> QED
  BY <1>1, RowNotDue

\* Renewed and Disabled are such rows.
LEMMA WrittenNotDue ==
  ASSUME TypeOK, now' = now, NEW recurring \in BOOLEAN,
         profile' = Renewed(profile, recurring) \/ profile' = Disabled(profile)
  PROVE  NotDueBefore(now + Period)'
<1>1. profile \in Profile
  BY DEF TypeOK
<1> DEFINE n == now + Period
<1>2. n \in Nat
  BY Numbers
<1>3. CASE profile' = Renewed(profile, recurring)
  <2> DEFINE locked == IF recurring THEN 0 ELSE profile.locked
  <2>1. profile' = [profile EXCEPT !.status = "active", !.auto = TRUE, !.next = n,
                                   !.retry = 0, !.grace = 0, !.locked = locked]
    BY <1>3 DEF Renewed
  <2>2. profile'.status = "active" /\ profile'.next = n
    <3> HIDE DEF n, locked
    <3> QED
      BY <1>1, <2>1 DEF Profile
  <2> QED
    BY <1>2, <2>2 DEF NotDueBefore
<1>4. CASE profile' = Disabled(profile)
  <2>2. profile'.status \in {"none", "disabled"}
    BY <1>1, <1>4 DEF Disabled, Profile
  <2> QED
    BY <2>2 DEF NotDueBefore
<1> QED
  BY <1>3, <1>4

LEMMA PaidNotDue ==
  ASSUME TypeOK, now' = now, NEW id \in Ids, PaymentSucceeded(id)
  PROVE  NotDueBefore(now + Period)'
<1> DEFINE recurring == yoo[id].order \in Attempts
<1>1. profile' = Renewed(profile, recurring) \/ profile' = Disabled(profile)
  BY DEF PaymentSucceeded
<1>2. recurring \in BOOLEAN
  OBVIOUS
<1> HIDE DEF recurring
<1> QED
  BY <1>1, <1>2, WrittenNotDue

\* A retry is scheduled for later, and a grace period is no renewal.
LEMMA FailedNotDue ==
  ASSUME TypeOK, now' = now, NEW attempt \in Attempts, PaymentFailed(attempt)
  PROVE  NotDueBefore(now + 1)'
<1>1. profile \in Profile /\ now \in Nat /\ profile' = Failed(profile, attempt)
  BY DEF TypeOK, PaymentFailed
<1>2. CASE attempt <= Len(RetrySchedule)
  <2> DEFINE n == now + RetrySchedule[attempt]
  <2>1. RetrySchedule[attempt] \in Nat \ {0}
    BY <1>2, BillingAssumption DEF Attempts
  <2>2. n \in Nat /\ now + 1 <= n
    BY <1>1, <2>1
  <2>3. profile' = [profile EXCEPT !.status = "retry", !.locked = 0, !.retry = attempt,
                                   !.next = n]
    BY <1>1, <1>2 DEF Failed
  <2>4. profile'.status = "retry" /\ profile'.next = n
    <3> HIDE DEF n
    <3> QED
      BY <1>1, <2>3 DEF Profile
  <2> QED
    BY <2>2, <2>4 DEF NotDueBefore
<1>3. CASE ~(attempt <= Len(RetrySchedule))
  <2> DEFINE n == now + GracePeriod
  <2>1. profile' = [profile EXCEPT !.status = "grace", !.locked = 0, !.next = 0, !.grace = n]
    BY <1>1, <1>3 DEF Failed
  <2>2. profile'.status = "grace"
    <3> HIDE DEF n
    <3> QED
      BY <1>1, <2>1 DEF Profile
  <2> QED
    BY <2>2 DEF NotDueBefore
<1> QED
  BY <1>2, <1>3

------------------------------------------------------------------------------
(* The user, the subscription service, the grace worker and the webhooks.    *)

LEMMA ProfileStep ==
  ASSUME IInv, IInv', Apart,
         DisableAutoRenew \/ SubscriptionActivated \/ LockExpiredGrace \/ SuspendExpiredGrace,
         ~Fault
  PROVE  Apart'
<1>1. UNCHANGED <<bookVars, hookVars, job>>
  BY DEF DisableAutoRenew, SubscriptionActivated, LockExpiredGrace, SuspendExpiredGrace
<1>2. profile \in Profile /\ now' = now
  BY <1>1 DEF IInv, TypeOK, bookVars
<1>3. NotDueBefore(now + Period)'
  <2> DEFINE n == now + Period
  <2>1. n \in Nat
    BY Numbers DEF IInv
  <2>2. CASE DisableAutoRenew
    <3>1. profile'.status = "disabled"
      BY <1>2, <2>2 DEF DisableAutoRenew, Disabled, Profile
    <3> QED
      BY <3>1 DEF NotDueBefore
  <2>3. CASE SubscriptionActivated
    <3>1. PICK term \in Terms :
            /\ profile' = [profile EXCEPT !.status = "active", !.next = now + term]
            /\ ~(term < Period)
      BY <2>3 DEF SubscriptionActivated
    <3> DEFINE m == now + term
    <3>2. m \in Nat /\ n <= m
      BY <3>1, Numbers, BillingAssumption DEF IInv
    <3>3. profile'.status = "active" /\ profile'.next = m
      <4>1. profile' = [profile EXCEPT !.status = "active", !.next = m]
        BY <3>1
      <4> HIDE DEF m
      <4> QED
        BY <1>2, <4>1 DEF Profile
    <3> QED
      BY <1>2, <2>1, <3>2, <3>3 DEF NotDueBefore
  <2>4. CASE LockExpiredGrace
    <3>1. profile'.status = "expiring"
      BY <1>2, <2>4 DEF LockExpiredGrace, Profile
    <3> QED
      BY <3>1 DEF NotDueBefore
  <2>5. CASE SuspendExpiredGrace
    <3>1. profile'.status = "expired"
      BY <1>2, <2>5 DEF SuspendExpiredGrace, Profile
    <3> QED
      BY <3>1 DEF NotDueBefore
  <2> QED
    BY <2>2, <2>3, <2>4, <2>5
<1>4. OpenHoldsProfile' /\ ChargeHoldsProfile'
  BY <1>1, <1>3, NotDue
<1>5. HooksInOrder' /\ hooks' = hooks
  BY <1>1 DEF Apart, HooksInOrder, hookVars, bookVars, Ids
<1> QED
  BY <1>1, <1>4, <1>5, HookSteps

\* A webhook that arrives, or is answered 400.
LEMMA HookMarked ==
  ASSUME Apart, NEW id \in 1 .. MaxPayments, HookArrives(id) \/ HookRejected(id)
  PROVE  Apart'
<1>1. UNCHANGED <<bookVars, job, profile, hooks>>
  BY DEF HookArrives, HookRejected, Apart, HooksInOrder
<1>2. OpenHoldsProfile' /\ ChargeHoldsProfile'
  BY <1>1 DEF Apart, OpenHoldsProfile, ChargeHoldsProfile, Open, Unanswered, Alive, Renewals,
              Remembered, NotDueBefore, Ids, bookVars
<1>3. HooksInOrder'
  <2>1. working' \subseteq hooks
    BY DEF Apart, HooksInOrder, HookArrives, HookRejected
  <2>2. fingerprints' \cap hooks \subseteq working'
    BY DEF Apart, HooksInOrder, HookArrives, HookRejected
  <2>3. \A i \in Ids : yoo[i].status = "pending" => i \notin hooks \cup fingerprints'
    BY DEF Apart, HooksInOrder, HookArrives, HookRejected
  <2> QED
    BY <1>1, <2>1, <2>2, <2>3 DEF HooksInOrder, bookVars, Ids
<1> QED
  BY <1>1, <1>2, <1>3, HookSteps

LEMMA HookAppliedApart ==
  ASSUME IInv, IInv', Apart, NEW id \in 1 .. MaxPayments, HookApplied(id)
  PROVE  Apart'
<1>0. TypeOK
  BY DEF IInv
<1>1. UNCHANGED <<bookVars, job, fingerprints>> /\ hooks' = hooks \ {id}
      /\ working' = working \ {id}
  BY DEF HookApplied
<1>2. now' = now /\ yoo' = yoo /\ Ids' = Ids /\ Renewals' = Renewals /\ id \in Ids
  BY <1>0, <1>1 DEF bookVars, Ids, Renewals, HookApplied, TypeOK
<1>3. id \in hooks
  BY DEF HookApplied, Apart, HooksInOrder
<1>4. HooksInOrder'
  BY <1>1, <1>2 DEF Apart, HooksInOrder
<1>5. CASE yoo[id].status = "succeeded" /\ PaymentSucceeded(id)
  <2>1. NotDueBefore(now + Period)'
    BY <1>0, <1>2, <1>5, PaidNotDue
  <2> QED
    BY <1>1, <1>4, <2>1, NotDue, HookSteps
<1>6. CASE yoo[id].status = "canceled" /\ yoo[id].order \in Attempts
  <2>1. Open(id)
    BY <1>2, <1>3, <1>6 DEF Open, Renewals
  <2>2. \A i : ~Open(i)'
    <3> SUFFICES ASSUME NEW i, Open(i)' PROVE FALSE
      OBVIOUS
    <3>1. Open(i) /\ i \in Ids
      BY <1>1, <1>2 DEF Open, Alive, Renewals
    <3>2. i = id
      BY <1>2, <2>1, <3>1 DEF Apart, OneOpen
    <3> QED
      BY <1>1, <1>2, <1>6, <3>2 DEF Open, Alive
  <2>3. job.at = "charge" => Remembered(job.attempt) # {}
    BY <1>2, <2>1 DEF Apart, JobKnowsOpen
  <2>4. OpenHoldsProfile' /\ ChargeHoldsProfile'
    BY <1>1, <2>2, <2>3 DEF OpenHoldsProfile, ChargeHoldsProfile, Remembered, Ids, bookVars
  <2> QED
    BY <1>1, <1>4, <2>4, HookSteps
<1>7. CASE yoo[id].order \in Checkouts /\ UNCHANGED profile
  <2>1. id \notin Renewals
    BY <1>7, OrdersApart DEF Renewals
  <2>2. \A i \in Ids : /\ Open(i)' => Open(i) /\ i # id
                       /\ i # id => Unanswered(i)' = Unanswered(i)
                       /\ Alive(i)' = Alive(i)
    BY <1>1, <1>2, <2>1 DEF Open, Alive, Unanswered
  <2>3. \A t : NotDueBefore(t)' = NotDueBefore(t)
    BY <1>7 DEF NotDueBefore
  <2>4. OpenHoldsProfile'
    BY <1>2, <1>7, <2>2, <2>3 DEF Apart, OpenHoldsProfile
  <2>5. ChargeHoldsProfile'
    BY <1>1, <1>2, <1>7 DEF Apart, ChargeHoldsProfile, Remembered, NotDueBefore
  <2> QED
    BY <1>1, <1>4, <2>4, <2>5, HookSteps
<1> QED
  BY <1>5, <1>6, <1>7 DEF HookApplied

------------------------------------------------------------------------------
(* The renewal scheduler.                                                    *)

\* Steps of the charge that create no payment.
LEMMA JobSteps ==
  ASSUME Apart, UNCHANGED <<now, yoo, hookVars>>,
         UnansweredKnown', JobPayment', JobAnswer', JobKnowsOpen',
         OpenHoldsProfile', ChargeHoldsProfile'
  PROVE  Apart'
<1>1. Ids' = Ids /\ Renewals' = Renewals
  BY DEF Ids, Renewals
<1>2. \A i : Open(i)' = Open(i) /\ Alive(i)' = Alive(i)
  BY <1>1 DEF Open, Alive, hookVars
<1>3. \A i \in Ids' : yoo[i]'.since <= now'
  BY <1>1 DEF Apart
<1>4. HooksInOrder' /\ KeysApart'
  BY <1>1 DEF Apart, HooksInOrder, KeysApart, hookVars
<1>5. OneOpen' /\ PeriodsApart'
  BY <1>1, <1>2 DEF Apart, OneOpen, PeriodsApart
<1> QED
  BY <1>3, <1>4, <1>5 DEF Apart

\* What is open while the profile is due is what a lock was left on.
LEMMA LockApart ==
  ASSUME IInv, Apart, LockDueRenewals
  PROVE  Apart'
<1>1. /\ UNCHANGED <<now, yoo, rows, hookVars>>
      /\ job.at = "idle"
      /\ profile' = [profile EXCEPT !.status = "processing", !.locked = now]
      /\ RenewalDue
  BY DEF LockDueRenewals, bookVars
<1>2. profile \in Profile /\ profile.auto
  BY <1>1 DEF IInv, TypeOK, Found, RenewalDue, Stale
<1>3. now \in Nat /\ profile.next \in Nat
  BY <1>2, Numbers DEF IInv, Profile
<1>4. \A i \in Ids : Open(i) => /\ profile.retry + 1 = yoo[i].order
                                /\ Unanswered(i)
  <2>1. ~NotDueBefore(now + 1)
    BY <1>1, <1>2, <1>3 DEF RenewalDue, Stale, NotDueBefore
  <2> QED
    BY <2>1 DEF Apart, OpenHoldsProfile
<1>5. profile'.status = "processing" /\ profile'.retry = profile.retry
  BY <1>1, <1>2 DEF Profile
<1>6. job'.at = "charge" /\ job'.attempt = profile.retry + 1 /\ job'.answer = "error"
  <2> DEFINE n == profile.retry + 1
  <2>1. job' = [Idle EXCEPT !.at = "charge", !.attempt = n]
    BY <1>2 DEF LockDueRenewals
  <2> HIDE DEF n
  <2>2. job'.at = "charge" /\ job'.attempt = n /\ job'.answer = "error"
    BY <2>1 DEF Idle
  <2> QED
    BY <2>2 DEF n
<1>7. /\ Ids' = Ids /\ Renewals' = Renewals
      /\ \A i : /\ Open(i)' = Open(i) /\ Unanswered(i)' = Unanswered(i)
                /\ Known(i)' = Known(i) /\ KeyLives(i)' = KeyLives(i)
  BY <1>1 DEF Ids, Renewals, Open, Alive, Unanswered, Known, KeyLives, hookVars
<1>8. UnansweredKnown'
  BY <1>1, <1>7 DEF Apart, UnansweredKnown
<1>9. JobPayment' /\ JobAnswer'
  BY <1>6 DEF JobPayment, JobAnswer
<1>10. JobKnowsOpen'
  <2>1. \A i \in Ids : Open(i) => i \in Remembered(profile.retry + 1)'
    BY <1>1, <1>4 DEF Open, Apart, UnansweredKnown, KeyLives, Remembered, Ids
  <2> QED
    BY <1>5, <1>6, <1>7, <2>1 DEF JobKnowsOpen
<1>11. OpenHoldsProfile'
  BY <1>1, <1>4, <1>5, <1>7 DEF OpenHoldsProfile
<1>12. ChargeHoldsProfile'
  BY <1>5, <1>6 DEF ChargeHoldsProfile
<1> QED
  BY <1>1, <1>8, <1>9, <1>10, <1>11, <1>12, JobSteps

\* YooKassa remembers one payment of a key.
LEMMA OneRemembered ==
  ASSUME TypeOK, Apart, NEW o \in Attempts, NEW i \in Remembered(o), NEW j \in Remembered(o)
  PROVE  i = j
<1>1. i \in Renewals /\ j \in Renewals /\ i \in Ids /\ j \in Ids
  BY DEF Remembered, Renewals
<1>2. i \in Nat /\ j \in Nat /\ now \in Nat /\ KeyLife \in Nat
      /\ yoo[i].since \in Nat /\ yoo[j].since \in Nat
  BY <1>1, Numbers, PaymentFields
<1>3. /\ now < yoo[i].since + KeyLife /\ now < yoo[j].since + KeyLife
      /\ yoo[i].since <= now /\ yoo[j].since <= now
      /\ yoo[i].order = yoo[j].order
  BY <1>1 DEF Remembered, Apart
<1>4. /\ i < j => yoo[i].since + KeyLife <= yoo[j].since
      /\ j < i => yoo[j].since + KeyLife <= yoo[i].since
  BY <1>1, <1>3 DEF Apart, KeysApart
<1> QED
  BY <1>2, <1>3, <1>4

\* YooKassa answers with the payment of the key.
LEMMA ChargeAgain ==
  ASSUME IInv, Apart, job.at = "charge", NEW id \in Remembered(job.attempt),
         job' = [job EXCEPT !.at = "record", !.id = id, !.answer = yoo[id].status],
         UNCHANGED <<now, yoo, rows, profile, hookVars>>
  PROVE  Apart'
<1>0. TypeOK /\ job.attempt \in Attempts
  BY DEF IInv, TypeOK, Jobs
<1>1. id \in Ids /\ id \in Renewals /\ yoo[id].order = job.attempt /\ KeyLives(id)
  BY <1>0 DEF Remembered, Renewals, KeyLives
<1>2. /\ job'.at = "record" /\ job'.id = id /\ job'.answer = yoo[id].status
      /\ job'.attempt = job.attempt
  BY <1>0 DEF TypeOK, Jobs
<1>3. yoo[id].status # "error"
  BY <1>0, <1>1, PaymentFields
<1>4. /\ Ids' = Ids /\ Renewals' = Renewals
      /\ \A i : /\ Open(i)' = Open(i) /\ Unanswered(i)' = Unanswered(i) /\ Alive(i)' = Alive(i)
                /\ Known(i)' = Known(i) /\ KeyLives(i)' = KeyLives(i)
      /\ \A t : NotDueBefore(t)' = NotDueBefore(t)
  BY DEF Ids, Renewals, Open, Alive, Unanswered, Known, KeyLives, NotDueBefore, hookVars
<1>5. UnansweredKnown'
  BY <1>4 DEF Apart, UnansweredKnown
<1>6. JobPayment' /\ JobAnswer'
  BY <1>1, <1>2, <1>3, <1>4 DEF JobPayment, JobAnswer
<1>7. JobKnowsOpen'
  <2>1. \A i \in Ids : Open(i) => i = id
    <3>1. \A i \in Ids : Open(i) => i \in Remembered(job.attempt)
      BY DEF Apart, JobKnowsOpen
    <3> QED
      BY <1>0, <3>1, OneRemembered
  <2> QED
    BY <1>2, <1>3, <1>4, <2>1 DEF JobKnowsOpen
<1>8. OpenHoldsProfile' /\ ChargeHoldsProfile'
  BY <1>2, <1>4 DEF Apart, OpenHoldsProfile, ChargeHoldsProfile
<1> QED
  BY <1>5, <1>6, <1>7, <1>8, JobSteps

\* A new payment is created only when no renewal is open.
LEMMA ChargeNew ==
  ASSUME IInv, Apart, job.at = "charge", Remembered(job.attempt) = {},
         NEW status \in {"pending", "succeeded", "canceled"}, NEW saved \in BOOLEAN,
         Charged(status, saved), UNCHANGED <<now, rows, profile, fingerprints, working>>
  PROVE  Apart'
<1> DEFINE payment == [order |-> job.attempt, status |-> status, saved |-> saved,
                      since |-> now]
<1>0. TypeOK /\ job.attempt \in Attempts /\ job \in Jobs
  BY DEF IInv, TypeOK, Jobs
<1>1. payment \in Payment
  BY <1>0 DEF TypeOK, Payment, Orders
<1>n. PICK n \in Nat : n = Len(yoo) + 1
  BY <1>0, Numbers
<1>2. n = Len(yoo') /\ Ids' = Ids \cup {n} /\ n \notin Ids
  BY <1>0, <1>1, <1>n, PaymentAppended, Numbers DEF Charged, Ids
<1>3. /\ \A i \in Ids : yoo'[i] = yoo[i] /\ i < n
      /\ yoo'[n] = payment
  BY <1>0, <1>1, <1>n, Numbers DEF Charged, TypeOK, Ids
<1>4. \A i \in Ids : ~Open(i)
  BY DEF Apart, JobKnowsOpen
<1>5. /\ job'.at = "record" /\ job'.id = n /\ job'.answer = status
      /\ job'.attempt = job.attempt
  <2>1. job' = [job EXCEPT !.at = "record", !.id = n, !.answer = status]
    BY <1>2 DEF Charged
  <2> QED
    BY <1>0, <2>1 DEF Jobs
<1>6. hooks' = IF status = "pending" THEN hooks ELSE hooks \cup {n}
  BY <1>2 DEF Charged
<1>7. /\ yoo'[n].order = job.attempt /\ yoo'[n].status = status /\ yoo'[n].since = now
  BY <1>3
<1>8. hooks \subseteq Ids /\ fingerprints \subseteq Ids /\ working \subseteq Ids
  BY <1>0 DEF TypeOK
<1>9. now \in Nat /\ Period \in Nat \ {0} /\ KeyLife \in Nat \ {0} /\ n \in Nat /\ Ids \subseteq Nat
      /\ now < now + KeyLife
  BY <1>0, Numbers
<1> HIDE DEF payment
<1>10. Renewals' = Renewals \cup {n}
  BY <1>0, <1>2, <1>3, <1>7 DEF Renewals
<1>11. \A i \in Ids : /\ Open(i)' = Open(i) /\ Unanswered(i)' = Unanswered(i)
                      /\ Alive(i)' = Alive(i) /\ Known(i)' = Known(i)
                      /\ KeyLives(i)' = KeyLives(i)
                      /\ i \in Renewals' <=> i \in Renewals
  BY <1>2, <1>3, <1>6, <1>10 DEF Open, Unanswered, Alive, Known, KeyLives
<1>12. KeyLives(n)' /\ Unanswered(n)'
  <2>1. CASE status = "pending"
    BY <1>7, <1>9, <2>1 DEF KeyLives, Unanswered
  <2>2. CASE status # "pending"
    BY <1>6, <1>7, <1>9, <2>2 DEF KeyLives, Unanswered
  <2> QED
    BY <2>1, <2>2
<1>13. \A i \in Ids' : yoo'[i].since <= now'
  BY <1>2, <1>3, <1>7, <1>9 DEF Apart
<1>14. HooksInOrder'
  <2>1. working' \subseteq hooks' /\ fingerprints' \cap hooks' \subseteq working'
    BY <1>2, <1>6, <1>8 DEF Apart, HooksInOrder
  <2>2. \A i \in Ids : yoo'[i].status = "pending" => i \notin hooks' \cup fingerprints'
    BY <1>2, <1>3, <1>6 DEF Apart, HooksInOrder
  <2>3. yoo'[n].status = "pending" => n \notin hooks' \cup fingerprints'
    BY <1>2, <1>6, <1>7, <1>8
  <2> QED
    BY <1>2, <2>1, <2>2, <2>3 DEF HooksInOrder
<1>15. KeysApart'
  <2>1. \A i \in Renewals : yoo[i].order = job.attempt => yoo[i].since + KeyLife <= now
    <3>1. \A i \in Ids : yoo[i].since \in Nat
      BY <1>0, PaymentFields
    <3>2. \A i \in Ids : yoo[i].order = job.attempt => ~(now < yoo[i].since + KeyLife)
      BY DEF Remembered
    <3> QED
      BY <1>9, <3>1, <3>2 DEF Renewals
  <2>2. \A i, j \in Renewals : i \in Ids /\ j \in Ids
    BY DEF Renewals
  <2>3. \A i \in Ids : ~(n < i)
    BY <1>3, <1>9
  <2> SUFFICES ASSUME NEW i \in Renewals', NEW j \in Renewals', i < j,
                      yoo'[i].order = yoo'[j].order
               PROVE  yoo'[i].since + KeyLife <= yoo'[j].since
    BY DEF KeysApart
  <2>4. i \in Renewals /\ i \in Ids
    <3>1. j = n \/ j \in Ids
      BY <1>10, <2>2
    <3>2. ASSUME i = n PROVE FALSE
      <4>1. CASE j = n
        BY <1>n, <3>2, <4>1
      <4>2. CASE j \in Ids
        BY <2>3, <3>2, <4>2
      <4> QED
        BY <3>1, <4>1, <4>2
    <3> QED
      BY <1>10, <2>2, <3>2
  <2>5. CASE j = n
    BY <1>3, <1>7, <2>1, <2>4, <2>5
  <2>6. CASE j \in Renewals
    BY <1>3, <2>2, <2>4, <2>6 DEF Apart, KeysApart
  <2> QED
    BY <1>10, <2>5, <2>6
<1>16. UnansweredKnown'
  BY <1>5, <1>10, <1>11, <1>12 DEF Apart, UnansweredKnown, Renewals
<1>17. OneOpen'
  BY <1>2, <1>4, <1>11 DEF OneOpen
<1>18. PeriodsApart'
  <2>1. \A i \in Renewals : Alive(i) => yoo[i].since + Period <= now
    <3>1. \A i \in Ids : yoo[i].since \in Nat
      BY <1>0, PaymentFields
    <3> QED
      BY <1>4, <1>9, <3>1 DEF Open, Renewals
  <2>2. \A i, j \in Renewals : i \in Ids /\ j \in Ids
    BY DEF Renewals
  <2>3. \A i \in Ids : ~(n < i)
    BY <1>3, <1>9
  <2> SUFFICES ASSUME NEW i \in Renewals', NEW j \in Renewals', i < j, Alive(i)', Alive(j)'
               PROVE  yoo'[i].since + Period <= yoo'[j].since
    BY DEF PeriodsApart
  <2>4. i \in Renewals /\ i \in Ids
    <3>1. j = n \/ j \in Ids
      BY <1>10, <2>2
    <3>2. ASSUME i = n PROVE FALSE
      <4>1. CASE j = n
        BY <1>n, <3>2, <4>1
      <4>2. CASE j \in Ids
        BY <2>3, <3>2, <4>2
      <4> QED
        BY <3>1, <4>1, <4>2
    <3> QED
      BY <1>10, <2>2, <3>2
  <2>5. CASE j = n
    BY <1>3, <1>7, <1>11, <2>1, <2>4, <2>5
  <2>6. CASE j \in Renewals
    BY <1>3, <1>11, <2>2, <2>4, <2>6 DEF Apart, PeriodsApart
  <2> QED
    BY <1>10, <2>5, <2>6
<1>19. JobPayment' /\ JobAnswer'
  BY <1>5, <1>7, <1>10, <1>12 DEF JobPayment, JobAnswer
<1>20. JobKnowsOpen'
  BY <1>2, <1>4, <1>5, <1>11 DEF JobKnowsOpen
<1>21. ChargeHoldsProfile'
  BY <1>5 DEF ChargeHoldsProfile
<1>22. OpenHoldsProfile'
  <2>1. \/ profile.status = "processing" /\ profile.retry + 1 = job.attempt
        \/ NotDueBefore(now + Period)
    BY DEF Apart, ChargeHoldsProfile
  <2>2. CASE profile.status = "processing" /\ profile.retry + 1 = job.attempt
    BY <1>2, <1>4, <1>7, <1>11, <1>12, <2>2 DEF OpenHoldsProfile
  <2>3. CASE NotDueBefore(now + Period)
    <3>1. profile.next \in Nat
      BY <1>0 DEF TypeOK, Profile
    <3>2. NotDueBefore(now + 1)
      BY <1>9, <2>3, <3>1 DEF NotDueBefore
    <3>3. NotDueBefore(now + 1)' /\ NotDueBefore(now + Period)'
      BY <2>3, <3>2 DEF NotDueBefore
    <3> QED
      BY <1>2, <1>4, <1>7, <1>11, <3>3 DEF OpenHoldsProfile
  <2> QED
    BY <2>1, <2>2, <2>3
<1> QED
  BY <1>13, <1>14, <1>15, <1>16, <1>17, <1>18, <1>19, <1>20, <1>21, <1>22 DEF Apart

LEMMA ChargeApart ==
  ASSUME IInv, Apart, Charge
  PROVE  Apart'
<1>1. CASE \E id \in Remembered(job.attempt) :
             /\ job' = [job EXCEPT !.at = "record", !.id = id, !.answer = yoo[id].status]
             /\ UNCHANGED <<yoo, hooks>>
  BY <1>1, ChargeAgain DEF Charge, hookVars
<1>2. CASE /\ Remembered(job.attempt) = {}
           /\ \E status \in {"pending", "succeeded", "canceled"}, saved \in BOOLEAN :
                Charged(status, saved)
  BY <1>2, ChargeNew DEF Charge
<1> QED
  BY <1>1, <1>2 DEF Charge

\* A charge is refused when nothing is open.
LEMMA RefusedApart ==
  ASSUME IInv, Apart, ChargeRefused, faults' = faults
  PROVE  Apart'
<1>1. UNCHANGED <<now, yoo, rows, profile, hookVars>> /\ job.at = "charge"
  BY DEF ChargeRefused, bookVars
<1>2. Remembered(job.attempt) = {}
  BY DEF ChargeRefused, Fault, IInv, TypeOK
<1>3. job'.at = "conclude" /\ job'.answer = "error"
  BY <1>1 DEF ChargeRefused, IInv, TypeOK, Jobs, Apart, JobAnswer
<1>4. \A i \in Ids : ~Open(i)
  BY <1>1, <1>2 DEF Apart, JobKnowsOpen
<1>5. /\ Ids' = Ids /\ Renewals' = Renewals
      /\ \A i : /\ Open(i)' = Open(i) /\ Unanswered(i)' = Unanswered(i)
                /\ Known(i)' = Known(i) /\ KeyLives(i)' = KeyLives(i)
  BY <1>1 DEF Ids, Renewals, Open, Alive, Unanswered, Known, KeyLives, hookVars
<1>6. UnansweredKnown'
  BY <1>1, <1>5 DEF Apart, UnansweredKnown
<1>7. JobPayment' /\ JobAnswer'
  BY <1>3 DEF JobPayment, JobAnswer
<1>8. JobKnowsOpen' /\ OpenHoldsProfile' /\ ChargeHoldsProfile'
  BY <1>3, <1>4, <1>5 DEF JobKnowsOpen, OpenHoldsProfile, ChargeHoldsProfile
<1> QED
  BY <1>1, <1>6, <1>7, <1>8, JobSteps

\* The table gets the id of the payment YooKassa remembers for the order.
LEMMA RecordApart ==
  ASSUME IInv, IInv', Apart, Record
  PROVE  Apart'
<1>0. TypeOK /\ job \in Jobs /\ job.attempt \in Attempts
  BY DEF IInv, TypeOK, Jobs
<1>1. UNCHANGED <<now, yoo, profile, hookVars>> /\ job.at = "record"
      /\ rows' = [rows EXCEPT ![job.attempt] = job.id]
  BY DEF Record
<1>2. /\ job.id \in Renewals /\ job.id \in Ids /\ yoo[job.id].order = job.attempt
      /\ KeyLives(job.id)
  BY <1>1 DEF Apart, JobPayment, JobAnswer, Renewals
<1>3. job.attempt \in DOMAIN rows
  BY <1>0 DEF TypeOK, Orders
<1>4. /\ Ids' = Ids /\ Renewals' = Renewals
      /\ \A i : /\ Open(i)' = Open(i) /\ Unanswered(i)' = Unanswered(i) /\ Alive(i)' = Alive(i)
                /\ KeyLives(i)' = KeyLives(i)
      /\ \A t : NotDueBefore(t)' = NotDueBefore(t)
  BY <1>1 DEF Ids, Renewals, Open, Alive, Unanswered, KeyLives, NotDueBefore, hookVars
<1>5. \/ job'.at = "idle" /\ job.answer = "pending"
      \/ job'.at = "conclude" /\ job.answer # "pending" /\ job'.answer = job.answer
         /\ job'.id = job.id /\ job'.attempt = job.attempt
  <2>1. CASE job.answer = "pending"
    BY <2>1, IdleJob DEF Record
  <2>2. CASE job.answer # "pending"
    BY <1>0, <2>2 DEF Record, Jobs
  <2> QED
    BY <2>1, <2>2
<1>6. UnansweredKnown'
  <2> SUFFICES ASSUME NEW i \in Renewals, Unanswered(i)
               PROVE  KeyLives(i) /\ Known(i)'
    BY <1>4 DEF UnansweredKnown
  <2>1. KeyLives(i) /\ (Known(i) \/ i = job.id)
    BY DEF Apart, UnansweredKnown
  <2>2. CASE yoo[i].order = job.attempt
    <3>1. i \in Remembered(job.attempt) /\ job.id \in Remembered(job.attempt)
      BY <1>2, <2>1, <2>2 DEF Remembered, KeyLives, Renewals
    <3>2. i = job.id
      BY <1>0, <3>1, OneRemembered
    <3> QED
      BY <1>1, <1>3, <2>1, <2>2, <3>2 DEF Known
  <2>3. CASE yoo[i].order # job.attempt
    <3>1. Known(i)
      BY <1>2, <2>1, <2>3
    <3> QED
      BY <1>1, <2>1, <2>3, <3>1 DEF Known
  <2> QED
    BY <2>2, <2>3
<1>7. JobPayment'
  BY <1>1, <1>4, <1>5 DEF Apart, JobPayment
<1>8. JobAnswer'
  BY <1>5 DEF JobAnswer
<1>9. JobKnowsOpen'
  BY <1>1, <1>4, <1>5 DEF Apart, JobKnowsOpen
<1>10. OpenHoldsProfile' /\ ChargeHoldsProfile'
  BY <1>1, <1>4, <1>5 DEF Apart, OpenHoldsProfile, ChargeHoldsProfile
<1> QED
  BY <1>1, <1>6, <1>7, <1>8, <1>9, <1>10, JobSteps

\* A failure is written when nothing is open, or what is open has failed.
LEMMA ConcludeApart ==
  ASSUME IInv, IInv', Apart, Conclude
  PROVE  Apart'
<1>0. TypeOK /\ job \in Jobs /\ job.attempt \in Attempts
  BY DEF IInv, TypeOK, Jobs
<1>1. UNCHANGED <<now, yoo, rows, hookVars>> /\ job.at = "conclude" /\ job' = Idle
      /\ UNCHANGED bookVars
  BY DEF Conclude, bookVars
<1>2. job'.at = "idle"
  BY <1>1, IdleJob
<1>3. /\ Ids' = Ids /\ Renewals' = Renewals
      /\ \A i : /\ Open(i)' = Open(i) /\ Unanswered(i)' = Unanswered(i) /\ Alive(i)' = Alive(i)
                /\ KeyLives(i)' = KeyLives(i) /\ Known(i)' = Known(i)
  BY <1>1 DEF Ids, Renewals, Open, Alive, Unanswered, KeyLives, Known, hookVars
<1>4. UnansweredKnown' /\ JobPayment' /\ JobAnswer' /\ JobKnowsOpen' /\ ChargeHoldsProfile'
  BY <1>1, <1>2, <1>3 DEF Apart, UnansweredKnown, JobPayment, JobAnswer, JobKnowsOpen,
                          ChargeHoldsProfile
<1>5. OpenHoldsProfile'
  <2>1. CASE job.answer = "succeeded"
    <3>1. PaymentSucceeded(job.id) /\ job.id \in Ids
      BY <1>1, <2>1 DEF Conclude, IInv, JobHasPayment
    <3>2. NotDueBefore(now + Period)'
      BY <1>0, <1>1, <3>1, PaidNotDue
    <3> QED
      BY <1>1, <3>2, NotDue
  <2>2. CASE job.answer # "succeeded"
    <3>1. PaymentFailed(job.attempt)
      BY <2>2 DEF Conclude
    <3>2. NotDueBefore(now + 1)'
      BY <1>0, <1>1, <3>1, FailedNotDue
    <3>3. \A i \in Ids : Open(i) => ~Alive(i)
      <4>1. job.answer # "pending"
        BY <1>1 DEF Apart, JobAnswer
      <4>2. job.answer # "error" => yoo[job.id].status = "canceled"
        BY <1>0, <1>1, <2>2, <4>1 DEF Apart, JobPayment, Jobs
      <4> QED
        BY <1>1, <4>2 DEF Apart, JobKnowsOpen, Alive
    <3> QED
      BY <1>3, <3>2, <3>3 DEF OpenHoldsProfile
  <2> QED
    BY <2>1, <2>2
<1> QED
  BY <1>1, <1>4, <1>5, JobSteps

------------------------------------------------------------------------------
(* YooKassa, the checkouts and the clock.                                    *)

LEMMA SettleApart ==
  ASSUME IInv, Apart, NEW id \in 1 .. MaxPayments, Settle(id)
  PROVE  Apart'
<1>0. TypeOK /\ id \in Ids /\ yoo[id].status = "pending"
  BY DEF IInv, Settle
<1>1. PICK status \in {"succeeded", "canceled"} : yoo' = [yoo EXCEPT ![id].status = status]
  BY DEF Settle
<1>2. UNCHANGED <<now, rows, profile, job, fingerprints, working>> /\ hooks' = hooks \cup {id}
  BY DEF Settle
<1>3. yoo \in Seq(Payment) /\ yoo[id] \in Payment /\ Len(yoo) \in Nat
  BY <1>0 DEF TypeOK, Ids
<1>4. Len(yoo') = Len(yoo) /\ Ids' = Ids
  <2>1. [yoo[id] EXCEPT !.status = status] \in Payment
    BY <1>3 DEF Payment
  <2>2. Len(yoo') = Len(yoo)
    BY <1>0, <1>1, <1>3, <2>1 DEF Ids
  <2> QED
    BY <2>2 DEF Ids
<1>5. \A i \in Ids : /\ i # id => yoo'[i] = yoo[i]
                     /\ yoo'[i].since = yoo[i].since /\ yoo'[i].order = yoo[i].order
  <2>1. \A i \in Ids : i \in DOMAIN yoo /\ yoo[i] \in Payment
    BY <1>3 DEF Ids
  <2> QED
    BY <1>1, <2>1 DEF Payment
<1>6. yoo'[id].status = status
  BY <1>0, <1>1, <1>3 DEF Payment, Ids
<1>7. Renewals' = Renewals
  BY <1>4, <1>5 DEF Renewals
<1>8. now \in Nat /\ Period \in Nat /\ KeyLife \in Nat /\ KeyLife < Period /\ yoo[id].since \in Nat
  BY <1>0, Numbers, PaymentFields
<1>9. id \in Renewals => Open(id)
  <2>1. ASSUME id \in Renewals PROVE now < yoo[id].since + KeyLife
    BY <1>0, <2>1 DEF Apart, UnansweredKnown, Unanswered, KeyLives
  <2> QED
    BY <1>0, <1>8, <2>1 DEF Open, Alive
<1>10. \A i \in Ids : /\ Open(i)' => Open(i)
                      /\ Unanswered(i)' = Unanswered(i)
                      /\ Alive(i)' => Alive(i)
                      /\ Known(i)' = Known(i) /\ KeyLives(i)' = KeyLives(i)
  <2> SUFFICES ASSUME NEW i \in Ids
               PROVE  /\ Open(i)' => Open(i)
                      /\ Unanswered(i)' = Unanswered(i)
                      /\ Alive(i)' => Alive(i)
                      /\ Known(i)' = Known(i) /\ KeyLives(i)' = KeyLives(i)
    OBVIOUS
  <2>1. Known(i)' = Known(i) /\ KeyLives(i)' = KeyLives(i)
    BY <1>2, <1>5 DEF Known, KeyLives
  <2>2. CASE i = id
    BY <1>0, <1>2, <1>7, <1>9, <2>1, <2>2 DEF Unanswered, Alive, Open
  <2>3. CASE i # id
    BY <1>2, <1>5, <1>7, <2>1, <2>3 DEF Unanswered, Alive, Open
  <2> QED
    BY <2>1, <2>2, <2>3
<1>11. \A o : Remembered(o)' = Remembered(o)
  BY <1>2, <1>4, <1>5 DEF Remembered
<1>12. \A i \in Ids' : yoo'[i].since <= now'
  BY <1>2, <1>4, <1>5 DEF Apart
<1>13. HooksInOrder'
  <2>1. working' \subseteq hooks' /\ fingerprints' \cap hooks' \subseteq working'
    BY <1>0, <1>2 DEF Apart, HooksInOrder
  <2>2. \A i \in Ids : yoo'[i].status = "pending" => i \notin hooks' \cup fingerprints'
    BY <1>2, <1>5, <1>6 DEF Apart, HooksInOrder
  <2> QED
    BY <1>4, <2>1, <2>2 DEF HooksInOrder
<1>14. KeysApart' /\ PeriodsApart'
  BY <1>5, <1>7, <1>10 DEF Apart, KeysApart, PeriodsApart, Renewals
<1>15. UnansweredKnown'
  BY <1>2, <1>7, <1>10 DEF Apart, UnansweredKnown, Renewals
<1>16. OneOpen'
  BY <1>4, <1>10 DEF Apart, OneOpen
<1>17. JobPayment' /\ JobAnswer'
  <2>1. JobAnswer'
    BY <1>2 DEF Apart, JobAnswer
  <2>2. ASSUME job.at \in {"record", "conclude"}, job.answer # "error"
        PROVE  /\ job.id \in Renewals /\ yoo[job.id].order = job.attempt /\ KeyLives(job.id)
               /\ job.answer # "pending" => yoo[job.id].status = job.answer
    BY <2>2 DEF Apart, JobPayment
  <2>3. ASSUME job.at \in {"record", "conclude"}, job.answer # "error"
        PROVE  /\ job.id \in Renewals' /\ yoo'[job.id].order = job.attempt /\ KeyLives(job.id)'
               /\ job.answer # "pending" => yoo'[job.id].status = job.answer
    <3>1. job.id \in Ids
      BY <2>2, <2>3 DEF Renewals
    <3>2. job.answer # "pending" => job.id # id
      BY <1>0, <2>2, <2>3
    <3>3. KeyLives(job.id)'
      BY <1>2, <1>5, <2>2, <2>3, <3>1 DEF KeyLives
    <3> QED
      BY <1>5, <1>7, <2>2, <2>3, <3>1, <3>2, <3>3
  <2> QED
    BY <1>2, <2>1, <2>3 DEF JobPayment
<1>18. JobKnowsOpen'
  BY <1>2, <1>4, <1>10, <1>11 DEF Apart, JobKnowsOpen
<1>19. \A t : NotDueBefore(t)' = NotDueBefore(t)
  BY <1>2 DEF NotDueBefore
<1>20. OpenHoldsProfile'
  BY <1>2, <1>4, <1>5, <1>10, <1>19 DEF Apart, OpenHoldsProfile
<1>21. ChargeHoldsProfile'
  BY <1>2, <1>11, <1>19 DEF Apart, ChargeHoldsProfile
<1> QED
  BY <1>12, <1>13, <1>14, <1>15, <1>16, <1>17, <1>18, <1>20, <1>21 DEF Apart

\* A checkout is no renewal; one paid at once renews the profile, or withdraws it.
LEMMA CheckoutApart ==
  ASSUME IInv, IInv', Apart, NEW c \in Checkouts, Checkout(c) \/ CheckoutPaid(c)
  PROVE  Apart'
<1>0. TypeOK
  BY DEF IInv
<1>1. PICK payment \in Payment :
        yoo' = Append(yoo, payment) /\ payment.order = c /\ payment.since = 0
        /\ (payment.status = "pending" => UNCHANGED hooks)
  <2>1. \A status \in {"pending", "succeeded"}, saved \in BOOLEAN :
          [order |-> c, status |-> status, saved |-> saved, since |-> 0] \in Payment
    BY DEF Payment, Orders
  <2> QED
    BY <2>1 DEF Checkout, CheckoutPaid, hookVars
<1>2. /\ UNCHANGED <<now, fingerprints, working, job>> /\ rows' = [rows EXCEPT ![c] = Len(yoo')]
      /\ hooks \subseteq Ids /\ fingerprints \subseteq Ids /\ working \subseteq Ids
      /\ hooks' \in {hooks, hooks \cup {Len(yoo')}}
  BY <1>0 DEF Checkout, CheckoutPaid, TypeOK, hookVars
<1>n. PICK n \in Nat : n = Len(yoo) + 1
  BY <1>0, Numbers
<1>4. n = Len(yoo') /\ Ids' = Ids \cup {n} /\ n \notin Ids
  BY <1>0, <1>1, <1>n, PaymentAppended, Numbers DEF Checkout, CheckoutPaid, Ids
<1>5. /\ \A i \in Ids : yoo'[i] = yoo[i]
      /\ yoo'[n] = payment
  BY <1>0, <1>1, <1>n, Numbers DEF TypeOK, Ids
<1>6. yoo'[n].order = c /\ yoo'[n].since = 0
  BY <1>1, <1>5
<1>7. Renewals' = Renewals
  BY <1>4, <1>5, <1>6, OrdersApart DEF Renewals
<1>8. \A i \in Ids : /\ Open(i)' = Open(i) /\ Unanswered(i)' = Unanswered(i)
                     /\ Alive(i)' = Alive(i) /\ KeyLives(i)' = KeyLives(i)
  <2>1. \A i \in Ids : i \in hooks' <=> i \in hooks
    BY <1>2, <1>4
  <2> QED
    BY <1>2, <1>5, <1>7, <2>1 DEF Open, Unanswered, Alive, KeyLives
<1>9. \A i \in Renewals : i \in Ids /\ Known(i)' = Known(i)
  BY <1>2, <1>5, OrdersApart DEF Known, Renewals
<1>10. ~Open(n)'
  BY <1>4, <1>7 DEF Open, Renewals
<1>11. \A o \in Attempts : Remembered(o)' = Remembered(o)
  BY <1>2, <1>4, <1>5, <1>6, OrdersApart DEF Remembered
<1>12. job.attempt \in Attempts /\ now \in Nat
  BY <1>0, Numbers DEF TypeOK, Jobs
<1>13. \A i \in Ids' : yoo'[i].since <= now'
  BY <1>2, <1>4, <1>5, <1>6, <1>12 DEF Apart
<1>14. HooksInOrder'
  <2>1. n \notin fingerprints' /\ (yoo'[n].status = "pending" => n \notin hooks')
    BY <1>1, <1>2, <1>4, <1>5
  <2> QED
    BY <1>2, <1>4, <1>5, <2>1 DEF Apart, HooksInOrder
<1>15. KeysApart' /\ PeriodsApart'
  BY <1>5, <1>7, <1>8, <1>9 DEF Apart, KeysApart, PeriodsApart
<1>16. UnansweredKnown'
  BY <1>2, <1>7, <1>8, <1>9 DEF Apart, UnansweredKnown
<1>17. OneOpen'
  BY <1>4, <1>8, <1>10 DEF Apart, OneOpen
<1>18. JobPayment' /\ JobAnswer'
  BY <1>2, <1>5, <1>7, <1>8, <1>9 DEF Apart, JobPayment, JobAnswer
<1>19. JobKnowsOpen'
  BY <1>2, <1>4, <1>8, <1>10, <1>11, <1>12 DEF Apart, JobKnowsOpen
<1>20. OpenHoldsProfile' /\ ChargeHoldsProfile'
  <2>1. CASE UNCHANGED profile
    <3>1. \A t : NotDueBefore(t)' = NotDueBefore(t)
      BY <2>1 DEF NotDueBefore
    <3>2. OpenHoldsProfile'
      BY <1>2, <1>4, <1>5, <1>8, <1>10, <2>1, <3>1 DEF Apart, OpenHoldsProfile
    <3>3. ChargeHoldsProfile'
      BY <1>2, <1>11, <1>12, <2>1, <3>1 DEF Apart, ChargeHoldsProfile
    <3> QED
      BY <3>2, <3>3
  <2>2. CASE CheckoutPaid(c)
    <3>1. profile' = Renewed(profile, FALSE) \/ profile' = Disabled(profile)
      BY <2>2 DEF CheckoutPaid
    <3>2. NotDueBefore(now + Period)'
      BY <1>0, <1>2, <3>1, WrittenNotDue
    <3> QED
      BY <1>2, <1>4, <1>5, <1>10, <3>2, RowNotDue
  <2> QED
    BY <2>1, <2>2 DEF Checkout
<1> QED
  BY <1>13, <1>14, <1>15, <1>16, <1>17, <1>18, <1>19, <1>20 DEF Apart

\* The clock moves while nothing is at work: every webhook is answered.
LEMMA TickApart ==
  ASSUME IInv, Apart, Tick, faults' = faults
  PROVE  Apart'
<1>0. TypeOK /\ now \in Nat /\ Period \in Nat \ {0} /\ KeyLife \in Nat \ {0}
  BY Numbers DEF IInv
<1>1. /\ UNCHANGED <<yoo, rows, profile, hookVars, job>> /\ now' = now + 1
      /\ \A i \in Ids : yoo[i].status = "pending" /\ yoo[i].order \in Attempts
                          => now + 1 < yoo[i].since + KeyLife
      /\ ~Busy
  BY <1>0 DEF Tick, Fault, TypeOK
<1>2. job.at = "idle"
  BY <1>1 DEF Busy
<1>3. \A i \in Renewals : i \notin hooks
  BY <1>1, <1>2 DEF Busy, Apart, UnansweredKnown, Unanswered
<1>4. Ids' = Ids /\ Renewals' = Renewals
  BY <1>1 DEF Ids, Renewals
<1>5. \A i \in Ids : yoo[i].since \in Nat
  BY <1>0, PaymentFields
<1>6. \A i \in Ids : /\ Open(i)' => /\ Open(i) /\ Alive(i)
                                    /\ now + 1 < yoo[i].since + Period
                     /\ Unanswered(i)' = Unanswered(i) /\ Alive(i)' = Alive(i)
                     /\ Known(i)' = Known(i)
  <2> SUFFICES ASSUME NEW i \in Ids
               PROVE  /\ Open(i)' => /\ Open(i) /\ Alive(i)
                                     /\ now + 1 < yoo[i].since + Period
                      /\ Unanswered(i)' = Unanswered(i) /\ Alive(i)' = Alive(i)
                      /\ Known(i)' = Known(i)
    OBVIOUS
  <2>1. Unanswered(i)' = Unanswered(i) /\ Alive(i)' = Alive(i) /\ Known(i)' = Known(i)
    BY <1>1 DEF Unanswered, Alive, Known, hookVars
  <2>2. ASSUME Open(i)' PROVE i \in Renewals /\ Alive(i) /\ now + 1 < yoo[i].since + Period
    BY <1>1, <1>3, <1>4, <2>1, <2>2 DEF Open, hookVars
  <2>3. now + 1 < yoo[i].since + Period => now < yoo[i].since + Period
    BY <1>0, <1>5
  <2> QED
    BY <2>1, <2>2, <2>3 DEF Open
<1>7. \A i \in Ids' : yoo'[i].since <= now'
  BY <1>0, <1>1, <1>4, <1>5 DEF Apart
<1>8. HooksInOrder' /\ KeysApart'
  BY <1>1, <1>4 DEF Apart, HooksInOrder, KeysApart, hookVars
<1>9. UnansweredKnown'
  <2> SUFFICES ASSUME NEW i \in Renewals, Unanswered(i)
               PROVE  KeyLives(i)' /\ Known(i)
    BY <1>4, <1>6 DEF UnansweredKnown, Renewals
  <2>1. yoo[i].status = "pending"
    BY <1>3 DEF Unanswered
  <2>2. KeyLives(i)'
    BY <1>1, <2>1 DEF Renewals, KeyLives
  <2> QED
    BY <1>2, <2>2 DEF Apart, UnansweredKnown
<1>10. OneOpen'
  BY <1>4, <1>6 DEF Apart, OneOpen
<1>11. PeriodsApart'
  BY <1>1, <1>4, <1>6 DEF Apart, PeriodsApart, Renewals
<1>12. JobPayment' /\ JobAnswer' /\ JobKnowsOpen' /\ ChargeHoldsProfile'
  BY <1>1, <1>2 DEF JobPayment, JobAnswer, JobKnowsOpen, ChargeHoldsProfile
<1>13. OpenHoldsProfile'
  <2>1. profile.next \in Nat
    BY <1>0 DEF TypeOK, Profile
  <2> SUFFICES ASSUME NEW i \in Ids, Open(i)', ~(/\ profile.status = "processing"
                                                 /\ profile.retry + 1 = yoo[i].order
                                                 /\ Unanswered(i))
               PROVE  NotDueBefore(now + 1)' /\ NotDueBefore(yoo[i].since + Period)'
    BY <1>1, <1>4, <1>6 DEF OpenHoldsProfile
  <2>2. NotDueBefore(yoo[i].since + Period)
    BY <1>6 DEF Apart, OpenHoldsProfile
  <2>3. yoo[i].since \in Nat /\ now + 1 < yoo[i].since + Period
    BY <1>5, <1>6
  <2>4. NotDueBefore(yoo[i].since + Period)'
    BY <1>1, <2>2 DEF NotDueBefore
  <2>5. NotDueBefore(now + 1)'
    BY <1>0, <1>1, <2>1, <2>2, <2>3 DEF NotDueBefore
  <2> QED
    BY <2>4, <2>5
<1> QED
  BY <1>7, <1>8, <1>9, <1>10, <1>11, <1>12, <1>13 DEF Apart

------------------------------------------------------------------------------
(* The theorem.                                                              *)

LEMMA InitApart == Init => Apart
<1> SUFFICES ASSUME Init PROVE Apart
  OBVIOUS
<1>1. Ids = {} /\ Renewals = {} /\ \A i : ~Open(i)
  BY DEF Init, Ids, Renewals, Open
<1>2. job.at = "idle" /\ hooks = {} /\ working = {}
  BY IdleJob DEF Init
<1> QED
  BY <1>1, <1>2 DEF Apart, HooksInOrder, KeysApart, UnansweredKnown, OneOpen, PeriodsApart,
       JobPayment, JobAnswer, JobKnowsOpen, OpenHoldsProfile, ChargeHoldsProfile

LEMMA UnchangedApart == Apart /\ UNCHANGED vars => Apart'
BY DEF vars, bookVars, hookVars, Apart, HooksInOrder, KeysApart, UnansweredKnown, OneOpen,
       PeriodsApart, JobPayment, JobAnswer, JobKnowsOpen, OpenHoldsProfile, ChargeHoldsProfile,
       Ids, Renewals, Open, Alive, Unanswered, Known, KeyLives, Remembered, NotDueBefore

\* A fault ends what the invariant says.
LEMMA NextApart == RenewalInv /\ IInv /\ IInv' /\ [Next]_vars => RenewalInv'
<1> SUFFICES ASSUME RenewalInv, IInv, IInv', [Next]_vars, faults' = 0 PROVE Apart'
  BY DEF RenewalInv
<1>0. faults \in Nat
  BY BillingAssumption DEF IInv, TypeOK
<1>1. ~Fault
  BY <1>0 DEF Fault
<1>2. CASE UNCHANGED vars
  BY <1>2, UnchangedApart DEF vars, RenewalInv
<1>3. CASE Next
  <2>1. faults = 0
    BY <1>0, <1>3, <1>1 DEF Next, Checkout, CheckoutPaid, DisableAutoRenew, SubscriptionActivated, Scheduler,
       LockDueRenewals, Charge, ChargeRefused, ChargeLost, Record, Conclude, ChargeStops,
       Settle, Hook, HookArrives, HookDuplicated, HookApplied, HookRejected, HookStops,
       LockExpiredGrace, SuspendExpiredGrace, SuspendFails, Crash, Tick
  <2>2. Apart
    BY <2>1 DEF RenewalInv
  <2>3. ASSUME NEW c \in Checkouts, Checkout(c) \/ CheckoutPaid(c) PROVE Apart'
    BY <2>2, <2>3, CheckoutApart
  <2>4. CASE Scheduler
    BY <1>1, <2>1, <2>2, <2>4, LockApart, ChargeApart, RefusedApart, RecordApart, ConcludeApart
       DEF Scheduler, ChargeLost, ChargeStops
  <2>5. ASSUME NEW id \in 1 .. MaxPayments, Settle(id) \/ Hook(id) PROVE Apart'
    BY <1>1, <2>2, <2>5, SettleApart, HookMarked, HookAppliedApart
       DEF Hook, HookDuplicated, HookStops
  <2>6. CASE DisableAutoRenew \/ SubscriptionActivated \/ LockExpiredGrace \/ SuspendExpiredGrace
    BY <1>1, <2>2, <2>6, ProfileStep
  <2>7. CASE Tick
    BY <2>1, <2>2, <2>7, TickApart
  <2> QED
    BY <1>1, <1>3, <2>3, <2>4, <2>5, <2>6, <2>7 DEF Next, SuspendFails, Crash
<1> QED
  BY <1>2, <1>3

\* While nothing fails, YooKassa takes the money of one renewal a period, whatever the
\* webhooks, the checkouts, the user and the subscription service do meanwhile.
THEOREM OneRenewal == Spec => []OneRenewalAPeriod
<1>1. Init => RenewalInv
  BY InitApart DEF RenewalInv
<1>2. RenewalInv /\ IInv /\ IInv' /\ [Next]_vars => RenewalInv'
  BY NextApart
<1>3. RenewalInv => OneRenewalAPeriod
  BY DEF RenewalInv, OneRenewalAPeriod, Apart, PeriodsApart, Renewals, Alive
<1> QED
  BY <1>1, <1>2, <1>3, Invariance, PTL DEF Spec

=============================================================================
