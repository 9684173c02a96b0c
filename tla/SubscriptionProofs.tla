-------------------------- MODULE SubscriptionProofs --------------------------
(***************************************************************************)
(* Theorems about Subscription, for any messages, order of the topics,      *)
(* durations, margins and bounds: whatever the two consumers, the sweep and *)
(* the clock do in between, and however often a message comes again.        *)
(*                                                                          *)
(* Each transaction is a function of the row it locks.  A lemma per         *)
(* transaction says what it may do to any row; the theorems follow from     *)
(* that, because the locked read leaves the row alone or ends it.           *)
(* NoTimeForFree adds up the ledger of granted time.  AccessPromise and      *)
(* ImplementsPromise say that the subscription is one of those the           *)
(* orchestrator is modelled for (SubscriptionPromise, Access).               *)
(***************************************************************************)
EXTENDS Subscription, TLAPS, FiniteSetTheorems

\* A row that keeps or moves its term and counts its revisions.
Moves(r, t) ==
  /\ t \in Row
  /\ t.expires < r.expires => t.status = "expired"
  /\ t.rev >= r.rev
  /\ t.expires # r.expires => t.rev > r.rev
  /\ r.status \in Live /\ t.status = "expired" => t.rev > r.rev

\* A row whose renewal and end do not come to contradict each other.
Renews(r, t) == ~(r.autoRenew /\ r.cancelAtEnd) => ~(t.autoRenew /\ t.cancelAtEnd)

------------------------------------------------------------------------------
(* The transactions.                                                         *)

\* A new revision allows a transaction anything but a shorter term.
LEMMA NewRevision ==
  ASSUME NEW r \in Row, NEW t \in Row, t.rev = r.rev + 1,
         t.status = "expired" \/ t.expires >= r.expires
  PROVE  Moves(r, t)
<1>1. r.rev \in Nat /\ r.expires \in Nat /\ t.expires \in Nat
  BY DEF Row
<1> QED
  BY <1>1 DEF Moves

\* Without one it may not touch the term, nor end the row.
LEMMA SameRevision ==
  ASSUME NEW r \in Row, NEW t \in Row, t.rev = r.rev, t.expires = r.expires,
         t.status = r.status \/ t.status # "expired"
  PROVE  Moves(r, t)
<1>1. r.rev \in Nat /\ r.expires \in Nat
  BY DEF Row
<1> QED
  BY <1>1 DEF Moves, Live

\* The locked read leaves the row alone or ends it (expireIfNeededTx).
LEMMA ReadFacts ==
  ASSUME now \in Nat, NEW r \in Row
  PROVE  /\ Moves(r, Read(r)) /\ Read(r).expires = r.expires
         /\ ~Lapsed(r) => Read(r) = r
         /\ Lapsed(r) => Read(r).status = "expired" /\ Read(r).rev = r.rev + 1
<1>1. CASE Lapsed(r)
  <2> DEFINE v == r.rev + 1
  <2>1. v \in Nat
    BY DEF Row
  <2>2. Read(r) = [r EXCEPT !.status = "expired", !.autoRenew = FALSE,
                            !.cancelAtEnd = TRUE, !.rev = v]
    BY <1>1 DEF Read
  <2> HIDE DEF v
  <2>3. Read(r) \in Row
    BY <2>1, <2>2 DEF Row, Statuses
  <2>4. Read(r).status = "expired" /\ Read(r).rev = v /\ Read(r).expires = r.expires
    BY <2>2 DEF Row
  <2>5. Read(r).rev = r.rev + 1
    BY <2>4 DEF v
  <2> QED
    BY <1>1, <2>3, <2>4, <2>5, NewRevision
<1>2. CASE ~Lapsed(r)
  BY <1>2, SameRevision DEF Read
<1> QED
  BY <1>1, <1>2

\* It ends the renewal with the row.
LEMMA ReadRenewal ==
  ASSUME NEW r \in Row
  PROVE  Renews(r, Read(r)) /\ (Read(r) = r \/ Read(r).autoRenew = FALSE)
<1>1. CASE Lapsed(r)
  BY <1>1 DEF Read, Renews, Row
<1>2. CASE ~Lapsed(r)
  BY <1>2 DEF Read, Renews
<1> QED
  BY <1>1, <1>2

\* Extended moves a term ahead, and past the present.
LEMMA ExtendedFacts ==
  ASSUME now \in Nat, NEW r \in Row, NEW days \in Nat \ {0}
  PROVE  Extended(r, days) \in Nat /\ Extended(r, days) >= r.expires
         /\ Extended(r, days) > now
  BY DEF Extended, Row

\* MarkSuspendedTx ends any row, now or when it ended before.
LEMMA SuspendFacts ==
  ASSUME now \in Nat, NEW r \in Row
  PROVE  /\ Moves(r, MarkSuspendedTx(r)) /\ MarkSuspendedTx(r).status = "expired"
         /\ Renews(r, MarkSuspendedTx(r))
<1> DEFINE e == IF r.expires = 0 \/ r.expires > now THEN now ELSE r.expires
           v == r.rev + 1
           t == MarkSuspendedTx(r)
<1>1. e \in Nat /\ v \in Nat
  BY DEF Row
<1>2. t = [r EXCEPT !.status = "expired", !.expires = e, !.graceUntil = 0,
                    !.autoRenew = FALSE, !.cancelAtEnd = TRUE, !.rev = v]
  BY DEF MarkSuspendedTx
<1> HIDE DEF e, t
<1>3. t.rev = r.rev + 1 /\ t.status = "expired"
  BY <1>2 DEF Row
<1> HIDE DEF v
<1>4. t \in Row
  BY <1>1, <1>2 DEF Row, Statuses
<1>5. t.autoRenew = FALSE
  BY <1>2 DEF Row
<1> QED
  BY <1>3, <1>4, <1>5, NewRevision DEF Renews, t

\* StartTrialTx extends the term and keeps paid time paid.
LEMMA TrialFacts ==
  ASSUME now \in Nat, NEW r \in Row
  PROVE  /\ Moves(r, StartTrialTx(r)) /\ Renews(r, StartTrialTx(r))
         /\ r.status = "active" /\ r.expires > now => StartTrialTx(r).status = "active"
<1> DEFINE paid == r.status = "active" /\ r.expires > now
           s == IF paid THEN "active" ELSE "trial"
           e == Extended(r, TrialDays)
           a == paid /\ r.autoRenew
           c == paid /\ r.cancelAtEnd
           v == r.rev + 1
           t == StartTrialTx(r)
<1>1. e \in Nat /\ e >= r.expires
  BY ExtendedFacts, SubscriptionAssumption
<1>2. t = [r EXCEPT !.status = s, !.trialUsed = TRUE, !.expires = e, !.graceUntil = 0,
                    !.autoRenew = a, !.cancelAtEnd = c, !.rev = v]
  BY DEF StartTrialTx
<1>3. s \in Statuses /\ v \in Nat
  BY DEF Row, Statuses
<1>4. a \in BOOLEAN /\ c \in BOOLEAN
  BY DEF Row
<1>5. paid => s = "active"
  OBVIOUS
<1>6. a /\ c => r.autoRenew /\ r.cancelAtEnd
  OBVIOUS
<1>7. v = r.rev + 1
  OBVIOUS
<1> HIDE DEF s, e, a, c, v, t
<1>8. t \in Row
  BY <1>1, <1>2, <1>3, <1>4 DEF Row
<1>9. t.status = s /\ t.expires = e /\ t.rev = v
  BY <1>2 DEF Row
<1>10. t.autoRenew = a /\ t.cancelAtEnd = c
  BY <1>2 DEF Row
<1>11. Moves(r, t)
  BY <1>1, <1>7, <1>8, <1>9, NewRevision
<1>12. Renews(r, t)
  BY <1>6, <1>10 DEF Renews
<1> QED
  BY <1>5, <1>9, <1>11, <1>12 DEF t

\* ActivatePaidTx extends the term; a renewing payment takes the end of the renewal back.
LEMMA ActivateFacts ==
  ASSUME now \in Nat, NEW r \in Row, NEW days \in Nat \ {0}, NEW auto \in BOOLEAN
  PROVE  /\ Moves(r, ActivatePaidTx(r, days, auto)) /\ Renews(r, ActivatePaidTx(r, days, auto))
         /\ ActivatePaidTx(r, days, auto).status = "active"
<1> DEFINE e == Extended(r, days)
           a == r.autoRenew \/ auto
           c == r.cancelAtEnd /\ ~auto
           v == r.rev + 1
           t == ActivatePaidTx(r, days, auto)
<1>1. e \in Nat /\ e >= r.expires
  BY ExtendedFacts
<1>2. t = [r EXCEPT !.status = "active", !.expires = e, !.graceUntil = 0,
                    !.autoRenew = a, !.cancelAtEnd = c, !.rev = v]
  BY DEF ActivatePaidTx
<1>3. v \in Nat
  BY DEF Row
<1>4. a \in BOOLEAN /\ c \in BOOLEAN
  OBVIOUS
<1>5. a /\ c => r.autoRenew /\ r.cancelAtEnd
  OBVIOUS
<1>6. v = r.rev + 1
  OBVIOUS
<1> HIDE DEF e, a, c, v, t
<1>7. t \in Row
  BY <1>1, <1>2, <1>3, <1>4 DEF Row, Statuses
<1>8. t.status = "active" /\ t.expires = e /\ t.rev = v
  BY <1>2 DEF Row
<1>9. t.autoRenew = a /\ t.cancelAtEnd = c
  BY <1>2 DEF Row
<1>10. Moves(r, t)
  BY <1>1, <1>6, <1>7, <1>8, NewRevision
<1>11. Renews(r, t)
  BY <1>5, <1>9 DEF Renews
<1> QED
  BY <1>8, <1>10, <1>11 DEF t

\* RedeemReferralMonthsTx extends the term of any row.
LEMMA RedeemFacts ==
  ASSUME now \in Nat, NEW r \in Row, NEW days \in Nat \ {0}
  PROVE  /\ Moves(r, RedeemReferralMonthsTx(r, days))
         /\ Renews(r, RedeemReferralMonthsTx(r, days))
         /\ RedeemReferralMonthsTx(r, days).status # "expired"
         /\ r.status = "active" => RedeemReferralMonthsTx(r, days).status = "active"
<1> DEFINE e == Extended(r, days)
           s == IF r.status \in {"expired", "none"} THEN "active" ELSE r.status
           v == r.rev + 1
           t == RedeemReferralMonthsTx(r, days)
<1>1. e \in Nat /\ e >= r.expires
  BY ExtendedFacts
<1>2. t = [r EXCEPT !.status = s, !.expires = e, !.rev = v]
  BY DEF RedeemReferralMonthsTx
<1>3. v \in Nat /\ s \in Statuses /\ s # "expired" /\ (r.status = "active" => s = "active")
  BY DEF Row, Statuses
<1>4. v = r.rev + 1
  OBVIOUS
<1> HIDE DEF e, s, v, t
<1>5. t \in Row
  BY <1>1, <1>2, <1>3 DEF Row
<1>6. t.status = s /\ t.expires = e /\ t.rev = v
  BY <1>2 DEF Row
<1>7. t.autoRenew = r.autoRenew /\ t.cancelAtEnd = r.cancelAtEnd
  BY <1>2 DEF Row
<1>8. Moves(r, t)
  BY <1>1, <1>4, <1>5, <1>6, NewRevision
<1> QED
  BY <1>3, <1>6, <1>7, <1>8 DEF Renews, t

\* CancelTx of a live row ends a trial now and lets paid time run out.
LEMMA CancelFacts ==
  ASSUME now \in Nat, NEW r \in Row
  PROVE  /\ Moves(r, CancelTx(r)) /\ Renews(r, CancelTx(r))
         /\ r.status = "active" => CancelTx(r).status = "active"
<1> DEFINE v == r.rev + 1
           t == CancelTx(r)
<1>1. CASE r.status = "trial"
  <2>1. t = [r EXCEPT !.status = "expired", !.expires = now, !.graceUntil = 0,
                      !.autoRenew = FALSE, !.cancelAtEnd = TRUE, !.rev = v]
    BY <1>1 DEF CancelTx
  <2>2. v \in Nat /\ v = r.rev + 1
    BY DEF Row
  <2> HIDE DEF v, t
  <2>3. t \in Row
    BY <2>1, <2>2 DEF Row, Statuses
  <2>4. t.status = "expired" /\ t.rev = v
    BY <2>1 DEF Row
  <2>5. t.autoRenew = FALSE
    BY <2>1 DEF Row
  <2>6. Moves(r, t)
    BY <2>2, <2>3, <2>4, NewRevision
  <2> QED
    BY <1>1, <2>5, <2>6 DEF Renews, t
<1>2. CASE r.status # "trial"
  <2>1. t = [r EXCEPT !.autoRenew = FALSE, !.cancelAtEnd = TRUE]
    BY <1>2 DEF CancelTx
  <2> HIDE DEF t
  <2>2. t \in Row
    BY <2>1 DEF Row
  <2>3. t.status = r.status /\ t.rev = r.rev /\ t.expires = r.expires
    BY <2>1 DEF Row
  <2>4. t.autoRenew = FALSE
    BY <2>1 DEF Row
  <2>5. Moves(r, t)
    BY <2>2, <2>3, SameRevision
  <2> QED
    BY <2>3, <2>4, <2>5 DEF Renews, t
<1> QED
  BY <1>1, <1>2

\* MarkAutoRenewDisabledTx touches the renewal alone.
LEMMA DisableFacts ==
  ASSUME NEW r \in Row
  PROVE  /\ Moves(r, MarkAutoRenewDisabledTx(r)) /\ Renews(r, MarkAutoRenewDisabledTx(r))
         /\ MarkAutoRenewDisabledTx(r).status = r.status
         /\ MarkAutoRenewDisabledTx(r).expires = r.expires
<1> DEFINE c == r.cancelAtEnd \/ r.status \in {"active", "grace"}
           t == MarkAutoRenewDisabledTx(r)
<1>1. t = [r EXCEPT !.autoRenew = FALSE, !.cancelAtEnd = c]
  BY DEF MarkAutoRenewDisabledTx
<1>2. c \in BOOLEAN
  BY DEF Row
<1> HIDE DEF c, t
<1>3. t \in Row
  BY <1>1, <1>2 DEF Row
<1>4. t.status = r.status /\ t.rev = r.rev /\ t.expires = r.expires
  BY <1>1 DEF Row
<1>5. t.autoRenew = FALSE
  BY <1>1 DEF Row
<1>6. Moves(r, t)
  BY <1>3, <1>4, SameRevision
<1> QED
  BY <1>4, <1>5, <1>6 DEF Renews, t

\* MarkGraceStartedTx touches the status and the grace of paid rows alone.
LEMMA GraceFacts ==
  ASSUME NEW r \in Row, NEW until \in Nat
  PROVE  /\ Moves(r, MarkGraceStartedTx(r, until)) /\ Renews(r, MarkGraceStartedTx(r, until))
         /\ MarkGraceStartedTx(r, until).status = "grace" \/ MarkGraceStartedTx(r, until) = r
<1> DEFINE t == MarkGraceStartedTx(r, until)
<1>1. CASE r.status \in {"active", "grace"}
  <2>1. t = [r EXCEPT !.status = "grace", !.graceUntil = until]
    BY <1>1 DEF MarkGraceStartedTx
  <2> HIDE DEF t
  <2>2. t \in Row
    BY <2>1 DEF Row, Statuses
  <2>3. t.status = "grace" /\ t.rev = r.rev /\ t.expires = r.expires
    BY <2>1 DEF Row
  <2>4. t.autoRenew = r.autoRenew /\ t.cancelAtEnd = r.cancelAtEnd
    BY <2>1 DEF Row
  <2>5. Moves(r, t)
    BY <2>2, <2>3, SameRevision
  <2> QED
    BY <2>3, <2>4, <2>5 DEF Renews, t
<1>2. CASE r.status \notin {"active", "grace"}
  BY <1>2, SameRevision DEF MarkGraceStartedTx, Renews
<1> QED
  BY <1>1, <1>2

\* RotateSubscriptionTokenTx makes a revision.
LEMMA RotateFacts ==
  ASSUME NEW r \in Row
  PROVE  /\ Moves(r, [r EXCEPT !.rev = @ + 1]) /\ Renews(r, [r EXCEPT !.rev = @ + 1])
         /\ [r EXCEPT !.rev = @ + 1].status = r.status
         /\ [r EXCEPT !.rev = @ + 1].expires = r.expires
<1> DEFINE v == r.rev + 1
           t == [r EXCEPT !.rev = v]
<1>1. t = [r EXCEPT !.rev = v]
  OBVIOUS
<1>2. v \in Nat /\ v = r.rev + 1 /\ r.expires \in Nat
  BY DEF Row
<1> HIDE DEF v, t
<1>3. t \in Row
  BY <1>1, <1>2 DEF Row
<1>4. t.status = r.status /\ t.rev = v /\ t.expires = r.expires
  BY <1>1 DEF Row
<1>5. t.autoRenew = r.autoRenew /\ t.cancelAtEnd = r.cancelAtEnd
  BY <1>1 DEF Row
<1>6. Moves(r, t)
  BY <1>2, <1>3, <1>4, NewRevision
<1> QED
  BY <1>4, <1>5, <1>6 DEF Renews, t, v

\* A transaction on the row the locked read has left.
LEMMA AfterRead ==
  ASSUME now \in Nat, NEW r \in Row, NEW t, Moves(Read(r), t), Renews(Read(r), t)
  PROVE  Moves(r, t) /\ Renews(r, t)
<1>1. /\ Read(r).expires = r.expires /\ Read(r) \in Row
      /\ Read(r) = r \/ Read(r).rev = r.rev + 1
  BY ReadFacts DEF Moves
<1>2. /\ r.rev \in Nat /\ Read(r).rev \in Nat /\ r.expires \in Nat
      /\ t.rev \in Nat /\ t.expires \in Nat
  BY <1>1 DEF Row, Moves
<1>3. Moves(r, t)
  <2>1. CASE Read(r) = r
    BY <2>1
  <2>2. CASE Read(r).rev = r.rev + 1
    BY <1>1, <1>2, <2>2 DEF Moves
  <2> QED
    BY <1>1, <2>1, <2>2
<1>4. Renews(r, t)
  BY ReadRenewal DEF Renews
<1> QED
  BY <1>3, <1>4

\* A transaction followed by a read of its row.
LEMMA BeforeRead ==
  ASSUME now \in Nat, NEW r \in Row, NEW t, Moves(r, t), Renews(r, t)
  PROVE  Moves(r, Read(t)) /\ Renews(r, Read(t))
<1>0. t \in Row
  BY DEF Moves
<1>1. /\ t \in Row /\ Read(t).expires = t.expires /\ Read(t) \in Row
      /\ Read(t) = t \/ (Read(t).status = "expired" /\ Read(t).rev = t.rev + 1)
  <2>1. /\ Moves(t, Read(t)) /\ Read(t).expires = t.expires
        /\ ~Lapsed(t) => Read(t) = t
        /\ Lapsed(t) => Read(t).status = "expired" /\ Read(t).rev = t.rev + 1
    BY <1>0, ReadFacts
  <2>2. Read(t) \in Row
    BY <2>1 DEF Moves
  <2>3. Read(t) = t \/ (Read(t).status = "expired" /\ Read(t).rev = t.rev + 1)
    BY <2>1
  <2> QED
    BY <1>0, <2>1, <2>2, <2>3
<1>2. /\ r.rev \in Nat /\ Read(t).rev \in Nat /\ r.expires \in Nat
      /\ t.rev \in Nat /\ t.expires \in Nat
  BY <1>1 DEF Row
<1>3. Moves(r, Read(t))
  <2>1. CASE Read(t) = t
    BY <2>1
  <2>2. CASE Read(t).status = "expired" /\ Read(t).rev = t.rev + 1
    BY <1>1, <1>2, <2>2 DEF Moves
  <2> QED
    BY <1>1, <2>1, <2>2
<1>4. Renews(r, Read(t))
  BY <1>1, ReadRenewal DEF Renews
<1> QED
  BY <1>3, <1>4

------------------------------------------------------------------------------
(* Steps.                                                                    *)

\* Paid time that is left is no trial after the step.
PaidStays == sub.status = "active" /\ sub.expires > now => sub'.status # "trial"

\* What any step may do to the row.
RowStep == Moves(sub, sub') /\ Renews(sub, sub') /\ PaidStays

\* Paid time that is left is not lapsed.
LEMMA PaidNotLapsed ==
  ASSUME now \in Nat, NEW r \in Row, r.status = "active", r.expires > now
  PROVE  Read(r) = r
<1>1. r.expires \in Nat
  BY DEF Row
<1> QED
  BY <1>1 DEF Read, Lapsed

LEMMA SameRow ==
  ASSUME TypeOK, sub' = sub
  PROVE  RowStep
<1>1. Moves(sub, sub)
  BY SameRevision DEF TypeOK
<1> QED
  BY <1>1 DEF RowStep, Renews, PaidStays

LEMMA ReadStep ==
  ASSUME TypeOK, sub' = Read(sub)
  PROVE  RowStep
<1>1. Moves(sub, sub')
  BY ReadFacts DEF TypeOK
<1>2. Renews(sub, sub')
  BY ReadRenewal DEF TypeOK
<1>3. PaidStays
  BY PaidNotLapsed DEF PaidStays, TypeOK
<1> QED
  BY <1>1, <1>2, <1>3 DEF RowStep

LEMMA TrialStep ==
  ASSUME TypeOK, NEW m \in Messages, HandleStartTrial(m)
  PROVE  RowStep
<1>1. CASE sub' = Read(sub)
  BY <1>1, ReadStep
<1>2. CASE sub' = StartTrialTx(Read(sub))
  <2>1. sub \in Row /\ now \in Nat /\ Read(sub) \in Row
    BY ReadFacts DEF TypeOK, Moves
  <2>2. Moves(sub, sub') /\ Renews(sub, sub')
    BY <1>2, <2>1, TrialFacts, AfterRead
  <2>3. PaidStays
    BY <1>2, <2>1, TrialFacts, PaidNotLapsed DEF PaidStays
  <2> QED
    BY <2>2, <2>3 DEF RowStep
<1> QED
  BY <1>1, <1>2 DEF HandleStartTrial

LEMMA CancelStep ==
  ASSUME TypeOK, NEW m \in Messages, HandleCancel(m)
  PROVE  RowStep
<1>1. CASE sub' = Read(sub)
  BY <1>1, ReadStep
<1>2. CASE sub' = CancelTx(Read(sub))
  <2>1. sub \in Row /\ now \in Nat /\ Read(sub) \in Row
    BY ReadFacts DEF TypeOK, Moves
  <2>2. Moves(sub, sub') /\ Renews(sub, sub')
    BY <1>2, <2>1, CancelFacts, AfterRead
  <2>3. PaidStays
    BY <1>2, <2>1, CancelFacts, PaidNotLapsed DEF PaidStays
  <2> QED
    BY <2>2, <2>3 DEF RowStep
<1> QED
  BY <1>1, <1>2 DEF HandleCancel

LEMMA RedeemDays ==
  ASSUME TypeOK, FreeMonths > months
  PROVE  (FreeMonths - months) * MonthDays \in Nat \ {0} /\ FreeMonths \in Nat
<1>1. converted \in Nat /\ months \in Nat /\ UsersPerMonth \in Nat \ {0} /\ MonthDays \in Nat \ {0}
  BY SubscriptionAssumption DEF TypeOK
<1>2. FreeMonths \in Nat
  BY <1>1 DEF FreeMonths
<1>3. FreeMonths - months \in Nat \ {0}
  BY <1>1, <1>2
<1> QED
  BY <1>1, <1>2, <1>3

LEMMA RedeemStep ==
  ASSUME TypeOK, NEW m \in Messages, HandleReferralRedeem(m)
  PROVE  RowStep
<1>1. CASE FreeMonths > months
  <2> DEFINE days == (FreeMonths - months) * MonthDays
             t == RedeemReferralMonthsTx(sub, days)
  <2>1. days \in Nat \ {0} /\ sub \in Row /\ now \in Nat
    BY <1>1, RedeemDays DEF TypeOK
  <2>2. sub' = Read(t)
    BY <1>1 DEF HandleReferralRedeem
  <2> HIDE DEF days
  <2>3. Moves(sub, t) /\ Renews(sub, t) /\ (sub.status = "active" => t.status = "active")
    BY <2>1, RedeemFacts
  <2>4. t \in Row /\ (Read(t) = t \/ Read(t).status = "expired")
    BY <2>1, <2>3, ReadFacts DEF Moves
  <2> HIDE DEF t
  <2>5. Moves(sub, sub') /\ Renews(sub, sub')
    BY <2>1, <2>2, <2>3, BeforeRead
  <2>6. PaidStays
    BY <2>2, <2>3, <2>4 DEF PaidStays
  <2> QED
    BY <2>5, <2>6 DEF RowStep
<1>2. CASE ~(FreeMonths > months)
  BY <1>2, SameRow DEF HandleReferralRedeem
<1> QED
  BY <1>1, <1>2

LEMMA RotateStep ==
  ASSUME TypeOK, NEW m \in Messages, HandleRotateToken(m)
  PROVE  RowStep
<1>1. CASE sub' = Read(sub)
  BY <1>1, ReadStep
<1>2. CASE sub' = [Read(sub) EXCEPT !.rev = @ + 1]
  <2>1. sub \in Row /\ now \in Nat /\ Read(sub) \in Row
    BY ReadFacts DEF TypeOK, Moves
  <2>2. Moves(sub, sub') /\ Renews(sub, sub')
    BY <1>2, <2>1, RotateFacts, AfterRead
  <2>3. PaidStays
    BY <1>2, <2>1, RotateFacts, PaidNotLapsed DEF PaidStays
  <2> QED
    BY <2>2, <2>3 DEF RowStep
<1> QED
  BY <1>1, <1>2 DEF HandleRotateToken

\* What billing's events carry.
LEMMA OpTypes ==
  ASSUME NEW m \in Messages
  PROVE  /\ Op[m].kind = "pay" => /\ Op[m].payment \in Payments
                                  /\ Duration[Op[m].payment] \in Nat \ {0}
                                  /\ Op[m].auto \in BOOLEAN
         /\ Op[m].kind = "grace" => Op[m].until \in Nat
<1>1. Op[m] \in Commands \cup BillingEvents
  BY SubscriptionAssumption
<1>2. ASSUME Op[m].kind = "pay"
      PROVE  Op[m] \in [kind : {"pay"}, payment : Payments, auto : BOOLEAN]
  BY <1>1, <1>2 DEF Commands, BillingEvents
<1>3. ASSUME Op[m].kind = "grace"
      PROVE  Op[m] \in [kind : {"grace"}, until : Nat \ {0}]
  BY <1>1, <1>3 DEF Commands, BillingEvents
<1>4. ASSUME Op[m].kind = "pay"
      PROVE  Op[m].payment \in Payments /\ Op[m].auto \in BOOLEAN
  BY <1>2, <1>4
<1>5. ASSUME Op[m].kind = "pay"
      PROVE  Duration[Op[m].payment] \in Nat \ {0}
  BY <1>4, <1>5, SubscriptionAssumption
<1>6. ASSUME Op[m].kind = "grace"
      PROVE  Op[m].until \in Nat
  BY <1>3, <1>6
<1> QED
  BY <1>4, <1>5, <1>6

LEMMA PaymentStep ==
  ASSUME TypeOK, NEW m \in Messages, HandleBillingPaymentSucceeded(m)
  PROVE  RowStep
<1> DEFINE days == Duration[Op[m].payment]
           auto == Op[m].auto
<1>1. CASE sub' = Read(sub)
  BY <1>1, ReadStep
<1>2. CASE sub' = ActivatePaidTx(Read(sub), days, auto)
  <2>1. days \in Nat \ {0} /\ auto \in BOOLEAN
    BY OpTypes DEF HandleBillingPaymentSucceeded
  <2>2. sub \in Row /\ now \in Nat /\ Read(sub) \in Row
    BY ReadFacts DEF TypeOK, Moves
  <2> HIDE DEF days, auto
  <2>3. /\ Moves(Read(sub), sub') /\ Renews(Read(sub), sub')
        /\ sub'.status = "active"
    BY <1>2, <2>1, <2>2, ActivateFacts
  <2>4. Moves(sub, sub') /\ Renews(sub, sub')
    BY <2>2, <2>3, AfterRead
  <2> QED
    BY <2>3, <2>4 DEF RowStep, PaidStays
<1> QED
  BY <1>1, <1>2 DEF HandleBillingPaymentSucceeded

LEMMA RenewOffStep ==
  ASSUME TypeOK, NEW m \in Messages, HandleBillingAutoRenewDisabled(m)
  PROVE  RowStep
<1> DEFINE t == MarkAutoRenewDisabledTx(sub)
<1>1. sub \in Row /\ now \in Nat /\ sub' = Read(t)
  BY DEF TypeOK, HandleBillingAutoRenewDisabled
<1>2. Moves(sub, t) /\ Renews(sub, t) /\ t.status = sub.status
  BY <1>1, DisableFacts
<1> HIDE DEF t
<1>3. t \in Row
  BY <1>2 DEF Moves
<1>4. Read(t) = t \/ Read(t).status = "expired"
  BY <1>1, <1>3, ReadFacts
<1>5. Moves(sub, sub') /\ Renews(sub, sub')
  BY <1>1, <1>2, BeforeRead
<1> QED
  BY <1>1, <1>2, <1>4, <1>5 DEF RowStep, PaidStays

LEMMA GraceStep ==
  ASSUME TypeOK, NEW m \in Messages, HandleBillingGraceStarted(m)
  PROVE  RowStep
<1> DEFINE t == MarkGraceStartedTx(sub, Op[m].until)
<1>1. sub \in Row /\ now \in Nat /\ sub' = Read(t) /\ Op[m].until \in Nat
  BY OpTypes DEF TypeOK, HandleBillingGraceStarted
<1>2. Moves(sub, t) /\ Renews(sub, t) /\ (t.status = "grace" \/ t = sub)
  BY <1>1, GraceFacts
<1> HIDE DEF t
<1>3. t \in Row
  BY <1>2 DEF Moves
<1>4. Read(t) = t \/ Read(t).status = "expired"
  BY <1>1, <1>3, ReadFacts
<1>5. Moves(sub, sub') /\ Renews(sub, sub')
  BY <1>1, <1>2, BeforeRead
<1> QED
  BY <1>1, <1>2, <1>4, <1>5 DEF RowStep, PaidStays

LEMMA SuspendStep ==
  ASSUME TypeOK, sub' = MarkSuspendedTx(sub)
  PROVE  RowStep
<1>1. sub \in Row /\ now \in Nat
  BY DEF TypeOK
<1> QED
  BY <1>1, SuspendFacts DEF RowStep, PaidStays

\* Every step of the service treats the row so, whatever came before it.
LEMMA NextRow == TypeOK /\ [Next]_vars => RowStep
<1> SUFFICES ASSUME TypeOK, [Next]_vars PROVE RowStep
  OBVIOUS
<1>1. ASSUME NEW m \in Messages, Handle(m) PROVE RowStep
  <2>1. CASE HandleGetStatus(m)
    BY <2>1, ReadStep DEF HandleGetStatus
  <2>2. CASE HandleBillingAccessExpired(m)
    BY <2>2, SuspendStep DEF HandleBillingAccessExpired
  <2> QED
    BY <1>1, <2>1, <2>2, TrialStep, CancelStep, RedeemStep, RotateStep, PaymentStep,
       RenewOffStep, GraceStep DEF Handle
<1>2. ASSUME NEW m \in Messages, Record(m) PROVE RowStep
  BY <1>2, SameRow DEF Record
<1>3. CASE FindExpiredForSweep
  BY <1>3, SameRow DEF FindExpiredForSweep
<1>4. CASE SuspendExpiredOne
  BY <1>4, SuspendStep DEF SuspendExpiredOne
<1>5. CASE RefereeConverts
  BY <1>5, SameRow DEF RefereeConverts
<1>6. CASE Crash
  BY <1>6, SameRow DEF Crash
<1>7. CASE Tick
  BY <1>7, SameRow DEF Tick
<1>8. CASE UNCHANGED vars
  BY <1>8, SameRow DEF vars
<1> QED
  BY <1>1, <1>2, <1>3, <1>4, <1>5, <1>6, <1>7, <1>8 DEF Next

------------------------------------------------------------------------------
(* Types.                                                                    *)

LEMMA InitType == Init => TypeOK
<1> SUFFICES ASSUME Init PROVE TypeOK
  OBVIOUS
<1>1. sub \in Row
  BY DEF Init, Row, Statuses
<1>2. told \in Announcement
  BY DEF Init, Announcement
<1>3. converted \in 0 .. MaxReferees /\ crashes \in 0 .. MaxCrashes
  BY SubscriptionAssumption DEF Init
<1> QED
  BY <1>1, <1>2, <1>3 DEF Init, TypeOK

\* A message that is taken leaves the rest of the service to its handler.
LEMMA DeliveredType ==
  ASSUME TypeOK, NEW m \in Messages, Delivered(m)
  PROVE  /\ stage' \in [Messages -> {"new", "applied", "again", "recorded"}]
         /\ UNCHANGED <<now, converted, candidate, crashes>>
  BY DEF TypeOK, Delivered

\* What is published has the row's revision.
LEMMA PublishType ==
  ASSUME sub' \in Row, NEW until \in Nat,
         NEW event \in {"trialStarted", "activated", "canceled", "graceStarted", "suspended"},
         Publish(event, until)
  PROVE  told' \in Announcement
<1>1. sub'.rev \in Nat
  BY DEF Row
<1> QED
  BY <1>1 DEF Publish, Announcement

LEMMA HandleType ==
  ASSUME TypeOK, NEW m \in Messages, Handle(m), sub' \in Row
  PROVE  /\ Delivered(m)
         /\ grants' \subseteq Payments \cup {"trial"}
         /\ months' \in Nat
         /\ told' \in Announcement
<1>0. sub'.expires \in Nat /\ now \in Nat
  BY DEF Row, TypeOK
<1>1. Delivered(m)
  BY DEF Handle, HandleStartTrial, HandleGetStatus, HandleCancel, HandleReferralRedeem,
         HandleRotateToken, HandleBillingPaymentSucceeded, HandleBillingAutoRenewDisabled,
         HandleBillingGraceStarted, HandleBillingAccessExpired
<1>2. grants' \subseteq Payments \cup {"trial"}
  <2>1. CASE HandleBillingPaymentSucceeded(m)
    <3>1. Op[m].payment \in Payments
      BY <2>1, OpTypes DEF HandleBillingPaymentSucceeded
    <3> QED
      BY <2>1, <3>1 DEF HandleBillingPaymentSucceeded, TypeOK
  <2>2. CASE HandleStartTrial(m)
    BY <2>2 DEF HandleStartTrial, TypeOK
  <2>3. CASE grants' = grants
    BY <2>3 DEF TypeOK
  <2> QED
    BY <2>1, <2>2, <2>3
       DEF Handle, HandleGetStatus, HandleCancel, HandleReferralRedeem,
           HandleRotateToken, HandleBillingAutoRenewDisabled,
           HandleBillingGraceStarted, HandleBillingAccessExpired
<1>3. months' \in Nat
  <2>1. CASE HandleReferralRedeem(m) /\ FreeMonths > months
    BY <2>1, RedeemDays DEF HandleReferralRedeem
  <2>2. CASE months' = months
    BY <2>2 DEF TypeOK
  <2> QED
    BY <2>1, <2>2
       DEF Handle, HandleStartTrial, HandleGetStatus, HandleCancel, HandleReferralRedeem,
           HandleRotateToken, HandleBillingPaymentSucceeded, HandleBillingAutoRenewDisabled,
           HandleBillingGraceStarted, HandleBillingAccessExpired
<1>4. told' \in Announcement
  <2>1. CASE \E event \in {"trialStarted", "activated", "canceled", "suspended"} :
               Publish(event, sub'.expires) \/ Publish(event, now)
    BY <1>0, <2>1, PublishType
  <2>2. CASE HandleBillingGraceStarted(m)
    BY <2>2, OpTypes, PublishType DEF HandleBillingGraceStarted
  <2>3. CASE told' = told
    BY <2>3 DEF TypeOK
  <2> QED
    BY <2>1, <2>2, <2>3
       DEF Handle, HandleStartTrial, HandleGetStatus, HandleCancel, HandleReferralRedeem,
           HandleRotateToken, HandleBillingPaymentSucceeded, HandleBillingAutoRenewDisabled,
           HandleBillingAccessExpired
<1> QED
  BY <1>1, <1>2, <1>3, <1>4

LEMMA NextType == TypeOK /\ [Next]_vars => TypeOK'
<1> SUFFICES ASSUME TypeOK, [Next]_vars PROVE TypeOK'
  OBVIOUS
<1>0. sub' \in Row
  BY NextRow DEF RowStep, Moves
<1>1. ASSUME NEW m \in Messages, Handle(m) PROVE TypeOK'
  <2>1. /\ stage' \in [Messages -> {"new", "applied", "again", "recorded"}]
        /\ UNCHANGED <<now, converted, candidate, crashes>>
    BY <1>0, <1>1, HandleType, DeliveredType
  <2>2. /\ grants' \subseteq Payments \cup {"trial"} /\ months' \in Nat
        /\ told' \in Announcement
    BY <1>0, <1>1, HandleType
  <2> QED
    BY <1>0, <2>1, <2>2 DEF TypeOK
<1>2. ASSUME NEW m \in Messages, Record(m) PROVE TypeOK'
  BY <1>2 DEF Record, ledgerVars, TypeOK
<1>3. CASE FindExpiredForSweep
  BY <1>3 DEF FindExpiredForSweep, ledgerVars, messageVars, TypeOK
<1>4. CASE SuspendExpiredOne
  <2>1. told' \in Announcement
    BY <1>0, <1>4, PublishType DEF SuspendExpiredOne, TypeOK
  <2> QED
    BY <1>0, <1>4, <2>1 DEF SuspendExpiredOne, ledgerVars, messageVars, TypeOK
<1>5. CASE RefereeConverts
  <2>1. converted' \in 0 .. MaxReferees
    BY <1>5, SubscriptionAssumption DEF RefereeConverts, TypeOK
  <2> QED
    BY <1>5, <2>1 DEF RefereeConverts, messageVars, TypeOK
<1>6. CASE Crash
  <2>1. crashes' \in 0 .. MaxCrashes
    BY <1>6, SubscriptionAssumption DEF Crash, TypeOK
  <2>2. stage' \in [Messages -> {"new", "applied", "again", "recorded"}]
    BY <1>6 DEF Crash, TypeOK
  <2> QED
    BY <1>6, <2>1, <2>2 DEF Crash, ledgerVars, TypeOK
<1>7. CASE Tick
  <2>1. now' \in Nat
    BY <1>7 DEF Tick, TypeOK
  <2> QED
    BY <1>7, <2>1 DEF Tick, ledgerVars, messageVars, TypeOK
<1>8. CASE UNCHANGED vars
  BY <1>8 DEF vars, ledgerVars, messageVars, TypeOK
<1> QED
  BY <1>1, <1>2, <1>3, <1>4, <1>5, <1>6, <1>7, <1>8 DEF Next

\* The row, the ledgers and the messages keep their types.
THEOREM SubscriptionTypeCorrect == Spec => []TypeOK
<1> QED
  BY InitType, NextType, PTL DEF Spec

------------------------------------------------------------------------------
(* What holds of every step.                                                 *)

LEMMA KeepsTerm == TypeOK /\ [Next]_vars => (sub'.expires < sub.expires => sub'.status = "expired")
  BY NextRow DEF RowStep, Moves

LEMMA KeepsPaid ==
  TypeOK /\ [Next]_vars
    => (sub.status = "active" /\ sub.expires > now => sub'.status # "trial")
  BY NextRow DEF RowStep, PaidStays

\* A term moves back only when the step ends the subscription (StartTrialTx, ActivatePaidTx,
\* RedeemReferralMonthsTx), for any stacking of trials, payments and referral months.
THEOREM TermKept == Spec => TermNeverShortened
<1>1. [](TypeOK) /\ [][Next]_vars
        => [][sub'.expires < sub.expires => sub'.status = "expired"]_vars
  BY KeepsTerm, PTL
<1> QED
  BY <1>1, SubscriptionTypeCorrect, PTL DEF Spec, TermNeverShortened

\* Paid time that is left never becomes a trial (StartTrialTx).
THEOREM PaidKept == Spec => PaidNotDemoted
<1>1. [](TypeOK) /\ [][Next]_vars
        => [][sub.status = "active" /\ sub.expires > now => sub'.status # "trial"]_vars
  BY KeepsPaid, PTL
<1> QED
  BY <1>1, SubscriptionTypeCorrect, PTL DEF Spec, PaidNotDemoted

\* The renewal and the end at the end of the period never stand together, whichever of
\* payment, cancel, unbinding and expiry came last (ActivatePaidTx, CancelTx).
THEOREM RenewalOrEnd == Spec => []RenewsOrEnds
<1>1. Init => RenewsOrEnds
  BY DEF Init, RenewsOrEnds
<1>2. TypeOK /\ RenewsOrEnds /\ [Next]_vars => RenewsOrEnds'
  BY NextRow DEF RowStep, Renews, RenewsOrEnds
<1> QED
  BY <1>1, <1>2, SubscriptionTypeCorrect, PTL DEF Spec

------------------------------------------------------------------------------
(* What has been announced.                                                  *)

\* A row whose term and status the step has not made a running term keeps what was said.
LEMMA NothingNew ==
  ASSUME TermAnnounced, told' = told, now' \in Nat, now \in Nat, now' >= now,
         sub' \in Row, sub \in Row,
         \/ sub'.status \notin {"trial", "active"}
         \/ sub'.expires = sub.expires /\ sub'.status = sub.status
  PROVE  TermAnnounced'
<1>1. sub.expires \in Nat /\ sub'.expires \in Nat
  BY DEF Row
<1> QED
  BY <1>1 DEF TermAnnounced

\* The row ended, or its new term was published with it, or a grace was.
LEMMA SaidNow ==
  ASSUME NEW event, NEW until,
         \/ sub'.status = "expired"
         \/ Publish(event, sub'.expires)
         \/ Publish("graceStarted", until)
  PROVE  TermAnnounced'
  BY DEF TermAnnounced, Publish

\* Every handler that moves the term says so.
LEMMA HandleAnnounces ==
  ASSUME TypeOK, TermAnnounced, NEW m \in Messages, Handle(m), sub' \in Row
  PROVE  TermAnnounced'
<1>1. sub \in Row /\ now \in Nat /\ now' = now
  BY HandleType, DeliveredType DEF TypeOK
<1>2. Read(sub) = sub \/ Read(sub).status = "expired"
  BY <1>1, ReadFacts
<1>3. CASE sub' = Read(sub) /\ told' = told
  BY <1>1, <1>2, <1>3, NothingNew
<1>4. CASE HandleStartTrial(m)
  BY <1>3, <1>4, SaidNow DEF HandleStartTrial
<1>5. CASE HandleGetStatus(m)
  BY <1>3, <1>5 DEF HandleGetStatus
<1>6. CASE HandleCancel(m)
  BY <1>3, <1>6, SaidNow DEF HandleCancel
<1>7. CASE HandleReferralRedeem(m)
  <2>1. CASE Publish("activated", sub'.expires)
    BY <2>1, SaidNow
  <2>2. CASE sub' = sub /\ told' = told
    BY <1>1, <2>2, NothingNew
  <2> QED
    BY <1>7, <2>1, <2>2 DEF HandleReferralRedeem
<1>8. CASE HandleRotateToken(m)
  <2>1. CASE sub' = [Read(sub) EXCEPT !.rev = @ + 1]
    <3>1. Read(sub) \in Row
      BY <1>1, ReadFacts DEF Moves
    <3>2. sub'.status = Read(sub).status /\ sub'.expires = Read(sub).expires
      BY <2>1, <3>1, RotateFacts
    <3>3. told' = told
      BY <1>8 DEF HandleRotateToken
    <3> QED
      BY <1>1, <1>2, <3>2, <3>3, NothingNew
  <2> QED
    BY <1>3, <1>8, <2>1 DEF HandleRotateToken
<1>9. CASE HandleBillingPaymentSucceeded(m)
  BY <1>3, <1>9, SaidNow DEF HandleBillingPaymentSucceeded
<1>10. CASE HandleBillingAutoRenewDisabled(m)
  <2> DEFINE t == MarkAutoRenewDisabledTx(sub)
  <2>1. t \in Row /\ t.status = sub.status /\ t.expires = sub.expires
    BY <1>1, DisableFacts DEF Moves
  <2>2. sub' = Read(t) /\ told' = told
    BY <1>10 DEF HandleBillingAutoRenewDisabled
  <2> HIDE DEF t
  <2>3. Read(t) = t \/ Read(t).status = "expired"
    BY <1>1, <2>1, ReadFacts
  <2> QED
    BY <1>1, <2>1, <2>2, <2>3, NothingNew
<1>11. CASE HandleBillingGraceStarted(m)
  BY <1>11, SaidNow DEF HandleBillingGraceStarted
<1>12. CASE HandleBillingAccessExpired(m)
  <2>1. sub'.status = "expired"
    BY <1>1, <1>12, SuspendFacts DEF HandleBillingAccessExpired
  <2> QED
    BY <2>1, SaidNow
<1> QED
  BY <1>4, <1>5, <1>6, <1>7, <1>8, <1>9, <1>10, <1>11, <1>12 DEF Handle

LEMMA NextAnnounces == TypeOK /\ TermAnnounced /\ [Next]_vars => TermAnnounced'
<1> SUFFICES ASSUME TypeOK, TermAnnounced, [Next]_vars PROVE TermAnnounced'
  OBVIOUS
<1>1. sub \in Row /\ now \in Nat /\ sub' \in Row
  BY NextRow DEF RowStep, Moves, TypeOK
<1>2. CASE sub' = sub /\ told' = told /\ now' = now
  BY <1>1, <1>2, NothingNew
<1>3. CASE Tick
  <2>1. sub' = sub /\ told' = told /\ now' \in Nat /\ now' >= now
    BY <1>1, <1>3 DEF Tick
  <2> QED
    BY <1>1, <2>1, NothingNew
<1>4. CASE SuspendExpiredOne
  <2>1. sub'.status = "expired"
    BY <1>1, <1>4, SuspendFacts DEF SuspendExpiredOne
  <2> QED
    BY <2>1, SaidNow
<1>5. ASSUME NEW m \in Messages, Handle(m) PROVE TermAnnounced'
  BY <1>1, <1>5, HandleAnnounces
<1>6. ASSUME \/ \E m \in Messages : Record(m)
             \/ FindExpiredForSweep \/ RefereeConverts \/ Crash \/ UNCHANGED vars
      PROVE  TermAnnounced'
  BY <1>2, <1>6 DEF Record, FindExpiredForSweep, RefereeConverts, Crash, vars
<1> QED
  BY <1>3, <1>4, <1>5, <1>6 DEF Next

\* While a trial or paid term runs, what the orchestrator was told last is that term, for
\* any stacking of messages, redeliveries and crashes (publishSubscriptionEventTx).
THEOREM TermIsAnnounced == Spec => []TermAnnounced
<1>1. Init => TermAnnounced
  BY DEF Init, TermAnnounced
<1> QED
  BY <1>1, NextAnnounces, SubscriptionTypeCorrect, PTL DEF Spec

------------------------------------------------------------------------------
(* The ledger is a sum over the granted payments.  Its defining recursion is  *)
(* unfolded through additive functions: every finite set of payments has one, *)
(* and it is the sum.  Both are proved at a smallest counterexample.          *)

\* The days of a set of payments: the term of GrantedDays.
Days(S) == MapThenSumSet(LAMBDA p : Duration[p], S)

Pick(s) == CHOOSE x \in s : TRUE

\* g gives every part of S its days.
Additive(g, S) ==
  /\ g \in [SUBSET S -> Nat]
  /\ g[{}] = 0
  /\ \A s \in SUBSET S : \A x \in S \ s : g[s \cup {x}] = g[s] + Duration[x]

\* Among finite sets there is a smallest one.
LEMMA SmallestSet ==
  ASSUME NEW S, NEW T \in SUBSET FiniteSubsetsOf(S), T # {}
  PROVE  \E x \in T : \A y \in T : ~(y \subseteq x /\ y # x)
<1>1. PICK x \in T : \A y \in T : ~(<<y, x>> \in StrictSubsetOrdering(S))
  BY FS_StrictSubsetOrderingWellFounded, WFMin
<1>2. \A y \in T : y \in SUBSET S
  BY DEF FiniteSubsetsOf
<1> QED
  BY <1>1, <1>2 DEF StrictSubsetOrdering

LEMMA DurationType == \A p \in Payments : Duration[p] \in Nat \ {0}
  BY SubscriptionAssumption

\* One payment more.
LEMMA AdditiveExtends ==
  ASSUME NEW S \in SUBSET Payments, NEW e \in S, NEW g, Additive(g, S \ {e})
  PROVE  \E h : Additive(h, S)
<1> DEFINE h == [s \in SUBSET S |-> IF e \in s THEN g[s \ {e}] + Duration[e] ELSE g[s]]
<1>1. /\ \A s \in SUBSET S : s \ {e} \in SUBSET (S \ {e})
      /\ \A s \in SUBSET S : e \notin s => s \in SUBSET (S \ {e})
  OBVIOUS
<1>2. \A s \in SUBSET (S \ {e}) : g[s] \in Nat
  BY DEF Additive
<1>3. h \in [SUBSET S -> Nat]
  <2>1. \A s \in SUBSET S : (IF e \in s THEN g[s \ {e}] + Duration[e] ELSE g[s]) \in Nat
    BY <1>1, <1>2, DurationType
  <2> QED
    BY <2>1
<1>4. h[{}] = 0
  BY DEF Additive
<1>5. ASSUME NEW s \in SUBSET S, NEW x \in S \ s
      PROVE  h[s \cup {x}] = h[s] + Duration[x]
  <2>1. CASE x = e
    <3>1. h[s] = g[s] /\ h[s \cup {x}] = g[(s \cup {x}) \ {e}] + Duration[e]
      BY <2>1
    <3>2. (s \cup {x}) \ {e} = s
      BY <2>1
    <3> QED
      BY <2>1, <3>1, <3>2
  <2>2. CASE x # e /\ e \in s
    <3>1. h[s] = g[s \ {e}] + Duration[e] /\ h[s \cup {x}] = g[(s \cup {x}) \ {e}] + Duration[e]
      BY <2>2
    <3>2. (s \cup {x}) \ {e} = (s \ {e}) \cup {x}
      BY <2>2
    <3>3. g[(s \ {e}) \cup {x}] = g[s \ {e}] + Duration[x]
      BY <1>1, <2>2 DEF Additive
    <3>4. g[s \ {e}] \in Nat /\ Duration[x] \in Nat /\ Duration[e] \in Nat
      BY <1>1, <1>2, DurationType
    <3> HIDE DEF h
    <3>5. h[s \cup {x}] = (g[s \ {e}] + Duration[x]) + Duration[e]
      BY <3>1, <3>2, <3>3
    <3> QED
      BY <3>1, <3>4, <3>5
  <2>3. CASE x # e /\ e \notin s
    <3>1. h[s] = g[s] /\ h[s \cup {x}] = g[s \cup {x}]
      BY <2>3
    <3>2. g[s \cup {x}] = g[s] + Duration[x]
      BY <1>1, <2>3 DEF Additive
    <3> QED
      BY <3>1, <3>2
  <2> QED
    BY <2>1, <2>2, <2>3
<1> HIDE DEF h
<1> QED
  BY <1>3, <1>4, <1>5 DEF Additive

LEMMA AdditiveExists ==
  ASSUME NEW S \in SUBSET Payments, IsFiniteSet(S)
  PROVE  \E g : Additive(g, S)
<1> DEFINE Bad == {s \in FiniteSubsetsOf(S) : ~\E g : Additive(g, s)}
<1> SUFFICES ASSUME S \in Bad PROVE FALSE
  BY DEF FiniteSubsetsOf
<1>0. Bad \in SUBSET FiniteSubsetsOf(S) /\ Bad # {}
  OBVIOUS
<1>1. PICK s \in Bad : \A y \in Bad : ~(y \subseteq s /\ y # s)
  <2> HIDE DEF Bad
  <2> QED
    BY <1>0, SmallestSet
<1>2. s \in SUBSET S /\ IsFiniteSet(s)
  BY DEF FiniteSubsetsOf
<1>3. s # {}
  <2>1. Additive([t \in SUBSET {} |-> 0], {})
    BY DEF Additive
  <2> QED
    BY <2>1
<1>4. PICK e \in s : TRUE
  BY <1>3
<1>5. s \ {e} \in FiniteSubsetsOf(S)
  BY <1>2, FS_Subset DEF FiniteSubsetsOf
<1>6. \E g : Additive(g, s \ {e})
  BY <1>1, <1>5
<1> QED
  BY <1>2, <1>6, AdditiveExtends

\* The recursion of MapThenSumSet over the parts of S.
Recursion(f, S) ==
  f = [s \in SUBSET S |-> IF s = {} THEN 0 ELSE Duration[Pick(s)] + f[s \ {Pick(s)}]]

LEMMA DaysRecursion == \A S : Days(S) = (CHOOSE f : Recursion(f, S))[S]
  BY DEF Days, MapThenSumSet, MapThenFoldSet, Pick, Recursion

LEMMA AdditiveRecurs ==
  ASSUME NEW S \in SUBSET Payments, NEW g, Additive(g, S)
  PROVE  Recursion(g, S)
<1>1. \A s \in SUBSET S : s # {} => g[s] = Duration[Pick(s)] + g[s \ {Pick(s)}]
  <2> SUFFICES ASSUME NEW s \in SUBSET S, s # {}
               PROVE  g[s] = Duration[Pick(s)] + g[s \ {Pick(s)}]
    OBVIOUS
  <2>1. PICK x \in s : x = Pick(s)
    BY DEF Pick
  <2>2. s = (s \ {x}) \cup {x} /\ s \ {x} \in SUBSET S /\ x \in S \ (s \ {x})
    OBVIOUS
  <2>3. g[(s \ {x}) \cup {x}] = g[s \ {x}] + Duration[x]
    BY <2>2 DEF Additive
  <2>4. g[s \ {x}] \in Nat /\ Duration[x] \in Nat
    BY <2>2, DurationType DEF Additive
  <2>5. g[s] = g[s \ {x}] + Duration[x]
    BY <2>2, <2>3
  <2>6. g[s] = Duration[x] + g[s \ {x}]
    BY <2>4, <2>5
  <2> QED
    BY <2>1, <2>6
<1> QED
  BY <1>1 DEF Additive, Recursion

LEMMA AdditiveIsSum ==
  ASSUME NEW S \in SUBSET Payments, IsFiniteSet(S), NEW g, Additive(g, S)
  PROVE  Days(S) = g[S]
<1> DEFINE f == CHOOSE f : Recursion(f, S)
<1>1. Recursion(f, S)
  BY AdditiveRecurs
<1>2. Recursion(g, S)
  BY AdditiveRecurs
<1> HIDE DEF f
<1> DEFINE Bad == {s \in FiniteSubsetsOf(S) : f[s] # g[s]}
<1>3. Bad = {}
  <2> SUFFICES ASSUME Bad # {} PROVE FALSE
    OBVIOUS
  <2>0. Bad \in SUBSET FiniteSubsetsOf(S) /\ Bad # {}
    OBVIOUS
  <2>1. PICK s \in Bad : \A y \in Bad : ~(y \subseteq s /\ y # s)
    <3> HIDE DEF Bad
    <3> QED
      BY <2>0, SmallestSet
  <2>2. s \in SUBSET S /\ IsFiniteSet(s) /\ f[s] # g[s]
    BY DEF FiniteSubsetsOf
  <2>3. s # {}
    BY <1>1, <1>2, <2>2 DEF Recursion
  <2>4. PICK x \in s : x = Pick(s)
    BY <2>3 DEF Pick
  <2>5. s \ {x} \in FiniteSubsetsOf(S)
    BY <2>2, FS_Subset DEF FiniteSubsetsOf
  <2>6. f[s \ {x}] = g[s \ {x}]
    BY <2>1, <2>4, <2>5
  <2>7. f[s] = Duration[x] + f[s \ {x}] /\ g[s] = Duration[x] + g[s \ {x}]
    BY <1>1, <1>2, <2>2, <2>3, <2>4 DEF Recursion
  <2> QED
    BY <2>2, <2>6, <2>7
<1>4. S \in FiniteSubsetsOf(S)
  BY DEF FiniteSubsetsOf
<1>5. Days(S) = f[S]
  BY DaysRecursion DEF f
<1> QED
  BY <1>3, <1>4, <1>5

LEMMA DaysType ==
  ASSUME NEW S \in SUBSET Payments, IsFiniteSet(S)
  PROVE  Days(S) \in Nat
<1>1. PICK g : Additive(g, S)
  BY AdditiveExists
<1>2. g[S] \in Nat
  BY <1>1 DEF Additive
<1> QED
  BY <1>1, <1>2, AdditiveIsSum

\* The ledger grows by the days of a payment it did not have.
LEMMA DaysAdd ==
  ASSUME NEW S \in SUBSET Payments, IsFiniteSet(S), NEW p \in Payments \ S
  PROVE  Days(S \cup {p}) = Days(S) + Duration[p]
<1> DEFINE U == S \cup {p}
<1>1. U \in SUBSET Payments /\ IsFiniteSet(U)
  BY FS_AddElement
<1>2. PICK g : Additive(g, U)
  BY <1>1, AdditiveExists
<1> DEFINE h == [s \in SUBSET S |-> g[s]]
<1>3. Additive(h, S)
  <2>1. SUBSET S \subseteq SUBSET U
    OBVIOUS
  <2>2. h \in [SUBSET S -> Nat] /\ h[{}] = 0
    BY <1>2, <2>1 DEF Additive
  <2>3. \A s \in SUBSET S : \A x \in S \ s : h[s \cup {x}] = h[s] + Duration[x]
    BY <1>2, <2>1 DEF Additive
  <2> HIDE DEF h
  <2> QED
    BY <2>2, <2>3 DEF Additive
<1>4. Days(S) = g[S]
  <2>1. h[S] = g[S]
    OBVIOUS
  <2> HIDE DEF h
  <2> QED
    BY <1>3, <2>1, AdditiveIsSum
<1>5. Days(U) = g[U]
  BY <1>1, <1>2, AdditiveIsSum
<1>6. g[U] = g[S] + Duration[p]
  BY <1>2 DEF Additive
<1> QED
  BY <1>4, <1>5, <1>6

------------------------------------------------------------------------------
(* Nobody holds more time than the ledger grants.                            *)

LedgerInv == TypeOK /\ IsFiniteSet(grants) /\ NoFreeTime

\* The days of a set of grants, the trial among them.
GrantDays(G) == (IF "trial" \in G THEN TrialDays ELSE 0) + Days(G \ {"trial"})

LEMMA GrantedIs ==
  /\ GrantedDays = GrantDays(grants) + months * MonthDays
  /\ GrantedDays' = GrantDays(grants') + months' * MonthDays
<1>1. GrantedDays = GrantDays(grants) + months * MonthDays
  BY DEF GrantedDays, GrantDays, Days
<1>2. GrantedDays' = GrantDays(grants') + months' * MonthDays
  BY DEF GrantedDays, GrantDays, Days, MapThenSumSet, MapThenFoldSet
<1> QED
  BY <1>1, <1>2

LEMMA GrantDaysType ==
  ASSUME NEW G \in SUBSET (Payments \cup {"trial"}), IsFiniteSet(G)
  PROVE  GrantDays(G) \in Nat
<1>1. G \ {"trial"} \in SUBSET Payments /\ IsFiniteSet(G \ {"trial"})
  BY FS_Subset
<1>2. Days(G \ {"trial"}) \in Nat
  BY <1>1, DaysType
<1> QED
  BY <1>2, SubscriptionAssumption DEF GrantDays

LEMMA TrialGrantAdds ==
  ASSUME NEW G \in SUBSET (Payments \cup {"trial"}), IsFiniteSet(G), "trial" \notin G
  PROVE  GrantDays(G \cup {"trial"}) = GrantDays(G) + TrialDays
<1>1. (G \cup {"trial"}) \ {"trial"} = G /\ G \ {"trial"} = G /\ G \in SUBSET Payments
  OBVIOUS
<1>2. Days(G) \in Nat /\ TrialDays \in Nat
  BY <1>1, DaysType, SubscriptionAssumption
<1>3. GrantDays(G \cup {"trial"}) = TrialDays + Days(G) /\ GrantDays(G) = 0 + Days(G)
  BY <1>1 DEF GrantDays
<1> QED
  BY <1>2, <1>3

LEMMA PaymentGrantAdds ==
  ASSUME NEW G \in SUBSET (Payments \cup {"trial"}), IsFiniteSet(G), NEW p \in Payments \ G
  PROVE  GrantDays(G \cup {p}) = GrantDays(G) + Duration[p]
<1> DEFINE S == G \ {"trial"}
           t == IF "trial" \in G THEN TrialDays ELSE 0
<1>0. p # "trial"
  BY SubscriptionAssumption
<1>1. (G \cup {p}) \ {"trial"} = S \cup {p} /\ p \in Payments \ S
  BY <1>0
<1>2. S \in SUBSET Payments /\ IsFiniteSet(S)
  BY FS_Subset
<1>3. Days(S \cup {p}) = Days(S) + Duration[p] /\ Days(S) \in Nat
  BY <1>1, <1>2, DaysAdd, DaysType
<1>4. t \in Nat /\ Duration[p] \in Nat
  BY SubscriptionAssumption
<1>5. GrantDays(G) = t + Days(S) /\ GrantDays(G \cup {p}) = t + Days(S \cup {p})
  BY <1>0, <1>1 DEF GrantDays
<1> HIDE DEF S, t
<1> QED
  BY <1>3, <1>4, <1>5

\* What each transaction makes of the term.
LEMMA Terms ==
  ASSUME now \in Nat, NEW r \in Row, NEW days, NEW auto, NEW until
  PROVE  /\ StartTrialTx(r).expires = Extended(r, TrialDays)
         /\ ActivatePaidTx(r, days, auto).expires = Extended(r, days)
         /\ RedeemReferralMonthsTx(r, days).expires = Extended(r, days)
         /\ CancelTx(r).expires \in {r.expires, now}
         /\ MarkSuspendedTx(r).expires \in {r.expires, now}
         /\ MarkAutoRenewDisabledTx(r).expires = r.expires
         /\ MarkGraceStartedTx(r, until).expires = r.expires
         /\ [r EXCEPT !.rev = @ + 1].expires = r.expires
<1> DEFINE v == r.rev + 1
<1>1. StartTrialTx(r).expires = Extended(r, TrialDays)
  <2> DEFINE e == Extended(r, TrialDays)
  <2> HIDE DEF e, v
  <2> QED
    BY DEF StartTrialTx, Row, e
<1>2. ActivatePaidTx(r, days, auto).expires = Extended(r, days)
  BY DEF ActivatePaidTx, Row
<1>3. RedeemReferralMonthsTx(r, days).expires = Extended(r, days)
  BY DEF RedeemReferralMonthsTx, Row
<1>4. CancelTx(r).expires \in {r.expires, now}
  BY DEF CancelTx, Row
<1>5. MarkSuspendedTx(r).expires \in {r.expires, now}
  BY DEF MarkSuspendedTx, Row
<1>6. MarkAutoRenewDisabledTx(r).expires = r.expires
  BY DEF MarkAutoRenewDisabledTx, Row
<1>7. MarkGraceStartedTx(r, until).expires = r.expires
  BY DEF MarkGraceStartedTx, Row
<1>8. [r EXCEPT !.rev = @ + 1].expires = r.expires
  BY DEF Row
<1> QED
  BY <1>1, <1>2, <1>3, <1>4, <1>5, <1>6, <1>7, <1>8

\* An extension by days the ledger gains keeps the bound.
LEMMA ExtendedBounded ==
  ASSUME now \in Nat, NEW r \in Row, NEW granted \in Nat, NEW days \in Nat,
         r.expires <= now + granted
  PROVE  Extended(r, days) <= now + (granted + days)
<1>1. r.expires \in Nat
  BY DEF Row
<1>2. CASE r.expires > now
  <2>1. Extended(r, days) = r.expires + days
    BY <1>2 DEF Extended
  <2> QED
    BY <1>1, <2>1
<1>3. CASE ~(r.expires > now)
  <2>1. Extended(r, days) = now + days
    BY <1>3 DEF Extended
  <2> QED
    BY <2>1
<1> QED
  BY <1>2, <1>3

LEMMA LedgerNumbers ==
  ASSUME LedgerInv
  PROVE  /\ now \in Nat /\ sub \in Row /\ sub.expires \in Nat /\ months \in Nat
         /\ MonthDays \in Nat /\ TrialDays \in Nat
         /\ GrantDays(grants) \in Nat /\ months * MonthDays \in Nat /\ GrantedDays \in Nat
         /\ sub.expires <= now + GrantedDays
         /\ Read(sub) \in Row /\ Read(sub).expires = sub.expires
<1>1. now \in Nat /\ sub \in Row /\ months \in Nat /\ MonthDays \in Nat /\ TrialDays \in Nat
  BY SubscriptionAssumption DEF LedgerInv, TypeOK
<1>2. GrantDays(grants) \in Nat
  BY GrantDaysType DEF LedgerInv, TypeOK
<1>3. months * MonthDays \in Nat
  BY <1>1
<1>4. GrantedDays \in Nat
  BY <1>2, <1>3, GrantedIs
<1>5. sub.expires \in Nat
  BY <1>1 DEF Row
<1>6. Read(sub) \in Row /\ Read(sub).expires = sub.expires
  BY <1>1, ReadFacts DEF Moves
<1> QED
  BY <1>1, <1>2, <1>3, <1>4, <1>5, <1>6 DEF LedgerInv, NoFreeTime

\* A step that extends nothing.
LEMMA NothingGranted ==
  ASSUME LedgerInv, now' \in Nat, now' >= now, UNCHANGED <<grants, months>>,
         sub'.expires \in {sub.expires, now}
  PROVE  NoFreeTime' /\ IsFiniteSet(grants')
<1>1. GrantedDays' = GrantedDays
  BY GrantedIs
<1>2. sub'.expires <= now' + GrantedDays
  BY LedgerNumbers
<1> QED
  BY <1>1, <1>2 DEF NoFreeTime, LedgerInv

LEMMA TrialLedger ==
  ASSUME LedgerInv, NEW m \in Messages, HandleStartTrial(m)
  PROVE  NoFreeTime' /\ IsFiniteSet(grants')
<1>1. now' = now /\ months' = months
  BY DEF HandleStartTrial, Delivered
<1>2. CASE sub' = Read(sub) /\ grants' = grants
  BY <1>1, <1>2, LedgerNumbers, NothingGranted
<1>3. CASE "trial" \notin grants /\ sub' = StartTrialTx(Read(sub)) /\ grants' = grants \cup {"trial"}
  <2>1. GrantDays(grants') = GrantDays(grants) + TrialDays
    BY <1>3, TrialGrantAdds DEF LedgerInv, TypeOK
  <2>2. GrantedDays' = GrantedDays + TrialDays
    BY <1>1, <2>1, GrantedIs, LedgerNumbers
  <2>3. sub'.expires = Extended(Read(sub), TrialDays)
    BY <1>3, LedgerNumbers, Terms
  <2>4. Extended(Read(sub), TrialDays) <= now + (GrantedDays + TrialDays)
    BY LedgerNumbers, ExtendedBounded
  <2>5. IsFiniteSet(grants')
    BY <1>3, FS_AddElement DEF LedgerInv
  <2> QED
    BY <1>1, <2>2, <2>3, <2>4, <2>5 DEF NoFreeTime
<1> QED
  BY <1>2, <1>3 DEF HandleStartTrial

LEMMA PaymentLedger ==
  ASSUME LedgerInv, NEW m \in Messages, HandleBillingPaymentSucceeded(m)
  PROVE  NoFreeTime' /\ IsFiniteSet(grants')
<1> DEFINE p == Op[m].payment
           days == Duration[p]
           auto == Op[m].auto
<1>1. now' = now /\ months' = months
  BY DEF HandleBillingPaymentSucceeded, Delivered
<1>2. CASE sub' = Read(sub) /\ grants' = grants
  BY <1>1, <1>2, LedgerNumbers, NothingGranted
<1>3. CASE p \notin grants /\ sub' = ActivatePaidTx(Read(sub), days, auto) /\ grants' = grants \cup {p}
  <2>1. p \in Payments /\ days \in Nat
    BY OpTypes DEF HandleBillingPaymentSucceeded
  <2>2. GrantDays(grants') = GrantDays(grants) + days
    BY <1>3, <2>1, PaymentGrantAdds DEF LedgerInv, TypeOK
  <2>3. IsFiniteSet(grants')
    BY <1>3, FS_AddElement DEF LedgerInv
  <2> HIDE DEF days, auto
  <2>4. sub'.expires = Extended(Read(sub), days)
    <3>1. now \in Nat /\ Read(sub) \in Row
      BY LedgerNumbers
    <3>2. ActivatePaidTx(Read(sub), days, auto).expires = Extended(Read(sub), days)
      BY <3>1, Terms
    <3> QED
      BY <1>3, <3>2
  <2>5. GrantedDays' = GrantedDays + days
    BY <1>1, <2>1, <2>2, GrantedIs, LedgerNumbers
  <2>6. Extended(Read(sub), days) <= now + (GrantedDays + days)
    BY <2>1, LedgerNumbers, ExtendedBounded
  <2> QED
    BY <1>1, <2>3, <2>4, <2>5, <2>6 DEF NoFreeTime
<1> QED
  BY <1>2, <1>3 DEF HandleBillingPaymentSucceeded

LEMMA RedeemLedger ==
  ASSUME LedgerInv, NEW m \in Messages, HandleReferralRedeem(m)
  PROVE  NoFreeTime' /\ IsFiniteSet(grants')
<1> DEFINE days == (FreeMonths - months) * MonthDays
           t == RedeemReferralMonthsTx(sub, days)
<1>1. now' = now /\ grants' = grants
  BY DEF HandleReferralRedeem, Delivered
<1>2. CASE ~(FreeMonths > months)
  <2>1. UNCHANGED <<sub, months>>
    BY <1>2 DEF HandleReferralRedeem
  <2> QED
    BY <1>1, <2>1, LedgerNumbers, NothingGranted
<1>3. CASE FreeMonths > months
  <2>1. sub' = Read(t) /\ months' = FreeMonths
    BY <1>3 DEF HandleReferralRedeem
  <2>2. days \in Nat \ {0} /\ FreeMonths \in Nat
    BY <1>3, RedeemDays DEF LedgerInv
  <2>3. months' * MonthDays = months * MonthDays + days
    <3> DEFINE d == FreeMonths - months
    <3>1. d \in Nat /\ FreeMonths = months + d
      BY <1>3, <2>2, LedgerNumbers
    <3> HIDE DEF d
    <3>2. (months + d) * MonthDays = months * MonthDays + d * MonthDays
      BY <3>1, LedgerNumbers
    <3> QED
      BY <2>1, <3>1, <3>2 DEF d
  <2>4. t.expires = Extended(sub, days)
    BY LedgerNumbers, Terms
  <2> HIDE DEF days
  <2>5. t \in Row
    BY <2>2, LedgerNumbers, RedeemFacts DEF Moves
  <2>6. GrantedDays' = GrantedDays + days
    BY <1>1, <2>2, <2>3, GrantedIs, LedgerNumbers
  <2>7. Extended(sub, days) <= now + (GrantedDays + days)
    BY <2>2, LedgerNumbers, ExtendedBounded
  <2> HIDE DEF t
  <2>8. sub'.expires = t.expires
    BY <2>1, <2>5, LedgerNumbers, ReadFacts
  <2> QED
    BY <1>1, <2>4, <2>6, <2>7, <2>8 DEF NoFreeTime, LedgerInv
<1> QED
  BY <1>2, <1>3

\* The other transactions leave the ledger alone and end a term, or leave it.
LEMMA NextLedger == LedgerInv /\ [Next]_vars => NoFreeTime' /\ IsFiniteSet(grants')
<1> SUFFICES ASSUME LedgerInv, [Next]_vars PROVE NoFreeTime' /\ IsFiniteSet(grants')
  OBVIOUS
<1>0. now \in Nat /\ now >= now
  BY LedgerNumbers
<1>1. ASSUME NEW m \in Messages, Handle(m) PROVE NoFreeTime' /\ IsFiniteSet(grants')
  <2>0. now' = now
    BY <1>1 DEF Handle, HandleStartTrial, HandleGetStatus, HandleCancel, HandleReferralRedeem,
       HandleRotateToken, HandleBillingPaymentSucceeded, HandleBillingAutoRenewDisabled,
       HandleBillingGraceStarted, HandleBillingAccessExpired, Delivered
  <2>1. CASE HandleGetStatus(m)
    BY <1>0, <2>0, <2>1, LedgerNumbers, NothingGranted DEF HandleGetStatus
  <2>2. CASE HandleCancel(m)
    <3>1. sub' = Read(sub) \/ sub' = CancelTx(Read(sub))
      BY <2>2 DEF HandleCancel
    <3>2. sub'.expires \in {sub.expires, now}
      BY <3>1, LedgerNumbers, Terms
    <3> QED
      BY <1>0, <2>0, <2>2, <3>2, NothingGranted DEF HandleCancel
  <2>3. CASE HandleRotateToken(m)
    <3>1. sub' = Read(sub) \/ sub' = [Read(sub) EXCEPT !.rev = @ + 1]
      BY <2>3 DEF HandleRotateToken
    <3>2. sub'.expires \in {sub.expires, now}
      BY <3>1, LedgerNumbers, Terms
    <3> QED
      BY <1>0, <2>0, <2>3, <3>2, NothingGranted DEF HandleRotateToken
  <2>4. CASE HandleBillingAutoRenewDisabled(m)
    <3> DEFINE t == MarkAutoRenewDisabledTx(sub)
    <3>1. t \in Row /\ t.expires = sub.expires /\ sub' = Read(t)
      BY <2>4, LedgerNumbers, DisableFacts, Terms DEF HandleBillingAutoRenewDisabled, Moves
    <3> HIDE DEF t
    <3>2. sub'.expires \in {sub.expires, now}
      BY <1>0, <3>1, ReadFacts
    <3> QED
      BY <1>0, <2>0, <2>4, <3>2, NothingGranted DEF HandleBillingAutoRenewDisabled
  <2>5. CASE HandleBillingGraceStarted(m)
    <3> DEFINE t == MarkGraceStartedTx(sub, Op[m].until)
    <3>0. Op[m].until \in Nat
      BY <2>5, OpTypes DEF HandleBillingGraceStarted
    <3>1. t \in Row /\ t.expires = sub.expires /\ sub' = Read(t)
      BY <2>5, <3>0, LedgerNumbers, GraceFacts, Terms DEF HandleBillingGraceStarted, Moves
    <3> HIDE DEF t
    <3>2. sub'.expires \in {sub.expires, now}
      BY <1>0, <3>1, ReadFacts
    <3> QED
      BY <1>0, <2>0, <2>5, <3>2, NothingGranted DEF HandleBillingGraceStarted
  <2>6. CASE HandleBillingAccessExpired(m)
    <3>1. sub'.expires \in {sub.expires, now}
      BY <2>6, LedgerNumbers, Terms DEF HandleBillingAccessExpired
    <3> QED
      BY <1>0, <2>0, <2>6, <3>1, NothingGranted DEF HandleBillingAccessExpired
  <2> QED
    BY <1>1, <2>1, <2>2, <2>3, <2>4, <2>5, <2>6, TrialLedger, RedeemLedger, PaymentLedger
       DEF Handle
<1>2. ASSUME NEW m \in Messages, Record(m) PROVE NoFreeTime' /\ IsFiniteSet(grants')
  BY <1>0, <1>2, NothingGranted DEF Record, ledgerVars
<1>3. CASE FindExpiredForSweep \/ Crash
  BY <1>0, <1>3, NothingGranted DEF FindExpiredForSweep, Crash, ledgerVars
<1>4. CASE SuspendExpiredOne
  <2>1. sub'.expires \in {sub.expires, now}
    BY <1>4, LedgerNumbers, Terms DEF SuspendExpiredOne
  <2> QED
    BY <1>0, <1>4, <2>1, NothingGranted DEF SuspendExpiredOne, ledgerVars
<1>5. CASE RefereeConverts
  BY <1>0, <1>5, NothingGranted DEF RefereeConverts
<1>6. CASE Tick
  <2>1. now' \in Nat /\ now' >= now
    BY <1>0, <1>6 DEF Tick
  <2> QED
    BY <1>6, <2>1, NothingGranted DEF Tick, ledgerVars
<1>7. CASE UNCHANGED vars
  BY <1>0, <1>7, NothingGranted DEF vars, ledgerVars
<1> QED
  BY <1>1, <1>2, <1>3, <1>4, <1>5, <1>6, <1>7 DEF Next

\* One trial, one extension a payment and the months the referees have earned are all the
\* time there is, in any order of the topics, after any crash and redelivery.
THEOREM NoTimeForFree == Spec => []NoFreeTime
<1>1. Init => LedgerInv
  <2> SUFFICES ASSUME Init PROVE NoFreeTime /\ IsFiniteSet(grants)
    BY InitType DEF LedgerInv
  <2>1. TypeOK /\ IsFiniteSet(grants)
    BY InitType, FS_EmptySet DEF Init
  <2>2. GrantDays(grants) \in Nat /\ MonthDays \in Nat
    BY <2>1, GrantDaysType, SubscriptionAssumption DEF TypeOK
  <2>3. now = 1 /\ sub.expires = 0 /\ months = 0
    BY DEF Init
  <2>4. months * MonthDays = 0
    BY <2>2, <2>3
  <2>5. GrantedDays \in Nat
    BY <2>2, <2>4, GrantedIs
  <2> QED
    BY <2>1, <2>3, <2>5 DEF NoFreeTime
<1>2. LedgerInv /\ [Next]_vars => LedgerInv'
  BY NextType, NextLedger DEF LedgerInv
<1>3. LedgerInv => NoFreeTime
  BY DEF LedgerInv
<1> QED
  BY <1>1, <1>2, <1>3, PTL DEF Spec

------------------------------------------------------------------------------
(* What the orchestrator is promised.  The lemmas above say what a transaction *)
(* makes of any row; here it is what the orchestrator sees of it.              *)

\* What a row's state says of it.
LEMMA StateFacts ==
  ASSUME NEW r \in Row
  PROVE  /\ StateOf(r) = "none" <=> r.status = "none"
         /\ StateOf(r) = "ended" <=> r.status = "expired"
         /\ StateOf(r) = "over" <=> Lapsed(r)
         /\ StateOf(r) = "grace" <=> r.status = "grace" /\ ~Lapsed(r)
         /\ StateOf(r) = "live" <=> r.status \in {"trial", "active"} /\ ~Lapsed(r)
<1>1. Lapsed(r) => r.status \in {"trial", "active", "grace"}
  BY DEF Lapsed
<1>2. r.status \in {"none", "trial", "active", "grace", "expired"}
  BY DEF Row, Statuses
<1> QED
  BY <1>1, <1>2 DEF StateOf

\* A term that lies ahead is live.
LEMMA Runs ==
  ASSUME now \in Nat, NEW r \in Row, r.status \in {"trial", "active"}, r.expires > now
  PROVE  StateOf(r) = "live"
<1>1. r.expires \in Nat
  BY DEF Row
<1>2. ~Lapsed(r)
  BY <1>1 DEF Lapsed
<1> QED
  BY <1>2, StateFacts

\* The locked read ends a row whose date has passed, with a revision (expireIfNeededTx).
LEMMA ReadSeen ==
  ASSUME now \in Nat, NEW r \in Row
  PROVE  /\ Read(r) \in Row
         /\ StateOf(r) = "over" => StateOf(Read(r)) = "ended" /\ Read(r).rev = r.rev + 1
         /\ StateOf(r) # "over" => Read(r) = r
<1>1. Read(r) \in Row
  BY ReadFacts DEF Moves
<1>2. CASE Lapsed(r)
  <2>1. Read(r).status = "expired" /\ Read(r).rev = r.rev + 1
    BY <1>2, ReadFacts
  <2> QED
    BY <1>1, <1>2, <2>1, StateFacts
<1>3. CASE ~Lapsed(r)
  BY <1>1, <1>3, ReadFacts, StateFacts
<1> QED
  BY <1>2, <1>3

\* The status and the revision each transaction writes.
LEMMA Marks ==
  ASSUME now \in Nat, NEW r \in Row, NEW days, NEW auto, NEW until
  PROVE  /\ StartTrialTx(r).status \in {"trial", "active"} /\ StartTrialTx(r).rev = r.rev + 1
         /\ ActivatePaidTx(r, days, auto).status = "active"
         /\ ActivatePaidTx(r, days, auto).rev = r.rev + 1
         /\ RedeemReferralMonthsTx(r, days).rev = r.rev + 1
         /\ RedeemReferralMonthsTx(r, days).graceUntil = r.graceUntil
         /\ RedeemReferralMonthsTx(r, days).status =
              IF r.status \in {"expired", "none"} THEN "active" ELSE r.status
         /\ MarkSuspendedTx(r).status = "expired" /\ MarkSuspendedTx(r).rev = r.rev + 1
<1> DEFINE v == r.rev + 1
           e == Extended(r, TrialDays)
           x == Extended(r, days)
<1>1. StartTrialTx(r).status \in {"trial", "active"} /\ StartTrialTx(r).rev = v
  <2> HIDE DEF e, v
  <2>1. StartTrialTx(r).status \in {"trial", "active"}
    BY DEF StartTrialTx, Row
  <2> USE DEF v
  <2>2. StartTrialTx(r).rev = v
    BY DEF StartTrialTx, Row
  <2> QED
    BY <2>1, <2>2
<1>2. ActivatePaidTx(r, days, auto).status = "active"
  BY DEF ActivatePaidTx, Row
<1>3. ActivatePaidTx(r, days, auto).rev = v
  BY DEF ActivatePaidTx, Row
<1>4. RedeemReferralMonthsTx(r, days).rev = v
  BY DEF RedeemReferralMonthsTx, Row
<1>5. RedeemReferralMonthsTx(r, days).graceUntil = r.graceUntil
  BY DEF RedeemReferralMonthsTx, Row
<1>6. RedeemReferralMonthsTx(r, days).status =
        IF r.status \in {"expired", "none"} THEN "active" ELSE r.status
  BY DEF RedeemReferralMonthsTx, Row
<1>7. MarkSuspendedTx(r).status = "expired" /\ MarkSuspendedTx(r).rev = v
  BY DEF MarkSuspendedTx, Row
<1> QED
  BY <1>1, <1>2, <1>3, <1>4, <1>5, <1>6, <1>7

\* Rows the orchestrator cannot tell apart.
Same(r, t) ==
  /\ t.status = r.status /\ t.expires = r.expires
  /\ t.graceUntil = r.graceUntil /\ t.rev = r.rev

\* The transactions that may leave the revision alone.
LEMMA QuietMarks ==
  ASSUME NEW r \in Row, NEW until
  PROVE  /\ r.status = "trial" => CancelTx(r).status = "expired" /\ CancelTx(r).rev = r.rev + 1
         /\ r.status # "trial" => Same(r, CancelTx(r))
         /\ Same(r, MarkAutoRenewDisabledTx(r))
         /\ r.status \in {"active", "grace"}
              => /\ MarkGraceStartedTx(r, until).status = "grace"
                 /\ MarkGraceStartedTx(r, until).rev = r.rev
         /\ r.status \notin {"active", "grace"} => MarkGraceStartedTx(r, until) = r
<1>1. ASSUME r.status = "trial"
      PROVE  CancelTx(r).status = "expired" /\ CancelTx(r).rev = r.rev + 1
  BY <1>1 DEF CancelTx, Row
<1>2. ASSUME r.status # "trial" PROVE Same(r, CancelTx(r))
  BY <1>2 DEF CancelTx, Row, Same
<1>3. Same(r, MarkAutoRenewDisabledTx(r))
  BY DEF MarkAutoRenewDisabledTx, Row, Same
<1>4. ASSUME r.status \in {"active", "grace"}
      PROVE  /\ MarkGraceStartedTx(r, until).status = "grace"
             /\ MarkGraceStartedTx(r, until).rev = r.rev
  BY <1>4 DEF MarkGraceStartedTx, Row
<1> QED
  BY <1>1, <1>2, <1>3, <1>4 DEF MarkGraceStartedTx

LEMMA SameSeen ==
  ASSUME NEW r, NEW t, Same(r, t)
  PROVE  StateOf(t) = StateOf(r)
  BY DEF Same, StateOf, Lapsed

\* What the orchestrator sees of a step, and is told.
Told(kind) == told'.event = kind /\ told'.rev = sub'.rev

SeenStep ==
  \/ told' = told /\ (Promise!Quiet \/ UNCHANGED <<StateOf(sub), sub.rev>>)
  \/ told'.rev = sub'.rev /\ Promise!Tells(told'.event)

LEMMA Publishes ==
  ASSUME NEW kind, NEW until, Publish(kind, until)
  PROVE  Told(kind)
  BY DEF Publish, Told

\* A step that leaves the row in a state.
LEMMA LeavesRow ==
  ASSUME now' = now, NEW t, sub' = t, NEW n, t.rev = sub.rev + n
  PROVE  Promise!Leaves(StateOf(t), n)
<1>1. StateOf(sub)' = StateOf(t)
  BY DEF StateOf, Lapsed
<1> QED
  BY <1>1 DEF Promise!Leaves

LEMMA SeenSame ==
  ASSUME now' = now, sub' = sub, told' = told
  PROVE  SeenStep
  BY DEF SeenStep, StateOf, Lapsed

\* A handler that only reads the row.
LEMMA SeenRead ==
  ASSUME TypeOK, now' = now, sub' = Read(sub), told' = told
  PROVE  SeenStep
<1>1. now \in Nat /\ sub \in Row
  BY DEF TypeOK
<1>2. CASE StateOf(sub) = "over"
  <2>1. Promise!Leaves("ended", 1)
    BY <1>1, <1>2, ReadSeen, LeavesRow
  <2> QED
    BY <1>2, <2>1 DEF SeenStep, Promise!Quiet, Promise!ReadExpires
<1>3. CASE StateOf(sub) # "over"
  BY <1>1, <1>3, ReadSeen, SeenSame
<1> QED
  BY <1>2, <1>3

\* A row that a transaction gave a term ahead, after the locked read.
LEMMA LeavesLive ==
  ASSUME TypeOK, now' = now, NEW t \in Row, sub' = t, t.rev = Read(sub).rev + 1,
         t.status \in {"trial", "active"}, t.expires > now
  PROVE  \E n \in Promise!Counts : Promise!Leaves("live", n)
<1>1. now \in Nat /\ sub \in Row /\ sub.rev \in Nat
  BY DEF TypeOK, Row
<1>2. StateOf(t) = "live"
  BY <1>1, Runs
<1>3. CASE StateOf(sub) = "over"
  <2>1. t.rev = sub.rev + 2
    BY <1>1, <1>3, ReadSeen
  <2>2. Promise!Leaves("live", 2)
    BY <1>2, <2>1, LeavesRow
  <2> QED
    BY <1>3, <2>2 DEF Promise!Counts
<1>4. CASE StateOf(sub) # "over"
  <2>1. Promise!Leaves("live", 1)
    BY <1>1, <1>2, <1>4, ReadSeen, LeavesRow
  <2> QED
    BY <1>4, <2>1 DEF Promise!Counts
<1> QED
  BY <1>3, <1>4

LEMMA TrialSeen ==
  ASSUME TypeOK, NEW m \in Messages, HandleStartTrial(m)
  PROVE  SeenStep
<1>1. now' = now /\ now \in Nat /\ sub \in Row /\ Read(sub) \in Row
  BY ReadSeen DEF HandleStartTrial, Delivered, TypeOK
<1>2. CASE sub' = Read(sub) /\ told' = told
  BY <1>1, <1>2, SeenRead
<1>3. CASE /\ Read(sub).status # "grace"
           /\ sub' = StartTrialTx(Read(sub))
           /\ Publish("trialStarted", sub'.expires)
  <2> DEFINE t == StartTrialTx(Read(sub))
  <2>1. t \in Row /\ t.rev = Read(sub).rev + 1 /\ t.status \in {"trial", "active"}
    BY <1>1, TrialFacts, Marks DEF Moves
  <2>2. t.expires > now
    BY <1>1, Terms, ExtendedFacts, SubscriptionAssumption
  <2>3. sub' = t
    BY <1>3
  <2> HIDE DEF t
  <2>4. \E n \in Promise!Counts : Promise!Leaves("live", n)
    BY <1>1, <2>1, <2>2, <2>3, LeavesLive
  <2>5. StateOf(sub) # "grace"
    BY <1>1, <1>3, ReadSeen, StateFacts
  <2>6. Promise!Tells("trialStarted")
    BY <2>4, <2>5 DEF Promise!Tells, Promise!TrialStarts
  <2> QED
    BY <1>3, <2>6, Publishes DEF SeenStep, Told
<1> QED
  BY <1>2, <1>3 DEF HandleStartTrial

LEMMA PaymentSeen ==
  ASSUME TypeOK, NEW m \in Messages, HandleBillingPaymentSucceeded(m)
  PROVE  SeenStep
<1> DEFINE days == Duration[Op[m].payment]
           auto == Op[m].auto
<1>1. now' = now /\ now \in Nat /\ sub \in Row /\ Read(sub) \in Row
  BY ReadSeen DEF HandleBillingPaymentSucceeded, Delivered, TypeOK
<1>2. CASE sub' = Read(sub) /\ told' = told
  BY <1>1, <1>2, SeenRead
<1>3. CASE sub' = ActivatePaidTx(Read(sub), days, auto) /\ Publish("activated", sub'.expires)
  <2> DEFINE t == ActivatePaidTx(Read(sub), days, auto)
  <2>1. days \in Nat \ {0} /\ auto \in BOOLEAN
    BY OpTypes DEF HandleBillingPaymentSucceeded
  <2>2. sub' = t
    BY <1>3
  <2> HIDE DEF days, auto
  <2>3. t \in Row /\ t.rev = Read(sub).rev + 1 /\ t.status = "active"
    BY <1>1, <2>1, ActivateFacts, Marks DEF Moves
  <2>4. t.expires > now
    BY <1>1, <2>1, Terms, ExtendedFacts
  <2> HIDE DEF t
  <2>5. \E n \in Promise!Counts : Promise!Leaves("live", n)
    BY <1>1, <2>2, <2>3, <2>4, LeavesLive
  <2>6. Promise!Tells("activated")
    BY <2>5 DEF Promise!Tells, Promise!Activates
  <2> QED
    BY <1>3, <2>6, Publishes DEF SeenStep, Told
<1> QED
  BY <1>2, <1>3 DEF HandleBillingPaymentSucceeded

LEMMA RedeemSeen ==
  ASSUME TypeOK, NEW m \in Messages, HandleReferralRedeem(m)
  PROVE  SeenStep
<1>1. now' = now /\ now \in Nat /\ sub \in Row /\ sub.rev \in Nat
  BY DEF HandleReferralRedeem, Delivered, TypeOK, Row
<1>2. CASE ~(FreeMonths > months)
  BY <1>1, <1>2, SeenSame DEF HandleReferralRedeem
<1>3. CASE FreeMonths > months
  <2> DEFINE days == (FreeMonths - months) * MonthDays
             t == RedeemReferralMonthsTx(sub, days)
  <2>1. days \in Nat \ {0}
    BY <1>3, RedeemDays
  <2>2. sub' = Read(t) /\ Publish("activated", sub'.expires)
    BY <1>3 DEF HandleReferralRedeem
  <2> HIDE DEF days
  <2>3. /\ t \in Row /\ t.rev = sub.rev + 1 /\ t.graceUntil = sub.graceUntil
        /\ t.status = IF sub.status \in {"expired", "none"} THEN "active" ELSE sub.status
    BY <1>1, <2>1, RedeemFacts, Marks DEF Moves
  <2>4. t.expires > now
    BY <1>1, <2>1, Terms, ExtendedFacts
  <2> HIDE DEF t
  <2>5. sub.status \in {"none", "trial", "active", "grace", "expired"}
    BY <1>1 DEF Row, Statuses
  <2>6. ASSUME sub.status = "grace" PROVE Promise!Activates
    <3>1. StateOf(t) = StateOf(sub) /\ StateOf(sub) \in {"grace", "over"}
      BY <2>3, <2>6 DEF StateOf, Lapsed
    <3>2. CASE StateOf(sub) = "grace"
      <4>1. sub' = t
        BY <1>1, <2>2, <2>3, <3>1, <3>2, ReadSeen
      <4>2. Promise!Leaves("grace", 1)
        BY <1>1, <2>3, <3>1, <3>2, <4>1, LeavesRow
      <4> QED
        BY <3>2, <4>2 DEF Promise!Activates
    <3>3. CASE StateOf(sub) = "over"
      <4>1. StateOf(Read(t)) = "ended" /\ Read(t).rev = sub.rev + 2
        BY <1>1, <2>3, <3>1, <3>3, ReadSeen
      <4>2. Promise!Leaves("ended", 2)
        BY <1>1, <2>2, <4>1, LeavesRow
      <4> QED
        BY <3>3, <4>2 DEF Promise!Activates
    <3> QED
      BY <3>1, <3>2, <3>3
  <2>7. ASSUME sub.status # "grace" PROVE Promise!Activates
    <3>1. StateOf(t) = "live"
      BY <1>1, <2>3, <2>4, <2>5, <2>7, Runs
    <3>2. sub' = t
      BY <1>1, <2>2, <2>3, <3>1, ReadSeen
    <3>3. Promise!Leaves("live", 1)
      BY <1>1, <2>3, <3>1, <3>2, LeavesRow
    <3>4. 1 \in Promise!Counts
      BY DEF Promise!Counts
    <3> QED
      BY <3>3, <3>4 DEF Promise!Activates
  <2>8. Promise!Tells("activated")
    BY <2>6, <2>7 DEF Promise!Tells
  <2> QED
    BY <2>2, <2>8, Publishes DEF SeenStep, Told
<1> QED
  BY <1>2, <1>3

LEMMA CancelSeen ==
  ASSUME TypeOK, NEW m \in Messages, HandleCancel(m)
  PROVE  SeenStep
<1>1. now' = now /\ now \in Nat /\ sub \in Row /\ Read(sub) \in Row /\ sub.rev \in Nat
  BY ReadSeen DEF HandleCancel, Delivered, TypeOK, Row
<1>2. CASE sub' = Read(sub) /\ told' = told
  BY <1>1, <1>2, SeenRead
<1>3. CASE /\ Read(sub).status \in Live
           /\ sub' = CancelTx(Read(sub)) /\ Publish("canceled", sub'.expires)
  <2> DEFINE t == CancelTx(sub)
  <2>1. StateOf(sub) # "over"
    BY <1>1, <1>3, ReadFacts, ReadSeen, StateFacts DEF Live
  <2>2. Read(sub) = sub
    BY <1>1, <2>1, ReadSeen
  <2>3. sub' = t /\ t \in Row
    BY <1>1, <1>3, <2>2, CancelFacts DEF Moves
  <2>4. /\ sub.status = "trial" => t.status = "expired" /\ t.rev = sub.rev + 1
        /\ sub.status # "trial" => Same(sub, t)
    BY <1>1, QuietMarks
  <2>5. StateOf(sub) \in {"live", "grace"} /\ (sub.status = "trial" => StateOf(sub) = "live")
    BY <1>1, <1>3, <2>1, <2>2, StateFacts DEF Live
  <2> HIDE DEF t
  <2>6. ASSUME sub.status = "trial" PROVE Promise!Cancels
    <3>1. StateOf(t) = "ended"
      BY <2>3, <2>4, <2>6, StateFacts
    <3>2. Promise!Leaves("ended", 1)
      BY <1>1, <2>3, <2>4, <2>6, <3>1, LeavesRow
    <3> QED
      BY <2>5, <2>6, <3>2 DEF Promise!Cancels
  <2>7. ASSUME sub.status # "trial" PROVE Promise!Cancels
    <3>1. StateOf(t) = StateOf(sub) /\ t.rev = sub.rev + 0
      BY <1>1, <2>4, <2>7, SameSeen DEF Same
    <3>2. Promise!Leaves(StateOf(sub), 0)
      BY <1>1, <2>3, <3>1, LeavesRow
    <3> QED
      BY <2>5, <3>2 DEF Promise!Cancels
  <2>8. Promise!Tells("canceled")
    BY <2>6, <2>7 DEF Promise!Tells
  <2> QED
    BY <1>3, <2>8, Publishes DEF SeenStep, Told
<1> QED
  BY <1>2, <1>3 DEF HandleCancel

LEMMA RotateSeen ==
  ASSUME TypeOK, NEW m \in Messages, HandleRotateToken(m)
  PROVE  SeenStep
<1>1. now' = now /\ told' = told /\ now \in Nat /\ sub \in Row /\ sub.rev \in Nat
  BY DEF HandleRotateToken, Delivered, TypeOK, Row
<1>2. CASE sub' = Read(sub)
  BY <1>1, <1>2, SeenRead
<1>3. CASE Read(sub).status \in Live /\ sub' = [Read(sub) EXCEPT !.rev = @ + 1]
  <2> DEFINE t == [sub EXCEPT !.rev = @ + 1]
  <2>1. StateOf(sub) # "over"
    BY <1>1, <1>3, ReadFacts, ReadSeen, StateFacts DEF Live
  <2>2. sub' = t
    BY <1>1, <1>3, <2>1, ReadSeen
  <2>3. StateOf(sub) \in {"live", "grace"}
    BY <1>1, <1>3, <2>1, ReadSeen, StateFacts DEF Live
  <2>4. /\ t.status = sub.status /\ t.expires = sub.expires
        /\ t.graceUntil = sub.graceUntil /\ t.rev = sub.rev + 1
    BY <1>1 DEF Row
  <2> HIDE DEF t
  <2>5. StateOf(t) = StateOf(sub)
    BY <2>4 DEF StateOf, Lapsed
  <2>6. Promise!Leaves(StateOf(sub), 1)
    BY <1>1, <2>2, <2>4, <2>5, LeavesRow
  <2> QED
    BY <1>1, <2>3, <2>6 DEF SeenStep, Promise!Quiet, Promise!RotateToken
<1> QED
  BY <1>2, <1>3 DEF HandleRotateToken

LEMMA RenewOffSeen ==
  ASSUME TypeOK, NEW m \in Messages, HandleBillingAutoRenewDisabled(m)
  PROVE  SeenStep
<1> DEFINE t == MarkAutoRenewDisabledTx(sub)
<1>1. /\ now' = now /\ told' = told /\ sub' = Read(t)
      /\ now \in Nat /\ sub \in Row /\ sub.rev \in Nat
  BY DEF HandleBillingAutoRenewDisabled, Delivered, TypeOK, Row
<1>2. t \in Row /\ Same(sub, t)
  BY <1>1, DisableFacts, QuietMarks DEF Moves
<1> HIDE DEF t
<1>3. StateOf(t) = StateOf(sub) /\ t.rev = sub.rev + 0
  BY <1>1, <1>2, SameSeen DEF Same
<1>4. CASE StateOf(sub) = "over"
  <2>1. StateOf(Read(t)) = "ended" /\ Read(t).rev = sub.rev + 1
    BY <1>1, <1>2, <1>3, <1>4, ReadSeen
  <2>2. Promise!Leaves("ended", 1)
    BY <1>1, <2>1, LeavesRow
  <2> QED
    BY <1>1, <1>4, <2>2 DEF SeenStep, Promise!Quiet, Promise!ReadExpires
<1>5. CASE StateOf(sub) # "over"
  <2>1. sub' = t
    BY <1>1, <1>2, <1>3, <1>5, ReadSeen
  <2>2. Promise!Leaves(StateOf(sub), 0)
    BY <1>1, <1>3, <2>1, LeavesRow
  <2>3. UNCHANGED <<StateOf(sub), sub.rev>>
    BY <1>1, <2>2 DEF Promise!Leaves
  <2> QED
    BY <1>1, <2>3 DEF SeenStep
<1> QED
  BY <1>4, <1>5

LEMMA GraceSeen ==
  ASSUME TypeOK, NEW m \in Messages, HandleBillingGraceStarted(m)
  PROVE  SeenStep
<1> DEFINE t == MarkGraceStartedTx(sub, Op[m].until)
<1>1. /\ now' = now /\ sub' = Read(t) /\ Publish("graceStarted", Op[m].until)
      /\ now \in Nat /\ sub \in Row /\ sub.rev \in Nat /\ Op[m].until \in Nat
  BY OpTypes DEF HandleBillingGraceStarted, Delivered, TypeOK, Row
<1>2. t \in Row
  BY <1>1, GraceFacts DEF Moves
<1>3. /\ sub.status \in {"active", "grace"} => t.status = "grace" /\ t.rev = sub.rev
      /\ sub.status \notin {"active", "grace"} => t = sub
  BY <1>1, QuietMarks
<1> HIDE DEF t
<1>4. ASSUME sub.status \in {"active", "grace"} PROVE Promise!GraceStarts
  <2>1. StateOf(sub) \in {"live", "grace", "over"} /\ StateOf(t) \in {"grace", "over"}
    BY <1>1, <1>2, <1>3, <1>4, StateFacts
  <2>2. CASE StateOf(t) = "grace"
    <3>1. sub' = t
      BY <1>1, <1>2, <2>2, ReadSeen
    <3>2. t.rev = sub.rev + 0
      BY <1>1, <1>3, <1>4
    <3>3. Promise!Leaves("grace", 0)
      BY <1>1, <2>2, <3>1, <3>2, LeavesRow
    <3> QED
      BY <2>1, <3>3 DEF Promise!GraceStarts
  <2>3. CASE StateOf(t) = "over"
    <3>1. StateOf(Read(t)) = "ended" /\ Read(t).rev = sub.rev + 1
      BY <1>1, <1>2, <1>3, <1>4, <2>3, ReadSeen
    <3>2. Promise!Leaves("ended", 1)
      BY <1>1, <3>1, LeavesRow
    <3> QED
      BY <2>1, <3>2 DEF Promise!GraceStarts
  <2> QED
    BY <2>1, <2>2, <2>3
<1>5. ASSUME sub.status \notin {"active", "grace"} PROVE Promise!GraceStarts
  <2>1. sub' = Read(sub)
    BY <1>1, <1>3, <1>5
  <2>2. CASE StateOf(sub) = "over"
    <3>1. StateOf(Read(sub)) = "ended" /\ Read(sub).rev = sub.rev + 1
      BY <1>1, <2>2, ReadSeen
    <3>2. Promise!Leaves("ended", 1)
      BY <1>1, <2>1, <3>1, LeavesRow
    <3> QED
      BY <2>2, <3>2 DEF Promise!GraceStarts
  <2>3. CASE StateOf(sub) # "over"
    <3>1. sub' = sub
      BY <1>1, <2>1, <2>3, ReadSeen
    <3>2. UNCHANGED <<StateOf(sub), sub.rev>>
      BY <1>1, <3>1 DEF StateOf, Lapsed
    <3> QED
      BY <2>3, <3>2 DEF Promise!GraceStarts
  <2> QED
    BY <2>2, <2>3
<1>6. Promise!Tells("graceStarted")
  BY <1>4, <1>5 DEF Promise!Tells
<1> QED
  BY <1>1, <1>6, Publishes DEF SeenStep, Told

LEMMA SuspendSeen ==
  ASSUME TypeOK, now' = now, sub' = MarkSuspendedTx(sub), Publish("suspended", now)
  PROVE  SeenStep
<1>1. now \in Nat /\ sub \in Row
  BY DEF TypeOK
<1> DEFINE t == MarkSuspendedTx(sub)
<1>2. sub' = t /\ t \in Row /\ t.status = "expired" /\ t.rev = sub.rev + 1
  BY <1>1, SuspendFacts, Marks DEF Moves
<1> HIDE DEF t
<1>3. StateOf(t) = "ended"
  BY <1>2, StateFacts
<1>4. Promise!Leaves("ended", 1)
  BY <1>2, <1>3, LeavesRow
<1>5. Promise!Tells("suspended")
  BY <1>4 DEF Promise!Tells, Promise!Suspends
<1> QED
  BY <1>5, Publishes DEF SeenStep, Told

\* The clock can only let a date pass.
LEMMA TickSeen ==
  ASSUME TypeOK, Tick
  PROVE  SeenStep
<1>1. /\ now \in Nat /\ now' = now + 1 /\ sub' = sub /\ told' = told
      /\ sub \in Row /\ sub.rev \in Nat /\ sub.expires \in Nat /\ sub.graceUntil \in Nat
  BY DEF Tick, TypeOK, Row
<1>2. Lapsed(sub) => Lapsed(sub)'
  BY <1>1 DEF Lapsed
<1>3. CASE Lapsed(sub)' /\ ~Lapsed(sub)
  <2>1. sub.status \in {"trial", "active", "grace"}
    BY <1>1, <1>3 DEF Lapsed
  <2>2. StateOf(sub) \in {"live", "grace"} /\ StateOf(sub)' = "over"
    BY <1>1, <1>3, <2>1 DEF StateOf
  <2>3. Promise!Leaves("over", 0)
    BY <1>1, <2>2 DEF Promise!Leaves
  <2> QED
    BY <1>1, <2>2, <2>3 DEF SeenStep, Promise!Quiet, Promise!DatePasses
<1>4. CASE Lapsed(sub)' <=> Lapsed(sub)
  <2>1. UNCHANGED <<StateOf(sub), sub.rev>>
    BY <1>1, <1>4 DEF StateOf
  <2> QED
    BY <1>1, <2>1 DEF SeenStep
<1> QED
  BY <1>2, <1>3, <1>4

\* Every step is one of the promise.
LEMMA NextSeen == TypeOK /\ [Next]_vars => SeenStep
<1> SUFFICES ASSUME TypeOK, [Next]_vars PROVE SeenStep
  OBVIOUS
<1>1. ASSUME NEW m \in Messages, Handle(m) PROVE SeenStep
  <2>1. CASE HandleGetStatus(m)
    BY <2>1, SeenRead DEF HandleGetStatus, Delivered
  <2>2. CASE HandleBillingAccessExpired(m)
    BY <2>2, SuspendSeen DEF HandleBillingAccessExpired, Delivered
  <2> QED
    BY <1>1, <2>1, <2>2, TrialSeen, CancelSeen, RedeemSeen, RotateSeen, PaymentSeen,
       RenewOffSeen, GraceSeen DEF Handle
<1>2. CASE SuspendExpiredOne
  BY <1>2, SuspendSeen DEF SuspendExpiredOne
<1>3. CASE Tick
  BY <1>3, TickSeen
<1>4. ASSUME \/ \E m \in Messages : Record(m)
             \/ FindExpiredForSweep \/ RefereeConverts \/ Crash \/ UNCHANGED vars
      PROVE  SeenStep
  BY <1>4, SeenSame DEF Record, FindExpiredForSweep, RefereeConverts, Crash, vars
<1> QED
  BY <1>1, <1>2, <1>3, <1>4 DEF Next

\* The orchestrator is told what it relies on, through every handler, read, sweep, crash
\* and redelivery (publishSubscriptionEventTx, expireIfNeededTx).
THEOREM AccessPromise == Spec => AccessPromiseKept
<1>1. TypeOK /\ [Next]_vars => (sub'.expires # sub.expires => sub'.rev > sub.rev) /\ SeenStep
  BY NextRow, NextSeen DEF RowStep, Moves
<1>2. [](TypeOK) /\ [][Next]_vars
        => [][(sub'.expires # sub.expires => sub'.rev > sub.rev) /\ SeenStep]_vars
  BY <1>1, PTL
<1> QED
  BY <1>2, SubscriptionTypeCorrect, PTL DEF Spec, AccessPromiseKept, SeenStep

\* The subscription implements the specification that Access takes its environment from.
THEOREM ImplementsPromise == Spec => Promise!Spec
<1>1. Init => Promise!Init
  BY DEF Init, Promise!Init, StateOf
<1>2. SeenStep => [Promise!Next]_[state |-> StateOf(sub), rev |-> sub.rev]
  <2>1. ASSUME told'.rev = sub'.rev, Promise!Tells(told'.event)
        PROVE  Promise!Next
    <3>1. told'.event \in Promise!EventKinds
      BY <2>1 DEF Promise!Tells, Promise!EventKinds
    <3> QED
      BY <2>1, <3>1 DEF Promise!Next
  <2>2. ASSUME UNCHANGED <<StateOf(sub), sub.rev>>
        PROVE  UNCHANGED [state |-> StateOf(sub), rev |-> sub.rev]
    BY <2>2
  <2> QED
    BY <2>1, <2>2 DEF SeenStep, Promise!Next
<1>3. TypeOK /\ [Next]_vars => [Promise!Next]_[state |-> StateOf(sub), rev |-> sub.rev]
  BY <1>2, NextSeen
<1> QED
  BY <1>1, <1>3, SubscriptionTypeCorrect, PTL DEF Spec, Promise!Spec
=============================================================================
