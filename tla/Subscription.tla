----------------------------- MODULE Subscription -----------------------------
(***************************************************************************)
(* The subscription of one user in internal/user_subscription: the row of   *)
(* user_subscriptions, the handlers of the two consumers (commands of the   *)
(* bot, events of billing), the expiry sweep, and the access events the     *)
(* service publishes for the orchestrator.                                  *)
(*                                                                          *)
(* Every handler works on the row of one telegram_id under its row lock, so *)
(* a handler's transaction is one action on one row and one user is enough. *)
(* What is not atomic is kept apart: the business transaction of a message  *)
(* and the later commit of its processed_messages row, and the sweep's      *)
(* search and the suspensions that follow it.                               *)
(*                                                                          *)
(* Time is in days of an abstract calendar; 0 stands for NULL.  Plans,      *)
(* notifications, country, token values and the columns canceled_at and     *)
(* started_at are left out.                                                 *)
(***************************************************************************)
EXTENDS Naturals, FiniteSetsExt

CONSTANTS
  Messages,       \* messages of the topics subscription.commands, billing.events
  Op,             \* what each message asks for
  After,          \* messages that precede it on its topic or cause it
  Payments,       \* payment ids
  Duration,       \* days each payment buys
  TrialDays,      \* SUBSCRIPTION trial length
  MonthDays,      \* days of a referral month
  UsersPerMonth,  \* converted referees per free month
  PlainMargin,    \* EXPIRY_SWEEP_MARGIN
  RenewMargin,    \* EXPIRY_SWEEP_AUTORENEW_MARGIN
  MaxReferees,    \* bound: referees of this user who pay
  MaxCrashes,     \* bound: crashes of the service
  LastMessage,    \* bound: no message is handled after this instant
  MaxTime         \* bound: the last instant of the calendar

Commands == [kind : {"trial", "status", "cancel", "redeem", "rotate"}]
BillingEvents ==
  [kind : {"pay"}, payment : Payments, auto : BOOLEAN]
    \cup [kind : {"renewOff", "accessExpired"}]
    \cup [kind : {"grace"}, until : Nat \ {0}]

ASSUME SubscriptionAssumption ==
  /\ Op \in [Messages -> Commands \cup BillingEvents]
  /\ After \in [Messages -> SUBSET Messages]
  /\ Duration \in [Payments -> Nat \ {0}]
  /\ "trial" \notin Payments
  /\ {TrialDays, MonthDays, UsersPerMonth} \subseteq Nat \ {0}
  /\ {PlainMargin, RenewMargin} \subseteq Nat
  /\ {MaxReferees, MaxCrashes, LastMessage, MaxTime} \subseteq Nat

VARIABLES
  now,        \* the clock
  sub,        \* the row of user_subscriptions
  grants,     \* business keys of the user's rows in subscription_grants
  months,     \* SUM(months_granted) of referral_reward_grants
  converted,  \* referees with status converted
  stage,      \* how far each message is in processSubscriptionMessageOnce
  candidate,  \* the sweep has found the row lapsed and not suspended it yet
  told,       \* the last access event published
  crashes     \* crashes so far

messageVars == <<stage, crashes>>
ledgerVars == <<grants, months, converted>>
vars == <<now, sub, ledgerVars, messageVars, candidate, told>>

Statuses == {"none", "trial", "active", "grace", "expired"}
Live == {"trial", "active", "grace"}

Row == [status : Statuses, expires : Nat, graceUntil : Nat, autoRenew : BOOLEAN,
        cancelAtEnd : BOOLEAN, trialUsed : BOOLEAN, rev : Nat]

Announcement == [event : {"none", "trialStarted", "activated", "canceled",
                          "graceStarted", "suspended"},
                 until : Nat, rev : Nat]

TypeOK ==
  /\ now \in Nat
  /\ sub \in Row
  /\ grants \subseteq Payments \cup {"trial"}
  /\ months \in Nat
  /\ converted \in 0 .. MaxReferees
  /\ stage \in [Messages -> {"new", "applied", "again", "recorded"}]
  /\ candidate \in BOOLEAN
  /\ told \in Announcement
  /\ crashes \in 0 .. MaxCrashes

------------------------------------------------------------------------------
(* The transactions on the row, as functions of the row they lock.           *)

Lapsed(r) ==
  \/ r.status \in {"trial", "active"} /\ r.expires <= now
  \/ r.status = "grace" /\ r.graceUntil <= now

\* Mutant of Read: lazy expiry that makes no new revision.
ReadQuietly(r) ==
  IF Lapsed(r)
    THEN [r EXCEPT !.status = "expired", !.autoRenew = FALSE, !.cancelAtEnd = TRUE]
    ELSE r

\* expireIfNeededTx, which getStateForUpdateTx runs on every locked read.
Read(r) ==
  IF Lapsed(r)
    THEN [r EXCEPT !.status = "expired", !.autoRenew = FALSE,
                   !.cancelAtEnd = TRUE, !.rev = @ + 1]
    ELSE r

\* Mutant of Extended: the days replace the term instead of extending it.
ExtendedFromNow(r, days) == now + days

\* GREATEST(COALESCE(expires_at, now), now) + days
Extended(r, days) == (IF r.expires > now THEN r.expires ELSE now) + days

\* Mutant of StartTrialTx: the trial takes over a paid row.
StartTrialOverPaid(r) ==
  [r EXCEPT !.status = "trial", !.trialUsed = TRUE, !.expires = Extended(r, TrialDays),
            !.graceUntil = 0, !.autoRenew = FALSE, !.cancelAtEnd = FALSE, !.rev = @ + 1]

StartTrialTx(r) ==
  LET paid == r.status = "active" /\ r.expires > now
  IN  [r EXCEPT !.status = IF paid THEN "active" ELSE "trial",
                !.trialUsed = TRUE,
                !.expires = Extended(r, TrialDays),
                !.graceUntil = 0,
                !.autoRenew = paid /\ @,
                !.cancelAtEnd = paid /\ @,
                !.rev = @ + 1]

\* Mutant of ActivatePaidTx: a renewing payment leaves cancel_at_period_end set.
ActivateKeepsCancel(r, days, auto) ==
  [r EXCEPT !.status = "active", !.expires = Extended(r, days), !.graceUntil = 0,
            !.autoRenew = @ \/ auto, !.rev = @ + 1]

ActivatePaidTx(r, days, auto) ==
  [r EXCEPT !.status = "active",
            !.expires = Extended(r, days),
            !.graceUntil = 0,
            !.autoRenew = @ \/ auto,
            !.cancelAtEnd = @ /\ ~auto,
            !.rev = @ + 1]

\* CancelTx of a row in one of the live statuses.
CancelTx(r) ==
  IF r.status = "trial"
    THEN [r EXCEPT !.status = "expired", !.expires = now, !.graceUntil = 0,
                   !.autoRenew = FALSE, !.cancelAtEnd = TRUE, !.rev = @ + 1]
    ELSE [r EXCEPT !.autoRenew = FALSE, !.cancelAtEnd = TRUE]

MarkAutoRenewDisabledTx(r) ==
  [r EXCEPT !.autoRenew = FALSE,
            !.cancelAtEnd = @ \/ r.status \in {"active", "grace"}]

MarkGraceStartedTx(r, until) ==
  IF r.status \in {"active", "grace"}
    THEN [r EXCEPT !.status = "grace", !.graceUntil = until]
    ELSE r

\* Mutant of MarkSuspendedTx: the name of the event is written as the status.
MarkSuspendedMisnamed(r) ==
  [r EXCEPT !.status = "suspended", !.rev = @ + 1]

MarkSuspendedTx(r) ==
  [r EXCEPT !.status = "expired",
            !.expires = IF @ = 0 \/ @ > now THEN now ELSE @,
            !.graceUntil = 0, !.autoRenew = FALSE, !.cancelAtEnd = TRUE,
            !.rev = @ + 1]

RedeemReferralMonthsTx(r, days) ==
  [r EXCEPT !.expires = Extended(r, days),
            !.status = IF @ \in {"expired", "none"} THEN "active" ELSE @,
            !.rev = @ + 1]

FreeMonths == converted \div UsersPerMonth

------------------------------------------------------------------------------
Init ==
  /\ now = 1
  /\ sub = [status |-> "none", expires |-> 0, graceUntil |-> 0,
            autoRenew |-> FALSE, cancelAtEnd |-> FALSE, trialUsed |-> FALSE,
            rev |-> 0]
  /\ grants = {}
  /\ months = 0
  /\ converted = 0
  /\ stage = [m \in Messages |-> "new"]
  /\ candidate = FALSE
  /\ told = [event |-> "none", until |-> 0, rev |-> 0]
  /\ crashes = 0

Topic(m) == IF Op[m] \in Commands THEN "commands" ELSE "billing"

\* The consumer of m's topic takes m, new or redelivered, once it has finished
\* with the message before it; the handler's transaction commits.
Delivered(m) ==
  /\ now <= LastMessage
  /\ stage[m] \in {"new", "again"}
  /\ \A n \in After[m] : stage[n] = "recorded"
  /\ \A n \in Messages \ {m} :
       Topic(n) = Topic(m) => stage[n] \in {"new", "recorded"}
  /\ stage' = [stage EXCEPT ![m] = "applied"]
  /\ UNCHANGED <<now, converted, candidate, crashes>>

\* Mutant of Publish: the term comes from the state read before the update.
PublishStale(event, until) ==
  told' = [event |-> event, until |-> sub.expires, rev |-> sub'.rev]

Publish(event, until) ==
  told' = [event |-> event, until |-> until, rev |-> sub'.rev]

\* HandleStartTrial
HandleStartTrial(m) ==
  /\ Op[m].kind = "trial"
  /\ Delivered(m)
  /\ LET r == Read(sub)
     IN  IF r.trialUsed \/ r.status = "grace"
           THEN sub' = r /\ UNCHANGED <<grants, told>>
           ELSE /\ "trial" \notin grants
                /\ sub' = StartTrialTx(r)
                /\ grants' = grants \cup {"trial"}
                /\ Publish("trialStarted", sub'.expires)
  /\ UNCHANGED months

\* HandleGetStatus and HandleGetLinks: a read, which may expire the row.
HandleGetStatus(m) ==
  /\ Op[m].kind = "status"
  /\ Delivered(m)
  /\ sub' = Read(sub)
  /\ UNCHANGED <<grants, months, told>>

\* HandleCancel; DisableAutoRenewCommand goes to billing with a paid row.
HandleCancel(m) ==
  /\ Op[m].kind = "cancel"
  /\ Delivered(m)
  /\ LET r == Read(sub)
     IN  IF r.status \in Live
           THEN sub' = CancelTx(r) /\ Publish("canceled", sub'.expires)
           ELSE sub' = r /\ UNCHANGED told
  /\ UNCHANGED <<grants, months>>

\* HandleReferralRedeem
HandleReferralRedeem(m) ==
  /\ Op[m].kind = "redeem"
  /\ Delivered(m)
  /\ IF FreeMonths > months
       THEN /\ sub' = Read(RedeemReferralMonthsTx(sub, (FreeMonths - months) * MonthDays))
            /\ months' = FreeMonths
            /\ Publish("activated", sub'.expires)
       ELSE UNCHANGED <<sub, months, told>>
  /\ UNCHANGED grants

\* HandleRotateToken: a new link is a new revision of the access.  Without a row, which
\* is "none" here, getStateForUpdateTx fails: the message is tried again, which is not to
\* take this step yet, and ends as a dead letter, which like a refusal changes nothing.
HandleRotateToken(m) ==
  /\ Op[m].kind = "rotate"
  /\ Delivered(m)
  /\ LET r == Read(sub)
     IN  sub' = IF r.status \in Live /\ r.expires > now THEN [r EXCEPT !.rev = @ + 1] ELSE r
  /\ UNCHANGED <<grants, months, told>>

\* Mutant of HandleBillingPaymentSucceeded: nothing remembers the payment.
PaymentNotDeduplicated(m) ==
  /\ Op[m].kind = "pay"
  /\ Delivered(m)
  /\ sub' = ActivatePaidTx(Read(sub), Duration[Op[m].payment], Op[m].auto)
  /\ grants' = grants \cup {Op[m].payment}
  /\ Publish("activated", sub'.expires)
  /\ UNCHANGED months

\* HandleBillingPaymentSucceeded: the processed_messages row "payment:<id>", the
\* last_payment_id check and the UNIQUE grant all answer the question the grant
\* answers here.
HandleBillingPaymentSucceeded(m) ==
  /\ Op[m].kind = "pay"
  /\ Delivered(m)
  /\ LET r == Read(sub)
         payment == Op[m].payment
     IN  IF payment \in grants
           THEN sub' = r /\ UNCHANGED <<grants, told>>
           ELSE /\ sub' = ActivatePaidTx(r, Duration[payment], Op[m].auto)
                /\ grants' = grants \cup {payment}
                /\ Publish("activated", sub'.expires)
  /\ UNCHANGED months

\* HandleBillingAutoRenewDisabled and HandleBillingPaymentMethodUnbound
HandleBillingAutoRenewDisabled(m) ==
  /\ Op[m].kind = "renewOff"
  /\ Delivered(m)
  /\ sub' = Read(MarkAutoRenewDisabledTx(sub))
  /\ UNCHANGED <<grants, months, told>>

\* HandleBillingGraceStarted: the event is published whatever the row became.
HandleBillingGraceStarted(m) ==
  /\ Op[m].kind = "grace"
  /\ Delivered(m)
  /\ sub' = Read(MarkGraceStartedTx(sub, Op[m].until))
  /\ Publish("graceStarted", Op[m].until)
  /\ UNCHANGED <<grants, months>>

\* HandleBillingAccessExpired
HandleBillingAccessExpired(m) ==
  /\ Op[m].kind = "accessExpired"
  /\ Delivered(m)
  /\ sub' = MarkSuspendedTx(sub)
  /\ Publish("suspended", now)
  /\ UNCHANGED <<grants, months>>

Handle(m) ==
  \/ HandleStartTrial(m) \/ HandleGetStatus(m) \/ HandleCancel(m)
  \/ HandleReferralRedeem(m) \/ HandleRotateToken(m)
  \/ HandleBillingPaymentSucceeded(m) \/ HandleBillingAutoRenewDisabled(m)
  \/ HandleBillingGraceStarted(m) \/ HandleBillingAccessExpired(m)

\* processSubscriptionMessageOnce commits the message id after the handler.
Record(m) ==
  /\ stage[m] = "applied"
  /\ stage' = [stage EXCEPT ![m] = "recorded"]
  /\ UNCHANGED <<now, sub, ledgerVars, candidate, told, crashes>>

\* The service dies, or loses its database: the ids that were not committed yet
\* are lost and their messages come again; so is the sweep's list.
Crash ==
  /\ crashes < MaxCrashes
  /\ crashes' = crashes + 1
  /\ stage' = [m \in Messages |-> IF stage[m] = "applied" THEN "again" ELSE stage[m]]
  /\ candidate' = FALSE
  /\ UNCHANGED <<now, sub, ledgerVars, told>>

\* Mutant of FindExpiredForSweep: a row in grace is left to billing.
FindSkipsGrace ==
  /\ ~candidate
  /\ sub.status \in {"trial", "active"}
  /\ sub.expires + (IF sub.autoRenew THEN RenewMargin ELSE PlainMargin) <= now
  /\ candidate' = TRUE
  /\ UNCHANGED <<now, sub, ledgerVars, messageVars, told>>

\* FindExpiredForSweep: a query of its own, before the transactions that suspend.
FindExpiredForSweep ==
  /\ ~candidate
  /\ \/ /\ sub.status \in {"trial", "active"}
        /\ sub.expires + (IF sub.autoRenew THEN RenewMargin ELSE PlainMargin) <= now
     \/ /\ sub.status = "grace"
        /\ sub.graceUntil + PlainMargin <= now
  /\ candidate' = TRUE
  /\ UNCHANGED <<now, sub, ledgerVars, messageVars, told>>

\* suspendExpiredOne
SuspendExpiredOne ==
  /\ candidate
  /\ candidate' = FALSE
  /\ sub' = MarkSuspendedTx(sub)
  /\ Publish("suspended", now)
  /\ UNCHANGED <<now, ledgerVars, messageVars>>

\* MarkReferralConvertedTx, in the activation of someone this user invited.
RefereeConverts ==
  /\ converted < MaxReferees
  /\ converted' = converted + 1
  /\ UNCHANGED <<now, sub, grants, months, messageVars, candidate, told>>

Tick ==
  /\ now < MaxTime
  /\ now' = now + 1
  /\ UNCHANGED <<sub, ledgerVars, messageVars, candidate, told>>

Next ==
  \/ \E m \in Messages : Handle(m) \/ Record(m)
  \/ FindExpiredForSweep \/ SuspendExpiredOne
  \/ RefereeConverts \/ Crash \/ Tick

Spec == Init /\ [][Next]_vars

\* The sweep worker never stops by itself and the clock advances.  Nothing is
\* assumed of the users, of billing or of the consumers.
Fairness == WF_vars(Tick) /\ WF_vars(FindExpiredForSweep) /\ WF_vars(SuspendExpiredOne)

FairSpec == Spec /\ Fairness

------------------------------------------------------------------------------
(* Properties.                                                               *)

\* Days of access this user has been granted: the subscription_grants ledger and
\* the referral months.
GrantedDays ==
  (IF "trial" \in grants THEN TrialDays ELSE 0)
    + MapThenSumSet(LAMBDA p : Duration[p], grants \ {"trial"})
    + months * MonthDays

\* One trial, one extension per payment, one month per UsersPerMonth converted
\* referees, however often a message comes again and whatever crashes in between
\* (StartTrialTx, ActivatePaidTx, RedeemReferralMonthsTx): the time that is left to a
\* user is never more than all he was ever granted, what he has used up included.
NoFreeTime == sub.expires <= now + GrantedDays

\* "The effective term never decreases" (StartTrialTx, ActivatePaidTx, redeem): a
\* step that moves expires_at back is one that ends the subscription.
TermNeverShortened ==
  [][sub'.expires < sub.expires => sub'.status = "expired"]_vars

\* "A paid subscription is not demoted to trial" (StartTrialTx).
PaidNotDemoted ==
  [][sub.status = "active" /\ sub.expires > now => sub'.status # "trial"]_vars

\* The user's access as the orchestrator sees it in the row.
StateOf(r) ==
  IF r.status = "none" THEN "none"
  ELSE IF r.status = "expired" THEN "ended"
  ELSE IF Lapsed(r) THEN "over"
  ELSE IF r.status = "grace" THEN "grace" ELSE "live"

Promise == INSTANCE SubscriptionPromise
             WITH access <- [state |-> StateOf(sub), rev |-> sub.rev]

\* What the orchestrator relies on: a new term has a new revision, and every change of
\* the access is one that SubscriptionPromise allows, in silence or with the very event
\* and revision it names, whichever handler, read, sweep or redelivery made it
\* (publishSubscriptionEventTx, UpsertAccessProjectionTx keeps the newest revision).
AccessPromiseKept ==
  [][/\ sub'.expires # sub.expires => sub'.rev > sub.rev
     /\ \/ told' = told /\ (Promise!Quiet \/ UNCHANGED <<StateOf(sub), sub.rev>>)
        \/ told'.rev = sub'.rev /\ Promise!Tells(told'.event)]_vars

\* A subscription either renews or ends with its period, whichever of cancel,
\* payment, unbinding and expiry came last.
RenewsOrEnds == ~(sub.autoRenew /\ sub.cancelAtEnd)

\* While a trial or paid term runs, the last access event published carries that
\* very term: no handler moves expires_at without telling the orchestrator.
\* HandleBillingGraceStarted publishes its own date whatever the row became, so
\* graceStarted is left out.
TermAnnounced ==
  sub.status \in {"trial", "active"} /\ sub.expires > now
    => told.event = "graceStarted" \/ told.until = sub.expires

\* The sweep, with nobody reading the row and billing silent, ends every lapsed
\* subscription whatever its status and renewal flag.
LapsedEnds == Lapsed(sub) ~> ~Lapsed(sub)

------------------------------------------------------------------------------
(* Statements of the documentation and comments the code does not keep.      *)

\* docs/adr/0003: "Access ends when the subscription ends, regardless of payment
\* method, provider health".  The orchestrator revokes when it is told to.
LapseAnnounced ==
  Lapsed(sub) ~>
    ~Lapsed(sub) /\ (sub.status = "expired" => told.event \in {"suspended", "canceled"})

=============================================================================
