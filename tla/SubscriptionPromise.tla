------------------------- MODULE SubscriptionPromise -------------------------
(***************************************************************************)
(* What user-subscription promises to the orchestrator about one user: how  *)
(* the access it reads in user_subscriptions may change, silently or with   *)
(* an event on subscription.events, which carries the revision the change   *)
(* leaves.  Subscription keeps it; Access relies on it.                     *)
(***************************************************************************)
EXTENDS Naturals

VARIABLE access    \* the state of the user's access and its revision

\* live: the term runs.  grace: the term is billing's to save.  over: its date has
\* passed and nobody has written it yet.  ended: status expired.
States == {"none", "live", "grace", "over", "ended"}

EventKinds == {"trialStarted", "activated", "graceStarted", "canceled", "suspended"}

Init == access = [state |-> "none", rev |-> 0]

Leaves(state, n) == access' = [state |-> state, rev |-> access.rev + n]

------------------------------------------------------------------------------
(* What changes in silence.                                                  *)

\* A new token for the link.
RotateToken == access.state \in {"live", "grace"} /\ Leaves(access.state, 1)

DatePasses == access.state \in {"live", "grace"} /\ Leaves("over", 0)

\* A locked read writes that the date has passed.
ReadExpires == access.state = "over" /\ Leaves("ended", 1)

Quiet == RotateToken \/ DatePasses \/ ReadExpires

------------------------------------------------------------------------------
(* What an event tells.                                                      *)

\* The locked read may have ended the term that passed, with a revision of its own.
Counts == IF access.state = "over" THEN {1, 2} ELSE {1}

TrialStarts == access.state # "grace" /\ \E n \in Counts : Leaves("live", n)

\* Months redeemed in grace leave the grace, which may be past.
Activates ==
  \/ \E n \in Counts : Leaves("live", n)
  \/ access.state = "grace" /\ Leaves("grace", 1)
  \/ access.state = "over" /\ Leaves("ended", 2)

\* The end of renewal is no new revision; the end of a trial is one.
Cancels ==
  \/ access.state \in {"live", "grace"} /\ Leaves(access.state, 0)
  \/ access.state = "live" /\ Leaves("ended", 1)

\* Told of any row, with a date that may be past.
GraceStarts ==
  \/ access.state \in {"live", "grace", "over"} /\ Leaves("grace", 0)
  \/ access.state \in {"live", "grace", "over"} /\ Leaves("ended", 1)
  \/ access.state # "over" /\ UNCHANGED access

Suspends == Leaves("ended", 1)

Tells(kind) ==
  \/ kind = "trialStarted" /\ TrialStarts
  \/ kind = "activated" /\ Activates
  \/ kind = "canceled" /\ Cancels
  \/ kind = "graceStarted" /\ GraceStarts
  \/ kind = "suspended" /\ Suspends

Next == Quiet \/ \E kind \in EventKinds : Tells(kind)

Spec == Init /\ [][Next]_access

=============================================================================
