---------------------------- MODULE MCSubscription ----------------------------
(***************************************************************************)
(* Histories of one user for TLC: what the bot's user can ask, or what        *)
(* billing can report.  A behaviour takes its messages from one of the two,   *)
(* and each has bounds of its own.                                            *)
(***************************************************************************)
EXTENDS Subscription, Sequences, TLC

CONSTANTS pay1, pay2

Pay(p, a) == [kind |-> "pay", payment |-> p, auto |-> a]
Grace(u) == [kind |-> "grace", until |-> u]
Kind(k) == [kind |-> k]

MCDuration == (pay1 :> 2) @@ (pay2 :> 1)

\* No message waits for another.
MCNoOrder == [m \in Messages |-> {}]

\* Everything the bot's user can ask, around one renewing payment.
UserOps == <<Kind("trial"), Kind("cancel"), Kind("redeem"), Kind("rotate"),
             Kind("status"), Pay(pay1, TRUE)>>

\* Everything billing can report: a renewing payment, the grace its failed renewal
\* starts, the end of that grace; meanwhile a payment of another kind, the end of
\* the renewal, a trial.
BillingOps == <<Pay(pay1, TRUE), Grace(5), Kind("accessExpired"),
                Kind("renewOff"), Pay(pay2, FALSE), Kind("trial")>>
BillingOrder == <<{}, {1}, {2}, {1}, {}, {}>>

MCOps == UserOps \o BillingOps
MCOrder == [m \in Messages |-> IF m > 6 THEN {b + 6 : b \in BillingOrder[m - 6]} ELSE {}]

Came(ms) == \E m \in ms : stage[m] # "new"

\* A user's history is followed up to the last message; whether a lapsed row ends
\* is asked of the histories of billing.  Who never redeems needs no referees.
OneHistory ==
  \/ ~Came(1 .. 6) /\ converted = 0
  \/ ~Came(7 .. 12) /\ now <= LastMessage

MCNext == Next /\ OneHistory'
MCSpec == Init /\ [][MCNext]_vars /\ Fairness

\* A trial, and a user who looks in the end.
ReadOps == <<Kind("trial"), Kind("status")>>

=============================================================================
