------------------------------- MODULE MCBilling -------------------------------
(***************************************************************************)
(* One user's card payments with one retry after 1, so that a cycle has two  *)
(* attempts before the grace period.                                         *)
(*                                                                          *)
(* A renewal is a period away from Init.  So that the bound on time is spent *)
(* on renewals, a run starts also from the state Init reaches when the       *)
(* checkout is paid with a saved card and a period has passed.  Only         *)
(* differences of time matter, so that instant is 1 again.                   *)
(***************************************************************************)
EXTENDS Billing

CONSTANT c1

MCRetrySchedule == <<1>>

PeriodEnded ==
  /\ now = 1
  /\ profile = [status |-> "active", auto |-> TRUE, next |-> 1, retry |-> 0,
                grace |-> 0, locked |-> 0]
  /\ rows = [o \in Orders |-> IF o = c1 THEN 1 ELSE 0]
  /\ yoo = <<[order |-> c1, status |-> "succeeded", saved |-> TRUE, since |-> 0]>>
  /\ hooks = {} /\ fingerprints = {1} /\ working = {}
  /\ job = Idle
  /\ ending = FALSE
  /\ reported = {1}
  /\ faults = 0

MCSpec == (Init \/ PeriodEnded) /\ [][Next]_vars /\ Fairness

=============================================================================
