---------------------------- MODULE OutboxPromise ----------------------------
(***************************************************************************)
(* What the transactional outbox promises to the rest of the platform, with *)
(* none of its mechanism: an event committed with its business transaction  *)
(* is owed to the broker; it may reach the broker any number of times while *)
(* it is owed; it is settled as delivered only after it reached the broker, *)
(* or given up, and a settled event is never sent again.  Nothing that was  *)
(* not committed is ever sent ("no phantom events", docs/adr/0001).         *)
(***************************************************************************)
EXTENDS Naturals

CONSTANT EventIds    \* identities of outbox rows

VARIABLES
  fate,     \* what the outbox owes for each event
  copies    \* how many copies of each event the broker has accepted

vars == <<fate, copies>>

Fates == {"none", "owed", "delivered", "givenUp"}

TypeOK ==
  /\ fate \in [EventIds -> Fates]
  /\ copies \in [EventIds -> Nat]

Init ==
  /\ fate = [e \in EventIds |-> "none"]
  /\ copies = [e \in EventIds |-> 0]

\* The business transaction commits together with its event.
Commit(e) ==
  /\ fate[e] = "none"
  /\ fate' = [fate EXCEPT ![e] = "owed"]
  /\ UNCHANGED copies

\* The broker accepts one more copy of an owed event (at-least-once).
Send(e) ==
  /\ fate[e] = "owed"
  /\ copies' = [copies EXCEPT ![e] = @ + 1]
  /\ UNCHANGED fate

\* The debt is paid: only an event the broker has can be settled.
Settle(e) ==
  /\ fate[e] = "owed"
  /\ copies[e] > 0
  /\ fate' = [fate EXCEPT ![e] = "delivered"]
  /\ UNCHANGED copies

\* The retries are exhausted.
GiveUp(e) ==
  /\ fate[e] = "owed"
  /\ fate' = [fate EXCEPT ![e] = "givenUp"]
  /\ UNCHANGED copies

Next == \E e \in EventIds : Commit(e) \/ Send(e) \/ Settle(e) \/ GiveUp(e)

Spec == Init /\ [][Next]_vars

=============================================================================
