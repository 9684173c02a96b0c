------------------------------- MODULE MCOutbox -------------------------------
(* Instances of Outbox for TLC: three events, the first two of one user.      *)
EXTENDS Outbox, TLC

CONSTANTS k1, k2, p1, p2

MCEventIds == 1 .. 3
MCKeyOf == (1 :> k1) @@ (2 :> k1) @@ (3 :> k2)

=============================================================================
