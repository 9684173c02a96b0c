------------------------------ MODULE MCConsumer ------------------------------
(* Instances of Consumer for TLC.                                             *)
EXTENDS Consumer

CONSTANTS w1, w2

\* A message no handler ever accepts, one of every outcome.
MCOutcomes == <<{"error"}, {"ok", "error", "skip"}>>

\* A message no handler ever accepts, an ordinary one.
PoisonOutcomes == <<{"error"}, {"ok"}>>

=============================================================================
