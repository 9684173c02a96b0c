------------------------------ MODULE MCCdnQuota ------------------------------
(* Instances of CdnQuota for TLC.                                             *)
EXTENDS CdnQuota

CONSTANTS n1, pay1

\* A revision that is not a payment's is followed in a history without faults.
OneHistory == rev = 1 \/ paid # {} \/ faults = 0

MCNext == Next /\ OneHistory'
MCSpec == Init /\ [][MCNext]_vars /\ Fairness

=============================================================================
