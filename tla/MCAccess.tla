------------------------------- MODULE MCAccess -------------------------------
(* Instances of Access for TLC: two nodes in one country.                     *)
EXTENDS Access, TLC

CONSTANTS n1, n2, i1, i2

MCHomeNode == (i1 :> n1) @@ (i2 :> n2)
MCCountry == [i \in Items |-> "de"]
MCPosition == (i1 :> 1) @@ (i2 :> 2)
\* The user alone fills the first node, he and one more the second.
MCMaxUsers == (n1 :> 1) @@ (n2 :> 2)
MCWeight == [n \in Nodes |-> 100]
MCLoads == {[online |-> 0, channel |-> 0], [online |-> 0, channel |-> 3]}

\* A trial, then whatever may follow it, with a revision of its own or without.
MCKinds ==
  [r \in 0 .. MaxRev |-> CASE r = 0 -> {}
                           [] r = 1 -> {"trialStarted", "graceStarted", "canceled"}
                           [] OTHER -> {"activated", "canceled", "suspended"}]

\* Two events without a revision of their own are followed in a world as it was, and
\* without a feed.
OneHistory ==
  upsets = MaxUnrevised =>
    /\ ~asked
    /\ \A i \in Items : pool[i] = [node |-> HomeNode[i], enabled |-> TRUE]
    /\ \A n \in Nodes : servers[n] = [enabled |-> TRUE, alive |-> TRUE, others |-> 0,
                                       online |-> 0, channel |-> 0]

\* A copy of a command matters to a node that is reinstalled between the two.
CopiesMatter == commands' = commands /\ node' # node => upsets < MaxUpsets

MCNext == Next /\ OneHistory' /\ CopiesMatter

\* Fairness, in a form that is cheap to evaluate: a pass that has read a row can always
\* go on with it, and nothing but SyncListed does.
MCFairness ==
  /\ WF_vars(ListActive) /\ WF_listed(listed # 0 /\ listed' = 0)
  /\ \A n \in Nodes : WF_vars(ReceiveCommand(n, FALSE))

MCSpec == Init /\ [][MCNext]_vars /\ MCFairness

=============================================================================
