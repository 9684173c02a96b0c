----------------------------- MODULE AccessProofs -----------------------------
(***************************************************************************)
(* Theorems about Access, for any nodes, items, capacities, bounds and      *)
(* order of the events: types, and that the end of access reaches every     *)
(* node that has the user while no item changes its node.                   *)
(*                                                                          *)
(* The argument: while the revoke of the end is not on its way to a node,   *)
(* the node has taken it or something newer, if it has the user or a sync   *)
(* of before the end may still reach it.  It holds because every node that   *)
(* was ever synced is in a row of the user's credentials, and the end        *)
(* revokes on all of them, enabled or not.                                   *)
(***************************************************************************)
EXTENDS Access, TLAPS

Projections ==
  [status : {"none", "trial", "active", "grace", "expired"}, rev : Revs]

------------------------------------------------------------------------------
(* Types.                                                                    *)

\* The allocator answers with items of the pool and their nodes (selectBalancedItems).
LEMMA SelectedTypes ==
  ASSUME TypeOK
  PROVE  /\ Selected \subseteq Items
         /\ SelectedNodes \subseteq Nodes
         /\ \A i \in Items : pool[i].node \in Nodes /\ pool[i].node # None
<1>1. Selected \subseteq Items
  BY DEF Selected
<1>2. \A i \in Items : pool[i].node \in Nodes
  BY DEF TypeOK
<1> QED
  BY <1>1, <1>2, AccessAssumption DEF SelectedNodes

\* EnsureCredentialsForItemsTx writes credentials.
LEMMA EnsureType ==
  ASSUME TypeOK, EnsureCredentials
  PROVE  creds' \in [Items -> Credentials]
<1>1. \A i \in Items : creds[i] \in Credentials
  BY DEF TypeOK
<1>2. \A i \in Items : [node |-> pool[i].node, enabled |-> TRUE] \in Credentials
  BY SelectedTypes DEF Credentials, NodeOrNone
<1> QED
  BY <1>1, <1>2 DEF EnsureCredentials

\* publishSyncCommands and publishRevokeCommands write commands.
LEMMA SyncType ==
  ASSUME TypeOK, NEW rev \in Revs, PublishSync(rev)
  PROVE  commands' \in [Nodes -> SUBSET Commands] /\ stray' \subseteq Nodes
<1>1. [kind |-> "sync", rev |-> rev] \in Commands
  BY DEF Commands
<1>2. \A n \in Nodes : commands[n] \subseteq Commands
  BY DEF TypeOK
<1>3. stray' \subseteq Nodes
  BY SelectedTypes DEF TypeOK, PublishSync
<1> QED
  BY <1>1, <1>2, <1>3 DEF PublishSync

LEMMA RevokeType ==
  ASSUME TypeOK, NEW rev \in Revs, DisableAndRevoke(rev)
  PROVE  commands' \in [Nodes -> SUBSET Commands] /\ creds' \in [Items -> Credentials]
<1>1. [kind |-> "revoke", rev |-> rev] \in Commands
  BY DEF Commands
<1>2. \A n \in Nodes : commands[n] \subseteq Commands
  BY DEF TypeOK
<1>4. \A c \in Credentials : [c EXCEPT !.enabled = FALSE] \in Credentials
  BY DEF Credentials
<1>5. \A i \in Items : creds[i] \in Credentials
  BY DEF TypeOK
<1>6. \A i \in Items : [creds[i] EXCEPT !.enabled = FALSE] \in Credentials
  BY <1>4, <1>5
<1> QED
  BY <1>1, <1>2, <1>6 DEF DisableAndRevoke

\* UpsertAccessProjectionTx
LEMMA ProjectedType ==
  ASSUME TypeOK, NEW rev \in Revs,
         NEW status \in {"none", "trial", "active", "grace", "expired"}
  PROVE  Projected(status, rev) \in Projections
  BY DEF Projected, Projections, TypeOK

LEMMA ProvisionType ==
  ASSUME TypeOK, NEW rev \in Revs, NEW status \in {"trial", "active", "grace"},
         Provision(status, rev)
  PROVE  /\ projection' \in Projections
         /\ creds' \in [Items -> Credentials]
         /\ commands' \in [Nodes -> SUBSET Commands]
         /\ stray' \subseteq Nodes
  BY EnsureType, SyncType, ProjectedType DEF Provision

LEMMA WithdrawType ==
  ASSUME TypeOK, NEW rev \in Revs, Withdraw(rev)
  PROVE  /\ projection' \in Projections
         /\ creds' \in [Items -> Credentials]
         /\ commands' \in [Nodes -> SUBSET Commands]
         /\ stray' \subseteq Nodes
<1>1. stray' \subseteq Nodes
  BY DEF Withdraw, TypeOK
<1> QED
  BY <1>1, RevokeType, ProjectedType DEF Withdraw

\* An event taken from the topic, wherever it stands, leaves the others.
LEMMA ConsumeType ==
  ASSUME TypeOK, NEW i \in 1 .. MaxEvents, NEW again \in BOOLEAN, Consume(i, again)
  PROVE  /\ events[i] \in Events
         /\ events[i].rev \in Revs
         /\ events' \in Seq(Events)
         /\ upsets' \in Nat
         /\ UNCHANGED <<sub, node, pool, servers, listed, asked>>
<1>1. events \in Seq(Events) /\ i \in 1 .. Len(events)
  BY DEF TypeOK, Consume
<1>2. SubSeq(events, 1, i - 1) \in Seq(Events) /\ SubSeq(events, i + 1, Len(events)) \in Seq(Events)
  <2>1. \A k \in 1 .. i - 1 : k \in 1 .. Len(events)
    BY <1>1
  <2>2. \A k \in i + 1 .. Len(events) : k \in 1 .. Len(events)
    BY <1>1
  <2> QED
    BY <1>1, <2>1, <2>2
<1>3. SubSeq(events, 1, i - 1) \o SubSeq(events, i + 1, Len(events)) \in Seq(Events)
  BY <1>2
<1>4. events' \in Seq(Events)
  BY <1>1, <1>3 DEF Consume
<1>5. events[i] \in Events
  BY <1>1
<1>6. upsets' \in Nat
  <2>1. upsets' = upsets \/ upsets' = upsets + 1
    BY DEF Consume
  <2>2. upsets \in Nat
    BY DEF TypeOK
  <2> HIDE DEF TypeOK
  <2> QED
    BY <2>1, <2>2
<1>7. events[i].rev \in Revs
  BY <1>5 DEF Events
<1> QED
  BY <1>4, <1>5, <1>6, <1>7 DEF Consume, world, reads

LEMMA InitType == Init => TypeOK
<1> SUFFICES ASSUME Init PROVE TypeOK
  OBVIOUS
<1>1. 0 \in Revs
  BY AccessAssumption DEF Revs
<1>2. sub \in [state : Source!States, rev : Revs]
  BY <1>1 DEF Init, Source!Init, Source!States
<1>3. projection \in Projections
  BY <1>1 DEF Init, Projections
<1>4. creds \in [Items -> Credentials]
  BY DEF Init, Credentials, NodeOrNone
<1>5. node \in [Nodes -> [account : BOOLEAN, rev : Revs]]
  BY <1>1 DEF Init
<1>6. pool \in [Items -> [node : Nodes, enabled : BOOLEAN]]
  BY AccessAssumption DEF Init
<1>7. commands \in [Nodes -> SUBSET Commands] /\ events \in Seq(Events)
  BY DEF Init
<1>8. servers \in [Nodes -> [enabled : BOOLEAN, alive : BOOLEAN, others : Nat,
                             online : Nat, channel : Nat]]
  BY DEF Init
<1>9. listed \in Revs /\ asked \in BOOLEAN /\ upsets \in Nat /\ stray \subseteq Nodes
  BY <1>1 DEF Init
<1> QED
  BY <1>2, <1>3, <1>4, <1>5, <1>6, <1>7, <1>8, <1>9 DEF TypeOK, Projections

\* A handler of the consumer keeps the types, whatever event it is given.
LEMMA HandleType ==
  ASSUME TypeOK, NEW i \in 1 .. MaxEvents, NEW again \in BOOLEAN,
         Handle(i, again) \/ DeadLetter(i)
  PROVE  TypeOK'
<1>1. \/ /\ Consume(i, again)
         /\ \/ \E status \in {"trial", "active", "grace"} : Provision(status, events[i].rev)
            \/ Withdraw(events[i].rev)
      \/ Consume(i, FALSE) /\ UNCHANGED <<projection, creds, commands, stray>>
  <2>1. CASE ApplyCanceled(i, again)
    <3>1. Provision("active", events[i].rev) \/ Withdraw(events[i].rev)
      BY <2>1 DEF ApplyCanceled
    <3> QED
      BY <2>1, <3>1 DEF ApplyCanceled
  <2>2. CASE ~ApplyCanceled(i, again)
    BY <2>2 DEF Handle, DeadLetter, ApplyTrialStarted, ApplyActivated, ApplyGraceStarted,
                ApplySuspended
  <2> QED
    BY <2>1, <2>2
<1>2. CASE Consume(i, FALSE) /\ UNCHANGED <<projection, creds, commands, stray>>
  <2>1. /\ events' \in Seq(Events)
        /\ upsets' \in Nat
        /\ UNCHANGED <<sub, node, pool, servers, listed, asked>>
    BY <1>2, ConsumeType
  <2> QED
    BY <1>2, <2>1 DEF TypeOK
<1>3. ASSUME Consume(i, again),
             \/ \E status \in {"trial", "active", "grace"} : Provision(status, events[i].rev)
             \/ Withdraw(events[i].rev)
      PROVE  TypeOK'
  <2>1. /\ events[i].rev \in Revs
        /\ events' \in Seq(Events)
        /\ upsets' \in Nat
        /\ UNCHANGED <<sub, node, pool, servers, listed, asked>>
    BY <1>3, ConsumeType
  <2>2. /\ projection' \in Projections
        /\ creds' \in [Items -> Credentials]
        /\ commands' \in [Nodes -> SUBSET Commands]
        /\ stray' \subseteq Nodes
    BY <1>3, <2>1, ProvisionType, WithdrawType
  <2> QED
    BY <2>1, <2>2 DEF TypeOK, Projections
<1> QED
  BY <1>1, <1>2, <1>3

\* The subscription keeps to its states, whatever it promises to do (SubscriptionPromise).
LEMMA SourceType ==
  ASSUME TypeOK, sub'.rev \in Revs, Source!Quiet \/ \E kind : Source!Tells(kind)
  PROVE  sub' \in [state : Source!States, rev : Revs]
<1>1. sub.state \in Source!States
  BY DEF TypeOK
<1>2. ASSUME NEW state \in Source!States, NEW n, Source!Leaves(state, n)
      PROVE  sub' \in [state : Source!States, rev : Revs]
  BY <1>2 DEF Source!Leaves
<1>3. CASE Source!Quiet
  <2>1. \E state \in Source!States : \E n : Source!Leaves(state, n)
    BY <1>1, <1>3 DEF Source!Quiet, Source!RotateToken, Source!DatePasses,
                      Source!ReadExpires, Source!States
  <2> QED
    BY <1>2, <2>1
<1>4. ASSUME NEW kind, Source!Tells(kind)
      PROVE  sub' = sub \/ \E state \in Source!States : \E n : Source!Leaves(state, n)
  BY <1>1, <1>4 DEF Source!Tells, Source!TrialStarts, Source!Activates, Source!Cancels,
                    Source!GraceStarts, Source!Suspends, Source!States
<1>5. CASE sub' = sub
  BY <1>5 DEF TypeOK
<1> QED
  BY <1>2, <1>3, <1>4, <1>5

LEMMA NextType == TypeOK /\ [Next]_vars => TypeOK'
<1> SUFFICES ASSUME TypeOK, [Next]_vars PROVE TypeOK'
  OBVIOUS
<1>1. ASSUME NEW kind \in EventKinds, Announce(kind) PROVE TypeOK'
  <2>1. sub' \in [state : Source!States, rev : Revs]
    BY <1>1, SourceType DEF Announce
  <2>2. [kind |-> kind, rev |-> sub'.rev] \in Events
    BY <2>1 DEF Events
  <2>3. events' \in Seq(Events)
    BY <1>1, <2>2 DEF Announce, TypeOK
  <2>4. upsets' \in Nat
    BY <1>1 DEF Announce, TypeOK
  <2> QED
    BY <1>1, <2>1, <2>3, <2>4 DEF Announce, world, reads, TypeOK
<1>2. CASE ChangeSilently
  <2>1. sub' \in [state : Source!States, rev : Revs]
    BY <1>2, SourceType DEF ChangeSilently
  <2> QED
    BY <1>2, <2>1 DEF ChangeSilently, world, reads, TypeOK
<1>4. ASSUME NEW i \in 1 .. MaxEvents, DeadLetter(i) PROVE TypeOK'
  BY <1>4, HandleType
<1>5. ASSUME NEW i \in 1 .. MaxEvents, NEW again \in BOOLEAN, Handle(i, again) PROVE TypeOK'
  BY <1>5, HandleType
<1>6. CASE ListActive
  BY <1>6 DEF ListActive, world, TypeOK
<1>7. CASE SyncListed
  <2>1. CASE Selected = {}
    BY <1>7, <2>1, AccessAssumption DEF SyncListed, world, TypeOK, Revs
  <2>2. CASE Selected # {}
    <3>1. EnsureCredentials /\ PublishSync(listed) /\ listed \in Revs
      BY <1>7, <2>2 DEF SyncListed, TypeOK
    <3>2. /\ creds' \in [Items -> Credentials]
          /\ commands' \in [Nodes -> SUBSET Commands]
          /\ stray' \subseteq Nodes
      BY <3>1, EnsureType, SyncType
    <3>3. listed' \in Revs
      BY <1>7, AccessAssumption DEF SyncListed, Revs
    <3> QED
      BY <1>7, <3>2, <3>3 DEF SyncListed, world, TypeOK
  <2> QED
    BY <2>1, <2>2
<1>8. CASE AskFeed
  BY <1>8 DEF AskFeed, world, TypeOK
<1>9. CASE ServeFeed
  <2>1. creds' \in [Items -> Credentials]
    BY <1>9, EnsureType DEF ServeFeed
  <2> QED
    BY <1>9, <2>1 DEF ServeFeed, world, TypeOK
<1>10. CASE Resync
  <2>1. projection.rev \in Revs
    BY DEF TypeOK
  <2>2. /\ creds' \in [Items -> Credentials]
        /\ commands' \in [Nodes -> SUBSET Commands]
        /\ stray' \subseteq Nodes
    BY <1>10, <2>1, EnsureType, SyncType DEF Resync
  <2> QED
    BY <1>10, <2>2 DEF Resync, Upset, world, reads, TypeOK
<1>11. ASSUME NEW i \in Items, UpsertAdminPoolItem(i) PROVE TypeOK'
  <2>1. PICK n \in Nodes, enabled \in BOOLEAN :
          pool' = [pool EXCEPT ![i] = [node |-> n, enabled |-> enabled]]
    BY <1>11 DEF UpsertAdminPoolItem, TypeOK
  <2>2. pool' \in [Items -> [node : Nodes, enabled : BOOLEAN]]
    BY <2>1 DEF TypeOK
  <2>3. /\ upsets' \in Nat
        /\ UNCHANGED <<sub, events, projection, creds, commands, node, servers, listed, asked,
                       stray>>
    BY <1>11 DEF UpsertAdminPoolItem, Upset, reads, TypeOK
  <2> QED
    BY <2>2, <2>3 DEF TypeOK
<1>12. ASSUME NEW n \in Nodes,
              \/ SetAdminNodeEnabled(n) \/ ApplyNodeHeartbeat(n)
              \/ HeartbeatsStop(n) \/ OthersTakeSeats(n)
       PROVE  TypeOK'
  <2> DEFINE Servers == [enabled : BOOLEAN, alive : BOOLEAN, others : Nat,
                         online : Nat, channel : Nat]
             Others == /\ upsets' \in Nat
                       /\ UNCHANGED <<sub, events, projection, creds, commands, node, pool,
                                      listed, asked, stray>>
  <2>1. servers \in [Nodes -> Servers] /\ servers[n] \in Servers
    BY DEF TypeOK
  <2>2. CASE SetAdminNodeEnabled(n)
    <3>1. servers' \in [Nodes -> Servers]
      BY <2>1, <2>2 DEF SetAdminNodeEnabled
    <3>2. Others
      BY <2>2 DEF SetAdminNodeEnabled, Upset, reads, TypeOK
    <3> QED
      BY <3>1, <3>2 DEF TypeOK
  <2>3. CASE ApplyNodeHeartbeat(n)
    <3>1. PICK load \in Loads :
            servers' = [servers EXCEPT ![n] = [@ EXCEPT !.alive = TRUE, !.online = load.online,
                                                        !.channel = load.channel]]
      BY <2>3 DEF ApplyNodeHeartbeat
    <3>2. load.online \in Nat /\ load.channel \in Nat
      BY AccessAssumption
    <3>3. servers' \in [Nodes -> Servers]
      BY <2>1, <3>1, <3>2
    <3>4. Others
      BY <2>3 DEF ApplyNodeHeartbeat, Upset, reads, TypeOK
    <3> QED
      BY <3>3, <3>4 DEF TypeOK
  <2>4. CASE HeartbeatsStop(n)
    <3>1. servers' \in [Nodes -> Servers]
      BY <2>1, <2>4 DEF HeartbeatsStop
    <3>2. Others
      BY <2>4 DEF HeartbeatsStop, Upset, reads, TypeOK
    <3> QED
      BY <3>1, <3>2 DEF TypeOK
  <2>5. CASE OthersTakeSeats(n)
    <3>1. PICK k \in 0 .. MaxOthers : servers' = [servers EXCEPT ![n].others = k]
      BY <2>5 DEF OthersTakeSeats
    <3>2. k \in Nat
      BY AccessAssumption
    <3>3. servers' \in [Nodes -> Servers]
      BY <2>1, <3>1, <3>2
    <3>4. Others
      BY <2>5 DEF OthersTakeSeats, Upset, reads, TypeOK
    <3> QED
      BY <3>3, <3>4 DEF TypeOK
  <2> QED
    BY <1>12, <2>2, <2>3, <2>4, <2>5
<1>13. ASSUME NEW n \in Nodes, NEW again \in BOOLEAN, ReceiveCommand(n, again) PROVE TypeOK'
  <2>1. PICK c \in Commands :
          /\ commands' \in {commands, [commands EXCEPT ![n] = @ \ {c}]}
          /\ node' \in {node, [node EXCEPT ![n] = [account |-> c.kind = "sync",
                                                  rev |-> c.rev]]}
          /\ UNCHANGED <<sub, events, projection, creds, world, reads, upsets, stray>>
    BY <1>13 DEF ReceiveCommand, TypeOK
  <2>2. node' \in [Nodes -> [account : BOOLEAN, rev : Revs]]
    <3>1. node \in [Nodes -> [account : BOOLEAN, rev : Revs]]
      BY DEF TypeOK
    <3>2. [account |-> c.kind = "sync", rev |-> c.rev] \in [account : BOOLEAN, rev : Revs]
      BY DEF Commands
    <3> QED
      BY <2>1, <3>1, <3>2
  <2>3. commands' \in [Nodes -> SUBSET Commands]
    <3>1. \A m \in Nodes : commands[m] \subseteq Commands
      BY DEF TypeOK
    <3>2. commands' = commands \/ commands' = [commands EXCEPT ![n] = commands[n] \ {c}]
      BY <2>1
    <3> QED
      BY <3>1, <3>2 DEF TypeOK
  <2> QED
    BY <2>1, <2>2, <2>3 DEF world, reads, TypeOK
<1>14. ASSUME NEW n \in Nodes, LoseSync(n) PROVE TypeOK'
  <2>1. commands' \in [Nodes -> SUBSET Commands]
    BY <1>14 DEF LoseSync, TypeOK
  <2> QED
    BY <1>14, <2>1 DEF LoseSync, Upset, world, reads, TypeOK
<1>15. ASSUME NEW n \in Nodes, Reinstall(n) PROVE TypeOK'
  <2>1. 0 \in Revs
    BY AccessAssumption DEF Revs
  <2>2. node' \in [Nodes -> [account : BOOLEAN, rev : Revs]]
    BY <1>15, <2>1 DEF Reinstall, TypeOK
  <2>3. stray' \subseteq Nodes
    BY <1>15 DEF Reinstall, TypeOK
  <2> QED
    BY <1>15, <2>2, <2>3 DEF Reinstall, Upset, world, reads, TypeOK
<1>16. CASE UNCHANGED vars
  BY <1>16 DEF vars, world, reads, TypeOK
<1> QED
  BY <1>1, <1>2, <1>4, <1>5, <1>6, <1>7, <1>8, <1>9, <1>10, <1>11, <1>12, <1>13,
     <1>14, <1>15, <1>16 DEF Next

\* The orchestrator's rows, the commands in the topics and what the nodes hold keep
\* their types, for any pool, capacities and bounds.
THEOREM AccessTypeCorrect == Spec => []TypeOK
<1> QED
  BY InitType, NextType, PTL DEF Spec

------------------------------------------------------------------------------
(* The end of access takes effect.                                           *)

HasSync(n) == \E c \in commands[n] : c.kind = "sync"

\* No item has moved, and a row of the user's credentials names its item's node.
OnHome ==
  \A i \in Items : pool[i].node = HomeNode[i] /\ creds[i].node \in {None, HomeNode[i]}

\* A node that has the user, or will, is in a row of his credentials.
Recorded ==
  \A n \in Nodes : node[n].account \/ HasSync(n) => n \in RevokedNodes

\* A node the revoke is not on its way to has it behind it, or never had to do with the
\* user before the end.
Settled(n) ==
  RevokePending(n) \/ (node[n].account \/ OldSync(n) => projection.rev <= node[n].rev)

EndPending == Ended => \A n \in Nodes \ stray : Settled(n)

IInv == TypeOK /\ OnHome /\ Recorded /\ EndPending

\* The credentials written for the selected items record their nodes and forget none.
LEMMA EnsureRecords ==
  ASSUME IInv, EnsureCredentials, pool' = pool
  PROVE  /\ OnHome'
         /\ RevokedNodes \cup SelectedNodes \subseteq RevokedNodes'
<1>1. creds' = [i \in Items |-> IF i \in Selected
                                  THEN [node |-> pool[i].node, enabled |-> TRUE] ELSE creds[i]]
  BY DEF EnsureCredentials
<1>2. \A i \in Items : pool[i].node = HomeNode[i] /\ creds[i].node \in {None, HomeNode[i]}
  BY DEF IInv, OnHome
<1>3. \A i \in Items : pool[i].node # None
  BY SelectedTypes DEF IInv
<1>4. \A i \in Items : /\ i \in Selected => creds'[i].node = pool[i].node
                       /\ i \notin Selected => creds'[i].node = creds[i].node
  BY <1>1
<1>5. OnHome'
  BY <1>2, <1>4 DEF OnHome
<1>6. \A i \in Items : creds[i].node # None => creds'[i].node = creds[i].node
  BY <1>2, <1>4
<1>7. RevokedNodes \subseteq RevokedNodes'
  BY <1>6 DEF RevokedNodes
<1>8. SelectedNodes \subseteq RevokedNodes'
  <2>1. \A i \in Selected : creds'[i].node = pool[i].node /\ pool[i].node # None /\ i \in Items
    BY <1>3, <1>4, SelectedTypes DEF IInv
  <2> QED
    BY <2>1 DEF SelectedNodes, RevokedNodes
<1> QED
  BY <1>5, <1>7, <1>8

\* A sync of a revision that the projection already has, or has passed: after an end it
\* is sent by someone who does not know, and marks its nodes.
LEMMA SyncKeeps ==
  ASSUME IInv, NEW rev \in Revs, EnsureCredentials, PublishSync(rev),
         UNCHANGED <<projection, node, pool>>
  PROVE  OnHome' /\ Recorded' /\ EndPending'
<1>1. OnHome' /\ RevokedNodes \cup SelectedNodes \subseteq RevokedNodes'
  BY EnsureRecords
<1>2. \A n \in Nodes :
        /\ n \in SelectedNodes =>
             commands'[n] = commands[n] \cup {[kind |-> "sync", rev |-> rev]}
        /\ n \notin SelectedNodes => commands'[n] = commands[n]
  BY DEF PublishSync
<1>5. Recorded'
  BY <1>1, <1>2 DEF IInv, Recorded, HasSync
<1>6. EndPending'
  <2> SUFFICES ASSUME Ended, NEW n \in Nodes \ stray' PROVE Settled(n)'
    BY DEF EndPending, Ended
  <2>1. n \notin stray /\ (n \in SelectedNodes => ~(rev <= projection.rev))
    BY DEF PublishSync, Ended
  <2>2. Settled(n)
    BY <2>1 DEF IInv, EndPending
  <2>3. rev \in Nat /\ projection.rev \in Nat
    BY DEF IInv, TypeOK, Revs
  <2>4. OldSync(n)' => OldSync(n)
    BY <1>2, <2>1, <2>3 DEF OldSync
  <2>5. RevokePending(n) => RevokePending(n)'
    BY <1>2 DEF RevokePending
  <2> QED
    BY <2>2, <2>4, <2>5 DEF Settled
<1> QED
  BY <1>1, <1>5, <1>6

\* A grant either is newer, and then access has not ended, or leaves the projection
\* alone and is such a sync.
LEMMA ProvisionKeeps ==
  ASSUME IInv, NEW rev \in Revs, NEW status \in {"trial", "active", "grace"},
         Provision(status, rev), UNCHANGED <<node, pool>>
  PROVE  OnHome' /\ Recorded' /\ EndPending'
<1>1. CASE projection' = projection
  BY <1>1, SyncKeeps DEF Provision
<1>2. CASE projection' # projection
  <2>1. projection'.status = status
    BY <1>2 DEF Provision, Projected
  <2>2. EndPending'
    BY <2>1 DEF EndPending, Ended
  <2>3. OnHome' /\ RevokedNodes \cup SelectedNodes \subseteq RevokedNodes'
    BY EnsureRecords DEF Provision
  <2>4. Recorded'
    <3>1. \A n \in Nodes : n \notin SelectedNodes => commands'[n] = commands[n]
      BY DEF Provision, PublishSync
    <3> QED
      BY <2>3, <3>1 DEF IInv, Recorded, HasSync
  <2> QED
    BY <2>2, <2>3, <2>4
<1> QED
  BY <1>1, <1>2

\* The end of access puts a revoke on its way to every node that is recorded, and those
\* are all that have the user (DisableUserCredentialsTx, publishRevokeCommands).
LEMMA WithdrawKeeps ==
  ASSUME IInv, NEW rev \in Revs, Withdraw(rev), UNCHANGED <<node, pool>>
  PROVE  OnHome' /\ Recorded' /\ EndPending'
<1>1. \A n \in Nodes :
        /\ n \in RevokedNodes =>
             commands'[n] = commands[n] \cup {[kind |-> "revoke", rev |-> rev]}
        /\ n \notin RevokedNodes => commands'[n] = commands[n]
  BY DEF Withdraw, DisableAndRevoke
<1>2. /\ \A i \in Items : creds'[i].node = creds[i].node
      /\ RevokedNodes' = RevokedNodes
  <2>1. \A i \in Items : creds'[i].node = creds[i].node
    BY DEF Withdraw, DisableAndRevoke, IInv, TypeOK, Credentials
  <2> QED
    BY <2>1 DEF RevokedNodes
<1>3. OnHome'
  BY <1>2 DEF IInv, OnHome
<1>4. \A n \in Nodes : \A c \in commands'[n] : c.kind = "sync" => c \in commands[n]
  BY <1>1
<1>5. Recorded'
  BY <1>2, <1>4 DEF IInv, Recorded, HasSync
<1>6. CASE projection.rev <= rev
  <2>1. projection'.rev = rev
    BY <1>6 DEF Withdraw, Projected
  <2> SUFFICES ASSUME NEW n \in Nodes PROVE Settled(n)'
    BY <1>3, <1>5 DEF EndPending
  <2>2. CASE n \in RevokedNodes
    BY <1>1, <2>1, <2>2 DEF Settled, RevokePending
  <2>3. CASE n \notin RevokedNodes
    BY <1>1, <2>3 DEF IInv, Recorded, HasSync, Settled, OldSync
  <2> QED
    BY <2>2, <2>3
<1>7. CASE ~(projection.rev <= rev)
  <2>1. projection' = projection /\ stray' = stray
    BY <1>7 DEF Withdraw, Projected
  <2> SUFFICES ASSUME Ended, NEW n \in Nodes \ stray PROVE Settled(n)'
    BY <1>3, <1>5, <2>1 DEF EndPending, Ended
  <2>2. OldSync(n)' => OldSync(n)
    BY <1>4, <2>1 DEF OldSync
  <2>3. RevokePending(n) => RevokePending(n)'
    BY <1>1, <2>1 DEF RevokePending
  <2> QED
    BY <2>1, <2>2, <2>3 DEF IInv, EndPending, Settled
<1> QED
  BY <1>6, <1>7

\* A command less on its way to a node, whose revision does not fall: what is left to
\* show is that the revoke of the end is not taken without effect.
LEMMA NodeKeeps ==
  ASSUME IInv, NEW n \in Nodes,
         UNCHANGED <<projection, creds, pool, stray>>,
         \A m \in Nodes \ {n} : node'[m] = node[m] /\ commands'[m] = commands[m],
         commands'[n] \subseteq commands[n],
         node'[n].account => node[n].account \/ HasSync(n),
         Ended /\ n \notin stray => Settled(n)'
  PROVE  OnHome' /\ Recorded' /\ EndPending'
<1>1. OnHome'
  BY DEF IInv, OnHome
<1>2. RevokedNodes' = RevokedNodes
  BY DEF RevokedNodes
<1>3. Recorded'
  <2> SUFFICES ASSUME NEW m \in Nodes, node'[m].account \/ HasSync(m)'
               PROVE  m \in RevokedNodes
    BY <1>2 DEF Recorded
  <2>1. node[m].account \/ HasSync(m)
    BY DEF HasSync
  <2> QED
    BY <2>1 DEF IInv, Recorded
<1>4. EndPending'
  <2> SUFFICES ASSUME Ended, NEW m \in Nodes \ stray, m # n PROVE Settled(m)'
    BY DEF EndPending, Ended
  <2>1. Settled(m)
    BY DEF IInv, EndPending
  <2> QED
    BY <2>1 DEF Settled, RevokePending, OldSync
<1> QED
  BY <1>1, <1>3, <1>4

\* A node that takes a command: an old sync has no effect without the revoke still to
\* come, and the revoke once taken is behind the node.
LEMMA ReceiveKeeps ==
  ASSUME IInv, NEW n \in Nodes, NEW again \in BOOLEAN, ReceiveCommand(n, again)
  PROVE  OnHome' /\ Recorded' /\ EndPending'
<1>1. PICK c \in commands[n] :
        /\ commands' = IF again THEN commands ELSE [commands EXCEPT ![n] = @ \ {c}]
        /\ node' = IF c.rev > node[n].rev
                     THEN [node EXCEPT ![n] = [account |-> c.kind = "sync", rev |-> c.rev]]
                     ELSE node
        /\ UNCHANGED <<projection, creds, pool, stray>>
  BY DEF ReceiveCommand, world
<1>2. /\ commands \in [Nodes -> SUBSET Commands] /\ c \in Commands
      /\ node \in [Nodes -> [account : BOOLEAN, rev : Revs]]
  BY DEF IInv, TypeOK
<1>3. projection.rev \in Nat /\ c.rev \in Nat /\ node[n].rev \in Nat
  BY <1>2 DEF IInv, TypeOK, Revs, Commands
<1>4. /\ \A m \in Nodes \ {n} : node'[m] = node[m] /\ commands'[m] = commands[m]
      /\ commands'[n] \in {commands[n], commands[n] \ {c}}
  BY <1>1, <1>2
<1>5. /\ c.rev > node[n].rev => node'[n].rev = c.rev /\ (node'[n].account <=> c.kind = "sync")
      /\ ~(c.rev > node[n].rev) => node'[n] = node[n]
  <2> DEFINE account == c.kind = "sync"
  <2>1. c.rev > node[n].rev => node'[n] = [account |-> account, rev |-> c.rev]
    BY <1>1, <1>2
  <2>2. account \in BOOLEAN
    OBVIOUS
  <2>3. c.rev > node[n].rev => node'[n].rev = c.rev /\ node'[n].account = account
    <3> HIDE DEF account
    <3> QED
      BY <2>1, <2>2
  <2> QED
    BY <1>1, <2>3
<1>6. node'[n].rev \in Nat /\ node[n].rev <= node'[n].rev /\ c.rev <= node'[n].rev
  BY <1>3, <1>5
<1>7. node'[n].account => node[n].account \/ c.kind = "sync"
  BY <1>5
<1>8. ASSUME Ended, n \notin stray PROVE Settled(n)'
  <2>1. Settled(n)
    BY <1>8 DEF IInv, EndPending
  <2>2. CASE RevokePending(n)
    <3>1. RevokePending(n)' \/ c = [kind |-> "revoke", rev |-> projection.rev]
      BY <1>1, <1>4, <2>2 DEF RevokePending
    <3>2. c.rev = projection.rev => projection.rev <= node'[n].rev
      BY <1>6
    <3> QED
      BY <1>1, <3>1, <3>2 DEF Settled
  <2>3. CASE ~RevokePending(n)
    <3>1. OldSync(n)' => OldSync(n)
      BY <1>1, <1>4 DEF OldSync
    <3>2. c.kind = "sync" => OldSync(n) \/ projection.rev <= c.rev
      BY <1>3 DEF OldSync
    <3>3. node'[n].account \/ OldSync(n)' => projection.rev <= node'[n].rev
      BY <1>3, <1>6, <1>7, <2>1, <2>3, <3>1, <3>2 DEF Settled
    <3> QED
      BY <1>1, <3>3 DEF Settled
  <2> QED
    BY <2>2, <2>3
<1> QED
  BY <1>1, <1>4, <1>7, <1>8, NodeKeeps DEF HasSync

\* A lost sync takes no revoke with it.
LEMMA LoseKeeps ==
  ASSUME IInv, NEW n \in Nodes, LoseSync(n)
  PROVE  OnHome' /\ Recorded' /\ EndPending'
<1>1. PICK c \in commands[n] : c.kind = "sync" /\ commands' = [commands EXCEPT ![n] = @ \ {c}]
  BY DEF LoseSync
<1>2. UNCHANGED <<projection, creds, pool, node, stray>>
  BY DEF LoseSync, world
<1>3. commands'[n] = commands[n] \ {c} /\ \A m \in Nodes \ {n} : commands'[m] = commands[m]
  BY <1>1 DEF IInv, TypeOK
<1>4. ASSUME Ended, n \notin stray PROVE Settled(n)'
  <2>1. Settled(n)
    BY <1>4 DEF IInv, EndPending
  <2>2. RevokePending(n) => RevokePending(n)'
    BY <1>1, <1>2, <1>3 DEF RevokePending
  <2>3. OldSync(n)' => OldSync(n)
    BY <1>2, <1>3 DEF OldSync
  <2> QED
    BY <1>2, <2>1, <2>2, <2>3 DEF Settled
<1> QED
  BY <1>2, <1>3, <1>4, NodeKeeps

\* A node that forgets the user has no account left to revoke, and is given up when an
\* old sync may come without the revoke.
LEMMA ReinstallKeeps ==
  ASSUME IInv, NEW n \in Nodes, Reinstall(n)
  PROVE  OnHome' /\ Recorded' /\ EndPending'
<1>1. node \in [Nodes -> [account : BOOLEAN, rev : Revs]]
  BY DEF IInv, TypeOK
<1>2. ~node'[n].account /\ \A m \in Nodes \ {n} : node'[m] = node[m]
  BY <1>1 DEF Reinstall
<1>3. UNCHANGED <<projection, creds, commands, pool>> /\ stray \subseteq stray'
  BY DEF Reinstall, world
<1>4. OnHome'
  BY <1>3 DEF IInv, OnHome
<1>5. Recorded'
  BY <1>2, <1>3 DEF IInv, Recorded, RevokedNodes, HasSync
<1>6. EndPending'
  <2> SUFFICES ASSUME Ended, NEW m \in Nodes \ stray' PROVE Settled(m)'
    BY <1>3 DEF EndPending, Ended
  <2>1. Settled(m)
    BY <1>3 DEF IInv, EndPending
  <2>2. RevokePending(m)' = RevokePending(m) /\ OldSync(m)' = OldSync(m)
    BY <1>3 DEF RevokePending, OldSync
  <2>3. CASE m = n
    BY <1>2, <2>2, <2>3 DEF Settled, Reinstall
  <2>4. CASE m # n
    BY <1>2, <1>3, <2>1, <2>2, <2>4 DEF Settled
  <2> QED
    BY <2>3, <2>4
<1> QED
  BY <1>4, <1>5, <1>6

\* Steps that touch neither commands, nor nodes, nor the projection.
LEMMA QuietKeeps ==
  ASSUME IInv, UNCHANGED <<projection, commands, node, stray>>, OnHome',
         RevokedNodes \subseteq RevokedNodes'
  PROVE  OnHome' /\ Recorded' /\ EndPending'
<1>1. Recorded'
  BY DEF IInv, Recorded, HasSync
<1>2. EndPending'
  BY DEF IInv, EndPending, Ended, Settled, RevokePending, OldSync
<1> QED
  BY <1>1, <1>2

LEMMA InitInv == Init => IInv
<1> SUFFICES ASSUME Init PROVE IInv
  OBVIOUS
<1>1. TypeOK
  BY InitType
<1>2. OnHome
  BY DEF Init, OnHome
<1>3. \A n \in Nodes : ~node[n].account /\ commands[n] = {}
  BY DEF Init
<1>4. Recorded
  BY <1>3 DEF Recorded, HasSync
<1>5. EndPending
  BY DEF Init, EndPending, Ended
<1> QED
  BY <1>1, <1>2, <1>4, <1>5 DEF IInv

\* One step per action; a step whose item stays on its node.
LEMMA NextInv ==
  ASSUME MovesItems = FALSE, IInv, [Next]_vars
  PROVE  IInv'
<1> SUFFICES OnHome' /\ Recorded' /\ EndPending'
  BY NextType DEF IInv
<1>0. OnHome /\ RevokedNodes \subseteq RevokedNodes
  BY DEF IInv
<1>1. ASSUME NEW kind \in EventKinds, Announce(kind)
      PROVE  OnHome' /\ Recorded' /\ EndPending'
  <2>1. UNCHANGED <<projection, creds, commands, node, pool, stray>>
    BY <1>1 DEF Announce, world
  <2> QED
    BY <1>0, <2>1, QuietKeeps DEF OnHome, RevokedNodes
<1>2. CASE ChangeSilently \/ ListActive \/ AskFeed
  <2>1. UNCHANGED <<projection, creds, commands, node, pool, stray>>
    BY <1>2 DEF ChangeSilently, ListActive, AskFeed, world
  <2> QED
    BY <1>0, <2>1, QuietKeeps DEF OnHome, RevokedNodes
<1>3. ASSUME NEW i \in 1 .. MaxEvents, DeadLetter(i)
      PROVE  OnHome' /\ Recorded' /\ EndPending'
  <2>1. UNCHANGED <<projection, creds, commands, node, pool, stray>>
    BY <1>3 DEF DeadLetter, Consume, world
  <2> QED
    BY <1>0, <2>1, QuietKeeps DEF OnHome, RevokedNodes
<1>4. ASSUME NEW i \in 1 .. MaxEvents, NEW again \in BOOLEAN, Handle(i, again)
      PROVE  OnHome' /\ Recorded' /\ EndPending'
  <2>1. Consume(i, again)
    BY <1>4 DEF Handle, ApplyTrialStarted, ApplyActivated, ApplyGraceStarted, ApplyCanceled,
               ApplySuspended
  <2>2. events[i].rev \in Revs /\ UNCHANGED <<node, pool>>
    BY <2>1, ConsumeType DEF IInv
  <2>3. \/ \E status \in {"trial", "active", "grace"} : Provision(status, events[i].rev)
        \/ Withdraw(events[i].rev)
    <3>1. CASE ApplyCanceled(i, again)
      BY <3>1 DEF ApplyCanceled
    <3>2. CASE ~ApplyCanceled(i, again)
      BY <1>4, <3>2 DEF Handle, ApplyTrialStarted, ApplyActivated, ApplyGraceStarted,
                        ApplySuspended
    <3> QED
      BY <3>1, <3>2
  <2> QED
    BY <2>2, <2>3, ProvisionKeeps, WithdrawKeeps
<1>5. CASE SyncListed
  <2>1. CASE Selected = {}
    <3>1. UNCHANGED <<projection, creds, commands, node, pool, stray>>
      BY <1>5, <2>1 DEF SyncListed, world
    <3> QED
      BY <1>0, <3>1, QuietKeeps DEF OnHome, RevokedNodes
  <2>2. CASE Selected # {}
    <3>1. listed \in Revs
      BY DEF IInv, TypeOK
    <3> QED
      BY <1>5, <2>2, <3>1, SyncKeeps DEF SyncListed, world
  <2> QED
    BY <2>1, <2>2
<1>6. CASE ServeFeed
  <2>1. OnHome' /\ RevokedNodes \subseteq RevokedNodes'
    BY <1>6, EnsureRecords DEF ServeFeed, world
  <2> QED
    BY <1>6, <2>1, QuietKeeps DEF ServeFeed, world
<1>7. CASE Resync
  <2>1. projection.rev \in Revs
    BY DEF IInv, TypeOK
  <2> QED
    BY <1>7, <2>1, SyncKeeps DEF Resync, world
<1>8. ASSUME NEW i \in Items, UpsertAdminPoolItem(i)
      PROVE  OnHome' /\ Recorded' /\ EndPending'
  <2>1. UNCHANGED <<projection, creds, commands, node, stray>>
    BY <1>8 DEF UpsertAdminPoolItem
  <2>2. PICK enabled \in BOOLEAN :
          pool' = [pool EXCEPT ![i] = [node |-> pool[i].node, enabled |-> enabled]]
    BY <1>8, MovesItems = FALSE DEF UpsertAdminPoolItem
  <2>3. \A j \in Items : pool'[j].node = pool[j].node
    BY <2>2 DEF IInv, TypeOK
  <2>4. OnHome'
    BY <1>0, <2>1, <2>3 DEF OnHome
  <2> QED
    BY <2>1, <2>4, QuietKeeps DEF RevokedNodes
<1>9. ASSUME NEW n \in Nodes,
             \/ SetAdminNodeEnabled(n) \/ ApplyNodeHeartbeat(n)
             \/ HeartbeatsStop(n) \/ OthersTakeSeats(n)
      PROVE  OnHome' /\ Recorded' /\ EndPending'
  <2>1. UNCHANGED <<projection, creds, commands, node, pool, stray>>
    BY <1>9 DEF SetAdminNodeEnabled, ApplyNodeHeartbeat, HeartbeatsStop, OthersTakeSeats
  <2> QED
    BY <1>0, <2>1, QuietKeeps DEF OnHome, RevokedNodes
<1>10. ASSUME NEW n \in Nodes,
              LoseSync(n) \/ Reinstall(n) \/ \E again \in BOOLEAN : ReceiveCommand(n, again)
       PROVE  OnHome' /\ Recorded' /\ EndPending'
  BY <1>10, ReceiveKeeps, LoseKeeps, ReinstallKeeps
<1>11. CASE UNCHANGED vars
  <2>1. UNCHANGED <<projection, creds, commands, node, pool, stray>>
    BY <1>11 DEF vars, world
  <2> QED
    BY <1>0, <2>1, QuietKeeps DEF OnHome, RevokedNodes
<1> QED
  BY <1>1, <1>2, <1>3, <1>4, <1>5, <1>6, <1>7, <1>8, <1>9, <1>10, <1>11 DEF Next

\* While no item changes its node, the end of access reaches every node that has the
\* user, for any pool and allocation and whatever events, feeds, resyncs, lost syncs and
\* reinstalls there are,
\* and in whatever order and how often the commands arrive.
THEOREM EndEffective ==
  ASSUME MovesItems = FALSE
  PROVE  Spec => []EndTakesEffect
<1>1. IInv /\ [Next]_vars => IInv'
  BY NextInv
<1>2. IInv => EndTakesEffect
  <2> SUFFICES ASSUME IInv, Ended, NEW n \in Nodes \ stray,
                      node[n].account /\ node[n].rev < projection.rev
               PROVE  RevokePending(n)
    BY DEF EndTakesEffect
  <2>1. node[n].rev \in Nat /\ projection.rev \in Nat
    BY DEF IInv, TypeOK, Revs
  <2> QED
    BY <2>1 DEF IInv, EndPending, Settled
<1> QED
  BY InitInv, <1>1, <1>2, PTL DEF Spec

=============================================================================
