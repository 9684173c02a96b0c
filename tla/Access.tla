-------------------------------- MODULE Access --------------------------------
(***************************************************************************)
(* The access of one user to the nodes, as internal/vpn_orchestrator keeps  *)
(* it: the projection of his subscription (vpn_user_access), his            *)
(* credentials (vpn_user_node_credentials), the allocator that picks a node *)
(* per country, and the node_sync_user / node_revoke_user commands.         *)
(*                                                                          *)
(* Five writers meet here: the consumer of subscription.events, the         *)
(* reconcile worker and the feed, which read the row of user_subscriptions  *)
(* first and act on it later, the administrator, and the nodes.  A server   *)
(* is identified with its node.  The CDN quota is in module CdnQuota.       *)
(*                                                                          *)
(* The user's subscription changes as SubscriptionPromise says, which        *)
(* module Subscription keeps.  The other users' seats, the heartbeats and    *)
(* the node agent are the environment.  The agent ignores a command whose    *)
(* access_rev is not newer than the one it has applied                      *)
(* (reconcile_worker.go:13-14).  Left out: its answers and the revisions of  *)
(* credentials, which nothing here reads, and what a link consists of.      *)
(***************************************************************************)
EXTENDS Integers, Sequences, FiniteSets

CONSTANTS
  Nodes,
  Items,         \* rows of vpn_pool_items
  None,          \* no node
  HomeNode,      \* the node each item is created on
  Country,       \* the country of each item
  Position,      \* the place of each item in ORDER BY sort_order, id
  MaxUsers,      \* max_users of each node, 0: no limit
  Weight,        \* weight of each node
  SoftOverflow,  \* BALANCER_SOFT_OVERFLOW
  Loads,         \* the loads a heartbeat may report
  Kinds,         \* bound: the subscription events each revision may have
  Reordering,    \* events of the user may be applied out of order
  MovesItems,    \* the administrator may point an item to another node
  MaxOthers,     \* bound: seats of other users on a node
  MaxRev,        \* bound: revisions of the subscription
  MaxUpsets,     \* bound: changes of the pool, lost syncs, copies, reinstalls
  MaxUnrevised,  \* bound: those and the events without a revision of their own
  MaxEvents      \* bound: events not applied yet

GrantKinds == {"trialStarted", "activated", "graceStarted"}
EventKinds == GrantKinds \cup {"canceled", "suspended"}

ASSUME AccessAssumption ==
  /\ None \notin Nodes
  /\ HomeNode \in [Items -> Nodes]
  /\ Position \in [Items -> Nat]
  /\ \A i, j \in Items : Position[i] = Position[j] => i = j
  /\ MaxUsers \in [Nodes -> Nat]
  /\ Weight \in [Nodes -> Nat \ {0}]
  /\ SoftOverflow \in BOOLEAN /\ Reordering \in BOOLEAN /\ MovesItems \in BOOLEAN
  /\ Loads \subseteq [online : Nat, channel : Nat]
  /\ Kinds \in [0 .. MaxRev -> SUBSET EventKinds]
  /\ {MaxOthers, MaxRev, MaxUpsets, MaxUnrevised, MaxEvents} \subseteq Nat

VARIABLES
  sub,         \* the user's row of user_subscriptions
  events,      \* events of the user that are not applied yet, oldest first
  projection,  \* his row of vpn_user_access
  creds,       \* his rows of vpn_user_node_credentials
  commands,    \* commands on their way to each node; the outbox may swap and repeat them
  node,        \* what each node knows of the user
  pool,        \* vpn_pool_items
  servers,     \* vpn_servers, and the other users' seats
  listed,      \* the revision reconcile has read and not synced yet, or 0
  asked,       \* a feed request has been let in and is not served yet
  upsets,      \* changes of the environment so far
  stray        \* ghost: nodes that may get a sync no revoke of the end follows

reads == <<listed, asked>>
world == <<pool, servers>>
\* What user-subscription lets the orchestrator see.
Source == INSTANCE SubscriptionPromise WITH access <- sub

vars == <<sub, events, projection, creds, commands, node, world, reads, upsets, stray>>

NodeOrNone == Nodes \cup {None}
Revs == 0 .. MaxRev
Credentials == [node : NodeOrNone, enabled : BOOLEAN]
Commands == [kind : {"sync", "revoke"}, rev : Revs]
Events == [kind : EventKinds, rev : Revs]

TypeOK ==
  /\ sub \in [state : Source!States, rev : Revs]
  /\ events \in Seq(Events)
  /\ projection \in [status : {"none", "trial", "active", "grace", "expired"}, rev : Revs]
  /\ creds \in [Items -> Credentials]
  /\ commands \in [Nodes -> SUBSET Commands]
  /\ node \in [Nodes -> [account : BOOLEAN, rev : Revs]]
  /\ pool \in [Items -> [node : Nodes, enabled : BOOLEAN]]
  /\ servers \in [Nodes -> [enabled : BOOLEAN, alive : BOOLEAN, others : Nat,
                             online : Nat, channel : Nat]]
  /\ listed \in Revs /\ asked \in BOOLEAN
  /\ upsets \in Nat
  /\ stray \subseteq Nodes

Higher(a, b) == IF a > b THEN a ELSE b
------------------------------------------------------------------------------
(* The allocator.                                                            *)

\* LoadServersByCountry counts the enabled credentials, this user's included.
ActiveUsers(n) ==
  servers[n].others + Cardinality({i \in Items : creds[i].enabled /\ creds[i].node = n})

HasCapacity(n) == MaxUsers[n] = 0 \/ ActiveUsers(n) < MaxUsers[n]

\* LoadScore times the weight: connections, or the channel's use on the same scale.
Pressure(n) ==
  LET conns == IF servers[n].online > 0 THEN servers[n].online ELSE ActiveUsers(n)
  IN  Higher(conns + 1, IF MaxUsers[n] > 0 THEN servers[n].channel ELSE 0)

Lighter(n, m) == Pressure(n) * Weight[m] < Pressure(m) * Weight[n]

\* AliveByHeartbeat: a node that never reported is alive.
Candidates(c) ==
  {i \in Items : /\ Country[i] = c /\ pool[i].enabled
                 /\ servers[pool[i].node].enabled /\ servers[pool[i].node].alive}

Choice(c) ==
  LET free == {i \in Candidates(c) : HasCapacity(pool[i].node)}
  IN  IF free # {} THEN free ELSE IF SoftOverflow THEN Candidates(c) ELSE {}

\* GetUserServerForItem
Bound(i) == creds[i].enabled /\ creds[i].node = pool[i].node

Before(i, j) ==
  \/ Lighter(pool[i].node, pool[j].node)
  \/ ~Lighter(pool[j].node, pool[i].node) /\ Position[i] < Position[j]

\* Allocate, for one country: the first item the user is bound to, else the least
\* loaded one.
Pick(i, c) ==
  LET bound == {j \in Choice(c) : Bound(j)}
  IN  IF bound # {} THEN i \in bound /\ \A j \in bound : Position[i] <= Position[j]
                    ELSE i \in Choice(c) /\ \A j \in Choice(c) \ {i} : Before(i, j)

\* selectBalancedItems; empty is ErrNoPoolItems.
Selected == {i \in Items : Pick(i, Country[i])}
SelectedNodes == {pool[i].node : i \in Selected}
------------------------------------------------------------------------------
Init ==
  /\ Source!Init
  /\ events = <<>>
  /\ projection = [status |-> "none", rev |-> 0]
  /\ creds = [i \in Items |-> [node |-> None, enabled |-> FALSE]]
  /\ commands = [n \in Nodes |-> {}]
  /\ node = [n \in Nodes |-> [account |-> FALSE, rev |-> 0]]
  /\ pool = [i \in Items |-> [node |-> HomeNode[i], enabled |-> TRUE]]
  /\ servers = [n \in Nodes |-> [enabled |-> TRUE, alive |-> TRUE, others |-> 0,
                                 online |-> 0, channel |-> 0]]
  /\ listed = 0 /\ asked = FALSE
  /\ upsets = 0
  /\ stray = {}

(* The subscription.                                                           *)
Announce(kind) ==
  /\ Len(events) < MaxEvents
  /\ Source!Tells(kind)
  /\ sub'.rev \in Revs
  /\ kind \in Kinds[sub'.rev]
  /\ \/ sub'.rev > sub.rev /\ UNCHANGED upsets
     \/ sub'.rev = sub.rev /\ upsets < MaxUnrevised /\ upsets' = upsets + 1
  /\ events' = Append(events, [kind |-> kind, rev |-> sub'.rev])
  /\ UNCHANGED <<projection, creds, commands, node, world, reads, stray>>

ChangeSilently ==
  /\ Source!Quiet
  /\ sub'.rev \in Revs
  /\ UNCHANGED <<events, projection, creds, commands, node, world, reads, upsets, stray>>

\* The user has access now.
Lasts == sub.state \in {"live", "grace"}

(* What the handlers write.                                                    *)

\* Mutant of Projected: the row counts its updates instead of taking the revision.
ProjectedCounting(status, rev) == [status |-> status, rev |-> projection.rev + 1]

\* UpsertAccessProjectionTx: WHERE access_rev <= EXCLUDED.access_rev
Projected(status, rev) ==
  IF projection.rev <= rev THEN [status |-> status, rev |-> rev] ELSE projection

\* EnsureCredentialsForItemsTx; vpn_servers.active_users, which the allocator does not
\* read, is left out.
EnsureCredentials ==
  creds' = [i \in Items |-> IF i \in Selected
                              THEN [node |-> pool[i].node, enabled |-> TRUE] ELSE creds[i]]

\* publishSyncCommands: a command per node, in the same transaction.
PublishSync(rev) ==
  /\ commands' = [n \in Nodes |->
                    IF n \in SelectedNodes
                      THEN commands[n] \cup {[kind |-> "sync", rev |-> rev]}
                      ELSE commands[n]]
  /\ stray' = IF projection'.status = "expired"
                THEN IF rev <= projection'.rev THEN stray \cup SelectedNodes ELSE stray
                ELSE {}

\* Mutant of RevokedNodes: the rows are joined with the enabled items of the pool.
PooledNodes == {creds[i].node : i \in {j \in Items : pool[j].enabled}} \ {None}

\* DisableUserCredentialsTx returns every row of the user, enabled or not.
RevokedNodes == {creds[i].node : i \in Items} \ {None}

\* publishRevokeCommands
DisableAndRevoke(rev) ==
  /\ creds' = [i \in Items |-> [creds[i] EXCEPT !.enabled = FALSE]]
  /\ commands' = [n \in Nodes |->
                    IF n \in RevokedNodes
                      THEN commands[n] \cup {[kind |-> "revoke", rev |-> rev]}
                      ELSE commands[n]]

(* The consumer of subscription.events.  The inbox row and the handler are one  *)
(* transaction.  An event without a payment, which of the activations is that   *)
(* of free months, carries no id: a copy of it is applied again.                *)
Consume(i, again) ==
  /\ i \in 1 .. Len(events)
  /\ Reordering \/ i = 1
  /\ \/ ~again /\ events' = SubSeq(events, 1, i - 1) \o SubSeq(events, i + 1, Len(events))
               /\ upsets' = upsets
     \/ again  /\ upsets < MaxUpsets
               /\ events' = events
               /\ upsets' = upsets + 1
  /\ UNCHANGED <<sub, node, world, reads>>

\* Whether the date of a canceled period is ahead when its event is handled: it is while
\* the term of its revision runs.  In grace it has passed, as a rule.
DateAhead(e) == IF sub = [state |-> "live", rev |-> e.rev] THEN {TRUE} ELSE BOOLEAN

Provision(status, rev) ==
  /\ Selected # {}
  /\ projection' = Projected(status, rev)
  /\ EnsureCredentials
  /\ PublishSync(rev)

Withdraw(rev) ==
  /\ projection' = Projected("expired", rev)
  /\ DisableAndRevoke(rev)
  /\ stray' = IF projection.rev <= rev THEN {} ELSE stray

ApplyTrialStarted(i, again) ==
  /\ Consume(i, again)
  /\ events[i].kind = "trialStarted"
  /\ Provision("trial", events[i].rev)

ApplyActivated(i, again) ==
  /\ Consume(i, again)
  /\ events[i].kind = "activated"
  /\ Provision("active", events[i].rev)

ApplyGraceStarted(i, again) ==
  /\ Consume(i, again)
  /\ events[i].kind = "graceStarted"
  /\ Provision("grace", events[i].rev)

ApplyCanceled(i, again) ==
  /\ Consume(i, again)
  /\ events[i].kind = "canceled"
  /\ \E ahead \in DateAhead(events[i]) :
       IF ahead THEN Provision("active", events[i].rev) ELSE Withdraw(events[i].rev)

ApplySuspended(i, again) ==
  /\ Consume(i, again)
  /\ events[i].kind = "suspended"
  /\ Withdraw(events[i].rev)

\* ErrNoPoolItems rolls the handler's transaction back at every attempt, and the
\* consumer gives the event to the dead-letter topic.
DeadLetter(i) ==
  /\ Consume(i, FALSE)
  /\ \/ events[i].kind \in GrantKinds
     \/ events[i].kind = "canceled" /\ TRUE \in DateAhead(events[i])
  /\ Selected = {}
  /\ UNCHANGED <<projection, creds, commands, stray>>

(* The reconcile worker.                                                        *)

\* Mutant of ListActive: the worker looks into the projection.
ListProjected ==
  /\ listed = 0
  /\ projection.status \in {"trial", "active", "grace"}
  /\ listed' = projection.rev
  /\ UNCHANGED <<sub, events, projection, creds, commands, node, world, asked, upsets, stray>>

\* ListActiveAccessesForReconcile
ListActive ==
  /\ listed = 0
  /\ Lasts
  /\ listed' = sub.rev
  /\ UNCHANGED <<sub, events, projection, creds, commands, node, world, asked, upsets, stray>>

\* ensureUserCredentialsAndSync with the row read before; without items it fails, and
\* the pass goes on.
SyncListed ==
  /\ listed # 0
  /\ listed' = 0
  /\ UNCHANGED projection
  /\ IF Selected = {}
       THEN UNCHANGED <<creds, commands, stray>>
       ELSE EnsureCredentials /\ PublishSync(listed)
  /\ UNCHANGED <<sub, events, node, world, asked, upsets>>

(* The feed: GetAccessByToken, then ensureUserCredentials, without a sync.     *)
AskFeed ==
  /\ ~asked
  /\ Lasts
  /\ asked' = TRUE
  /\ UNCHANGED <<sub, events, projection, creds, commands, node, world, listed, upsets, stray>>

ServeFeed ==
  /\ asked
  /\ asked' = FALSE
  /\ EnsureCredentials
  /\ UNCHANGED <<sub, events, projection, commands, node, world, listed, upsets, stray>>

(* The administrator.                                                           *)
Upset ==
  /\ upsets < MaxUpsets
  /\ upsets' = upsets + 1

\* POST /admin/users/<id>/resync: the projection is synced whatever its status.
Resync ==
  /\ Upset
  /\ projection.status # "none"
  /\ Selected # {}
  /\ UNCHANGED projection
  /\ EnsureCredentials
  /\ PublishSync(projection.rev)
  /\ UNCHANGED <<sub, events, node, world, reads>>

\* UpsertAdminPoolItem
UpsertAdminPoolItem(i) ==
  /\ Upset
  /\ \E n \in IF MovesItems THEN Nodes ELSE {pool[i].node} :
       \E enabled \in BOOLEAN : pool' = [pool EXCEPT ![i] = [node |-> n, enabled |-> enabled]]
  /\ pool' # pool
  /\ UNCHANGED <<sub, events, projection, creds, commands, node, servers, reads, stray>>

\* SetAdminNodeEnabled; a node keeps its country, its weight and its max_users here.
SetAdminNodeEnabled(n) ==
  /\ Upset
  /\ servers' = [servers EXCEPT ![n].enabled = ~@]
  /\ UNCHANGED <<sub, events, projection, creds, commands, node, pool, reads, stray>>

(* The nodes and the other users.                                               *)

\* UpdateNodeHeartbeatTx
ApplyNodeHeartbeat(n) ==
  /\ Upset
  /\ \E load \in Loads :
       servers' = [servers EXCEPT ![n] = [@ EXCEPT !.alive = TRUE, !.online = load.online,
                                                   !.channel = load.channel]]
  /\ servers' # servers
  /\ UNCHANGED <<sub, events, projection, creds, commands, node, pool, reads, stray>>

HeartbeatsStop(n) ==
  /\ Upset
  /\ servers[n].alive
  /\ servers' = [servers EXCEPT ![n].alive = FALSE]
  /\ UNCHANGED <<sub, events, projection, creds, commands, node, pool, reads, stray>>

OthersTakeSeats(n) ==
  /\ Upset
  /\ \E k \in 0 .. MaxOthers : servers' = [servers EXCEPT ![n].others = k]
  /\ servers' # servers
  /\ UNCHANGED <<sub, events, projection, creds, commands, node, pool, reads, stray>>

\* A node takes the commands in any order, and one the outbox publishes again (`again`)
\* once more.
ReceiveCommand(n, again) ==
  \E c \in commands[n] :
    /\ commands' = IF again THEN commands ELSE [commands EXCEPT ![n] = @ \ {c}]
    /\ node' = IF c.rev > node[n].rev
                 THEN [node EXCEPT ![n] = [account |-> c.kind = "sync", rev |-> c.rev]]
                 ELSE node
    /\ UNCHANGED <<sub, events, projection, creds, world, reads, upsets, stray>>

\* A sync the outbox gave up, or the topic no longer has.
LoseSync(n) ==
  /\ Upset
  /\ \E c \in commands[n] :
       c.kind = "sync" /\ commands' = [commands EXCEPT ![n] = @ \ {c}]
  /\ UNCHANGED <<sub, events, projection, creds, node, world, reads, stray>>

Ended == projection.status = "expired"

RevokePending(n) == [kind |-> "revoke", rev |-> projection.rev] \in commands[n]

\* A sync of before the end that is still on its way.
OldSync(n) == \E c \in commands[n] : c.kind = "sync" /\ c.rev < projection.rev

\* A node that forgets what it has applied takes a sync the revoke has overtaken.
Reinstall(n) ==
  /\ Upset
  /\ node[n].rev # 0
  /\ node' = [node EXCEPT ![n] = [account |-> FALSE, rev |-> 0]]
  /\ stray' = IF Ended /\ OldSync(n) /\ ~RevokePending(n) THEN stray \cup {n} ELSE stray
  /\ UNCHANGED <<sub, events, projection, creds, commands, world, reads>>

Handle(i, again) ==
  \/ ApplyTrialStarted(i, again) \/ ApplyActivated(i, again) \/ ApplyGraceStarted(i, again)
  \/ ApplyCanceled(i, again) \/ ApplySuspended(i, again)

Next ==
  \/ \E kind \in EventKinds : Announce(kind)
  \/ ChangeSilently
  \/ \E i \in 1 .. MaxEvents : DeadLetter(i) \/ \E again \in BOOLEAN : Handle(i, again)
  \/ ListActive \/ SyncListed \/ AskFeed \/ ServeFeed \/ Resync
  \/ \E i \in Items : UpsertAdminPoolItem(i)
  \/ \E n \in Nodes : \/ SetAdminNodeEnabled(n) \/ ApplyNodeHeartbeat(n) \/ HeartbeatsStop(n)
                      \/ OthersTakeSeats(n) \/ LoseSync(n) \/ Reinstall(n)
                      \/ \E again \in BOOLEAN : ReceiveCommand(n, again)

Spec == Init /\ [][Next]_vars

\* The reconcile worker runs on a ticker for ever and a node takes what is in its
\* topic.  Nothing is assumed of the events, of the feed or of the administrator.
Fairness ==
  /\ WF_vars(ListActive) /\ WF_vars(SyncListed)
  /\ \A n \in Nodes : WF_vars(ReceiveCommand(n, FALSE))

FairSpec == Spec /\ Fairness
------------------------------------------------------------------------------
(* Properties.                                                               *)

\* Once the end of access is applied, every node that still has the user has a revoke of
\* that end on its way, whatever older events, feeds, reinstalls and moves between nodes
\* came before and in whatever order commands arrive, unless someone who did not know of
\* the end sent it a sync afterwards, or a sync was so late that the node had taken the
\* revoke and been reinstalled (publishRevokeCommands, DisableUserCredentialsTx).
EndTakesEffect ==
  Ended => \A n \in Nodes \ stray :
             node[n].account /\ node[n].rev < projection.rev => RevokePending(n)

\* The cancellation of a grace ends the revision that reconcile goes on to sync
\* (ApplyCanceled, CancelTx): a node that has applied it takes no sync of that revision.
CanceledInGrace(n) ==
  sub.state = "grace" /\ node[n] = [account |-> FALSE, rev |-> sub.rev]

\* A user with access gets his account on the node the allocator holds for him, whatever
\* events were dead-lettered, commands lost or nodes reinstalled: reconcile makes up for
\* it, but for a grace canceled.
ProvisionedWhileLive ==
  \A i \in Items :
    Lasts /\ i \in Selected
      ~> \/ ~Lasts \/ i \notin Selected
         \/ node[pool[i].node].account \/ CanceledInGrace(pool[i].node)

=============================================================================
