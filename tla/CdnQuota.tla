------------------------------- MODULE CdnQuota -------------------------------
(***************************************************************************)
(* The CDN traffic quota of one user in internal/vpn_orchestrator: a row of *)
(* vpn_user_cdn_quota per node, kept by the consumer of the nodes' traffic  *)
(* reports, by the activation of a paid period and by the calendar job, and *)
(* the node_sync_user / node_revoke_user commands that give the user's CDN  *)
(* profile to a node or take it away.                                       *)
(*                                                                          *)
(* A node counts the bytes of the user's CDN accounts and reports running   *)
(* totals; the code sees nothing but those totals.  The row keeps the total *)
(* at the start of the period (baseline) and the highest one since          *)
(* (observed): what is charged is their difference.                         *)
(*                                                                          *)
(* The node and its agent live in another repository: Use, Reinstall and    *)
(* Report are the environment.  The agent ignores a command whose           *)
(* access_rev is not newer than the one it has (reconcile_worker.go:13-14); *)
(* desired is what the service has written last, node what the node makes   *)
(* of everything written, taken at once and in order.  The user is entitled *)
(* throughout and has a credential and a CDN profile on every node.  The    *)
(* column revision of the quota, which nothing reads, metrics and           *)
(* classification by inbound tag are left out.                              *)
(***************************************************************************)
EXTENDS Naturals, Sequences

CONSTANTS
  Nodes,          \* nodes with a CDN endpoint
  Payments,       \* payments of this user
  Limit,          \* CDN_QUOTA_LIMIT_BYTES
  Enforce,        \* CDN_QUOTA_ENFORCE; CDN_QUOTA_ENABLED is on
  Reordering,     \* reports of one node may be applied out of order
  MaxMonth,       \* bound: calendar months
  MaxBytes,       \* bound: bytes through one node
  MaxRev,         \* bound: revisions of the subscription
  MaxFaults,      \* bound: lost counters, failed reads and failed resets
  MaxInFlight     \* bound: reports of one node on their way

ASSUME CdnQuotaAssumption ==
  /\ Limit \in Nat \ {0}
  /\ Enforce \in BOOLEAN /\ Reordering \in BOOLEAN
  /\ {MaxMonth, MaxRev} \subseteq Nat \ {0}
  /\ {MaxBytes, MaxFaults, MaxInFlight} \subseteq Nat

VARIABLES
  month,        \* the calendar month, UTC
  counter,      \* the running totals of each node
  passed,       \* bytes that really went through each node
  reports,      \* reports of each node that are not applied yet, oldest first
  faults,       \* faults so far
  counted,      \* nodes for which a row exists
  quota,        \* the rows of vpn_user_cdn_quota
  settled,      \* bytes charged in the closed periods of each row
  rev,          \* access_rev of the user's row of user_subscriptions
  paid,         \* payments made
  activations,  \* events of payments that are not applied yet, with their revision
  pass,         \* the month of a calendar pass under way, 0 if there is none
  due,          \* nodes the pass has still to visit
  syncRev,      \* the revision of a sync that is not published yet, 0 if there is none
  seen,         \* nodes that sync has read as exhausted
  desired,      \* whether the last command for each node includes the CDN profile
  credRev,      \* access_rev of the user's credentials on each node
  node          \* what each node has

nodeVars == <<counter, passed, reports>>
rowVars == <<counted, quota, settled>>
payVars == <<rev, paid, activations>>
passVars == <<pass, due>>
syncVars == <<syncRev, seen>>
commandVars == <<desired, credRev, node>>
vars == <<month, nodeVars, faults, rowVars, payVars, passVars, syncVars, commandVars>>

Revs == 1 .. MaxRev
CalendarKey(m) == <<"cal", m>>
PaymentKey(p) == <<"pay", p>>
Keys == {CalendarKey(m) : m \in 1 .. MaxMonth} \cup {PaymentKey(p) : p \in Payments}

Totals == [total : Nat, up : Nat]
Reports == [total : Nat, up : Nat, month : 1 .. MaxMonth]
Rows == [key : Keys, base : Nat, observed : Nat, baseUp : Nat, observedUp : Nat,
         state : {"active", "exhausted"}]
OnNode == [rev : Revs, cdn : BOOLEAN]

TypeOK ==
  /\ month \in 1 .. MaxMonth
  /\ counter \in [Nodes -> Totals]
  /\ passed \in [Nodes -> Nat]
  /\ reports \in [Nodes -> Seq(Reports)]
  /\ faults \in Nat
  /\ counted \subseteq Nodes
  /\ quota \in [Nodes -> Rows]
  /\ settled \in [Nodes -> Nat]
  /\ rev \in Revs
  /\ paid \subseteq Payments /\ activations \subseteq Payments \X Revs
  /\ pass \in 0 .. MaxMonth /\ due \subseteq Nodes
  /\ syncRev \in 0 .. MaxRev /\ seen \subseteq Nodes
  /\ desired \in [Nodes -> BOOLEAN]
  /\ credRev \in [Nodes -> Revs]
  /\ node \in [Nodes -> OnNode]

------------------------------------------------------------------------------
(* What the SQL statements make of a row.                                    *)

\* GREATEST(a - b, 0)
Less(a, b) == IF a > b THEN a - b ELSE 0
Higher(a, b) == IF a > b THEN a ELSE b

Used(q) == Less(q.observed, q.base)

\* Mutant of FirstRow: the key of the month has another prefix than the job's.
FirstRowBareKey(r) ==
  [key |-> <<"month", r.month>>, base |-> r.total, observed |-> r.total,
   baseUp |-> r.up, observedUp |-> r.up, state |-> "active"]

FirstRow(r) ==
  [key |-> CalendarKey(r.month), base |-> r.total, observed |-> r.total,
   baseUp |-> r.up, observedUp |-> r.up, state |-> "active"]

\* Mutant of Rebased: the baseline keeps the value of the lost counter.
RebasedTotalOnly(q, r) == [q EXCEPT !.observed = r.total, !.observedUp = r.up]

\* The node's total is below the row's baseline: the counters were lost.
Rebased(q, r) ==
  [q EXCEPT !.base = Less(r.total, q.observed - q.base),
            !.observed = r.total,
            !.baseUp = Less(r.up, q.observedUp - q.baseUp),
            !.observedUp = r.up]

Advanced(q, r) ==
  [q EXCEPT !.observed = Higher(@, r.total), !.observedUp = Higher(@, r.up)]

\* INSERT ... ON CONFLICT DO UPDATE of ApplyObservationTx
Observed(q, r) == IF r.total < q.base THEN Rebased(q, r) ELSE Advanced(q, r)

\* Mutant of Settle: the quota is spent one byte after the limit.
SettlePastLimit(q) == IF Used(q) > Limit THEN [q EXCEPT !.state = "exhausted"] ELSE q

\* Mutant of Settle: the state follows the usage in both directions.
SettleBothWays(q) ==
  [q EXCEPT !.state = IF Used(q) >= Limit THEN "exhausted" ELSE "active"]

\* The conditional UPDATE of ApplyObservationTx.
Settle(q) == IF Used(q) >= Limit THEN [q EXCEPT !.state = "exhausted"] ELSE q

\* ResetQuotaTx and ResetQuotaForUserTx: the uplink baseline is not among the
\* columns they set.
NewPeriod(q, key) ==
  [q EXCEPT !.key = key, !.base = q.observed, !.state = "active"]

------------------------------------------------------------------------------
Init ==
  /\ month = 1
  /\ counter = [n \in Nodes |-> [total |-> 0, up |-> 0]]
  /\ passed = [n \in Nodes |-> 0]
  /\ reports = [n \in Nodes |-> <<>>]
  /\ faults = 0
  /\ counted = {}
  /\ quota = [n \in Nodes |-> FirstRow([total |-> 0, up |-> 0, month |-> 1])]
  /\ settled = [n \in Nodes |-> 0]
  /\ rev = 1
  /\ paid = {} /\ activations = {}
  /\ pass = 0 /\ due = {}
  /\ syncRev = 0 /\ seen = {}
  /\ desired = [n \in Nodes |-> TRUE]
  /\ credRev = [n \in Nodes |-> 1]
  /\ node = [n \in Nodes |-> [rev |-> 1, cdn |-> TRUE]]

Fault ==
  /\ faults < MaxFaults
  /\ faults' = faults + 1

\* The environment: the user's traffic, a reinstalled agent, a report, the calendar.
Use(n) ==
  /\ passed[n] < MaxBytes
  /\ passed' = [passed EXCEPT ![n] = @ + 1]
  /\ \E up \in {0, 1} :
       counter' = [counter EXCEPT ![n] = [total |-> @.total + 1, up |-> @.up + up]]
  /\ UNCHANGED <<month, reports, faults, rowVars, payVars, passVars, syncVars, commandVars>>

Reinstall(n) ==
  /\ Fault
  /\ counter' = [counter EXCEPT ![n] = [total |-> 0, up |-> 0]]
  /\ UNCHANGED <<month, passed, reports, rowVars, payVars, passVars, syncVars, commandVars>>

Report(n) ==
  /\ Len(reports[n]) < MaxInFlight
  /\ reports' = [reports EXCEPT ![n] =
       Append(@, [total |-> counter[n].total, up |-> counter[n].up, month |-> month])]
  /\ UNCHANGED <<month, counter, passed, faults, rowVars, payVars, passVars, syncVars,
                 commandVars>>

NextMonth ==
  /\ month < MaxMonth
  /\ month' = month + 1
  /\ UNCHANGED <<nodeVars, faults, rowVars, payVars, passVars, syncVars, commandVars>>

\* user-subscription takes a payment: the row gets a revision, its event says which.
Pay(p) ==
  /\ p \notin paid /\ rev < MaxRev
  /\ paid' = paid \cup {p}
  /\ rev' = rev + 1
  /\ activations' = activations \cup {<<p, rev'>>}
  /\ UNCHANGED <<month, nodeVars, faults, rowVars, passVars, syncVars, commandVars>>

\* Another change of the row, such as a rotated token.
Revise ==
  /\ rev < MaxRev
  /\ rev' = rev + 1
  /\ UNCHANGED <<month, nodeVars, faults, rowVars, paid, activations, passVars, syncVars,
                 commandVars>>

------------------------------------------------------------------------------
(* The commands.                                                              *)

\* The node ignores a revision it has.
Taken(n, r, has) == IF r > node[n].rev THEN [rev |-> r, cdn |-> has] ELSE node[n]

\* publishSyncCommands after EnsureCredentialsForItemsTx: a node_sync_user per node.
SyncNodes(r, without) ==
  /\ desired' = [n \in Nodes |-> n \notin without]
  /\ credRev' = [n \in Nodes |-> Higher(credRev[n], r)]
  /\ node' = [n \in Nodes |-> Taken(n, r, n \notin without)]

\* publishCDNRevoke: a revoke of the CDN profile, with the revision of the credentials.
RevokeCdn(n) ==
  /\ desired' = [desired EXCEPT ![n] = FALSE]
  /\ node' = [node EXCEPT ![n] = Taken(n, credRev[n], FALSE)]
  /\ UNCHANGED credRev

\* ApplyNodeTraffic with applyCDNQuota: the handler, the inbox row and the revoke
\* command are one transaction, so a redelivered report does nothing.
ApplyNodeTraffic(n, i) ==
  /\ i \in 1 .. Len(reports[n])
  /\ Reordering \/ i = 1
  /\ LET r == reports[n][i]
         observed == IF n \in counted THEN Observed(quota[n], r) ELSE FirstRow(r)
         justExhausted == observed.state = "active" /\ Settle(observed).state = "exhausted"
     IN  /\ quota' = [quota EXCEPT ![n] = Settle(observed)]
         /\ IF Enforce /\ justExhausted THEN RevokeCdn(n) ELSE UNCHANGED commandVars
  /\ reports' = [reports EXCEPT ![n] = SubSeq(@, 1, i - 1) \o SubSeq(@, i + 1, Len(@))]
  /\ counted' = counted \cup {n}
  /\ UNCHANGED <<month, counter, passed, faults, settled, payVars, passVars, syncVars>>

\* The nodes ExhaustedNodesForUser returns.
Exhausted == {n \in counted : Enforce /\ quota[n].state = "exhausted"}

\* What a sync takes for exhausted: all nodes are taken for active when the read fails.
ReadAs(nodes) ==
  \/ nodes = Exhausted /\ UNCHANGED faults
  \/ nodes = {} /\ Enforce /\ Fault

\* Mutant of Reset: the rows keep their baseline.
ResetForgetsBase(nodes, key) ==
  LET stale == {n \in nodes \cap counted : quota[n].key # key}
  IN  /\ quota' = [n \in Nodes |-> IF n \in stale
                                     THEN [quota[n] EXCEPT !.key = key, !.state = "active"]
                                     ELSE quota[n]]
      /\ settled' = [n \in Nodes |-> settled[n] + IF n \in stale THEN Used(quota[n]) ELSE 0]

\* WHERE period_key <> key
Reset(nodes, key) ==
  LET stale == {n \in nodes \cap counted : quota[n].key # key}
  IN  /\ quota' = [n \in Nodes |-> IF n \in stale THEN NewPeriod(quota[n], key) ELSE quota[n]]
      /\ settled' = [n \in Nodes |-> settled[n] + IF n \in stale THEN Used(quota[n]) ELSE 0]

\* ApplyActivated of a payment: ResetQuotaForUserTx, then publishSyncCommands in the
\* same transaction.  ExhaustedNodesForUser reads through the pool, on another
\* connection, what was committed before; the reset's row locks keep everyone else
\* from the rows meanwhile.
ApplyActivated(p, r) ==
  /\ <<p, r>> \in activations
  /\ activations' = activations \ {<<p, r>>}
  /\ Reset(Nodes, PaymentKey(p))
  /\ \E nodes \in SUBSET Nodes : ReadAs(nodes) /\ SyncNodes(r, nodes)
  /\ UNCHANGED <<month, nodeVars, counted, rev, paid, passVars, syncVars>>

\* cdnQuotaPassOnce, runCalendarReset: the key is computed once for the whole pass.
BeginPass ==
  /\ pass = 0
  /\ pass' = month
  /\ due' = Nodes
  /\ UNCHANGED <<month, nodeVars, faults, rowVars, payVars, syncVars, commandVars>>

\* Mutant of CalendarReset: the job leaves the periods payments opened alone.
CalendarResetSkipsPaid(n) ==
  /\ pass # 0 /\ n \in due
  /\ due' = due \ {n}
  /\ n \in counted
  /\ quota[n].key \in {CalendarKey(m) : m \in (1 .. MaxMonth) \ {pass}}
  /\ Reset({n}, CalendarKey(pass))
  /\ UNCHANGED <<month, nodeVars, faults, counted, payVars, pass, syncVars, commandVars>>

\* A row ListQuotasForCalendarReset has listed, and ResetQuotaTx for it.
CalendarReset(n) ==
  /\ pass # 0 /\ n \in due
  /\ due' = due \ {n}
  /\ n \in counted
  /\ quota[n].key # CalendarKey(pass)
  /\ Reset({n}, CalendarKey(pass))
  /\ UNCHANGED <<month, nodeVars, faults, counted, payVars, pass, syncVars, commandVars>>

\* A row that is not listed, because it is in the month, or whose reset fails.
PassBy(n) ==
  /\ pass # 0 /\ n \in due
  /\ due' = due \ {n}
  /\ IF n \in counted /\ quota[n].key # CalendarKey(pass) THEN Fault ELSE UNCHANGED faults
  /\ UNCHANGED <<month, nodeVars, rowVars, payVars, pass, syncVars, commandVars>>

\* The pass ends after its last row, or early when it cannot list or begin.
EndPass ==
  /\ pass # 0
  /\ pass' = 0 /\ due' = {}
  /\ IF due # {} THEN Fault ELSE UNCHANGED faults
  /\ UNCHANGED <<month, nodeVars, rowVars, payVars, syncVars, commandVars>>

\* publishSyncCommands of the reconcile worker, and of the handlers that sync without a
\* payment.  The revision is of the row as it was listed, or of the event.  It reads the
\* exhausted nodes...
ReadExhausted ==
  /\ syncRev = 0
  /\ \E r \in 1 .. rev : syncRev' = r
  /\ \E nodes \in SUBSET Nodes : ReadAs(nodes) /\ seen' = nodes
  /\ UNCHANGED <<month, nodeVars, rowVars, payVars, passVars, commandVars>>

\* Mutant of PublishSync: a sync always carries the CDN profile.
PublishEverything ==
  /\ syncRev # 0
  /\ syncRev' = 0 /\ seen' = {}
  /\ SyncNodes(syncRev, {})
  /\ UNCHANGED <<month, nodeVars, faults, rowVars, payVars, passVars>>

\* ...and adds a node_sync_user command per node to the outbox.
PublishSync ==
  /\ syncRev # 0
  /\ syncRev' = 0 /\ seen' = {}
  /\ SyncNodes(syncRev, seen)
  /\ UNCHANGED <<month, nodeVars, faults, rowVars, payVars, passVars>>

\* The feed brings the credentials to the revision of the row and sends no command.
ServeFeed ==
  /\ credRev' = [n \in Nodes |-> Higher(credRev[n], rev)]
  /\ UNCHANGED <<month, nodeVars, faults, rowVars, payVars, passVars, syncVars, desired, node>>

Next ==
  \/ \E n \in Nodes : \/ Use(n) \/ Reinstall(n) \/ Report(n) \/ CalendarReset(n) \/ PassBy(n)
                      \/ \E i \in 1 .. MaxInFlight : ApplyNodeTraffic(n, i)
  \/ \E p \in Payments : Pay(p) \/ \E r \in Revs : ApplyActivated(p, r)
  \/ BeginPass \/ EndPass \/ ReadExhausted \/ PublishSync \/ ServeFeed
  \/ NextMonth \/ Revise

Spec == Init /\ [][Next]_vars

\* Both workers run on a ticker for ever.  Nothing is assumed of the nodes, of the
\* user or of the calendar.
Fairness ==
  /\ WF_vars(BeginPass) /\ WF_vars(EndPass)
  /\ \A n \in Nodes : WF_vars(CalendarReset(n)) /\ WF_vars(PassBy(n))
  /\ WF_vars(ReadExhausted) /\ WF_vars(PublishSync)

FairSpec == Spec /\ Fairness

------------------------------------------------------------------------------
(* Properties.                                                               *)

\* No byte is charged twice: over all periods, whatever reports repeat or are
\* missed and whatever counters are lost or reset in between, the user is charged at
\* most what went through the node (ApplyObservationTx, ResetQuotaTx).
NoByteChargedTwice == \A n \in Nodes : settled[n] + Used(quota[n]) <= passed[n]

\* A row still active has quota left: exhaustion is noticed by the very report that
\* reaches the limit, and a new period starts below it.
ActiveHasQuotaLeft ==
  \A n \in Nodes : quota[n].state = "active" => Used(quota[n]) < Limit

\* Only a new period gives an exhausted quota back: no report of a node does, not
\* even one whose lost counters lower the usage (ApplyObservationTx).
OnlyPeriodReopens ==
  [][\A n \in Nodes :
       quota[n].state = "exhausted" /\ quota'[n].state = "active"
         => quota'[n].key # quota[n].key]_vars

\* The stored totals never contradict each other, however counters jump: each baseline
\* stays within its observed total, so the plain differences the statements compute
\* (observed_bytes - baseline_bytes, and the uplink's) are never negative.
BaselineWithinTotal ==
  \A n \in Nodes : /\ quota[n].base <= quota[n].observed
                    /\ quota[n].baseUp <= quota[n].observedUp

\* A pass missed at midnight is made up: every row comes into the calendar month
\* (runCalendarReset).
MonthCaughtUp ==
  \A n \in Nodes, m \in 1 .. MaxMonth :
    month = m /\ n \in counted /\ quota[n].key # CalendarKey(m)
      ~> month # m \/ quota[n].key = CalendarKey(m)

\* With enforcement on, the last command written for a node ends without the CDN profile
\* while its quota is exhausted, and with it while it is active, whatever stale or failed
\* reads came between (publishCDNRevoke, reconcileOnce, publishSyncCommands).  It speaks of
\* the desired state the service writes, not of what a node takes.
DesiredFollowsQuota ==
  \A n \in Nodes :
    /\ quota[n].state = "exhausted" /\ Enforce ~> quota[n].state = "active" \/ ~desired[n]
    /\ quota[n].state = "active" ~> quota[n].state = "exhausted" \/ desired[n]

------------------------------------------------------------------------------
(* Statements of the comments that the code does not keep.                   *)

\* runCalendarReset: after a reset the CDN access comes back through reconcile, "строка
\* снова active, поэтому ближайший проход положит CDN-профиль в желаемое состояние";
\* ApplyActivated: the reset precedes the sync, "иначе ниже по коду мы бы прочитали ещё
\* исчерпанное состояние и не вернули CDN-профиль".  That is: a node whose quota is
\* active again gets the profile.
ResetRestoresCdn ==
  \A n \in Nodes : quota[n].state = "active" ~> quota[n].state = "exhausted" \/ node[n].cdn

=============================================================================
