---------------------------- MODULE CdnQuotaProofs ----------------------------
(***************************************************************************)
(* Theorems about CdnQuota, for any nodes, payments, limit and bounds, and  *)
(* whatever counters are lost and reports reordered.                        *)
(*                                                                          *)
(* What a row promises (quota left while active, baselines within totals)   *)
(* is a property of one row, RowOK; the lemmas show that every SQL          *)
(* statement makes a RowOK row of a RowOK row, and the invariant follows.   *)
(* That no byte is charged twice needs the reports on the way as well, and  *)
(* holds while they keep their order.                                       *)
(***************************************************************************)
EXTENDS CdnQuota, TLAPS

RowOK(q) ==
  /\ q \in Rows
  /\ q.base <= q.observed
  /\ q.baseUp <= q.observedUp
  /\ q.state = "active" => Used(q) < Limit

IInv ==
  /\ TypeOK
  /\ \A n \in Nodes : RowOK(quota[n])
  /\ \A n \in Nodes : quota[n].state = "exhausted" => n \in counted

\* The keys of months and payments are keys (calendarPeriodKey, paymentPeriodKey).
LEMMA KeyTypes ==
  /\ \A m \in 1 .. MaxMonth : CalendarKey(m) \in Keys
  /\ \A p \in Payments : PaymentKey(p) \in Keys
  BY DEF Keys

\* The first row of a node charges nothing (ApplyObservationTx, INSERT).
LEMMA FirstRowOK ==
  ASSUME NEW r \in Reports
  PROVE  RowOK(FirstRow(r))
<1>1. CalendarKey(r.month) \in Keys
  BY KeyTypes DEF Reports
<1>2. FirstRow(r) \in Rows
  BY <1>1 DEF FirstRow, Rows, Reports
<1>3. Used(FirstRow(r)) = 0
  BY DEF Used, Less, FirstRow, Reports
<1> QED
  BY <1>2, <1>3, CdnQuotaAssumption DEF RowOK, FirstRow, Reports

\* A report leaves the row well formed except that its usage may have reached the
\* limit, and changes neither key nor state (ApplyObservationTx, ON CONFLICT).
LEMMA ObservedOK ==
  ASSUME NEW q, RowOK(q), NEW r \in Reports
  PROVE  /\ Observed(q, r) \in Rows
         /\ Observed(q, r).base <= Observed(q, r).observed
         /\ Observed(q, r).baseUp <= Observed(q, r).observedUp
         /\ Observed(q, r).key = q.key
         /\ Observed(q, r).state = q.state
<1>0. /\ {q.base, q.observed, q.baseUp, q.observedUp, r.total, r.up} \subseteq Nat
      /\ q.base <= q.observed /\ q.baseUp <= q.observedUp
  BY DEF RowOK, Rows, Reports
<1>1. CASE r.total < q.base
  <2> DEFINE base == Less(r.total, q.observed - q.base)
             baseUp == Less(r.up, q.observedUp - q.baseUp)
  <2>1. base \in Nat /\ base <= r.total
    BY <1>0 DEF Less
  <2>2. baseUp \in Nat /\ baseUp <= r.up
    BY <1>0 DEF Less
  <2>3. Observed(q, r) = [q EXCEPT !.base = base, !.observed = r.total,
                                   !.baseUp = baseUp, !.observedUp = r.up]
    BY <1>1 DEF Observed, Rebased
  <2> HIDE DEF base, baseUp
  <2> QED
    BY <1>0, <2>1, <2>2, <2>3 DEF RowOK, Rows
<1>2. CASE ~(r.total < q.base)
  <2> DEFINE observed == Higher(q.observed, r.total)
             observedUp == Higher(q.observedUp, r.up)
  <2>1. observed \in Nat /\ q.base <= observed
    BY <1>0 DEF Higher
  <2>2. observedUp \in Nat /\ q.baseUp <= observedUp
    BY <1>0 DEF Higher
  <2>3. Observed(q, r) = [q EXCEPT !.observed = observed, !.observedUp = observedUp]
    BY <1>2 DEF Observed, Advanced
  <2> HIDE DEF observed, observedUp
  <2> QED
    BY <1>0, <2>1, <2>2, <2>3 DEF RowOK, Rows
<1> QED
  BY <1>1, <1>2

\* The conditional UPDATE closes a row that has reached the limit, and only that.
LEMMA SettleOK ==
  ASSUME NEW q \in Rows, q.base <= q.observed, q.baseUp <= q.observedUp
  PROVE  /\ RowOK(Settle(q))
         /\ Settle(q).key = q.key
         /\ q.state = "exhausted" => Settle(q).state = "exhausted"
<1>1. Used(q) \in Nat
  BY DEF Used, Less, Rows
<1>2. CASE Used(q) >= Limit
  BY <1>2 DEF Settle, RowOK, Rows
<1>3. CASE ~(Used(q) >= Limit)
  BY <1>1, <1>3, CdnQuotaAssumption DEF Settle, RowOK, Rows
<1> QED
  BY <1>2, <1>3

\* A new period starts with nothing charged (ResetQuotaTx, ResetQuotaForUserTx).
LEMMA NewPeriodOK ==
  ASSUME NEW q, RowOK(q), NEW key \in Keys
  PROVE  RowOK(NewPeriod(q, key)) /\ NewPeriod(q, key).key = key
<1>1. NewPeriod(q, key) \in Rows
  BY DEF NewPeriod, RowOK, Rows
<1>2. Used(NewPeriod(q, key)) = 0
  BY DEF NewPeriod, Used, Less, RowOK, Rows
<1> QED
  BY <1>1, <1>2, CdnQuotaAssumption DEF NewPeriod, RowOK, Rows

\* Reset opens a period in the rows whose key differs and leaves the others alone.
LEMMA ResetOK ==
  ASSUME IInv, NEW nodes, NEW key \in Keys, Reset(nodes, key)
  PROVE  /\ quota' \in [Nodes -> Rows]
         /\ settled' \in [Nodes -> Nat]
         /\ \A n \in Nodes : RowOK(quota'[n])
         /\ \A n \in Nodes : quota'[n] # quota[n] => quota'[n].key # quota[n].key
         /\ \A n \in Nodes : quota'[n].state = "exhausted" => n \in counted
<1> DEFINE stale == {n \in nodes \cap counted : quota[n].key # key}
<1>1. quota' = [n \in Nodes |-> IF n \in stale THEN NewPeriod(quota[n], key) ELSE quota[n]]
  BY DEF Reset
<1>2. settled' = [n \in Nodes |-> settled[n] + IF n \in stale THEN Used(quota[n]) ELSE 0]
  BY DEF Reset
<1>3. \A n \in Nodes : RowOK(quota[n])
  BY DEF IInv
<1>4. ASSUME NEW n \in Nodes
      PROVE  /\ RowOK(quota'[n])
             /\ quota'[n] # quota[n] => quota'[n].key # quota[n].key
             /\ quota'[n].state = "exhausted" => n \in counted
  <2>1. CASE n \in stale
    <3>1. quota'[n] = NewPeriod(quota[n], key)
      BY <2>1, <1>1
    <3>2. quota[n].key # key
      BY <2>1
    <3>3. n \in counted
      BY <2>1
    <3>4. RowOK(quota[n])
      BY <1>3
    <3>5. /\ RowOK(NewPeriod(quota[n], key))
          /\ NewPeriod(quota[n], key).key = key
      BY <3>4, NewPeriodOK
    <3> HIDE DEF stale
    <3> QED
      BY <3>1, <3>2, <3>3, <3>5
  <2>2. CASE n \notin stale
    <3>1. quota'[n] = quota[n]
      BY <2>2, <1>1
    <3> QED
      BY <3>1, <1>3 DEF IInv
  <2> QED
    BY <2>1, <2>2
<1>5. quota' \in [Nodes -> Rows]
  BY <1>1, <1>4 DEF RowOK
<1>6. settled' \in [Nodes -> Nat]
  <2>1. ASSUME NEW n \in Nodes PROVE Used(quota[n]) \in Nat
    <3>1. {quota[n].base, quota[n].observed} \subseteq Nat
      BY <1>3 DEF RowOK, Rows
    <3> QED
      BY <3>1 DEF Used, Less
  <2>2. settled \in [Nodes -> Nat]
    BY DEF IInv, TypeOK
  <2>3. ASSUME NEW n \in Nodes
        PROVE  settled[n] + (IF n \in stale THEN Used(quota[n]) ELSE 0) \in Nat
    <3>1. settled[n] \in Nat
      BY <2>2
    <3>2. Used(quota[n]) \in Nat
      BY <2>1
    <3> HIDE DEF stale
    <3> QED
      BY <3>1, <3>2
  <2> QED
    BY <1>2, <2>3
<1> QED
  BY <1>4, <1>5, <1>6

\* A report settles the row of its node and touches no other (ApplyNodeTraffic).
LEMMA TrafficOK ==
  ASSUME IInv, NEW n \in Nodes, NEW i \in Nat, ApplyNodeTraffic(n, i)
  PROVE  /\ quota' \in [Nodes -> Rows]
         /\ reports' \in [Nodes -> Seq(Reports)]
         /\ \A k \in Nodes : RowOK(quota'[k])
         /\ \A k \in Nodes : quota[k].state = "exhausted" => quota'[k].state = "exhausted"
         /\ \A k \in Nodes : quota'[k].state = "exhausted" => k \in counted'
<1> DEFINE r == reports[n][i]
           observed == IF n \in counted THEN Observed(quota[n], r) ELSE FirstRow(r)
<1>1. reports[n] \in Seq(Reports) /\ i \in 1 .. Len(reports[n])
  BY DEF IInv, TypeOK, ApplyNodeTraffic
<1>2. r \in Reports
  BY <1>1
<1>3. RowOK(quota[n]) /\ quota \in [Nodes -> Rows]
  BY DEF IInv, TypeOK
<1>4. quota' = [quota EXCEPT ![n] = Settle(observed)]
  BY DEF ApplyNodeTraffic
<1>5. /\ observed \in Rows
      /\ observed.base <= observed.observed
      /\ observed.baseUp <= observed.observedUp
      /\ n \in counted => observed.state = quota[n].state
  <2>1. CASE n \in counted
    BY <2>1, <1>2, <1>3, ObservedOK
  <2>2. CASE n \notin counted
    BY <2>2, <1>2, FirstRowOK DEF RowOK
  <2> QED
    BY <2>1, <2>2
<1>6. /\ RowOK(Settle(observed))
      /\ observed.state = "exhausted" => Settle(observed).state = "exhausted"
  BY <1>5, SettleOK
<1>7. reports' \in [Nodes -> Seq(Reports)]
  <2>1. SubSeq(reports[n], 1, i - 1) \o SubSeq(reports[n], i + 1, Len(reports[n])) \in Seq(Reports)
    <3> DEFINE s == reports[n]
    <3>1. SubSeq(s, 1, i - 1) \in Seq(Reports)
      BY <1>1
    <3>2. SubSeq(s, i + 1, Len(s)) \in Seq(Reports)
      BY <1>1
    <3> QED
      BY <3>1, <3>2
  <2> QED
    BY <2>1 DEF IInv, TypeOK, ApplyNodeTraffic
<1>8. quota' \in [Nodes -> Rows]
  BY <1>3, <1>4, <1>6 DEF RowOK
<1>9. ASSUME NEW k \in Nodes
      PROVE  /\ RowOK(quota'[k])
             /\ quota[k].state = "exhausted" => quota'[k].state = "exhausted"
             /\ quota'[k].state = "exhausted" => k \in counted'
  <2>1. CASE k = n
    <3>1. quota'[k] = Settle(observed)
      BY <2>1, <1>3, <1>4
    <3>2. quota[n].state = "exhausted" => n \in counted
      BY DEF IInv
    <3>3. n \in counted'
      BY DEF ApplyNodeTraffic
    <3> HIDE DEF observed
    <3> QED
      BY <3>1, <3>2, <3>3, <2>1, <1>5, <1>6
  <2>2. CASE k # n
    <3>1. quota'[k] = quota[k]
      BY <2>2, <1>3, <1>4
    <3>2. counted' = counted \cup {n}
      BY DEF ApplyNodeTraffic
    <3> QED
      BY <3>1, <3>2 DEF IInv
  <2> QED
    BY <2>1, <2>2
<1> QED
  BY <1>7, <1>8, <1>9

\* The initial state has no rows; what stands in for them is well formed.
LEMMA InitIInv == Init => IInv
<1> SUFFICES ASSUME Init PROVE IInv
  OBVIOUS
<1> DEFINE zero == [total |-> 0, up |-> 0, month |-> 1]
<1>1. zero \in Reports
  BY CdnQuotaAssumption DEF Reports
<1>2. RowOK(FirstRow(zero))
  BY <1>1, FirstRowOK
<1>3. quota = [n \in Nodes |-> FirstRow(zero)]
  BY DEF Init
<1>4. \A n \in Nodes : RowOK(quota[n])
  BY <1>2, <1>3
<1>5. quota \in [Nodes -> Rows]
  BY <1>2, <1>3 DEF RowOK
<1>6. TypeOK
  <2>1. month \in 1 .. MaxMonth
    BY CdnQuotaAssumption DEF Init
  <2>2. counter \in [Nodes -> Totals] /\ reports \in [Nodes -> Seq(Reports)]
    BY DEF Init, Totals
  <2>3. /\ pass \in 0 .. MaxMonth /\ due \subseteq Nodes
        /\ syncRev \in 0 .. MaxRev /\ seen \subseteq Nodes
    BY CdnQuotaAssumption DEF Init
  <2>4. 1 \in Revs
    BY CdnQuotaAssumption DEF Revs
  <2>5. /\ rev \in Revs /\ paid \subseteq Payments /\ activations \subseteq Payments \X Revs
        /\ desired \in [Nodes -> BOOLEAN] /\ credRev \in [Nodes -> Revs]
        /\ node \in [Nodes -> OnNode]
    BY <2>4 DEF Init, OnNode
  <2> QED
    BY <1>5, <2>1, <2>2, <2>3, <2>5 DEF Init, TypeOK
<1>7. \A n \in Nodes : quota[n].state # "exhausted"
  BY <1>3 DEF FirstRow
<1> QED
  BY <1>4, <1>6, <1>7 DEF IInv

\* Steps that leave the rows alone need only keep the types.
LEMMA SameRows ==
  ASSUME IInv, TypeOK', UNCHANGED <<quota, counted>>
  PROVE  IInv'
  BY DEF IInv, RowOK, Used, Less

\* A node, its last command and its credentials keep their types under every command.
LEMMA TakenType ==
  ASSUME TypeOK, NEW n \in Nodes, NEW r \in Revs, NEW has \in BOOLEAN
  PROVE  Taken(n, r, has) \in OnNode
  BY DEF TypeOK, Taken, OnNode

LEMMA SyncType ==
  ASSUME TypeOK, NEW r \in Revs, NEW without, SyncNodes(r, without)
  PROVE  /\ desired' \in [Nodes -> BOOLEAN] /\ credRev' \in [Nodes -> Revs]
         /\ node' \in [Nodes -> OnNode]
<1>1. \A n \in Nodes : Taken(n, r, n \notin without) \in OnNode
  BY TakenType
<1>2. \A n \in Nodes : Higher(credRev[n], r) \in Revs
  BY DEF TypeOK, Higher
<1> QED
  BY <1>1, <1>2 DEF SyncNodes

LEMMA RevokeType ==
  ASSUME TypeOK, NEW n \in Nodes, RevokeCdn(n)
  PROVE  /\ desired' \in [Nodes -> BOOLEAN] /\ credRev' \in [Nodes -> Revs]
         /\ node' \in [Nodes -> OnNode]
<1>1. credRev[n] \in Revs
  BY DEF TypeOK
<1>2. Taken(n, credRev[n], FALSE) \in OnNode
  BY <1>1, TakenType
<1> QED
  BY <1>2 DEF RevokeCdn, TypeOK

\* Every step keeps the invariant.
LEMMA NextIInv == IInv /\ [Next]_vars => IInv'
<1> SUFFICES ASSUME IInv, [Next]_vars PROVE IInv'
  OBVIOUS
<1>0. TypeOK
  BY DEF IInv
<1> USE DEF nodeVars, rowVars, payVars, passVars, syncVars, commandVars
<1>1. ASSUME NEW n \in Nodes, Use(n) PROVE IInv'
  <2>1. PICK up \in {0, 1} :
          counter' = [counter EXCEPT ![n] = [total |-> @.total + 1, up |-> @.up + up]]
    BY <1>1 DEF Use
  <2>2. counter' \in [Nodes -> Totals]
    BY <2>1, <1>0 DEF TypeOK, Totals
  <2>3. TypeOK'
    BY <2>2, <1>0, <1>1 DEF Use, TypeOK
  <2> QED
    BY <2>3, <1>1, SameRows DEF Use
<1>2. ASSUME NEW n \in Nodes, Reinstall(n) PROVE IInv'
  <2>1. counter' \in [Nodes -> Totals]
    BY <1>0, <1>2 DEF Reinstall, TypeOK, Totals
  <2>2. TypeOK'
    BY <2>1, <1>0, <1>2 DEF Reinstall, Fault, TypeOK
  <2> QED
    BY <2>2, <1>2, SameRows DEF Reinstall
<1>3. ASSUME NEW n \in Nodes, Report(n) PROVE IInv'
  <2>1. [total |-> counter[n].total, up |-> counter[n].up, month |-> month] \in Reports
    BY <1>0 DEF TypeOK, Totals, Reports
  <2>2. TypeOK'
    BY <2>1, <1>0, <1>3 DEF Report, TypeOK
  <2> QED
    BY <2>2, <1>3, SameRows DEF Report
<1>4. ASSUME NEW n \in Nodes, CalendarReset(n) PROVE IInv'
  <2>1. CalendarKey(pass) \in Keys
    BY <1>0, <1>4, KeyTypes DEF CalendarReset, TypeOK
  <2>2. /\ quota' \in [Nodes -> Rows]
        /\ settled' \in [Nodes -> Nat]
        /\ \A k \in Nodes : RowOK(quota'[k])
        /\ \A k \in Nodes : quota'[k].state = "exhausted" => k \in counted
    BY <2>1, <1>4, ResetOK DEF CalendarReset
  <2>3. TypeOK'
    BY <2>2, <1>0, <1>4 DEF CalendarReset, TypeOK
  <2>4. counted' = counted
    BY <1>4 DEF CalendarReset
  <2>5. \A k \in Nodes : RowOK(quota[k])'
    BY <2>2 DEF RowOK, Used, Less
  <2> QED
    BY <2>2, <2>3, <2>4, <2>5 DEF IInv
<1>5. ASSUME NEW n \in Nodes, NEW i \in 1 .. MaxInFlight, ApplyNodeTraffic(n, i) PROVE IInv'
  <2>1. /\ quota' \in [Nodes -> Rows]
        /\ reports' \in [Nodes -> Seq(Reports)]
        /\ \A k \in Nodes : RowOK(quota'[k])
        /\ \A k \in Nodes : quota'[k].state = "exhausted" => k \in counted'
    BY <1>5, TrafficOK, CdnQuotaAssumption
  <2>2. RevokeCdn(n) \/ UNCHANGED commandVars
    BY <1>5 DEF ApplyNodeTraffic
  <2>3. /\ desired' \in [Nodes -> BOOLEAN] /\ credRev' \in [Nodes -> Revs]
        /\ node' \in [Nodes -> OnNode]
    BY <1>0, <2>2, RevokeType DEF TypeOK
  <2>4. TypeOK'
    BY <2>1, <2>3, <1>0, <1>5 DEF ApplyNodeTraffic, TypeOK
  <2>5. \A k \in Nodes : RowOK(quota[k])'
    BY <2>1 DEF RowOK, Used, Less
  <2> QED
    BY <2>1, <2>4, <2>5 DEF IInv
<1>6. ASSUME NEW p \in Payments, NEW r \in Revs, ApplyActivated(p, r) PROVE IInv'
  <2>1. /\ quota' \in [Nodes -> Rows]
        /\ settled' \in [Nodes -> Nat]
        /\ \A k \in Nodes : RowOK(quota'[k])
        /\ \A k \in Nodes : quota'[k].state = "exhausted" => k \in counted
    BY <1>6, KeyTypes, ResetOK DEF ApplyActivated
  <2>2. PICK nodes \in SUBSET Nodes : ReadAs(nodes) /\ SyncNodes(r, nodes)
    BY <1>6 DEF ApplyActivated
  <2>3. /\ desired' \in [Nodes -> BOOLEAN] /\ credRev' \in [Nodes -> Revs]
        /\ node' \in [Nodes -> OnNode]
    BY <1>0, <2>2, SyncType
  <2>4. faults' \in Nat
    BY <1>0, <2>2 DEF ReadAs, Fault, TypeOK
  <2>5. TypeOK'
    BY <2>1, <2>3, <2>4, <1>0, <1>6 DEF ApplyActivated, TypeOK
  <2>6. counted' = counted
    BY <1>6 DEF ApplyActivated
  <2>7. \A k \in Nodes : RowOK(quota[k])'
    BY <2>1 DEF RowOK, Used, Less
  <2> QED
    BY <2>1, <2>5, <2>6, <2>7 DEF IInv
<1>7. ASSUME \/ BeginPass \/ EndPass \/ NextMonth \/ \E n \in Nodes : PassBy(n)
      PROVE IInv'
  <2>1. month' \in 1 .. MaxMonth /\ pass' \in 0 .. MaxMonth /\ due' \subseteq Nodes
    BY <1>0, <1>7, CdnQuotaAssumption DEF BeginPass, EndPass, NextMonth, PassBy, TypeOK
  <2>2. faults' \in Nat
    BY <1>0, <1>7 DEF BeginPass, EndPass, NextMonth, PassBy, Fault, TypeOK
  <2>3. UNCHANGED <<nodeVars, rowVars, payVars, syncVars, commandVars>>
    BY <1>7 DEF BeginPass, EndPass, NextMonth, PassBy
  <2>4. TypeOK'
    BY <1>0, <2>1, <2>2, <2>3 DEF TypeOK
  <2> QED
    BY <2>3, <2>4, SameRows
<1>8. ASSUME NEW p \in Payments, Pay(p) PROVE IInv'
  <2>1. rev' \in Revs
    BY <1>0, <1>8, CdnQuotaAssumption DEF Pay, TypeOK, Revs
  <2>2. TypeOK'
    BY <1>0, <1>8, <2>1 DEF Pay, TypeOK
  <2> QED
    BY <1>8, <2>2, SameRows DEF Pay
<1>9. ASSUME Revise PROVE IInv'
  <2>1. rev' \in Revs
    BY <1>0, <1>9, CdnQuotaAssumption DEF Revise, TypeOK, Revs
  <2>2. TypeOK'
    BY <1>0, <1>9, <2>1 DEF Revise, TypeOK
  <2> QED
    BY <1>9, <2>2, SameRows DEF Revise
<1>10. ASSUME ReadExhausted PROVE IInv'
  <2>1. syncRev' \in 0 .. MaxRev
    BY <1>0, <1>10, CdnQuotaAssumption DEF ReadExhausted, TypeOK, Revs
  <2>2. seen' \subseteq Nodes /\ faults' \in Nat
    BY <1>0, <1>10 DEF ReadExhausted, ReadAs, Fault, TypeOK
  <2>3. TypeOK'
    BY <1>0, <1>10, <2>1, <2>2 DEF ReadExhausted, TypeOK
  <2> QED
    BY <1>10, <2>3, SameRows DEF ReadExhausted
<1>11. ASSUME PublishSync PROVE IInv'
  <2>1. syncRev \in Revs
    BY <1>0, <1>11, CdnQuotaAssumption DEF PublishSync, TypeOK, Revs
  <2>2. /\ desired' \in [Nodes -> BOOLEAN] /\ credRev' \in [Nodes -> Revs]
        /\ node' \in [Nodes -> OnNode]
    BY <1>0, <1>11, <2>1, SyncType DEF PublishSync
  <2>3. TypeOK'
    BY <1>0, <1>11, <2>2, CdnQuotaAssumption DEF PublishSync, TypeOK
  <2> QED
    BY <1>11, <2>3, SameRows DEF PublishSync
<1>12. ASSUME ServeFeed PROVE IInv'
  <2>1. \A n \in Nodes : Higher(credRev[n], rev) \in Revs
    BY <1>0 DEF TypeOK, Higher
  <2>2. TypeOK'
    BY <1>0, <1>12, <2>1 DEF ServeFeed, TypeOK
  <2> QED
    BY <1>12, <2>2, SameRows DEF ServeFeed
<1>13. ASSUME UNCHANGED vars PROVE IInv'
  <2>1. TypeOK'
    BY <1>0, <1>13 DEF vars, TypeOK
  <2> QED
    BY <2>1, <1>13, SameRows DEF vars
<1> QED
  BY <1>1, <1>2, <1>3, <1>4, <1>5, <1>6, <1>7, <1>8, <1>9, <1>10, <1>11, <1>12, <1>13 DEF Next

\* IInv is an inductive invariant of the specification.
LEMMA Invariance == Spec => []IInv
  BY InitIInv, NextIInv, PTL DEF Spec

\* The variables keep their types, for any nodes, limit and bounds.
THEOREM QuotaTypeCorrect == Spec => []TypeOK
<1>1. IInv => TypeOK
  BY DEF IInv
<1> QED
  BY <1>1, Invariance, PTL

\* An active row has quota left, for any limit and however counters jump: exhaustion
\* is noticed by the report that reaches the limit (ApplyObservationTx).
THEOREM QuotaLeft == Spec => []ActiveHasQuotaLeft
<1>1. IInv => ActiveHasQuotaLeft
  BY DEF IInv, RowOK, ActiveHasQuotaLeft
<1> QED
  BY <1>1, Invariance, PTL

\* The baseline never exceeds the observed total, so that the differences computed by
\* the statements are what GREATEST(..., 0) makes of them (ApplyObservationTx).
THEOREM BaselineWithin == Spec => []BaselineWithinTotal
<1>1. IInv => BaselineWithinTotal
  BY DEF IInv, RowOK, BaselineWithinTotal
<1> QED
  BY <1>1, Invariance, PTL

\* No report reopens an exhausted quota: only a new period does (ApplyObservationTx,
\* ResetQuotaTx, ResetQuotaForUserTx).
THEOREM ReopenedByPeriod == Spec => OnlyPeriodReopens
<1> DEFINE Reopens(n) == quota[n].state = "exhausted" /\ quota'[n].state = "active"
<1>1. ASSUME IInv, [Next]_vars, NEW n \in Nodes, Reopens(n)
      PROVE  quota'[n].key # quota[n].key
  <2>1. ASSUME UNCHANGED quota PROVE FALSE
    BY <2>1, <1>1
  <2>2. ASSUME NEW k \in Nodes, NEW i \in 1 .. MaxInFlight, ApplyNodeTraffic(k, i) PROVE FALSE
    <3>1. quota'[n].state = "exhausted"
      BY <1>1, <2>2, TrafficOK, CdnQuotaAssumption
    <3> QED
      BY <3>1, <1>1
  <2>3. quota'[n] # quota[n]
    BY <1>1
  <2>4. ASSUME NEW k \in Nodes, CalendarReset(k) PROVE quota'[n].key # quota[n].key
    <3>1. CalendarKey(pass) \in Keys
      BY <1>1, <2>4, KeyTypes DEF CalendarReset, IInv, TypeOK
    <3> QED
      BY <3>1, <1>1, <2>3, <2>4, ResetOK DEF CalendarReset
  <2>5. ASSUME NEW p \in Payments, NEW r \in Revs, ApplyActivated(p, r)
        PROVE  quota'[n].key # quota[n].key
    BY <1>1, <2>3, <2>5, KeyTypes, ResetOK DEF ApplyActivated
  <2> QED
    BY <1>1, <2>1, <2>2, <2>4, <2>5
       DEF Next, Use, Reinstall, Report, Pay, Revise, BeginPass, PassBy, EndPass, NextMonth,
           ReadExhausted, PublishSync, ServeFeed, vars, rowVars
<1>2. IInv /\ [Next]_vars
        => [\A n \in Nodes : Reopens(n) => quota'[n].key # quota[n].key]_vars
  BY <1>1
<1> QED
  BY <1>2, Invariance, PTL DEF Spec, OnlyPeriodReopens

------------------------------------------------------------------------------
(* No byte is charged twice, while the reports of a node keep their order.    *)
(*                                                                            *)
(* marks[i] is what had passed through the node when its i-th report still on  *)
(* the way was written.  The bytes charged, and those the report would add,    *)
(* stay within its mark; from one report to the next, and to the node's own    *)
(* counter, the total grows at most as the marks do, counters lost or not.     *)

Charged(n) == settled[n] + Used(quota[n])

\* The total t of a node after its reports rs, p bytes having passed.
Marked(rs, t, p, marks) ==
  /\ marks \in Seq(Nat) /\ Len(marks) = Len(rs)
  /\ \A i \in 1 .. Len(rs) : marks[i] <= p /\ t + marks[i] <= rs[i].total + p
  /\ \A i, j \in 1 .. Len(rs) :
       i < j => marks[i] <= marks[j] /\ rs[j].total + marks[i] <= rs[i].total + marks[j]

\* The charge c of a row whose highest total is high has room for what is reported.
Covers(c, high, rs, t, p, marks) ==
  /\ c + Less(t, high) <= p
  /\ \A i \in 1 .. Len(rs) : c + Less(rs[i].total, high) <= marks[i]

NodeOK(n) ==
  \E marks \in Seq(Nat) :
    /\ Marked(reports[n], counter[n].total, passed[n], marks)
    /\ Covers(Charged(n), quota[n].observed, reports[n], counter[n].total, passed[n], marks)

ChargeInv == IInv /\ \A n \in Nodes : NodeOK(n)

LEMMA ChargeTypes ==
  ASSUME IInv, NEW n \in Nodes
  PROVE  /\ Charged(n) \in Nat /\ settled[n] \in Nat /\ Used(quota[n]) \in Nat
         /\ Used(quota[n]) = quota[n].observed - quota[n].base
         /\ quota[n].observed \in Nat /\ quota[n].base \in Nat
         /\ quota[n].base <= quota[n].observed
         /\ counter[n].total \in Nat /\ passed[n] \in Nat
         /\ reports[n] \in Seq(Reports)
<1>1. /\ settled[n] \in Nat /\ counter[n] \in Totals /\ passed[n] \in Nat
      /\ reports[n] \in Seq(Reports) /\ RowOK(quota[n])
  BY DEF IInv, TypeOK
<1>2. /\ quota[n].observed \in Nat /\ quota[n].base \in Nat
      /\ quota[n].base <= quota[n].observed
  BY <1>1 DEF RowOK, Rows
<1>3. Used(quota[n]) \in Nat /\ Used(quota[n]) = quota[n].observed - quota[n].base
  BY <1>2 DEF Used, Less
<1>4. counter[n].total \in Nat
  BY <1>1 DEF Totals
<1> QED
  BY <1>1, <1>2, <1>3, <1>4 DEF Charged

\* Reports and marks hold numbers.
LEMMA MarksAreNumbers ==
  ASSUME NEW rs \in Seq(Reports), NEW marks \in Seq(Nat), Len(marks) = Len(rs)
  PROVE  \A i \in 1 .. Len(rs) : rs[i].total \in Nat /\ marks[i] \in Nat
<1> SUFFICES ASSUME NEW i \in 1 .. Len(rs)
             PROVE  rs[i].total \in Nat /\ marks[i] \in Nat
  OBVIOUS
<1>1. rs[i] \in Reports
  OBVIOUS
<1>2. rs[i].total \in Nat
  BY <1>1 DEF Reports
<1>3. marks[i] \in Nat
  OBVIOUS
<1> QED
  BY <1>2, <1>3

\* Traffic adds one byte to the total and to what has passed.
LEMMA UseRoom ==
  ASSUME NEW rs \in Seq(Reports), NEW t \in Nat, NEW p \in Nat, NEW marks \in Seq(Nat),
         NEW c \in Nat, NEW high \in Nat,
         Marked(rs, t, p, marks), Covers(c, high, rs, t, p, marks)
  PROVE  Marked(rs, t + 1, p + 1, marks) /\ Covers(c, high, rs, t + 1, p + 1, marks)
<1>1. \A i \in 1 .. Len(rs) : rs[i].total \in Nat /\ marks[i] \in Nat
  BY MarksAreNumbers DEF Marked
<1>2. c + Less(t + 1, high) <= p + 1
  BY DEF Covers, Less
<1>3. ASSUME NEW i \in 1 .. Len(rs)
      PROVE  marks[i] <= p + 1 /\ (t + 1) + marks[i] <= rs[i].total + (p + 1)
  <2> DEFINE x == rs[i].total
             m == marks[i]
  <2>1. x \in Nat /\ m \in Nat
    BY <1>1
  <2>2. m <= p /\ t + m <= x + p
    BY DEF Marked
  <2> HIDE DEF x, m
  <2>3. m <= p + 1 /\ (t + 1) + m <= x + (p + 1)
    BY <2>1, <2>2
  <2> QED
    BY <2>3 DEF x, m
<1> QED
  BY <1>2, <1>3 DEF Marked, Covers

\* A lost counter starts again from 0; nothing more has passed.
LEMMA ReinstallRoom ==
  ASSUME NEW rs \in Seq(Reports), NEW t \in Nat, NEW p \in Nat, NEW marks \in Seq(Nat),
         NEW c \in Nat, NEW high \in Nat,
         Marked(rs, t, p, marks), Covers(c, high, rs, t, p, marks)
  PROVE  Marked(rs, 0, p, marks) /\ Covers(c, high, rs, 0, p, marks)
<1>1. \A i \in 1 .. Len(rs) : rs[i].total \in Nat /\ marks[i] \in Nat
  BY MarksAreNumbers DEF Marked
<1>2. c + Less(0, high) <= p
  BY DEF Covers, Less
<1>3. ASSUME NEW i \in 1 .. Len(rs)
      PROVE  marks[i] <= p /\ 0 + marks[i] <= rs[i].total + p
  <2> DEFINE x == rs[i].total
             m == marks[i]
  <2>1. x \in Nat /\ m \in Nat
    BY <1>1
  <2>2. m <= p
    BY DEF Marked
  <2> HIDE DEF x, m
  <2>3. m <= p /\ 0 + m <= x + p
    BY <2>1, <2>2
  <2> QED
    BY <2>3 DEF x, m
<1> QED
  BY <1>2, <1>3 DEF Marked, Covers

\* A report of the node's total is marked with what has passed.
LEMMA ReportRoom ==
  ASSUME NEW rs \in Seq(Reports), NEW r \in Reports, NEW p \in Nat, NEW marks \in Seq(Nat),
         NEW c \in Nat, NEW high \in Nat,
         Marked(rs, r.total, p, marks), Covers(c, high, rs, r.total, p, marks)
  PROVE  /\ Marked(Append(rs, r), r.total, p, Append(marks, p))
         /\ Covers(c, high, Append(rs, r), r.total, p, Append(marks, p))
<1> DEFINE qs == Append(rs, r)
           ms == Append(marks, p)
<1>1. /\ Len(rs) \in Nat /\ Len(marks) = Len(rs)
      /\ Len(qs) = Len(rs) + 1 /\ qs[Len(rs) + 1] = r
      /\ \A i \in 1 .. Len(rs) : qs[i] = rs[i]
  BY DEF Marked
<1>2. /\ ms \in Seq(Nat) /\ Len(ms) = Len(rs) + 1 /\ ms[Len(rs) + 1] = p
      /\ \A i \in 1 .. Len(rs) : ms[i] = marks[i]
  BY <1>1
<1>3. /\ \A i \in 1 .. Len(rs) : rs[i].total \in Nat /\ marks[i] \in Nat
      /\ r.total \in Nat
  BY <1>1, MarksAreNumbers DEF Reports
<1> HIDE DEF qs, ms
<1>4. \A i \in 1 .. Len(qs) : i \in 1 .. Len(rs) \/ i = Len(rs) + 1
  BY <1>1
<1>5. ASSUME NEW i \in 1 .. Len(qs)
      PROVE  ms[i] <= p /\ r.total + ms[i] <= qs[i].total + p
  <2>1. CASE i \in 1 .. Len(rs)
    BY <1>1, <1>2, <2>1 DEF Marked
  <2>2. CASE i = Len(rs) + 1
    BY <1>1, <1>2, <1>3, <2>2
  <2> QED
    BY <1>4, <2>1, <2>2
<1>6. ASSUME NEW i \in 1 .. Len(qs), NEW j \in 1 .. Len(qs), i < j
      PROVE  ms[i] <= ms[j] /\ qs[j].total + ms[i] <= qs[i].total + ms[j]
  <2>1. i \in 1 .. Len(rs)
    BY <1>1, <1>4, <1>6
  <2>2. CASE j \in 1 .. Len(rs)
    BY <1>1, <1>2, <1>6, <2>1, <2>2 DEF Marked
  <2>3. CASE j = Len(rs) + 1
    BY <1>1, <1>2, <1>5, <2>3
  <2> QED
    BY <1>4, <2>2, <2>3
<1>7. Marked(qs, r.total, p, ms)
  BY <1>1, <1>2, <1>5, <1>6 DEF Marked
<1>8. Covers(c, high, qs, r.total, p, ms)
  BY <1>1, <1>2, <1>4 DEF Covers
<1> QED
  BY <1>7, <1>8 DEF qs, ms

\* The oldest report is applied: either the charge does not grow and the report's total
\* is the new highest one (a first row, a lost counter), or the charge grows by what the
\* total is above the highest one so far.
LEMMA ApplyRoom ==
  ASSUME NEW rs \in Seq(Reports), rs # <<>>, NEW t \in Nat, NEW p \in Nat,
         NEW marks \in Seq(Nat), NEW c \in Nat, NEW high \in Nat,
         Marked(rs, t, p, marks), Covers(c, high, rs, t, p, marks),
         NEW d \in Nat, NEW top \in Nat,
         \/ d <= c /\ top = rs[1].total
         \/ d = c + Less(rs[1].total, high) /\ top = Higher(high, rs[1].total)
  PROVE  /\ Marked(Tail(rs), t, p, Tail(marks))
         /\ Covers(d, top, Tail(rs), t, p, Tail(marks))
<1> DEFINE qs == Tail(rs)
           ms == Tail(marks)
<1>1. /\ Len(rs) \in Nat /\ Len(rs) >= 1 /\ Len(marks) = Len(rs)
      /\ Len(qs) = Len(rs) - 1
      /\ \A i \in 1 .. Len(qs) : qs[i] = rs[i + 1]
  BY DEF Marked
<1>2. marks # <<>>
  BY <1>1
<1>3. /\ ms \in Seq(Nat) /\ Len(ms) = Len(marks) - 1
      /\ \A i \in 1 .. Len(ms) : ms[i] = marks[i + 1]
  BY <1>2
<1>4. \A i \in 1 .. Len(rs) : rs[i].total \in Nat /\ marks[i] \in Nat
  BY <1>1, MarksAreNumbers
<1> HIDE DEF qs, ms
<1>5. \A i \in 1 .. Len(qs) : /\ i + 1 \in 1 .. Len(rs) /\ 1 < i + 1
                              /\ qs[i] = rs[i + 1] /\ ms[i] = marks[i + 1]
  BY <1>1, <1>3
<1>6. Marked(qs, t, p, ms)
  <2>1. \A i \in 1 .. Len(qs) : ms[i] <= p /\ t + ms[i] <= qs[i].total + p
    BY <1>5 DEF Marked
  <2>2. ASSUME NEW i \in 1 .. Len(qs), NEW j \in 1 .. Len(qs), i < j
        PROVE  ms[i] <= ms[j] /\ qs[j].total + ms[i] <= qs[i].total + ms[j]
    <3>1. i + 1 < j + 1
      BY <2>2
    <3> QED
      BY <1>5, <3>1 DEF Marked
  <2> QED
    BY <1>1, <1>3, <2>1, <2>2 DEF Marked
<1>7. 1 \in 1 .. Len(rs) /\ rs[1].total \in Nat /\ marks[1] \in Nat
  BY <1>1, <1>4
<1>8. /\ c + Less(rs[1].total, high) <= marks[1] /\ c + Less(t, high) <= p
      /\ marks[1] <= p /\ t + marks[1] <= rs[1].total + p
  BY <1>7 DEF Covers, Marked
<1> DEFINE r == rs[1].total
           m == marks[1]
<1>9. /\ r \in Nat /\ m \in Nat /\ c + Less(r, high) <= m
      /\ \/ d <= c /\ top = r
         \/ d = c + Less(r, high) /\ top = Higher(high, r)
  BY <1>7, <1>8
<1>10. m <= p /\ t + m <= r + p /\ c + Less(t, high) <= p
  BY <1>8
<1> HIDE DEF r, m
<1>11. ASSUME NEW x \in Nat, NEW l \in Nat, m <= l, x + m <= r + l, c + Less(x, high) <= l
      PROVE  d + Less(x, top) <= l
  <2>1. CASE d <= c /\ top = r
    BY <1>9, <1>11, <2>1 DEF Less
  <2>2. CASE d = c + Less(r, high) /\ top = Higher(high, r)
    <3>1. CASE r > high
      BY <1>9, <1>11, <2>2, <3>1 DEF Less, Higher
    <3>2. CASE ~(r > high)
      BY <1>9, <1>11, <2>2, <3>2 DEF Less, Higher
    <3> QED
      BY <3>1, <3>2
  <2> QED
    BY <1>9, <2>1, <2>2
<1>12. d + Less(t, top) <= p
  BY <1>10, <1>11
<1>13. ASSUME NEW i \in 1 .. Len(qs)
       PROVE  d + Less(qs[i].total, top) <= ms[i]
  <2> DEFINE x == rs[i + 1].total
             l == marks[i + 1]
  <2>1. /\ x \in Nat /\ l \in Nat /\ qs[i].total = x /\ ms[i] = l
    BY <1>4, <1>5
  <2>2. m <= l /\ x + m <= r + l
    BY <1>5, <1>7 DEF Marked, r, m
  <2>3. c + Less(x, high) <= l
    BY <1>5 DEF Covers
  <2> HIDE DEF x, l
  <2>4. d + Less(x, top) <= l
    BY <1>11, <2>1, <2>2, <2>3
  <2> QED
    BY <2>1, <2>4
<1> QED
  BY <1>6, <1>12, <1>13 DEF Covers, qs, ms

\* A row that no step of another node touches keeps its room.
LEMMA SameNode ==
  ASSUME NEW n \in Nodes, NodeOK(n), reports'[n] = reports[n], counter'[n] = counter[n],
         passed'[n] = passed[n], quota'[n] = quota[n], settled'[n] = settled[n]
  PROVE  NodeOK(n)'
  BY DEF NodeOK, Charged, Used

\* A reset moves what was used to the closed periods and keeps the highest total, so that
\* the charge stays what it was (ResetQuotaTx, ResetQuotaForUserTx).
LEMMA ResetRoom ==
  ASSUME ChargeInv, NEW nodes, NEW key, Reset(nodes, key), UNCHANGED nodeVars
  PROVE  \A n \in Nodes : NodeOK(n)'
<1> SUFFICES ASSUME NEW n \in Nodes PROVE NodeOK(n)'
  OBVIOUS
<1>0. /\ IInv /\ NodeOK(n)
      /\ reports'[n] = reports[n] /\ counter'[n] = counter[n] /\ passed'[n] = passed[n]
  BY DEF ChargeInv, nodeVars
<1> DEFINE stale == {k \in nodes \cap counted : quota[k].key # key}
<1>1. /\ n \in stale => /\ quota'[n] = NewPeriod(quota[n], key)
                        /\ settled'[n] = settled[n] + Used(quota[n])
      /\ n \notin stale => quota'[n] = quota[n] /\ settled'[n] = settled[n] + 0
  BY DEF Reset
<1>2. settled[n] \in Nat /\ RowOK(quota[n])
  BY <1>0 DEF IInv, TypeOK
<1> HIDE DEF stale
<1>3. CASE n \notin stale
  BY <1>0, <1>1, <1>2, <1>3, SameNode
<1>4. CASE n \in stale
  <2>1. /\ quota'[n].observed = quota[n].observed
        /\ quota'[n].base = quota[n].observed
    BY <1>1, <1>2, <1>4 DEF NewPeriod, RowOK, Rows
  <2>2. Used(quota'[n]) = 0 /\ Used(quota[n]) \in Nat
    BY <1>0, <2>1, ChargeTypes DEF Used, Less
  <2>3. Charged(n)' = Charged(n)
    BY <1>1, <1>2, <1>4, <2>2 DEF Charged, Used
  <2> QED
    BY <1>0, <2>1, <2>3 DEF NodeOK
<1> QED
  BY <1>3, <1>4

\* What a report does to the charge of a row (ApplyObservationTx).
LEMMA ObservedCharge ==
  ASSUME IInv, NEW n \in Nodes, NEW r \in Reports, NEW q,
         q = Settle(IF n \in counted THEN Observed(quota[n], r) ELSE FirstRow(r))
  PROVE  /\ settled[n] + Used(q) \in Nat /\ q.observed \in Nat
         /\ \/ settled[n] + Used(q) <= Charged(n) /\ q.observed = r.total
            \/ /\ settled[n] + Used(q) = Charged(n) + Less(r.total, quota[n].observed)
               /\ q.observed = Higher(quota[n].observed, r.total)
<1> DEFINE o == IF n \in counted THEN Observed(quota[n], r) ELSE FirstRow(r)
           high == quota[n].observed
           base == quota[n].base
<1>1. /\ settled[n] \in Nat /\ high \in Nat /\ base \in Nat /\ base <= high
      /\ Charged(n) = settled[n] + (high - base)
  BY ChargeTypes DEF Charged
<1>2. r.total \in Nat /\ r.up \in Nat /\ quota[n] \in Rows
  BY DEF Reports, IInv, TypeOK
<1>3. q.observed = o.observed /\ q.base = o.base
  <2>1. o \in Rows
    BY FirstRowOK, ObservedOK DEF IInv, RowOK
  <2>2. q = Settle(o)
    OBVIOUS
  <2> HIDE DEF o
  <2> QED
    BY <2>1, <2>2 DEF Settle, Rows
<1>4. CASE n \notin counted
  BY <1>1, <1>2, <1>3, <1>4 DEF FirstRow, Used, Less
<1>5. CASE n \in counted /\ r.total < base
  <2>1. o.observed = r.total /\ o.base = Less(r.total, high - base)
    BY <1>2, <1>5 DEF Observed, Rebased, Rows
  <2> HIDE DEF o, high, base
  <2> QED
    BY <1>1, <1>2, <1>3, <2>1 DEF Used, Less, high
<1>6. CASE n \in counted /\ ~(r.total < base)
  <2>1. o.observed = Higher(high, r.total) /\ o.base = base
    BY <1>2, <1>6 DEF Observed, Advanced, Rows
  <2> HIDE DEF o, base
  <2> QED
    BY <1>1, <1>2, <1>3, <1>6, <2>1 DEF Used, Less, Higher
<1> QED
  BY <1>4, <1>5, <1>6

\* A report applied in its turn, with the row it settles (ApplyNodeTraffic).
LEMMA TrafficRoom ==
  ASSUME Reordering = FALSE, ChargeInv, NEW n \in Nodes, NEW i \in Nat, ApplyNodeTraffic(n, i)
  PROVE  \A k \in Nodes : NodeOK(k)'
<1> DEFINE rs == reports[n]
           q == Settle(IF n \in counted THEN Observed(quota[n], rs[1]) ELSE FirstRow(rs[1]))
<1>0. IInv /\ \A k \in Nodes : NodeOK(k)
  BY DEF ChargeInv
<1>1. i = 1 /\ 1 \in 1 .. Len(rs) /\ rs \in Seq(Reports) /\ rs # <<>> /\ rs[1] \in Reports
  BY <1>0 DEF ApplyNodeTraffic, IInv, TypeOK
<1>2. quota' = [quota EXCEPT ![n] = q]
  BY <1>1 DEF ApplyNodeTraffic
<1>3. reports' = [reports EXCEPT ![n] = SubSeq(rs, 1, 0) \o SubSeq(rs, 2, Len(rs))]
  BY <1>1 DEF ApplyNodeTraffic
<1>4. SubSeq(rs, 1, 0) \o SubSeq(rs, 2, Len(rs)) = Tail(rs)
  BY <1>1
<1>5. UNCHANGED <<counter, passed, settled>>
  BY DEF ApplyNodeTraffic
<1>6. /\ quota'[n] = q /\ reports'[n] = Tail(rs)
      /\ \A k \in Nodes \ {n} : quota'[k] = quota[k] /\ reports'[k] = reports[k]
  BY <1>0, <1>2, <1>3, <1>4 DEF IInv, TypeOK
<1> DEFINE t == counter[n].total
           p == passed[n]
           c == Charged(n)
           d == settled[n] + Used(q)
           high == quota[n].observed
<1>7. t \in Nat /\ p \in Nat /\ c \in Nat /\ high \in Nat
  BY <1>0, ChargeTypes
<1>8. /\ d \in Nat /\ q.observed \in Nat
      /\ \/ d <= c /\ q.observed = rs[1].total
         \/ d = c + Less(rs[1].total, high) /\ q.observed = Higher(high, rs[1].total)
  BY <1>0, <1>1, ObservedCharge
<1>9. PICK marks \in Seq(Nat) : Marked(rs, t, p, marks) /\ Covers(c, high, rs, t, p, marks)
  BY <1>0 DEF NodeOK
<1>10. Charged(n)' = d /\ counter'[n].total = t /\ passed'[n] = p
  BY <1>5, <1>6 DEF Charged, Used
<1>11. NodeOK(n)'
  <2> HIDE DEF rs, q, t, p, c, d, high
  <2>1. /\ Marked(Tail(rs), t, p, Tail(marks))
        /\ Covers(d, q.observed, Tail(rs), t, p, Tail(marks))
    BY <1>1, <1>7, <1>8, <1>9, ApplyRoom
  <2>2. Tail(marks) \in Seq(Nat)
    BY <2>1 DEF Marked
  <2> QED
    BY <1>6, <1>10, <2>1, <2>2 DEF NodeOK
<1>12. ASSUME NEW k \in Nodes \ {n} PROVE NodeOK(k)'
  BY <1>0, <1>5, <1>6, SameNode
<1> QED
  BY <1>11, <1>12

\* The traffic of a node, its losses and its reports.
LEMMA NodeRoom ==
  ASSUME ChargeInv, NEW n \in Nodes, Use(n) \/ Reinstall(n) \/ Report(n)
  PROVE  \A k \in Nodes : NodeOK(k)'
<1> DEFINE rs == reports[n]
           t == counter[n].total
           p == passed[n]
           c == Charged(n)
           high == quota[n].observed
<1>0. IInv /\ \A k \in Nodes : NodeOK(k)
  BY DEF ChargeInv
<1>1. /\ t \in Nat /\ p \in Nat /\ c \in Nat /\ high \in Nat /\ rs \in Seq(Reports)
      /\ counter \in [Nodes -> Totals] /\ passed \in [Nodes -> Nat]
      /\ reports \in [Nodes -> Seq(Reports)] /\ month \in 1 .. MaxMonth
  BY <1>0, ChargeTypes DEF IInv, TypeOK
<1>2. UNCHANGED <<quota, settled>> /\ Charged(n)' = c /\ quota'[n].observed = high
  BY DEF Use, Reinstall, Report, rowVars, Charged, Used
<1>3. PICK marks \in Seq(Nat) : Marked(rs, t, p, marks) /\ Covers(c, high, rs, t, p, marks)
  BY <1>0 DEF NodeOK
<1>4. ASSUME NEW k \in Nodes \ {n} PROVE NodeOK(k)'
  <2>1. reports'[k] = reports[k] /\ counter'[k] = counter[k] /\ passed'[k] = passed[k]
    BY <1>1 DEF Use, Reinstall, Report
  <2> QED
    BY <1>0, <1>2, <2>1, SameNode
<1>5. CASE Use(n)
  <2>1. counter'[n].total = t + 1 /\ passed'[n] = p + 1 /\ reports'[n] = rs
    BY <1>1, <1>5 DEF Use
  <2> HIDE DEF rs, t, p, c, high
  <2>2. Marked(rs, t + 1, p + 1, marks) /\ Covers(c, high, rs, t + 1, p + 1, marks)
    BY <1>1, <1>3, UseRoom
  <2>3. NodeOK(n)'
    BY <1>2, <2>1, <2>2 DEF NodeOK
  <2> QED
    BY <1>4, <2>3
<1>6. CASE Reinstall(n)
  <2>1. counter'[n].total = 0 /\ passed'[n] = p /\ reports'[n] = rs
    BY <1>1, <1>6 DEF Reinstall
  <2> HIDE DEF rs, t, p, c, high
  <2>2. Marked(rs, 0, p, marks) /\ Covers(c, high, rs, 0, p, marks)
    BY <1>1, <1>3, ReinstallRoom
  <2>3. NodeOK(n)'
    BY <1>2, <2>1, <2>2 DEF NodeOK
  <2> QED
    BY <1>4, <2>3
<1>7. CASE Report(n)
  <2> DEFINE r == [total |-> t, up |-> counter[n].up, month |-> month]
  <2>1. r \in Reports /\ r.total = t
    BY <1>1 DEF Reports, Totals
  <2>2. counter'[n].total = t /\ passed'[n] = p /\ reports'[n] = Append(rs, r)
    BY <1>1, <1>7 DEF Report
  <2> HIDE DEF rs, t, p, c, high, r
  <2>3. /\ Marked(Append(rs, r), t, p, Append(marks, p))
        /\ Covers(c, high, Append(rs, r), t, p, Append(marks, p))
    BY <1>1, <1>3, <2>1, ReportRoom
  <2>4. Append(marks, p) \in Seq(Nat)
    BY <1>1
  <2>5. NodeOK(n)'
    BY <1>2, <2>2, <2>3, <2>4 DEF NodeOK
  <2> QED
    BY <1>4, <2>5
<1> QED
  BY <1>5, <1>6, <1>7

LEMMA InitRoom == Init => ChargeInv
<1> SUFFICES ASSUME Init PROVE ChargeInv
  OBVIOUS
<1>1. IInv
  BY InitIInv
<1>2. ASSUME NEW n \in Nodes PROVE NodeOK(n)
  <2>1. /\ counter[n].total = 0 /\ passed[n] = 0 /\ reports[n] = <<>> /\ settled[n] = 0
        /\ quota[n].observed = 0 /\ quota[n].base = 0
    BY <1>2 DEF Init, FirstRow
  <2>2. Charged(n) = 0
    BY <2>1 DEF Charged, Used, Less
  <2>3. Marked(<<>>, 0, 0, <<>>) /\ Covers(0, 0, <<>>, 0, 0, <<>>) /\ <<>> \in Seq(Nat)
    BY DEF Marked, Covers, Less
  <2>4. /\ Marked(reports[n], counter[n].total, passed[n], <<>>)
        /\ Covers(Charged(n), quota[n].observed, reports[n], counter[n].total, passed[n], <<>>)
    BY <2>1, <2>2, <2>3
  <2> QED
    BY <2>3, <2>4 DEF NodeOK
<1> QED
  BY <1>1, <1>2 DEF ChargeInv

LEMMA NextRoom ==
  ASSUME Reordering = FALSE, ChargeInv, [Next]_vars
  PROVE  ChargeInv'
<1>0. IInv /\ \A n \in Nodes : NodeOK(n)
  BY DEF ChargeInv
<1> SUFFICES \A n \in Nodes : NodeOK(n)'
  BY <1>0, NextIInv DEF ChargeInv
<1>1. ASSUME NEW n \in Nodes, Use(n) \/ Reinstall(n) \/ Report(n)
      PROVE  \A k \in Nodes : NodeOK(k)'
  BY <1>1, NodeRoom
<1>2. ASSUME NEW n \in Nodes, CalendarReset(n) PROVE \A k \in Nodes : NodeOK(k)'
  <2>1. Reset({n}, CalendarKey(pass)) /\ UNCHANGED nodeVars
    BY <1>2 DEF CalendarReset
  <2> QED
    BY <2>1, ResetRoom
<1>3. ASSUME NEW n \in Nodes, NEW i \in 1 .. MaxInFlight, ApplyNodeTraffic(n, i)
      PROVE  \A k \in Nodes : NodeOK(k)'
  <2>1. i \in Nat
    BY <1>3, CdnQuotaAssumption
  <2> QED
    BY <1>3, <2>1, TrafficRoom
<1>4. ASSUME NEW p \in Payments, NEW r \in Revs, ApplyActivated(p, r)
      PROVE  \A k \in Nodes : NodeOK(k)'
  <2>1. Reset(Nodes, PaymentKey(p)) /\ UNCHANGED nodeVars
    BY <1>4 DEF ApplyActivated
  <2> QED
    BY <2>1, ResetRoom
<1>5. CASE \/ \E p \in Payments : Pay(p)
           \/ \E n \in Nodes : PassBy(n)
           \/ BeginPass \/ EndPass \/ ReadExhausted \/ PublishSync \/ ServeFeed \/ NextMonth
           \/ Revise \/ UNCHANGED vars
  <2>1. UNCHANGED <<reports, counter, passed, quota, settled>>
    BY <1>5 DEF Pay, PassBy, BeginPass, EndPass, ReadExhausted, PublishSync, ServeFeed,
                NextMonth, Revise, vars, nodeVars, rowVars
  <2> QED
    BY <1>0, <2>1, SameNode
<1> QED
  BY <1>1, <1>2, <1>3, <1>4, <1>5 DEF Next

\* While the reports of a node are applied in their order, no byte is charged twice: over
\* all periods the user is charged at most what went through the node, for any number of
\* bytes, lost counters, reports on the way, payments and months (ApplyObservationTx).
THEOREM BytesChargedOnce ==
  ASSUME Reordering = FALSE
  PROVE  Spec => []NoByteChargedTwice
<1>1. ChargeInv /\ [Next]_vars => ChargeInv'
  BY NextRoom
<1>2. ChargeInv => NoByteChargedTwice
  <2> SUFFICES ASSUME ChargeInv, NEW n \in Nodes
               PROVE  settled[n] + Used(quota[n]) <= passed[n]
    BY DEF NoByteChargedTwice
  <2>1. Charged(n) + Less(counter[n].total, quota[n].observed) <= passed[n]
    BY DEF ChargeInv, NodeOK, Covers
  <2>2. /\ Charged(n) \in Nat /\ passed[n] \in Nat
        /\ counter[n].total \in Nat /\ quota[n].observed \in Nat
    BY ChargeTypes DEF ChargeInv
  <2>3. Charged(n) <= passed[n]
    BY <2>1, <2>2 DEF Less
  <2> QED
    BY <2>3 DEF Charged
<1> QED
  BY InitRoom, <1>1, <1>2, PTL DEF Spec

=============================================================================
