-------------------------- MODULE CryptoInvoiceProofs --------------------------
(***************************************************************************)
(* Theorems about CryptoInvoice, for any commands, assets, prices, attempts *)
(* and bounds, and handlers as slow as one likes: types, one activation per *)
(* payment, one answer per checkout.                                        *)
(*                                                                          *)
(* Every step but the stuck worker's is about one command, and the          *)
(* invariant is a predicate OrderOK of one command: a step on c has to be    *)
(* looked at for c only.                                                    *)
(***************************************************************************)
EXTENDS CryptoInvoice, TLAPS

Rows == [status : Statuses, linked : BOOLEAN]

------------------------------------------------------------------------------
(* Types.                                                                    *)

\* A notification adds one to its count.
LEMMA TellType ==
  ASSUME TypeOK, NEW c \in Commands, NEW what \in Notices, Tell(c, what)
  PROVE  /\ told' \in [Commands -> [Notices -> Nat]]
         /\ \A d \in Commands \ {c} : told'[d] = told[d]
         /\ told'[c][what] = told[c][what] + 1
         /\ \A n \in Notices \ {what} : told'[c][n] = told[c][n]
  BY DEF TypeOK, Tell

\* Committing, counting an attempt and failing keep topic, count and bound.
LEMMA CountType ==
  ASSUME TypeOK, NEW c \in Commands, CountAttempt(c) \/ Commit(c)
  PROVE  /\ topic' \in [Commands -> {"absent", "queued", "done", "dead"}]
         /\ tries' \in [Commands -> 0 .. MaxAttempts - 1]
<1>1. /\ topic \in [Commands -> {"absent", "queued", "done", "dead"}]
      /\ tries \in [Commands -> 0 .. MaxAttempts - 1]
      /\ 0 \in 0 .. MaxAttempts - 1
  BY CryptoAssumption DEF TypeOK
<1>2. CASE Commit(c)
  BY <1>1, <1>2 DEF Commit
<1>3. CASE CountAttempt(c) /\ tries[c] + 1 >= MaxAttempts
  BY <1>1, <1>3 DEF CountAttempt
<1>4. CASE CountAttempt(c) /\ ~(tries[c] + 1 >= MaxAttempts)
  <2>1. tries[c] + 1 \in 0 .. MaxAttempts - 1
    BY <1>1, <1>4, CryptoAssumption
  <2> QED
    BY <1>1, <1>4, <2>1 DEF CountAttempt
<1> QED
  BY <1>2, <1>3, <1>4

LEMMA FaultType ==
  ASSUME TypeOK, Fault
  PROVE  faults' \in 0 .. MaxFaults
  BY CryptoAssumption DEF Fault, TypeOK

LEMMA CommitOrCrashType ==
  ASSUME TypeOK, NEW c \in Commands, CommitOrCrash(c)
  PROVE  /\ topic' \in [Commands -> {"absent", "queued", "done", "dead"}]
         /\ tries' \in [Commands -> 0 .. MaxAttempts - 1]
         /\ faults' \in 0 .. MaxFaults
<1>1. CASE Commit(c) /\ UNCHANGED faults
  BY <1>1, CountType DEF TypeOK
<1>2. CASE Fault /\ UNCHANGED <<topic, tries>>
  BY <1>2, FaultType DEF TypeOK
<1> QED
  BY <1>1, <1>2 DEF CommitOrCrash

\* A new body of CryptoBot is one more letter.
LEMMA WriteType ==
  ASSUME TypeOK, NEW c \in Commands, NEW pays \in BOOLEAN, Write(c, pays)
  PROVE  /\ letters' \in [Commands -> SUBSET Letters]
         /\ bodies' \in [Commands -> 0 .. MaxBodies]
         /\ \A d \in Commands \ {c} : letters'[d] = letters[d]
         /\ \A l \in letters'[c] : l \in letters[c] \/ l.pays = pays
<1>1. /\ letters \in [Commands -> SUBSET Letters] /\ bodies \in [Commands -> 0 .. MaxBodies]
      /\ letters[c] \subseteq Letters
  BY DEF TypeOK
<1>2. bodies[c] + 1 \in Bodies /\ bodies[c] + 1 \in 0 .. MaxBodies
  BY <1>1, CryptoAssumption DEF Write, Bodies
<1> DEFINE l == [body |-> bodies[c] + 1, pays |-> pays, stale |-> FALSE]
<1>3. l \in Letters
  BY <1>2 DEF Letters
<1>4. letters' = [letters EXCEPT ![c] = @ \cup {l}]
  BY DEF Write
<1>5. l.pays = pays
  OBVIOUS
<1>6. bodies' \in [Commands -> 0 .. MaxBodies]
  BY <1>1, <1>2 DEF Write
<1> HIDE DEF l
<1>7. letters'[c] = letters[c] \cup {l}
  BY <1>1, <1>4
<1>8. letters' \in [Commands -> SUBSET Letters]
  BY <1>1, <1>3, <1>4
<1> QED
  BY <1>1, <1>4, <1>5, <1>6, <1>7, <1>8

\* What a webhook's answer leaves of the letters.
LEMMA AnswerType ==
  ASSUME TypeOK, NEW c \in Commands, NEW l, Answer(c, l)
  PROVE  /\ letters' \in [Commands -> SUBSET Letters]
         /\ faults' \in 0 .. MaxFaults
         /\ \A d \in Commands : letters'[d] \subseteq letters[d]
<1>1. letters \in [Commands -> SUBSET Letters] /\ faults \in 0 .. MaxFaults
  BY DEF TypeOK
<1>2. CASE letters' = [letters EXCEPT ![c] = @ \ {l}] /\ UNCHANGED faults
  BY <1>1, <1>2
<1>3. CASE Fault /\ UNCHANGED letters
  BY <1>1, <1>3, FaultType
<1> QED
  BY <1>2, <1>3 DEF Answer

\* A row whose status is written (InsertInvoiceTx, MarkInvoice...Tx).
LEMMA RowType ==
  ASSUME TypeOK, NEW c \in Commands, NEW s \in Statuses
  PROVE  /\ [row EXCEPT ![c].status = s] \in [Commands -> Rows]
         /\ [row EXCEPT ![c] = [status |-> s, linked |-> TRUE]] \in [Commands -> Rows]
         /\ [row EXCEPT ![c].status = s][c].status = s
         /\ [row EXCEPT ![c].status = s][c].linked = row[c].linked
         /\ \A d \in Commands \ {c} : [row EXCEPT ![c].status = s][d] = row[d]
<1>1. row \in [Commands -> Rows] /\ row[c] \in Rows
  BY DEF TypeOK, Rows
<1>2. [row[c] EXCEPT !.status = s] \in Rows /\ [status |-> s, linked |-> TRUE] \in Rows
  BY <1>1 DEF Rows
<1>3. /\ [row[c] EXCEPT !.status = s].status = s
      /\ [row[c] EXCEPT !.status = s].linked = row[c].linked
  BY <1>1 DEF Rows
<1>4. [row EXCEPT ![c].status = s] = [row EXCEPT ![c] = [row[c] EXCEPT !.status = s]]
  OBVIOUS
<1> QED
  BY <1>1, <1>2, <1>3, <1>4

LEMMA InitType == Init => TypeOK
<1> SUFFICES ASSUME Init PROVE TypeOK
  OBVIOUS
<1>1. row \in [Commands -> Rows]
  BY DEF Init, Rows, Statuses
<1>2. rates \in [known : SUBSET Assets, fresh : BOOLEAN]
  BY DEF Init
<1>3. told \in [Commands -> [Notices -> Nat]]
  BY DEF Init
<1>4. /\ tries \in [Commands -> 0 .. MaxAttempts - 1]
      /\ bodies \in [Commands -> 0 .. MaxBodies]
      /\ faults \in 0 .. MaxFaults
  BY CryptoAssumption DEF Init
<1> QED
  BY <1>1, <1>2, <1>3, <1>4 DEF Init, TypeOK, Rows

\* What a webhook does keeps the types (ProcessWebhook).
LEMMA WebhookType ==
  ASSUME TypeOK, NEW c \in Commands, NEW l \in letters[c], ProcessWebhook(c, l)
  PROVE  TypeOK'
<1>1. l \in Letters /\ l.body \in Bodies
  BY DEF TypeOK, Letters
<1>2. Answer(c, l)
  BY DEF ProcessWebhook, RejectStale, ErrDuplicateWebhook, SkipActivation, AcceptPayment,
         RecordWebhook
<1>3. /\ letters' \in [Commands -> SUBSET Letters]
      /\ faults' \in 0 .. MaxFaults
  BY <1>2, AnswerType
<1>4. UNCHANGED <<topic, tries, handler, rates, old, bill, bills, bodies, late>>
  BY <1>2 DEF Answer, order
<1>5. dropped' \subseteq Commands
  BY DEF ProcessWebhook, RejectStale, ErrDuplicateWebhook, SkipActivation, AcceptPayment,
         RecordWebhook, TypeOK
<1>6. seen' \in [Commands -> SUBSET Bodies]
  <2>1. seen' = seen \/ seen' = [seen EXCEPT ![c] = @ \cup {l.body}]
    BY DEF ProcessWebhook, RejectStale, ErrDuplicateWebhook, SkipActivation, AcceptPayment,
           RecordWebhook
  <2>2. seen \in [Commands -> SUBSET Bodies]
    BY DEF TypeOK
  <2>3. seen[c] \cup {l.body} \in SUBSET Bodies
    BY <1>1, <2>2
  <2> QED
    BY <2>1, <2>2, <2>3
<1>7. /\ row' \in [Commands -> Rows]
      /\ told' \in [Commands -> [Notices -> Nat]]
      /\ events' \in [Commands -> Nat]
  <2>1. CASE AcceptPayment(c, l)
    <3>1. row' \in [Commands -> Rows]
      BY <2>1, RowType DEF AcceptPayment, Statuses
    <3>2. told' \in [Commands -> [Notices -> Nat]]
      BY <2>1, TellType DEF AcceptPayment, Notices
    <3>3. events' \in [Commands -> Nat]
      BY <2>1 DEF AcceptPayment, TypeOK
    <3> QED
      BY <3>1, <3>2, <3>3
  <2>2. CASE ~AcceptPayment(c, l)
    BY <2>2 DEF ProcessWebhook, RejectStale, ErrDuplicateWebhook, SkipActivation, TypeOK, Rows
  <2> QED
    BY <2>1, <2>2
<1> QED
  BY <1>3, <1>4, <1>5, <1>6, <1>7 DEF TypeOK, Rows

LEMMA NextType == TypeOK /\ [Next]_vars => TypeOK'
<1> SUFFICES ASSUME TypeOK, [Next]_vars PROVE TypeOK'
  OBVIOUS
<1>1. CASE RefreshRates \/ RatesAge
  <2>1. rates' \in [known : SUBSET Assets, fresh : BOOLEAN]
    <3>1. CASE RefreshRates
      BY <3>1 DEF RefreshRates
    <3>2. CASE RatesAge
      BY <3>2 DEF RatesAge, TypeOK
    <3> QED
      BY <1>1, <3>1, <3>2
  <2> QED
    BY <1>1, <2>1 DEF RefreshRates, RatesAge, TypeOK, order, cryptoBot, ghosts
<1>2. CASE ProcessStuckCreatingInvoices
  <2>1. row' \in [Commands -> Rows]
    <3>1. \A r \in Rows : [r EXCEPT !.status = "failed"] \in Rows
      BY DEF Rows, Statuses
    <3>2. \A c \in Commands : row[c] \in Rows
      BY DEF TypeOK, Rows
    <3> QED
      BY <1>2, <3>1, <3>2 DEF ProcessStuckCreatingInvoices
  <2>2. told' \in [Commands -> [Notices -> Nat]]
    <3>1. \A c \in Commands : /\ told[c] \in [Notices -> Nat]
                              /\ [told[c] EXCEPT !["failure"] = @ + 1] \in [Notices -> Nat]
      BY DEF TypeOK, Notices
    <3> QED
      BY <1>2, <3>1 DEF ProcessStuckCreatingInvoices
  <2> QED
    BY <1>2, <2>1, <2>2 DEF ProcessStuckCreatingInvoices, TypeOK, Rows, order, cryptoBot, ghosts
<1>3. ASSUME NEW c \in Commands, Order(c) PROVE TypeOK'
  BY <1>3 DEF Order, TypeOK, cryptoBot, ghosts
<1>4. ASSUME NEW c \in Commands, InsertInvoice(c) PROVE TypeOK'
  <2>1. row' \in [Commands -> Rows]
    BY <1>4, RowType DEF InsertInvoice, Statuses
  <2> QED
    BY <1>4, <2>1 DEF InsertInvoice, TypeOK, Rows, cryptoBot, ghosts
<1>5. ASSUME NEW c \in Commands, IgnoreDuplicate(c) PROVE TypeOK'
  <2>1. /\ topic' \in [Commands -> {"absent", "queued", "done", "dead"}]
        /\ tries' \in [Commands -> 0 .. MaxAttempts - 1]
    BY <1>5, CountType DEF IgnoreDuplicate
  <2> QED
    BY <1>5, <2>1 DEF IgnoreDuplicate, TypeOK, cryptoBot, ghosts
<1>6. ASSUME NEW c \in Commands, FailAttempt(c) PROVE TypeOK'
  <2>1. /\ topic' \in [Commands -> {"absent", "queued", "done", "dead"}]
        /\ tries' \in [Commands -> 0 .. MaxAttempts - 1]
    BY <1>6, CountType DEF FailAttempt
  <2>2. faults' \in 0 .. MaxFaults
    BY <1>6, FaultType DEF FailAttempt, TypeOK
  <2> QED
    BY <1>6, <2>1, <2>2 DEF FailAttempt, TypeOK, cryptoBot, ghosts
<1>7. ASSUME NEW c \in Commands, CallSucceeds(c) \/ CallFails(c) PROVE TypeOK'
  <2>0. /\ bill \in [Commands -> {"none", "open", "paid"}]
        /\ bills \in [Commands -> Nat]
        /\ handler \in [Commands -> {"idle", "recorded", "billed", "refused"}]
    BY DEF TypeOK
  <2>1. bill' \in [Commands -> {"none", "open", "paid"}]
    <3>1. bill' = bill \/ bill' = [bill EXCEPT ![c] = "open"]
      BY <1>7 DEF CallSucceeds, CallFails
    <3> QED
      BY <2>0, <3>1
  <2>3. bills' \in [Commands -> Nat]
    <3>1. bills' = bills \/ bills' = [bills EXCEPT ![c] = @ + 1]
      BY <1>7 DEF CallSucceeds, CallFails
    <3> QED
      BY <2>0, <3>1
  <2>2. handler' \in [Commands -> {"idle", "recorded", "billed", "refused"}]
    <3>1. \/ handler' = [handler EXCEPT ![c] = "billed"]
          \/ handler' = [handler EXCEPT ![c] = "refused"]
      BY <1>7 DEF CallSucceeds, CallFails
    <3> QED
      BY <2>0, <3>1
  <2> QED
    BY <1>7, <2>1, <2>2, <2>3 DEF CallSucceeds, CallFails, TypeOK, ghosts
<1>8. ASSUME NEW c \in Commands, MarkInvoiceActive(c) \/ MarkInvoiceFailed(c) PROVE TypeOK'
  <2>1. /\ topic' \in [Commands -> {"absent", "queued", "done", "dead"}]
        /\ tries' \in [Commands -> 0 .. MaxAttempts - 1]
        /\ faults' \in 0 .. MaxFaults
    BY <1>8, CommitOrCrashType DEF MarkInvoiceActive, MarkInvoiceFailed
  <2>2. told' \in [Commands -> [Notices -> Nat]]
    BY <1>8, TellType DEF MarkInvoiceActive, MarkInvoiceFailed, Notices
  <2>3. row' \in [Commands -> Rows]
    <3>1. "active" \in Statuses /\ "failed" \in Statuses
      BY DEF Statuses
    <3>2. \/ row' = [row EXCEPT ![c] = [status |-> "active", linked |-> TRUE]]
          \/ row' = [row EXCEPT ![c].status = "failed"]
      BY <1>8 DEF MarkInvoiceActive, MarkInvoiceFailed
    <3>3. CASE row' = [row EXCEPT ![c] = [status |-> "active", linked |-> TRUE]]
      BY <3>1, <3>3, RowType
    <3>4. CASE row' = [row EXCEPT ![c].status = "failed"]
      BY <3>1, <3>4, RowType
    <3> QED
      BY <3>2, <3>3, <3>4
  <2>4. handler' \in [Commands -> {"idle", "recorded", "billed", "refused"}]
    <3>1. handler' = [handler EXCEPT ![c] = "idle"]
      BY <1>8 DEF MarkInvoiceActive, MarkInvoiceFailed
    <3>2. handler \in [Commands -> {"idle", "recorded", "billed", "refused"}]
      BY DEF TypeOK
    <3> QED
      BY <3>1, <3>2
  <2> QED
    BY <1>8, <2>1, <2>2, <2>3, <2>4
       DEF MarkInvoiceActive, MarkInvoiceFailed, TypeOK, Rows, cryptoBot, ghosts
<1>9. ASSUME NEW c \in Commands, Abandon(c) PROVE TypeOK'
  <2>1. /\ topic' \in [Commands -> {"absent", "queued", "done", "dead"}]
        /\ tries' \in [Commands -> 0 .. MaxAttempts - 1]
    BY <1>9, CountType DEF Abandon, TypeOK
  <2>2. faults' \in 0 .. MaxFaults
    BY <1>9, FaultType DEF Abandon
  <2> QED
    BY <1>9, <2>1, <2>2 DEF Abandon, TypeOK, cryptoBot, ghosts
<1>10. ASSUME NEW c \in Commands, GrowOld(c) PROVE TypeOK'
  BY <1>10 DEF GrowOld, TypeOK, order, cryptoBot
<1>11. ASSUME NEW c \in Commands, Pay(c) \/ Update(c) \/ Repeat(c) PROVE TypeOK'
  <2>1. letters' \in [Commands -> SUBSET Letters] /\ bodies' \in [Commands -> 0 .. MaxBodies]
    BY <1>11, WriteType DEF Pay, Update, Repeat
  <2>2. bill' \in [Commands -> {"none", "open", "paid"}]
    <3>1. bill' = bill \/ bill' = [bill EXCEPT ![c] = "paid"]
      BY <1>11 DEF Pay, Update, Repeat
    <3>2. bill \in [Commands -> {"none", "open", "paid"}]
      BY DEF TypeOK
    <3> QED
      BY <3>1, <3>2
  <2> QED
    BY <1>11, <2>1, <2>2 DEF Pay, Update, Repeat, TypeOK, order, ghosts
<1>12. ASSUME NEW c \in Commands, GrowStale(c) PROVE TypeOK'
  <2>1. PICK l \in letters[c] :
          letters' = [letters EXCEPT ![c] = (@ \ {l}) \cup {[l EXCEPT !.stale = TRUE]}]
    BY <1>12 DEF GrowStale
  <2>2. [l EXCEPT !.stale = TRUE] \in Letters
    <3>1. l \in Letters
      BY DEF TypeOK
    <3> QED
      BY <3>1 DEF Letters
  <2>3. letters' \in [Commands -> SUBSET Letters]
    BY <2>1, <2>2 DEF TypeOK
  <2> QED
    BY <1>12, <2>3 DEF GrowStale, TypeOK, order, ghosts
<1>13. ASSUME NEW c \in Commands, NEW l \in letters[c], ProcessWebhook(c, l) PROVE TypeOK'
  BY <1>13, WebhookType
<1>14. CASE UNCHANGED vars
  BY <1>14 DEF vars, order, cryptoBot, ghosts, TypeOK
<1> QED
  BY <1>1, <1>2, <1>3, <1>4, <1>5, <1>6, <1>7, <1>8, <1>9, <1>10, <1>11, <1>12, <1>13,
     <1>14 DEF Next, Handle

\* The invoices, what CryptoBot holds, the webhooks and the counts keep their types and
\* bounds, for any commands, prices and attempts.
THEOREM CryptoTypeCorrect == Spec => []TypeOK
<1> QED
  BY InitType, NextType, PTL DEF Spec

------------------------------------------------------------------------------
(* The invariant of one command.                                             *)

\* Before the row nothing has happened.
Untouched(c) ==
  row[c].status = "none" =>
    /\ handler[c] = "idle" /\ c \notin old
    /\ told[c]["link"] = 0 /\ told[c]["failure"] = 0
    /\ bills[c] = 0 /\ bill[c] = "none"

\* While a handler works no link is out, hence nothing is paid; and the stuck worker has
\* not been at the order unless the handler met the threshold.
Working(c) ==
  handler[c] # "idle" =>
    /\ told[c]["link"] = 0
    /\ handler[c] = "recorded" => bills[c] = 0
    /\ c \notin late => row[c].status = "creating" /\ c \notin old

\* Money needs a link, a webhook of a payment needs the money, an activation both.
Money(c) ==
  /\ bill[c] = "paid" => told[c]["link"] > 0
  /\ \A l \in letters[c] : l.pays => bill[c] = "paid"
  /\ events[c] = IF row[c].status = "paid" THEN 1 ELSE 0
  /\ row[c].status = "paid" => bill[c] = "paid"

\* An order in creating has no answer yet.
Answers(c) ==
  /\ row[c].status = "creating" => told[c]["link"] = 0 /\ told[c]["failure"] = 0
  /\ bills[c] <= 1 /\ told[c]["link"] <= 1
  /\ c \notin late => told[c]["link"] + told[c]["failure"] <= 1

OrderOK(c) == Untouched(c) /\ Working(c) /\ Money(c) /\ Answers(c)

IInv == TypeOK /\ \A c \in Commands : OrderOK(c)

\* What a step leaves alone.
Same(d) ==
  /\ handler'[d] = handler[d] /\ row'[d] = row[d] /\ (d \in old' <=> d \in old)
  /\ bill'[d] = bill[d] /\ bills'[d] = bills[d] /\ told'[d] = told[d]
  /\ events'[d] = events[d] /\ (d \in late' <=> d \in late)
  /\ letters'[d] \subseteq letters[d]

LEMMA SameOK ==
  ASSUME NEW d \in Commands, OrderOK(d), Same(d)
  PROVE  OrderOK(d)'
  BY DEF OrderOK, Same, Untouched, Working, Money, Answers

\* The counts and states of one command as values.
LEMMA OrderTypes ==
  ASSUME TypeOK, NEW c \in Commands
  PROVE  /\ told[c]["link"] \in Nat /\ told[c]["failure"] \in Nat /\ told[c]["receipt"] \in Nat
         /\ bills[c] \in Nat /\ events[c] \in Nat
         /\ row[c].status \in Statuses
  BY DEF TypeOK, Notices

\* InsertInvoice finds nothing done for the command.
LEMMA InsertOK ==
  ASSUME IInv, NEW c \in Commands, InsertInvoice(c)
  PROVE  OrderOK(c)' /\ \A d \in Commands \ {c} : Same(d)
<1>1. /\ row'[c].status = "creating"
      /\ \A d \in Commands \ {c} : row'[d] = row[d]
  BY RowType DEF InsertInvoice, Statuses, IInv
<1>2. /\ handler'[c] = "recorded"
      /\ \A d \in Commands \ {c} : handler'[d] = handler[d]
  BY DEF InsertInvoice, IInv, TypeOK
<1>3. UNCHANGED <<old, bill, bills, letters, told, events, late>>
  BY DEF InsertInvoice, cryptoBot, ghosts
<1>4. row[c].status = "none" /\ OrderOK(c)
  BY DEF InsertInvoice, Processed, IInv
<1>5. OrderOK(c)'
  <2>1. Untouched(c)'
    BY <1>1 DEF Untouched
  <2>2. Working(c)'
    BY <1>1, <1>2, <1>3, <1>4 DEF OrderOK, Untouched, Working
  <2>3. Money(c)'
    BY <1>1, <1>3, <1>4 DEF OrderOK, Money
  <2>4. Answers(c)'
    BY <1>1, <1>3, <1>4 DEF OrderOK, Untouched, Answers
  <2> QED
    BY <2>1, <2>2, <2>3, <2>4 DEF OrderOK
<1> QED
  BY <1>1, <1>2, <1>3, <1>5 DEF Same

\* The call is the handler's first, so there is at most one invoice, and nobody has paid
\* one whose link is not out (CreateInvoice).
LEMMA CallOK ==
  ASSUME IInv, NEW c \in Commands, CallSucceeds(c) \/ CallFails(c)
  PROVE  OrderOK(c)' /\ \A d \in Commands \ {c} : Same(d)
<1>1. /\ handler[c] = "recorded" /\ handler'[c] \in {"billed", "refused"}
      /\ \A d \in Commands \ {c} : handler'[d] = handler[d]
  BY DEF CallSucceeds, CallFails, IInv, TypeOK
<1>2. UNCHANGED <<row, old, letters, told, events, late>>
  BY DEF CallSucceeds, CallFails, ghosts
<1>3. \/ UNCHANGED <<bill, bills>>
      \/ bill' = [bill EXCEPT ![c] = "open"] /\ bills' = [bills EXCEPT ![c] = @ + 1]
  BY DEF CallSucceeds, CallFails
<1>4. /\ \/ bill'[c] = bill[c] /\ bills'[c] = bills[c]
         \/ bill'[c] = "open" /\ bills'[c] = bills[c] + 1
      /\ \A d \in Commands \ {c} : bill'[d] = bill[d] /\ bills'[d] = bills[d]
  BY <1>3 DEF IInv, TypeOK
<1>5. OrderOK(c) /\ told[c]["link"] = 0 /\ bills[c] = 0
  BY <1>1 DEF IInv, OrderOK, Working
<1>6. bill[c] # "paid" /\ row[c].status \notin {"none", "paid"}
  BY <1>1, <1>5 DEF OrderOK, Money, Untouched
<1>7. OrderOK(c)'
  <2>1. Untouched(c)'
    BY <1>2, <1>6 DEF Untouched
  <2>2. Working(c)'
    BY <1>1, <1>2, <1>5 DEF OrderOK, Working
  <2>3. Money(c)'
    BY <1>2, <1>4, <1>5, <1>6 DEF OrderOK, Money
  <2>4. Answers(c)'
    BY <1>2, <1>4, <1>5 DEF OrderOK, Answers
  <2> QED
    BY <2>1, <2>2, <2>3, <2>4 DEF OrderOK
<1> QED
  BY <1>1, <1>2, <1>4, <1>7 DEF Same

\* The handler's answer is the first one, or the stuck worker has been faster and the
\* command is late (MarkInvoiceActiveTx, MarkInvoiceFailedTx).
LEMMA MarkOK ==
  ASSUME IInv, NEW c \in Commands, MarkInvoiceActive(c) \/ MarkInvoiceFailed(c)
  PROVE  OrderOK(c)' /\ \A d \in Commands \ {c} : Same(d)
<1>1. /\ handler[c] # "idle" /\ handler'[c] = "idle"
      /\ \A d \in Commands \ {c} : handler'[d] = handler[d]
  BY DEF MarkInvoiceActive, MarkInvoiceFailed, IInv, TypeOK
<1>2. UNCHANGED <<old, bill, bills, letters, events, late>>
  BY DEF MarkInvoiceActive, MarkInvoiceFailed, cryptoBot, ghosts
<1>3. /\ row'[c].status \in {"active", "failed"}
      /\ \A d \in Commands \ {c} : row'[d] = row[d]
  <2>1. CASE MarkInvoiceActive(c)
    BY <2>1 DEF MarkInvoiceActive, IInv, TypeOK
  <2>2. CASE MarkInvoiceFailed(c)
    BY <2>2, RowType DEF MarkInvoiceFailed, Statuses, IInv
  <2> QED
    BY <2>1, <2>2
<1>4. /\ \A d \in Commands \ {c} : told'[d] = told[d]
      /\ \/ /\ told'[c]["link"] = told[c]["link"] + 1
            /\ told'[c]["failure"] = told[c]["failure"]
         \/ /\ told'[c]["failure"] = told[c]["failure"] + 1
            /\ told'[c]["link"] = told[c]["link"]
  <2>1. CASE MarkInvoiceActive(c)
    BY <2>1, TellType DEF MarkInvoiceActive, Notices, IInv
  <2>2. CASE MarkInvoiceFailed(c)
    BY <2>2, TellType DEF MarkInvoiceFailed, Notices, IInv
  <2> QED
    BY <2>1, <2>2
<1>5. /\ OrderOK(c) /\ told[c]["link"] = 0
      /\ c \notin late => told[c]["failure"] = 0
  BY <1>1 DEF IInv, OrderOK, Working, Answers
<1>6. bill[c] # "paid" /\ row[c].status # "paid" /\ told[c]["failure"] \in Nat
  BY <1>5, OrderTypes DEF OrderOK, Money, IInv
<1>7. OrderOK(c)'
  <2>1. Untouched(c)' /\ Working(c)'
    BY <1>1, <1>3 DEF Untouched, Working
  <2>2. Money(c)'
    BY <1>2, <1>3, <1>5, <1>6 DEF OrderOK, Money
  <2>3. Answers(c)'
    BY <1>2, <1>3, <1>4, <1>5, <1>6 DEF OrderOK, Answers
  <2> QED
    BY <2>1, <2>2, <2>3 DEF OrderOK
<1> QED
  BY <1>1, <1>2, <1>3, <1>4, <1>7 DEF Same

\* A handler that is gone owes nothing.
LEMMA AbandonOK ==
  ASSUME IInv, NEW c \in Commands, Abandon(c)
  PROVE  OrderOK(c)' /\ \A d \in Commands \ {c} : Same(d)
<1>1. handler'[c] = "idle" /\ \A d \in Commands \ {c} : handler'[d] = handler[d]
  BY DEF Abandon, IInv, TypeOK
<1>2. UNCHANGED <<row, old, bill, bills, letters, told, events, late>>
  BY DEF Abandon, cryptoBot, ghosts
<1>3. OrderOK(c)
  BY DEF IInv
<1>4. OrderOK(c)'
  BY <1>1, <1>2, <1>3 DEF OrderOK, Untouched, Working, Money, Answers
<1> QED
  BY <1>1, <1>2, <1>4 DEF Same

\* A handler at work when its order grows old is late.
LEMMA GrowOldOK ==
  ASSUME IInv, NEW c \in Commands, GrowOld(c)
  PROVE  OrderOK(c)' /\ \A d \in Commands \ {c} : Same(d)
<1>1. UNCHANGED <<handler, row, bill, bills, letters, told, events>>
  BY DEF GrowOld, order, cryptoBot
<1>2. /\ row[c].status # "none" /\ old' = old \cup {c}
      /\ late' = IF handler[c] # "idle" THEN late \cup {c} ELSE late
  BY DEF GrowOld
<1>3. OrderOK(c)
  BY DEF IInv
<1>4. OrderOK(c)'
  BY <1>1, <1>2, <1>3 DEF OrderOK, Untouched, Working, Money, Answers
<1> QED
  BY <1>1, <1>2, <1>4 DEF Same

\* The stuck worker answers orders nobody has answered (ProcessStuckCreatingInvoices).
LEMMA StuckOK ==
  ASSUME IInv, ProcessStuckCreatingInvoices, NEW c \in Commands
  PROVE  OrderOK(c)'
<1>1. UNCHANGED <<handler, old, bill, bills, letters, events, late>>
  BY DEF ProcessStuckCreatingInvoices, order, cryptoBot, ghosts
<1>2. OrderOK(c)
  BY DEF IInv
<1>3. CASE c \notin Stuck
  <2>1. row'[c] = row[c] /\ told'[c] = told[c]
    BY <1>3 DEF ProcessStuckCreatingInvoices
  <2> QED
    BY <1>1, <1>2, <2>1, SameOK DEF Same
<1>4. CASE c \in Stuck
  <2>1. row[c].status = "creating" /\ c \in old
    BY <1>4 DEF Stuck
  <2>2. row'[c].status = "failed"
    <3>1. row'[c] = [row[c] EXCEPT !.status = "failed"] /\ row[c] \in Rows
      BY <1>4 DEF ProcessStuckCreatingInvoices, IInv, TypeOK, Rows
    <3> QED
      BY <3>1 DEF Rows
  <2>3. told'[c]["link"] = told[c]["link"] /\ told'[c]["failure"] = told[c]["failure"] + 1
    <3>1. told'[c] = [told[c] EXCEPT !["failure"] = @ + 1]
      BY <1>4 DEF ProcessStuckCreatingInvoices
    <3>2. told[c] \in [Notices -> Nat]
      BY DEF IInv, TypeOK
    <3> QED
      BY <3>1, <3>2 DEF Notices
  <2>4. told[c]["link"] = 0 /\ told[c]["failure"] = 0
    BY <1>2, <2>1 DEF OrderOK, Answers
  <2>5. Untouched(c)'
    BY <2>2 DEF Untouched
  <2>6. Working(c)'
    BY <1>1, <1>2, <2>1, <2>3, <2>4 DEF OrderOK, Working
  <2>7. Money(c)'
    BY <1>1, <1>2, <2>1, <2>2, <2>3, <2>4 DEF OrderOK, Money
  <2>8. Answers(c)'
    BY <1>1, <1>2, <2>2, <2>3, <2>4 DEF OrderOK, Answers
  <2> QED
    BY <2>5, <2>6, <2>7, <2>8 DEF OrderOK
<1> QED
  BY <1>3, <1>4

\* What CryptoBot writes of a payment, it writes of a paid invoice.
LEMMA LetterOK ==
  ASSUME IInv, NEW c \in Commands, Pay(c) \/ Update(c) \/ Repeat(c)
  PROVE  OrderOK(c)' /\ \A d \in Commands \ {c} : Same(d)
<1>1. UNCHANGED <<handler, row, old, bills, told, events, late>>
  BY DEF Pay, Update, Repeat, order, ghosts
<1>2. /\ bill'[c] = "paid" \/ bill'[c] = bill[c]
      /\ \A d \in Commands \ {c} : bill'[d] = bill[d]
      /\ bill[c] # "none"
  BY DEF Pay, Update, Repeat, IInv, TypeOK
<1>3. PICK pays \in BOOLEAN : Write(c, pays) /\ (pays => bill'[c] = "paid")
  BY DEF Pay, Update, Repeat, IInv, TypeOK
<1>4. /\ \A d \in Commands \ {c} : letters'[d] = letters[d]
      /\ \A l \in letters'[c] : l \in letters[c] \/ l.pays = pays
  BY <1>3, WriteType DEF IInv
<1>5. OrderOK(c)
  BY DEF IInv
<1>6. bill'[c] = "paid" => told[c]["link"] > 0
  BY <1>5 DEF Pay, Update, Repeat, OrderOK, Money
<1>7. bill[c] = "paid" => bill'[c] = "paid"
  BY <1>2
<1>8. Untouched(c)' /\ Working(c)' /\ Answers(c)'
  BY <1>1, <1>2, <1>5 DEF OrderOK, Untouched, Working, Answers
<1>9. Money(c)'
  BY <1>1, <1>3, <1>4, <1>5, <1>6, <1>7 DEF OrderOK, Money
<1>10. OrderOK(c)'
  BY <1>8, <1>9 DEF OrderOK
<1> QED
  BY <1>1, <1>2, <1>4, <1>10 DEF Same

\* A webhook that grows stale says what it said.
LEMMA GrowStaleOK ==
  ASSUME IInv, NEW c \in Commands, GrowStale(c)
  PROVE  OrderOK(c)' /\ \A d \in Commands \ {c} : Same(d)
<1>1. UNCHANGED <<handler, row, old, bill, bills, told, events, late>>
  BY DEF GrowStale, order, ghosts
<1>2. PICK l \in letters[c] :
        letters' = [letters EXCEPT ![c] = (@ \ {l}) \cup {[l EXCEPT !.stale = TRUE]}]
  BY DEF GrowStale
<1>3. letters \in [Commands -> SUBSET Letters] /\ l \in Letters
  BY <1>2 DEF IInv, TypeOK
<1>4. [l EXCEPT !.stale = TRUE].pays = l.pays
  BY <1>3 DEF Letters
<1>5. /\ \A d \in Commands \ {c} : letters'[d] = letters[d]
      /\ letters'[c] = (letters[c] \ {l}) \cup {[l EXCEPT !.stale = TRUE]}
  BY <1>2, <1>3
<1>6. OrderOK(c)
  BY DEF IInv
<1>7. \A k \in letters'[c] : k.pays => bill[c] = "paid"
  BY <1>2, <1>4, <1>5, <1>6 DEF OrderOK, Money
<1>8. OrderOK(c)'
  BY <1>1, <1>6, <1>7 DEF OrderOK, Untouched, Working, Money, Answers
<1> QED
  BY <1>1, <1>5, <1>8 DEF Same

\* The row, the event and the receipt are one transaction, of a payment that was made and
\* a row that is not paid (ProcessWebhook).
LEMMA WebhookOK ==
  ASSUME IInv, NEW c \in Commands, NEW l \in letters[c], ProcessWebhook(c, l)
  PROVE  OrderOK(c)' /\ \A d \in Commands \ {c} : Same(d)
<1>1. Answer(c, l)
  BY DEF ProcessWebhook, RejectStale, ErrDuplicateWebhook, SkipActivation, AcceptPayment,
         RecordWebhook
<1>2. /\ UNCHANGED <<handler, old, bill, bills, late>>
      /\ \A d \in Commands : letters'[d] \subseteq letters[d]
  BY <1>1, AnswerType DEF Answer, order, IInv
<1>3. CASE AcceptPayment(c, l)
  <2>1. OrderOK(c)
    BY DEF IInv
  <2>2. bill[c] = "paid" /\ row[c].status # "paid"
    BY <1>3, <2>1 DEF AcceptPayment, OrderOK, Money
  <2>3. told[c]["link"] > 0 /\ events[c] = 0
    BY <2>1, <2>2 DEF OrderOK, Money
  <2>4. handler[c] = "idle"
    BY <2>1, <2>3 DEF OrderOK, Working
  <2>5. row'[c].status = "paid" /\ \A d \in Commands \ {c} : row'[d] = row[d]
    BY <1>3, RowType DEF AcceptPayment, Statuses, IInv
  <2>6. events'[c] = 1 /\ \A d \in Commands \ {c} : events'[d] = events[d]
    BY <1>3, <2>3 DEF AcceptPayment, IInv, TypeOK
  <2>7. /\ told'[c]["link"] = told[c]["link"] /\ told'[c]["failure"] = told[c]["failure"]
        /\ \A d \in Commands \ {c} : told'[d] = told[d]
    BY <1>3, TellType DEF AcceptPayment, Notices, IInv
  <2>8. Untouched(c)' /\ Working(c)'
    BY <1>2, <2>4, <2>5 DEF Untouched, Working
  <2>9. Money(c)'
    BY <1>2, <2>2, <2>3, <2>5, <2>6, <2>7 DEF Money
  <2>10. Answers(c)'
    BY <1>2, <2>1, <2>5, <2>7 DEF OrderOK, Answers
  <2>11. OrderOK(c)'
    BY <2>8, <2>9, <2>10 DEF OrderOK
  <2> QED
    BY <1>2, <2>5, <2>6, <2>7, <2>11 DEF Same
<1>4. CASE ~AcceptPayment(c, l)
  <2>1. UNCHANGED <<row, told, events>>
    BY <1>4 DEF ProcessWebhook, RejectStale, ErrDuplicateWebhook, SkipActivation
  <2>2. \A d \in Commands : Same(d)
    BY <1>2, <2>1 DEF Same
  <2> QED
    BY <2>2, SameOK DEF IInv
<1> QED
  BY <1>3, <1>4

LEMMA InitInv == Init => IInv
<1> SUFFICES ASSUME Init, NEW c \in Commands PROVE OrderOK(c)
  BY InitType DEF IInv
<1>1. /\ row[c].status = "none" /\ handler[c] = "idle" /\ c \notin old
      /\ told[c]["link"] = 0 /\ told[c]["failure"] = 0
      /\ bills[c] = 0 /\ bill[c] = "none" /\ letters[c] = {} /\ events[c] = 0
  BY DEF Init, Notices
<1> QED
  BY <1>1 DEF OrderOK, Untouched, Working, Money, Answers

LEMMA NextInv == IInv /\ [Next]_vars => IInv'
<1> SUFFICES ASSUME IInv, [Next]_vars, NEW d \in Commands PROVE OrderOK(d)'
  BY NextType DEF IInv
<1>0. OrderOK(d)
  BY DEF IInv
<1>1. CASE RefreshRates \/ RatesAge
  <2>1. Same(d)
    BY <1>1 DEF RefreshRates, RatesAge, Same, order, cryptoBot, ghosts
  <2> QED
    BY <1>0, <2>1, SameOK
<1>2. CASE ProcessStuckCreatingInvoices
  BY <1>2, StuckOK
<1>3. ASSUME NEW c \in Commands, Order(c) \/ IgnoreDuplicate(c) \/ FailAttempt(c)
      PROVE  OrderOK(d)'
  <2>1. Same(d)
    BY <1>3 DEF Order, IgnoreDuplicate, FailAttempt, Same, cryptoBot, ghosts
  <2> QED
    BY <1>0, <2>1, SameOK
<1>4. ASSUME NEW c \in Commands,
             \/ InsertInvoice(c)
             \/ CallSucceeds(c) \/ CallFails(c)
             \/ MarkInvoiceActive(c) \/ MarkInvoiceFailed(c)
             \/ Abandon(c) \/ GrowOld(c)
      PROVE  OrderOK(d)'
  <2>1. OrderOK(c)' /\ \A e \in Commands \ {c} : Same(e)
    BY <1>4, InsertOK, CallOK, MarkOK, AbandonOK, GrowOldOK
  <2> QED
    BY <1>0, <2>1, SameOK
<1>5. ASSUME NEW c \in Commands, Pay(c) \/ Update(c) \/ Repeat(c) \/ GrowStale(c)
      PROVE  OrderOK(d)'
  <2>1. OrderOK(c)' /\ \A e \in Commands \ {c} : Same(e)
    BY <1>5, LetterOK, GrowStaleOK
  <2> QED
    BY <1>0, <2>1, SameOK
<1>6. ASSUME NEW c \in Commands, NEW l \in letters[c], ProcessWebhook(c, l)
      PROVE  OrderOK(d)'
  <2>1. OrderOK(c)' /\ \A e \in Commands \ {c} : Same(e)
    BY <1>6, WebhookOK
  <2> QED
    BY <1>0, <2>1, SameOK
<1>7. CASE UNCHANGED vars
  <2>1. Same(d)
    BY <1>7 DEF vars, Same, order, cryptoBot, ghosts
  <2> QED
    BY <1>0, <2>1, SameOK
<1> QED
  BY <1>1, <1>2, <1>3, <1>4, <1>5, <1>6, <1>7 DEF Next, Handle

\* One event for a paid order and none for another, and no order is paid without the
\* money, for any number of webhooks, repetitions, crashes and slow handlers.
THEOREM ActivatedOnce == Spec => []ActivatedOnceForMoney
<1>1. IInv => ActivatedOnceForMoney
  BY DEF IInv, OrderOK, Money, ActivatedOnceForMoney
<1> QED
  BY InitInv, NextInv, <1>1, PTL DEF Spec

\* One invoice, one link, and a link or a failure but for a handler that outlived the
\* threshold, for any number of faults and attempts.
THEOREM AnsweredOnce == Spec => []OneAnswer
<1>1. IInv => OneAnswer
  BY DEF IInv, OrderOK, Answers, OneAnswer
<1> QED
  BY InitInv, NextInv, <1>1, PTL DEF Spec

=============================================================================
