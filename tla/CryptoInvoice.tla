----------------------------- MODULE CryptoInvoice -----------------------------
(***************************************************************************)
(* internal/crypto_billing: a create_checkout command becomes an invoice of *)
(* CryptoBot, the invoice is paid, the payment becomes one event in         *)
(* billing.events.                                                          *)
(*                                                                          *)
(* The handler writes the invoice, calls CryptoBot outside any transaction, *)
(* and writes what came of the call; a crash between two of the three loses *)
(* the rest, since the command is already marked as processed.  The worker  *)
(* of stuck invoices fails what stays in creating.  Webhooks may come late, *)
(* twice, and with another body for the same payment.                       *)
(*                                                                          *)
(* A command stands for its order and for the user's chat.  The mark in     *)
(* processed_messages and the row of crypto_invoices are written together,  *)
(* so the row stands for both.  CryptoBot and the payer are the             *)
(* environment.  Left out: amounts, the text of messages, the signature,    *)
(* updates of other types than invoice_paid, which change nothing.          *)
(***************************************************************************)
EXTENDS Integers, FiniteSets

CONSTANTS
  Commands,      \* create_checkout commands
  Assets,
  AssetOf,       \* the asset each command asks for
  Static,        \* commands whose plan has a static price in that asset
  Fiat,          \* CRYPTO_PRICING_MODE = fiat
  Slow,          \* a handler may take longer than the threshold of stuck invoices
  MaxAttempts,   \* attempts before the dead-letter topic, 20 in the code
  MaxBodies,     \* bound: bodies of webhooks of one invoice
  MaxFaults      \* bound: crashes, failed transactions, lost answers

ASSUME CryptoAssumption ==
  /\ AssetOf \in [Commands -> Assets]
  /\ Static \subseteq Commands
  /\ Fiat \in BOOLEAN /\ Slow \in BOOLEAN
  /\ MaxAttempts \in Nat \ {0}
  /\ MaxBodies \in Nat /\ MaxFaults \in Nat

VARIABLES
  topic,    \* crypto.commands: where each command is
  tries,    \* failed attempts of each command
  rates,    \* RatesCache: the assets with a rate, and whether it is fresh
  handler,  \* how far the handler of each command has got
  row,      \* crypto_invoices
  old,      \* rows older than the threshold
  bill,     \* the invoice in CryptoBot
  bills,    \* invoices CryptoBot has made for the command
  letters,  \* webhooks of each invoice that CryptoBot has no answer to
  bodies,   \* how many bodies CryptoBot has written for the invoice
  seen,     \* crypto_webhook_events
  told,     \* notifications of each command
  events,   \* payment_succeeded events of each order
  faults,
  late,     \* ghost: handlers that met the threshold while they worked
  dropped   \* ghost: payments whose webhook came 15 minutes late

order == <<topic, tries, handler>>
cryptoBot == <<bill, bills, letters, bodies>>
ghosts == <<late, dropped>>
vars == <<order, rates, row, old, cryptoBot, seen, told, events, faults, ghosts>>

Bodies == 1 .. MaxBodies
Letters == [body : Bodies, pays : BOOLEAN, stale : BOOLEAN]
Notices == {"link", "failure", "receipt"}
Statuses == {"none", "creating", "active", "failed", "paid"}

TypeOK ==
  /\ topic \in [Commands -> {"absent", "queued", "done", "dead"}]
  /\ tries \in [Commands -> 0 .. MaxAttempts - 1]
  /\ rates \in [known : SUBSET Assets, fresh : BOOLEAN]
  /\ handler \in [Commands -> {"idle", "recorded", "billed", "refused"}]
  /\ row \in [Commands -> [status : Statuses, linked : BOOLEAN]]
  /\ old \subseteq Commands
  /\ bill \in [Commands -> {"none", "open", "paid"}]
  /\ bills \in [Commands -> Nat]
  /\ letters \in [Commands -> SUBSET Letters]
  /\ bodies \in [Commands -> 0 .. MaxBodies]
  /\ seen \in [Commands -> SUBSET Bodies]
  /\ told \in [Commands -> [Notices -> Nat]]
  /\ events \in [Commands -> Nat]
  /\ faults \in 0 .. MaxFaults
  /\ late \subseteq Commands
  /\ dropped \subseteq Commands

Init ==
  /\ topic = [c \in Commands |-> "absent"]
  /\ tries = [c \in Commands |-> 0]
  /\ rates = [known |-> {}, fresh |-> FALSE]
  /\ handler = [c \in Commands |-> "idle"]
  /\ row = [c \in Commands |-> [status |-> "none", linked |-> FALSE]]
  /\ old = {}
  /\ bill = [c \in Commands |-> "none"]
  /\ bills = [c \in Commands |-> 0]
  /\ letters = [c \in Commands |-> {}]
  /\ bodies = [c \in Commands |-> 0]
  /\ seen = [c \in Commands |-> {}]
  /\ told = [c \in Commands |-> [n \in Notices |-> 0]]
  /\ events = [c \in Commands |-> 0]
  /\ faults = 0
  /\ late = {} /\ dropped = {}

Fault == faults < MaxFaults /\ faults' = faults + 1
Tell(c, what) == told' = [told EXCEPT ![c][what] = @ + 1]
------------------------------------------------------------------------------
(* Prices.                                                                   *)

\* RatesWorker.refresh: a failed answer, or one without rates, keeps the cache.
RefreshRates ==
  /\ \E known \in SUBSET Assets \ {{}} : rates' = [known |-> known, fresh |-> TRUE]
  /\ UNCHANGED <<order, row, old, cryptoBot, seen, told, events, faults, ghosts>>

\* RatesMaxAge passes without a refresh.
RatesAge ==
  /\ rates.fresh
  /\ rates' = [rates EXCEPT !.fresh = FALSE]
  /\ UNCHANGED <<order, row, old, cryptoBot, seen, told, events, faults, ghosts>>

\* resolvePricing
Priced(c) == Fiat \/ (rates.fresh /\ AssetOf[c] \in rates.known) \/ c \in Static
------------------------------------------------------------------------------
(* HandleCreateCheckout.                                                     *)

Order(c) ==
  /\ topic[c] = "absent"
  /\ topic' = [topic EXCEPT ![c] = "queued"]
  /\ UNCHANGED <<tries, handler, rates, row, old, cryptoBot, seen, told, events, faults, ghosts>>

\* Mutant of Processed: a row that is still creating is taken up again.
ProcessedUnlessCreating(c) == row[c].status \notin {"none", "creating"}

\* MarkProcessed finds the command.
Processed(c) == row[c].status # "none"

\* The mark and the row, in one transaction.
InsertInvoice(c) ==
  /\ topic[c] = "queued"
  /\ Priced(c)
  /\ ~Processed(c)
  /\ row' = [row EXCEPT ![c].status = "creating"]
  /\ handler' = [handler EXCEPT ![c] = "recorded"]
  /\ UNCHANGED <<topic, tries, rates, old, cryptoBot, seen, told, events, faults, ghosts>>

\* The offset is committed and the count of attempts forgotten.
Commit(c) ==
  /\ topic' = [topic EXCEPT ![c] = IF @ = "queued" THEN "done" ELSE @]
  /\ tries' = [tries EXCEPT ![c] = 0]

\* The process may die between the transaction and the offset.
CommitOrCrash(c) ==
  \/ Commit(c) /\ UNCHANGED faults
  \/ Fault /\ UNCHANGED <<topic, tries>>

\* Mutant of CountAttempt: the count is compared before it is raised.
CountAttemptLate(c) ==
  IF tries[c] >= MaxAttempts
    THEN topic' = [topic EXCEPT ![c] = "dead"] /\ tries' = [tries EXCEPT ![c] = 0]
    ELSE tries' = [tries EXCEPT ![c] = @ + 1] /\ UNCHANGED topic

\* The count outlives restarts; the last attempt gives the command to the dead letters.
CountAttempt(c) ==
  IF tries[c] + 1 >= MaxAttempts
    THEN topic' = [topic EXCEPT ![c] = "dead"] /\ tries' = [tries EXCEPT ![c] = 0]
    ELSE tries' = [tries EXCEPT ![c] = @ + 1] /\ UNCHANGED topic

\* A copy, or the attempt after an error.  It may come while another consumer still
\* works on the command.
IgnoreDuplicate(c) ==
  /\ topic[c] = "queued"
  /\ Priced(c)
  /\ Processed(c)
  /\ Commit(c)
  /\ UNCHANGED <<handler, rates, row, old, cryptoBot, seen, told, events, faults, ghosts>>

\* An attempt fails before the row is written: no price, or no database.
FailAttempt(c) ==
  /\ topic[c] = "queued"
  /\ IF Priced(c) THEN Fault ELSE UNCHANGED faults
  /\ CountAttempt(c)
  /\ UNCHANGED <<handler, rates, row, old, cryptoBot, seen, told, events, ghosts>>

\* createInvoice.  CryptoBot has no idempotency key: each call that gets through makes
\* an invoice, known or not.
CallSucceeds(c) ==
  /\ handler[c] = "recorded"
  /\ handler' = [handler EXCEPT ![c] = "billed"]
  /\ bill' = [bill EXCEPT ![c] = "open"]
  /\ bills' = [bills EXCEPT ![c] = @ + 1]
  /\ UNCHANGED <<topic, tries, rates, row, old, letters, bodies, seen, told, events, faults, ghosts>>

\* An error, or an answer that did not come in time.
CallFails(c) ==
  /\ handler[c] = "recorded"
  /\ handler' = [handler EXCEPT ![c] = "refused"]
  /\ \E made \in BOOLEAN :
       IF made THEN /\ bill' = [bill EXCEPT ![c] = "open"]
                    /\ bills' = [bills EXCEPT ![c] = @ + 1]
               ELSE UNCHANGED <<bill, bills>>
  /\ UNCHANGED <<topic, tries, rates, row, old, letters, bodies, seen, told, events, faults, ghosts>>

\* The second transaction; MarkInvoiceActiveTx does not look at the status.
MarkInvoiceActive(c) ==
  /\ handler[c] = "billed"
  /\ row' = [row EXCEPT ![c] = [status |-> "active", linked |-> TRUE]]
  /\ Tell(c, "link")
  /\ CommitOrCrash(c)
  /\ handler' = [handler EXCEPT ![c] = "idle"]
  /\ UNCHANGED <<rates, old, cryptoBot, seen, events, ghosts>>

\* Mutant of MarkInvoiceFailed: the user is not told.
MarkInvoiceFailedSilently(c) ==
  /\ handler[c] = "refused"
  /\ row' = [row EXCEPT ![c].status = "failed"]
  /\ CommitOrCrash(c)
  /\ handler' = [handler EXCEPT ![c] = "idle"]
  /\ UNCHANGED <<rates, old, cryptoBot, seen, told, events, ghosts>>

\* Nor does MarkInvoiceFailedTx.
MarkInvoiceFailed(c) ==
  /\ handler[c] = "refused"
  /\ row' = [row EXCEPT ![c].status = "failed"]
  /\ Tell(c, "failure")
  /\ CommitOrCrash(c)
  /\ handler' = [handler EXCEPT ![c] = "idle"]
  /\ UNCHANGED <<rates, old, cryptoBot, seen, events, ghosts>>

\* The process dies, or the transaction after the call fails and the attempt counts; the
\* command comes again, and the handler is gone.
Abandon(c) ==
  /\ Fault
  /\ handler[c] # "idle"
  /\ handler' = [handler EXCEPT ![c] = "idle"]
  /\ UNCHANGED <<topic, tries>> \/ (topic[c] = "queued" /\ CountAttempt(c))
  /\ UNCHANGED <<rates, row, old, cryptoBot, seen, told, events, ghosts>>

(* The worker of stuck invoices.                                              *)

\* Two minutes pass.  The call takes 15 seconds at most.
GrowOld(c) ==
  /\ row[c].status # "none"
  /\ c \notin old
  /\ Slow \/ handler[c] = "idle"
  /\ old' = old \cup {c}
  /\ late' = IF handler[c] # "idle" THEN late \cup {c} ELSE late
  /\ UNCHANGED <<order, rates, row, cryptoBot, seen, told, events, faults, dropped>>

\* Mutant of Stuck: every order that is not paid.
Unpaid == {c \in old : row[c].status \in {"creating", "active"}}

\* LockStuckCreatingInvoicesTx
Stuck == {c \in old : row[c].status = "creating"}

ProcessStuckCreatingInvoices ==
  /\ Stuck # {}
  /\ row' = [c \in Commands |-> IF c \in Stuck THEN [row[c] EXCEPT !.status = "failed"]
                                               ELSE row[c]]
  /\ told' = [c \in Commands |-> IF c \in Stuck THEN [told[c] EXCEPT !["failure"] = @ + 1]
                                                ELSE told[c]]
  /\ UNCHANGED <<order, rates, old, cryptoBot, seen, events, faults, ghosts>>
------------------------------------------------------------------------------
(* CryptoBot and the payer.                                                  *)

Write(c, pays) ==
  /\ bodies[c] < MaxBodies
  /\ bodies' = [bodies EXCEPT ![c] = @ + 1]
  /\ letters' = [letters EXCEPT ![c] = @ \cup {[body |-> bodies[c] + 1, pays |-> pays, stale |-> FALSE]}]

\* Only who has the link can pay.
Pay(c) ==
  /\ bill[c] = "open"
  /\ told[c]["link"] > 0
  /\ bill' = [bill EXCEPT ![c] = "paid"]
  /\ Write(c, TRUE)
  /\ UNCHANGED <<order, rates, row, old, bills, seen, told, events, faults, ghosts>>

\* An update of the invoice that is not a payment of it: another status, asset or amount.
Update(c) ==
  /\ bill[c] # "none"
  /\ Write(c, FALSE)
  /\ UNCHANGED <<order, rates, row, old, bill, bills, seen, told, events, faults, ghosts>>

\* The payment again, with a date, hence a body, of its own.
Repeat(c) ==
  /\ bill[c] = "paid"
  /\ Write(c, TRUE)
  /\ UNCHANGED <<order, rates, row, old, bill, bills, seen, told, events, faults, ghosts>>

\* 15 minutes pass.
GrowStale(c) ==
  /\ \E l \in letters[c] :
       ~l.stale /\ letters' = [letters EXCEPT ![c] = (@ \ {l}) \cup {[l EXCEPT !.stale = TRUE]}]
  /\ UNCHANGED <<order, rates, row, old, bill, bills, bodies, seen, told, events, faults, ghosts>>

(* ProcessWebhook: one transaction, then 200, unless the answer is lost.      *)

Answer(c, l) ==
  /\ \/ letters' = [letters EXCEPT ![c] = @ \ {l}] /\ UNCHANGED faults
     \/ Fault /\ UNCHANGED letters
  /\ UNCHANGED <<order, rates, old, bill, bills, bodies, late>>

\* The date is checked before anything else.
RejectStale(c, l) ==
  /\ l.stale
  /\ Answer(c, l)
  /\ dropped' = IF l.pays THEN dropped \cup {c} ELSE dropped
  /\ UNCHANGED <<row, seen, told, events>>

ErrDuplicateWebhook(c, l) ==
  /\ ~l.stale
  /\ l.body \in seen[c]
  /\ Answer(c, l)
  /\ UNCHANGED <<row, seen, told, events, dropped>>

\* The fingerprint is new and the invoice is known; for an unknown one the transaction is
\* rolled back and 422 asks for a repetition.
RecordWebhook(c, l) ==
  /\ ~l.stale
  /\ l.body \notin seen[c]
  /\ row[c].linked
  /\ Answer(c, l)
  /\ seen' = [seen EXCEPT ![c] = @ \cup {l.body}]
  /\ UNCHANGED dropped

\* The status, the asset or the amount is not what was asked for, or the row is paid.
SkipActivation(c, l) ==
  /\ RecordWebhook(c, l)
  /\ ~l.pays \/ row[c].status = "paid"
  /\ UNCHANGED <<row, told, events>>

\* Mutant of AcceptPayment: the status in the update is not looked at.
AcceptAnyUpdate(c, l) ==
  /\ RecordWebhook(c, l)
  /\ row[c].status # "paid"
  /\ row' = [row EXCEPT ![c].status = "paid"]
  /\ events' = [events EXCEPT ![c] = @ + 1]
  /\ Tell(c, "receipt")

\* Mutant of AcceptPayment: the fingerprint is committed before the rest.
AcceptPaymentTorn(c, l) ==
  /\ RecordWebhook(c, l)
  /\ l.pays /\ row[c].status # "paid"
  /\ \/ /\ row' = [row EXCEPT ![c].status = "paid"]
        /\ events' = [events EXCEPT ![c] = @ + 1]
        /\ Tell(c, "receipt")
     \/ UNCHANGED <<row, events, told>>

\* MarkInvoicePaidTx, the event and the receipt.
AcceptPayment(c, l) ==
  /\ RecordWebhook(c, l)
  /\ l.pays /\ row[c].status # "paid"
  /\ row' = [row EXCEPT ![c].status = "paid"]
  /\ events' = [events EXCEPT ![c] = @ + 1]
  /\ Tell(c, "receipt")

ProcessWebhook(c, l) ==
  \/ RejectStale(c, l) \/ ErrDuplicateWebhook(c, l)
  \/ SkipActivation(c, l) \/ AcceptPayment(c, l)

Handle(c) ==
  \/ InsertInvoice(c) \/ IgnoreDuplicate(c) \/ FailAttempt(c)
  \/ CallSucceeds(c) \/ CallFails(c) \/ MarkInvoiceActive(c) \/ MarkInvoiceFailed(c)

Next ==
  \/ RefreshRates \/ RatesAge \/ ProcessStuckCreatingInvoices
  \/ \E c \in Commands :
       \/ Order(c) \/ Handle(c) \/ Abandon(c) \/ GrowOld(c)
       \/ Pay(c) \/ Update(c) \/ Repeat(c) \/ GrowStale(c)
       \/ \E l \in letters[c] : ProcessWebhook(c, l)

Spec == Init /\ [][Next]_vars

\* The consumer and the worker go on, a call ends within its timeout, time passes, and
\* CryptoBot repeats a webhook until it is answered.
Fairness ==
  /\ WF_vars(ProcessStuckCreatingInvoices)
  /\ \A c \in Commands :
       /\ WF_vars(Handle(c)) /\ WF_vars(GrowOld(c))
       /\ WF_vars(\E l \in letters[c] : ProcessWebhook(c, l))

FairSpec == Spec /\ Fairness
------------------------------------------------------------------------------
(* Properties.                                                               *)

\* An order is paid exactly when one payment_succeeded event is in the outbox, whatever
\* repetitions, stuck-invoice passes and late handlers came between, and only if the payer
\* has paid (MarkInvoicePaidTx, ProcessWebhook).
ActivatedOnceForMoney ==
  \A c \in Commands :
    /\ events[c] = IF row[c].status = "paid" THEN 1 ELSE 0
    /\ row[c].status = "paid" => bill[c] = "paid"

\* The user of a checkout gets one link or one failure and never both, and there is at most
\* one invoice for it in CryptoBot, unless the handler outlives the two minutes the stuck
\* worker allows it (CreateInvoice: never twice for one command).
OneAnswer ==
  \A c \in Commands :
    /\ bills[c] <= 1 /\ told[c]["link"] <= 1
    /\ c \notin late => told[c]["link"] + told[c]["failure"] <= 1

\* Whoever asks for a checkout hears of it, however the process dies between the three
\* steps, unless no attempt gets as far as the row: a command given to the dead-letter
\* topic after its row is written is answered too (ProcessStuckCreatingInvoices).
EveryCheckoutAnswered ==
  \A c \in Commands :
    topic[c] = "queued" ~> \/ topic[c] = "dead" /\ row[c].status = "none"
                          \/ told[c]["link"] + told[c]["failure"] > 0

\* A payment becomes an event, however often its webhook fails or its body is refused, unless
\* one of its webhooks came 15 minutes late (ProcessWebhook).
PaidIsActivated ==
  \A c \in Commands : bill[c] = "paid" ~> events[c] = 1 \/ c \in dropped

=============================================================================
