# A verification project for vpn_system

TLA+ models of the parts of `vpn_system` whose correctness depends on interleavings,
failures, ordering and time, the TLC configurations that check them, and the proofs TLAPS
checks. Paths are relative to the repository (`internal/...`).

## 1. The system

Five services share one PostgreSQL database and talk through Kafka. A business transaction
writes its rows and its messages (`event_outbox`) together; a publisher loop in every service
sends the messages; every consumer loop hands a message to a handler that records the
message's id (`processed_messages`).

```
 telegram ─ tg-bot-gateway ──subscription.commands──▶ user-subscription ──subscription.events─┐
               │    ▲                                     ▲       │                           │
               │    └──────── tg.notifications ───────────┼───────┘                           │
               ├──billing.commands──▶ billing ─billing.events                                 ▼
               │          YooKassa ◀─▶  │  ▲ └── subscription.events ◀──────────── vpn-orchestrator
               └──crypto.commands───▶ crypto-billing ─billing.events        vpn.commands ▼   ▲ vpn.events
                                                                                     node agents
```

| Component | State it keeps | Operations | Hard behaviour |
|---|---|---|---|
| transactional outbox `common/outbox` | `event_outbox`, `failed_messages`; per publisher: its locked rows, `blockedKeys` | `AddTx`, `LockPending`, `MarkPublished`, `MarkRetry`, `SaveFailedMessage`, cleanup | several publishers on one table, lost writes, acknowledgements after the deadline, crash between claim and send, order per key |
| consumer loop `common/kafka` | group offset, `consumer_attempts`; per worker: the message in its hands | fetch, handle, retry in place, dead letter, commit | rebalance while a message is handled, refused dead letters, counts that survive restarts, a stopped worker |
| user subscription | `user_subscriptions`, `subscription_grants`, `referral_reward_grants`, `processed_messages` | trial, payment, cancel, status, redeem, rotate; grace, end of renewal, end of access; expiry sweep; reminders | two topics in any order, redelivery after a half-done message, expiry on read against the sweep |
| billing | `billing_recurring_profiles`, `payments`, `billing_webhook_events`, `billing_customers`, `billing_pending_refunds` | checkout, bind/unbind, disable, webhook, renewal scheduler, grace worker, refunds | a call to YooKassa between two statements, webhook racing the answer, lost answers, lock takeover, retries, grace |
| CDN quota (orchestrator) | `vpn_user_cdn_quota` | traffic report, payment reset, calendar reset, exhaustion and revoke, sync | counters that are lost, late reports, stale reads on another connection, two workers |
| orchestrator: access | `vpn_user_access`, `vpn_user_node_credentials`, `vpn_pool_items`, `vpn_servers` | the five events of a subscription, feed, reconcile, resync, pool and node administration, heartbeats, allocation | revisions out of order, writers that act on rows read before, full or silent nodes, lost commands, moved items |
| crypto billing | `crypto_invoices`, `crypto_webhook_events`, the cache of rates | checkout, webhook, worker of stuck invoices, rates | a call to CryptoBot between two transactions, the worker racing a slow handler, webhooks repeated, late or rewritten |
| telegram gateway | chat states, chat locks, broadcast flag | commands, notifications, broadcast | lock cleanup, one broadcast at a time |
| common: rate limiter, metrics, HTTP, logging | fixed windows; none | | shared map |

What makes each of them correct:

* outbox: every committed event reaches the broker or is given up after its attempts; it is
  claimed by one publisher at a time, sent at most once an attempt, and called published only
  when the broker has it.
* consumer: no message is passed over, reordered, given up early or retried for ever.
* subscription: nobody has more time than was granted or loses time that was; a term ends; what
  is announced is what is stored.
* billing: one charge a period; a payment taken is reported; a renewal that begins ends.
* quota: a byte is charged once; an exhausted quota stays so until a period begins; access follows.
* access: an end of access reaches every node that has the user; a live user gets his account.
* crypto: a checkout has one answer, a payment one event.

## 2. Modules

| Module | Models | Extends / instantiates |
|---|---|---|
| `OutboxPromise` | the abstract promise of the outbox: owed → delivered or given up, never sent when not owed | |
| `Outbox` | `internal/common/outbox/{outbox,worker,cleanup}.go` | `Promise == INSTANCE OutboxPromise WITH fate <- Fate` |
| `OutboxProofs` | theorems about `Outbox` and its refinement | `Outbox` |
| `Consumer` | `internal/common/kafka/{consumer,attempt_store}.go` | |
| `ConsumerProofs` | theorems | `Consumer` |
| `SubscriptionPromise` | the abstract promise of user-subscription to the orchestrator: how a user's access and its revision may change, silently or with an event | |
| `Subscription` | `internal/user_subscription/{service,repository,referral_repository,token_rotation,expiry_sweep_worker,kafka_handlers}.go` | `Promise == INSTANCE SubscriptionPromise WITH access <- ...StateOf(sub)...` |
| `SubscriptionProofs` | theorems about `Subscription` and its refinement | `Subscription` |
| `Billing` | `internal/billing/{service,repository,renewal_worker,http_handlers}.go` | |
| `BillingProofs` | theorems | `Billing` |
| `BillingRenewalProofs` | the theorem that a period is renewed once | `BillingProofs` |
| `CdnQuota` | `internal/vpn_orchestrator/cdn_quota*.go`, and `ApplyNodeTraffic`, `publishSyncCommands`, the reset of `ApplyActivated` in `service.go`, `reconcile_worker.go` | |
| `CdnQuotaProofs` | theorems | `CdnQuota` |
| `Access` | `internal/vpn_orchestrator/{service,repository,allocator,kafka_handlers,reconcile_worker,admin_http}.go` | `Source == INSTANCE SubscriptionPromise WITH access <- sub` |
| `AccessProofs` | theorems | `Access` |
| `CryptoInvoice` | `internal/crypto_billing/{service,repository,recovery_worker,http_handlers,kafka_handlers,pricing,rates,cryptobot_client}.go` | |
| `CryptoInvoiceProofs` | theorems | `CryptoInvoice` |
| `MC*` | instances for TLC: messages, outcomes, schedules | the module after `MC` |

Conventions: an action has the name of the function or statement it stands for; a definition
whose comment begins with "Mutant of" is a plausible mistake in the named one, kept so that each
property can be seen to fail on it; it is used by no specification.

### Outbox

One row per id; ids are the insertion order. `status`, `attempts`, `wait` (seconds to
`next_attempt_at`) and `deadLetters` are the tables; `batch`, `blocked`, `mark` are the locals
of one pass of one `RunPublisher` loop; `copies` counts what the broker has accepted. The
claim is one autocommitted statement, so one action. The call of `PublishJSON` and the write of
its outcome are two actions: a crash or a lost write comes between. `Faults` names what the
environment may do: a refused publish, an acceptance whose acknowledgement is late, a lost
database write, a crash. `ReturningSorted = FALSE` lets `UPDATE ... RETURNING` give the rows in
any order, which SQL allows. `SaveFailedMessage` and the blocking of the key are parts of
`MarkFailed`, as in the code. `AddTx` inserts the events of one key in id order, because they are
written under that user's row lock.

### Consumer

One partition, one group. `position` is what the owner fetches next, `committed` what the group
resumes from. A call of the handler ends in `ok`, `error` or `skip`, out of the outcomes of that
message. The attempt store may fail: `Inc` then answers 1, `Reset` does nothing. `refused`
remembers messages the dead-letter topic did not acknowledge. `Restart` loses the worker's place;
`Rebalance` gives the partition to another worker while the former goes on with the message in
its hands, and its commit is accepted: the worst the group protocol allows a live member.

### Subscription

The row of one user; every handler locks it (`SELECT ... FOR UPDATE`), so one transaction is one
action on one row, and users do not interact except through `RefereeConverts`. Two things are not
atomic and are kept apart: the handler's commit and the later commit of its
`processed_messages` row (`stage`: `applied`, then `recorded`; a `Crash` between the two redelivers
the message), and the sweep's search (`candidate`) and the suspension it leads to. The
locked read expires the row (`Read`), as `getStateForUpdateTx` does. `told` is the last access
event written to the outbox. Time is in days. `MCSubscription` gives TLC two sets of messages, the
user's and billing's, and `OneHistory` lets a behaviour take its messages from one of them.

### Billing

The recurring profile of one user. A charge is four steps: `LockDueRenewals`, `Charge` (the call
to YooKassa), `Record` (`UpdatePaymentCreated`), `Conclude` (success, or retry and grace);
between any two of them the webhook of the same payment, a command of the user, a move of the
next charge or a crash may come. A webhook is two steps: its fingerprint is committed, then it is
processed; on an error the fingerprint is removed. The orders of a renewal are its attempts, as in
`renewal:<user>:<plan>:<attempt>`, which is also the idempotence key: YooKassa answers a
key it remembers (`KeyLife`) with the payment it has. `Fault` counts crashes, lost answers, failed
statements, duplicate deliveries and outages. `Tick` is free only when the program has nothing to
do: the workers run every minute and the calendar moves in steps of days; time that passes while
something is due is an outage, and counts as a fault. The clock waits for a pending renewal to be
settled while its key lives; without it YooKassa would make two payments of one key, which the
code cannot see. A checkout is answered with a payment to make (`Checkout`) or with one made already
(`CheckoutPaid`), which the handler processes at once although the webhook comes too.
`SubscriptionActivated` writes the end the event carries: one of `Terms` ahead. An
activation ends at least a period ahead of when it was made, so one nearer than that reached
billing late, which counts as a fault.

### CdnQuota

The rows of one user, one per node. `passed` is what really went through the node, `counter` what
its agent shows (a `Reinstall` sets it back to 0), `reports` what is on the way. A period has a
key, `cal:<month>` or `pay:<id>`. `ApplyNodeTraffic` (row, inbox and revoke in one transaction)
and a payment's reset are one action each; the calendar pass computes its key once (`BeginPass`)
and visits the rows one by one, resetting those in another period (`CalendarReset`) or going on
past those it has not listed or whose reset fails (`PassBy`); a listing that fails ends it
early (`EndPass`). A sync reads the exhausted nodes and publishes later, without a lock; when that
read fails, it takes every node for active (`ReadAs`). The payment's sync reads them through the
pool, so it sees the rows before its own reset. `settled` sums what the closed periods charged.

Commands have a revision, and two things are kept apart: `desired`, what the last command written
for a node says of the CDN profile, and `node`, what the node makes of the commands, ignoring those
whose revision is not newer (`reconcile_worker.go:13-14`). `rev` is the revision of the
subscription's row, raised by a payment (`Pay`) or another change (`Revise`); `credRev` that of the
credentials, raised by syncs and by the feed (`ServeFeed`). A sync carries the first
(`service.go:420`), the CDN revoke the second (`:747`). The user keeps his access throughout and has
credentials and profiles on every node, so the silent returns of `publishCDNRevoke` (`:716`, `:737`)
do not occur. `faults` counts lost counters and failed reads and resets.

`Reordering` lets reports of a node overtake each other; the runs set it to FALSE, since Kafka keeps
the order of one key; the theorems hold for both, but for `BytesChargedOnce`, which needs the order.

### Access

One user. His subscription is the environment, and it is `SubscriptionPromise`: whatever
`user-subscription` may do to his access (`Announce`, with an event, or `ChangeSilently`), and no
more, since `Subscription` is proved to keep the promise. An end of renewal and a grace carry
the revision the row had before, so two events may have one revision. The events wait in `events`; `ApplyTrialStarted` to `ApplySuspended` are the handlers, each with its projection, its
credentials and its commands in one transaction; a copy (`again`) is a redelivery after a crash, and
`DeadLetter` gives up an event the allocator has no node for. What acts on rows read before is two
actions: `ListActive` and `SyncListed` of a reconcile pass, `AskFeed` and `ServeFeed`. The
allocator is a definition (`Pick`): candidates by heartbeat, capacity and position, the user's
present node first, the score and its ties; a node's capacity, weight and country are constants. The
commands on the way to a node are a set: since `Outbox_order` shows that the outbox does
not keep the order of a key, and since it may send a row twice, `ReceiveCommand` takes any of
them, and leaves a copy when `again`. A node applies a command whose revision is newer than its own and
ignores others, as the comment in `reconcile_worker.go:13-14` says of the agent; it may lose a sync
(`LoseSync`) or everything (`Reinstall`). `stray` remembers nodes to which someone who did not know of
an end sent a sync after it, and nodes that were reinstalled after they had taken the revoke while an
older sync, overtaken by it, was still on its way.

### CryptoInvoice

A command's handler is three steps: `InsertInvoice` (the row, and the mark of the command, in one
transaction), the call to CryptoBot (`CallSucceeds`, `CallFails`; a lost answer is a call that
failed and an invoice that exists), and `MarkInvoiceActive` or `MarkInvoiceFailed`; `Abandon` is a
crash or an error in between, after which the redelivered command is ignored (`IgnoreDuplicate`).
`GrowOld` passes the threshold of `ProcessStuckCreatingInvoices`, while a handler works only
if `Slow`. A webhook is a body of an invoice: `RejectStale`, `ErrDuplicateWebhook`,
`SkipActivation`, `AcceptPayment` and a failure are the ways `ProcessWebhook` ends; without an answer
of 200 CryptoBot keeps the letter. Prices are whether there is one (`Priced`: static, fiat,
or a fresh rate).

## 3. Runs

Every cfg gives constants their values and nothing else. Deadlock checking is off everywhere:
each model has counters with a bound and legitimately stops when they are used up.

| Run | Bounds | Shows |
|---|---|---|
| `Outbox_all` | 3 events (two of one key), 2 publishers, batch 2, 2 attempts, all faults, unsorted | type, `ClaimedOnce`, `BoundedCopies`, `PublishedWasAccepted`, `DeadLetterAfterLastAttempt`, the refinement `PromiseKept`, `EveryEventSettles` (about 640,000 states) |
| `Outbox_order` (violated) | the same, batch 1, no faults | `KeyOrder`: two publishers reorder one key |
| `Outbox_lost` (violated) | crashes only | `NoLostEvents`: a row left in `processing` |
| `Consumer_all` | 2 workers, 2 offsets (one poisonous, one of every outcome), 2 attempts, 3 restarts or rebalances | `NothingPassedOver`, `OrderKept`, `AllAttemptsSpent`, `EveryMessageSettles` |
| `Consumer_lost` (violated) | 1 worker, no restart | `NothingLost`: a refused dead letter is committed over |
| `Subscription_all` | every command of the bot with one renewing payment and 2 referees, or payment → grace → end of access, end of renewal, a second payment and a trial; 1 crash, messages for 5 days, 13 days | `NoFreeTime`, `RenewsOrEnds`, `TermAnnounced`, `TermNeverShortened`, `PaidNotDemoted`, `AccessPromiseKept`, `LapsedEnds` (about 1,200,000 states) |
| `Subscription_lapse_silent` (violated) | a trial and a read | `LapseAnnounced`: a read expires the row and nobody is told |
| `Billing_all` | 1 checkout, 1 retry after 1, grace 1, period 4, lock timeout 1, key life 3, 3 payments, terms 0 and 5, 1 fault, 9 instants | `SomeWorkerPicksIt`, `OneRenewalAPeriod`, `PaidIsReported`, `RenewalEnds` (about 810,000 states) |
| `CdnQuota_all` | 1 node, 1 payment, limit 2, 3 bytes, 2 months, 2 revisions, 1 fault, 1 report on the way | `NoByteChargedTwice`, `ActiveHasQuotaLeft`, `BaselineWithinTotal`, `OnlyPeriodReopens`, `MonthCaughtUp`, `DesiredFollowsQuota` (about 780,000 states) |
| `CdnQuota_paid` (violated) | 1 month, limit 1, 1 byte, 2 revisions, no fault | `ResetRestoresCdn`: the sync of a payment leaves the CDN out, and the node ignores the later ones, which have its revision |
| `Access_all` | 2 nodes of one country, one with room for 1 and one for 2, an item each, 2 revisions, a trial and what may follow it, 2 events waiting in any order, another user, 1 upset (a copy, a loss, a reinstall, a change of the pool) or 2 events without a revision of their own, commands in any order, no overflow | `EndTakesEffect`, `ProvisionedWhileLive` (about 470,000 states) |
| `CryptoInvoice_all` | 1 checkout without a static price, 2 attempts, 3 bodies of webhooks, 2 faults, a slow handler | `ActivatedOnceForMoney`, `OneAnswer`, `EveryCheckoutAnswered`, `PaidIsActivated` (about 300,000 states) |

Why the bounds are enough to be interesting. Outbox: three events make one key with an order and
one without; two publishers meet on a row; two attempts have a retry and a last attempt. Consumer:
a poisonous message with a successor shows passing over; three faults allow a rebalance away, a
rebalance back and a restart. Subscription: five days hold a trial, a paid term, grace and their
ends, and the margins of the sweep differ; `LastMessage = 5` and the larger `MaxTime` let every
margin of the longest stack of days pass after the last message of billing. Billing: one retry makes two attempts and then grace;
a payment more than that allows a second charge in one period; a lock that grows old within the
key's life and a key that dies before the period ends keep the order the code's 30
minutes, 24 hours and a month have. `MCSpec` also starts where a paid checkout has run a period,
a state `Init` reaches, with that instant numbered 1 again (only differences of time matter), so that
the clock is spent on renewals; `Horizon` leaves a renewal time to end: the slowest one, pending twice
and then in grace, takes 8 instants, and with the clock stopped at 8 and a horizon of 7 the property
fails. Quota: the limit is below the
bytes, two months and a payment give three keys, a lost counter meets the report of before, and a payment's
revision meets syncs of the one before it. `OneHistory` of `MCCdnQuota` keeps a revision that is not
a payment's and a fault out of the same history: the first is about the commands, the second
mostly about the totals. In Billing a term of 0 and one of more than a period make the next charge
due at once and move it past the bound of a renewal. Access:
two revisions are a trial and any event after it, and an event that keeps the revision of its grant
(a cancellation, a grace) may come between; `OneHistory` leaves the pool and the nodes as they were,
and the feed unasked, where two such events happen; two nodes of one country, one of which the user
fills alone, make the allocator change its mind; without overflow a full country fails a grant until it
is dead-lettered. `CopiesMatter` takes copies of a command only while a reinstall may follow: without one
the node ignores the second, whose revision it has. That an end comes after a newer grant needs a third revision, which makes the
run too long: the theorem covers it. Crypto: one command, since commands share nothing but the
rates and the worker's pass; a failure, its repetition and a body of another kind need three bodies;
two faults are a crash of the handler and a failed transaction of the worker that makes up for it.

### Fairness

`Outbox`: publisher loops and the clock; not the environment: the broker may refuse every time.
`Consumer`: the loop of a worker goes on; the store answers now and then (a call that changes
nothing is a stutter); no outcome, restart or rebalance is assumed. `Subscription`: the sweep's
ticker and the clock; nothing of users, billing or consumers. `Billing`: the two tickers, YooKassa
settles what it has created and repeats a webhook until it is answered with 200, the clock moves;
nothing of the answers. `CdnQuota`: the two workers' tickers; nothing of nodes, users or the calendar,
nor that a read or a reset succeeds, of which `MaxFaults` may fail.
`Access`: the reconcile ticker, and a node takes the commands it has (a lost one is gone); nothing of
events, feeds or the administrator (`MCFairness` writes the fairness of `SyncListed` as that of its effect on
`listed`, which only `SyncListed` sets to 0 and which is possible whenever `listed` is not 0: the same
condition, cheaper to evaluate). `CryptoInvoice`: the consumer goes on with its command, the
worker of stuck invoices runs, time passes, and CryptoBot repeats a webhook until it is answered 200;
nothing of payers.
All of it is weak fairness: each of these is a loop over a ticker that the code never leaves
(`RunPublisher`, `RunExpirySweepWorker`, `RunRenewalScheduler`, `RunGraceExpirationWorker`,
`RunCDNQuotaWorker`, `RunReconcileWorker`, `RunStuckInvoicesWorker`).

## 4. Proofs

TLAPS proves, for every value of the constants that satisfies the modules' assumptions:

* `OutboxProofs`: `TypeCorrect`, `RowsClaimedOnce`, `CopiesBounded`, `PublishedAccepted`,
  `DeadLettersLast` and `KeepsPromise`. The invariant adds to the checked ones that a row which can be locked has an
  attempt left (`AttemptLeft`), that a row locked and not reached has an attempt no copy was sent for
  (`UnspentAttempt`), that a row whose publish was tried has spent one (`SpentAttempt`) and that a success
  still to be recorded is a copy the broker has (`AckedMark`). `ClaimedOnce` makes the rest inductive:
  no other publisher settles a row between the publish and its mark. The refinement follows step by
  step: a claim, a retry, a crash and a tick are stutters of the promise.
* `ConsumerProofs`: `ConsumerTypeCorrect`, `CommitsBehind`, `TriesBeforeDlt`, `PartitionOrder`. The
  invariant says that every message handed out before the position is settled or in some worker's
  hands (`HandedOut`), that what precedes the message in a worker's hands is settled
  (`SettledBefore`), that a worker about to commit has a settled message (`SettledDone`), that the
  attempt table never exceeds the real failures (`CountedFailures`) and that `giveUp` is reached with
  all of them or by a skip (`GivenUp`). `SettledBefore` is what survives a rebalance: the zombie's
  commit then covers only settled messages.
* `BillingProofs`: `BillingTypeCorrect`, `WorkersFindIt`. The invariant adds that the clock is not 0
  (0 stands for NULL, so a lock or date taken from the clock is never NULL) and that the scheduler's
  answer belongs to an existing payment. Each statement on the profile has a lemma that it leaves a
  row some worker can find, whatever row it is applied to: that is why no interleaving can break it.
* `BillingRenewalProofs`: `OneRenewal`. Two renewals within a period are a matter of time as much as of
  order, and the invariant (`Apart`, while no fault has happened) says why they are kept apart. A
  renewal is open while its period runs or its webhook is to come; at most one is (`OneOpen`). The
  scheduler in the middle of a charge is at that one (`JobPayment`, `JobAnswer`, `JobKnowsOpen`), and
  while one is open, or about to be, the profile is locked for it or is not due before a period has
  passed (`OpenHoldsProfile`, `ChargeHoldsProfile`). Below these, a webhook follows the settlement of its
  payment (`HooksInOrder`), a key has one payment while it lives (`KeysApart`), and an unanswered
  payment is in the table or in the scheduler's hands (`UnansweredKnown`). `PeriodsApart` is the
  property, of the payments that may yet be taken too.
* `SubscriptionProofs`: `SubscriptionTypeCorrect`, `TermKept`, `PaidKept`, `RenewalOrEnd`,
  `TermIsAnnounced`, `NoTimeForFree`, `AccessPromise`, `ImplementsPromise`. No strengthening is needed: each transaction of the repository
  has a lemma about any row it is given (what it does to the term, the status, the
  revision and the renewal), the locked read leaves a row alone or ends it, and a step of the
  specification is at most one of them. Since the row may be any row, neither the order of the two
  topics nor a redelivery matters. `TermIsAnnounced` is the one that is about two variables: a step
  either publishes the row it has written, or changes nothing the last announcement was about, or ends
  the term. `NoTimeForFree` needs to know what one more payment adds to the days granted, a sum
  over a set of payments: a payment that made the sum wrong would have a smallest set on which it is wrong, and
  the strict inclusion of finite sets is well-founded. `AccessPromise` maps each step to the action
  of `SubscriptionPromise` with the same event, or to a silent one; `ImplementsPromise` is the
  refinement. It is what `Access` assumes of its environment.
* `CdnQuotaProofs`: `QuotaTypeCorrect`, `QuotaLeft`, `BaselineWithin`, `ReopenedByPeriod`, and
  `BytesChargedOnce`, assuming `Reordering = FALSE`. The first four follow from one predicate per row,
  preserved by each SQL statement as a function of the row, and that an exhausted row exists.
  `NoByteChargedTwice` is not inductive, since it says nothing of the reports on the way. `NodeOK`
  adds a witness: a sequence of marks, one per report on the way, of what had passed through the node when it
  was written. What is charged, and what a report would add to it, stays within that report's mark
  (`Covers`), and from a report to any later one, and to the node's counter, the total grows at most
  as the marks do (`Marked`), which a lost counter can only help. A report applied in its
  turn drops the first mark; applied out of turn it could leave a mark behind that is
  too small, and TLC shows that it does, with two reports on the way.
* `AccessProofs`: `AccessTypeCorrect`, and `EndEffective`, assuming `MovesItems = FALSE`. The invariant
  is that items and credentials stay on their home nodes (`OnHome`), that a node which has the user
  or has a sync of him on its way is in a row of his credentials (`Recorded`), and that, once access has
  ended, a node which has the user, or an older sync on its way to it, also has that end's revoke on its way
  or has applied it (`EndPending`): as the commands are a set, neither their order nor a copy matters.
  `Recorded` is what lets `publishRevokeCommands` reach everyone, because rows of credentials are disabled and never
  deleted. Any number of revisions, copies, feeds, passes and nodes.
* `CryptoInvoiceProofs`: `CryptoTypeCorrect`, `ActivatedOnce`, `AnsweredOnce`. The invariant is a
  predicate of one command, `OrderOK`: before its row nothing has happened (`Untouched`), the row's
  status and the handler's place agree (`Working`), paid rows and events agree (`Money`), and the
  answers are those the status allows (`Answers`).

Only model-checked: all liveness (`EveryEventSettles`, `EveryMessageSettles`, `LapsedEnds`,
`PaidIsReported`, `RenewalEnds`, `MonthCaughtUp`, `DesiredFollowsQuota`, `ProvisionedWhileLive`,
`EveryCheckoutAnswered`, `PaidIsActivated`), which is out of this prover's reach. Every
other property of a passing run is a theorem.

## 5. What the code says and does not do

Shown by a run (the findings): order per key and no lost events of the outbox, the message refused
by the dead-letter topic, access that ends unannounced, the payment that does not restore the CDN.

The last one has two causes. `service.go:524-525` resets the quota before the sync so as not to read "the
state still exhausted", and reads it on another connection, where the reset is not committed yet: the sync
of the payment leaves the profile out. And the reconcile passes that follow write commands
of the same revision, which the node ignores. The second cause alone is enough elsewhere: two comments
contradict each other. `cdn_quota_worker.go:83-85` says that after a calendar reset "the next
pass puts the CDN profile into the desired state" and the access comes back; it does enter the
desired state (`DesiredFollowsQuota`), but `reconcile_worker.go:13-14` says that the agent ignores
a revision it has, and a reset gives none. If the second comment is right, the profile comes back with the
next revision only (a payment, a rotated token). The same goes for the revoke: it
carries the revision of the credentials (`service.go:747`), so a node that has taken that revision's sync
ignores it and an exhausted quota is not enforced there, unless the feed has raised the credentials
meanwhile. What the agent really does is in its own repository.

Known from reading, not a property of a run:

* `outbox/worker.go:68`: a row deferred behind an earlier one of its key spends an attempt in
  `LockPending` and becomes `failed` without a copy in `failed_messages`, although ADR 0001 sends every
  event there after 20 attempts.
* `user_subscription/expiry_sweep_worker.go:119`: the sweep suspends from its list without looking
  again; a payment in between is suspended, and a suspension in between is announced twice (ADR 0003:
  "one suspension rather than two").
* `referral_repository.go:135`: months redeemed in grace leave the status and `grace_until`; the access
  told as active ends with the grace.
* `service.go:589` (subscription): a grace is announced for a row that stayed expired. `service.go:439`:
  cancelling in grace promises access until a date that has passed. `CancelTx` (`repository.go:476`)
  leaves the revision of the grace alone, while `ApplyCanceled` (`vpn_orchestrator/service.go:533`)
  withdraws under it: the row is still in grace and reconcile goes on to sync that revision, which a
  node that applied the revoke ignores (`CanceledInGrace`).
* `user_subscription/kafka_handlers.go:206`: the message id is committed after the handler's
  transaction, not inside it as ADR 0001 says; a crash in between applies the message again.
* `vpn_orchestrator/service.go:382`: reconcile gives back, in the desired state, a CDN profile exhausted
  between its read and its command, until its next pass; so does a failed read of the exhausted nodes
  (`:388-392`), which is taken for "none is". `cdn_quota_repository.go:422`: the calendar job closes periods that
  payments opened in the same month. `:122`: part of a charge is lost when a lost counter
  shows less than was charged. `:264`: the uplink baseline is not moved by a reset. `:49`: a report
  that overtook another around the baseline is taken for a lost counter (`Reordering = TRUE`,
  with two reports on the way, violates `NoByteChargedTwice`); Kafka's order per key prevents it.
* `billing/service.go:818`: a lost answer is taken for a refusal, so the retry, under another key, may
  charge again, and the first payment's id is stored nowhere: its webhook is refused for ever.
* `billing/service.go:516`: a charge in flight that succeeds, or a late webhook of a reported payment,
  turns on the renewal its user has just disabled. `:860`: a late cancellation schedules a retry over a
  profile paid meanwhile. `repository.go:192`: `UpdateNextChargeAt` keeps `retry_count`, so the next
  cycle has fewer retries. `repository.go:570`: the end of grace is applied to a profile paid since
  its lock.
* `billing/service.go:409`: the fingerprint of a webhook is committed before it is processed. When the
  deletion after a failure fails too, or the process dies between, the next delivery is answered as a
  duplicate and the payment is reported to nobody, which the comment there means to prevent.
* `vpn_orchestrator/reconcile_worker.go:95`: a pass syncs from rows it has read before. A sync after
  an end, to a node the end did not revoke, gives back an access that nobody revokes; ADR 0003 says that the
  loop "can no longer resurrect access the sweep has revoked". `stray` in `EndTakesEffect` names these nodes; a resync
  by the administrator of a user whose access has ended is another way to one, and a sync that the outbox
  sends after the revoke, or twice, to a node reinstalled in between a third.
* `vpn_orchestrator/repository.go:954`: an item moved to another node leaves the user's account on
  the old one: the next grant overwrites the node in the row of credentials, and an end revokes the new node only.
  `MovesItems = TRUE` violates `EndTakesEffect`.
* `vpn_orchestrator/service.go:440`: a revoke is sent once, by the event of the end; a lost one is not
  repeated, while syncs are. A cancellation applied after its date withdraws with the revision it was granted
  with, and a node that has that revision from a sync ignores it.
* `vpn_orchestrator/allocator.go:95`: the count of `repository.go:268` includes the user's own seat, so
  the last user of a full node is taken for one it has no room for.
* `crypto_billing/service.go:167`: the error is returned "so that Kafka retries", but the command is
  already marked and the retry is ignored; the worker of stuck invoices answers the user. `service.go:271`: a
  webhook 15 minutes late is answered 200 and dropped, with the money taken. `pricing.go:99`: a command that never has
  a price is dead-lettered and the user hears nothing. `repository.go:98`: a handler slower than the
  threshold sends a link after the worker has sent a failure. No code sets the status `expired` of an
  invoice.

## 6. Not modelled, and why

* Telegram gateway: menus, texts and keyboards, and one chat's position in them. Its commands
  are the inputs of the models. Its only concurrency is `lockChat` against `cleanupChatLocks`
  (`tg_bot_gateway/app.go:51-85`): the cleanup may delete, after 10 idle minutes, a lock that an
  update has just looked up and not yet taken, and the next update of that chat gets another one. The
  state is written by one process and no other component reads it.
* Reminders and notifications: they read rows and send texts; a lost one changes no state a property
  is about. The reminder of the end (`reminder_worker.go:243`) selects trial and active rows once an
  hour, and the sweep expires them 15 minutes after their end: it is often never sent.
* The advisory lock of `cdn_quota_worker.go:64` is taken and released through the connection pool; which
  connection serves a call is the driver's choice, and a model would be of the driver. `CdnQuota` does
  not assume the lock.
* Two consumer groups on one topic share `consumer_attempts`, whose key has no group
  (`kafka/consumer.go:131`): a second group's failures can end the first one's retries early, and its `Reset`
  can prolong them. `AllAttemptsSpent` holds of one group.
* Outbox, topic, consumer and inbox are models of their own and not composed: what each promises to the
  next is a property of its module, and the inbox is a part of the handlers of `Subscription`, `Access`
  and `CryptoInvoice`, where its place in or after the transaction differs.
* Refunds and the binding of cards: sequences of calls to YooKassa on rows of their own.
* Rate limiter: a fixed window under one mutex at the edge of the system.
* The inbox's retention of 30 days, which matters only with the broker's; amounts and rates; feeds, routing files,
  transports, metrics, HTTP and logging, start-up and shutdown, deployment: rendering, configuration and I/O.
* The node agent lives in another repository: only the counters it reports and the commands it takes appear.

## 7. Running it

```
tlc -workers 4 -config Billing_all.cfg MCBilling     # a run: its cfg and its MC module
tlapm CdnQuotaProofs.tla                             # the proofs of a module
```
