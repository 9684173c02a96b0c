------------------------------- MODULE Consumer -------------------------------
(***************************************************************************)
(* The consumer loop of internal/common/kafka, RunConsumerWithDLT, which     *)
(* every service runs in several goroutines over each of its topics: one     *)
(* partition of a topic and the workers of one consumer group.               *)
(*                                                                          *)
(* The handler is abstract: a message is offered to it again and again, and  *)
(* each call ends in one of the outcomes of that message.  The broker's side *)
(* (the owner of the partition, the committed offset, redelivery from it)    *)
(* and the reader's are an external library, modelled as far as the loop     *)
(* sees them.  Pauses, metrics, a failing FetchMessage, which the loop just  *)
(* repeats, and a consumer without a dead-letter topic, which no service     *)
(* runs, are left out.                                                       *)
(***************************************************************************)
EXTENDS Naturals

CONSTANTS
  Workers,      \* readers of the consumer group
  LastOffset,   \* the partition holds the offsets 1 .. LastOffset
  Outcomes,     \* what the handler may return for each offset
  MaxAttempts,  \* 20: attempts before the dead-letter topic
  MaxFaults     \* bound: restarts and rebalances

Offsets == 1 .. LastOffset

ASSUME ConsumerAssumption ==
  /\ LastOffset \in Nat
  /\ Outcomes \in [Offsets -> SUBSET {"ok", "error", "skip"}]
  /\ MaxAttempts \in Nat \ {0}
  /\ MaxFaults \in Nat

VARIABLES
  owner,      \* the worker the partition is assigned to
  position,   \* the offset FetchMessage hands to the owner next
  committed,  \* the offset the group resumes from
  pc,         \* where each worker is in the loop
  held,       \* the message it works on
  attempts,   \* the table consumer_attempts
  failures,   \* failed calls of the handler for each offset, counted to MaxAttempts
  applied,    \* offsets the handler has accepted
  dlt,        \* offsets with a copy in the dead-letter topic
  refused,    \* offsets whose copy the dead-letter topic did not acknowledge
  faults      \* restarts and rebalances so far

groupVars == <<owner, position, faults>>
workerVars == <<pc, held>>
fateVars == <<failures, applied, dlt, refused>>
vars == <<groupVars, committed, workerVars, attempts, fateVars>>

TypeOK ==
  /\ owner \in Workers
  /\ position \in 1 .. LastOffset + 1
  /\ committed \in 1 .. LastOffset + 1
  /\ pc \in [Workers -> {"fetch", "first", "retry", "giveUp", "done", "stopped"}]
  /\ held \in [Workers -> 0 .. LastOffset]
  /\ \A w \in Workers : pc[w] # "fetch" => held[w] # 0
  /\ attempts \in [Offsets -> Nat]
  /\ failures \in [Offsets -> 0 .. MaxAttempts]
  /\ applied \subseteq Offsets /\ dlt \subseteq Offsets /\ refused \subseteq Offsets
  /\ faults \in 0 .. MaxFaults

Init ==
  /\ owner \in Workers
  /\ position = 1
  /\ committed = 1
  /\ pc = [w \in Workers |-> "fetch"]
  /\ held = [w \in Workers |-> 0]
  /\ attempts = [o \in Offsets |-> 0]
  /\ failures = [o \in Offsets |-> 0]
  /\ applied = {} /\ dlt = {} /\ refused = {}
  /\ faults = 0

------------------------------------------------------------------------------
Goto(w, place) == pc' = [pc EXCEPT ![w] = place]

\* continue: the message is local to one turn of the loop, as is its attemptCount,
\* which decides between "retry" and "giveUp" at once.
Continue(w) ==
  /\ Goto(w, "fetch")
  /\ held' = [held EXCEPT ![w] = 0]

\* The handler is called for the message w holds and returns outcome.
Called(w, outcome) ==
  /\ pc[w] \in {"first", "retry"}
  /\ outcome \in Outcomes[held[w]]
  /\ UNCHANGED <<groupVars, committed>>

Fetch(w) ==
  /\ pc[w] = "fetch"
  /\ owner = w
  /\ position <= LastOffset
  /\ held' = [held EXCEPT ![w] = position]
  /\ position' = position + 1
  /\ Goto(w, "first")
  /\ UNCHANGED <<owner, faults, committed, attempts, fateVars>>

HandleOk(w) ==
  /\ Called(w, "ok")
  /\ applied' = applied \cup {held[w]}
  /\ Goto(w, "done")
  /\ UNCHANGED <<held, attempts, failures, dlt, refused>>

\* Mutant of Fails: the attempt store does not count.
FailsUncounted(w) ==
  /\ Called(w, "error")
  /\ failures' = [failures EXCEPT ![held[w]] = IF @ < MaxAttempts THEN @ + 1 ELSE @]
  /\ UNCHANGED <<attempts, applied, dlt, refused>>

\* A failed call is counted by the attempt store, whose Inc answers 1 when the
\* database does not.
Fails(w) ==
  /\ Called(w, "error")
  /\ failures' = [failures EXCEPT ![held[w]] = IF @ < MaxAttempts THEN @ + 1 ELSE @]
  /\ attempts' \in {attempts, [attempts EXCEPT ![held[w]] = @ + 1]}
  /\ UNCHANGED <<applied, dlt, refused>>

\* The number Inc has answered.
Counted(w) == IF attempts' = attempts THEN 1 ELSE attempts'[held[w]]

\* Mutant of HandleError: pause and continue, back to FetchMessage.
HandleErrorMovesOn(w) ==
  /\ Fails(w)
  /\ IF Counted(w) >= MaxAttempts
       THEN Goto(w, "giveUp") /\ UNCHANGED held
       ELSE Continue(w)

\* Mutant of HandleError: the threshold is one attempt short.
HandleErrorGivesUpEarly(w) ==
  /\ Fails(w)
  /\ Goto(w, IF Counted(w) + 1 >= MaxAttempts THEN "giveUp" ELSE "retry")
  /\ UNCHANGED held

\* The same message again, in place, until the attempts are spent.
HandleError(w) ==
  /\ Fails(w)
  /\ Goto(w, IF Counted(w) >= MaxAttempts THEN "giveUp" ELSE "retry")
  /\ UNCHANGED held

\* publishDLT.  A copy whose acknowledgement is late counts as refused.
DltAccepts(w) ==
  /\ dlt' = dlt \cup {held[w]}
  /\ UNCHANGED refused

DltRefuses(w) ==
  /\ refused' = refused \cup {held[w]}
  /\ dlt' \in {dlt, dlt \cup {held[w]}}

\* ErrSkip of the first call: whatever publishDLT returns, the offset is committed.
SkipFirst(w) ==
  /\ pc[w] = "first"
  /\ Called(w, "skip")
  /\ DltAccepts(w) \/ DltRefuses(w)
  /\ Goto(w, "done")
  /\ UNCHANGED <<held, attempts, failures, applied>>

\* ErrSkip of a later call ends the retries.
SkipRetry(w) ==
  /\ pc[w] = "retry"
  /\ Called(w, "skip")
  /\ Goto(w, "giveUp")
  /\ UNCHANGED <<held, attempts, fateVars>>

GiveUpAccepted(w) ==
  /\ pc[w] = "giveUp"
  /\ DltAccepts(w)
  /\ Goto(w, "done")
  /\ UNCHANGED <<groupVars, committed, held, attempts, failures, applied>>

\* "keeping offset uncommitted", and continue: the next FetchMessage.
GiveUpRefused(w) ==
  /\ pc[w] = "giveUp"
  /\ DltRefuses(w)
  /\ Continue(w)
  /\ UNCHANGED <<groupVars, committed, attempts, failures, applied>>

\* Reset, whose error is ignored.
Reset(w) == attempts' \in {attempts, [attempts EXCEPT ![held[w]] = 0]}

\* Mutant of Commit: the offset of the message that follows.
CommitOneMore(w) ==
  /\ pc[w] = "done"
  /\ Reset(w)
  /\ committed' = held[w] + 2
  /\ Continue(w)
  /\ UNCHANGED <<groupVars, fateVars>>

\* CommitMessages, accepted by the broker from any live member of the group, also
\* one that has lost the partition meanwhile.
Commit(w) ==
  /\ pc[w] = "done"
  /\ Reset(w)
  /\ committed' = held[w] + 1
  /\ Continue(w)
  /\ UNCHANGED <<groupVars, fateVars>>

\* An error of CommitMessages ends the loop; the reader stays in the group.
CommitFails(w) ==
  /\ pc[w] = "done"
  /\ Reset(w)
  /\ Goto(w, "stopped")
  /\ UNCHANGED <<groupVars, committed, held, fateVars>>

\* The process of w is restarted.
Restart(w) ==
  /\ faults < MaxFaults
  /\ faults' = faults + 1
  /\ position' = IF owner = w THEN committed ELSE position
  /\ Continue(w)
  /\ UNCHANGED <<owner, committed, attempts, fateVars>>

\* The group gives the partition to w, which resumes from the committed offset; the
\* worker that had it goes on with the message in its hands.
Rebalance(w) ==
  /\ faults < MaxFaults
  /\ faults' = faults + 1
  /\ owner' = w
  /\ position' = committed
  /\ UNCHANGED <<committed, workerVars, attempts, fateVars>>

Loop(w) ==
  \/ Fetch(w) \/ HandleOk(w) \/ HandleError(w) \/ SkipFirst(w) \/ SkipRetry(w)
  \/ GiveUpAccepted(w) \/ GiveUpRefused(w) \/ Commit(w) \/ CommitFails(w)

Next == \E w \in Workers : Loop(w) \/ Restart(w) \/ Rebalance(w)

Spec == Init /\ [][Next]_vars

\* A goroutine goes on, and the attempt store answers now and then: a call that
\* changes nothing is no step.  No outcome of a handler, a publish or a commit is
\* assumed, and no restart.
Fairness == \A w \in Workers : WF_vars(Loop(w))

FairSpec == Spec /\ Fairness

------------------------------------------------------------------------------
(* Properties.                                                               *)

\* The handler has accepted o, or the loop has tried to dead-letter it.
Settled(o) == o \in applied \cup dlt \cup refused

\* No offset is committed over: whatever lies before the committed offset was accepted
\* by the handler or offered to the dead-letter topic, through restarts, rebalances
\* and the commits of a worker that no longer owns the partition.
NothingPassedOver == \A o \in Offsets : o < committed => Settled(o)

\* "Порядок в партиции сохраняется": the handler accepts a message for the first time
\* only when every earlier one of the partition is settled.
OrderKept ==
  [][\A o \in applied' \ applied : \A p \in Offsets : p < o => Settled(p)]_vars

\* A message that was not skipped is given up only after MaxAttempts failed calls,
\* however restarts and lost writes of the attempt store divide them.
AllAttemptsSpent ==
  \A o \in dlt \cup refused : "skip" \notin Outcomes[o] => failures[o] = MaxAttempts

\* A poisonous message does not hold the partition for ever: unless the owner's loop
\* ends up stopped, every message is settled.
EveryMessageSettles ==
  <>[](pc[owner] # "stopped") => \A o \in Offsets : <>Settled(o)

------------------------------------------------------------------------------
(* A statement of the comments the code does not keep.                       *)

\* "Коммитим ТОЛЬКО если сообщение реально легло в DLT": no message ends before the
\* committed offset without being accepted by the handler or the dead-letter topic.
NothingLost == \A o \in Offsets : o < committed => o \in applied \cup dlt

=============================================================================
