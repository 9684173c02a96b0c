---------------------------- MODULE ConsumerProofs ----------------------------
(***************************************************************************)
(* Theorems about Consumer, for any workers, offsets, outcomes and faults.   *)
(*                                                                          *)
(* That nothing is committed over is not inductive: a commit moves the       *)
(* offset past whatever the committing worker holds, and a fetch moves the   *)
(* position past what the owner takes.  The invariant therefore says of      *)
(* every worker that all before the message in its hands is settled, and of  *)
(* the owner that all it has been handed is settled or still in its hands.   *)
(***************************************************************************)
EXTENDS Consumer, TLAPS

Busy == {"first", "retry", "giveUp"}

\* What the owner's reader has handed out is settled or in the owner's hands.
HandedOut ==
  \A o \in Offsets : o < position => Settled(o) \/ (held[owner] = o /\ pc[owner] \in Busy)

\* A worker takes a message up only when all before it is settled...
SettledBefore ==
  \A w \in Workers : pc[w] # "fetch" => \A o \in Offsets : o < held[w] => Settled(o)

\* ...and is done with it only when it is settled too.
SettledDone ==
  \A w \in Workers : pc[w] \in {"done", "stopped"} => Settled(held[w])

\* The attempt store never claims more failures than there were.
CountedFailures ==
  \A o \in Offsets : attempts[o] <= failures[o] \/ failures[o] = MaxAttempts

\* Giving up, by attempts or by ErrSkip.
GivenUp ==
  \A w \in Workers : pc[w] = "giveUp" =>
    failures[held[w]] = MaxAttempts \/ "skip" \in Outcomes[held[w]]

IInv ==
  /\ TypeOK
  /\ NothingPassedOver
  /\ HandedOut
  /\ SettledBefore
  /\ SettledDone
  /\ CountedFailures
  /\ GivenUp
  /\ AllAttemptsSpent

LEMMA InitIInv == Init => IInv
<1> SUFFICES ASSUME Init PROVE IInv
  OBVIOUS
<1>1. TypeOK
  BY ConsumerAssumption DEF Init, TypeOK, Offsets
<1>2. NothingPassedOver /\ HandedOut
  BY DEF Init, NothingPassedOver, HandedOut, Offsets
<1>3. SettledBefore /\ SettledDone /\ GivenUp
  BY DEF Init, SettledBefore, SettledDone, GivenUp
<1>4. CountedFailures /\ AllAttemptsSpent
  BY DEF Init, CountedFailures, AllAttemptsSpent
<1> QED
  BY <1>1, <1>2, <1>3, <1>4 DEF IInv

\* Nothing that is settled is ever unsettled: no step takes back an acceptance of the
\* handler or a dead letter.
LEMMA SettledStays ==
  ASSUME [Next]_vars
  PROVE  /\ applied \subseteq applied' /\ dlt \subseteq dlt' /\ refused \subseteq refused'
         /\ \A o : Settled(o) => Settled(o)'
<1>1. applied \subseteq applied' /\ dlt \subseteq dlt' /\ refused \subseteq refused'
  <2>1. CASE UNCHANGED vars
    BY <2>1 DEF vars, fateVars
  <2>2. ASSUME NEW w \in Workers, Loop(w)
        PROVE  applied \subseteq applied' /\ dlt \subseteq dlt' /\ refused \subseteq refused'
    BY <2>2 DEF Loop, Fetch, HandleOk, HandleError, Fails, SkipFirst, SkipRetry,
      GiveUpAccepted, GiveUpRefused, DltAccepts, DltRefuses, Commit, CommitFails, fateVars
  <2>3. ASSUME NEW w \in Workers, Restart(w) \/ Rebalance(w)
        PROVE  applied \subseteq applied' /\ dlt \subseteq dlt' /\ refused \subseteq refused'
    BY <2>3 DEF Restart, Rebalance, fateVars
  <2> QED
    BY <2>1, <2>2, <2>3 DEF Next
<1> QED
  BY <1>1 DEF Settled

\* The types, one action at a time.
LEMMA TypeStep == IInv /\ [Next]_vars => TypeOK'
<1> SUFFICES ASSUME IInv, [Next]_vars PROVE TypeOK'
  OBVIOUS
<1> USE ConsumerAssumption
<1>0. TypeOK
  BY DEF IInv
<1>a. \A w \in Workers : pc[w] # "fetch" => held[w] \in Offsets
  BY <1>0 DEF TypeOK, Offsets
<1>1. CASE UNCHANGED vars
  BY <1>0, <1>1 DEF TypeOK, vars, groupVars, workerVars, fateVars
<1>2. ASSUME NEW w \in Workers, Fetch(w) PROVE TypeOK'
  <2>1. position \in Offsets /\ position + 1 \in 1 .. LastOffset + 1
    BY <1>0, <1>2 DEF TypeOK, Fetch, Offsets
  <2>2. held' \in [Workers -> 0 .. LastOffset]
    BY <1>0, <1>2, <2>1 DEF TypeOK, Fetch, Offsets
  <2>3. /\ pc' \in [Workers -> {"fetch", "first", "retry", "giveUp", "done", "stopped"}]
        /\ \A v \in Workers : pc'[v] # "fetch" => held'[v] # 0
    BY <1>0, <1>2, <2>1 DEF TypeOK, Fetch, Goto, Offsets
  <2> QED
    BY <1>0, <1>2, <2>1, <2>2, <2>3 DEF TypeOK, Fetch, fateVars
<1>3. ASSUME NEW w \in Workers, HandleOk(w) PROVE TypeOK'
  <2>1. held[w] \in Offsets
    BY <1>a, <1>3 DEF HandleOk, Called
  <2> QED
    BY <1>0, <1>3, <2>1 DEF TypeOK, HandleOk, Called, Goto, groupVars
<1>4. ASSUME NEW w \in Workers, HandleError(w) PROVE TypeOK'
  <2>1. held[w] \in Offsets
    BY <1>a, <1>4 DEF HandleError, Fails, Called
  <2>2. attempts' \in [Offsets -> Nat]
    BY <1>0, <1>4, <2>1 DEF TypeOK, HandleError, Fails
  <2>3. failures' \in [Offsets -> 0 .. MaxAttempts]
    BY <1>0, <1>4, <2>1 DEF TypeOK, HandleError, Fails
  <2>4. pc' \in [Workers -> {"fetch", "first", "retry", "giveUp", "done", "stopped"}]
        /\ \A v \in Workers : pc'[v] # "fetch" => held'[v] # 0
    BY <1>0, <1>4 DEF TypeOK, HandleError, Fails, Called, Goto
  <2> QED
    BY <1>0, <1>4, <2>2, <2>3, <2>4 DEF TypeOK, HandleError, Fails, Called, groupVars
<1>5. ASSUME NEW w \in Workers, SkipFirst(w) \/ GiveUpAccepted(w) PROVE TypeOK'
  <2>1. held[w] \in Offsets
    BY <1>a, <1>5 DEF SkipFirst, GiveUpAccepted
  <2>2. dlt' \subseteq Offsets /\ refused' \subseteq Offsets
    BY <1>0, <1>5, <2>1 DEF TypeOK, SkipFirst, GiveUpAccepted, DltAccepts, DltRefuses
  <2> QED
    BY <1>0, <1>5, <2>2 DEF TypeOK, SkipFirst, GiveUpAccepted, Called, Goto, groupVars
<1>6. ASSUME NEW w \in Workers, SkipRetry(w) PROVE TypeOK'
  BY <1>0, <1>6 DEF TypeOK, SkipRetry, Called, Goto, groupVars, fateVars
<1>7. ASSUME NEW w \in Workers, GiveUpRefused(w) PROVE TypeOK'
  <2>1. held[w] \in Offsets
    BY <1>a, <1>7 DEF GiveUpRefused
  <2>2. dlt' \subseteq Offsets /\ refused' \subseteq Offsets
    BY <1>0, <1>7, <2>1 DEF TypeOK, GiveUpRefused, DltRefuses
  <2> QED
    BY <1>0, <1>7, <2>2 DEF TypeOK, GiveUpRefused, Continue, Goto, groupVars
<1>8. ASSUME NEW w \in Workers, Commit(w) \/ CommitFails(w) PROVE TypeOK'
  <2>1. held[w] \in Offsets
    BY <1>0, <1>8 DEF TypeOK, Commit, CommitFails, Offsets
  <2>2. attempts' \in [Offsets -> Nat]
    BY <1>0, <1>8 DEF TypeOK, Commit, CommitFails, Reset
  <2>3. committed' \in 1 .. LastOffset + 1
    BY <1>0, <1>8, <2>1 DEF TypeOK, Commit, CommitFails, Offsets
  <2> QED
    BY <1>0, <1>8, <2>2, <2>3 DEF TypeOK, Commit, CommitFails, Continue, Goto, groupVars,
      fateVars
<1>9. ASSUME NEW w \in Workers, Restart(w) \/ Rebalance(w) PROVE TypeOK'
  BY <1>0, <1>9 DEF TypeOK, Restart, Rebalance, Continue, Goto, workerVars, fateVars
<1> QED
  BY <1>1, <1>2, <1>3, <1>4, <1>5, <1>6, <1>7, <1>8, <1>9 DEF Next, Loop

\* What a worker does with the message in its hands: it keeps it until it is settled.
\* One fact per way pc can move, the only ones the later lemmas need.
LEMMA Moves ==
  ASSUME TypeOK, NEW w \in Workers, Loop(w) \/ Restart(w) \/ Rebalance(w)
  PROVE  /\ \A v \in Workers \ {w} : pc'[v] = pc[v] /\ held'[v] = held[v]
         /\ \/ pc'[w] = "fetch"
            \/ pc'[w] # "fetch" /\ pc[w] # "fetch" /\ held'[w] = held[w]
            \/ Fetch(w)
         /\ pc'[w] \in {"done", "stopped"} =>
              Settled(held[w])' \/ (pc[w] \in {"done", "stopped"} /\ held'[w] = held[w])
<1>1. CASE Fetch(w)
  BY <1>1 DEF TypeOK, Fetch, Goto
<1>2. CASE HandleOk(w)
  BY <1>2 DEF TypeOK, HandleOk, Called, Goto, Settled
<1>3. CASE HandleError(w)
  BY <1>3 DEF TypeOK, HandleError, Fails, Called, Goto
<1>4. CASE SkipFirst(w) \/ GiveUpAccepted(w)
  BY <1>4 DEF TypeOK, SkipFirst, GiveUpAccepted, DltAccepts, DltRefuses, Goto, Settled
<1>5. CASE SkipRetry(w)
  BY <1>5 DEF TypeOK, SkipRetry, Called, Goto
<1>6. CASE GiveUpRefused(w) \/ Commit(w)
  BY <1>6 DEF TypeOK, GiveUpRefused, Commit, Continue, Goto
<1>7. CASE CommitFails(w)
  BY <1>7 DEF TypeOK, CommitFails, Goto
<1>8. CASE Restart(w)
  BY <1>8 DEF TypeOK, Restart, Continue, Goto
<1>9. CASE Rebalance(w)
  BY <1>9 DEF TypeOK, Rebalance, workerVars
<1> QED
  BY <1>1, <1>2, <1>3, <1>4, <1>5, <1>6, <1>7, <1>8, <1>9 DEF Loop

LEMMA StepIInv == IInv /\ [Next]_vars => IInv'
<1> SUFFICES ASSUME IInv, [Next]_vars PROVE IInv'
  OBVIOUS
<1> USE ConsumerAssumption
<1>t. TypeOK /\ TypeOK'
  BY TypeStep DEF IInv
<1>s. \A o : Settled(o) => Settled(o)'
  BY SettledStays
<1>1. CASE UNCHANGED vars
  <2>1. pc' = pc /\ held' = held /\ owner' = owner /\ position' = position
        /\ committed' = committed /\ attempts' = attempts /\ failures' = failures
        /\ dlt' = dlt /\ refused' = refused
    BY <1>1 DEF vars, groupVars, workerVars, fateVars
  <2>2. NothingPassedOver' /\ HandedOut' /\ SettledBefore' /\ SettledDone'
    BY <1>s, <2>1 DEF IInv, NothingPassedOver, HandedOut, SettledBefore, SettledDone
  <2>3. CountedFailures' /\ GivenUp' /\ AllAttemptsSpent'
    BY <2>1 DEF IInv, CountedFailures, GivenUp, AllAttemptsSpent
  <2> QED
    BY <1>t, <2>2, <2>3 DEF IInv
<1>2. ASSUME NEW w \in Workers, Loop(w) \/ Restart(w) \/ Rebalance(w) PROVE IInv'
  <2> USE <1>2
  <2>m. /\ \A v \in Workers \ {w} : pc'[v] = pc[v] /\ held'[v] = held[v]
        /\ \/ pc'[w] = "fetch"
           \/ pc'[w] # "fetch" /\ pc[w] # "fetch" /\ held'[w] = held[w]
           \/ Fetch(w)
        /\ pc'[w] \in {"done", "stopped"} =>
             Settled(held[w])' \/ (pc[w] \in {"done", "stopped"} /\ held'[w] = held[w])
    BY <1>t, Moves
  \* A commit moves over a message that is settled and whose predecessors are.
  <2>1. NothingPassedOver'
    <3>1. CASE Commit(w)
      <4>1. committed' = held[w] + 1 /\ held[w] \in Offsets
        BY <1>t, <3>1 DEF TypeOK, Commit, Offsets
      <4>2. Settled(held[w]) /\ \A o \in Offsets : o < held[w] => Settled(o)
        BY <3>1 DEF IInv, SettledBefore, SettledDone, Commit
      <4>3. \A o \in Offsets : o < held[w] + 1 => o = held[w] \/ o < held[w]
        BY <4>1 DEF Offsets
      <4> QED
        BY <1>s, <4>1, <4>2, <4>3 DEF NothingPassedOver
    <3>2. CASE ~Commit(w)
      <4>1. committed' = committed
        BY <3>2 DEF Loop, Fetch, HandleOk, HandleError, Fails, SkipFirst, SkipRetry, Called,
          GiveUpAccepted, GiveUpRefused, CommitFails, Restart, Rebalance
      <4> QED
        BY <1>s, <4>1 DEF IInv, NothingPassedOver
    <3> QED
      BY <3>1, <3>2
  \* The owner lets a message go only when it is settled.
  <2>2. HandedOut'
    <3>1. CASE Fetch(w)
      <4>1. owner = w /\ owner' = w /\ position' = position + 1
            /\ held'[w] = position /\ pc'[w] = "first"
        BY <1>t, <3>1 DEF Fetch, Goto, TypeOK
      <4>2. \A o \in Offsets : o < position => Settled(o)
        BY <3>1, <4>1 DEF IInv, HandedOut, Fetch, Busy
      <4> QED
        BY <1>s, <1>t, <4>1, <4>2 DEF HandedOut, Busy, TypeOK, Offsets
    <3>2. CASE Restart(w) \/ Rebalance(w)
      <4>1. CASE position' = committed
        BY <1>s, <4>1 DEF IInv, NothingPassedOver, HandedOut
      <4>2. CASE position' # committed
        <5>1. owner' = owner /\ owner # w /\ position' = position
          BY <3>2, <4>2 DEF Restart, Rebalance
        <5>2. pc'[owner] = pc[owner] /\ held'[owner] = held[owner]
          BY <1>t, <2>m, <5>1 DEF TypeOK
        <5> QED
          BY <1>s, <5>1, <5>2 DEF IInv, HandedOut
      <4> QED
        BY <4>1, <4>2
    <3>3. CASE ~Fetch(w) /\ ~Restart(w) /\ ~Rebalance(w)
      <4>1. owner' = owner /\ position' = position
        BY <3>3 DEF Loop, HandleOk, HandleError, Fails, SkipFirst, SkipRetry, Called,
          GiveUpAccepted, GiveUpRefused, Commit, CommitFails, groupVars
      <4>2. pc[w] \in Busy =>
              \/ pc'[w] \in Busy /\ held'[w] = held[w]
              \/ held[w] \in applied' \cup dlt' \cup refused'
        <5>1. CASE HandleOk(w)
          BY <5>1 DEF HandleOk
        <5>2. CASE HandleError(w)
          BY <1>t, <5>2 DEF HandleError, Goto, TypeOK, Busy
        <5>3. CASE SkipFirst(w) \/ GiveUpAccepted(w) \/ GiveUpRefused(w)
          BY <5>3 DEF SkipFirst, GiveUpAccepted, GiveUpRefused, DltAccepts, DltRefuses
        <5>4. CASE SkipRetry(w)
          BY <1>t, <5>4 DEF SkipRetry, Goto, TypeOK, Busy
        <5>5. CASE Commit(w) \/ CommitFails(w)
          BY <5>5 DEF Commit, CommitFails, Busy
        <5> QED
          BY <3>3, <5>1, <5>2, <5>3, <5>4, <5>5 DEF Loop
      <4>3. CASE owner = w
        BY <1>s, <4>1, <4>2, <4>3 DEF IInv, HandedOut, Settled
      <4>4. CASE owner # w
        <5>1. pc'[owner] = pc[owner] /\ held'[owner] = held[owner]
          BY <1>t, <2>m, <4>4 DEF TypeOK
        <5> QED
          BY <1>s, <4>1, <5>1 DEF IInv, HandedOut
      <4> QED
        BY <4>3, <4>4
    <3> QED
      BY <3>1, <3>2, <3>3
  \* A fetch takes up the message after those handed out, which are all settled, since
  \* the owner holds none.
  <2>3. SettledBefore'
    <3>1. CASE Fetch(w)
      <4>1. held'[w] = position
        BY <1>t, <3>1 DEF Fetch, TypeOK
      <4>2. \A o \in Offsets : o < position => Settled(o)
        BY <3>1 DEF IInv, HandedOut, Fetch, Busy
      <4> QED
        BY <1>s, <2>m, <4>1, <4>2 DEF IInv, SettledBefore
    <3>2. CASE ~Fetch(w)
      BY <1>s, <2>m, <3>2 DEF IInv, SettledBefore
    <3> QED
      BY <3>1, <3>2
  <2>4. SettledDone'
    <3>1. CASE Fetch(w)
      <4>1. pc'[w] = "first"
        BY <1>t, <3>1 DEF Fetch, Goto, TypeOK
      <4> QED
        BY <1>s, <2>m, <4>1 DEF IInv, SettledDone
    <3>2. CASE ~Fetch(w)
      <4>1. ASSUME pc'[w] \in {"done", "stopped"} PROVE Settled(held[w])' /\ held'[w] = held[w]
        BY <1>s, <2>m, <3>2, <4>1 DEF IInv, SettledDone
      <4>2. ASSUME NEW v \in Workers, pc'[v] \in {"done", "stopped"}
            PROVE  held'[v] = held[v] /\ Settled(held[v])'
        BY <1>s, <2>m, <4>1, <4>2 DEF IInv, SettledDone
      <4> QED
        BY <4>2 DEF SettledDone, Settled
    <3> QED
      BY <3>1, <3>2
  \* Only a failed call raises a count, and it raises both.
  <2>5. CountedFailures'
    <3>1. CASE HandleError(w)
      <4>1. held[w] \in Offsets
        BY <1>t, <3>1 DEF TypeOK, HandleError, Fails, Called, Offsets
      <4>2. \A o \in Offsets \ {held[w]} : attempts'[o] = attempts[o] /\ failures'[o] = failures[o]
        BY <1>t, <3>1, <4>1 DEF TypeOK, HandleError, Fails
      <4>3. attempts'[held[w]] <= failures'[held[w]] \/ failures'[held[w]] = MaxAttempts
        BY <1>t, <3>1, <4>1 DEF IInv, CountedFailures, TypeOK, HandleError, Fails
      <4> QED
        BY <4>2, <4>3 DEF IInv, CountedFailures
    <3>2. CASE ~HandleError(w)
      <4>1. failures' = failures
        BY <3>2 DEF Loop, Fetch, HandleOk, SkipFirst, SkipRetry, GiveUpAccepted, GiveUpRefused,
          Commit, CommitFails, Restart, Rebalance, fateVars
      <4>2. attempts' = attempts \/ attempts' = [attempts EXCEPT ![held[w]] = 0]
        BY <3>2 DEF Loop, Fetch, HandleOk, SkipFirst, SkipRetry, GiveUpAccepted, GiveUpRefused,
          Commit, CommitFails, Reset, Restart, Rebalance
      <4>3. \A o \in Offsets : attempts'[o] <= attempts[o]
        BY <1>t, <4>2 DEF TypeOK
      <4> QED
        BY <1>t, <4>1, <4>3 DEF IInv, CountedFailures, TypeOK
    <3> QED
      BY <3>1, <3>2
  \* A worker gives up when the store has counted MaxAttempts, or on ErrSkip.
  <2>6. GivenUp'
    <3>1. CASE HandleError(w)
      <4>1. held' = held /\ held[w] \in Offsets
        BY <1>t, <3>1 DEF TypeOK, HandleError, Fails, Called, Offsets
      <4>2. \A o \in Offsets : failures[o] = MaxAttempts => failures'[o] = MaxAttempts
        BY <1>t, <3>1, <4>1 DEF TypeOK, HandleError, Fails
      <4>3. pc'[w] = "giveUp" => Counted(w) >= MaxAttempts
        BY <1>t, <3>1 DEF TypeOK, HandleError, Goto
      <4>4. Counted(w) >= MaxAttempts => failures'[held[w]] = MaxAttempts
        <5>1. CASE attempts' = attempts
          BY <1>t, <3>1, <4>1, <5>1 DEF Counted, TypeOK, HandleError, Fails
        <5>2. CASE attempts' # attempts
          BY <1>t, <2>5, <4>1, <5>2 DEF Counted, TypeOK, CountedFailures
        <5> QED
          BY <5>1, <5>2
      <4>5. \A v \in Workers : pc[v] = "giveUp" => held[v] \in Offsets
        BY <1>t DEF TypeOK, Offsets
      <4> QED
        BY <2>m, <4>1, <4>2, <4>3, <4>4, <4>5 DEF IInv, GivenUp
    <3>2. CASE ~HandleError(w)
      <4>1. failures' = failures
        BY <3>2 DEF Loop, Fetch, HandleOk, SkipFirst, SkipRetry, GiveUpAccepted, GiveUpRefused,
          Commit, CommitFails, Restart, Rebalance, fateVars
      <4>2. pc'[w] = "giveUp" =>
              held'[w] = held[w] /\ (pc[w] = "giveUp" \/ "skip" \in Outcomes[held[w]])
        <5>1. CASE SkipRetry(w)
          BY <5>1 DEF SkipRetry, Called
        <5>2. CASE Rebalance(w)
          BY <5>2 DEF Rebalance, workerVars
        <5>3. CASE ~SkipRetry(w) /\ ~Rebalance(w)
          BY <1>t, <3>2, <5>3 DEF TypeOK, Loop, Fetch, HandleOk, SkipFirst, GiveUpAccepted,
            GiveUpRefused, Commit, CommitFails, Restart, Continue, Goto
        <5> QED
          BY <5>1, <5>2, <5>3
      <4> QED
        BY <2>m, <4>1, <4>2 DEF IInv, GivenUp
    <3> QED
      BY <3>1, <3>2
  <2>7. AllAttemptsSpent'
    <3>1. \A o \in Offsets : failures[o] = MaxAttempts => failures'[o] = MaxAttempts
      BY <1>t DEF TypeOK, Loop, Fetch, HandleOk, HandleError, Fails, SkipFirst, SkipRetry,
        GiveUpAccepted, GiveUpRefused, Commit, CommitFails, Restart, Rebalance, fateVars
    <3>2. CASE SkipFirst(w) \/ GiveUpAccepted(w) \/ GiveUpRefused(w)
      <4>1. dlt' \cup refused' \subseteq dlt \cup refused \cup {held[w]}
        BY <3>2 DEF SkipFirst, GiveUpAccepted, GiveUpRefused, DltAccepts, DltRefuses
      <4>2. failures[held[w]] = MaxAttempts \/ "skip" \in Outcomes[held[w]]
        BY <3>2 DEF IInv, GivenUp, SkipFirst, Called, GiveUpAccepted, GiveUpRefused
      <4>3. held[w] \in Offsets /\ dlt \cup refused \subseteq Offsets
        <5>1. pc[w] # "fetch"
          BY <3>2 DEF SkipFirst, GiveUpAccepted, GiveUpRefused
        <5>2. held[w] \in 0 .. LastOffset /\ held[w] # 0
          BY <1>t, <5>1 DEF TypeOK
        <5>3. held[w] \in Offsets
          BY <5>2, ConsumerAssumption DEF Offsets
        <5> QED
          BY <1>t, <5>3 DEF TypeOK
      <4> QED
        BY <3>1, <4>1, <4>2, <4>3 DEF IInv, AllAttemptsSpent
    <3>3. CASE ~(SkipFirst(w) \/ GiveUpAccepted(w) \/ GiveUpRefused(w))
      <4>1. dlt' = dlt /\ refused' = refused
        BY <3>3 DEF Loop, Fetch, HandleOk, HandleError, Fails, SkipRetry, Commit, CommitFails,
          Restart, Rebalance, fateVars
      <4> QED
        BY <1>t, <3>1, <4>1 DEF IInv, AllAttemptsSpent, TypeOK
    <3> QED
      BY <3>2, <3>3
  <2> QED
    BY <1>t, <2>1, <2>2, <2>3, <2>4, <2>5, <2>6, <2>7 DEF IInv
<1> QED
  BY <1>1, <1>2 DEF Next

------------------------------------------------------------------------------
LEMMA Invariance == Spec => []IInv
  BY InitIInv, StepIInv, PTL DEF Spec

\* The variables keep their types, for any number of workers, offsets and faults.
THEOREM ConsumerTypeCorrect == Spec => []TypeOK
<1>1. IInv => TypeOK
  BY DEF IInv
<1> QED
  BY <1>1, Invariance, PTL

\* Nothing is committed over: RunConsumerWithDLT commits a message only after the
\* handler has accepted it or its dead letter has been tried, and all before it.
THEOREM CommitsBehind == Spec => []NothingPassedOver
<1>1. IInv => NothingPassedOver
  BY DEF IInv
<1> QED
  BY <1>1, Invariance, PTL

\* A message that was not skipped is given up only after MaxAttempts failed calls.
THEOREM TriesBeforeDlt == Spec => []AllAttemptsSpent
<1>1. IInv => AllAttemptsSpent
  BY DEF IInv
<1> QED
  BY <1>1, Invariance, PTL

\* The retry in place keeps the order of the partition.
THEOREM PartitionOrder == Spec => OrderKept
<1>1. IInv /\ [Next]_vars => [\A o \in applied' \ applied : \A p \in Offsets : p < o => Settled(p)]_vars
  <2> SUFFICES ASSUME IInv, [Next]_vars, NEW o \in applied' \ applied, NEW p \in Offsets, p < o
               PROVE  Settled(p)
    OBVIOUS
  <2>1. PICK w \in Workers : HandleOk(w)
    BY DEF Next, Loop, Fetch, HandleError, Fails, SkipFirst, SkipRetry, GiveUpAccepted,
      GiveUpRefused, Commit, CommitFails, Restart, Rebalance, vars, fateVars
  <2>2. o = held[w] /\ pc[w] # "fetch"
    BY <2>1 DEF HandleOk, Called
  <2> QED
    BY <2>2 DEF IInv, SettledBefore
<1> QED
  BY <1>1, Invariance, PTL DEF Spec, OrderKept

=============================================================================
