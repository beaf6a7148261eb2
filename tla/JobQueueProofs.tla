--------------------------- MODULE JobQueueProofs ---------------------------
(* Proofs about JobQueue, for every set of jobs and workers. *)
EXTENDS JobQueue, TLAPS

USE ConstantsAssumption, NoLeaseAssumption

\* A lease is only ever compared with NoLease or used as a record.
LEMMA LeaseFields ==
  ASSUME NEW l \in Lease
  PROVE  /\ l.job \in Jobs /\ l.lockedBy \in WorkerIds
         /\ l.attempt \in Nat /\ l.max \in Nat /\ l # NoLease
BY DEF Lease

\* A worker that executes has a well-formed lease, on a well-formed row.
LEMMA ExecutingLease ==
  ASSUME TypeOK, NEW w \in Workers, phase[w] = "executing"
  PROVE  /\ lease[w] \in Lease /\ lease[w] # NoLease
         /\ lease[w].job \in Jobs /\ jobs[lease[w].job] \in Job
         /\ lease[w].attempt \in Nat /\ lease[w].max \in Nat
         /\ jobs[lease[w].job].attempt \in Nat /\ jobs[lease[w].job].max \in Nat
<1>1. lease[w] \in Lease
  BY DEF TypeOK
<1>2. lease[w].job \in Jobs /\ jobs[lease[w].job] \in Job
  BY <1>1, LeaseFields DEF TypeOK
<1> QED BY <1>1, <1>2, LeaseFields DEF Job

\* What a transition does to a row.
LEMMA UnlockedRow ==
  ASSUME NEW row \in Job, NEW s \in Status \ {"running"}
  PROVE  /\ Unlocked(row, s) \in Job
         /\ Unlocked(row, s).status = s
         /\ Unlocked(row, s).attempt = row.attempt
         /\ Unlocked(row, s).max = row.max
         /\ Unlocked(row, s).lockedBy = NoWorker
         /\ Unlocked(row, s).stale = FALSE
BY DEF Unlocked, Job

LEMMA DelayedRow ==
  ASSUME NEW row \in Job, NEW m \in Nat
  PROVE  /\ Delayed(row, m) \in Job
         /\ Delayed(row, m).status = "queued"
         /\ Delayed(row, m).attempt = row.attempt
         /\ Delayed(row, m).max = m
         /\ Delayed(row, m).lockedBy = NoWorker
         /\ Delayed(row, m).stale = FALSE
BY DEF Delayed, Unlocked, Job, Status

LEMMA TypeInit == Init => TypeOK
BY DEF Init, TypeOK, Job, Status, Terminal

\* Every step of the queue preserves the type invariant.
LEMMA TypeStep == TypeOK /\ [Next]_vars => TypeOK'
<1> SUFFICES ASSUME TypeOK, [Next]_vars PROVE TypeOK'
  OBVIOUS
<1> USE DEF TypeOK, Status, Terminal
<1>1. ASSUME NEW j \in Jobs, Enqueue(j) PROVE TypeOK'
  BY <1>1 DEF Enqueue, Job
<1>2. ASSUME NEW j \in Jobs, BecomeDue(j) PROVE TypeOK'
  BY <1>2 DEF BecomeDue, Arrives, DueJobs, Job
<1>3. ASSUME NEW j \in Jobs, BecomeStale(j) PROVE TypeOK'
  BY <1>3 DEF BecomeStale, Job
<1>4. ASSUME NEW w \in Workers, NEW j \in Jobs, ClaimNext(w, j) PROVE TypeOK'
  BY <1>4 DEF ClaimNext, Lease, Job
<1>5. ASSUME NEW w \in Workers, NoJobClaimed(w) PROVE TypeOK'
  BY <1>5 DEF NoJobClaimed
<1>6. ASSUME NEW w \in Workers, MarkSucceeded(w) PROVE TypeOK'
  BY <1>6, ExecutingLease, UnlockedRow DEF MarkSucceeded, Executing, LeaseMatches, Settle
<1>7. ASSUME NEW w \in Workers, NEW retryable \in BOOLEAN, MarkFailed(w, retryable)
      PROVE TypeOK'
  <2> DEFINE j == lease[w].job
  <2>1. j \in Jobs /\ jobs[j] \in Job /\ jobs[j].max \in Nat
    BY <1>7, ExecutingLease DEF MarkFailed, Executing
  <2>2. \/ jobs' = [jobs EXCEPT ![j] = Unlocked(@, "failed")] /\ earlier' = earlier
        \/ jobs' = [jobs EXCEPT ![j] = Delayed(@, @.max)] /\ Leaves(j)
    BY <1>7, Zenon DEF MarkFailed
  <2>3. lease' = [lease EXCEPT ![w] = NoLease] /\ phase' = [phase EXCEPT ![w] = "idle"]
        /\ sweep' = sweep
    BY <1>7, Zenon DEF MarkFailed, Settle
  <2>4. CASE jobs' = [jobs EXCEPT ![j] = Unlocked(@, "failed")] /\ earlier' = earlier
    BY <2>1, <2>3, <2>4, UnlockedRow
  <2>5. CASE jobs' = [jobs EXCEPT ![j] = Delayed(@, @.max)] /\ Leaves(j)
    <3>1. Delayed(jobs[j], jobs[j].max) \in Job
      BY <2>1, DelayedRow
    <3>2. jobs' \in [Jobs -> Job]
      BY <2>1, <2>5, <3>1
    <3>3. earlier' \in [Jobs -> SUBSET Jobs]
      BY <2>1, <2>5 DEF Leaves
    <3> QED BY <2>3, <3>2, <3>3
  <2> QED BY <2>2, <2>4, <2>5
<1>8. ASSUME NEW w \in Workers, Recover(w) PROVE TypeOK'
  <2>1. PICK m \in (lease[w].attempt + 1) .. AttemptCap : MarkFailedWithRecovery(w, m)
    BY <1>8 DEF Recover
  <2>2. /\ lease[w].job \in Jobs /\ lease[w].attempt \in Nat
        /\ jobs[lease[w].job] \in Job /\ m \in Nat
    BY <1>8, ExecutingLease DEF Recover
  <2> QED BY <2>1, <2>2, DelayedRow DEF MarkFailedWithRecovery, Settle, Leaves
<1>9. ASSUME NEW w \in Workers, ExhaustActivation(w) PROVE TypeOK'
  BY <1>9, ExecutingLease, UnlockedRow DEF ExhaustActivation, Executing, LeaseMatches, Settle
<1>10. ASSUME NEW w \in Workers, AbandonStaleLease(w) PROVE TypeOK'
  BY <1>10 DEF AbandonStaleLease, Settle
<1>11. ASSUME NEW w \in Workers, BeginSweep(w) PROVE TypeOK'
  <2>1. {LeaseOf(j) : j \in {k \in Jobs : ExpiredOut(k)}} \in SUBSET Lease
    BY DEF LeaseOf, ExpiredOut, Lease, Job
  <2> QED BY <1>11, <2>1 DEF BeginSweep
<1>12. ASSUME NEW w \in Workers, NEW l \in sweep[w], SweepExhaust(w, l) PROVE TypeOK'
  BY <1>12, LeaseFields, UnlockedRow DEF SweepExhaust
<1>13. ASSUME NEW w \in Workers, NEW l \in sweep[w], SweepError(w, l) PROVE TypeOK'
  BY <1>13 DEF SweepError
<1>14. ASSUME NEW w \in Workers, SweepRequeue(w) PROVE TypeOK'
  BY <1>14, UnlockedRow DEF SweepRequeue
<1>15. ASSUME NEW w \in Workers, AbandonCycle(w) PROVE TypeOK'
  BY <1>15 DEF AbandonCycle
<1>16. CASE UNCHANGED vars
  BY <1>16 DEF vars
<1> QED
  BY <1>1, <1>2, <1>3, <1>4, <1>5, <1>6, <1>7, <1>8, <1>9, <1>10, <1>11, <1>12,
     <1>13, <1>14, <1>15, <1>16 DEF Next, SweepStep, PollStep, SettleStep

-----------------------------------------------------------------------------
(* The inductive invariant *)

\* The worker w ends the attempt it owns, and its job's row becomes row.
SettlesWith(w, row) ==
  /\ phase[w] = "executing" /\ LeaseMatches(lease[w])
  /\ jobs' = [jobs EXCEPT ![lease[w].job] = row]
  /\ row.status \notin {"running", "absent"}
  /\ row.attempt = jobs[lease[w].job].attempt
  /\ row.attempt <= row.max /\ row.max <= AttemptCap
  /\ row.status = "queued" => row.attempt < row.max
  /\ row.status # "queued" => row.max = jobs[lease[w].job].max
  /\ lease' = [lease EXCEPT ![w] = NoLease]
  /\ phase' = [phase EXCEPT ![w] = "idle"]
  /\ sweep' = sweep

\* Success, failure, retry, recovery and exhaustion all have that shape.
LEMMA SettlingSteps ==
  ASSUME IInv, NEW w \in Workers,
         \/ MarkSucceeded(w)
         \/ \E retryable \in BOOLEAN : MarkFailed(w, retryable)
         \/ Recover(w)
         \/ ExhaustActivation(w)
  PROVE  \E row \in Job : SettlesWith(w, row)
<1> DEFINE j == lease[w].job
<1>1. phase[w] = "executing" /\ TypeOK
  BY DEF IInv, MarkSucceeded, MarkFailed, Recover, ExhaustActivation, Executing
<1>2. /\ j \in Jobs /\ jobs[j] \in Job
      /\ lease[w].attempt \in Nat /\ lease[w].max \in Nat /\ lease[w] # NoLease
      /\ jobs[j].attempt \in Nat /\ jobs[j].max \in Nat
  BY <1>1, ExecutingLease
<1>3. jobs[j].attempt <= jobs[j].max /\ jobs[j].max <= AttemptCap
  BY <1>2 DEF IInv, RowInv
<1>4. "succeeded" \in Status \ {"running"} /\ "failed" \in Status \ {"running"}
  BY DEF Status, Terminal
<1>5. CASE MarkSucceeded(w)
  <2>1. Unlocked(jobs[j], "succeeded") \in Job /\ SettlesWith(w, Unlocked(jobs[j], "succeeded"))
    BY <1>1, <1>2, <1>3, <1>4, <1>5, UnlockedRow
          DEF MarkSucceeded, Executing, Settle, SettlesWith
  <2> QED BY <2>1
<1>6. CASE ExhaustActivation(w)
  <2>1. Unlocked(jobs[j], "failed") \in Job /\ SettlesWith(w, Unlocked(jobs[j], "failed"))
    BY <1>1, <1>2, <1>3, <1>4, <1>6, UnlockedRow
          DEF ExhaustActivation, Executing, Settle, SettlesWith
  <2> QED BY <2>1
<1>7. ASSUME NEW retryable \in BOOLEAN, MarkFailed(w, retryable)
      PROVE  \E row \in Job : SettlesWith(w, row)
  <2>1. /\ LeaseMatches(lease[w])
        /\ lease' = [lease EXCEPT ![w] = NoLease]
        /\ phase' = [phase EXCEPT ![w] = "idle"]
        /\ sweep' = sweep
    BY <1>7, Zenon DEF MarkFailed, Executing, Settle
  <2>2. CASE Exhausted(lease[w], retryable)
    <3>1. jobs' = [jobs EXCEPT ![j] = Unlocked(jobs[j], "failed")]
      BY <1>7, <2>2, Zenon DEF MarkFailed
    <3>2. Unlocked(jobs[j], "failed") \in Job /\ SettlesWith(w, Unlocked(jobs[j], "failed"))
      BY <1>1, <1>2, <1>3, <1>4, <2>1, <3>1, UnlockedRow DEF SettlesWith
    <3> QED BY <3>2
  <2>3. CASE ~Exhausted(lease[w], retryable)
    <3>1. jobs' = [jobs EXCEPT ![j] = Delayed(jobs[j], jobs[j].max)]
      BY <1>7, <2>3, Zenon DEF MarkFailed
    <3>2. lease[w].attempt = jobs[j].attempt /\ lease[w].max = jobs[j].max
      BY <1>2, <2>1 DEF IInv, LeaseInv, LeaseMatches
    <3>3. ~(lease[w].attempt >= lease[w].max)
      BY <2>3, Zenon DEF Exhausted
    <3>4. jobs[j].attempt < jobs[j].max
      BY <1>2, <3>2, <3>3
    <3>5. Delayed(jobs[j], jobs[j].max) \in Job /\ SettlesWith(w, Delayed(jobs[j], jobs[j].max))
      BY <1>1, <1>2, <1>3, <2>1, <3>1, <3>4, DelayedRow DEF SettlesWith
    <3> QED BY <3>5
  <2> QED BY <2>2, <2>3
<1>8. CASE Recover(w)
  <2>1. PICK m \in (lease[w].attempt + 1) .. AttemptCap : MarkFailedWithRecovery(w, m)
    BY <1>8 DEF Recover
  <2>2. m \in Nat /\ lease[w].attempt < m /\ m <= AttemptCap
    BY <1>2
  <2>3. lease[w].attempt = jobs[j].attempt
    BY <2>1 DEF MarkFailedWithRecovery, Executing, LeaseMatches
  <2>4. /\ LeaseMatches(lease[w])
        /\ jobs' = [jobs EXCEPT ![j] = Delayed(jobs[j], m)]
        /\ lease' = [lease EXCEPT ![w] = NoLease]
        /\ phase' = [phase EXCEPT ![w] = "idle"]
        /\ sweep' = sweep
    BY <2>1, Zenon DEF MarkFailedWithRecovery, Executing, Settle
  <2> DEFINE row == Delayed(jobs[j], m)
  <2>5. /\ row \in Job /\ row.status = "queued"
        /\ row.attempt = jobs[j].attempt /\ row.max = m
    BY <1>2, <2>2, DelayedRow
  <2>6. row.attempt < row.max /\ row.attempt <= row.max /\ row.max <= AttemptCap
    BY <1>2, <2>2, <2>3, <2>5
  <2>7. SettlesWith(w, row)
    BY <1>1, <2>4, <2>5, <2>6 DEF SettlesWith
  <2> QED BY <2>5, <2>7
<1> QED BY <1>5, <1>6, <1>7, <1>8

\* Ending an attempt leaves no lease of it behind, and no sweep can use one.
LEMMA SettlesKeepsInv ==
  ASSUME IInv, TypeOK', NEW w \in Workers, NEW row \in Job, SettlesWith(w, row)
  PROVE  IInv'
<1> DEFINE j == lease[w].job
<1>1. TypeOK /\ phase[w] = "executing"
  BY DEF IInv, SettlesWith
<1>2. j \in Jobs /\ row.attempt \in Nat /\ row.max \in Nat
  BY <1>1, ExecutingLease DEF Job
<1>3. \A k \in Jobs : jobs'[k] = IF k = j THEN row ELSE jobs[k]
  BY <1>1, <1>2 DEF SettlesWith, TypeOK
<1>4. \A v \in Workers : lease'[v] = IF v = w THEN NoLease ELSE lease[v]
  BY <1>1 DEF SettlesWith, TypeOK
<1>5. \A k \in Jobs : jobs'[k].attempt = jobs[k].attempt
  BY <1>3 DEF SettlesWith
<1>6. \A v \in Workers : lease[v] # NoLease => lease[v] \in Lease /\ lease[v].job \in Jobs
  BY <1>1, LeaseFields DEF TypeOK
<1>7. \A l \in Lease : LeaseMatches(l)' => LeaseMatches(l) /\ l.job # j
  BY <1>3, LeaseFields DEF LeaseMatches, SettlesWith
<1>8. RowInv'
  BY <1>2, <1>3 DEF IInv, RowInv, SettlesWith
<1>9. LeaseInv'
  <2> SUFFICES ASSUME NEW v \in Workers, lease'[v] # NoLease
               PROVE  /\ lease'[v].lockedBy = WorkerId[v]
                      /\ lease'[v].attempt <= jobs'[lease'[v].job].attempt
                      /\ LeaseMatches(lease[v])' => lease'[v].max = jobs'[lease'[v].job].max
    BY DEF LeaseInv
  <2>1. lease'[v] = lease[v] /\ lease[v] # NoLease
    BY <1>4
  <2>2. LeaseMatches(lease[v])' => LeaseMatches(lease[v]) /\ lease[v].job # j
    BY <1>3, <1>6, <2>1 DEF LeaseMatches, SettlesWith
  <2> QED BY <1>3, <1>5, <1>6, <2>1, <2>2 DEF IInv, LeaseInv
<1>10. TokenInv'
  BY <1>4 DEF IInv, TokenInv
<1>11. SweepInv'
  <2> SUFFICES ASSUME NEW v \in Workers, NEW l \in sweep[v]
               PROVE  /\ l.attempt <= jobs'[l.job].attempt
                      /\ LeaseMatches(l)' => ExpiredOut(l.job)'
    BY DEF SweepInv, SettlesWith
  <2>1. l \in Lease /\ l.job \in Jobs
    BY <1>1, LeaseFields DEF TypeOK
  <2> QED BY <1>3, <1>5, <1>7, <2>1 DEF IInv, SweepInv, ExpiredOut
<1> QED BY <1>8, <1>9, <1>10, <1>11 DEF IInv

\* A step that claims nothing and keeps every attempt count and limit: rows
\* may stop running or become stale, leases and sweeps may be forgotten.
LEMMA QuietStepKeepsInv ==
  ASSUME IInv, TypeOK',
         \A w \in Workers : lease'[w] \in {lease[w], NoLease},
         \A w \in Workers : sweep'[w] \subseteq sweep[w],
         \A j \in Jobs :
           /\ jobs'[j].attempt = jobs[j].attempt
           /\ jobs'[j].max = jobs[j].max
           /\ jobs'[j].status \in {"absent", "queued"} => jobs[j].attempt < jobs[j].max
           /\ jobs'[j].status = "running" => /\ jobs[j].status = "running"
                                             /\ jobs'[j].lockedBy = jobs[j].lockedBy
                                             /\ jobs[j].stale => jobs'[j].stale
  PROVE  IInv'
<1>1. TypeOK
  BY DEF IInv
<1>2. \A w \in Workers : lease[w] # NoLease => lease[w] \in Lease /\ lease[w].job \in Jobs
  BY <1>1, LeaseFields DEF TypeOK
<1>3. \A l \in Lease : LeaseMatches(l)' => LeaseMatches(l)
  BY LeaseFields DEF LeaseMatches
<1>4. RowInv'
  BY DEF IInv, RowInv
<1>5. LeaseInv'
  <2> SUFFICES ASSUME NEW w \in Workers, lease'[w] # NoLease
               PROVE  /\ lease'[w].lockedBy = WorkerId[w]
                      /\ lease'[w].attempt <= jobs'[lease'[w].job].attempt
                      /\ LeaseMatches(lease[w])' => lease'[w].max = jobs'[lease'[w].job].max
    BY DEF LeaseInv
  <2>1. lease'[w] = lease[w] /\ lease[w] # NoLease
    OBVIOUS
  <2>2. LeaseMatches(lease[w])' => LeaseMatches(lease[w])
    BY <1>2, <2>1 DEF LeaseMatches
  <2> QED BY <1>2, <2>1, <2>2 DEF IInv, LeaseInv
<1>6. TokenInv'
  BY DEF IInv, TokenInv
<1>7. SweepInv'
  <2> SUFFICES ASSUME NEW w \in Workers, NEW l \in sweep[w]
               PROVE  /\ l.attempt <= jobs'[l.job].attempt
                      /\ LeaseMatches(l)' => ExpiredOut(l.job)'
    BY DEF SweepInv
  <2>1. l \in Lease /\ l.job \in Jobs
    BY <1>1, LeaseFields DEF TypeOK
  <2>2. LeaseMatches(l)' => LeaseMatches(l) /\ jobs'[l.job].status = "running"
    BY <1>3, <2>1 DEF LeaseMatches
  <2> QED BY <2>1, <2>2 DEF IInv, SweepInv, ExpiredOut
<1> QED BY <1>4, <1>5, <1>6, <1>7 DEF IInv

\* A claim makes a new attempt number: it is above every remembered one.
LEMMA ClaimKeepsInv ==
  ASSUME IInv, TypeOK', NEW w \in Workers, NEW j \in Jobs, ClaimNext(w, j)
  PROVE  IInv'
<1> DEFINE n == jobs[j].attempt + 1
           new == [job |-> j, lockedBy |-> WorkerId[w], attempt |-> n, max |-> jobs[j].max]
<1>1. TypeOK
  BY DEF IInv
<1>2. /\ jobs[j].attempt \in Nat /\ jobs[j].max \in Nat
      /\ jobs[j].attempt < jobs[j].max /\ jobs[j].status = "queued"
  BY <1>1 DEF TypeOK, Job, IInv, RowInv, ClaimNext, Claimable
<1>3. /\ jobs'[j].status = "running" /\ jobs'[j].lockedBy = WorkerId[w]
      /\ jobs'[j].attempt = n /\ jobs'[j].max = jobs[j].max
  BY <1>1 DEF ClaimNext, TypeOK, Job
<1>4. \A k \in Jobs : k # j => jobs'[k] = jobs[k]
  BY <1>1 DEF ClaimNext, TypeOK
<1>5. \A v \in Workers : lease'[v] = IF v = w THEN new ELSE lease[v]
  BY <1>1 DEF ClaimNext, TypeOK
<1>6. \A v \in Workers : lease[v] # NoLease =>
        /\ lease[v] \in Lease /\ lease[v].job \in Jobs /\ lease[v].attempt \in Nat
        /\ lease[v].lockedBy = WorkerId[v]
        /\ lease[v].attempt <= jobs[lease[v].job].attempt
  BY <1>1, LeaseFields DEF TypeOK, IInv, LeaseInv
<1>7. \A l \in Lease : /\ l.job # j
                       /\ LeaseMatches(l)'
                       => LeaseMatches(l)
  BY <1>4, LeaseFields DEF LeaseMatches
<1>8. RowInv'
  <2> SUFFICES ASSUME NEW k \in Jobs
               PROVE  /\ jobs'[k].attempt <= jobs'[k].max /\ jobs'[k].max <= AttemptCap
                      /\ jobs'[k].status \in {"absent", "queued"}
                           => jobs'[k].attempt < jobs'[k].max
                      /\ jobs'[k].status = "running" => jobs'[k].attempt > 0
    BY DEF RowInv
  <2>1. CASE k = j
    <3>1. jobs[j].max <= AttemptCap
      BY DEF IInv, RowInv
    <3> QED BY <1>2, <1>3, <2>1, <3>1
  <2>2. CASE k # j
    BY <1>4, <2>2 DEF IInv, RowInv
  <2> QED BY <2>1, <2>2
<1>9. LeaseInv'
  <2> SUFFICES ASSUME NEW v \in Workers, lease'[v] # NoLease
               PROVE  /\ lease'[v].lockedBy = WorkerId[v]
                      /\ lease'[v].attempt <= jobs'[lease'[v].job].attempt
                      /\ LeaseMatches(lease[v])' => lease'[v].max = jobs'[lease'[v].job].max
    BY DEF LeaseInv
  <2>1. CASE v = w
    BY <1>2, <1>3, <1>5, <2>1
  <2>2. CASE v # w /\ lease[v].job = j
    BY <1>2, <1>3, <1>5, <1>6, <2>2 DEF LeaseMatches
  <2>3. CASE v # w /\ lease[v].job # j
    BY <1>4, <1>5, <1>6, <2>3 DEF IInv, LeaseInv, LeaseMatches
  <2> QED BY <2>1, <2>2, <2>3
<1>10. TokenInv'
  BY <1>2, <1>5, <1>6 DEF IInv, TokenInv
<1>11. SweepInv'
  <2>1. sweep' = sweep
    BY DEF ClaimNext
  <2> SUFFICES ASSUME NEW v \in Workers, NEW l \in sweep[v]
               PROVE  /\ l.attempt <= jobs'[l.job].attempt
                      /\ LeaseMatches(l)' => ExpiredOut(l.job)'
    BY <2>1 DEF SweepInv
  <2>2. l \in Lease
    BY <1>1 DEF TypeOK
  <2>3. l.job \in Jobs /\ l.attempt \in Nat
    BY <2>2, LeaseFields
  <2>4. l.attempt <= jobs[l.job].attempt
    BY DEF IInv, SweepInv
  <2>5. LeaseMatches(l) => ExpiredOut(l.job)
    BY DEF IInv, SweepInv
  <2>6. CASE l.job = j
    <3>1. l.attempt < jobs'[j].attempt
      BY <1>2, <1>3, <2>3, <2>4, <2>6
    <3>2. ~LeaseMatches(l)'
      BY <1>2, <1>3, <2>3, <2>6, <3>1 DEF LeaseMatches
    <3> QED BY <1>2, <1>3, <2>3, <2>6, <3>1, <3>2
  <2>7. CASE l.job # j
    BY <1>4, <1>7, <2>2, <2>3, <2>4, <2>5, <2>7 DEF ExpiredOut
  <2> QED BY <2>6, <2>7
<1> QED BY <1>8, <1>9, <1>10, <1>11 DEF IInv

LEMMA InvInit == Init => IInv
<1> SUFFICES ASSUME Init PROVE IInv
  OBVIOUS
<1>1. TypeOK
  BY TypeInit
<1>2. RowInv
  <2> SUFFICES ASSUME NEW j \in Jobs
               PROVE  /\ jobs[j].attempt <= jobs[j].max /\ jobs[j].max <= AttemptCap
                      /\ jobs[j].attempt < jobs[j].max
                      /\ jobs[j].status # "running"
    BY DEF RowInv
  <2>1. jobs[j].attempt = 0 /\ jobs[j].max = DefaultMaxAttempts /\ jobs[j].status = "absent"
    BY DEF Init
  <2> QED BY <2>1, ConstantsAssumption
<1>3. LeaseInv /\ TokenInv /\ SweepInv
  BY DEF Init, LeaseInv, TokenInv, SweepInv
<1> QED BY <1>1, <1>2, <1>3 DEF IInv

\* Every step of the queue preserves the inductive invariant.
LEMMA InvStep == IInv /\ [Next]_vars => IInv'
<1> SUFFICES ASSUME IInv, [Next]_vars PROVE IInv'
  OBVIOUS
<1>0. TypeOK /\ TypeOK'
  BY TypeStep DEF IInv
<1> USE <1>0
<1>a. \A j \in Jobs : /\ jobs[j] \in Job /\ jobs[j].attempt \in Nat /\ jobs[j].max \in Nat
                      /\ jobs[j].stale \in BOOLEAN
  BY DEF TypeOK, Job
<1>b. \A j \in Jobs : jobs[j].status \in {"absent", "queued"} => jobs[j].attempt < jobs[j].max
  BY DEF IInv, RowInv
<1>1. ASSUME NEW j \in Jobs, Enqueue(j) PROVE IInv'
  <2>1. \A k \in Jobs : jobs'[k] = IF k = j THEN [jobs[j] EXCEPT !.status = "queued"]
                                            ELSE jobs[k]
    BY <1>1 DEF Enqueue, TypeOK
  <2>2. /\ jobs'[j].status = "queued" /\ jobs'[j].attempt = jobs[j].attempt
        /\ jobs'[j].max = jobs[j].max /\ jobs[j].status = "absent"
    BY <1>1, <1>a, <2>1 DEF Job, Enqueue
  <2>3. lease' = lease /\ sweep' = sweep
    BY <1>1 DEF Enqueue
  <2> QED BY <1>b, <2>1, <2>2, <2>3, QuietStepKeepsInv
<1>2. ASSUME NEW j \in Jobs, BecomeDue(j) PROVE IInv'
  <2>1. \A k \in Jobs : jobs'[k] = IF k = j THEN [jobs[j] EXCEPT !.due = TRUE] ELSE jobs[k]
    BY <1>2 DEF BecomeDue, TypeOK
  <2>2. /\ jobs'[j].status = "queued" /\ jobs'[j].attempt = jobs[j].attempt
        /\ jobs'[j].max = jobs[j].max /\ jobs[j].status = "queued"
    BY <1>2, <1>a, <2>1 DEF Job, BecomeDue
  <2>3. lease' = lease /\ sweep' = sweep
    BY <1>2 DEF BecomeDue
  <2> QED BY <1>b, <2>1, <2>2, <2>3, QuietStepKeepsInv
<1>3. ASSUME NEW j \in Jobs, BecomeStale(j) PROVE IInv'
  <2>1. \A k \in Jobs : jobs'[k] = IF k = j THEN [jobs[j] EXCEPT !.stale = TRUE] ELSE jobs[k]
    BY <1>3 DEF BecomeStale, TypeOK
  <2>2. /\ jobs'[j].status = "running" /\ jobs'[j].attempt = jobs[j].attempt
        /\ jobs'[j].max = jobs[j].max /\ jobs[j].status = "running"
        /\ jobs'[j].lockedBy = jobs[j].lockedBy /\ jobs'[j].stale
    BY <1>3, <1>a, <2>1 DEF Job, BecomeStale
  <2>3. lease' = lease /\ sweep' = sweep
    BY <1>3 DEF BecomeStale
  <2> QED BY <1>b, <2>1, <2>2, <2>3, QuietStepKeepsInv
<1>4. ASSUME NEW w \in Workers, NEW j \in Jobs, ClaimNext(w, j) PROVE IInv'
  BY <1>4, ClaimKeepsInv
<1>5. ASSUME NEW w \in Workers, NoJobClaimed(w) PROVE IInv'
  BY <1>5, <1>b, QuietStepKeepsInv DEF NoJobClaimed
<1>6. ASSUME NEW w \in Workers,
             \/ MarkSucceeded(w)
             \/ \E retryable \in BOOLEAN : MarkFailed(w, retryable)
             \/ Recover(w)
             \/ ExhaustActivation(w)
      PROVE  IInv'
  <2>1. PICK row \in Job : SettlesWith(w, row)
    BY <1>6, SettlingSteps
  <2> QED BY <2>1, SettlesKeepsInv
<1>7. ASSUME NEW w \in Workers, AbandonStaleLease(w) PROVE IInv'
  <2>1. jobs' = jobs /\ sweep' = sweep
    BY <1>7 DEF AbandonStaleLease
  <2>2. \A v \in Workers : lease'[v] \in {lease[v], NoLease}
    BY <1>7 DEF AbandonStaleLease, Settle, TypeOK
  <2> QED BY <1>b, <2>1, <2>2, QuietStepKeepsInv
<1>8. ASSUME NEW w \in Workers, BeginSweep(w) PROVE IInv'
  <2> DEFINE S == {LeaseOf(k) : k \in {i \in Jobs : ExpiredOut(i)}}
  <2>1. jobs' = jobs /\ lease' = lease /\ sweep' = [sweep EXCEPT ![w] = S]
    BY <1>8 DEF BeginSweep
  <2>2. \A l \in S : l.attempt <= jobs[l.job].attempt /\ ExpiredOut(l.job)
    BY <1>a DEF LeaseOf
  <2>3. SweepInv'
    <3>1. ASSUME NEW v \in Workers, NEW l \in sweep'[v]
          PROVE  /\ l.attempt <= jobs[l.job].attempt
                 /\ LeaseMatches(l) => ExpiredOut(l.job)
      <4>1. CASE l \in sweep[v]
        BY <4>1 DEF IInv, SweepInv
      <4>2. CASE l \in S
        BY <2>2, <4>2
      <4>3. l \in sweep[v] \/ l \in S
        BY <2>1, <3>1 DEF TypeOK
      <4> QED BY <4>1, <4>2, <4>3
    <3>2. \A l : LeaseMatches(l)' <=> LeaseMatches(l)
      BY <2>1 DEF LeaseMatches
    <3>3. \A k : ExpiredOut(k)' <=> ExpiredOut(k)
      BY <2>1 DEF ExpiredOut
    <3> QED BY <2>1, <3>1, <3>2, <3>3 DEF SweepInv
  <2>4. RowInv' /\ LeaseInv' /\ TokenInv'
    BY <2>1 DEF IInv, RowInv, LeaseInv, TokenInv, LeaseMatches
  <2> QED BY <2>3, <2>4 DEF IInv
<1>9. ASSUME NEW w \in Workers, NEW l \in sweep[w], SweepExhaust(w, l) PROVE IInv'
  <2>1. l.job \in Jobs /\ lease' = lease
    BY <1>9, LeaseFields DEF TypeOK, SweepExhaust
  <2>2. \A v \in Workers : sweep'[v] \subseteq sweep[v]
    BY <1>9 DEF SweepExhaust, TypeOK
  <2>3. CASE ~LeaseMatches(l)
    <3>1. jobs' = jobs
      BY <1>9, <2>3 DEF SweepExhaust
    <3> QED BY <1>b, <2>1, <2>2, <3>1, QuietStepKeepsInv
  <2>4. CASE LeaseMatches(l)
    <3>1. jobs' = [jobs EXCEPT ![l.job] = Unlocked(jobs[l.job], "failed")]
      BY <1>9, <2>4 DEF SweepExhaust
    <3>2. \A k \in Jobs : jobs'[k] = IF k = l.job THEN Unlocked(jobs[k], "failed") ELSE jobs[k]
      BY <2>1, <3>1 DEF TypeOK
    <3>3. "failed" \in Status
      BY DEF Status, Terminal
    <3>4. /\ jobs'[l.job].status = "failed"
          /\ jobs'[l.job].attempt = jobs[l.job].attempt
          /\ jobs'[l.job].max = jobs[l.job].max
      <4> DEFINE row == Unlocked(jobs[l.job], "failed")
      <4>1. row.status = "failed" /\ row.attempt = jobs[l.job].attempt /\ row.max = jobs[l.job].max
        BY <1>a, <2>1, <3>3, UnlockedRow
      <4> QED BY <2>1, <3>2, <4>1
    <3>5. \A k \in Jobs : k # l.job => jobs'[k] = jobs[k]
      BY <3>2
    <3> QED BY <1>b, <2>1, <2>2, <3>4, <3>5, QuietStepKeepsInv
  <2> QED BY <2>3, <2>4
<1>10. ASSUME NEW w \in Workers, NEW l \in sweep[w], SweepError(w, l) PROVE IInv'
  <2>1. jobs' = jobs /\ lease' = lease
    BY <1>10 DEF SweepError
  <2>2. \A v \in Workers : sweep'[v] \subseteq sweep[v]
    BY <1>10 DEF SweepError, TypeOK
  <2> QED BY <1>b, <2>1, <2>2, QuietStepKeepsInv
<1>11. ASSUME NEW w \in Workers, SweepRequeue(w) PROVE IInv'
  <2>1. lease' = lease /\ sweep' = sweep
    BY <1>11 DEF SweepRequeue
  <2>2. \A k \in Jobs : jobs'[k] = IF Requeueable(k) THEN Unlocked(jobs[k], "queued")
                                                     ELSE jobs[k]
    BY <1>11 DEF SweepRequeue
  <2>3. \A k \in Jobs : Requeueable(k) => jobs[k].attempt < jobs[k].max
    BY DEF Requeueable
  <2>4. "queued" \in Status
    BY DEF Status
  <2>5. ASSUME NEW k \in Jobs
        PROVE  /\ Unlocked(jobs[k], "queued").status = "queued"
               /\ Unlocked(jobs[k], "queued").attempt = jobs[k].attempt
               /\ Unlocked(jobs[k], "queued").max = jobs[k].max
    BY <1>a, <2>4, UnlockedRow
  <2>6. \A k \in Jobs :
           \/ jobs'[k] = jobs[k]
           \/ /\ jobs'[k].status = "queued" /\ jobs[k].attempt < jobs[k].max
              /\ jobs'[k].attempt = jobs[k].attempt /\ jobs'[k].max = jobs[k].max
    BY <2>2, <2>3, <2>5
  <2> QED BY <1>b, <2>1, <2>6, QuietStepKeepsInv
<1>12. ASSUME NEW w \in Workers, AbandonCycle(w) PROVE IInv'
  <2>1. jobs' = jobs
    BY <1>12 DEF AbandonCycle
  <2>2. /\ \A v \in Workers : lease'[v] \in {lease[v], NoLease}
        /\ \A v \in Workers : sweep'[v] \subseteq sweep[v]
    BY <1>12 DEF AbandonCycle, TypeOK
  <2> QED BY <1>b, <2>1, <2>2, QuietStepKeepsInv
<1>13. CASE UNCHANGED vars
  BY <1>13, <1>b, QuietStepKeepsInv DEF vars
<1> QED
  BY <1>1, <1>2, <1>3, <1>4, <1>5, <1>6, <1>7, <1>8, <1>9, <1>10, <1>11, <1>12, <1>13
     DEF Next, SweepStep, PollStep, SettleStep

\* The type invariant and the inductive invariant hold in every execution of
\* the queue, for every number of jobs, workers and attempts.
THEOREM QueueInvariant == Spec => []IInv
BY InvInit, InvStep, PTL DEF Spec

\* The queue's state is always well typed.
THEOREM QueueTypeCorrect == Spec => []TypeOK
<1>1. IInv => TypeOK
  BY DEF IInv
<1> QED BY <1>1, QueueInvariant, PTL

\* At most one worker owns a job, whatever their WORKER_IDs are.
THEOREM QueueSingleOwner == Spec => []SingleOwner
<1>1. IInv => SingleOwner
  BY DEF IInv, TokenInv, SingleOwner, Owns, LeaseMatches
<1> QED BY <1>1, QueueInvariant, PTL

\* A queued job has an attempt left, and no attempt is over the limit.
THEOREM QueueAttemptBudget == Spec => []AttemptBudget
<1>1. IInv => AttemptBudget
  <2> SUFFICES ASSUME IInv, NEW j \in Jobs
               PROVE  /\ jobs[j].status = "queued" => jobs[j].attempt < jobs[j].max
                      /\ jobs[j].status = "running" => jobs[j].attempt \in 1 .. jobs[j].max
                      /\ \A w \in Workers : Owns(w, j) => lease[w].max = jobs[j].max
    BY DEF AttemptBudget
  <2>1. jobs[j].attempt \in Nat /\ jobs[j].max \in Nat
    BY DEF IInv, TypeOK, Job
  <2> QED BY <2>1 DEF IInv, RowInv, LeaseInv, Owns
<1> QED BY <1>1, QueueInvariant, PTL

-----------------------------------------------------------------------------
(* What a step may not do *)

\* The row of a job changes its status from running only when the owner ends
\* the attempt or a sweep finds it stale.
LEMMA RunningEnds ==
  ASSUME IInv, [Next]_vars, NEW j \in Jobs,
         jobs[j].status = "running", jobs'[j].status # "running"
  PROVE  jobs[j].stale \/ \E w \in Workers : Owns(w, j) /\ lease'[w] = NoLease
<1>0. TypeOK
  BY DEF IInv
<1>1. ASSUME NEW k \in Jobs, Enqueue(k) \/ BecomeDue(k) PROVE FALSE
  BY <1>0, <1>1 DEF TypeOK, Enqueue, BecomeDue
<1>2. ASSUME NEW k \in Jobs, BecomeStale(k) PROVE FALSE
  <2>1. jobs' = [jobs EXCEPT ![k].stale = TRUE]
    BY <1>2 DEF BecomeStale
  <2>2. jobs'[j].status = jobs[j].status
    BY <1>0, <2>1 DEF TypeOK, Job
  <2> QED BY <2>2
<1>3. ASSUME NEW w \in Workers, NEW k \in Jobs, ClaimNext(w, k) PROVE FALSE
  <2>1. j # k
    BY <1>3 DEF ClaimNext, Claimable
  <2> QED BY <1>0, <1>3, <2>1 DEF ClaimNext, TypeOK
<1>4. ASSUME NEW w \in Workers,
             \/ MarkSucceeded(w)
             \/ \E retryable \in BOOLEAN : MarkFailed(w, retryable)
             \/ Recover(w)
             \/ ExhaustActivation(w)
      PROVE  \E v \in Workers : Owns(v, j) /\ lease'[v] = NoLease
  <2>1. PICK row \in Job : SettlesWith(w, row)
    BY <1>4, SettlingSteps
  <2>2. /\ jobs' = [jobs EXCEPT ![lease[w].job] = row]
        /\ lease' = [lease EXCEPT ![w] = NoLease]
        /\ LeaseMatches(lease[w]) /\ phase[w] = "executing"
    BY <2>1 DEF SettlesWith
  <2>3. lease[w].job = j
    BY <1>0, <2>2 DEF TypeOK
  <2>4. lease[w] # NoLease
    BY <1>0, <2>2, ExecutingLease
  <2>5. lease'[w] = NoLease
    BY <1>0, <2>2 DEF TypeOK
  <2> QED BY <2>2, <2>3, <2>4, <2>5 DEF Owns
<1>5. ASSUME NEW w \in Workers, NEW l \in sweep[w], SweepExhaust(w, l) PROVE jobs[j].stale
  <2>1. LeaseMatches(l) /\ l.job = j
    BY <1>0, <1>5 DEF SweepExhaust, TypeOK
  <2> QED BY <2>1 DEF IInv, SweepInv, ExpiredOut
<1>6. ASSUME NEW w \in Workers, SweepRequeue(w) PROVE jobs[j].stale
  BY <1>6 DEF SweepRequeue, Requeueable
<1>7. ASSUME \/ \E w \in Workers :
                  \/ NoJobClaimed(w) \/ AbandonStaleLease(w) \/ BeginSweep(w)
                  \/ AbandonCycle(w) \/ \E l \in sweep[w] : SweepError(w, l)
             \/ UNCHANGED vars
      PROVE  FALSE
  BY <1>7 DEF NoJobClaimed, AbandonStaleLease, BeginSweep, AbandonCycle, SweepError, vars
<1> QED
  BY <1>1, <1>2, <1>3, <1>4, <1>5, <1>6, <1>7
     DEF Next, SweepStep, PollStep, SettleStep

\* Only the owner, or a sweep once the lease is stale, ends an attempt.
THEOREM QueueOwnerOrExpiry == Spec => OwnerOrExpiryEndsAttempt
<1>1. IInv /\ [Next]_vars =>
        [\A j \in Jobs :
           jobs[j].status = "running" /\ jobs'[j].status # "running"
             => \/ jobs[j].stale
                \/ \E w \in Workers : Owns(w, j) /\ lease'[w] = NoLease]_vars
  BY RunningEnds
<1> QED BY <1>1, QueueInvariant, PTL DEF Spec, OwnerOrExpiryEndsAttempt

\* No step changes the row of a job that has an outcome.
LEMMA TerminalRowStays ==
  ASSUME IInv, [Next]_vars, NEW j \in Jobs, jobs[j].status \in Terminal
  PROVE  jobs'[j] = jobs[j]
<1>0. TypeOK /\ jobs[j].status \notin {"absent", "queued", "running"}
  BY DEF IInv, Terminal
<1>1. ASSUME NEW k \in Jobs, Enqueue(k) \/ BecomeDue(k) \/ BecomeStale(k)
      PROVE  jobs'[j] = jobs[j]
  BY <1>0, <1>1 DEF TypeOK, Enqueue, BecomeDue, BecomeStale
<1>2. ASSUME NEW w \in Workers, NEW k \in Jobs, ClaimNext(w, k) PROVE jobs'[j] = jobs[j]
  BY <1>0, <1>2 DEF TypeOK, ClaimNext, Claimable
<1>3. ASSUME NEW w \in Workers,
             \/ MarkSucceeded(w)
             \/ \E retryable \in BOOLEAN : MarkFailed(w, retryable)
             \/ Recover(w)
             \/ ExhaustActivation(w)
      PROVE  jobs'[j] = jobs[j]
  <2>1. PICK row \in Job : SettlesWith(w, row)
    BY <1>3, SettlingSteps
  <2>2. jobs' = [jobs EXCEPT ![lease[w].job] = row] /\ jobs[lease[w].job].status = "running"
    BY <2>1 DEF SettlesWith, LeaseMatches
  <2> QED BY <1>0, <2>2 DEF TypeOK
<1>4. ASSUME NEW w \in Workers, NEW l \in sweep[w], SweepExhaust(w, l)
      PROVE  jobs'[j] = jobs[j]
  BY <1>0, <1>4 DEF TypeOK, SweepExhaust, LeaseMatches
<1>5. ASSUME NEW w \in Workers, SweepRequeue(w) PROVE jobs'[j] = jobs[j]
  BY <1>0, <1>5 DEF SweepRequeue, Requeueable
<1>6. ASSUME \/ \E w \in Workers :
                  \/ NoJobClaimed(w) \/ AbandonStaleLease(w) \/ BeginSweep(w)
                  \/ AbandonCycle(w) \/ \E l \in sweep[w] : SweepError(w, l)
             \/ UNCHANGED vars
      PROVE  jobs' = jobs
  BY <1>6 DEF NoJobClaimed, AbandonStaleLease, BeginSweep, AbandonCycle, SweepError, vars
<1> QED
  BY <1>1, <1>2, <1>3, <1>4, <1>5, <1>6 DEF Next, SweepStep, PollStep, SettleStep

\* succeeded and failed are final.
THEOREM QueueOutcomeIsFinal == Spec => OutcomeIsFinal
<1>1. IInv /\ [Next]_vars =>
        [\A j \in Jobs : jobs[j].status \in Terminal => jobs'[j] = jobs[j]]_vars
  BY TerminalRowStays
<1> QED BY <1>1, QueueInvariant, PTL DEF Spec, OutcomeIsFinal

-----------------------------------------------------------------------------
(* JobQueue implements JobLifecycle: the leases, the clock and the sweeps  *)
(* implement one holder.                                                   *)

\* What Holder computes in a state where no two workers own a job.
HolderFacts ==
  \A j \in Jobs :
    /\ \A w \in Workers : Owns(w, j) => Holder(j) = w
    /\ (\A w \in Workers : ~Owns(w, j)) => Holder(j) = NoWorker

LEMMA HolderIsOwner == IInv => HolderFacts
<1> SUFFICES ASSUME IInv, NEW j \in Jobs
             PROVE  /\ \A w \in Workers : Owns(w, j) => Holder(j) = w
                    /\ (\A w \in Workers : ~Owns(w, j)) => Holder(j) = NoWorker
  BY DEF HolderFacts
<1>1. \A v, w \in Workers : Owns(v, j) /\ Owns(w, j) => v = w
  BY DEF IInv, TokenInv, Owns, LeaseMatches
<1>2. ASSUME NEW w \in Workers, Owns(w, j) PROVE Holder(j) = w
  BY <1>1, <1>2 DEF Holder
<1> QED BY <1>2 DEF Holder

\* The abstract row of a job, and the abstract state.
AbstractRow(j) == [status |-> jobs[j].status, attempt |-> jobs[j].attempt,
                   max |-> jobs[j].max, holder |-> Holder(j)]

AbstractJobs == [j \in Jobs |-> AbstractRow(j)]

\* A job nobody claims or loses keeps its holder.
LEMMA HolderKept ==
  ASSUME HolderFacts, HolderFacts', NEW j \in Jobs,
         \A w \in Workers : Owns(w, j)' <=> Owns(w, j)
  PROVE  Holder(j)' = Holder(j)
<1>1. CASE \E w \in Workers : Owns(w, j)
  <2>1. PICK w \in Workers : Owns(w, j)
    BY <1>1
  <2>2. Holder(j) = w
    BY <2>1 DEF HolderFacts
  <2>3. Holder(j)' = w
    BY <2>1 DEF HolderFacts
  <2> QED BY <2>2, <2>3
<1>2. CASE \A w \in Workers : ~Owns(w, j)
  <2>1. Holder(j) = NoWorker
    BY <1>2 DEF HolderFacts
  <2>2. Holder(j)' = NoWorker
    BY <1>2 DEF HolderFacts
  <2> QED BY <2>1, <2>2
<1> QED BY <1>1, <1>2

\* The initial state of the queue is that of the lifecycle.
LEMMA InitImplements == Init => Lifecycle!Init
<1> SUFFICES ASSUME Init PROVE Lifecycle!Init
  OBVIOUS
<1>1. HolderFacts
  BY InvInit, HolderIsOwner
<1>2. ASSUME NEW j \in Jobs PROVE Holder(j) = NoWorker
  <2>1. \A w \in Workers : ~Owns(w, j)
    BY DEF Init, Owns
  <2> QED BY <1>1, <2>1 DEF HolderFacts
<1> QED BY <1>2 DEF Init, Lifecycle!Init

\* A step that moves no row's status, attempt or limit and no owner is a
\* stutter of the lifecycle.
LEMMA Stutter ==
  ASSUME HolderFacts, HolderFacts',
         \A j \in Jobs : /\ jobs'[j].status = jobs[j].status
                         /\ jobs'[j].attempt = jobs[j].attempt
                         /\ jobs'[j].max = jobs[j].max
                         /\ \A w \in Workers : Owns(w, j)' <=> Owns(w, j)
  PROVE  AbstractJobs' = AbstractJobs
<1>1. ASSUME NEW j \in Jobs PROVE AbstractRow(j)' = AbstractRow(j)
  <2>1. Holder(j)' = Holder(j)
    BY HolderKept
  <2> QED BY <2>1 DEF AbstractRow
<1> QED BY <1>1 DEF AbstractJobs

\* The new abstract row of one job: the others keep theirs.
LEMMA OneRow ==
  ASSUME HolderFacts, HolderFacts', NEW j \in Jobs,
         \A k \in Jobs : k # j => /\ jobs'[k] = jobs[k]
                                  /\ \A w \in Workers : Owns(w, k)' <=> Owns(w, k)
  PROVE  AbstractJobs' = [AbstractJobs EXCEPT ![j] = AbstractRow(j)']
<1>1. ASSUME NEW k \in Jobs, k # j PROVE AbstractRow(k)' = AbstractRow(k)
  <2>1. Holder(k)' = Holder(k)
    BY <1>1, HolderKept
  <2> QED BY <1>1, <2>1 DEF AbstractRow
<1> QED BY <1>1 DEF AbstractJobs

\* A producer submits.
LEMMA EnqueueImplements ==
  ASSUME IInv, IInv', NEW j \in Jobs, Enqueue(j)
  PROVE  Lifecycle!Submit(j)
<1>1. HolderFacts /\ HolderFacts' /\ TypeOK
  BY HolderIsOwner, PTL DEF IInv
<1>2. jobs' = [jobs EXCEPT ![j].status = "queued"] /\ lease' = lease
      /\ jobs[j].status = "absent"
  BY DEF Enqueue
<1>3. \A k \in Jobs : k # j => jobs'[k] = jobs[k]
  BY <1>1, <1>2 DEF TypeOK
<1>4. jobs'[j].status = "queued" /\ jobs'[j].attempt = jobs[j].attempt
      /\ jobs'[j].max = jobs[j].max
  BY <1>1, <1>2 DEF TypeOK, Job
<1>5. \A k \in Jobs : \A w \in Workers : Owns(w, k)' <=> Owns(w, k)
  BY <1>2, <1>3, <1>4 DEF Owns, LeaseMatches
<1>6. AbstractJobs' = [AbstractJobs EXCEPT ![j] = AbstractRow(j)']
  BY <1>1, <1>3, <1>5, OneRow
<1>7. Holder(j)' = Holder(j)
  BY <1>1, <1>5, HolderKept
<1>8. AbstractJobs' = [AbstractJobs EXCEPT ![j].status = "queued"]
  BY <1>4, <1>6, <1>7 DEF AbstractJobs, AbstractRow
<1> QED BY <1>2, <1>8 DEF Lifecycle!Submit, AbstractJobs, AbstractRow

\* A claim gives the job a holder.
LEMMA ClaimImplements ==
  ASSUME IInv, IInv', NEW w \in Workers, NEW j \in Jobs, ClaimNext(w, j)
  PROVE  Lifecycle!Acquire(w, j)
<1>1. HolderFacts /\ HolderFacts' /\ TypeOK /\ TypeOK' /\ phase[w] = "polling"
  BY HolderIsOwner, PTL DEF IInv, ClaimNext
<1>2. /\ jobs'[j].status = "running" /\ jobs'[j].lockedBy = WorkerId[w]
      /\ jobs'[j].attempt = jobs[j].attempt + 1 /\ jobs'[j].max = jobs[j].max
      /\ jobs[j].status = "queued"
  BY <1>1 DEF ClaimNext, Claimable, TypeOK, Job
<1>3. \A k \in Jobs : k # j => jobs'[k] = jobs[k]
  BY <1>1 DEF ClaimNext, TypeOK
<1>4. /\ lease[w] = NoLease
      /\ lease'[w] \in Lease /\ lease'[w].job = j /\ lease'[w].lockedBy = WorkerId[w]
      /\ lease'[w].attempt = jobs[j].attempt + 1
      /\ \A v \in Workers : v # w => lease'[v] = lease[v]
  BY <1>1 DEF ClaimNext, TypeOK
<1>5. Owns(w, j)'
  BY <1>2, <1>4, LeaseFields DEF Owns, LeaseMatches
<1>6. Holder(j)' = w
  BY <1>1, <1>5 DEF HolderFacts
<1>7. \A k \in Jobs : k # j => \A v \in Workers : Owns(v, k)' <=> Owns(v, k)
  BY <1>3, <1>4 DEF Owns, LeaseMatches
<1>8. AbstractJobs' = [AbstractJobs EXCEPT ![j] = AbstractRow(j)']
  BY <1>1, <1>3, <1>7, OneRow
<1>9. AbstractJobs' = [AbstractJobs EXCEPT ![j].status = "running", ![j].holder = w,
                                           ![j].attempt = @ + 1]
  BY <1>2, <1>6, <1>8 DEF AbstractJobs, AbstractRow
<1>10. jobs[j].attempt < jobs[j].max
  BY <1>2 DEF IInv, RowInv
<1> QED BY <1>2, <1>9, <1>10 DEF Lifecycle!Acquire, AbstractJobs, AbstractRow

\* The end of an attempt is the end of its holder's hold: for good when the
\* new status is terminal, with the new limit when the job is queued again.
LEMMA SettleImplements ==
  ASSUME IInv, IInv', NEW w \in Workers, NEW row \in Job, SettlesWith(w, row)
  PROVE  \E j \in Jobs :
           \/ \E outcome \in {"succeeded", "failed"} : Lifecycle!Conclude(w, j, outcome)
           \/ \E max \in 1 .. AttemptCap : Lifecycle!GiveBack(w, j, max)
<1>1. HolderFacts /\ HolderFacts' /\ TypeOK /\ TypeOK' /\ phase[w] = "executing"
  BY HolderIsOwner, PTL DEF IInv, SettlesWith
<1>j. PICK j \in Jobs : j = lease[w].job
  BY <1>1, ExecutingLease
<1>2. /\ j = lease[w].job /\ lease[w] # NoLease /\ jobs[j] \in Job
      /\ jobs[j].attempt \in Nat /\ row.attempt \in Nat /\ row.max \in Nat
  BY <1>1, <1>j, ExecutingLease DEF Job
<1>3. \A k \in Jobs : jobs'[k] = IF k = j THEN row ELSE jobs[k]
  BY <1>1, <1>2 DEF SettlesWith, TypeOK
<1>4. \A v \in Workers : lease'[v] = IF v = w THEN NoLease ELSE lease[v]
  BY <1>1 DEF SettlesWith, TypeOK
<1>5. Holder(j) = w
  BY <1>1, <1>2 DEF HolderFacts, Owns, SettlesWith
<1>6. \A v \in Workers : ~Owns(v, j)'
  BY <1>2, <1>3 DEF Owns, LeaseMatches, SettlesWith
<1>7. Holder(j)' = NoWorker
  BY <1>1, <1>2, <1>6 DEF HolderFacts
<1>8. \A k \in Jobs : k # j => \A v \in Workers : Owns(v, k)' <=> Owns(v, k)
  BY <1>2, <1>3, <1>4 DEF Owns, LeaseMatches
<1>9. AbstractJobs' = [AbstractJobs EXCEPT ![j] = AbstractRow(j)']
  BY <1>1, <1>2, <1>3, <1>8, OneRow
<1>10. /\ jobs'[j].status = row.status /\ jobs'[j].attempt = jobs[j].attempt
       /\ jobs'[j].max = row.max
  BY <1>2, <1>3 DEF SettlesWith
<1>11. CASE row.status = "queued"
  <2>1. row.max \in 1 .. AttemptCap /\ jobs[j].attempt < row.max
    BY <1>2, <1>11 DEF SettlesWith
  <2>2. AbstractJobs' = [AbstractJobs EXCEPT ![j].status = "queued", ![j].holder = NoWorker,
                                             ![j].max = row.max]
    BY <1>7, <1>9, <1>10, <1>11 DEF AbstractJobs, AbstractRow
  <2>3. Lifecycle!GiveBack(w, j, row.max)
    BY <1>2, <1>5, <2>1, <2>2 DEF Lifecycle!GiveBack, AbstractJobs, AbstractRow
  <2> QED BY <1>2, <2>1, <2>3
<1>12. CASE row.status # "queued"
  <2>1. row.status \in {"succeeded", "failed"}
    BY <1>12 DEF SettlesWith, Job, Status, Terminal
  <2>2. row.max = jobs[j].max => Lifecycle!Conclude(w, j, row.status)
    <3>1. ASSUME row.max = jobs[j].max
          PROVE  AbstractJobs' = [AbstractJobs EXCEPT ![j].status = row.status,
                                                      ![j].holder = NoWorker]
      BY <1>7, <1>9, <1>10, <3>1 DEF AbstractJobs, AbstractRow
    <3> QED BY <1>2, <1>5, <3>1 DEF Lifecycle!Conclude, AbstractJobs, AbstractRow
  <2>3. row.max = jobs[j].max
    BY <1>2, <1>12 DEF SettlesWith
  <2> QED BY <1>2, <2>1, <2>2, <2>3
<1> QED BY <1>11, <1>12

\* A sweep takes the jobs in S back from whoever held them.
LEMMA SweepImplements ==
  ASSUME IInv, IInv', NEW S \in SUBSET Jobs, lease' = lease,
         \A k \in Jobs \ S : jobs'[k] = jobs[k],
         \A k \in S : /\ jobs[k].status = "running"
                      /\ jobs'[k].status = IF jobs[k].attempt < jobs[k].max
                                           THEN "queued" ELSE "failed"
                      /\ jobs'[k].attempt = jobs[k].attempt
                      /\ jobs'[k].max = jobs[k].max
  PROVE  Lifecycle!Expire(S)
<1>1. HolderFacts /\ HolderFacts'
  BY HolderIsOwner, PTL
<1>2. ASSUME NEW k \in Jobs \ S PROVE AbstractRow(k)' = AbstractRow(k)
  <2>1. \A w \in Workers : Owns(w, k)' <=> Owns(w, k)
    BY DEF Owns, LeaseMatches
  <2>2. Holder(k)' = Holder(k)
    BY <1>1, <2>1, HolderKept
  <2> QED BY <2>2 DEF AbstractRow
<1>3. ASSUME NEW k \in S
      PROVE  AbstractRow(k)' = [status |-> IF jobs[k].attempt < jobs[k].max
                                           THEN "queued" ELSE "failed",
                                attempt |-> jobs[k].attempt, max |-> jobs[k].max,
                                holder |-> NoWorker]
  <2>1. \A w \in Workers : ~Owns(w, k)'
    BY DEF Owns, LeaseMatches
  <2>2. Holder(k)' = NoWorker
    BY <1>1, <2>1 DEF HolderFacts
  <2> QED BY <2>2 DEF AbstractRow
<1> QED BY <1>2, <1>3 DEF Lifecycle!Expire, AbstractJobs, AbstractRow

\* A process that dies drops its hold, if it had one.
LEMMA AbandonImplements ==
  ASSUME IInv, IInv', NEW w \in Workers, AbandonCycle(w)
  PROVE  (\E j \in Jobs : Lifecycle!Vanish(j)) \/ AbstractJobs' = AbstractJobs
<1>1. HolderFacts /\ HolderFacts' /\ TypeOK
  BY HolderIsOwner, PTL DEF IInv
<1>2. jobs' = jobs /\ \A v \in Workers : lease'[v] = IF v = w THEN NoLease ELSE lease[v]
  BY <1>1 DEF AbandonCycle, TypeOK
<1>3. CASE \E j \in Jobs : Owns(w, j)
  <2>1. PICK j \in Jobs : Owns(w, j)
    BY <1>3
  <2>2. Holder(j) = w
    BY <1>1, <2>1 DEF HolderFacts
  <2>3. \A v \in Workers : ~Owns(v, j)'
    <3>1. \A v \in Workers : Owns(v, j) => v = w
      BY <1>1, <2>2 DEF HolderFacts
    <3>2. \A v \in Workers : Owns(v, j)' => Owns(v, j) /\ v # w
      BY <1>2 DEF Owns, LeaseMatches
    <3> QED BY <3>1, <3>2
  <2>4. Holder(j)' = NoWorker
    BY <1>1, <2>3 DEF HolderFacts
  <2>5. \A k \in Jobs : k # j => \A v \in Workers : Owns(v, k)' <=> Owns(v, k)
    BY <1>2, <2>1 DEF Owns, LeaseMatches
  <2>6. AbstractJobs' = [AbstractJobs EXCEPT ![j] = AbstractRow(j)']
    BY <1>1, <1>2, <2>5, OneRow
  <2>7. AbstractJobs' = [AbstractJobs EXCEPT ![j].holder = NoWorker]
    BY <1>2, <2>4, <2>6 DEF AbstractJobs, AbstractRow
  <2>8. CASE w = NoWorker
    BY <2>2, <2>7, <2>8 DEF AbstractJobs, AbstractRow
  <2>9. CASE w # NoWorker
    BY <2>2, <2>7, <2>9 DEF Lifecycle!Vanish, AbstractJobs, AbstractRow
  <2> QED BY <2>8, <2>9
<1>4. CASE \A j \in Jobs : ~Owns(w, j)
  <2>1. \A k \in Jobs : \A v \in Workers : Owns(v, k)' <=> Owns(v, k)
    BY <1>2, <1>4 DEF Owns, LeaseMatches
  <2> QED BY <1>1, <1>2, <2>1, Stutter
<1> QED BY <1>3, <1>4

\* Every step of the queue is a step of the lifecycle or changes nothing there.
LEMMA StepImplements ==
  IInv /\ IInv' /\ [Next]_vars => [Lifecycle!Next]_AbstractJobs
<1> SUFFICES ASSUME IInv, IInv', [Next]_vars
             PROVE  Lifecycle!Next \/ AbstractJobs' = AbstractJobs
  OBVIOUS
<1>0. HolderFacts /\ HolderFacts' /\ TypeOK
  BY HolderIsOwner, PTL DEF IInv
<1>1. ASSUME NEW j \in Jobs, Enqueue(j) PROVE Lifecycle!Next
  BY <1>1, EnqueueImplements DEF Lifecycle!Next
<1>2. ASSUME NEW j \in Jobs, BecomeDue(j) \/ BecomeStale(j)
      PROVE  AbstractJobs' = AbstractJobs
  <2>1. \A k \in Jobs : /\ jobs'[k].status = jobs[k].status
                        /\ jobs'[k].attempt = jobs[k].attempt
                        /\ jobs'[k].max = jobs[k].max
                        /\ jobs'[k].lockedBy = jobs[k].lockedBy
    <3>1. ASSUME NEW k \in Jobs, k # j PROVE jobs'[k] = jobs[k]
      BY <1>0, <1>2, <3>1 DEF BecomeDue, BecomeStale, TypeOK
    <3>2. CASE jobs' = [jobs EXCEPT ![j].due = TRUE]
      BY <1>0, <3>2 DEF TypeOK, Job
    <3>3. CASE jobs' = [jobs EXCEPT ![j].stale = TRUE]
      BY <1>0, <3>3 DEF TypeOK, Job
    <3> QED BY <1>2, <3>2, <3>3 DEF BecomeDue, BecomeStale
  <2>2. lease' = lease
    BY <1>2 DEF BecomeDue, BecomeStale
  <2>3. \A k \in Jobs : \A w \in Workers : Owns(w, k)' <=> Owns(w, k)
    BY <2>1, <2>2 DEF Owns, LeaseMatches
  <2> QED BY <1>0, <2>1, <2>3, Stutter
<1>3. ASSUME NEW w \in Workers, NEW j \in Jobs, ClaimNext(w, j) PROVE Lifecycle!Next
  BY <1>3, ClaimImplements DEF Lifecycle!Next
<1>4. ASSUME NEW w \in Workers,
             \/ MarkSucceeded(w)
             \/ \E retryable \in BOOLEAN : MarkFailed(w, retryable)
             \/ Recover(w)
             \/ ExhaustActivation(w)
      PROVE  Lifecycle!Next
  <2>1. PICK row \in Job : SettlesWith(w, row)
    BY <1>4, SettlingSteps
  <2> QED BY <2>1, SettleImplements DEF Lifecycle!Next
<1>5. ASSUME NEW w \in Workers, AbandonStaleLease(w) PROVE AbstractJobs' = AbstractJobs
  <2>1. jobs' = jobs /\ \A v \in Workers : lease'[v] = IF v = w THEN NoLease ELSE lease[v]
    BY <1>0, <1>5 DEF AbandonStaleLease, Settle, TypeOK
  <2>2. \A k \in Jobs : \A v \in Workers : Owns(v, k)' <=> Owns(v, k)
    BY <1>5, <2>1 DEF Owns, LeaseMatches, AbandonStaleLease
  <2> QED BY <1>0, <2>1, <2>2, Stutter
<1>6. ASSUME jobs' = jobs, lease' = lease PROVE AbstractJobs' = AbstractJobs
  <2>1. \A k \in Jobs : \A v \in Workers : Owns(v, k)' <=> Owns(v, k)
    BY <1>6 DEF Owns, LeaseMatches
  <2> QED BY <1>0, <1>6, <2>1, Stutter
<1>7. ASSUME NEW w \in Workers, NEW l \in sweep[w], SweepExhaust(w, l)
      PROVE  Lifecycle!Next \/ AbstractJobs' = AbstractJobs
  <2>1. l.job \in Jobs /\ lease' = lease
    BY <1>0, <1>7, LeaseFields DEF TypeOK, SweepExhaust
  <2>2. CASE ~LeaseMatches(l)
    BY <1>6, <1>7, <2>1, <2>2 DEF SweepExhaust
  <2>3. CASE LeaseMatches(l)
    <3>1. jobs' = [jobs EXCEPT ![l.job] = Unlocked(jobs[l.job], "failed")]
      BY <1>7, <2>3 DEF SweepExhaust
    <3>2. /\ jobs[l.job] \in Job /\ jobs[l.job].status = "running"
          /\ jobs[l.job].attempt \in Nat /\ jobs[l.job].max \in Nat
          /\ ~(jobs[l.job].attempt < jobs[l.job].max)
      BY <1>0, <2>1, <2>3 DEF IInv, SweepInv, ExpiredOut, TypeOK, Job
    <3>3. "failed" \in Status \ {"running"}
      BY DEF Status, Terminal
    <3> DEFINE row == Unlocked(jobs[l.job], "failed")
    <3>4. row.status = "failed" /\ row.attempt = jobs[l.job].attempt /\ row.max = jobs[l.job].max
      BY <3>2, <3>3, UnlockedRow
    <3>5. jobs'[l.job] = row /\ \A k \in Jobs : k # l.job => jobs'[k] = jobs[k]
      BY <1>0, <2>1, <3>1 DEF TypeOK
    <3> HIDE DEF row
    <3>6. Lifecycle!Expire({l.job})
      BY <2>1, <3>2, <3>4, <3>5, SweepImplements
    <3> QED BY <2>1, <3>6 DEF Lifecycle!Next
  <2> QED BY <2>2, <2>3
<1>8. ASSUME NEW w \in Workers, SweepRequeue(w) PROVE Lifecycle!Next
  <2>s. PICK S \in SUBSET Jobs : S = {k \in Jobs : Requeueable(k)}
    OBVIOUS
  <2>1. /\ lease' = lease
        /\ jobs' = [k \in Jobs |-> IF Requeueable(k) THEN Unlocked(jobs[k], "queued")
                                                     ELSE jobs[k]]
    BY <1>8 DEF SweepRequeue
  <2>2. "queued" \in Status \ {"running"}
    BY DEF Status
  <2>3. ASSUME NEW k \in S
        PROVE  /\ jobs[k].status = "running" /\ jobs[k].attempt < jobs[k].max
               /\ jobs'[k].status = "queued" /\ jobs'[k].attempt = jobs[k].attempt
               /\ jobs'[k].max = jobs[k].max
    <3>1. jobs[k] \in Job /\ jobs'[k] = Unlocked(jobs[k], "queued")
      BY <1>0, <2>1, <2>s DEF TypeOK
    <3>2. jobs[k].status = "running" /\ jobs[k].attempt < jobs[k].max
      BY <2>s DEF Requeueable
    <3>3. /\ Unlocked(jobs[k], "queued").status = "queued"
          /\ Unlocked(jobs[k], "queued").attempt = jobs[k].attempt
          /\ Unlocked(jobs[k], "queued").max = jobs[k].max
      BY <2>2, <3>1, UnlockedRow
    <3> QED BY <3>1, <3>2, <3>3
  <2>4. \A k \in Jobs \ S : jobs'[k] = jobs[k]
    BY <2>1, <2>s
  <2>6. Lifecycle!Expire(S)
    BY <2>1, <2>3, <2>4, SweepImplements
  <2> QED BY <2>6 DEF Lifecycle!Next
<1>9. ASSUME NEW w \in Workers, AbandonCycle(w)
      PROVE  Lifecycle!Next \/ AbstractJobs' = AbstractJobs
  BY <1>9, AbandonImplements DEF Lifecycle!Next
<1>10. ASSUME \/ \E w \in Workers : NoJobClaimed(w) \/ BeginSweep(w)
                                    \/ \E l \in sweep[w] : SweepError(w, l)
              \/ UNCHANGED vars
       PROVE  AbstractJobs' = AbstractJobs
  <2>1. jobs' = jobs /\ lease' = lease
    BY <1>10 DEF NoJobClaimed, BeginSweep, SweepError, vars
  <2> QED BY <1>6, <2>1
<1> QED
  BY <1>1, <1>2, <1>3, <1>4, <1>5, <1>7, <1>8, <1>9, <1>10
     DEF Next, SweepStep, PollStep, SettleStep

\* The queue implements its lifecycle: whatever the leases, the clock and the
\* sweeps do, a job has one holder, only the holder or an expiry ends an
\* attempt, an exhausted job fails, and an outcome is final.
THEOREM QueueImplementsLifecycle == Spec => ImplementsLifecycle
<1>1. Init => Lifecycle!Init
  BY InitImplements
<1>2. IInv /\ IInv' /\ [Next]_vars => [Lifecycle!Next]_AbstractJobs
  BY StepImplements
<1>3. AbstractJobs = [j \in Jobs |-> [status |-> jobs[j].status, attempt |-> jobs[j].attempt,
                                      max |-> jobs[j].max, holder |-> Holder(j)]]
  BY DEF AbstractJobs, AbstractRow
<1> QED
  BY <1>1, <1>2, <1>3, QueueInvariant, PTL
     DEF Spec, ImplementsLifecycle, Lifecycle!Spec, AbstractJobs, AbstractRow
=============================================================================
