------------------------------ MODULE JobQueue ------------------------------
(***************************************************************************)
(* The durable job queue of packages/db/src/jobs.ts.                       *)
(*                                                                         *)
(* Web processes enqueue jobs; worker processes claim them, settle them    *)
(* under a lease, and sweep up the jobs whose lease has expired.  A lease  *)
(* is a copy, in the memory of the worker that claimed the job, of the     *)
(* row's locked_by, attempt_count and max_attempts.  It stays in that      *)
(* memory after the row has moved on: a worker that was slow for longer    *)
(* than the lease is then a "zombie", and every transition it attempts     *)
(* must find no row.                                                       *)
(*                                                                         *)
(* A worker's loop sweeps, then claims at most one job, then executes and  *)
(* settles it (apps/worker/src/main.ts).                                   *)
(*                                                                         *)
(* Time is abstracted to the two facts the code computes from it: whether  *)
(* run_at has passed (due, with the order in which it passed in earlier)   *)
(* and whether locked_at is older than the stale limit (stale).  The       *)
(* locked_at column is part of the lease in the code; two claims of one    *)
(* job whose locked_at are equal need a clock that steps back, and the     *)
(* model lets them be equal: leases are told apart by locked_by and        *)
(* attempt_count alone, which is the weaker check.                         *)
(***************************************************************************)
EXTENDS Naturals

CONSTANTS
  Jobs,               \* rows of the jobs table, one per idempotency key
  Workers,            \* worker processes, overlapping restarts included
  WorkerIds,          \* values of WORKER_ID
  WorkerId,           \* the WORKER_ID of each process: two may share one
  DefaultMaxAttempts, \* max_attempts of a job at its insertion (5)
  AttemptCap,         \* bound: no recovery raises max_attempts above this
  NoWorker, NoLease   \* the null locked_by, and "this worker holds no job"

ASSUME ConstantsAssumption ==
  /\ WorkerId \in [Workers -> WorkerIds]
  /\ DefaultMaxAttempts \in Nat \ {0}
  /\ AttemptCap \in Nat /\ DefaultMaxAttempts <= AttemptCap
  /\ NoWorker \notin WorkerIds

Terminal == {"succeeded", "failed"}
Status == {"absent", "queued", "running"} \cup Terminal

\* A row names its worker exactly while it runs.
Job == {row \in [status : Status, attempt : Nat, max : Nat,
                 lockedBy : WorkerIds \cup {NoWorker}, due : BOOLEAN, stale : BOOLEAN] :
          row.status = "running" <=> row.lockedBy # NoWorker}

Lease == [job : Jobs, lockedBy : WorkerIds, attempt : Nat, max : Nat]

ASSUME NoLeaseAssumption == NoLease \notin Lease

VARIABLES
  jobs,      \* the jobs table
  earlier,   \* for each job, the jobs whose run_at passed before its own
  lease,     \* for each worker, the lease of the job it is executing
  phase,     \* for each worker, where it is in its loop
  sweep      \* for each worker, the exhausted leases its sweep still has to end

vars == <<jobs, earlier, lease, phase, sweep>>

Init ==
  /\ jobs = [j \in Jobs |-> [status |-> "absent", attempt |-> 0,
                             max |-> DefaultMaxAttempts, lockedBy |-> NoWorker,
                             due |-> FALSE, stale |-> FALSE]]
  /\ earlier = [j \in Jobs |-> {}]
  /\ lease = [w \in Workers |-> NoLease]
  /\ phase = [w \in Workers |-> "idle"]
  /\ sweep = [w \in Workers |-> {}]

-----------------------------------------------------------------------------
(* Rows and leases *)

LeaseOf(j) == [job |-> j, lockedBy |-> jobs[j].lockedBy,
               attempt |-> jobs[j].attempt, max |-> jobs[j].max]

\* A slip: a lease known by its worker alone.
LeaseMatchesAnyAttempt(l) ==
  jobs[l.job].status = "running" /\ jobs[l.job].lockedBy = l.lockedBy

\* The WHERE clause of every transition.
LeaseMatches(l) ==
  /\ jobs[l.job].status = "running"
  /\ jobs[l.job].lockedBy = l.lockedBy
  /\ jobs[l.job].attempt = l.attempt

Owns(w, j) == /\ lease[w] # NoLease
              /\ lease[w].job = j
              /\ LeaseMatches(lease[w])

DueJobs == {j \in Jobs : jobs[j].due}

\* run_at of j passes: every job already due is before it in claim order.
Arrives(j) == earlier' = [earlier EXCEPT ![j] = DueJobs \ {j}]

\* run_at of j moves into the future: it is before nobody any more.
Leaves(j) == earlier' = [k \in Jobs |-> IF k = j THEN {} ELSE earlier[k] \ {j}]

\* A transition clears locked_at and locked_by and sets a status.
Unlocked(row, status) ==
  [row EXCEPT !.status = status, !.lockedBy = NoWorker, !.stale = FALSE]

\* Queued again with a run_at in the future.
Delayed(row, maxAttempts) ==
  [Unlocked(row, "queued") EXCEPT !.due = FALSE, !.max = maxAttempts]

Settle(w) == /\ lease' = [lease EXCEPT ![w] = NoLease]
             /\ phase' = [phase EXCEPT ![w] = "idle"]

-----------------------------------------------------------------------------
(* The clock *)

BecomeDue(j) ==
  /\ jobs[j].status = "queued"
  /\ ~jobs[j].due
  /\ jobs' = [jobs EXCEPT ![j].due = TRUE]
  /\ Arrives(j)
  /\ UNCHANGED <<lease, phase, sweep>>

BecomeStale(j) ==
  /\ jobs[j].status = "running"
  /\ ~jobs[j].stale
  /\ jobs' = [jobs EXCEPT ![j].stale = TRUE]
  /\ UNCHANGED <<earlier, lease, phase, sweep>>

-----------------------------------------------------------------------------
(* Producers *)

\* An insert whose key is taken returns the existing row and changes nothing.
Enqueue(j) ==
  /\ jobs[j].status = "absent"
  /\ jobs' = [jobs EXCEPT ![j].status = "queued"]
  /\ UNCHANGED <<earlier, lease, phase, sweep>>

-----------------------------------------------------------------------------
(* Claiming and settling *)

\* A slip: any row that is due.
ClaimableWhenDue(j) == jobs[j].due

Claimable(j) == jobs[j].status = "queued" /\ jobs[j].due

\* The due job with the least run_at.  FOR UPDATE SKIP LOCKED passes over a
\* row only while the claim of another worker holds it.
ClaimNext(w, j) ==
  /\ phase[w] = "polling"
  /\ Claimable(j)
  /\ \A k \in earlier[j] :
       Claimable(k) => \E v \in Workers \ {w} : phase[v] = "polling"
  /\ jobs' = [jobs EXCEPT ![j].status = "running", ![j].lockedBy = WorkerId[w],
                          ![j].attempt = @ + 1, ![j].stale = FALSE]
  /\ lease' = [lease EXCEPT ![w] = [job |-> j, lockedBy |-> WorkerId[w],
                                    attempt |-> jobs[j].attempt + 1,
                                    max |-> jobs[j].max]]
  /\ phase' = [phase EXCEPT ![w] = "executing"]
  /\ UNCHANGED <<earlier, sweep>>

\* claimNext returned no row: none is due, or other workers hold them all.
NoJobClaimed(w) ==
  /\ phase[w] = "polling"
  /\ phase' = [phase EXCEPT ![w] = "idle"]
  /\ UNCHANGED <<jobs, earlier, lease, sweep>>

Executing(w) == phase[w] = "executing" /\ LeaseMatches(lease[w])

MarkSucceeded(w) ==
  /\ Executing(w)
  /\ jobs' = [jobs EXCEPT ![lease[w].job] = Unlocked(@, "succeeded")]
  /\ Settle(w)
  /\ UNCHANGED <<earlier, sweep>>

\* markFailed without recovery: the attempt limit is the lease's copy of it.
Exhausted(l, retryable) == ~retryable \/ l.attempt >= l.max

MarkFailed(w, retryable) ==
  /\ Executing(w)
  /\ LET j == lease[w].job IN
       IF Exhausted(lease[w], retryable)
       THEN /\ jobs' = [jobs EXCEPT ![j] = Unlocked(@, "failed")]
            /\ UNCHANGED earlier
       ELSE /\ jobs' = [jobs EXCEPT ![j] = Delayed(@, @.max)]
            /\ Leaves(j)
  /\ Settle(w)
  /\ UNCHANGED sweep

\* markFailed with recovery: never exhausted, and max_attempts is replaced.
MarkFailedWithRecovery(w, maxAttempts) ==
  /\ Executing(w)
  /\ LET j == lease[w].job IN
       /\ jobs' = [jobs EXCEPT ![j] = Delayed(@, maxAttempts)]
       /\ Leaves(j)
  /\ Settle(w)
  /\ UNCHANGED sweep

\* exhaustReviewerAbsenceActivation, as the queue sees it.
ExhaustActivation(w) ==
  /\ Executing(w)
  /\ jobs' = [jobs EXCEPT ![lease[w].job] = Unlocked(@, "failed")]
  /\ Settle(w)
  /\ UNCHANGED <<earlier, sweep>>

\* Every transition above returns stale_lease when no row matches.
AbandonStaleLease(w) ==
  /\ phase[w] = "executing"
  /\ ~LeaseMatches(lease[w])
  /\ Settle(w)
  /\ UNCHANGED <<jobs, earlier, sweep>>

-----------------------------------------------------------------------------
(* recoverStaleJobs: an unlocked read, one transaction per exhausted job,  *)
(* then one bulk update that requeues the rest                             *)

ExpiredOut(j) == jobs[j].status = "running" /\ jobs[j].stale
                 /\ jobs[j].attempt >= jobs[j].max

BeginSweep(w) ==
  /\ phase[w] = "idle"
  /\ phase' = [phase EXCEPT ![w] = "sweeping"]
  /\ sweep' = [sweep EXCEPT ![w] = {LeaseOf(j) : j \in {k \in Jobs : ExpiredOut(k)}}]
  /\ UNCHANGED <<jobs, earlier, lease>>

\* The exhausting transaction, or failIsolatedStaleJob after it threw.
SweepExhaust(w, l) ==
  /\ phase[w] = "sweeping" /\ l \in sweep[w]
  /\ jobs' = IF LeaseMatches(l)
             THEN [jobs EXCEPT ![l.job] = Unlocked(@, "failed")]
             ELSE jobs
  /\ sweep' = [sweep EXCEPT ![w] = @ \ {l}]
  /\ UNCHANGED <<earlier, lease, phase>>

\* Both transactions threw; the second error is swallowed.
SweepError(w, l) ==
  /\ phase[w] = "sweeping" /\ l \in sweep[w]
  /\ sweep' = [sweep EXCEPT ![w] = @ \ {l}]
  /\ UNCHANGED <<jobs, earlier, lease, phase>>

\* A slip: the last attempt is never taken back.
RequeueableTooEarly(j) == jobs[j].status = "running" /\ jobs[j].stale
                          /\ jobs[j].attempt + 1 < jobs[j].max

Requeueable(j) == jobs[j].status = "running" /\ jobs[j].stale
                  /\ jobs[j].attempt < jobs[j].max

SweepRequeue(w) ==
  /\ phase[w] = "sweeping" /\ sweep[w] = {}
  /\ jobs' = [j \in Jobs |-> IF Requeueable(j) THEN Unlocked(jobs[j], "queued")
                                               ELSE jobs[j]]
  /\ phase' = [phase EXCEPT ![w] = "polling"]
  /\ UNCHANGED <<earlier, lease, sweep>>

\* The process dies and is started again, or a database error ends this
\* iteration of its loop: what it remembered is gone, the rows stay.
AbandonCycle(w) ==
  /\ phase[w] # "idle"
  /\ lease' = [lease EXCEPT ![w] = NoLease]
  /\ phase' = [phase EXCEPT ![w] = "idle"]
  /\ sweep' = [sweep EXCEPT ![w] = {}]
  /\ UNCHANGED <<jobs, earlier>>

-----------------------------------------------------------------------------
Recover(w) ==
  /\ phase[w] = "executing"
  /\ \E m \in (lease[w].attempt + 1) .. AttemptCap : MarkFailedWithRecovery(w, m)

SettleStep(w) ==
  \/ MarkSucceeded(w)
  \/ \E retryable \in BOOLEAN : MarkFailed(w, retryable)
  \/ Recover(w)
  \/ ExhaustActivation(w)
  \/ AbandonStaleLease(w)

SweepStep(w) ==
  \/ BeginSweep(w)
  \/ \E l \in sweep[w] : SweepExhaust(w, l) \/ SweepError(w, l)
  \/ SweepRequeue(w)

PollStep(w) == (\E j \in Jobs : ClaimNext(w, j)) \/ NoJobClaimed(w)

Next ==
  \/ \E j \in Jobs : Enqueue(j) \/ BecomeDue(j) \/ BecomeStale(j)
  \/ \E w \in Workers : SweepStep(w) \/ PollStep(w) \/ SettleStep(w) \/ AbandonCycle(w)

Spec == Init /\ [][Next]_vars

\* Time passes and every worker keeps looping; a statement that a database
\* error can interrupt is not interrupted every time it is reached.
Fairness ==
  /\ \A j \in Jobs : WF_vars(BecomeDue(j)) /\ WF_vars(BecomeStale(j))
  /\ \A w \in Workers :
       /\ WF_vars(BeginSweep(w))
       /\ \A j \in Jobs :
            SF_vars(\E l \in {m \in sweep[w] : m.job = j} : SweepExhaust(w, l))
       /\ SF_vars(SweepRequeue(w))
       /\ SF_vars(\E j \in Jobs : ClaimNext(w, j))
       /\ WF_vars(PollStep(w))
       /\ WF_vars(SettleStep(w))

FairSpec == Spec /\ Fairness

-----------------------------------------------------------------------------
(* Properties *)

\* The type invariant of the queue's state; a worker has a lease exactly
\* while it executes.
TypeOK ==
  /\ jobs \in [Jobs -> Job]
  /\ earlier \in [Jobs -> SUBSET Jobs]
  /\ lease \in [Workers -> Lease \cup {NoLease}]
  /\ phase \in [Workers -> {"idle", "sweeping", "polling", "executing"}]
  /\ sweep \in [Workers -> SUBSET Lease]
  /\ \A w \in Workers : phase[w] = "executing" <=> lease[w] \in Lease

\* Two workers never both hold a lease that the WHERE clause of the queue's
\* transitions accepts for one job, though two of them may share a WORKER_ID
\* and a worker may still remember the lease of a job taken from it.
SingleOwner ==
  \A j \in Jobs : \A v, w \in Workers : Owns(v, j) /\ Owns(w, j) => v = w

\* Whatever mix of retries, recoveries and sweeps a job went through, a queued
\* job has an attempt left, no attempt exceeds the limit, and the copy of the
\* limit that markFailed compares with is the row's.
AttemptBudget ==
  \A j \in Jobs :
    /\ jobs[j].status = "queued" => jobs[j].attempt < jobs[j].max
    /\ jobs[j].status = "running" => jobs[j].attempt \in 1 .. jobs[j].max
    /\ \A w \in Workers : Owns(w, j) => lease[w].max = jobs[j].max

\* A running attempt is ended by the worker that owns it or, once its lease
\* is stale, by a sweep, also when the sweep read the row before other workers
\* retried it.
OwnerOrExpiryEndsAttempt ==
  [][\A j \in Jobs :
       jobs[j].status = "running" /\ jobs'[j].status # "running"
         => \/ jobs[j].stale
            \/ \E w \in Workers : Owns(w, j) /\ lease'[w] = NoLease]_vars

\* succeeded and failed are final: no late or repeated call changes the row.
OutcomeIsFinal ==
  [][\A j \in Jobs : jobs[j].status \in Terminal => jobs'[j] = jobs[j]]_vars

\* Every job that was enqueued succeeds or fails in the end, although workers
\* die, sweeps fail, and retries and recoveries put it back.
EveryJobSettles ==
  \A j \in Jobs : jobs[j].status = "queued" ~> jobs[j].status \in Terminal

\* The queue implements JobLifecycle: the holder of a job is the worker whose
\* lease its row still matches.
Holder(j) == IF \E w \in Workers : Owns(w, j)
             THEN CHOOSE w \in Workers : Owns(w, j) ELSE NoWorker

Lifecycle == INSTANCE JobLifecycle WITH
  Nobody <- NoWorker,
  job <- [j \in Jobs |-> [status |-> jobs[j].status, attempt |-> jobs[j].attempt,
                          max |-> jobs[j].max, holder |-> Holder(j)]]

ImplementsLifecycle == Lifecycle!Spec

-----------------------------------------------------------------------------
(* The inductive invariant behind SingleOwner, AttemptBudget and the       *)
(* refinement: attempt_count is a fencing token                            *)

RowInv ==
  \A j \in Jobs :
    /\ jobs[j].attempt <= jobs[j].max /\ jobs[j].max <= AttemptCap
    /\ jobs[j].status \in {"absent", "queued"} => jobs[j].attempt < jobs[j].max
    /\ jobs[j].status = "running" => jobs[j].attempt > 0

LeaseInv ==
  \A w \in Workers :
    lease[w] # NoLease =>
      /\ lease[w].lockedBy = WorkerId[w]
      /\ lease[w].attempt <= jobs[lease[w].job].attempt
      /\ LeaseMatches(lease[w]) => lease[w].max = jobs[lease[w].job].max

\* No two workers remember the same attempt of a job.
TokenInv ==
  \A v, w \in Workers :
    v # w /\ lease[v] # NoLease /\ lease[w] # NoLease /\ lease[v].job = lease[w].job
      => lease[v].attempt # lease[w].attempt

\* A lease a sweep still remembers is of the past, or stale and exhausted.
SweepInv ==
  \A w \in Workers : \A l \in sweep[w] :
    /\ l.attempt <= jobs[l.job].attempt
    /\ LeaseMatches(l) => ExpiredOut(l.job)

\* Every row, remembered lease and remembered sweep is consistent; it holds
\* initially and is preserved by every step of the queue.
IInv == TypeOK /\ RowInv /\ LeaseInv /\ TokenInv /\ SweepInv
=============================================================================
