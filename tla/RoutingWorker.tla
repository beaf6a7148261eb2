--------------------------- MODULE RoutingWorker ---------------------------
(***************************************************************************)
(* The execution of routing jobs: runWorkerOnce of apps/worker/src/        *)
(* runner.ts around processChangeRequest of packages/application/src/      *)
(* routing.ts, with the decision row and its event (packages/db/src/       *)
(* decisions.ts) and the human-review policy check that the attempt opens  *)
(* on GitHub (apps/worker/src/runtime-services.ts).                        *)
(*                                                                         *)
(* An attempt is a sequence of database transactions and GitHub requests.  *)
(* Any of them may fail, the process may die between any two, and a worker *)
(* whose lease was taken away goes on until it settles: nothing on the way *)
(* looks at the lease.  The queue is JobQueue; each step here either takes *)
(* one step of it or leaves it alone.                                      *)
(*                                                                         *)
(* A job stands for one routing identity (repository, pull request, base   *)
(* and head): its row, its decision, its event and its check runs.  What   *)
(* an attempt decides is read from GitHub, the configuration, absences and *)
(* reviewer load, which change between attempts: any of Decisions.         *)
(***************************************************************************)
EXTENDS JobQueue, Sequences

CONSTANTS
  Decisions,             \* results of routing, as far as the event shows them
  RouteOf,               \* the route of each: see Routes
  NoDecision,
  FinalizationAttempts   \* POLICY_CHECK_FINALIZATION_ATTEMPTS (3)

\* A shadow decision (a configuration failure is one) writes nothing to GitHub.
Routes == {"human_review", "no_human", "no_eligible_reviewer", "shadow"}

ASSUME RoutingAssumption ==
  /\ RouteOf \in [Decisions -> Routes]
  /\ NoDecision \notin Decisions
  /\ FinalizationAttempts \in Nat \ {0}

ActionStatus == {"pending", "not_applied", "succeeded", "failed"}
CheckState == {"in_progress", "success", "failure"}

\* The check recorded in the row is 0 while policy_check_run_id is null.
Decision == [value : Decisions \cup {NoDecision},
             status : {"none"} \cup ActionStatus,
             checkRun : Nat,
             checkState : {"not_started"} \cup CheckState]

Steps ==
  {"begin", "compute", "persist", "preflight", "find check", "create check",
   "record check", "act", "conclude check", "conclude row", "enqueue policy",
   "action done", "action failed", "finish", "caught", "find failed check",
   "fail check", "fail row", "finalized", "recovery failed"}

\* What an attempt remembers: its decision, the check run it works on with the
\* state it was found in, and the error being handled.
Attempt == [step : Steps \cup {"none"}, decision : Decisions \cup {NoDecision},
            checkRun : Nat, found : CheckState,
            error : {"none", "transient", "permanent"}]

NoAttempt == [step |-> "none", decision |-> NoDecision, checkRun |-> 0,
              found |-> "in_progress", error |-> "none"]

VARIABLES
  payload,   \* for each job, whether its payload carries a policyCheckFailureRecovery
  decision,  \* for each job, its row of routing_decisions
  event,     \* for each job, the event of its decision in decision_outbox
  checks,    \* for each job, its check runs on GitHub, by ascending id
  applied,   \* for each job, the decisions whose writes to GitHub have begun
  complete,  \* for each job, the decisions whose writes have all been made
  queued,    \* for each job, whether its policy evaluation job was enqueued
  head,      \* for each job, whether the routed head is still the current one
  run        \* for each worker, the local state of the attempt it executes

routing == <<payload, decision, event, checks, applied, complete, queued, head>>
routingVars == <<vars, routing, run>>

RoutingInit ==
  /\ Init
  /\ payload = [j \in Jobs |-> "routing"]
  /\ decision = [j \in Jobs |-> [value |-> NoDecision, status |-> "none",
                                 checkRun |-> 0, checkState |-> "not_started"]]
  /\ event = [j \in Jobs |-> NoDecision]
  /\ checks = [j \in Jobs |-> <<>>]
  /\ applied = [j \in Jobs |-> {}]
  /\ complete = [j \in Jobs |-> {}]
  /\ queued = [j \in Jobs |-> FALSE]
  /\ head = [j \in Jobs |-> "current"]
  /\ run = [w \in Workers |-> NoAttempt]

-----------------------------------------------------------------------------
(* The local state of an attempt *)

At(w, step) == phase[w] = "executing" /\ run[w].step = step

JobOf(w) == lease[w].job

Goto(w, step) == run' = [run EXCEPT ![w].step = step]

Raise(w, step, error) == run' = [run EXCEPT ![w].step = step, ![w].error = error]

\* The attempt goes on with a check run, found in a state.
Take(w, step, checkRun, state) ==
  run' = [run EXCEPT ![w] = [@ EXCEPT !.step = step, !.checkRun = checkRun,
                                      !.found = state]]

\* Steps inside the try block around applyActions, and inside the recovery.
ActionSteps == {"preflight", "find check", "create check", "record check", "act",
                "conclude check", "conclude row", "enqueue policy"}
RecoverySteps == {"find failed check", "fail check", "fail row"}

\* Which catch clause receives an error thrown at a step.
Handler(step) ==
  CASE step \in ActionSteps -> "action failed"
    [] step \in RecoverySteps -> "recovery failed"
    [] OTHER -> "caught"

\* A GitHub request fails for good (401, 403, 422) or transiently; so does an
\* error of the database, which is always transient.
DatabaseSteps == {"begin", "persist", "record check", "conclude row", "enqueue policy",
                  "action failed", "action done", "fail row"}
ProviderSteps == {"compute", "preflight", "find check", "create check",
                  "conclude check", "find failed check", "fail check"}

Throw(w) ==
  /\ phase[w] = "executing"
  /\ \/ run[w].step \in DatabaseSteps \cup ProviderSteps
        /\ Raise(w, Handler(run[w].step), "transient")
     \/ run[w].step \in ProviderSteps
        /\ Raise(w, Handler(run[w].step), "permanent")
  /\ UNCHANGED <<vars, routing>>

-----------------------------------------------------------------------------
(* Claiming: a payload with a failure recovery is finalized, not routed *)

FirstStep(j) == IF payload[j] = "routing" THEN "begin" ELSE "find failed check"

Claim(w, j) ==
  /\ ClaimNext(w, j)
  /\ run' = [run EXCEPT ![w] = [NoAttempt EXCEPT !.step = FirstStep(j)]]
  /\ UNCHANGED routing

-----------------------------------------------------------------------------
(* processChangeRequest *)

\* findCompleted: a decision whose actions succeeded is not made again.
Begin(w) ==
  /\ At(w, "begin")
  /\ Goto(w, IF decision[JobOf(w)].status = "succeeded" THEN "finish" ELSE "compute")
  /\ UNCHANGED <<vars, routing>>

\* The pull request is a draft, on an excluded branch, or has a newer head.
Skip(w) ==
  /\ At(w, "compute")
  /\ Goto(w, "finish")
  /\ UNCHANGED <<vars, routing>>

Compute(w, d) ==
  /\ At(w, "compute")
  /\ head[JobOf(w)] = "current"
  /\ run' = [run EXCEPT ![w].step = "persist", ![w].decision = d]
  /\ UNCHANGED <<vars, routing>>

\* The status a decision is inserted with, also over a failed attempt's.
InitialStatus(d) == IF RouteOf[d] \in {"human_review", "no_human"} THEN "pending"
                                                                  ELSE "not_applied"

\* A slip: a retry overwrites whatever the row holds.
RefreshedAlways(row, d) == [row EXCEPT !.value = d, !.status = InitialStatus(d)]

\* The upsert: every column is preserved once the actions have succeeded.
Refreshed(row, d) ==
  IF row.status = "succeeded" THEN row
  ELSE [row EXCEPT !.value = d, !.status = InitialStatus(d)]

\* A slip: the event on record is not compared.
EventAcceptedUnchecked(j, d) == Refreshed(decision[j], d).value = d

\* The event of this attempt must match the row and the event on record.
EventAccepted(j, d) ==
  /\ Refreshed(decision[j], d).value = d
  /\ event[j] \in {NoDecision, d}

\* persistDecisionWithEvent, one transaction.
Persist(w) ==
  /\ At(w, "persist")
  /\ LET j == JobOf(w)  d == run[w].decision  row == Refreshed(decision[j], d) IN
       /\ EventAccepted(j, d)
       /\ decision' = [decision EXCEPT ![j] = row]
       /\ event' = [event EXCEPT ![j] = d]
       /\ Goto(w, IF row.status = "succeeded" \/ RouteOf[d] = "shadow"
                  THEN "finish" ELSE "preflight")
  /\ UNCHANGED <<vars, payload, checks, applied, complete, queued, head>>

\* It is rolled back otherwise, and the DecisionValidationError is transient.
PersistRefused(w) ==
  /\ At(w, "persist")
  /\ ~EventAccepted(JobOf(w), run[w].decision)
  /\ Raise(w, "caught", "transient")
  /\ UNCHANGED <<vars, routing>>

-----------------------------------------------------------------------------
(* applyActions *)

Preflight(w) ==
  /\ At(w, "preflight")
  /\ IF head[JobOf(w)] = "current" THEN Goto(w, "find check")
                                   ELSE Raise(w, "action failed", "permanent")
  /\ UNCHANGED <<vars, routing>>

\* What evaluateHumanReviewPolicy says of a route before any review.
InitialCheck(d) == CASE RouteOf[d] = "no_human" -> "success"
                     [] RouteOf[d] = "no_eligible_reviewer" -> "failure"
                     [] OTHER -> "in_progress"

\* A slip: only the run on record is looked for.
FindRecordedCheck(w) ==
  /\ At(w, "find check")
  /\ LET j == JobOf(w) IN
       IF decision[j].checkRun # 0
       THEN Take(w, "act", decision[j].checkRun, run[w].found)
       ELSE Goto(w, "create check")
  /\ UNCHANGED <<vars, routing>>

\* ensureInitialPolicyCheck takes the run on record, else the newest on
\* GitHub, else it creates one.
FindCheck(w) ==
  /\ At(w, "find check")
  /\ LET j == JobOf(w)  newest == Len(checks[j]) IN
       IF decision[j].checkRun # 0
       THEN Take(w, "act", decision[j].checkRun, run[w].found)
       ELSE IF newest # 0
       THEN Take(w, "record check", newest, checks[j][newest])
       ELSE Goto(w, "create check")
  /\ UNCHANGED <<vars, routing>>

CreateCheck(w) ==
  /\ At(w, "create check")
  /\ LET j == JobOf(w)  state == InitialCheck(run[w].decision) IN
       /\ checks' = [checks EXCEPT ![j] = Append(@, state)]
       /\ Take(w, "record check", Len(checks[j]) + 1, state)
  /\ UNCHANGED <<vars, payload, decision, event, applied, complete, queued, head>>

\* recordPolicyCheck: a failure on record is terminal.
WithCheck(row, checkRun, state) ==
  IF row.checkState = "failure" THEN row
  ELSE [row EXCEPT !.checkRun = checkRun, !.checkState = state]

RecordCheck(w) ==
  /\ At(w, "record check")
  /\ decision' = [decision EXCEPT ![JobOf(w)] =
                    WithCheck(@, run[w].checkRun, run[w].found)]
  /\ Goto(w, "act")
  /\ UNCHANGED <<vars, payload, event, checks, applied, complete, queued, head>>

\* A slip: the outcome is recorded before the evaluation job exists.
AfterActionsWithoutPolicy(d) ==
  IF RouteOf[d] \in {"human_review", "no_human"} THEN "action done" ELSE "finish"

\* Only a decision persisted as pending has an outcome to record.
AfterActions(d) == CASE RouteOf[d] = "human_review" -> "enqueue policy"
                     [] RouteOf[d] = "no_human" -> "action done"
                     [] OTHER -> "finish"

\* The routing check, label, comment, review requests and approval.
Act(w) ==
  /\ At(w, "act")
  /\ LET j == JobOf(w)  d == run[w].decision IN
       /\ applied' = [applied EXCEPT ![j] = @ \cup {d}]
       /\ complete' = [complete EXCEPT ![j] = @ \cup {d}]
       /\ Goto(w, AfterActions(d))
  /\ UNCHANGED <<vars, payload, decision, event, checks, queued, head>>

\* One of them fails, after some of the others; a permanent error goes on to
\* conclude the check.
ActFails(w, error) ==
  /\ At(w, "act")
  /\ applied' = [applied EXCEPT ![JobOf(w)] = @ \cup {run[w].decision}]
  /\ Raise(w, IF error = "permanent" THEN "conclude check" ELSE "action failed", error)
  /\ UNCHANGED <<vars, payload, decision, event, checks, complete, queued, head>>

ConcludeCheck(w) ==
  /\ At(w, "conclude check")
  /\ checks' = [checks EXCEPT ![JobOf(w)][run[w].checkRun] = "failure"]
  /\ Goto(w, "conclude row")
  /\ UNCHANGED <<vars, payload, decision, event, applied, complete, queued, head>>

ConcludeRow(w) ==
  /\ At(w, "conclude row")
  /\ decision' = [decision EXCEPT ![JobOf(w)] = WithCheck(@, @.checkRun, "failure")]
  /\ Goto(w, "action failed")
  /\ UNCHANGED <<vars, payload, event, checks, applied, complete, queued, head>>

EnqueuePolicy(w) ==
  /\ At(w, "enqueue policy")
  /\ queued' = [queued EXCEPT ![JobOf(w)] = TRUE]
  /\ Goto(w, "action done")
  /\ UNCHANGED <<vars, payload, decision, event, checks, applied, complete, head>>

-----------------------------------------------------------------------------
(* The outcome of the actions *)

\* markActionSucceeded and markActionFailed.
WithStatus(row, status) ==
  IF row.status = "succeeded" THEN row ELSE [row EXCEPT !.status = status]

ActionDone(w) ==
  /\ At(w, "action done")
  /\ decision' = [decision EXCEPT ![JobOf(w)] = WithStatus(@, "succeeded")]
  /\ Goto(w, "finish")
  /\ UNCHANGED <<vars, payload, event, checks, applied, complete, queued, head>>

ActionFailed(w) ==
  /\ At(w, "action failed")
  /\ decision' = [decision EXCEPT ![JobOf(w)] = WithStatus(@, "failed")]
  /\ Goto(w, "caught")
  /\ UNCHANGED <<vars, payload, event, checks, applied, complete, queued, head>>

-----------------------------------------------------------------------------
(* failPolicyCheck, the only thing a claim with a failure recovery does *)

\* A slip: only the run on record is looked for.
FindRecordedFailedCheck(w) ==
  /\ At(w, "find failed check")
  /\ IF decision[JobOf(w)].checkRun = 0
     THEN Goto(w, "finalized")
     ELSE Take(w, "fail check", decision[JobOf(w)].checkRun, run[w].found)
  /\ UNCHANGED <<vars, routing>>

FindFailedCheck(w) ==
  /\ At(w, "find failed check")
  /\ LET j == JobOf(w)
         checkRun == IF decision[j].checkRun # 0 THEN decision[j].checkRun
                                                 ELSE Len(checks[j]) IN
       IF decision[j].status = "none" \/ checkRun = 0
       THEN Goto(w, "finalized")
       ELSE Take(w, "fail check", checkRun, run[w].found)
  /\ UNCHANGED <<vars, routing>>

FailCheck(w) ==
  /\ At(w, "fail check")
  /\ checks' = [checks EXCEPT ![JobOf(w)][run[w].checkRun] = "failure"]
  /\ Goto(w, "fail row")
  /\ UNCHANGED <<vars, payload, decision, event, applied, complete, queued, head>>

FailRow(w) ==
  /\ At(w, "fail row")
  /\ decision' = [decision EXCEPT ![JobOf(w)] = WithCheck(@, run[w].checkRun, "failure")]
  /\ Goto(w, "finalized")
  /\ UNCHANGED <<vars, payload, event, checks, applied, complete, queued, head>>

-----------------------------------------------------------------------------
(* Settling the job *)

Done(w) == run' = [run EXCEPT ![w] = NoAttempt]

Finish(w) ==
  /\ At(w, "finish")
  /\ MarkSucceeded(w)
  /\ Done(w)
  /\ UNCHANGED routing

\* A slip: the exhausted attempt is failed like any other.
ShouldFinalizeNever(w) == FALSE

\* Transient errors have used up the attempts.
ShouldFinalize(w) == run[w].error = "transient" /\ lease[w].attempt >= lease[w].max

\* A slip: the finalizer gets no attempt of its own.
FinalizationLimitUnchanged(w) == lease[w].max

FinalizationLimit(w) == lease[w].attempt + FinalizationAttempts

\* max_attempts is raised without a bound in the code, by AttemptCap here.
CatchAndFinalize(w) ==
  /\ At(w, "caught")
  /\ ShouldFinalize(w)
  /\ FinalizationLimit(w) <= AttemptCap
  /\ MarkFailedWithRecovery(w, FinalizationLimit(w))
  /\ payload' = [payload EXCEPT ![JobOf(w)] = "failure"]
  /\ Done(w)
  /\ UNCHANGED <<decision, event, checks, applied, complete, queued, head>>

CatchAndRetry(w) ==
  /\ At(w, "caught")
  /\ ~ShouldFinalize(w)
  /\ MarkFailed(w, run[w].error = "transient")
  /\ Done(w)
  /\ UNCHANGED routing

\* The check is settled: the job fails with the error it was recovering from.
Finalized(w) ==
  /\ At(w, "finalized")
  /\ MarkFailed(w, FALSE)
  /\ Done(w)
  /\ UNCHANGED routing

RecoveryFailed(w) ==
  /\ At(w, "recovery failed")
  /\ MarkFailed(w, run[w].error = "transient")
  /\ Done(w)
  /\ UNCHANGED routing

\* An error of the recovery's own transition reaches the catch clause as well.
RecoveryUnsettled(w) ==
  /\ phase[w] = "executing" /\ run[w].step \in {"finalized", "recovery failed"}
  /\ Raise(w, "caught", "transient")
  /\ UNCHANGED <<vars, routing>>

\* The transition finds no row and the StaleJobLeaseError ends the cycle.
SettleStale(w) ==
  /\ phase[w] = "executing"
  /\ run[w].step \in {"finish", "caught", "finalized", "recovery failed"}
  /\ AbandonStaleLease(w)
  /\ Done(w)
  /\ UNCHANGED routing

Crash(w) ==
  /\ AbandonCycle(w)
  /\ Done(w)
  /\ UNCHANGED routing

-----------------------------------------------------------------------------
\* A push to the pull request.
HeadMoves(j) ==
  /\ head[j] = "current"
  /\ head' = [head EXCEPT ![j] = "moved"]
  /\ UNCHANGED <<vars, payload, decision, event, checks, applied, complete, queued, run>>

\* Producers, the clock, sweeps and polls that claim nothing.
QueueStep ==
  /\ \/ \E j \in Jobs : Enqueue(j) \/ BecomeDue(j) \/ BecomeStale(j)
     \/ \E w \in Workers : SweepStep(w) \/ NoJobClaimed(w)
  /\ UNCHANGED <<routing, run>>

AttemptStep(w) ==
  \/ Begin(w) \/ Skip(w) \/ \E d \in Decisions : Compute(w, d)
  \/ Persist(w) \/ PersistRefused(w)
  \/ Preflight(w) \/ FindCheck(w) \/ CreateCheck(w) \/ RecordCheck(w)
  \/ Act(w) \/ \E error \in {"transient", "permanent"} : ActFails(w, error)
  \/ ConcludeCheck(w) \/ ConcludeRow(w) \/ EnqueuePolicy(w)
  \/ ActionDone(w) \/ ActionFailed(w)
  \/ FindFailedCheck(w) \/ FailCheck(w) \/ FailRow(w) \/ RecoveryUnsettled(w)

SettleAttempt(w) ==
  \/ Finish(w) \/ CatchAndFinalize(w) \/ CatchAndRetry(w) \/ Finalized(w)
  \/ RecoveryFailed(w) \/ SettleStale(w)

RoutingNext ==
  \/ QueueStep
  \/ \E j \in Jobs : HeadMoves(j)
  \/ \E w \in Workers :
       \/ \E j \in Jobs : Claim(w, j)
       \/ AttemptStep(w) \/ Throw(w) \/ SettleAttempt(w) \/ Crash(w)

RoutingSpec == RoutingInit /\ [][RoutingNext]_routingVars

-----------------------------------------------------------------------------
(* Properties *)

\* The type invariant of what the runner adds to the queue; a worker remembers
\* an attempt exactly while it executes a job.
RoutingTypeOK ==
  /\ payload \in [Jobs -> {"routing", "failure"}]
  /\ decision \in [Jobs -> Decision]
  /\ event \in [Jobs -> Decisions \cup {NoDecision}]
  /\ checks \in [Jobs -> Seq(CheckState)]
  /\ applied \in [Jobs -> SUBSET Decisions]
  /\ complete \in [Jobs -> SUBSET Decisions]
  /\ queued \in [Jobs -> BOOLEAN]
  /\ head \in [Jobs -> {"current", "moved"}]
  /\ run \in [Workers -> Attempt]
  /\ \A w \in Workers : phase[w] = "executing" <=> run[w].step # "none"

\* The runner settles, retries and recovers jobs only as the queue allows:
\* every behaviour of the runner is one of the queue.
RunsTheQueue == Spec

\* Whatever attempts compute, and however late they write, GitHub only ever
\* sees the decision that the published event and the row describe: a retry
\* that computes another one is refused before its first write.
AppliedAsPublished ==
  \A j \in Jobs : \A d \in applied[j] : event[j] = d /\ decision[j].value = d

\* A decision counts as succeeded only when all its writes were made, its
\* policy check is on record and, on the human route, the job that will
\* evaluate the check exists, whichever attempts did which part.
SuccessMeansDone ==
  \A j \in Jobs :
    LET row == decision[j] IN
      row.status = "succeeded" =>
        /\ row.value \in complete[j]
        /\ row.checkRun # 0
        /\ RouteOf[row.value] = "human_review" => queued[j]

\* Once the actions have succeeded neither a retry nor an attempt that lost
\* its lease changes what was decided or takes the outcome back.
SuccessIsFinal ==
  [][\A j \in Jobs :
       decision[j].status = "succeeded"
         => /\ decision'[j].status = "succeeded"
            /\ decision'[j].value = decision[j].value]_routingVars

\* A failed policy check on record stays failed: no attempt reopens it, also
\* when it found another state on GitHub before the failure was recorded.
CheckFailureIsFinal ==
  [][\A j \in Jobs :
       decision[j].checkState = "failure" => decision'[j].checkState = "failure"]_routingVars

FailedBy(w, j) == Owns(w, j) /\ lease'[w] = NoLease /\ jobs'[j].status = "failed"

\* A job that is to be finalized never succeeds, whoever is late; and a job
\* fails in its finalization, by a permanent error of its owner, or because a
\* sweep found its last attempt expired: never because transient errors used up
\* its attempts (apps/worker/src/runner.ts:156).
ExhaustionIsFinalized ==
  [][\A j \in Jobs :
       /\ payload[j] = "failure" => jobs'[j].status # "succeeded"
       /\ jobs[j].status # "failed" /\ jobs'[j].status = "failed" =>
            \/ payload[j] = "failure"
            \/ \E w \in Workers : FailedBy(w, j) /\ run[w].error = "permanent"
            \/ lease' = lease /\ ExpiredOut(j)]_routingVars

-----------------------------------------------------------------------------
(* Properties of a single worker, which is what the deployment runs *)

\* A crash between the creation of a check run and its recording does not
\* lead to a second run for the decision.
OneCheckRun == \A j \in Jobs : Len(checks[j]) <= 1

\* A finalization that ends a job leaves no check of it undecided or passed,
\* on GitHub and in the row.
FinalizedChecksFailed ==
  [][\A j \in Jobs : \A w \in Workers :
       FailedBy(w, j) /\ run[w].step = "finalized"
         => \A i \in 1 .. Len(checks[j]) :
              checks[j][i] = "failure" /\ decision[j].checkState = "failure"]_routingVars

\* docs/architecture.md:32 says the check "fails for an eligibility,
\* configuration, authorization, or permanent evaluation failure": a job that
\* fails on a permanent error before the attempt reached its check, the routed
\* head being current, leaves no check of an earlier attempt in progress.
PermanentFailureConcludesCheck ==
  [][\A j \in Jobs : \A w \in Workers :
       FailedBy(w, j) /\ run[w].error = "permanent" /\ run[w].checkRun = 0
       /\ head[j] = "current"
         => \A i \in 1 .. Len(checks[j]) : checks[j][i] # "in_progress"]_routingVars

-----------------------------------------------------------------------------
(* The inductive invariant behind AppliedAsPublished and SuccessMeansDone  *)

\* A check state on record names its run.
CheckOnRecord(row) == row.checkState = "not_started" \/ row.checkRun # 0

\* Persisted together, the row and its event agree; what was written to
\* GitHub is what they say.
PublishedInv ==
  \A j \in Jobs :
    /\ decision[j].value = event[j]
    /\ CheckOnRecord(decision[j])
    /\ applied[j] \subseteq {event[j]}
    /\ complete[j] \subseteq applied[j]

\* An attempt past the transaction works on the published decision, and what
\* its next steps take for granted has been written.
AttemptOK(w) ==
  LET j == JobOf(w)  d == run[w].decision  step == run[w].step IN
    /\ step = "persist" => d \in Decisions
    /\ step \in ActionSteps \cup {"action done"} => d \in Decisions /\ d = event[j]
    /\ step \in {"record check", "act", "conclude check", "fail check", "fail row"}
         => run[w].checkRun # 0
    /\ step \in {"act", "conclude check", "conclude row", "enqueue policy", "action done"}
         => decision[j].checkRun # 0
    /\ step \in {"enqueue policy", "action done"} => d \in complete[j]
    /\ step = "action done" /\ RouteOf[d] = "human_review" => queued[j]

AttemptInv == \A w \in Workers : phase[w] = "executing" => AttemptOK(w)

RoutingInv == RoutingTypeOK /\ PublishedInv /\ AttemptInv /\ SuccessMeansDone
=============================================================================
