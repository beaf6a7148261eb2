-------------------------- MODULE PolicyEvaluation --------------------------
(***************************************************************************)
(* The required human-review policy of one pull request: its decisions,    *)
(* one per routed head, the check runs of each on GitHub, and the jobs     *)
(* that re-evaluate the newest decision whenever a review arrives          *)
(* (packages/application/src/review-policy.ts with the services of         *)
(* apps/worker/src/runtime-services.ts, executed by apps/worker/src/       *)
(* runner.ts).                                                             *)
(*                                                                         *)
(* The jobs live in JobLifecycle, which JobQueue implements: a worker may  *)
(* die, lose a job that expires, or be told to retry.  A routing job is    *)
(* reduced to its effects on decisions and checks; RoutingWorker has the   *)
(* whole of it.                                                            *)
(*                                                                         *)
(* A webhook is accepted in the step that causes it: what is between the   *)
(* two is time in which the job is queued.                                 *)
(***************************************************************************)
EXTENDS JobLifecycle, Sequences

CONSTANTS
  Heads,                 \* head revisions of the pull request
  RouteOf,               \* the route decided for each head
  Reviews,               \* bound: review deliveries
  FinalizationAttempts,  \* POLICY_CHECK_FINALIZATION_ATTEMPTS (3)
  MayReturn,             \* bound: may a push return to an earlier head?
  MayReopen,             \* bound: may the pull request be closed and reopened?
  NoHead, NoJob          \* no decision, no job

Routes == {"human_review", "no_human", "no_eligible_reviewer", "shadow"}

RoutingJob(h) == [kind |-> "process_pull_request", key |-> h]
EvaluationJob(k) == [kind |-> "evaluate_human_review_policy", key |-> k]

\* The routing key holds the head; an evaluation is keyed by its delivery, the
\* first one of a decision by the delivery that was routed.
ASSUME PolicyAssumption ==
  /\ Jobs = {RoutingJob(h) : h \in Heads} \cup {EvaluationJob(k) : k \in Heads \cup Reviews}
  /\ RouteOf \in [Heads -> Routes]
  /\ FinalizationAttempts \in Nat \ {0}
  /\ AttemptCap \in Nat /\ DefaultMaxAttempts \in 1 .. AttemptCap
  /\ MayReturn \in BOOLEAN /\ MayReopen \in BOOLEAN
  /\ NoHead \notin Heads /\ NoJob \notin Jobs
  /\ Heads \cap Reviews = {}  \* deliveries of their own

CheckState == {"in_progress", "success", "failure"}

\* The policy columns of a decision; run 0 is a null policy_check_run_id.
Row == [run : Nat, state : {"not_started"} \cup CheckState]

\* A payload without recovery, with one that names no decision, or with its decision.
Recovery == {"none", "unnamed"} \cup Heads

Steps ==
  {"read head", "persist decision", "preflight", "ensure check", "record opened check",
   "act", "conclude check", "conclude row", "enqueue evaluation",
   "mark succeeded", "mark failed",
   "find decision", "fetch state", "fetch reviews", "fetch state again", "find check",
   "create check", "update check", "record check", "record failure", "persist state",
   "find failed decision", "find failed check", "fail check", "record failed check",
   "finish", "caught", "finalized", "recovery failed"}

\* What an attempt remembers: its decision with the columns it read, whether
\* findDecision chose it, the verdict, the run it works on, and its error.
Attempt == [step : Steps \cup {"none"}, job : Jobs \cup {NoJob},
            decision : Heads \cup {NoHead}, seen : Row, chosen : BOOLEAN,
            verdict : CheckState, run : Nat,
            error : {"none", "transient", "permanent"}]

Unread == [run |-> 0, state |-> "not_started"]

NoAttempt == [step |-> "none", job |-> NoJob, decision |-> NoHead, seen |-> Unread,
              chosen |-> FALSE, verdict |-> "in_progress", run |-> 0, error |-> "none"]

VARIABLES
  pr,        \* the pull request: open, head, and whether approvals suffice
  decided,   \* heads with a decision, by created_at
  succeeded, \* heads whose decision has the action_status succeeded
  row,       \* for each head, the policy columns of its decision
  checks,    \* for each head, the check runs of its decision, by ascending id
  recovery,  \* for each job, the recovery in its payload
  attempt    \* for each worker, the attempt it executes

github == <<pr, checks>>
database == <<decided, succeeded, row, recovery>>
policyVars == <<job, github, database, attempt>>

PolicyInit ==
  /\ Init
  /\ pr \in [open : {TRUE}, head : Heads, approved : BOOLEAN]
  /\ decided = <<>>
  /\ succeeded = {}
  /\ row = [h \in Heads |-> Unread]
  /\ checks = [h \in Heads |-> <<>>]
  /\ recovery = [j \in Jobs |-> "none"]
  /\ attempt = [w \in Workers |-> NoAttempt]

-----------------------------------------------------------------------------
(* GitHub: a webhook inserts a job unless its key is taken *)

Accept(j) == IF job[j].status = "absent" THEN Submit(j) ELSE UNCHANGED job

Opened ==
  /\ Submit(RoutingJob(pr.head))
  /\ UNCHANGED <<github, database, attempt>>

Push(h) ==
  /\ pr.open /\ h # pr.head
  /\ job[RoutingJob(h)].status = "absent" \/ MayReturn
  /\ pr' = [pr EXCEPT !.head = h]
  /\ Accept(RoutingJob(h))
  /\ UNCHANGED <<checks, database, attempt>>

\* submitted, edited or dismissed
Review(r, approved) ==
  /\ pr' = [pr EXCEPT !.approved = approved]
  /\ Submit(EvaluationJob(r))
  /\ UNCHANGED <<checks, database, attempt>>

\* No job is made for a closed pull request.
Close ==
  /\ MayReopen /\ pr.open
  /\ pr' = [pr EXCEPT !.open = FALSE]
  /\ UNCHANGED <<job, checks, database, attempt>>

Reopen ==
  /\ ~pr.open
  /\ pr' = [pr EXCEPT !.open = TRUE]
  /\ Accept(RoutingJob(pr.head))
  /\ UNCHANGED <<checks, database, attempt>>

-----------------------------------------------------------------------------
(* Attempts *)

At(w, step) == attempt[w].step = step
JobOf(w) == attempt[w].job
HeadOf(w) == attempt[w].decision
IsEvaluation(j) == j.kind = "evaluate_human_review_policy"

Goto(w, step) == attempt' = [attempt EXCEPT ![w].step = step]
Leave(w, step, error) ==
  attempt' = [attempt EXCEPT ![w] =
    [NoAttempt EXCEPT !.step = step, !.error = error, !.job = JobOf(w),
                      !.decision = HeadOf(w), !.chosen = attempt[w].chosen]]
Take(w, step, run) ==
  attempt' = [attempt EXCEPT ![w] = [@ EXCEPT !.step = step, !.run = run]]

Newest(h) == Len(checks[h])
NewestState(h) == IF checks[h] = <<>> THEN "not_started" ELSE checks[h][Newest(h)]

\* recordPolicyCheck and updatePolicyCheckState: a recorded failure is final.
WithCheckAlways(columns, run, state) == [run |-> run, state |-> state]
WithCheck(columns, run, state) ==
  IF columns.state = "failure" THEN columns ELSE [run |-> run, state |-> state]

FirstStep(j) == CASE recovery[j] # "none" -> "find failed decision"
                  [] recovery[j] = "none" /\ IsEvaluation(j) -> "find decision"
                  [] OTHER -> "read head"

Claim(w, j) ==
  /\ At(w, "none")
  /\ Acquire(w, j)
  /\ attempt' = [attempt EXCEPT ![w] = [NoAttempt EXCEPT !.step = FirstStep(j), !.job = j]]
  /\ UNCHANGED <<github, database>>

\* Errors caught inside the recovery are settled there.
RecoverySteps == {"find failed decision", "find failed check", "fail check", "record failed check"}
Settling == {"finish", "caught", "finalized", "recovery failed"}
DatabaseSteps == {"persist decision", "record opened check", "conclude row", "enqueue evaluation",
                  "mark succeeded", "mark failed",
                  "find decision", "record check", "record failure", "persist state",
                  "find failed decision", "record failed check"}

Throw(w, error) ==
  /\ attempt[w].step \in Steps \ Settling
  /\ error = "permanent" => attempt[w].step \notin DatabaseSteps \cup {"act"}
  /\ Leave(w, IF attempt[w].step \in RecoverySteps THEN "recovery failed" ELSE "caught", error)
  /\ UNCHANGED <<job, github, database>>

-----------------------------------------------------------------------------
(* A routing job, as far as the policy sees it *)

\* A decision that succeeded is not made again, one for an old head not at all.
ReadHead(w) ==
  /\ At(w, "read head")
  /\ LET h == JobOf(w).key IN
       Goto(w, IF h \notin succeeded /\ pr.head = h THEN "persist decision" ELSE "finish")
  /\ UNCHANGED <<job, github, database>>

\* created_at is set by the insertion only.
PersistDecision(w) ==
  /\ At(w, "persist decision")
  /\ LET h == JobOf(w).key IN
       /\ decided' = IF \E i \in DOMAIN decided : decided[i] = h THEN decided
                                                               ELSE Append(decided, h)
       /\ attempt' = [attempt EXCEPT ![w] =
            [@ EXCEPT !.step = IF RouteOf[h] = "shadow" \/ h \in succeeded
                                 THEN "finish" ELSE "preflight",
                      !.decision = h]]
  /\ UNCHANGED <<job, github, succeeded, row, recovery>>

Preflight(w) ==
  /\ At(w, "preflight")
  /\ IF pr.head = HeadOf(w) THEN Goto(w, "ensure check") ELSE Leave(w, "caught", "permanent")
  /\ UNCHANGED <<job, github, database>>

\* evaluateHumanReviewPolicy, given whether the active approvals suffice.
Evaluate(h, approved) ==
  CASE RouteOf[h] = "no_human" -> "success"
    [] RouteOf[h] = "no_eligible_reviewer" -> "failure"
    [] OTHER -> IF approved THEN "success" ELSE "in_progress"

\* ensureInitialPolicyCheck takes the run on record, the newest or a new one.
EnsureCheck(w) ==
  /\ At(w, "ensure check")
  /\ LET h == HeadOf(w)  initial == Evaluate(h, FALSE) IN
       IF row[h].run # 0
       THEN Take(w, "act", row[h].run) /\ UNCHANGED checks
       ELSE IF Newest(h) # 0
       THEN /\ attempt' = [attempt EXCEPT ![w] =
                 [@ EXCEPT !.step = "record opened check", !.run = Newest(h),
                           !.verdict = NewestState(h)]]
            /\ UNCHANGED checks
       ELSE /\ checks' = [checks EXCEPT ![h] = <<initial>>]
            /\ attempt' = [attempt EXCEPT ![w] =
                 [@ EXCEPT !.step = "record opened check", !.run = 1, !.verdict = initial]]
  /\ UNCHANGED <<job, pr, database>>

RecordOpenedCheck(w) ==
  /\ At(w, "record opened check")
  /\ row' = [row EXCEPT ![HeadOf(w)] = WithCheck(@, attempt[w].run, attempt[w].verdict)]
  /\ Goto(w, "act")
  /\ UNCHANGED <<job, github, decided, succeeded, recovery>>

\* The decision for nobody to ask is not_applied and stays so.
AfterActions(route) == CASE route = "human_review" -> "enqueue evaluation"
                         [] route = "no_human" -> "mark succeeded"
                         [] OTHER -> "finish"

Act(w) ==
  /\ At(w, "act")
  /\ \/ Goto(w, AfterActions(RouteOf[HeadOf(w)]))
     \/ attempt' = [attempt EXCEPT ![w] =
          [@ EXCEPT !.step = "conclude check", !.error = "permanent"]]
  /\ UNCHANGED <<job, github, database>>

ConcludeCheck(w) ==
  /\ At(w, "conclude check")
  /\ checks' = [checks EXCEPT ![HeadOf(w)][attempt[w].run] = "failure"]
  /\ Goto(w, "conclude row")
  /\ UNCHANGED <<job, pr, database>>

ConcludeRow(w) ==
  /\ At(w, "conclude row")
  /\ row' = [row EXCEPT ![HeadOf(w)] = WithCheck(@, @.run, "failure")]
  /\ Goto(w, "mark failed")
  /\ UNCHANGED <<job, github, decided, succeeded, recovery>>

\* markActionFailed leaves a success alone.
MarkActionFailed(w) ==
  /\ At(w, "mark failed")
  /\ Goto(w, "caught")
  /\ UNCHANGED <<job, github, database>>

\* A slip: reviews that came before the decision are left to later ones.
EnqueueNothing(w) ==
  /\ At(w, "enqueue evaluation")
  /\ Goto(w, "mark succeeded")
  /\ UNCHANGED <<job, github, database>>

EnqueueEvaluation(w) ==
  /\ At(w, "enqueue evaluation")
  /\ Accept(EvaluationJob(HeadOf(w)))
  /\ Goto(w, "mark succeeded")
  /\ UNCHANGED <<github, database>>

MarkActionSucceeded(w) ==
  /\ At(w, "mark succeeded")
  /\ succeeded' = succeeded \cup {HeadOf(w)}
  /\ Goto(w, "finish")
  /\ UNCHANGED <<job, github, decided, row, recovery>>

-----------------------------------------------------------------------------
(* evaluateReviewPolicy *)

\* A slip: created_at is sorted the wrong way.
EarliestDecision == IF decided = <<>> \/ RouteOf[decided[1]] = "shadow"
                    THEN NoHead ELSE decided[1]

\* findLatestHumanReviewPolicyDecision: none unless the newest is enforced.
Latest == IF decided = <<>> \/ RouteOf[decided[Len(decided)]] = "shadow"
          THEN NoHead ELSE decided[Len(decided)]

Choose(w, step) ==
  attempt' = [attempt EXCEPT ![w] = [@ EXCEPT !.step = step, !.decision = Latest,
                                              !.seen = row[Latest], !.chosen = TRUE]]

FindDecision(w) ==
  /\ At(w, "find decision")
  /\ IF Latest = NoHead \/ row[Latest].state = "failure"
     THEN Goto(w, "finish")
     ELSE Choose(w, "fetch state")
  /\ UNCHANGED <<job, github, database>>

Current(w) == pr.open /\ pr.head = HeadOf(w)

FetchState(w) ==
  /\ At(w, "fetch state")
  /\ Goto(w, IF Current(w) THEN "fetch reviews" ELSE "finish")
  /\ UNCHANGED <<job, github, database>>

FetchReviews(w) ==
  /\ At(w, "fetch reviews")
  /\ LET verdict == Evaluate(HeadOf(w), pr.approved) IN
       attempt' = [attempt EXCEPT ![w] =
         [@ EXCEPT !.verdict = verdict,
                   !.step = IF verdict = "success" THEN "fetch state again" ELSE "find check"]]
  /\ UNCHANGED <<job, github, database>>

FetchStateAgain(w) ==
  /\ At(w, "fetch state again")
  /\ Goto(w, IF Current(w) THEN "find check" ELSE "finish")
  /\ UNCHANGED <<job, github, database>>

\* A slip: the row is asked whether the run is open.
FindRecordedCheckToKeepOpen(w) ==
  /\ At(w, "find check") /\ attempt[w].verdict = "in_progress"
  /\ LET h == HeadOf(w) IN
       IF NewestState(h) = "failure" THEN Goto(w, "record failure")
       ELSE IF attempt[w].seen.state = "in_progress" THEN Goto(w, "persist state")
       ELSE Goto(w, "create check")
  /\ UNCHANGED <<job, github, database>>

\* updatePolicyCheck for a verdict of in_progress: an open run is kept, a
\* completed one is replaced, a failed one ends the evaluation.
FindCheckToKeepOpen(w) ==
  /\ At(w, "find check") /\ attempt[w].verdict = "in_progress"
  /\ LET h == HeadOf(w)  recorded == [run |-> Newest(h), state |-> "in_progress"] IN
       CASE NewestState(h) = "failure" -> Goto(w, "record failure")
         [] NewestState(h) = "in_progress" ->
              IF attempt[w].seen = recorded THEN Goto(w, "persist state")
                                            ELSE Take(w, "record check", Newest(h))
         [] OTHER -> Goto(w, "create check")
  /\ UNCHANGED <<job, github, database>>

\* A slip: the run on record is completed, if there is one.
FindRecordedCheckToComplete(w) ==
  /\ At(w, "find check") /\ attempt[w].verdict # "in_progress"
  /\ LET h == HeadOf(w)
         run == IF attempt[w].seen.run # 0 THEN attempt[w].seen.run ELSE Newest(h) IN
       IF NewestState(h) = "failure" THEN Take(w, "record failure", Newest(h))
       ELSE IF run = 0 THEN Leave(w, "caught", "transient")
       ELSE Take(w, "update check", run)
  /\ UNCHANGED <<job, github, database>>

\* A slip: a failed run is completed again.
FindAnyCheckToComplete(w) ==
  /\ At(w, "find check") /\ attempt[w].verdict # "in_progress"
  /\ LET run == IF Newest(HeadOf(w)) # 0 THEN Newest(HeadOf(w)) ELSE attempt[w].seen.run IN
       IF run = 0 THEN Leave(w, "caught", "transient") ELSE Take(w, "update check", run)
  /\ UNCHANGED <<job, github, database>>

\* For the other verdicts: the newest run, else the one on record, is completed.
FindCheckToComplete(w) ==
  /\ At(w, "find check") /\ attempt[w].verdict # "in_progress"
  /\ LET h == HeadOf(w)
         run == IF Newest(h) # 0 THEN Newest(h) ELSE attempt[w].seen.run IN
       IF NewestState(h) = "failure" THEN Take(w, "record failure", Newest(h))
       ELSE IF run = 0 THEN Leave(w, "caught", "transient")
       ELSE Take(w, "update check", run)
  /\ UNCHANGED <<job, github, database>>

CreateCheck(w) ==
  /\ At(w, "create check")
  /\ checks' = [checks EXCEPT ![HeadOf(w)] = Append(@, "in_progress")]
  /\ Take(w, "record check", Newest(HeadOf(w)) + 1)
  /\ UNCHANGED <<job, pr, database>>

UpdateCheck(w) ==
  /\ At(w, "update check")
  /\ checks' = [checks EXCEPT ![HeadOf(w)][attempt[w].run] = attempt[w].verdict]
  /\ Goto(w, IF attempt[w].run # attempt[w].seen.run THEN "record check" ELSE "persist state")
  /\ UNCHANGED <<job, pr, database>>

RecordCheck(w) ==
  /\ At(w, "record check")
  /\ row' = [row EXCEPT ![HeadOf(w)] = WithCheck(@, attempt[w].run, attempt[w].verdict)]
  /\ Goto(w, "persist state")
  /\ UNCHANGED <<job, github, decided, succeeded, recovery>>

\* GitHub has the failure already; a verdict that differs is an error.
RecordFailure(w) ==
  /\ At(w, "record failure")
  /\ row' = [row EXCEPT ![HeadOf(w)] =
       WithCheck(@, IF attempt[w].verdict = "in_progress" THEN @.run ELSE attempt[w].run,
                 "failure")]
  /\ IF attempt[w].verdict = "failure" THEN Goto(w, "persist state")
                                       ELSE Leave(w, "caught", "permanent")
  /\ UNCHANGED <<job, github, decided, succeeded, recovery>>

PersistState(w) ==
  /\ At(w, "persist state")
  /\ row' = [row EXCEPT ![HeadOf(w)] = WithCheck(@, @.run, attempt[w].verdict)]
  /\ Goto(w, "finish")
  /\ UNCHANGED <<job, github, decided, succeeded, recovery>>

-----------------------------------------------------------------------------
(* failPolicyCheck *)

Persisted(h) == \E i \in DOMAIN decided : decided[i] = h

\* An evaluation fails the decision its payload names, else the newest; a
\* routing job that of its own delivery.
FindFailedDecision(w) ==
  /\ At(w, "find failed decision")
  /\ LET j == JobOf(w)
         h == IF ~IsEvaluation(j) THEN (IF Persisted(j.key) THEN j.key ELSE NoHead)
              ELSE IF recovery[j] \in Heads THEN recovery[j] ELSE Latest
         settled == IsEvaluation(j) /\ row[h].state = "failure" IN
       IF h = NoHead THEN Goto(w, "finalized")
       ELSE attempt' = [attempt EXCEPT ![w] =
              [@ EXCEPT !.step = IF settled THEN "finalized" ELSE "find failed check",
                        !.decision = h, !.seen = row[h],
                        !.chosen = IsEvaluation(j) /\ recovery[j] = "unnamed"]]
  /\ UNCHANGED <<job, github, database>>

\* An evaluation prefers the newest run, a routing job the one on record.
FindFailedCheck(w) ==
  /\ At(w, "find failed check")
  /\ LET h == HeadOf(w)
         recorded == attempt[w].seen.run
         preferred == IF IsEvaluation(JobOf(w)) THEN Newest(h) ELSE recorded
         run == IF preferred # 0 THEN preferred
                ELSE IF IsEvaluation(JobOf(w)) THEN recorded ELSE Newest(h) IN
       IF IsEvaluation(JobOf(w)) /\ NewestState(h) = "failure"
       THEN Take(w, "record failed check", run)
       ELSE IF run = 0 THEN Goto(w, "finalized") ELSE Take(w, "fail check", run)
  /\ UNCHANGED <<job, github, database>>

FailCheck(w) ==
  /\ At(w, "fail check")
  /\ checks' = [checks EXCEPT ![HeadOf(w)][attempt[w].run] = "failure"]
  /\ Goto(w, "record failed check")
  /\ UNCHANGED <<job, pr, database>>

RecordFailedCheck(w) ==
  /\ At(w, "record failed check")
  /\ row' = [row EXCEPT ![HeadOf(w)] = WithCheck(@, attempt[w].run, "failure")]
  /\ Goto(w, "finalized")
  /\ UNCHANGED <<job, github, decided, succeeded, recovery>>

-----------------------------------------------------------------------------
(* Settling the job *)

Done(w) == attempt' = [attempt EXCEPT ![w] = NoAttempt]

Finish(w) ==
  /\ At(w, "finish")
  /\ Conclude(w, JobOf(w), "succeeded")
  /\ Done(w)
  /\ UNCHANGED <<github, database>>

LastAttempt(j) == job[j].attempt >= job[j].max

\* Any exhausted job, and any permanent error of an evaluation.
ShouldFinalize(w) ==
  LET permanent == attempt[w].error = "permanent" IN
    IF IsEvaluation(JobOf(w)) THEN permanent \/ LastAttempt(JobOf(w))
                              ELSE ~permanent /\ LastAttempt(JobOf(w))

\* The recovery of an evaluation names the decision that findDecision chose.
RecoveryOf(w) == IF attempt[w].chosen THEN HeadOf(w) ELSE "unnamed"

\* max_attempts is raised without a bound in the code, by AttemptCap here.
CatchAndFinalize(w) ==
  /\ At(w, "caught")
  /\ ShouldFinalize(w)
  /\ LET j == JobOf(w)  max == job[j].attempt + FinalizationAttempts IN
       /\ max <= AttemptCap
       /\ GiveBack(w, j, max)
       /\ recovery' = [recovery EXCEPT ![j] = RecoveryOf(w)]
  /\ Done(w)
  /\ UNCHANGED <<github, decided, succeeded, row>>

\* A slip: a permanent error is retried.
MarkFailedForRetry(w, retryable) ==
  LET j == JobOf(w) IN
    IF retryable \/ job[j].attempt <= job[j].max
    THEN /\ job[j].holder = w
         /\ job' = [job EXCEPT ![j].status = "queued", ![j].holder = Nobody]
    ELSE Conclude(w, j, "failed")

\* markFailed without a recovery.
MarkFailed(w, retryable) ==
  LET j == JobOf(w) IN
    IF retryable /\ ~LastAttempt(j) THEN GiveBack(w, j, job[j].max)
                                    ELSE Conclude(w, j, "failed")

CatchAndRetry(w) ==
  /\ At(w, "caught")
  /\ ~ShouldFinalize(w)
  /\ MarkFailed(w, attempt[w].error = "transient")
  /\ Done(w)
  /\ UNCHANGED <<github, database>>

Finalized(w) ==
  /\ At(w, "finalized")
  /\ MarkFailed(w, FALSE)
  /\ Done(w)
  /\ UNCHANGED <<github, database>>

RecoveryFailed(w) ==
  /\ At(w, "recovery failed")
  /\ MarkFailed(w, attempt[w].error = "transient")
  /\ Done(w)
  /\ UNCHANGED <<github, database>>

\* A database error of the recovery's own transition is caught like any other.
RecoveryUnsettled(w) ==
  /\ attempt[w].step \in {"finalized", "recovery failed"}
  /\ LastAttempt(JobOf(w)) => job[JobOf(w)].attempt + FinalizationAttempts <= AttemptCap
  /\ Leave(w, "caught", "transient")
  /\ UNCHANGED <<job, github, database>>

\* The job was taken away: no transition matches its lease.
SettleStale(w) ==
  /\ attempt[w].step \in Settling
  /\ job[JobOf(w)].holder # w
  /\ Done(w)
  /\ UNCHANGED <<job, github, database>>

\* The process dies, or a transition meets a database error.
Crash(w) ==
  /\ attempt[w].step # "none"
  /\ IF job[JobOf(w)].holder = w THEN Vanish(JobOf(w)) ELSE UNCHANGED job
  /\ Done(w)
  /\ UNCHANGED <<github, database>>

\* A worker sweeps only between two attempts.
Sweep(w, j) ==
  /\ At(w, "none")
  /\ job[j].status = "running"
  /\ Expire({j})
  /\ UNCHANGED <<github, database, attempt>>

-----------------------------------------------------------------------------
GitHubStep ==
  \/ Opened \/ Close \/ Reopen
  \/ \E h \in Heads : Push(h)
  \/ \E r \in Reviews, approved \in BOOLEAN : Review(r, approved)

RoutingStep(w) ==
  \/ ReadHead(w) \/ PersistDecision(w) \/ Preflight(w) \/ EnsureCheck(w)
  \/ RecordOpenedCheck(w) \/ Act(w) \/ ConcludeCheck(w) \/ ConcludeRow(w)
  \/ MarkActionFailed(w) \/ EnqueueEvaluation(w) \/ MarkActionSucceeded(w)

EvaluationStep(w) ==
  \/ FindDecision(w) \/ FetchState(w) \/ FetchReviews(w) \/ FetchStateAgain(w)
  \/ FindCheckToKeepOpen(w) \/ FindCheckToComplete(w)
  \/ CreateCheck(w) \/ UpdateCheck(w) \/ RecordCheck(w) \/ RecordFailure(w)
  \/ PersistState(w)

FailureStep(w) ==
  \/ FindFailedDecision(w) \/ FindFailedCheck(w) \/ FailCheck(w) \/ RecordFailedCheck(w)

SettleStep(w) ==
  \/ Finish(w) \/ CatchAndFinalize(w) \/ CatchAndRetry(w) \/ Finalized(w)
  \/ RecoveryFailed(w) \/ SettleStale(w)

Advance(w) == RoutingStep(w) \/ EvaluationStep(w) \/ FailureStep(w) \/ SettleStep(w)

Fault(w) ==
  \/ \E error \in {"transient", "permanent"} : Throw(w, error)
  \/ RecoveryUnsettled(w) \/ Crash(w)

Regular == GitHubStep \/ \E w \in Workers : Advance(w) \/ \E j \in Jobs : Claim(w, j) \/ Sweep(w, j)

PolicyNext == Regular \/ \E w \in Workers : Fault(w)

PolicySpec == PolicyInit /\ [][PolicyNext]_policyVars

\* An attempt proceeds, an idle worker claims and sweeps; errors, deaths and
\* events on GitHub need not happen.
PolicyFairness ==
  \A w \in Workers :
    /\ WF_policyVars(Advance(w))
    /\ WF_policyVars(\E j \in Jobs : Claim(w, j))
    /\ WF_policyVars(\E j \in Jobs : Sweep(w, j))

FairPolicySpec == PolicySpec /\ PolicyFairness

-----------------------------------------------------------------------------
(* Properties *)

\* The type invariant; a worker remembers a job exactly while it executes one.
PolicyTypeOK ==
  /\ pr \in [open : BOOLEAN, head : Heads, approved : BOOLEAN]
  /\ decided \in Seq(Heads)
  /\ succeeded \in SUBSET Heads
  /\ row \in [Heads -> Row]
  /\ checks \in [Heads -> Seq(CheckState)]
  /\ recovery \in [Jobs -> Recovery]
  /\ attempt \in [Workers -> Attempt]
  /\ \A w \in Workers : attempt[w].step = "none" <=> attempt[w].job = NoJob

\* Evaluations are claimed, retried, recovered and swept only as the job queue
\* promises.
RunsTheLifecycle == Spec

\* A policy check recorded as failed stays failed, whatever reviews arrive and
\* whichever attempt writes late.
RecordedFailureIsFinal ==
  [][\A h \in Heads : row[h].state = "failure" => row'[h].state = "failure"]_policyVars

-----------------------------------------------------------------------------
(* Properties of a single worker, which is what the deployment runs *)

\* No job waits or runs, none failed, and the pull request was routed.
Quiet ==
  /\ \A j \in Jobs : job[j].status \in {"absent", "succeeded"}
  /\ job[RoutingJob(pr.head)].status = "succeeded"

\* When every review has been evaluated, an open pull request whose route asks
\* for human review and whose check did not fail shows on its head, and in the
\* row, what the active approvals say, whatever was retried, recovered or
\* created twice on the way.
CheckIsCurrent ==
  LET h == pr.head IN
    /\ Quiet /\ pr.open /\ RouteOf[h] = "human_review"
    /\ row[h].state # "failure" /\ NewestState(h) # "failure"
    => row[h] = [run |-> Newest(h), state |-> Evaluate(h, pr.approved)]
       /\ NewestState(h) = row[h].state

\* Branch protection looks at the newest run of a decision: once it has failed
\* no evaluation reopens or replaces it, also before the row has the failure.
ShownFailureIsFinal ==
  [][\A h \in Heads :
       NewestState(h) = "failure" => NewestState(h)' = "failure"]_policyVars

\* A run is replaced only when it is completed: however often attempts die
\* between creating a run and recording it, none is left behind in progress.
ReplacedRunsAreCompleted ==
  \A h \in Heads : \A i \in 1 .. Newest(h) - 1 : checks[h][i] # "in_progress"

\* When the approvals suffice for good, the check of an open, routed pull
\* request is completed, unless one of its jobs failed.
Waiting(h) == pr.open /\ pr.head = h /\ pr.approved /\ Persisted(h)
ApprovalsUnblock ==
  \A h \in Heads :
    (<>[]Waiting(h)) => <>(\/ NewestState(h) \in {"success", "failure"}
                           \/ \E j \in Jobs : job[j].status = "failed")
=============================================================================
