# Triage Pilot: specifications of the runtime

Triage Pilot is a GitHub App. Web processes accept webhooks and put jobs into a
Postgres table; a worker process takes them one by one, computes who should
review a pull request, and writes the result to GitHub: a routing check, a
label, a comment, review requests, and the *required human review policy* check
that blocks the merge until a human has approved. This directory holds TLA+
models of the parts of that runtime which must stay right while processes
overlap, die, retry and answer late, the TLC configurations that check small
instances, and proofs for instances of any size.

All paths below are relative to the repository's root; `map` in `PROJECT.json`
gives the lines that each definition translates.

## 1. The system

```
 GitHub --webhook--> apps/web --(one transaction)--> webhook_receipts, jobs,
                                                     provider_connections, repositories
                                                         |
   worker cycle (apps/worker/src/main.ts, maintenance.ts)|
     heartbeat, retention, connection cleanup, drain the outbox
     recoverStaleJobs          (sweep)                   |
     claimNext                 (at most one job) <-------+
     run the job               --> GitHub: checks, labels, comments, reviewers
                               --> decisions + decision_outbox (one transaction)
     markSucceeded / markFailed (under the lease)
     drain the outbox          --> event sink
```

| Component | State it keeps | Operations | Interacts through |
|---|---|---|---|
| Job queue (`packages/db/src/jobs.ts`) | `jobs`: status, run_at, attempt_count, max_attempts, locked_by, locked_at, payload | enqueue, claimNext, markSucceeded, markFailed (with or without recovery), exhaust an activation, recoverStaleJobs | rows shared by all processes; leases held in worker memory |
| Worker loop (`apps/worker/src/main.ts`, `maintenance.ts`) | where it is in its cycle | sweep, clean up, heartbeat, drain, claim, execute, settle | calls all of the others |
| Routing runner (`apps/worker/src/runner.ts`) | one attempt, in memory | dispatch by kind, classify errors, finalize exhausted jobs | job queue, routing service, policy evaluation |
| Routing service (`packages/application/src/routing.ts`, `apps/worker/src/runtime-services.ts`) | `decisions`: decision, action_status, policy-check columns | compute, persist and publish, apply, record the outcome | GitHub, decisions, outbox, queue (the first evaluation job) |
| Review-policy evaluation (`packages/application/src/review-policy.ts`) | the same rows; check runs on GitHub | find the decision, read GitHub, update/replace/fail a check | GitHub, decisions |
| Event outbox (`packages/db/src/outbox.ts`) | `decision_outbox`: attempt_count, available_at, published_at | stage, claim a batch, emit, acknowledge, put off | decisions (staged with them), sink |
| Webhook intake (`apps/web/src/routes/webhooks.ts`, `packages/db/src/deliveries.ts`) | `webhook_receipts` | verify, project, receipt and enqueue in one transaction | connections, queue |
| Provider connections (`packages/db/src/provider-connections.ts`) | `provider_connections`, `repositories`, `provider_connection_revocations` | activate, suspend, revoke, replace/add/remove repositories, deferred cleanup | intake, worker authority check, jobs (foreign keys) |
| Reviewer availability (`packages/application/src/reviewer-availability.ts`, `packages/db/src/availability.ts`) | absences with a revision, `reviewer_replacement_intents`, `reviewer_replacements`, the cohort of a decision | schedule, revise, cancel; activate: plan, intend, move the request on GitHub, persist, finalize, recover, exhaust | queue (one job per revision), GitHub, decisions, evaluation jobs |
| Reviewer backlog (`packages/application/src/reviewer-backlog.ts`) | per process: cache of snapshots, a generation per connection | acquire (scope, authorize, list, cache, probe), invalidate | connections, GitHub, routing and activation ask it |
| Routing recovery (`packages/application/src/routing-recovery.ts`, `packages/db/src/routing-recovery.ts`) | a request in memory | look the target up, fetch its state, enqueue | web process, connections, queue |
| Retention (`packages/db/src/retention.ts`) | none | delete old receipts, jobs, decisions | worker loop; tables of all the others |
| Login throttle (`apps/web/src/auth/login-throttle.ts`) | failures and locks per key, next expiry | check, record, clear, scan | login route |
| Decision rules and configuration (`packages/core`, `packages/config`) | none | resolve two documents, score, owners, select | routing service |
| Analytics, servers, workspaces, UI | see section 8 | | |

### What makes it hard

* **Leases.** A worker that is slow for longer than the stale limit continues
  with a job that has been requeued, and perhaps claimed by a process with the
  same `WORKER_ID` (a restart of itself).
* **Unlocked reads.** The sweep, the connection cleanup, and an evaluation read
  a list or a row and act on it afterwards, one step at a time.
* **No transaction spans GitHub and Postgres.** A process can die, and either
  side can fail, between a write to the one and its record in the other; every
  retry must find and reuse what was done.
* **Retries decide again.** Configuration and reviewers may have changed
  between two attempts at one job.
* **Two requests, one intention.** An activation removes one reviewer and asks
  another in separate calls, each of which may time out here and be served by
  GitHub later, and must not do it for an absence that was revised meanwhile.
* **Caches and clean-ups forget.** The backlog's cache, the throttle's scan and
  the retention each drop data that a late reader may still need.
* **Giving up is work too.** An exhausted policy job is requeued as a
  *finalization*, which has to fail the check and may itself fail or be given
  up.
* **Webhooks come late, twice and in any order**, including the deletion of an
  installation before anything else of it.

Correctness, per component: a job has one owner and a final outcome, its
attempts are bounded and it always settles (queue); GitHub sees only the
published decision, and success means that everything was done (routing); the
newest check says what the reviews say, and a failure is final (policy); no
event is lost or acknowledged before it was delivered (outbox); a revoked
installation regains nothing and takes the authority of its jobs with it
(connections); one actor replaces the absent reviewer, under current authority,
and nothing is left half recorded (availability); the worker's own requests are
counted (backlog); a review is never taken for a duplicate of one that nobody
evaluated (intake, retention); guesses are bounded (throttle); a repository
decides over its organization (rules). The hazards behind these, each at its
line, are listed in `PROJECT.json`.

## 2. The modules

| Module | Models | Relation to others |
|---|---|---|
| `JobLifecycle` | what the queue promises to its users | abstract |
| `JobQueue` | `jobs.ts` with the worker's loop around it | implements `JobLifecycle` |
| `RoutingWorker` | `runner.ts` and `routing.ts` for routing jobs | EXTENDS `JobQueue` and implements it |
| `PolicyEvaluation` | `review-policy.ts`, its services, and the runner for evaluation jobs | EXTENDS `JobLifecycle` and implements it |
| `EventDelivery` | at-least-once delivery | abstract |
| `PlatformOutbox` | `outbox.ts` | implements `EventDelivery` |
| `ProviderConnections` | `provider-connections.ts`, the projections of `deliveries.ts`, the authority check | stands alone |
| `ReplacementHistory` | what the replacement of an absent reviewer promises | abstract |
| `ReviewerAvailability` | `reviewer-availability.ts`, `availability.ts`, the mutation leases of `jobs.ts`, the runner for activations | EXTENDS `JobLifecycle` and implements it, implements `ReplacementHistory` |
| `ReviewerBacklog` | `reviewer-backlog.ts` of the application, the worker and the database, `backlog.ts` | stands alone |
| `WebhookIntake` | receipts and jobs of `deliveries.ts`, `routing-recovery.ts`, `retention.ts`, and what `provider-connections.ts` deletes | stands alone |
| `LoginThrottle` | `login-throttle.ts` and the login route | stands alone |
| `DecisionRules` | `risk.ts`, `routing.ts`, `reviewer-selection.ts`, `ownership.ts`, `inheritance.ts`, `resolver.ts` as operators | stands alone |
| `RoutingActions` | the writes of `applyActions` on a pull request, `adapter.ts` | stands alone; one step (`Act`) of `RoutingWorker` in detail |
| `MC*` | small instances with the bounds TLC needs | EXTENDS the module of their name; `MCServices` `ReviewerBacklog`, `WebhookIntake` and the three after it |
| `*Proofs` | theorems | EXTENDS the module of their name; `WebProofs` `WebhookIntake` and `LoginThrottle`; `RoutingServicesProofs` `ReviewerBacklog`, `RoutingActions` and `DecisionRules` |

A definition marked "A slip" is a plausible mistake in the definition that
follows it. No specification uses it: it takes that definition's place in the
mutants of `PROJECT.json`, which show that each property can be broken by the
code.

### JobQueue

`jobs` is the table; `lease[w]` what a worker remembers of its claim;
`phase[w]` its place in the cycle; `sweep[w]` the rows that `recoverStaleJobs`
has read and not yet visited. One action per statement that commits:
`ClaimNext`, `MarkSucceeded`, `MarkFailed`, `MarkFailedWithRecovery`,
`ExhaustActivation`; each is guarded by `LeaseMatches`, the WHERE clause that
all of them share, and `AbandonStaleLease` is what happens when it finds no
row. The sweep is four actions: the unlocked read, one transaction per
exhausted job (with the second try of `failIsolatedStaleJob`), the loss of
both, and the bulk requeue. `AbandonCycle` is a death or a database error that
ends an iteration of the loop.

Time is two facts: whether run_at has passed (`due`, with the order in which
rows became due, since claims are ordered by it) and whether locked_at is too
old (`stale`), which may become true at any moment of a running attempt.
locked_at is part of the lease in the code; the model ignores it, so leases are
told apart by locked_by and attempt_count alone. What holds without it holds
with it.

### RoutingWorker

Adds to the queue the job's payload (`routing`, or `failure` once it is a
finalization), the `decision` row, the published `event`, the decision's
`checks` on GitHub, what has been `applied` and `complete`d there, whether the
evaluation job is `queued`, and `run[w]`, the attempt in a worker's memory.
Every database transaction and GitHub write is a step of its own, and `Throw`,
`Crash`, and an expired lease may come between any two. `Compute` takes any
member of `Decisions`: what the decision rules compute is a choice here, so two
attempts may disagree. An error is transient or permanent, as `runner.ts`
classifies it; a database error is always transient. The labels, comment,
requests and approval are one step, which may fail after some of them
(`ActFails`); `RoutingActions` takes that step apart.

### PolicyEvaluation

One pull request: `pr` (open, head, whether the approvals suffice), its
decisions by created_at, their check runs on GitHub by ascending id, and an
attempt per worker. A routing job is reduced here to what the policy sees of
it. GitHub's events insert their job in the step that causes them: the delay of
a webhook is time in which the job is queued. The reviews are one bit, since
`evaluateHumanReviewPolicy` only compares the number of active approvals with
the route's; which reviews count is a pure function (section 8). An evaluation
reads the pull request, the reviews, and the pull request again (only before a
success), then the checks, and writes the check and the row in two steps.

### PlatformOutbox

`row` is the table, `drain[p]` the batch that a publisher has claimed, with the
attempt_count of each claim. An emission, an acknowledgement and a put-off are
separate steps; a sink may throw with the event or without it, an
acknowledgement may throw before it commits or after it; the error of one event
ends the drain and leaves the rest claimed. A lease (available_at) may run out
at any moment.

### ProviderConnections

Rows, tombstones (`provider_connection_revocations`), repositories, receipts
and jobs. Each projection takes the workspace's advisory lock and is one
transaction, hence one action; a transaction that throws (an event of an
installation that does not exist, a second active row) changes nothing and is
not an action. `Upsert` is `upsertActiveProviderConnection` with its three
cases: the installation's own row, the conversion of the active row, a new row.
Cleanup is the one operation outside the lock: `BeginCleanup` reads the oldest
entries, and each is visited in a transaction of its own. Deleting a row
cascades to its jobs and unlinks its repositories, as the schema says. The
worker appears as the steps that check a job's authority (`Attempt`, `Refuse`),
and the insertion of a follow-up.

### ReviewerAvailability

One absence; a revision of it is a job. `intent`, `history` and `cohort` are
what an activation writes, `payload` is the recovery stored in its job, `pull`
what GitHub shows. An attempt first takes the rows it left unfinished, then
each decision of the absent reviewer, and goes through the steps of
`activateReviewerAbsence`: inspect GitHub, plan, `Prepare` the intent, inspect
again, remove, ask, persist, run the finalizer, complete, audit. Every
transaction validates what the code validates (`WellFormed`, `PendingSound`,
`RecordSound`, `RecoverySound`, the current revision, the lease where it is
looked at) and is refused otherwise. `HoldsJob` with `Unlocked` is the lock
that `runClaimedReviewerProviderMutation` keeps on job, absence and connection
during a request. A request that times out goes to `late`, from where GitHub
may serve it at any time. `asked` and `ran` are histories for the properties.
The selection among equal candidates is a choice. One set
of approvals stands for two: `terminalProviderPlan` counts those of all reviews,
the check of an intent's actor (`durableIntentIneligibilityPlan`) those of the
current head only. An approval of an earlier head that nobody took back would
be in the first alone; here it is in both or in neither, and no property
depends on it.

### ReviewerBacklog

`acquisition` is each call in progress: its scope, the generation it began with
and, per repository, a read that waits, looks, lists, stores or is done. A
number of requests made by this worker (`moves`) stands for the load; a listing
counts those made before it, and the listing's pages come at one moment while
`Store` may come much later. `Invalidate` follows each request of the worker as
a step of its own. Probes, refusals and the deadline are steps; time itself is
not modelled. The module allows more than its two deployments do: in the worker
jobs run one at a time and await their acquisition (`apps/worker/src/main.ts`),
so none overlaps an invalidation there, and the web process, whose acquisitions
do overlap, never invalidates. For a safety property more behaviours do no
harm.

### WebhookIntake

Four parties over the same tables: `DeliverChange` and `DeliverReview` (one
transaction each); the operator's `FindTarget`, `FetchCurrentState` and
`Enqueue`; `Retain`, whose four statements are four steps between which a
worker may stop; and the cleanup of revoked connections. `place` is the row of
the connection and the name under which the repository is known, and changes by
renames, transfers and removals. `CleanUp(row)` is what the deletion of a
revoked row does here: refused while one of its jobs is unfinished, it takes
the row's jobs along (`jobs_workspace_provider_connection_fkey`), the
repository's row, and with it the decisions' reference to it; receipts have no
foreign key and stay. `cleaned` remembers the jobs so deleted. Which rows the
cleanup visits, and how they come to be revoked, is in `ProviderConnections`;
`Transfer` is the part of an upsert that gives the repository another row, as a
step of its own. It is not held back by the intents that refer to the
repository, as their foreign key would do. Days pass between any two steps.

### LoginThrottle

`attempts` and `nextExpiryAt` are the closure's variables, `guesses` is the
history of wrong passwords that were really compared. A login is one action,
since nothing in the throttle awaits.

### DecisionRules

A question is an input, `Answered` its answer. Kinds of files stand for paths,
a bit for AI authorship. A pattern is a name with two facts: `Matches` says
which kinds `minimatch` lets it match, `Normal` what is left of it in a key,
trimmed and in lower case. They are not the same: patterns that differ in case
alone have one key and may match different files. The properties
compare answers to several questions (a file more, an owner fewer) instead of
repeating the algorithm. A merged list keeps the position of an entry that was
dropped empty (`Joined`), which no reader notices: the first match is a least
position. `RepositoryDecides` says what a repository inherits as
`docs/github-app/repository-configuration.md:56` does, by "normalized keys": a
repository that lists `docs/**` loses the organization's `Docs/**` and has no
entry for the files that only that one matches. `RulesAssumption` says which
questions there are: documents and numbers within the bounds of the schema
(`packages/config/src/schema.ts`), finitely many actors with a load each.

### RoutingActions

`items` says, for each list that is searched (check runs, comments, reviews),
whose its items are; `labels` the risk labels; `act` the attempt: which
request is next, the page it is at, whether its `item` is sought, found or
missing. Each request is a step and
may be carried out without an answer (`Sent`); `Interrupt` is an error or a
death before one. Other people push, remark and unlabel between any two. The
policy check that precedes these writes is in `RoutingWorker`.

## 3. The runs

Each run finishes within three minutes on two cores. A run of a fair
specification checks safety and liveness on the same states.

| Run | Instance | States | Shows |
|---|---|---|---|
| `queue` | 2 jobs, 2 workers with one WORKER_ID, limit 2 raised to at most 3 | 34,021 | one owner, only it or an expiry ends an attempt, the refinement; every job settles |
| `routing_overlap` | 1 job, 2 workers, 2 human decisions, limit 2 to 3 | 715,084 | published decision only, success means done and is final, no job is given up over transient errors without a finalization, or succeeds after it was due one, refinement of the queue |
| `routing_single` | 1 job, 1 worker, all five routes, limit up to 6 | 34,866 | one check run, finalized checks are failed |
| `policy_single` | 1 worker, limit 2 to 4; either 2 heads of different routes, a review and 1 fault, or 1 head, 2 reviews and 2 faults | 228,772 | the check agrees with the reviews of the current head; replaced runs are completed; shown failures are final; sufficient approvals unblock |
| `policy_overlap` | 2 workers, 1 head, closing and reopening, 1 fault | 255,246 | a recorded failure survives late writers; refinement of the lifecycle |
| `outbox` | 2 events in a batch of 2, 2 publishers, 4 faults | 111,147 | one claim, late answers ignored, at-least-once; every event is published |
| `connections` | 3 installations, 3 rows, 4 webhooks, 3 deliveries, 2 jobs and a follow-up, 2 workers, batches of 1, 1 fault | 63,876 | revocations hold; jobs lose authority; cleanup spares unfinished jobs and completes |
| `availability_single` | 1 worker, 2 revisions, 2 pull requests (enforce, shadow), 2 faults, 1 change | 99,142 | refinement of `ReplacementHistory`; nothing left unfinished by a job that ended in its transaction; every activation ends |
| `availability_overlap` | 2 workers, 2 revisions, 1 enforced pull request, 2 approvals wanted, 1 fault, 1 change | 980,189 | the refinement with overlapping attempts; requests and swaps under current authority |
| `services` | one service per behaviour: 3 keys for a map of 2 over 8 ticks; 2 acquisitions over 2 repositories; 3 decisions on one pull request, 2 items of other people, pages of 2; all questions, with 2 patterns of one key; 2 deliveries, 1 a review, on 2 connections, with either 1 operator's request and 2 changes within 1 day, or 1 change over 3 days, cleanups not counted | 856,492 | guesses bounded, locks deserved; own requests counted; the rules' answers; actions made again write once; operator's jobs authorized; reviews not taken for duplicates |

Two more runs show a disagreement (section 7).

**Why the bounds are enough.** *Queue*: leases of different jobs do not
interact except through claim order and the bulk requeue, for which two jobs
suffice; a zombie, its successor and a sweep need two workers (each sweeps and
executes in turn); with limit 2, raised to 3, there is a first, a last, and a
recovered attempt. *Routing*: jobs of different pull requests share nothing but
the queue, so one is enough; two workers and two decisions make the conflict.
*Policy*: the routing enqueues an evaluation of its own, so with two reviews
there are three; the approvals may suffice, be dismissed and suffice again, so
a check goes from success to a new run and back; two faults lose a run between
its creation and its record and then strike the next attempt, with a limit that
leaves a finalization attempts of its own. *Outbox*: four faults let both
publishers lose a claim to one another and then meet an error late.
*Connections*: four webhooks activate two installations and revoke both, with
jobs, or convert a row and bring delayed events of the old installation; a new
row needs an event that makes it active and another that ends the row before
it, so three rows are never too few. Batches of 1 (25 in the code) let the
oldest entry stand in the way of the others. *Availability*: two revisions make
one obsolete while it runs; two candidates in the pool let overlapping attempts
disagree; two faults are a stored recovery that is itself struck; a decision in
shadow mode behind an enforced one is left when the first one throws.
*Services*: up to five failures of a key in windows of three ticks, with a
limit of two and room for two of three keys, lock, expire, are pruned and fill
the map; one request made during a listing is what the generation is for;
files up to two of a kind
reach each of the score's boundaries under the weights chosen. Three decisions
with three routes and two tiers write while other people add two items: with
pages of two, a decision's item may be on a second page, or a list end with a
full one. *Intake*: cutoffs of 0 and 1 days keep the order of 30 and 90, and
after two days either has passed. The operator's request runs against every
two changes within a day: one connection is revoked and cleaned while the other
one takes its repository over. When days pass there is one change, so that a
revocation with its cleanup strikes between any two statements of the
retention, which has no eye for the pull request; that one is left alone.

The constants `AttemptCap`, `MaxFaults`, `MaxChanges`, `MaxEvents`, `Reviews`,
`Stories`, `MayReturn`, `MayReopen`, `MaxClock`, `MaxGuesses`, `MaxMoves`,
`MaxDay` and `MaxRemarks` are bounds of the models only.

**Symmetry** is declared in `availability_overlap` (the workers) and `services`
(keys, repositories, acquisitions, connections), which check no liveness; it is
unsound for that, so the other runs have none.
`MCProviderConnections` instead hands out row ids in a fixed order
(`TakenInOrder`), which loses nothing because no definition tells ids apart.

**Deadlock** is checked for `JobQueue` and `RoutingWorker`, whose workers loop
for ever. In the other runs it is off: there, errors and the events outside are
bounded, and when all is done the system has nothing left to do.

**One worker.** `docs/self-hosting/production-compose.md:16` asks for exactly
one worker, and some properties are checked for it alone: `OneCheckRun`,
`FinalizedChecksFailed`, `CheckIsCurrent`, `ShownFailureIsFinal`,
`ReplacedRunsAreCompleted`, `ActionsConverge` and `SettledJobs`. GitHub offers
no compare-and-set, so two processes that read a check and then write it can
always cross. With one process a death still loses a whole attempt at any step;
only two attempts of one job at the same moment are excluded.
`PolicyEvaluation`'s `Sweep` is enabled for a worker between two of its jobs,
like the worker's own. The properties that protect the database, and those of
the queue, are checked with two.

## 4. Fairness

* **Queue** (`FairSpec`): the clock advances (WF on `BecomeDue`,
  `BecomeStale`); a worker's loop goes on (WF on `BeginSweep`, `PollStep`,
  `SettleStep`): `main.ts` loops until it is told to stop, and a restarted
  process begins again. `SweepExhaust`, `SweepRequeue` and `ClaimNext` have
  strong fairness: a database error may end the cycle whenever they are
  reached, but not every time. No fairness is given to errors, deaths, or
  enqueueing.
* **Policy**: WF on `Advance`, `Claim` and `Sweep` of each worker. Faults are
  bounded by `MaxFaults`, which says that they come to an end.
* **Outbox**: WF on the clock, on `Claim` and on `Advance`. Every cycle drains
  the outbox. Faults, to which a lease that ends during its own emission
  belongs, come to an end.
* **Connections**: WF on `Refuse(j)`, because the loop gives every due job its
  turn and a job without authority is never executed to success; WF on
  `Cleanup(w)`, which runs in every cycle.
* **Availability**: WF on each worker's `Step`, and per job on its claim by
  some worker and on its sweep, which the loop does in every cycle. Time,
  requests served late, faults and changes have none; a job whose start never
  comes is not due, and `EveryActivationSettles` speaks of due ones.

## 5. What is proved

TLAPS checks these for every value of the constants, from the named assumptions
only (`ConstantsAssumption` and `NoLeaseAssumption`, `RoutingAssumption`,
`PolicyAssumption`, `OutboxAssumption`, `ConnectionsAssumption`,
`AvailabilityAssumption`, `BacklogAssumption`, `IntakeAssumption`,
`ThrottleAssumption`, `RoutingActionsAssumption`, `RulesAssumption`: types of
constants, positive limits, null values that are outside the sets, the ranges
that the configuration's schema admits). Every invariant and every action
property of the passing runs is among them. Theorems about one worker have
that as their hypothesis: `OneWorker`, any two members of `Workers` are equal.

**`JobQueueProofs`.** `QueueInvariant`: `Spec => []IInv`. `SingleOwner`
and `AttemptBudget` are not inductive: nothing in them relates a
lease in memory to the row it was copied from. `IInv` adds the reason why they
hold, that attempt_count is a fencing token. A lease, held by a worker or by a
sweep, is never ahead of its row; two workers never remember the same attempt
of one job; while the attempt is the row's, the lease's copy of max_attempts is
the row's too; a lease that a sweep still remembers is of the past, or stale
and exhausted. Claims increase attempt_count and nothing lowers it, so a lease
that has lost its row has lost it for good. From `IInv` follow
`QueueTypeCorrect`, `QueueSingleOwner`, `QueueAttemptBudget`, and the action
properties `QueueOwnerOrExpiry` and `QueueOutcomeIsFinal`.
`QueueImplementsLifecycle` is the refinement: with the owner of a job
as its holder, every step of the queue is a step of `JobLifecycle` or a
stutter. The bulk requeue maps to one `Expire` of a set; a death maps to
`Vanish`; a zombie's transition that finds no row maps to a stutter.

**`RoutingWorkerProofs`.** `RunnerImplementsQueue`: each step of the runner is
one of the queue or leaves it alone, so the queue's theorems hold of the
runner. `RunnerInvariant`: the row and its event agree, what was written to
GitHub is a subset of the event, and each step of an attempt finds done what it
takes for granted (`AttemptOK`). It implies `RunnerAppliesAsPublished` and
`RunnerSuccessMeansDone`; `RunnerSuccessIsFinal` and
`RunnerCheckFailureIsFinal` are proved from it. `RunnerFinalizesExhaustion`
holds with any number of workers: a job that is to be finalized never succeeds,
and a job fails only in its finalization, by its owner's permanent error, or by
a sweep over an expired last attempt (the last two end a job without a
finalization, see section 7). It rests on four more invariants: whoever is in a
recovery found a payload that asks for one (`RecoveryIntended`), whoever owns
such a job is in its recovery, since a worker that still routes it has lost it
for good (`OwnersRecover`), so it is in no state succeeded (`NeverSucceeds`),
and whoever handles an error knows which (`ErrorsKnown`). With one worker,
`ChecksInv` says that what an attempt has found of the row and of the check
runs is still so when it writes them: none exists when it creates one, the one
it works on exists, and a finalization at its end has failed all there are.
`RunnerOpensOneCheck` and `RunnerFailsFinalizedChecks` follow.

**`PolicyEvaluationProofs`.** `PolicyInvariant` says that an attempt whose step
writes a row has a decision in hand, that a job which starts to route has a
head, and that a recovery names a decision that exists: without it neither the
types nor the writes are defined. With it each step is shown to be one of
`JobLifecycle` (`PolicyImplementsLifecycle`) and to leave a recorded failure
alone (`PolicyFailureIsFinal`), for any number of workers, heads and reviews.

What GitHub shows needs one worker. `ShownInv` says what an attempt still knows
of the newest run when it writes one: it creates a run only where the newest is
neither failed nor in progress, and never completes a failed one.
`PolicyReplacesCompletedRuns` and `PolicyKeepsShownFailures` follow.
`PolicyCheckIsCurrent` has two more hypotheses, `~MayReturn` and `~MayReopen`,
without which it is false (section 7). Its property speaks of a pull request at
rest; its invariant, `CurrentInv`, of every state before: the newest decision
is the one of the head; a decision that counts as carried out has asked for its
first evaluation; and when no evaluation waits, runs or has failed, the row,
the newest run and the reviews agree. The last of these is kept by what the one
evaluation that is left knows (`VerdictFits`). It sees what it has read, since
a review that changes meanwhile brings a job of its own, and then it is not the
last.

**`PlatformOutboxProofs`.** `OutboxInvariant`: claims are in the past, two
publishers never have the same claim of one event, and whoever is about to
acknowledge an event has delivered it. From it: `OutboxSingleClaim`,
`OutboxOwnerDecides`, `OutboxPublishedIsFinal`, and the refinement
`OutboxImplementsDelivery`.

**`ProviderConnectionsProofs`.** `ConnectionsInvariant`: live rows have
different installations; a row named by a tombstone is revoked or gone and its
installation has no usable row; a job's row exists. From it:
`ConnectionsTombstonesHold`, `ConnectionsRevocationIsFinal`,
`ConnectionsUnfinishedJobsSurvive`.

**`ReviewerAvailabilityProofs`.** None of the four properties is inductive:
they speak of the rows, and the steps that write rows use what an attempt read
in an earlier transaction, or what a recovery in a payload says that another
attempt has read. `AvailabilityInvariant` says what of that is still true when
it is used. Intents, requests made, finalizers run and outcomes are never taken
back (`Grows`), so an attempt's intent is the one on record, a row it holds
names a replacement only when the request was made, and a step after the
finalizer finds it among those that ran. What can change (absence, connection,
holder of the job) is covered by the mutation lease: the transactions that
would change it wait for the lease's rows (`MutationAuthorized`). From it:

* `RequestsAuthorized` and `SwapsCurrent`, the action properties of what is
  written to GitHub and to the cohort;
* `HistoryImplemented`: every step, the sweep's and a late request's included,
  is one of `ReplacementHistory` or a stutter;
* `JobsSettled`, with a second invariant (`SettledInv`): an attempt that works
  holds its job, and a row that waits for a finalizer is in the attempt's list,
  in the payload, or found by the next attempt. It is proved from `OneWorker`,
  because with two it fails: a worker that has lost its lease can persist a row
  that waits after the other one has settled the job (section 7).

A second part is about the life of the job. `ActivationsAreBounded`: a job is
attempted no more than its first limit and the attempts of one recovery allow.
The runner raises max_attempts only for a claim that had no recovery, and in
the same transaction stores one, which no later step removes; what an attempt
remembers of its number, its limit and its recovery is from the claim
(`NumbersFit`), and every step between keeps those fields (`SameClaim`).
`ActivationsRunTheLifecycle`: for a cap on attempts that leaves room for one
recovery, every step is one of `JobLifecycle` or a stutter, as
`PolicyImplementsLifecycle` says of evaluations. The cap is the only bound that
its hypothesis names; the code has none.

**`RoutingServicesProofs`.** *Backlog.* `BacklogInvariant`: the generation is
the fence of the cache. While an acquisition's generation is still current
nothing was announced since it began, so what it read counts at least what was
announced then; and every snapshot in the cache counts all that was ever
announced. `BacklogCountsOwnRequests` follows.

*Actions.* `ActionsInvariant`: the pages before the one that a search asks for
hold no item of its decision, so a search that ends without it may create it;
each step finds done what the steps before it write; and what a finished
attempt has written stays. Items are only appended, which is why a page, once
seen, does not get an item of the decision later. `ActionsKeepConverging`
follows for pages of any size and any number of other items.

*Rules.* The state is a question and its answer, so `RulesAnswer` only says
which operator gave it, and the work is in lemmas about the operators, without
induction. The reviewers that are taken go first: whoever is left out is
preceded by as many as are wanted, and of a finite set of naturals that is not
empty one goes before all others (`FirstGoes`), so as many are taken as are
wanted or there are (`ChosenAreEnough`). From these `RulesSelectFairly`. Each
component of the score grows with the files, so the score does, by the bounds
that the schema sets (`RiskGrows`, `RulesKeepRiskMonotone`). Of a merged list
the first entry that matches is the repository's when it has one for that set
of files, and else the first of the organization's whose key it does not list
(`MergedDecides`, `RulesLetRepositoryDecide`), whatever patterns match and
however keys are normalized.

**`WebProofs`.** `IntakeInvariant`: a review's receipt has a job that is not
older, or one that was settled after it and went with its connection, which a
cleanup deletes only when none of its jobs is unfinished; while retention
deletes jobs, the receipts that are left are younger than its cutoff, because
they go first, so the job of a receipt is not among those deleted. It implies `IntakeKeepsReviews`; `IntakeAuthorizesRecoveries` is
an action property of the inserting transaction. `ThrottleInvariant`: what an
entry remembers is a suffix of the guesses of its key, what it forgot is at
least a window old, and no entry expires before `nextExpiryAt`. Pruning drops
exactly a prefix because failures are in order of time; the first that is kept
is a least element, whose existence is the library's well-foundedness theorem.
`ThrottleBoundsGuesses`, `ThrottleLocksAreDeserved` and `ThrottleScansInTime`
follow.

Proved and in no run, since the other properties are more telling there:
`TypeOK` of the queue, the outbox and the connections, `PolicyTypeOK`,
`AttemptBudget`, `OutcomeIsFinal`, `PublishedIsFinal`, `CheckFailureIsFinal`,
`NextExpiryIsEarly`, `ActivationBudget`, and the inductive invariants themselves.

## 6. What is only model-checked

* All liveness (`EveryJobSettles`, `ApprovalsUnblock`, `EveryEventIsPublished`,
  `CleanupCompletes`, `EveryActivationSettles`): fairness and ENABLED are out
  of the prover's reach. These are the only properties of the passing runs that
  no theorem states.
* The two disagreements that the runs of section 7 show.

## 7. Where the code and its documents disagree

Two are runs that TLC must find violated; `findings` in `PROJECT.json` has the
quotes.

* `routing_permanent`: an attempt opens the policy check and dies; its retry
  meets a permanent error before its actions. The job fails and the check stays
  in progress, where `docs/architecture.md:32` says that it fails. A sweep that
  ends the last attempt of a dead worker leaves the same: it fails the job, and
  no finalization follows.
* `availability_exhausted`: the transaction that gives an activation up
  validates the recovery in its payload by an exact set of keys, which the
  runner's own recovery does not have (`packages/db/src/jobs.ts:487`). The job
  fails, its rows wait for a finalizer for ever.

The models reach the following too; no run states a property that cannot hold.

* An attempt fails the check on GitHub for a permanent error of its actions and
  dies before it records that; the retry succeeds. A no-human route then says
  success in the row and failure on GitHub. A human route, at the third of its
  attempts, finds its first evaluation done and rests with a row in progress,
  or in success, and a failed check (`apps/worker/src/runtime-services.ts:297`,
  against `docs/github-app/required-human-review-policy.md:27`). So
  `CheckIsCurrent` speaks of heads whose newest run has not failed, and
  `ShownFailureIsFinal` of the others. The bounds of `policy_single` are too
  small to reach the human route's case; the proof found it.
* An approval that is evaluated while the pull request is closed is skipped;
  the reopening finds its routing key taken and evaluates nothing. A force push
  back to an earlier head ends the same way
  (`packages/application/src/review-policy.ts:82`,
  `packages/db/src/deliveries.ts:69`, against `docs/architecture.md:32`).
* A recovery that names its decision is overwritten by one that does not when
  its own settlement fails (`apps/worker/src/runner.ts:165`).
* An activation in shadow mode that finds enough approvals, or nobody to ask,
  plans a row that its own validation refuses, and fails
  (`packages/application/src/reviewer-availability.ts:1488`, against
  `docs/operations/reviewer-availability.md:43`).
* The row of a replacement is persisted without another look at the lease
  (`packages/db/src/availability.ts:507`, against line 41 of that document).
* A row that names no intent, next to an intent of the same decision, makes
  every later attempt throw (`packages/db/src/availability.ts:436`).
* A full throttle map refuses every new key until an entry expires
  (`apps/web/src/auth/login-throttle.ts:30`).
* Backlog caches are per process: another worker's requests are counted only
  when a snapshot is 60 seconds old. An answer that is complete exactly at its
  deadline is given without the last authorization
  (`packages/application/src/reviewer-backlog.ts:93`).
* The redelivery of a review whose receipt was retained away, but whose failed
  job was not, throws (`packages/db/src/deliveries.ts:123`). The decision of a
  pull request that stays open for more than 90 days is deleted.

## 8. What is not modelled, and the plan

Left out for good: HTTP and payload schemas of the GitHub adapter, signatures,
sessions, environment parsing, read-only analytics, SQL migrations and the
admin UI. They are I/O, data validation, or keep no state that changes
concurrently.

Of the components that are modelled in part: the heartbeat and the order of
`maintenance.ts` (a failing retention keeps the cycle from claiming); the
fields of events and audits; how a glob pattern matches, excluded branches and
the detection of AI authorship; the parsing of configuration; malformed job
payloads, which fail at once; several processes that share one backlog cache,
of which there are none.

The order of the work, most important first. Done: queue, routing, policy
evaluation, outbox, connections, availability, backlog, intake with recovery
and retention, throttle, rules, actions; the proofs of every safety property of
the runs. What the proofs changed in the models: alternatives of a CASE that
overlapped, whose choice TLA+ leaves open, are now nested conditions in the
order of the code; `CheckIsCurrent` has the condition on failed runs;
deliveries of routing and of reviews are told apart (`PolicyAssumption`); the
rules have their assumption and no recursion.
Next:

1. The maintenance cycle as the composition of sweep, retention, cleanup and
   drain.
2. The selection of approvals that count (`activeApprovedReviewers`) as an
   operator, in place of the bit of `PolicyEvaluation`.

## 9. Running it

    tlc -config JobQueue.cfg MCJobQueue   # likewise for each run
    tlapm JobQueueProofs.tla              # likewise for each module of theorems
