------------------------ MODULE ReviewerAvailability ------------------------
(***************************************************************************)
(* The activation of a reviewer absence: activateReviewerAbsence of        *)
(* packages/application/src/reviewer-availability.ts, the recovery of its  *)
(* last steps (apps/worker/src/availability-processor.ts), the runner that *)
(* settles its job (apps/worker/src/runner.ts), its transactions           *)
(* (packages/db/src/availability.ts and jobs.ts) and the review requests   *)
(* it makes on GitHub (packages/provider-github/src/adapter.ts).           *)
(*                                                                         *)
(* One absence of one reviewer.  Each revision of it has a job of its own, *)
(* so a job is a revision.  Decisions are the routing decisions the absent *)
(* reviewer was selected for, one for each pull request, in the order of   *)
(* activation.  An attempt takes the rows it left unfinished first, then   *)
(* each decision: it reads GitHub, plans, writes its intent, reads GitHub  *)
(* again, moves the review request, records the outcome with its event and *)
(* has the policy evaluated.  Selection among equals (backlog, stable      *)
(* hash) is any choice; one set of approvals stands for those of the head  *)
(* and those of all reviews, which the code tells apart in two places.     *)
(***************************************************************************)
EXTENDS JobLifecycle, FiniteSets

CONSTANTS
  Decisions,         \* ids of routing decisions, in the order they are visited
  Mode,              \* for each decision, "enforce" or "shadow"
  Actors,            \* reviewers
  Absentee,          \* the absent one
  Author,            \* the author of every pull request
  Pool,              \* the ownership-eligible actors stored with a decision
  Preferred,         \* the ones that are preferred
  FirstCohort,       \* the actors a decision selected
  Required,          \* approvals the policy asks for
  RecoveryAttempts,  \* REVIEWER_REPLACEMENT_RECOVERY_ATTEMPTS (3)
  NoActor

ASSUME AvailabilityAssumption ==
  /\ Decisions \subseteq Nat /\ IsFiniteSet(Decisions)
  /\ Jobs \subseteq Nat \ {0} /\ 1 \in Jobs
  /\ Mode \in [Decisions -> {"enforce", "shadow"}]
  /\ NoActor \notin Actors
  /\ Absentee \in FirstCohort /\ FirstCohort \subseteq Actors
  /\ Pool \subseteq Actors /\ Preferred \subseteq Pool
  /\ Required \in Nat \ {0} /\ RecoveryAttempts \in Nat \ {0}
  /\ DefaultMaxAttempts \in Nat \ {0} /\ Nobody \notin Workers

Outcomes == {"replaced", "simulated_replacement", "no_replacement_available",
             "skipped_closed", "skipped_changed_head", "skipped_policy_satisfied",
             "skipped_approved", "permanent_failure"}

RowState == {"finalizer_pending", "completed", "permanent_failure"}

\* A row of reviewer_replacements.  "linked" says that it names the intent, and
\* the stamp stands for its times: those of the attempt that computed it, or of
\* the transaction that gave the job up (0).
Row == [outcome : Outcomes \cup {"none"}, actor : Actors \cup {NoActor},
        linked : BOOLEAN, state : RowState \cup {"none"}, stamp : Nat]

NoRow == [outcome |-> "none", actor |-> NoActor, linked |-> FALSE,
          state |-> "none", stamp |-> 0]

\* What an attempt wants recorded about a decision, and the payload's
\* reviewerReplacementFinalizerRecovery: the same with the phase to go on from.
Phases == {"persist_replacement", "run_finalizer", "complete_replacement"}
Recovery == [phase : Phases \cup {"none"}, decision : Decisions \cup {0}, row : Row]
NoRecovery == [phase |-> "none", decision |-> 0, row |-> NoRow]

VARIABLES
  absence,     \* its row: current revision, status, and where its window is
  connection,  \* the status of the provider connection
  pull,        \* for each decision, its pull request on GitHub
  policy,      \* for each decision, its policy_check_state
  cohort,      \* for each decision, selected_reviewers
  superseded,  \* decisions with a later one for their pull request
  away,        \* actors with another absence that is active
  intent,      \* for each revision and decision, the actor of its intent
  history,     \* for each revision and decision, its replacement row
  payload,     \* for each job, the recovery in its payload
  lastError,   \* for each job, what last_error says of how it was given up
  late,        \* requests that timed out here and that GitHub may still serve
  attempt,     \* for each worker, the local state of the attempt it executes
  asked,       \* <<r, d, actor>>: the actor is on the list of requested reviewers
  ran          \* <<r, d>>: the finalizer has run

world == <<pull, superseded, away>>
ghosts == <<asked, ran>>
shared == <<job, absence, connection, world, policy, cohort, intent, history, payload,
            lastError, late, ghosts>>
availabilityVars == <<shared, attempt>>

NoAttempt ==
  [step |-> "idle", from |-> "candidate", job |-> 0, bounded |-> FALSE, number |-> 0,
   max |-> 0, started |-> "upcoming", away |-> {}, todo |-> {}, open |-> {},
   seen |-> [d \in Decisions |-> "pending"], round |-> 1, selection |-> {NoActor},
   approved |-> {}, intent |-> NoActor, decision |-> 0, row |-> NoRow,
   effects |-> FALSE, phase |-> "none", error |-> "none"]

AvailabilityInit ==
  /\ Init
  /\ absence = [revision |-> 0, status |-> "unscheduled", window |-> "upcoming"]
  /\ connection = "active"
  /\ pull = [d \in Decisions |-> [open |-> TRUE, head |-> "routed", approved |-> {},
                                  requested |-> FirstCohort]]
  /\ policy = [d \in Decisions |-> "pending"]
  /\ cohort = [d \in Decisions |-> FirstCohort]
  /\ superseded = {} /\ away = {}
  /\ intent = [r \in Jobs |-> [d \in Decisions |-> NoActor]]
  /\ history = [r \in Jobs |-> [d \in Decisions |-> NoRow]]
  /\ payload = [r \in Jobs |-> NoRecovery]
  /\ lastError = [r \in Jobs |-> "none"]
  /\ late = {}
  /\ attempt = [w \in Workers |-> NoAttempt]
  /\ asked = {} /\ ran = {}
-----------------------------------------------------------------------------
(* Local state of an attempt, authority and locks *)

At(w, step) == attempt[w].step = step

\* The attempt goes on with some of its fields changed.
Proceed(w, next) == attempt' = [attempt EXCEPT ![w] = next]
Goto(w, step) == attempt' = [attempt EXCEPT ![w].step = step]

\* assertClaimedReviewerMutationAuthority: the lease is the claimed one, the
\* absence is at the revision of the job, the connection is active.
HoldsJob(w) == job[attempt[w].job].holder = w
Current(r) == absence.revision = r /\ absence.status = "scheduled"

Authorized(w) == HoldsJob(w) /\ Current(attempt[w].job) /\ connection = "active"

\* runClaimedReviewerProviderMutation keeps the rows of the job, the absence and
\* the connection locked while it moves a review request.
MutationSteps == {"remove", "ask"}

\* A slip: the rows are only read, so everybody else may go on.
UnlockedAlways == TRUE
Unlocked == \A w \in Workers : attempt[w].step \notin MutationSteps

-----------------------------------------------------------------------------
(* Plans *)

HasFinalizer(outcome) ==
  outcome \in {"replaced", "skipped_policy_satisfied", "no_replacement_available"}

\* validateReplacementInput: the state a row of an outcome must be inserted with.
ExpectedState(outcome) ==
  CASE outcome = "permanent_failure" -> "permanent_failure"
    [] HasFinalizer(outcome) -> "finalizer_pending"
    [] OTHER -> "completed"

\* persistenceInput: a shadow plan made from GitHub's state has no finalizer.
PlannedState(d, outcome) ==
  IF Mode[d] = "shadow" /\ HasFinalizer(outcome) THEN "completed" ELSE ExpectedState(outcome)

\* assertReviewerReplacementProvenance: an actor goes with a replacement, which
\* names its intent exactly when it is a real one.
ProvenanceValid(row) ==
  /\ row.actor # NoActor <=> row.outcome \in {"replaced", "simulated_replacement"}
  /\ row.outcome = "replaced" => row.linked
  /\ row.outcome = "simulated_replacement" => ~row.linked

\* assertPersistReviewerReplacementInput, before the transaction is tried.
WellFormed(row) == ProvenanceValid(row) /\ row.state = ExpectedState(row.outcome)

Planned(a, outcome, actor, state) ==
  [outcome |-> outcome, actor |-> actor, linked |-> a.intent # NoActor,
   state |-> state, stamp |-> a.number]

PermanentFailure(a) == Planned(a, "permanent_failure", NoActor, "permanent_failure")

\* terminalProviderPlan.  It counts the approvals of every review, the check of
\* an intent's actor (reviewer-availability.ts:1303) those of the head only: an
\* approval of an earlier head that nobody took back is in the first alone.
\* Here it is in both or in neither.
TerminalOutcome(view) ==
  IF ~view.open THEN "skipped_closed"
  ELSE IF view.head # "routed" THEN "skipped_changed_head"
  ELSE IF Cardinality(view.approved) >= Required THEN "skipped_policy_satisfied"
  ELSE IF Absentee \in view.approved THEN "skipped_approved" ELSE "none"

\* selectReplacement: the preferred tier first, the load and a hash among equals.
Candidates(approved, absent) ==
  Pool \ (FirstCohort \cup {Author, Absentee} \cup approved \cup absent)
Choices(approved, absent) ==
  LET free == Candidates(approved, absent) IN
  IF free \cap Preferred # {} THEN free \cap Preferred
  ELSE IF free # {} THEN free ELSE {NoActor}

\* replacementPlan for an actor (or none), durableIntentPlan for an intent.
ReplacementRow(a, x) ==
  IF x = NoActor
  THEN Planned(a, "no_replacement_available", NoActor,
               PlannedState(a.decision, "no_replacement_available"))
  ELSE IF Mode[a.decision] = "enforce"
  THEN Planned(a, "replaced", x, "finalizer_pending")
  ELSE Planned(a, "simulated_replacement", x, "completed")

\* Where applyCandidatePlan goes with a plan: after the first reading GitHub is
\* always read again; a replacement in enforce mode needs an intent first.
AfterPlan(a, row) ==
  LET next == [a EXCEPT !.row = row] IN
  IF row.outcome = "replaced" /\ ~row.linked THEN [next EXCEPT !.step = "prepare"]
  ELSE IF a.round = 1 THEN [next EXCEPT !.step = "inspect", !.round = 2]
  ELSE IF row.outcome = "replaced" THEN [next EXCEPT !.step = "check"]
  ELSE [next EXCEPT !.step = "persist"]

-----------------------------------------------------------------------------
(* Errors *)

\* An error that is not handled goes to the runner's catch clause.
Caught(a) == [a EXCEPT !.step = "caught"]

\* assertReviewerReplacementFinalizerRecovery: either a finalizer is still to be
\* run, or a request that failed is still to be recorded.
RecoverySound(p) ==
  /\ ProvenanceValid(p.row)
  /\ \/ HasFinalizer(p.row.outcome)
     \/ p.row.outcome = "permanent_failure" /\ p.row.linked /\ p.phase = "persist_replacement"
  /\ p.phase \in Phases
  /\ p.phase = "persist_replacement" => WellFormed(p.row)

\* The attempt ends with a finalizer recovery.
GivenBack(a, phase, error) ==
  IF RecoverySound([phase |-> phase, decision |-> a.decision, row |-> a.row])
  THEN [a EXCEPT !.step = "give back", !.phase = phase, !.error = error]
  ELSE Caught(a)

\* A slip: a row whose finalizer failed is taken for one that can be completed.
PhaseOfCompleted(step) ==
  IF step \in {"finalize", "complete"} THEN "complete_replacement" ELSE "persist_replacement"

\* Which handler receives an error thrown at a step.
PhaseOf(step) == CASE step = "finalize" -> "run_finalizer"
                   [] step = "complete" -> "complete_replacement"
                   [] OTHER -> "persist_replacement"

\* A permanent answer of GitHub becomes the plan of a permanent failure.
Failed(a, error) ==
  CASE a.step \in {"finalize", "complete", "audit", "recover persist", "recover audit"} ->
         GivenBack(a, PhaseOf(a.step), error)
    [] a.step = "recover load" -> GivenBack(a, a.phase, error)
    [] a.step = "persist" /\ a.effects -> GivenBack(a, "persist_replacement", error)
    [] a.step \in MutationSteps \cup {"inspect"} /\ error = "permanent" ->
         [a EXCEPT !.step = "persist", !.row = PermanentFailure(a),
                   !.effects = a.step \in MutationSteps]
    [] OTHER -> Caught(a)

\* How an attempt goes on when a transaction or a request took effect: its
\* answer arrives, or an error does.
Answered(a, next, answered) == IF answered THEN next ELSE Failed(a, "transient")

\* GitHub's answers can be permanent errors, those of the database cannot.
ProviderSteps == {"inspect", "remove", "ask", "finalize"}
DatabaseSteps == {"list finalizers", "finalize", "complete", "list intents", "load",
                  "next", "select", "prepare", "check", "begin", "persist", "audit",
                  "recover load", "recover persist", "recover audit"}

Throw(w) ==
  /\ \/ attempt[w].step \in DatabaseSteps \cup ProviderSteps
        /\ Proceed(w, Failed(attempt[w], "transient"))
     \/ attempt[w].step \in ProviderSteps
        /\ Proceed(w, Failed(attempt[w], "permanent"))
  /\ UNCHANGED shared

\* The deadline of the mutation passes.  The request on its way is aborted here
\* and may be served all the same.
TimeOut(w) ==
  /\ attempt[w].step \in MutationSteps
  /\ LET a == attempt[w] IN
       late' = late \cup {[request |-> a.step, job |-> a.job, decision |-> a.decision,
                           actor |-> a.intent]}
  /\ Proceed(w, Caught(attempt[w]))
  /\ UNCHANGED <<job, absence, connection, world, policy, cohort, intent, history,
                 payload, lastError, ghosts>>
-----------------------------------------------------------------------------
(* Claiming: a recovery in the payload is finished first *)

\* The job of a revision waits for its window; a cancellation is due at once.
Due(r) ==
  r < absence.revision \/ absence.window # "upcoming" \/ absence.status = "cancelled"

FirstStep(r) == CASE payload[r].phase = "none" -> "list finalizers"
                  [] payload[r].phase = "persist_replacement" -> "recover persist"
                  [] OTHER -> "recover load"

Claim(w, r) ==
  /\ At(w, "idle")
  /\ Due(r)
  /\ Acquire(w, r)
  /\ Proceed(w, [NoAttempt EXCEPT
       !.step = FirstStep(r), !.from = "recover", !.job = r, !.number = job[r].attempt + 1,
       !.max = job[r].max, !.bounded = payload[r].phase # "none",
       !.phase = payload[r].phase, !.decision = payload[r].decision, !.row = payload[r].row,
       !.effects = payload[r].phase # "none"])
  /\ UNCHANGED <<absence, connection, world, policy, cohort, intent, history, payload,
                 lastError, late, ghosts>>

-----------------------------------------------------------------------------
(* The rows and intents that earlier attempts left unfinished *)

\* assertReviewerReplacementFinalizerRecord
PendingSound(row) == HasFinalizer(row.outcome) /\ ProvenanceValid(row)

\* The attempt takes the time: where the window is, and who else is absent.
ListFinalizers(w) ==
  /\ At(w, "list finalizers")
  /\ LET a == attempt[w]
         pending == {d \in Decisions : history[a.job][d].state = "finalizer_pending"}
     IN Proceed(w, IF \A d \in pending : PendingSound(history[a.job][d])
                   THEN [a EXCEPT !.step = "replay", !.from = "replay", !.effects = FALSE,
                           !.started = absence.window, !.away = away, !.phase = "none",
                           !.todo = pending]
                   ELSE Caught(a))
  /\ UNCHANGED shared

Replay(w) ==
  /\ At(w, "replay")
  /\ LET a == attempt[w] IN
       IF a.todo = {} THEN Goto(w, "list intents")
       ELSE \E d \in a.todo :
              Proceed(w, [a EXCEPT !.step = "finalize", !.todo = @ \ {d}, !.decision = d,
                                   !.row = history[a.job][d]])
  /\ UNCHANGED shared

\* Intents without a row; a row that does not name its intent is an error.
OpenIntents(r) == {d \in Decisions : intent[r][d] # NoActor /\ history[r][d] = NoRow}
Unlinked(r) ==
  \E d \in Decisions :
    intent[r][d] # NoActor /\ history[r][d] # NoRow /\ ~history[r][d].linked

ListIntents(w) ==
  /\ At(w, "list intents")
  /\ LET a == attempt[w] IN
       Proceed(w, IF Unlinked(a.job) THEN Caught(a)
                  ELSE [a EXCEPT !.step = "load", !.open = OpenIntents(a.job)])
  /\ UNCHANGED shared

-----------------------------------------------------------------------------
(* Reading the activation and planning a decision *)

\* findReviewerReplacementCandidates
Activated(r) ==
  {d \in Decisions \ superseded : Absentee \in cohort[d] /\ history[r][d] = NoRow}

Load(w) ==
  /\ At(w, "load")
  /\ LET a == attempt[w] IN
       Proceed(w, IF Current(a.job) /\ connection = "active" /\ a.started = "active"
                  THEN [a EXCEPT !.step = "next", !.from = "candidate", !.seen = policy,
                                 !.todo = Activated(a.job)]
                  ELSE [a EXCEPT !.step = "next intent"])
  /\ UNCHANGED shared

\* mutationIntentMismatch.  A decision whose cohort holds the absent reviewer
\* still has its first cohort.
Fits(x) == x \in Pool \ (FirstCohort \cup {Absentee})

\* readCandidatePlan up to the first request to GitHub.
FirstPlan(a) ==
  IF (a.intent # NoActor /\ ~Fits(a.intent)) \/ a.seen[a.decision] = "failure"
  THEN [a EXCEPT !.step = "persist", !.row = PermanentFailure(a)]
  ELSE IF a.seen[a.decision] = "success"
  THEN [a EXCEPT !.step = "persist",
          !.row = Planned(a, "skipped_policy_satisfied", NoActor, "finalizer_pending")]
  ELSE [a EXCEPT !.step = "inspect"]

NextCandidate(w) ==
  /\ At(w, "next")
  /\ LET a == attempt[w] IN
       IF a.todo = {} THEN Goto(w, "next intent")
       ELSE LET d == CHOOSE c \in a.todo : \A e \in a.todo : c <= e IN
            Proceed(w, FirstPlan([a EXCEPT !.todo = @ \ {d}, !.decision = d,
                                    !.round = 1, !.selection = {NoActor}, !.effects = FALSE,
                                    !.intent = IF Mode[d] = "enforce" THEN intent[a.job][d]
                                                      ELSE NoActor]))
  /\ UNCHANGED shared

\* inspectChangeRequest and planFromProviderState.
Inspect(w) ==
  /\ At(w, "inspect")
  /\ connection = "active"
  /\ LET a == [attempt[w] EXCEPT !.approved = pull[attempt[w].decision].approved]
         outcome == TerminalOutcome(pull[a.decision])
     IN IF outcome # "none"
        THEN Proceed(w, AfterPlan(a, Planned(a, outcome, NoActor, PlannedState(a.decision, outcome))))
        ELSE IF a.intent # NoActor
        THEN Proceed(w, AfterPlan(a, ReplacementRow(a, a.intent)))
        ELSE IF a.selection # {NoActor}
        THEN \E x \in Choices(a.approved, a.selection) :
               Proceed(w, AfterPlan(a, ReplacementRow(a, x)))
        ELSE Proceed(w, [a EXCEPT !.step = "select"])
  /\ UNCHANGED shared

\* loadSelectionContext.  findActive reads the rows of now for the time the
\* attempt began at: an absence is in the answer as of then or as of now.
Select(w) ==
  /\ At(w, "select")
  /\ connection = "active"
  /\ \E absent \in {attempt[w].away, away} :
       LET a == [attempt[w] EXCEPT !.selection = absent] IN
       \E x \in Choices(a.approved, absent) : Proceed(w, AfterPlan(a, ReplacementRow(a, x)))
  /\ UNCHANGED shared

\* findKnownRepository finds no repository of an active connection, for GitHub
\* or for the backlog.
Unavailable(w) ==
  /\ attempt[w].step \in {"inspect", "select"}
  /\ connection # "active"
  /\ Proceed(w, Caught(attempt[w]))
  /\ UNCHANGED shared

-----------------------------------------------------------------------------
(* The intent and the review request *)

\* A slip: an intent on record is replaced by the choice of this attempt.
IntentAcceptedAnew(r, d, x) == Absentee \in cohort[d] /\ x \in Pool \ cohort[d]

\* prepareMutationIntentTransaction: once an intent is on record it stays.
IntentAccepted(r, d, x) ==
  /\ Absentee \in cohort[d]
  /\ x \in Pool \ cohort[d]
  /\ history[r][d] = NoRow \/ history[r][d].linked
  /\ intent[r][d] \in {NoActor, x}

Prepare(w, answered) ==
  /\ At(w, "prepare")
  /\ Unlocked
  /\ Authorized(w)
  /\ LET a == attempt[w]  x == a.row.actor IN
       /\ IntentAccepted(a.job, a.decision, x)
       /\ intent' = [intent EXCEPT ![a.job][a.decision] = x]
       /\ Proceed(w, Answered(a, [a EXCEPT !.step = "inspect", !.round = @ + 1,
                                           !.intent = x], answered))
  /\ UNCHANGED <<job, absence, connection, world, policy, cohort, history, payload,
                 lastError, late, ghosts>>

PrepareRefused(w) ==
  /\ At(w, "prepare")
  /\ LET a == attempt[w] IN
       /\ ~Authorized(w) \/ ~IntentAccepted(a.job, a.decision, a.row.actor)
       /\ Proceed(w, Caught(a))
  /\ UNCHANGED shared

\* durableIntentIneligibilityPlan; nobody is absent from a connection that is not
\* active.
CheckIntent(w) ==
  /\ At(w, "check")
  /\ LET a == attempt[w] IN
       \E absent \in IF connection = "active" THEN {a.away, away} ELSE {{}} :
         Proceed(w, IF a.intent \in {Author} \cup absent \cup a.approved
                    THEN [a EXCEPT !.step = "persist", !.row = PermanentFailure(a)]
                    ELSE [a EXCEPT !.step = "begin"])
  /\ UNCHANGED shared

Begin(w) ==
  /\ At(w, "begin")
  /\ Unlocked
  /\ Proceed(w, IF Authorized(w) THEN [attempt[w] EXCEPT !.step = "remove"]
                                 ELSE Caught(attempt[w]))
  /\ UNCHANGED shared

\* The DELETE, left out when the absent reviewer is not requested.
Remove(w, answered) ==
  /\ At(w, "remove")
  /\ pull' = [pull EXCEPT ![attempt[w].decision].requested = @ \ {Absentee}]
  /\ Proceed(w, Answered(attempt[w], [attempt[w] EXCEPT !.step = "ask"], answered))
  /\ UNCHANGED <<job, absence, connection, superseded, away, policy, cohort, intent,
                 history, payload, lastError, late, ghosts>>

\* The POST, left out when the replacement is requested already.
Ask(w, answered) ==
  /\ At(w, "ask")
  /\ LET a == attempt[w]  x == a.intent IN
       /\ pull' = [pull EXCEPT ![a.decision].requested = @ \cup {x}]
       /\ asked' = asked \cup {<<a.job, a.decision, x>>}
       /\ Proceed(w, Answered(a, [a EXCEPT !.step = "persist", !.effects = TRUE,
                                           !.row = ReplacementRow(a, x)], answered))
  /\ UNCHANGED <<job, absence, connection, superseded, away, policy, cohort, intent,
                 history, payload, lastError, late, ran>>

\* GitHub serves a request whose sender gave up on it.
Land(q) ==
  /\ q \in late
  /\ late' = late \ {q}
  /\ IF q.request = "remove"
     THEN /\ pull' = [pull EXCEPT ![q.decision].requested = @ \ {Absentee}]
          /\ UNCHANGED asked
     ELSE /\ pull' = [pull EXCEPT ![q.decision].requested = @ \cup {q.actor}]
          /\ asked' = asked \cup {<<q.job, q.decision, q.actor>>}
  /\ UNCHANGED <<job, absence, connection, superseded, away, policy, cohort, intent,
                 history, payload, lastError, attempt, ran>>
-----------------------------------------------------------------------------
(* Recording the outcome *)

\* assertReplacementRetryMatches: everything but the state must agree.
RetryMatches(r, d, row) ==
  history[r][d] # NoRow /\ [history[r][d] EXCEPT !.state = row.state] = row

\* assertReplacementMutationIntent
LinkageValid(r, d, row) ==
  row.linked => /\ intent[r][d] # NoActor
                /\ row.outcome = "replaced" => intent[r][d] = row.actor

\* A slip: what happened since the plan was made is not looked at.
StillAppliesUnchecked(r, d, row, absent) == Absentee \in cohort[d]

\* The checks of persistReplacement's transaction that make it answer "stale".
StillApplies(r, d, row, absent) ==
  /\ Current(r)
  /\ Absentee \in cohort[d]
  /\ row.actor # NoActor => /\ row.actor \in Pool \ (cohort[d] \cup absent)
                            /\ policy[d] = "pending"

\* The row, and with a replacement the decision's cohort, in one transaction.
Record(r, d, row) ==
  /\ history' = [history EXCEPT ![r][d] = row]
  /\ cohort' = [cohort EXCEPT ![d] = IF row.actor = NoActor THEN @
                                     ELSE (@ \ {Absentee}) \cup {row.actor}]

\* persistReplacement accepts a row: it is on record, or it is inserted.
Accepts(r, d, row) ==
  \/ RetryMatches(r, d, row)
  \/ /\ history[r][d] = NoRow
     /\ LinkageValid(r, d, row)
     /\ row.linked \/ connection = "active"

\* A decision is done; without a mapped finalizer this is all.
Processed(a) == [a EXCEPT !.step = "next", !.open = @ \ {a.decision}]

Persist(w, answered) ==
  /\ At(w, "persist")
  /\ Unlocked
  /\ LET a == attempt[w]  r == a.job  d == a.decision
         next == IF a.row.state = "finalizer_pending" THEN [a EXCEPT !.step = "finalize"]
                                                      ELSE Processed(a)
     IN /\ WellFormed(a.row)
        /\ Accepts(r, d, a.row)
        /\ IF history[r][d] # NoRow THEN UNCHANGED <<history, cohort>>
           ELSE /\ StillApplies(r, d, a.row, away) /\ absence.window = "active"
                /\ Record(r, d, a.row)
        /\ Proceed(w, Answered(a, next, answered))
  /\ UNCHANGED <<job, absence, connection, world, policy, intent, payload, lastError,
                 late, ghosts>>

\* "Final revalidation": the attempt ends, unless GitHub was changed.
PersistStale(w) ==
  /\ At(w, "persist")
  /\ LET a == attempt[w]  r == a.job  d == a.decision IN
       /\ WellFormed(a.row)
       /\ history[r][d] = NoRow
       /\ a.row.linked \/ connection = "active"
       /\ ~(StillApplies(r, d, a.row, away) /\ absence.window = "active")
       /\ Proceed(w, IF a.effects THEN GivenBack(a, "persist_replacement", "transient")
                                  ELSE [a EXCEPT !.step = "succeed"])
  /\ UNCHANGED shared

PersistRefused(w) ==
  /\ At(w, "persist")
  /\ LET a == attempt[w] IN
       \/ ~WellFormed(a.row) /\ Proceed(w, Caught(a))
       \/ /\ WellFormed(a.row)
          /\ ~Accepts(a.job, a.decision, a.row)
          /\ Proceed(w, Failed(a, "transient"))
  /\ UNCHANGED shared

\* What a policy evaluation leaves on record.
Evaluated(d) ==
  IF policy[d] = "failure" \/ ~pull[d].open \/ pull[d].head # "routed" THEN policy[d]
  ELSE IF Cardinality(pull[d].approved) >= Required THEN "success" ELSE "pending"

\* finalizers.run, under the authority and the locks of a provider mutation.
Finalize(w, answered) ==
  /\ At(w, "finalize")
  /\ Unlocked
  /\ Authorized(w)
  /\ LET a == attempt[w]  d == a.decision IN
       /\ ran' = ran \cup {<<a.job, d>>}
       /\ policy' = [policy EXCEPT ![d] = IF a.row.outcome = "no_replacement_available"
                                          THEN "failure" ELSE Evaluated(d)]
       /\ Proceed(w, Answered(a, [a EXCEPT !.step = "complete"], answered))
  /\ UNCHANGED <<job, absence, connection, world, cohort, intent, history, payload,
                 lastError, late, asked>>

\* Without a lease or with an obsolete absence it may be tried again; with a
\* revoked connection it may not.
FinalizeRefused(w) ==
  /\ At(w, "finalize")
  /\ ~Authorized(w)
  /\ Proceed(w, Failed(attempt[w], IF connection = "revoked" THEN "permanent" ELSE "transient"))
  /\ UNCHANGED shared

\* Where a recovery goes on; the activation follows its last phase.
RecoveryStep(phase) == CASE phase = "run_finalizer" -> "finalize"
                         [] phase = "complete_replacement" -> "complete"
                         [] OTHER -> "list finalizers"

\* Where an attempt goes on once a row is complete.
AfterRow(a) == CASE a.from = "replay" -> [a EXCEPT !.step = "replay"]
                 [] a.from = "candidate" -> Processed(a)
                 [] OTHER -> [a EXCEPT !.step = RecoveryStep("none")]

Complete(w, answered) ==
  /\ At(w, "complete")
  /\ Unlocked
  /\ LET a == attempt[w]  r == a.job  d == a.decision IN
       /\ history[r][d].state \in {"finalizer_pending", "completed"}
       /\ history' = [history EXCEPT ![r][d].state = "completed"]
       /\ Proceed(w, Answered(a, AfterRow(a), answered))
  /\ UNCHANGED <<job, absence, connection, world, policy, cohort, intent, payload,
                 lastError, late, ghosts>>

\* The row was given up meanwhile: the answer of updateReplacementState is null.
CompleteRefused(w) ==
  /\ At(w, "complete")
  /\ LET a == attempt[w] IN
       /\ history[a.job][a.decision].state \notin {"finalizer_pending", "completed"}
       /\ Proceed(w, Failed(a, "transient"))
  /\ UNCHANGED shared

-----------------------------------------------------------------------------
(* auditUnfinalizedIntents: an intent that is left over is recorded as failed *)

\* mutationIntentRecoveryPersistence
Abandoned(a) == [PermanentFailure(a) EXCEPT !.linked = TRUE]

NextIntent(w) ==
  /\ At(w, "next intent")
  /\ LET a == attempt[w] IN
       IF a.open = {} THEN Goto(w, "succeed")
       ELSE \E d \in a.open :
              LET b == [a EXCEPT !.decision = d, !.intent = intent[a.job][d]] IN
              Proceed(w, [b EXCEPT !.step = "audit", !.row = Abandoned(b)])
  /\ UNCHANGED shared

\* persistMutationIntentRecovery
Audited(r, d, row) ==
  /\ history[r][d] = NoRow \/ RetryMatches(r, d, row)
  /\ history' = IF history[r][d] = NoRow THEN [history EXCEPT ![r][d] = row] ELSE history

Audit(w, answered) ==
  /\ At(w, "audit")
  /\ Unlocked
  /\ LET a == attempt[w] IN
       /\ Audited(a.job, a.decision, a.row)
       /\ Proceed(w, Answered(a, [a EXCEPT !.step = "next intent",
                                           !.open = @ \ {a.decision}], answered))
  /\ UNCHANGED <<job, absence, connection, world, policy, cohort, intent, payload,
                 lastError, late, ghosts>>

AuditRefused(w) ==
  /\ At(w, "audit")
  /\ LET a == attempt[w] IN
       /\ history[a.job][a.decision] # NoRow
       /\ ~RetryMatches(a.job, a.decision, a.row)
       /\ Proceed(w, Failed(a, "transient"))
  /\ UNCHANGED shared

-----------------------------------------------------------------------------
(* recoverReviewerReplacementFinalizer, from the phase in the payload *)

\* assertReviewerReplacementRecoveryRecord
RecordSound(row) ==
  /\ ProvenanceValid(row)
  /\ row.outcome = "permanent_failure" => row.state = "permanent_failure"
  /\ row.state = "finalizer_pending" => HasFinalizer(row.outcome)

SameOutcome(one, other) ==
  one.outcome = other.outcome /\ one.actor = other.actor /\ one.linked = other.linked

\* assertReplacementMatchesRecovery
MatchesRecovery(a) ==
  LET row == history[a.job][a.decision] IN
  row # NoRow /\ RecordSound(row) /\ SameOutcome(row, a.row)

RecoverLoad(w) ==
  /\ At(w, "recover load")
  /\ LET a == attempt[w]  state == history[a.job][a.decision].state IN
       Proceed(w, IF ~MatchesRecovery(a) THEN Failed(a, "permanent")
                  ELSE IF a.phase = "complete_replacement" /\ state = "completed"
                  THEN [a EXCEPT !.step = RecoveryStep("none")]
                  ELSE IF state # "finalizer_pending" THEN Failed(a, "permanent")
                  ELSE [a EXCEPT !.step = RecoveryStep(a.phase)])
  /\ UNCHANGED shared

\* The row was given up by an audit, or it is the replacement that was applied.
RecoverPersist(w, answered) ==
  /\ At(w, "recover persist")
  /\ Unlocked
  /\ LET a == attempt[w]  r == a.job  d == a.decision
         next == [a EXCEPT !.step = RecoveryStep(IF HasFinalizer(a.row.outcome)
                                                 THEN "run_finalizer" ELSE "none")]
     IN /\ IF a.row.outcome = "permanent_failure"
           THEN Audited(r, d, a.row) /\ UNCHANGED cohort
           ELSE /\ Accepts(r, d, a.row)
                /\ IF history[r][d] # NoRow THEN UNCHANGED <<history, cohort>>
                   ELSE StillApplies(r, d, a.row, {}) /\ Record(r, d, a.row)
        /\ Proceed(w, Answered(a, next, answered))
  /\ UNCHANGED <<job, absence, connection, world, policy, intent, payload, lastError,
                 late, ghosts>>

\* The row keeps the times it was made with: whether the window and the other
\* absences cover them is open, so it may be stale at any time.
RecoverStale(w) ==
  /\ At(w, "recover persist")
  /\ LET a == attempt[w] IN
       /\ a.row.outcome # "permanent_failure"
       /\ history[a.job][a.decision] = NoRow
       /\ Proceed(w, [a EXCEPT !.step = "recover audit"])
  /\ UNCHANGED shared

\* mutationIntentRecoveryAudit
AuditOf(row) == [row EXCEPT !.outcome = "permanent_failure", !.actor = NoActor,
                            !.state = "permanent_failure"]

RecoverAudit(w, answered) ==
  /\ At(w, "recover audit")
  /\ Unlocked
  /\ LET a == attempt[w] IN
       /\ Audited(a.job, a.decision, AuditOf(a.row))
       /\ Proceed(w, Answered(a, [a EXCEPT !.step = "list finalizers"], answered))
  /\ UNCHANGED <<job, absence, connection, world, policy, cohort, intent, payload,
                 lastError, late, ghosts>>

\* Another row is on record: the recovery stays as it is.
RecoverRefused(w) ==
  /\ LET a == attempt[w] IN
       /\ \/ At(w, "recover persist") /\ ~RetryMatches(a.job, a.decision, a.row)
          \/ At(w, "recover audit") /\ ~RetryMatches(a.job, a.decision, AuditOf(a.row))
       /\ history[a.job][a.decision] # NoRow
       /\ Proceed(w, Failed(a, "transient"))
  /\ UNCHANGED shared

-----------------------------------------------------------------------------
(* The runner settles the job *)

ActivationMessage == {"kind", "workspaceId", "provider", "providerConnectionId",
                      "absenceId", "absenceRevision"}
RecoveryScope == ActivationMessage \ {"provider"}

\* isValidRecoveryShape wants a recovery's job to have exactly the keys of a
\* payload; the recovery holds the runner's message, which has one more.
RecoverySourceValid(p) ==
  p.phase = "none" \/ (ActivationMessage = RecoveryScope /\ RecoverySound(p))

\* recoverySourceMatches: the recovery goes with the intent, or the row, on record.
RecoverySourceMatches(r, p) ==
  LET row == history[r][p.decision]  actor == intent[r][p.decision] IN
  CASE p.phase = "none" -> TRUE
    [] p.phase = "persist_replacement" ->
         /\ p.row.linked /\ actor # NoActor
         /\ p.row.actor = IF p.row.outcome = "replaced" THEN actor ELSE NoActor
    [] OTHER -> row # NoRow /\ SameOutcome(row, p.row)

\* What exhaustReviewerAbsenceActivationTransaction leaves of a revision's rows:
\* open intents and pending finalizers are given up.  Nothing changes when the
\* recovery in the payload or the history does not hold together.
GivenUp(r) ==
  [d \in Decisions |->
     IF d \in OpenIntents(r)
     THEN [outcome |-> "permanent_failure", actor |-> NoActor, linked |-> TRUE,
           state |-> "permanent_failure", stamp |-> 0]
     ELSE IF history[r][d].state = "finalizer_pending"
     THEN [history[r][d] EXCEPT !.state = "permanent_failure"]
     ELSE history[r][d]]

\* A slip: the rows are left as they are.
ExhaustJobOnly(r) ==
  /\ lastError' = [lastError EXCEPT ![r] = "given up"]
  /\ UNCHANGED history

Exhaust(r) ==
  IF /\ RecoverySourceValid(payload[r]) /\ RecoverySourceMatches(r, payload[r])
     /\ ~Unlinked(r)
  THEN /\ history' = [history EXCEPT ![r] = GivenUp(r)]
       /\ lastError' = [lastError EXCEPT ![r] = "given up"]
  ELSE /\ lastError' = [lastError EXCEPT ![r] = "source is invalid"]
       /\ UNCHANGED history

\* A slip: a recovery is tried again without an end.
LastAttemptOfActivation(a) ==
  \/ a.step = "give back" /\ a.error = "permanent"
  \/ a.number >= a.max /\ a.step = "caught"

\* An attempt is the last one when its error is permanent, or when none is left;
\* a claim without a recovery gets some for the recovery it ends with.
LastAttempt(a) ==
  \/ a.step = "give back" /\ a.error = "permanent"
  \/ a.number >= a.max /\ (a.step = "caught" \/ a.bounded)

NextMax(a) == IF a.step = "give back" /\ ~a.bounded THEN a.number + RecoveryAttempts
                                                   ELSE a.max

Rest(w) == Proceed(w, NoAttempt)

Succeed(w) ==
  /\ At(w, "succeed")
  /\ Unlocked
  /\ Conclude(w, attempt[w].job, "succeeded")
  /\ Rest(w)
  /\ UNCHANGED <<absence, connection, world, policy, cohort, intent, history, payload,
                 lastError, late, ghosts>>

Retry(w) ==
  /\ attempt[w].step \in {"give back", "caught"}
  /\ Unlocked
  /\ LET a == attempt[w] IN
       /\ ~LastAttempt(a)
       /\ GiveBack(w, a.job, NextMax(a))
       /\ payload' = IF a.step = "caught" THEN payload
                     ELSE [payload EXCEPT ![a.job] = [phase |-> a.phase,
                             decision |-> a.decision, row |-> a.row]]
  /\ Rest(w)
  /\ UNCHANGED <<absence, connection, world, policy, cohort, intent, history, lastError,
                 late, ghosts>>

GiveUp(w) ==
  /\ attempt[w].step \in {"give back", "caught"}
  /\ Unlocked
  /\ LastAttempt(attempt[w])
  /\ Conclude(w, attempt[w].job, "failed")
  /\ Exhaust(attempt[w].job)
  /\ Rest(w)
  /\ UNCHANGED <<absence, connection, world, policy, cohort, intent, payload, late,
                 ghosts>>

\* The lease was lost: the outcome is not recorded.
LeaseLost(w) ==
  /\ attempt[w].step \in {"succeed", "give back", "caught"}
  /\ ~HoldsJob(w)
  /\ Rest(w)
  /\ UNCHANGED shared

\* The process dies, or loses the database while it settles the job.
Die(w) ==
  /\ ~At(w, "idle")
  /\ IF HoldsJob(w) THEN Vanish(attempt[w].job) ELSE UNCHANGED job
  /\ Rest(w)
  /\ UNCHANGED <<absence, connection, world, policy, cohort, intent, history, payload,
                 lastError, late, ghosts>>

\* recoverStaleJobs, which a worker runs before it claims: a job that took too
\* long is queued again; on its last attempt it is given up like by its runner,
\* or alone when that transaction fails.
SweepEffect(r, whole) ==
  IF job[r].attempt < job[r].max THEN UNCHANGED <<history, lastError>>
  ELSE IF whole THEN Exhaust(r)
  ELSE lastError' = [lastError EXCEPT ![r] = "isolated"] /\ UNCHANGED history

Sweep(r, whole) ==
  /\ \E w \in Workers : At(w, "idle")
  /\ Unlocked
  /\ Expire({r})
  /\ SweepEffect(r, whole)
  /\ UNCHANGED <<absence, connection, world, policy, cohort, intent, payload, late,
                 attempt, ghosts>>

-----------------------------------------------------------------------------
(* The administrator's changes, each with the job of the new revision *)

EnqueueActivation(r) == Submit(r)

Schedule(window) ==
  /\ absence.status = "unscheduled" /\ connection = "active"
  /\ absence' = [revision |-> 1, status |-> "scheduled", window |-> window]
  /\ EnqueueActivation(1)
  /\ UNCHANGED <<connection, world, policy, cohort, intent, history, payload, lastError,
                 late, attempt, ghosts>>

\* lockCurrentAbsence: a scheduled absence, at a revision the caller has seen.
Changed(status, window) ==
  /\ absence.status = "scheduled" /\ connection = "active"
  /\ Unlocked
  /\ absence.revision + 1 \in Jobs
  /\ absence' = [revision |-> absence.revision + 1, status |-> status, window |-> window]
  /\ EnqueueActivation(absence.revision + 1)
  /\ UNCHANGED <<connection, world, policy, cohort, intent, history, payload, lastError,
                 late, attempt, ghosts>>

Revise(window) == Changed("scheduled", window)
Cancel == Changed("cancelled", absence.window)

\* Time passes.
MoveWindow(window) ==
  /\ absence.status = "scheduled"
  /\ <<absence.window, window>> \in {<<"upcoming", "active">>, <<"active", "ended">>}
  /\ absence' = [absence EXCEPT !.window = window]
  /\ UNCHANGED <<job, connection, world, policy, cohort, intent, history, payload,
                 lastError, late, attempt, ghosts>>

-----------------------------------------------------------------------------
(* What else changes: GitHub, other absences, other jobs, the connection *)

SetConnection(status) ==
  /\ connection # "revoked" /\ connection # status
  /\ Unlocked
  /\ connection' = status
  /\ UNCHANGED <<job, absence, world, policy, cohort, intent, history, payload,
                 lastError, late, attempt, ghosts>>

\* The pull request of a decision is closed, gets another head, or a reviewer
\* approves it or takes the approval back.
PullChanges(d, next) ==
  /\ next # pull[d]
  /\ pull' = [pull EXCEPT ![d] = next]
  /\ UNCHANGED <<job, absence, connection, superseded, away, policy, cohort, intent,
                 history, payload, lastError, late, attempt, ghosts>>

Close(d) == PullChanges(d, [pull[d] EXCEPT !.open = FALSE])
Push(d) == PullChanges(d, [pull[d] EXCEPT !.head = "moved"])
Review(d, x) ==
  PullChanges(d, [pull[d] EXCEPT !.approved = IF x \in @ THEN @ \ {x} ELSE @ \cup {x}])

\* The pull request is routed again.
Supersede(d) ==
  /\ superseded' = superseded \cup {d}
  /\ superseded' # superseded
  /\ UNCHANGED <<job, absence, connection, pull, away, policy, cohort, intent, history,
                 payload, lastError, late, attempt, ghosts>>

\* Another reviewer's absence begins or ends.
OtherAbsence(x) ==
  /\ away' = IF x \in away THEN away \ {x} ELSE away \cup {x}
  /\ UNCHANGED <<job, absence, connection, pull, superseded, policy, cohort, intent,
                 history, payload, lastError, late, attempt, ghosts>>

\* A policy evaluation job ends, or fails for good.
EvaluatePolicy(d, state) ==
  /\ state \in {Evaluated(d), "failure"} /\ state # policy[d]
  /\ policy' = [policy EXCEPT ![d] = state]
  /\ UNCHANGED <<job, absence, connection, world, cohort, intent, history, payload,
                 lastError, late, attempt, ghosts>>

-----------------------------------------------------------------------------
(* Next-state relation and fairness *)

Regular(w) ==
  \/ ListFinalizers(w) \/ Replay(w) \/ ListIntents(w) \/ Load(w) \/ NextCandidate(w)
  \/ Inspect(w) \/ Select(w) \/ Unavailable(w) \/ PrepareRefused(w) \/ CheckIntent(w) \/ Begin(w)
  \/ PersistStale(w) \/ PersistRefused(w) \/ FinalizeRefused(w) \/ CompleteRefused(w)
  \/ NextIntent(w) \/ AuditRefused(w) \/ RecoverLoad(w) \/ RecoverStale(w)
  \/ RecoverRefused(w)
  \/ Succeed(w) \/ Retry(w) \/ GiveUp(w) \/ LeaseLost(w)

\* The steps that take effect before their answer arrives.
Effect(w, answered) ==
  \/ Prepare(w, answered) \/ Remove(w, answered) \/ Ask(w, answered)
  \/ Persist(w, answered) \/ Finalize(w, answered) \/ Complete(w, answered)
  \/ Audit(w, answered) \/ RecoverPersist(w, answered) \/ RecoverAudit(w, answered)

Step(w) == Regular(w) \/ Effect(w, TRUE)
Fault(w) == Throw(w) \/ TimeOut(w) \/ Die(w) \/ Effect(w, FALSE)

Queue == \/ \E w \in Workers, r \in Jobs : Claim(w, r)
         \/ \E r \in Jobs : Sweep(r, TRUE)

Time == \E window \in {"active", "ended"} : MoveWindow(window)

Environment ==
  \/ \E window \in {"upcoming", "active"} : Revise(window)
  \/ Cancel
  \/ \E status \in {"active", "inactive", "revoked"} : SetConnection(status)
  \/ \E x \in Actors \ {Absentee} : OtherAbsence(x)
  \/ \E d \in Decisions :
       \/ Close(d) \/ Push(d) \/ Supersede(d)
       \/ \E x \in Actors \ {Author} : Review(d, x)
       \/ \E state \in {"pending", "success", "failure"} : EvaluatePolicy(d, state)

AvailabilityNext ==
  \/ \E w \in Workers : Step(w) \/ Fault(w)
  \/ Queue
  \/ \E window \in {"upcoming", "active"} : Schedule(window)
  \/ Time
  \/ Environment
  \/ \E r \in Jobs : Sweep(r, FALSE)
  \/ \E q \in late : Land(q)

AvailabilitySpec == AvailabilityInit /\ [][AvailabilityNext]_availabilityVars

\* An attempt goes on until it is over, an idle worker claims what is due and
\* sweeps what took too long.
AvailabilityFairness ==
  /\ \A w \in Workers : WF_availabilityVars(Step(w))
  /\ \A r \in Jobs : /\ WF_availabilityVars(\E w \in Workers : Claim(w, r))
                     /\ WF_availabilityVars(Sweep(r, TRUE))

-----------------------------------------------------------------------------
(* Properties *)

\* The detailed activation implements the abstract history: whatever crashes,
\* repeats and overlaps happen, one actor per decision and revision is asked, a
\* replacement is recorded for that actor after it was asked and together with
\* the cohort, and a row is complete only after its finalizer ran.
RH == INSTANCE ReplacementHistory WITH
        Revisions <- Jobs, intended <- intent,
        outcome <- [r \in Jobs |-> [d \in Decisions |-> history[r][d].outcome]],
        state <- [r \in Jobs |-> [d \in Decisions |-> history[r][d].state]]
ImplementsHistory == RH!Spec

\* A review request moves only while the revision is the current one of a
\* scheduled absence, the connection is active and somebody holds the job;
\* requests that GitHub serves after their time-out are the exception.
RequestsAreAuthorized ==
  [][\A d \in Decisions :
       pull'[d].requested # pull[d].requested =>
         \/ late' # late
         \/ /\ absence.status = "scheduled" /\ connection = "active"
            /\ \E w \in Workers : /\ attempt[w].step \in MutationSteps
                                  /\ attempt[w].decision = d
                                  /\ attempt[w].job = absence.revision
                                  /\ job[absence.revision].holder = w]_availabilityVars

\* A cohort changes one for one, for the absence that is current, while the
\* policy is undecided, and in enforce mode to the actor of its intent, although
\* all of this was read long before the row is written.
SwapsAreCurrent ==
  [][\A d \in Decisions :
       cohort'[d] # cohort[d] =>
         /\ absence.status = "scheduled" /\ policy[d] = "pending"
         /\ \E x \in Pool \ cohort[d] :
              /\ cohort'[d] = (cohort[d] \ {Absentee}) \cup {x}
              /\ Mode[d] = "enforce" => intent[absence.revision][d] = x]_availabilityVars

\* When the runner or the sweep gave a job up, and when a job succeeded, no row
\* of its revision waits for a finalizer; after a job was given up, no intent is
\* without a row either.
SettledJobs ==
  \A r \in Jobs : \A d \in Decisions :
    /\ job[r].status = "succeeded" => history[r][d].state # "finalizer_pending"
    /\ lastError[r] = "given up" => /\ history[r][d].state # "finalizer_pending"
                                    /\ d \notin OpenIntents(r)

\* The job of a revision ends, although its recovery gets attempts of its own.
EveryActivationSettles ==
  \A r \in Jobs :
    job[r].status = "queued" /\ Due(r) ~> job[r].status \in {"succeeded", "failed"}

\* "Permanent provider or finalizer failures are recorded with their error": a
\* failed activation leaves nothing unfinished.
ExhaustionSettles ==
  \A r \in Jobs :
    job[r].status = "failed" /\ lastError[r] # "isolated" =>
      \A d \in Decisions : history[r][d].state # "finalizer_pending"
=============================================================================
