--------------------- MODULE ReviewerAvailabilityProofs ---------------------
(***************************************************************************)
(* Proofs about ReviewerAvailability, for every set of revisions,          *)
(* decisions, workers and actors.  The inductive invariant says what the   *)
(* local state of an attempt, the recovery in a payload and a request      *)
(* under way still know about the rows, although others may have changed   *)
(* them since: intents, requests made, finalizers run and outcomes only    *)
(* accumulate (Grows), so what an attempt knows of them stays true, and    *)
(* the authority of a mutation stays true because its rows are locked.     *)
(***************************************************************************)
EXTENDS ReviewerAvailability, TLAPS, WellFoundedInduction

-----------------------------------------------------------------------------
(* Types *)

Windows == {"upcoming", "active", "ended"}
Verdicts == {"pending", "success", "failure"}
Errors == {"none", "transient", "permanent"}

AttemptSteps == DatabaseSteps \cup ProviderSteps \cup
  {"idle", "caught", "give back", "succeed", "replay", "next intent"}

Queued == [status : {"absent", "queued", "running", "succeeded", "failed"},
           attempt : Nat, max : Nat, holder : Workers \cup {Nobody}]

Absence == [revision : Nat, status : {"unscheduled", "scheduled", "cancelled"},
            window : Windows]

PullRequest == [open : BOOLEAN, head : {"routed", "moved"},
                approved : SUBSET Actors, requested : SUBSET Actors]

LateRequest == [request : MutationSteps, job : Jobs, decision : Decisions, actor : Actors]

Attempt ==
  [step : AttemptSteps, from : {"candidate", "recover", "replay"}, job : Jobs \cup {0},
   bounded : BOOLEAN, number : Nat, max : Nat, started : Windows,
   away : SUBSET Actors, todo : SUBSET Decisions, open : SUBSET Decisions,
   seen : [Decisions -> Verdicts], round : Nat, selection : SUBSET (Actors \cup {NoActor}),
   approved : SUBSET Actors, intent : Actors \cup {NoActor}, decision : Decisions \cup {0},
   row : Row, effects : BOOLEAN, phase : Phases \cup {"none"}, error : Errors]

TypeOK ==
  /\ job \in [Jobs -> Queued]
  /\ absence \in Absence
  /\ connection \in {"active", "inactive", "revoked"}
  /\ pull \in [Decisions -> PullRequest]
  /\ policy \in [Decisions -> Verdicts]
  /\ cohort \in [Decisions -> SUBSET Actors]
  /\ superseded \subseteq Decisions /\ away \subseteq Actors
  /\ intent \in [Jobs -> [Decisions -> Actors \cup {NoActor}]]
  /\ history \in [Jobs -> [Decisions -> Row]]
  /\ payload \in [Jobs -> Recovery]
  /\ lastError \in [Jobs -> {"none", "given up", "source is invalid", "isolated"}]
  /\ late \subseteq LateRequest
  /\ attempt \in [Workers -> Attempt]
  /\ asked \subseteq Jobs \X Decisions \X Actors
  /\ ran \subseteq Jobs \X Decisions

-----------------------------------------------------------------------------
(* The inductive invariant *)

\* Steps at which the attempt is about a decision, is working on its plan, and
\* holds a row that may be recorded.
DecisionSteps == {"inspect", "select", "prepare", "check", "begin", "remove", "ask",
                  "persist", "finalize", "complete", "audit", "recover load",
                  "recover persist", "recover audit", "give back"}
PlanSteps == {"inspect", "select", "prepare", "check", "begin", "remove", "ask", "persist"}
RowSteps == {"persist", "finalize", "complete", "audit", "recover load",
             "recover persist", "recover audit", "give back"}

\* What a row may claim: its intent exists, a replacement has been asked for, a
\* simulation belongs to a shadow decision.
RowFounded(r, d, row) ==
  /\ row.outcome \in Outcomes
  /\ row.linked => intent[r][d] # NoActor
  /\ row.outcome = "replaced" => <<r, d, row.actor>> \in asked
  /\ row.outcome = "simulated_replacement" => Mode[d] = "shadow"

\* A recovery: the row, and what has happened before its phase.
RecoveryFounded(r, d, row, phase) ==
  /\ RowFounded(r, d, row)
  /\ phase = "persist_replacement" => WellFormed(row)
  /\ phase = "complete_replacement" => <<r, d>> \in ran

\* An attempt, whatever others did since its last step.
AttemptSound(a) ==
  /\ a.step # "idle" => a.job \in Jobs
  /\ a.step \in DecisionSteps => a.decision \in Decisions
  /\ a.step \in PlanSteps /\ a.intent # NoActor => intent[a.job][a.decision] = a.intent
  /\ a.step \in {"check", "begin", "remove", "ask"} => a.intent # NoActor
  /\ a.step = "prepare" => /\ Mode[a.decision] = "enforce"
                           /\ a.row.actor \in Actors
  /\ a.step \in RowSteps => RowFounded(a.job, a.decision, a.row)
  /\ a.step = "audit" => a.row.outcome = "permanent_failure"
                         /\ a.row.state = "permanent_failure" /\ a.row.actor = NoActor
  /\ a.step = "recover persist" =>
       RecoveryFounded(a.job, a.decision, a.row, "persist_replacement")
  /\ a.step = "recover load" => a.phase \in {"run_finalizer", "complete_replacement"}
  /\ a.step \in {"recover load", "give back"} =>
       RecoveryFounded(a.job, a.decision, a.row, a.phase) /\ a.phase \in Phases
  /\ a.step \in {"finalize", "complete"} =>
       HasFinalizer(history[a.job][a.decision].outcome)
  /\ a.step = "complete" => <<a.job, a.decision>> \in ran
  /\ a.step = "replay" => a.from = "replay"
  /\ a.step # "idle" /\ a.from = "replay" =>
       \A d \in a.todo : HasFinalizer(history[a.job][d].outcome)
  /\ a.step # "idle" => \A d \in a.open : intent[a.job][d] # NoActor

\* An intent belongs to a decision that enforces; a row on record is founded, and
\* waits for a finalizer only if its outcome has one.
RecordSoundFor(r, d) ==
  LET row == history[r][d] IN
  /\ intent[r][d] # NoActor => Mode[d] = "enforce"
  /\ row # NoRow =>
       /\ RowFounded(r, d, row) /\ row.state # "none"
       /\ row.state = "finalizer_pending" => HasFinalizer(row.outcome)

PayloadSound(r) ==
  payload[r].phase # "none" =>
    /\ payload[r].decision \in Decisions
    /\ RecoveryFounded(r, payload[r].decision, payload[r].row, payload[r].phase)

LateSound(q) == intent[q.job][q.decision] = q.actor

\* A job that somebody holds is running.
HeldJobRuns == \A r \in Jobs : job[r].holder # Nobody => job[r].status = "running"

\* Whoever is between the two halves of a mutation still has its authority.
MutationAuthorized ==
  \A w \in Workers : attempt[w].step \in MutationSteps => Authorized(w)

AttemptsSound == \A w \in Workers : AttemptSound(attempt[w])
RecordsSound == \A r \in Jobs : \A d \in Decisions : RecordSoundFor(r, d)
PayloadsSound == \A r \in Jobs : PayloadSound(r)
RequestsSound == \A q \in late : LateSound(q)

AvailabilityInv ==
  /\ TypeOK /\ AttemptsSound /\ RecordsSound /\ PayloadsSound /\ RequestsSound
  /\ HeldJobRuns /\ MutationAuthorized

-----------------------------------------------------------------------------
(* Rows and plans *)

\* A row on record has an outcome, and no row has none.
LEMMA RowOnRecord ==
  ASSUME TypeOK, NEW r \in Jobs, NEW d \in Decisions, RecordSoundFor(r, d)
  PROVE  /\ history[r][d] \in Row
         /\ history[r][d] = NoRow <=> history[r][d].outcome = "none"
<1>1. history[r][d] \in Row
  <2>1. history \in [Jobs -> [Decisions -> Row]]
    BY DEF TypeOK
  <2> QED BY <2>1
<1>2. history[r][d] = NoRow => history[r][d].outcome = "none"
  BY DEF NoRow
<1>3. history[r][d] # NoRow => history[r][d].outcome # "none"
  BY DEF RecordSoundFor, RowFounded, Outcomes
<1> QED BY <1>1, <1>2, <1>3

LEMMA NoRowIsRow == NoRow \in Row
BY DEF NoRow, Row

LEMMA NoAttemptType == NoAttempt \in Attempt /\ NoAttempt.step = "idle"
BY NoRowIsRow DEF NoAttempt, Attempt, AttemptSteps, Windows, Verdicts, Errors

\* An attempt that has ended knows nothing.
LEMMA NoAttemptSound == AttemptSound(NoAttempt)
BY DEF NoAttempt, AttemptSound, DecisionSteps, PlanSteps, RowSteps

LEMMA PlannedRow ==
  ASSUME NEW a \in Attempt, NEW outcome \in Outcomes, NEW actor \in Actors \cup {NoActor},
         NEW state \in RowState
  PROVE  /\ Planned(a, outcome, actor, state) \in Row
         /\ Planned(a, outcome, actor, state).outcome = outcome
         /\ Planned(a, outcome, actor, state).actor = actor
         /\ Planned(a, outcome, actor, state).state = state
         /\ Planned(a, outcome, actor, state).linked <=> a.intent # NoActor
BY DEF Planned, Row, Attempt

LEMMA PermanentFailureRow ==
  ASSUME NEW a \in Attempt
  PROVE  /\ PermanentFailure(a) \in Row
         /\ PermanentFailure(a).outcome = "permanent_failure"
         /\ PermanentFailure(a).linked <=> a.intent # NoActor
BY PlannedRow DEF PermanentFailure, Outcomes, RowState

LEMMA PlannedStateType ==
  ASSUME NEW d, NEW outcome PROVE PlannedState(d, outcome) \in RowState
BY DEF PlannedState, ExpectedState, RowState

\* What the plan for an actor, or for nobody, looks like.
LEMMA ReplacementRowFacts ==
  ASSUME NEW a \in Attempt, a.decision \in Decisions, NEW x \in Actors \cup {NoActor}
  PROVE  LET row == ReplacementRow(a, x) IN
         /\ row \in Row
         /\ row.outcome \in {"no_replacement_available", "replaced", "simulated_replacement"}
         /\ row.linked <=> a.intent # NoActor
         /\ row.outcome = "replaced" =>
              Mode[a.decision] = "enforce" /\ row.actor = x /\ x # NoActor
         /\ row.outcome = "simulated_replacement" => Mode[a.decision] = "shadow"
<1>1. PlannedState(a.decision, "no_replacement_available") \in RowState
  BY PlannedStateType
<1>2. CASE x = NoActor
  <2> DEFINE state == PlannedState(a.decision, "no_replacement_available")
  <2>1. ReplacementRow(a, x) = Planned(a, "no_replacement_available", NoActor, state)
    BY <1>2 DEF ReplacementRow
  <2> HIDE DEF state
  <2>2. state \in RowState
    BY <1>1 DEF state
  <2>3. /\ "no_replacement_available" \in Outcomes \ {"replaced", "simulated_replacement"}
        /\ NoActor \in Actors \cup {NoActor}
    BY DEF Outcomes
  <2> QED BY <2>1, <2>2, <2>3, PlannedRow
<1>3. CASE x # NoActor /\ Mode[a.decision] = "enforce"
  <2>1. ReplacementRow(a, x) = Planned(a, "replaced", x, "finalizer_pending")
    BY <1>3 DEF ReplacementRow
  <2> QED BY <1>3, <2>1, PlannedRow DEF Outcomes, RowState
<1>4. CASE x # NoActor /\ Mode[a.decision] # "enforce"
  <2>1. ReplacementRow(a, x) = Planned(a, "simulated_replacement", x, "completed")
    BY <1>4 DEF ReplacementRow
  <2>2. Mode[a.decision] = "shadow"
    BY <1>4, AvailabilityAssumption
  <2> QED BY <1>4, <2>1, <2>2, PlannedRow DEF Outcomes, RowState
<1> QED BY <1>2, <1>3, <1>4

-----------------------------------------------------------------------------
(* Ways an attempt goes on *)

\* An attempt whose plan holds a row that fits it may try to record it.
Persistable(a, row) ==
  /\ row \in Row /\ row.outcome \in Outcomes
  /\ row.linked => a.intent # NoActor
  /\ row.outcome # "replaced"
  /\ row.outcome = "simulated_replacement" => Mode[a.decision] = "shadow"

LEMMA PersistNext ==
  ASSUME NEW a \in Attempt, AttemptSound(a), a.step \in PlanSteps, NEW row,
         Persistable(a, row), NEW effects \in BOOLEAN
  PROVE  LET b == [a EXCEPT !.step = "persist", !.row = row, !.effects = effects] IN
         b \in Attempt /\ AttemptSound(b)
<1> DEFINE b == [a EXCEPT !.step = "persist", !.row = row, !.effects = effects]
<1>1. b \in Attempt
  BY DEF Attempt, AttemptSteps, DatabaseSteps, Persistable
<1>2. /\ b.step = "persist" /\ b.row = row /\ b.job = a.job /\ b.decision = a.decision
      /\ b.intent = a.intent /\ b.todo = a.todo /\ b.from = a.from /\ b.open = a.open
  BY DEF Attempt
<1>3. /\ a.job \in Jobs /\ a.decision \in Decisions /\ a.step # "idle"
      /\ a.intent # NoActor => intent[a.job][a.decision] = a.intent
  BY DEF AttemptSound, PlanSteps, DecisionSteps
<1>4. RowFounded(b.job, b.decision, b.row)
  BY <1>2, <1>3 DEF RowFounded, Persistable
<1> HIDE DEF b
<1>5. AttemptSound(b)
  BY <1>2, <1>3, <1>4 DEF AttemptSound, PlanSteps, DecisionSteps, RowSteps
<1> QED BY <1>1, <1>5 DEF b

\* An error that nobody handles.
LEMMA CaughtNext ==
  ASSUME NEW a \in Attempt, AttemptSound(a), a.step # "idle"
  PROVE  Caught(a) \in Attempt /\ AttemptSound(Caught(a)) /\ Caught(a).step = "caught"
<1>1. Caught(a) \in Attempt /\ Caught(a).step = "caught" /\ Caught(a).job = a.job
      /\ Caught(a).todo = a.todo /\ Caught(a).from = a.from /\ Caught(a).open = a.open
  BY DEF Caught, Attempt, AttemptSteps
<1>2. AttemptSound(Caught(a))
  BY <1>1 DEF AttemptSound, PlanSteps, DecisionSteps, RowSteps
<1> QED BY <1>1, <1>2

\* An attempt that ends with a recovery hands on what it knows.
LEMMA GivenBackNext ==
  ASSUME NEW a \in Attempt, AttemptSound(a), a.step \in RowSteps,
         NEW phase \in Phases, phase = "complete_replacement" => <<a.job, a.decision>> \in ran,
         NEW error \in Errors
  PROVE  LET b == GivenBack(a, phase, error) IN
         b \in Attempt /\ AttemptSound(b) /\ b.step \in {"caught", "give back"}
<1>0. a.step # "idle" /\ a.step \in DecisionSteps
  BY DEF RowSteps, DecisionSteps
<1> DEFINE p == [phase |-> phase, decision |-> a.decision, row |-> a.row]
           c == [a EXCEPT !.step = "give back", !.phase = phase, !.error = error]
<1>1. CASE ~RecoverySound(p)
  BY <1>0, <1>1, CaughtNext DEF GivenBack
<1>2. CASE RecoverySound(p)
  <2>1. GivenBack(a, phase, error) = c
    BY <1>2 DEF GivenBack
  <2>2. c \in Attempt
    BY DEF Attempt, AttemptSteps
  <2>3. /\ c.step = "give back" /\ c.phase = phase /\ c.job = a.job /\ c.row = a.row
        /\ c.decision = a.decision /\ c.todo = a.todo /\ c.from = a.from /\ c.open = a.open
    BY DEF Attempt
  <2>4. a.job \in Jobs /\ a.decision \in Decisions /\ RowFounded(a.job, a.decision, a.row)
    BY <1>0 DEF AttemptSound
  <2>5. phase = "persist_replacement" => WellFormed(a.row)
    BY <1>2 DEF RecoverySound
  <2>6. RecoveryFounded(c.job, c.decision, c.row, c.phase)
    BY <2>3, <2>4, <2>5 DEF RecoveryFounded
  <2> HIDE DEF c
  <2>7. AttemptSound(c)
    BY <1>0, <2>3, <2>4, <2>6 DEF AttemptSound, PlanSteps, DecisionSteps, RowSteps
  <2> QED BY <2>1, <2>2, <2>3, <2>7
<1> QED BY <1>1, <1>2

\* Whatever handler receives an error, the attempt stays sound.
LEMMA FailedNext ==
  ASSUME NEW a \in Attempt, AttemptSound(a), a.step # "idle",
         NEW error \in {"transient", "permanent"}
  PROVE  LET b == Failed(a, error) IN
         b \in Attempt /\ AttemptSound(b) /\ b.step \in {"caught", "give back", "persist"}
<1>0. error \in Errors
  BY DEF Errors
<1>1. CASE a.step \in {"finalize", "complete", "audit", "recover persist", "recover audit"}
  <2>1. Failed(a, error) = GivenBack(a, PhaseOf(a.step), error)
    BY <1>1 DEF Failed, MutationSteps
  <2>2. /\ a.step \in RowSteps /\ PhaseOf(a.step) \in Phases
        /\ PhaseOf(a.step) = "complete_replacement" => a.step = "complete"
    BY <1>1 DEF RowSteps, PhaseOf, Phases
  <2>3. PhaseOf(a.step) = "complete_replacement" => <<a.job, a.decision>> \in ran
    BY <2>2 DEF AttemptSound
  <2> QED BY <1>0, <2>1, <2>2, <2>3, GivenBackNext
<1>2. CASE a.step = "recover load"
  <2>1. Failed(a, error) = GivenBack(a, a.phase, error)
    BY <1>2 DEF Failed, MutationSteps
  <2>2. a.step \in RowSteps
    BY <1>2 DEF RowSteps
  <2>3. /\ a.phase \in Phases
        /\ a.phase = "complete_replacement" => <<a.job, a.decision>> \in ran
    BY <1>2 DEF AttemptSound, RecoveryFounded
  <2> QED BY <1>0, <2>1, <2>2, <2>3, GivenBackNext
<1>3. CASE a.step = "persist" /\ a.effects
  <2>1. Failed(a, error) = GivenBack(a, "persist_replacement", error)
    BY <1>3 DEF Failed, MutationSteps
  <2>2. a.step \in RowSteps /\ "persist_replacement" \in Phases
    BY <1>3 DEF RowSteps, Phases
  <2> QED BY <1>0, <2>1, <2>2, GivenBackNext
<1>4. CASE a.step \in MutationSteps \cup {"inspect"} /\ error = "permanent"
  <2> DEFINE effects == a.step \in MutationSteps
  <2>1. Failed(a, error) = [a EXCEPT !.step = "persist", !.row = PermanentFailure(a),
                                     !.effects = effects]
    BY <1>4 DEF Failed, MutationSteps
  <2>2. effects \in BOOLEAN
    OBVIOUS
  <2> HIDE DEF effects
  <2>3. a.step \in PlanSteps
    BY <1>4 DEF PlanSteps, MutationSteps
  <2>4. Persistable(a, PermanentFailure(a))
    BY PermanentFailureRow DEF Persistable, Outcomes
  <2> DEFINE b == [a EXCEPT !.step = "persist", !.row = PermanentFailure(a),
                            !.effects = effects]
  <2>5. b.step = "persist"
    BY DEF Attempt
  <2>6. b \in Attempt /\ AttemptSound(b)
    BY <2>2, <2>3, <2>4, PersistNext
  <2> HIDE DEF b
  <2>7. Failed(a, error) = b
    BY <2>1 DEF b
  <2> QED BY <2>5, <2>6, <2>7
<1>5. CASE /\ a.step \notin {"finalize", "complete", "audit", "recover persist",
                             "recover audit", "recover load"}
           /\ ~(a.step = "persist" /\ a.effects)
           /\ ~(a.step \in MutationSteps \cup {"inspect"} /\ error = "permanent")
  <2>1. Failed(a, error) = Caught(a)
    BY <1>5 DEF Failed
  <2> QED BY <2>1, CaughtNext
<1> QED BY <1>1, <1>2, <1>3, <1>4, <1>5

\* Steps that ask nothing of a plan or a row.
FreeSteps == {"caught", "list finalizers", "replay", "list intents", "load", "next",
              "next intent", "succeed"}

LEMMA FreeSound ==
  ASSUME NEW b, b.step \in FreeSteps, b.job \in Jobs, b.step = "replay" => b.from = "replay",
         \A d \in b.open : intent[b.job][d] # NoActor,
         b.from = "replay" => \A d \in b.todo : HasFinalizer(history[b.job][d].outcome)
  PROVE  AttemptSound(b)
BY DEF FreeSteps, AttemptSound, DecisionSteps, PlanSteps, RowSteps

-----------------------------------------------------------------------------
(* What is known stays true *)

\* Intents, requests, finalizers and outcomes accumulate.
Grows ==
  /\ \A r \in Jobs : \A d \in Decisions :
       /\ intent[r][d] # NoActor => intent'[r][d] = intent[r][d]
       /\ history[r][d].outcome # "none" => history'[r][d].outcome = history[r][d].outcome
  /\ asked \subseteq asked' /\ ran \subseteq ran'

LEMMA SharedGrows == ASSUME UNCHANGED shared PROVE Grows
BY DEF shared, Grows, ghosts

LEMMA RowGrows ==
  ASSUME Grows, NEW r \in Jobs, NEW d \in Decisions, NEW row, RowFounded(r, d, row)
  PROVE  RowFounded(r, d, row)'
BY DEF Grows, RowFounded

LEMMA RecoveryGrows ==
  ASSUME Grows, NEW r \in Jobs, NEW d \in Decisions, NEW row, NEW phase,
         RecoveryFounded(r, d, row, phase)
  PROVE  RecoveryFounded(r, d, row, phase)'
<1>1. RowFounded(r, d, row)'
  BY RowGrows DEF RecoveryFounded
<1>2. phase = "complete_replacement" => <<r, d>> \in ran'
  BY DEF RecoveryFounded, Grows
<1> QED BY <1>1, <1>2 DEF RecoveryFounded

LEMMA FinalizerGrows ==
  ASSUME Grows, NEW r \in Jobs, NEW d \in Decisions, HasFinalizer(history[r][d].outcome)
  PROVE  HasFinalizer(history'[r][d].outcome)
<1>1. history[r][d].outcome # "none"
  BY DEF HasFinalizer
<1> QED BY <1>1 DEF Grows

LEMMA AttemptGrows ==
  ASSUME Grows, NEW a \in Attempt, AttemptSound(a)
  PROVE  AttemptSound(a)'
<1>1. a.todo \subseteq Decisions /\ a.open \subseteq Decisions
  BY DEF Attempt
<1>2. a.step \in DecisionSteps => a.step # "idle" /\ a.job \in Jobs /\ a.decision \in Decisions
  BY DEF AttemptSound, DecisionSteps
<1>3. a.step \in PlanSteps \cup RowSteps \cup {"check", "begin", "remove", "ask", "complete",
         "audit", "recover persist", "recover load", "give back", "finalize"} =>
        a.step \in DecisionSteps
  BY DEF PlanSteps, RowSteps, DecisionSteps
<1>4. a.step \in PlanSteps /\ a.intent # NoActor => intent'[a.job][a.decision] = a.intent
  BY <1>2, <1>3 DEF AttemptSound, Grows
<1>5. a.step \in RowSteps => RowFounded(a.job, a.decision, a.row)'
  BY <1>2, <1>3, RowGrows DEF AttemptSound
<1>6. a.step = "recover persist" =>
        RecoveryFounded(a.job, a.decision, a.row, "persist_replacement")'
  BY <1>2, <1>3, RecoveryGrows DEF AttemptSound
<1>7. a.step \in {"recover load", "give back"} =>
        RecoveryFounded(a.job, a.decision, a.row, a.phase)' /\ a.phase \in Phases
  BY <1>2, <1>3, RecoveryGrows DEF AttemptSound
<1>8. a.step \in {"finalize", "complete"} =>
        HasFinalizer(history'[a.job][a.decision].outcome)
  BY <1>2, <1>3, FinalizerGrows DEF AttemptSound
<1>9. a.step = "complete" => <<a.job, a.decision>> \in ran'
  BY DEF AttemptSound, Grows
<1>10. a.step # "idle" => \A d \in a.open : intent'[a.job][d] # NoActor
  BY <1>1 DEF AttemptSound, Grows
<1>11. a.step # "idle" /\ a.from = "replay" =>
         \A d \in a.todo : HasFinalizer(history'[a.job][d].outcome)
  BY <1>1, FinalizerGrows DEF AttemptSound
<1> QED BY <1>4, <1>5, <1>6, <1>7, <1>8, <1>9, <1>10, <1>11 DEF AttemptSound

LEMMA AttemptsKept ==
  ASSUME TypeOK, AttemptsSound, Grows, NEW w \in Workers, NEW a \in Attempt,
         AttemptSound(a)', attempt' = [attempt EXCEPT ![w] = a]
  PROVE  attempt' \in [Workers -> Attempt] /\ AttemptsSound'
<1>1. attempt \in [Workers -> Attempt]
  BY DEF TypeOK
<1>2. attempt' \in [Workers -> Attempt]
  BY <1>1
<1>3. ASSUME NEW v \in Workers PROVE AttemptSound(attempt[v])'
  <2>1. PICK b \in Attempt : b = attempt'[v]
    BY <1>2
  <2>2. AttemptSound(b)'
    <3>1. CASE v = w
      BY <1>1, <2>1, <3>1
    <3>2. CASE v # w
      BY <1>1, <2>1, <3>2, AttemptGrows DEF AttemptsSound
    <3> QED BY <3>1, <3>2
  <2> QED BY <2>1, <2>2
<1> QED BY <1>2, <1>3 DEF AttemptsSound

LEMMA OthersKept ==
  ASSUME TypeOK, AttemptsSound, Grows, UNCHANGED attempt
  PROVE  AttemptsSound'
<1>1. ASSUME NEW v \in Workers PROVE AttemptSound(attempt[v])'
  <2>1. PICK b \in Attempt : b = attempt[v]
    BY DEF TypeOK
  <2>2. AttemptSound(b)'
    BY <2>1, AttemptGrows DEF AttemptsSound
  <2> QED BY <2>1, <2>2
<1> QED BY <1>1 DEF AttemptsSound

LEMMA PayloadsKept ==
  ASSUME TypeOK, PayloadsSound, Grows, UNCHANGED payload
  PROVE  PayloadsSound'
<1>1. ASSUME NEW r \in Jobs, payload[r].phase # "none"
      PROVE  PayloadSound(r)'
  <2>1. PICK d \in Decisions : d = payload[r].decision
    BY <1>1 DEF PayloadsSound, PayloadSound
  <2>2. PICK row \in Row, phase \in Phases \cup {"none"} :
          row = payload[r].row /\ phase = payload[r].phase
    BY DEF TypeOK, Recovery
  <2>3. RecoveryFounded(r, d, row, phase)
    BY <1>1, <2>1, <2>2 DEF PayloadsSound, PayloadSound
  <2>4. RecoveryFounded(r, d, row, phase)'
    BY <2>3, RecoveryGrows
  <2> QED BY <2>1, <2>2, <2>4 DEF PayloadSound
<1> QED BY <1>1 DEF PayloadsSound, PayloadSound

LEMMA RequestsKept ==
  ASSUME TypeOK, RequestsSound, Grows, late' \subseteq late
  PROVE  RequestsSound'
<1>1. \A q \in late : q.job \in Jobs /\ q.decision \in Decisions /\ q.actor # NoActor
  BY AvailabilityAssumption DEF TypeOK, LateRequest
<1> QED BY <1>1 DEF RequestsSound, LateSound, Grows

LEMMA RecordsKept ==
  ASSUME TypeOK, RecordsSound, Grows, UNCHANGED <<intent, history>>
  PROVE  RecordsSound'
<1>1. ASSUME NEW r \in Jobs, NEW d \in Decisions PROVE RecordSoundFor(r, d)'
  <2>1. PICK row \in Row : row = history[r][d]
    <3>1. history \in [Jobs -> [Decisions -> Row]]
      BY DEF TypeOK
    <3> QED BY <3>1
  <2>2. row # NoRow => RowFounded(r, d, row)'
    BY <2>1, RowGrows DEF RecordsSound, RecordSoundFor
  <2> QED BY <2>1, <2>2 DEF RecordsSound, RecordSoundFor
<1> QED BY <1>1 DEF RecordsSound

\* Whoever moves a request is authorized, and nothing it relies on changes.
LEMMA AuthorityKept ==
  ASSUME TypeOK, MutationAuthorized, UNCHANGED <<job, absence, connection>>,
         NEW w \in Workers, NEW a \in Attempt, attempt' = [attempt EXCEPT ![w] = a],
         a.step \in MutationSteps =>
           job[a.job].holder = w /\ Current(a.job) /\ connection = "active"
  PROVE  MutationAuthorized'
<1>1. attempt \in [Workers -> Attempt]
  BY DEF TypeOK
<1> QED BY <1>1 DEF MutationAuthorized, Authorized, HoldsJob, Current

\* Nobody moves a request while something else is recorded.
LEMMA AuthorityUnlocked ==
  ASSUME TypeOK, Unlocked,
         \/ UNCHANGED attempt
         \/ \E w \in Workers : \E a \in Attempt :
              attempt' = [attempt EXCEPT ![w] = a] /\ a.step \notin MutationSteps
  PROVE  MutationAuthorized'
<1>1. attempt \in [Workers -> Attempt]
  BY DEF TypeOK
<1> QED BY <1>1 DEF MutationAuthorized, Unlocked

\* A step of an attempt that leaves everything else alone.
LEMMA QuietStep ==
  ASSUME AvailabilityInv, NEW w \in Workers, NEW a \in Attempt, AttemptSound(a),
         a.step \in MutationSteps =>
           job[a.job].holder = w /\ Current(a.job) /\ connection = "active",
         attempt' = [attempt EXCEPT ![w] = a], UNCHANGED shared
  PROVE  AvailabilityInv' /\ Grows
<1> USE DEF AvailabilityInv
<1>1. Grows
  BY SharedGrows
<1>2. AttemptSound(a)'
  BY <1>1, AttemptGrows
<1>3. attempt' \in [Workers -> Attempt] /\ AttemptsSound'
  BY <1>1, <1>2, AttemptsKept
<1>4. TypeOK'
  BY <1>3 DEF TypeOK, shared, world, ghosts
<1>5. RecordsSound' /\ PayloadsSound' /\ RequestsSound'
  BY <1>1, RecordsKept, PayloadsKept, RequestsKept DEF shared
<1>6. HeldJobRuns'
  BY DEF HeldJobRuns, shared
<1>7. MutationAuthorized'
  BY AuthorityKept DEF shared
<1> QED BY <1>1, <1>3, <1>4, <1>5, <1>6, <1>7

-----------------------------------------------------------------------------
(* The steps of an attempt that change nothing else *)

\* The attempt of a worker goes on as b, which is sound and, if it is going to
\* move a review request, authorized.
Goes(w, b) ==
  /\ b \in Attempt /\ AttemptSound(b)
  /\ b.step \in MutationSteps =>
       job[b.job].holder = w /\ Current(b.job) /\ connection = "active"
  /\ attempt' = [attempt EXCEPT ![w] = b]

LEMMA OwnAttempt ==
  ASSUME AvailabilityInv, NEW w \in Workers
  PROVE  attempt[w] \in Attempt /\ AttemptSound(attempt[w])
BY DEF AvailabilityInv, TypeOK, AttemptsSound

\* The rows of a job are typed and founded.
LEMMA OwnRows ==
  ASSUME AvailabilityInv, NEW r \in Jobs, NEW d \in Decisions
  PROVE  /\ history[r][d] \in Row /\ RecordSoundFor(r, d)
         /\ history[r][d] = NoRow <=> history[r][d].outcome = "none"
         /\ intent[r][d] \in Actors \cup {NoActor}
<1>1. RecordSoundFor(r, d)
  BY DEF AvailabilityInv, RecordsSound
<1>2. intent \in [Jobs -> [Decisions -> Actors \cup {NoActor}]]
  BY DEF AvailabilityInv, TypeOK
<1>3. intent[r][d] \in Actors \cup {NoActor}
  BY <1>2
<1> QED BY <1>1, <1>3, RowOnRecord DEF AvailabilityInv

LEMMA CaughtGoes ==
  ASSUME AvailabilityInv, NEW w \in Workers, ~At(w, "idle"), Proceed(w, Caught(attempt[w]))
  PROVE  Goes(w, Caught(attempt[w]))
<1>1. Caught(attempt[w]) \in Attempt /\ AttemptSound(Caught(attempt[w]))
      /\ Caught(attempt[w]).step = "caught"
  BY OwnAttempt, CaughtNext DEF At
<1> QED BY <1>1 DEF Goes, Proceed, MutationSteps

LEMMA FailedGoes ==
  ASSUME AvailabilityInv, NEW w \in Workers, ~At(w, "idle"),
         NEW error \in {"transient", "permanent"}, Proceed(w, Failed(attempt[w], error))
  PROVE  Goes(w, Failed(attempt[w], error))
<1> DEFINE b == Failed(attempt[w], error)
<1>1. b \in Attempt /\ AttemptSound(b) /\ b.step \in {"caught", "give back", "persist"}
  BY OwnAttempt, FailedNext DEF At
<1> QED BY <1>1 DEF Goes, Proceed, MutationSteps

\* An attempt may always go on at a free step.
LEMMA FreeGoes ==
  ASSUME AvailabilityInv, NEW w \in Workers, ~At(w, "idle"), NEW s \in FreeSteps \ {"replay"},
         Goto(w, s)
  PROVE  \E b : Goes(w, b)
<1> DEFINE a == attempt[w]
           b == [a EXCEPT !.step = s]
<1>1. a \in Attempt /\ AttemptSound(a) /\ a.step # "idle"
  BY OwnAttempt DEF At
<1>2. s \in AttemptSteps \ MutationSteps
  BY DEF FreeSteps, AttemptSteps, DatabaseSteps, MutationSteps
<1>3. b \in Attempt /\ b.step = s /\ b.job = a.job /\ b.open = a.open /\ b.todo = a.todo
      /\ b.from = a.from
  BY <1>1, <1>2 DEF Attempt
<1>4. AttemptSound(b)
  <2>1. a.job \in Jobs /\ (\A d \in a.open : intent[a.job][d] # NoActor)
        /\ (a.from = "replay" =>
              \A d \in a.todo : HasFinalizer(history[a.job][d].outcome))
    BY <1>1 DEF AttemptSound
  <2> HIDE DEF b, a
  <2> QED BY <1>3, <2>1, FreeSound
<1>5. attempt' = [attempt EXCEPT ![w] = b]
  BY DEF Goto
<1> QED BY <1>2, <1>3, <1>4, <1>5 DEF Goes

\* The rows that an attempt replays have a finalizer.
LEMMA ListFinalizersGoes ==
  ASSUME AvailabilityInv, NEW w \in Workers, ListFinalizers(w)
  PROVE  \E b : Goes(w, b)
<1> DEFINE a == attempt[w]
           pending == {d \in Decisions : history[a.job][d].state = "finalizer_pending"}
           b == [a EXCEPT !.step = "replay", !.from = "replay", !.effects = FALSE,
                  !.started = absence.window, !.away = away, !.phase = "none",
                  !.todo = pending]
<1>1. a \in Attempt /\ AttemptSound(a) /\ a.step = "list finalizers"
  BY OwnAttempt DEF ListFinalizers, At
<1>2. CASE Proceed(w, Caught(a))
  BY <1>1, <1>2, CaughtGoes DEF At
<1>3. CASE Proceed(w, b) /\ \A d \in pending : PendingSound(history[a.job][d])
  <2>1. absence.window \in Windows /\ away \subseteq Actors
    BY DEF AvailabilityInv, TypeOK, Absence
  <2>2. b \in Attempt
    BY <1>1, <2>1 DEF Attempt, AttemptSteps
  <2>3. /\ b.step = "replay" /\ b.from = "replay" /\ b.job = a.job /\ b.open = a.open
        /\ b.todo = pending
    BY <1>1 DEF Attempt
  <2>4. a.job \in Jobs /\ \A d \in a.open : intent[a.job][d] # NoActor
    BY <1>1 DEF AttemptSound
  <2>5. \A d \in pending : HasFinalizer(history[a.job][d].outcome)
    BY <1>3 DEF PendingSound
  <2>6. attempt' = [attempt EXCEPT ![w] = b]
    BY <1>3 DEF Proceed
  <2> HIDE DEF a, b, pending
  <2>7. AttemptSound(b)
    <3>1. b.step \in FreeSteps /\ b.job \in Jobs
      BY <2>3, <2>4 DEF FreeSteps
    <3>2. \A d \in b.open : intent[b.job][d] # NoActor
      BY <2>3, <2>4
    <3>3. \A d \in b.todo : HasFinalizer(history[b.job][d].outcome)
      BY <2>3, <2>5
    <3> QED BY <2>3, <3>1, <3>2, <3>3, FreeSound
  <2> QED BY <2>2, <2>3, <2>6, <2>7 DEF Goes, MutationSteps
<1> QED BY <1>2, <1>3 DEF ListFinalizers

LEMMA ReplayGoes ==
  ASSUME AvailabilityInv, NEW w \in Workers, Replay(w)
  PROVE  \E b : Goes(w, b)
<1> DEFINE a == attempt[w]
<1>1. a \in Attempt /\ AttemptSound(a) /\ a.step = "replay"
  BY OwnAttempt DEF Replay, At
<1>2. CASE Goto(w, "list intents")
  BY <1>1, <1>2, FreeGoes DEF At, FreeSteps
<1>3. ASSUME NEW d \in a.todo,
             Proceed(w, [a EXCEPT !.step = "finalize", !.todo = @ \ {d}, !.decision = d,
                                  !.row = history[a.job][d]])
      PROVE  \E b : Goes(w, b)
  <2> DEFINE row == history[a.job][d]
             b == [a EXCEPT !.step = "finalize", !.todo = @ \ {d}, !.decision = d, !.row = row]
  <2>1. d \in Decisions /\ a.job \in Jobs /\ a.todo \subseteq Decisions
    BY <1>1 DEF Attempt, AttemptSound
  <2>2. HasFinalizer(row.outcome)
    BY <1>1, <1>3 DEF AttemptSound
  <2>3. row \in Row /\ RowFounded(a.job, d, row)
    BY <2>1, <2>2, OwnRows DEF RecordSoundFor, HasFinalizer
  <2>4. b \in Attempt
    BY <1>1, <2>1, <2>3 DEF Attempt, AttemptSteps, DatabaseSteps
  <2>5. /\ b.step = "finalize" /\ b.job = a.job /\ b.open = a.open /\ b.from = a.from
        /\ b.decision = d /\ b.row = row /\ b.todo \subseteq a.todo
    BY <1>1, <2>1 DEF Attempt
  <2>6. attempt' = [attempt EXCEPT ![w] = b]
    BY <1>3 DEF Proceed
  <2>7. /\ \A e \in a.open : intent[a.job][e] # NoActor
        /\ \A e \in a.todo : HasFinalizer(history[a.job][e].outcome)
    BY <1>1, <1>3 DEF AttemptSound
  <2>8. HasFinalizer(history[a.job][d].outcome)
    BY <2>2
  <2> HIDE DEF a, b, row
  <2>9. AttemptSound(b)
    BY <2>1, <2>3, <2>5, <2>7, <2>8 DEF AttemptSound, DecisionSteps, PlanSteps, RowSteps
  <2> QED BY <2>4, <2>5, <2>6, <2>9 DEF Goes, MutationSteps
<1> QED BY <1>1, <1>2, <1>3 DEF Replay

LEMMA ListIntentsGoes ==
  ASSUME AvailabilityInv, NEW w \in Workers, ListIntents(w)
  PROVE  \E b : Goes(w, b)
<1> DEFINE a == attempt[w]
           b == [a EXCEPT !.step = "load", !.open = OpenIntents(a.job)]
<1>1. a \in Attempt /\ AttemptSound(a) /\ a.step = "list intents"
  BY OwnAttempt DEF ListIntents, At
<1>2. CASE Proceed(w, Caught(a))
  BY <1>1, <1>2, CaughtGoes DEF At
<1>3. CASE Proceed(w, b)
  <2>1. b \in Attempt
    BY <1>1 DEF Attempt, AttemptSteps, DatabaseSteps, OpenIntents
  <2>2. /\ b.step = "load" /\ b.from = a.from /\ b.job = a.job /\ b.todo = a.todo
        /\ b.open = OpenIntents(a.job)
    BY <1>1 DEF Attempt
  <2>3. /\ a.job \in Jobs
        /\ a.from = "replay" => \A d \in a.todo : HasFinalizer(history[a.job][d].outcome)
    BY <1>1 DEF AttemptSound
  <2>4. attempt' = [attempt EXCEPT ![w] = b]
    BY <1>3 DEF Proceed
  <2> HIDE DEF a, b
  <2>5. AttemptSound(b)
    <3>1. b.step \in FreeSteps /\ b.job \in Jobs /\ b.step # "replay"
      BY <2>2, <2>3 DEF FreeSteps
    <3>2. \A d \in b.open : intent[b.job][d] # NoActor
      BY <2>2 DEF OpenIntents
    <3>3. b.from = "replay" => \A d \in b.todo : HasFinalizer(history[b.job][d].outcome)
      BY <2>2, <2>3
    <3> QED BY <3>1, <3>2, <3>3, FreeSound
  <2> QED BY <2>1, <2>2, <2>4, <2>5 DEF Goes, MutationSteps
<1> QED BY <1>2, <1>3 DEF ListIntents

LEMMA LoadGoes ==
  ASSUME AvailabilityInv, NEW w \in Workers, Load(w)
  PROVE  \E b : Goes(w, b)
<1> DEFINE a == attempt[w]
           b == [a EXCEPT !.step = "next", !.from = "candidate", !.seen = policy,
                          !.todo = Activated(a.job)]
<1>1. a \in Attempt /\ AttemptSound(a) /\ a.step = "load"
  BY OwnAttempt DEF Load, At
<1>2. CASE Proceed(w, [a EXCEPT !.step = "next intent"])
  <2>1. Goto(w, "next intent")
    BY <1>1, <1>2 DEF Proceed, Goto, AvailabilityInv, TypeOK
  <2> QED BY <1>1, <2>1, FreeGoes DEF At, FreeSteps
<1>3. CASE Proceed(w, b)
  <2>1. b \in Attempt
    BY <1>1 DEF Attempt, AttemptSteps, DatabaseSteps, Activated, AvailabilityInv, TypeOK
  <2>2. b.step = "next" /\ b.from = "candidate" /\ b.job = a.job /\ b.open = a.open
    BY <1>1 DEF Attempt
  <2>3. a.job \in Jobs /\ \A d \in a.open : intent[a.job][d] # NoActor
    BY <1>1 DEF AttemptSound
  <2>4. attempt' = [attempt EXCEPT ![w] = b]
    BY <1>3 DEF Proceed
  <2> HIDE DEF a, b
  <2>5. AttemptSound(b)
    <3>1. b.step \in FreeSteps /\ b.job \in Jobs /\ b.step # "replay" /\ b.from # "replay"
      BY <2>2, <2>3 DEF FreeSteps
    <3>2. \A d \in b.open : intent[b.job][d] # NoActor
      BY <2>2, <2>3
    <3> QED BY <3>1, <3>2, FreeSound
  <2> QED BY <2>1, <2>2, <2>4, <2>5 DEF Goes, MutationSteps
<1> QED BY <1>2, <1>3 DEF Load

\* The first plan for a decision, in an attempt that is about to inspect it.
LEMMA FirstPlanNext ==
  ASSUME NEW a \in Attempt, AttemptSound([a EXCEPT !.step = "inspect"]),
         a.decision \in Decisions
  PROVE  LET b == FirstPlan(a) IN
         b \in Attempt /\ AttemptSound(b) /\ b.step \in {"inspect", "persist"}
<1> DEFINE i == [a EXCEPT !.step = "inspect"]
           Persisting(row) == [a EXCEPT !.step = "persist", !.row = row]
<1>1. i \in Attempt /\ i.step = "inspect" /\ i.step \in PlanSteps
  BY DEF Attempt, AttemptSteps, ProviderSteps, PlanSteps
<1>2. i.intent = a.intent /\ i.decision = a.decision /\ i.effects = a.effects
      /\ a.effects \in BOOLEAN
  BY DEF Attempt
<1>3. ASSUME NEW row, Persistable(i, row)
      PROVE  /\ Persisting(row) \in Attempt /\ AttemptSound(Persisting(row))
             /\ Persisting(row).step = "persist"
  <2> DEFINE b == [i EXCEPT !.step = "persist", !.row = row, !.effects = a.effects]
  <2>1. b = Persisting(row)
    BY DEF Attempt
  <2>2. b.step = "persist"
    BY DEF Attempt
  <2>3. AttemptSound(i)
    OBVIOUS
  <2> HIDE DEF i
  <2>4. b \in Attempt /\ AttemptSound(b)
    BY <1>1, <1>2, <1>3, <2>3, PersistNext
  <2> HIDE DEF b, Persisting
  <2> QED BY <2>1, <2>2, <2>4
<1>4. Persistable(i, PermanentFailure(a))
  BY <1>2, PermanentFailureRow DEF Persistable, Outcomes
<1>5. Persistable(i, Planned(a, "skipped_policy_satisfied", NoActor, "finalizer_pending"))
  <2>1. "skipped_policy_satisfied" \in Outcomes /\ "finalizer_pending" \in RowState
    BY DEF Outcomes, RowState
  <2>2. NoActor \in Actors \cup {NoActor}
    OBVIOUS
  <2> QED BY <1>2, <2>1, <2>2, PlannedRow DEF Persistable
<1>6. \/ FirstPlan(a) = Persisting(PermanentFailure(a))
      \/ FirstPlan(a) =
           Persisting(Planned(a, "skipped_policy_satisfied", NoActor, "finalizer_pending"))
      \/ FirstPlan(a) = i
  BY DEF FirstPlan
<1> HIDE DEF i, Persisting
<1>7. AttemptSound(i)
  BY DEF i
<1> QED BY <1>1, <1>3, <1>4, <1>5, <1>6, <1>7

\* A set of numbers that is not empty has a least element.
LEMMA LeastOf ==
  ASSUME NEW S, S \subseteq Nat, S # {}
  PROVE  (CHOOSE c \in S : \A e \in S : c <= e) \in S
<1> DEFINE R == {ss \in Nat \X Nat : ss[1] < ss[2]}
<1>1. IsWellFoundedOn(R, Nat)
  <2>1. R = OpToRel(<, Nat)
    BY DEF OpToRel
  <2> QED BY <2>1, NatLessThanWellFounded
<1>2. PICK c \in S : \A e \in S : <<e, c>> \notin R
  <2> HIDE DEF R
  <2> QED BY <1>1, WFMin
<1>3. \A e \in S : c <= e
  <2> TAKE e \in S
  <2>1. e \in Nat /\ c \in Nat /\ <<e, c>> \notin R
    BY <1>2
  <2> QED BY <2>1
<1> QED BY <1>3

LEMMA NextCandidateGoes ==
  ASSUME AvailabilityInv, NEW w \in Workers, NextCandidate(w)
  PROVE  \E b : Goes(w, b)
<1> DEFINE a == attempt[w]
           d == CHOOSE c \in a.todo : \A e \in a.todo : c <= e
           x == IF Mode[d] = "enforce" THEN intent[a.job][d] ELSE NoActor
           p == [a EXCEPT !.todo = @ \ {d}, !.decision = d, !.round = 1,
                          !.selection = {NoActor}, !.effects = FALSE, !.intent = x]
<1>1. a \in Attempt /\ AttemptSound(a) /\ a.step = "next"
  BY OwnAttempt DEF NextCandidate, At
<1>2. CASE Goto(w, "next intent")
  BY <1>1, <1>2, FreeGoes DEF At, FreeSteps
<1>3. CASE a.todo # {} /\ Proceed(w, FirstPlan(p))
  <2>1. a.todo \subseteq Decisions /\ a.todo \subseteq Nat
    BY <1>1, AvailabilityAssumption DEF Attempt
  <2>2. d \in a.todo /\ d \in Decisions
    BY <1>3, <2>1, LeastOf
  <2>3. a.job \in Jobs
    BY <1>1 DEF AttemptSound
  <2> HIDE DEF d
  <2>4. x \in Actors \cup {NoActor} /\ (x # NoActor => intent[a.job][d] = x)
    BY <2>2, <2>3, OwnRows
  <2> HIDE DEF x
  <2>5. p \in Attempt
    BY <1>1, <2>2, <2>4 DEF Attempt
  <2> DEFINE i == [p EXCEPT !.step = "inspect"]
  <2>6. /\ i.step = "inspect" /\ i.job = a.job /\ i.open = a.open /\ i.from = a.from
        /\ i.decision = d /\ i.intent = x /\ i.todo \subseteq a.todo /\ p.decision = d
    BY <1>1 DEF Attempt
  <2>7. /\ \A e \in a.open : intent[a.job][e] # NoActor
        /\ a.from = "replay" => \A e \in a.todo : HasFinalizer(history[a.job][e].outcome)
    BY <1>1 DEF AttemptSound
  <2>8. AttemptSound(i)
    <3> HIDE DEF i, a
    <3> QED BY <2>2, <2>3, <2>4, <2>6, <2>7
               DEF AttemptSound, DecisionSteps, PlanSteps, RowSteps
  <2> HIDE DEF p
  <2>9. /\ FirstPlan(p) \in Attempt /\ AttemptSound(FirstPlan(p))
        /\ FirstPlan(p).step \in {"inspect", "persist"}
    BY <2>2, <2>5, <2>6, <2>8, FirstPlanNext
  <2> QED BY <1>3, <2>9 DEF Goes, Proceed, MutationSteps
<1> QED BY <1>2, <1>3 DEF NextCandidate

\* The attempt goes on with the plan of the same decision.
LEMMA PlanSound ==
  ASSUME NEW a \in Attempt, AttemptSound(a), a.step \in PlanSteps,
         NEW b, b.step \in PlanSteps \ {"persist"},
         b.job = a.job, b.decision = a.decision, b.intent = a.intent, b.open = a.open,
         b.todo = a.todo, b.from = a.from,
         b.step \in {"check", "begin", "remove", "ask"} => b.intent # NoActor,
         b.step = "prepare" => Mode[b.decision] = "enforce" /\ b.row.actor \in Actors
  PROVE  AttemptSound(b)
<1>1. /\ a.job \in Jobs /\ a.decision \in Decisions /\ a.step # "idle"
      /\ a.intent # NoActor => intent[a.job][a.decision] = a.intent
  BY DEF AttemptSound, PlanSteps, DecisionSteps
<1>2. /\ \A d \in a.open : intent[a.job][d] # NoActor
      /\ a.from = "replay" => \A d \in a.todo : HasFinalizer(history[a.job][d].outcome)
  BY <1>1 DEF AttemptSound
<1> QED BY <1>1, <1>2 DEF AttemptSound, PlanSteps, DecisionSteps, RowSteps

LEMMA AfterPlanNext ==
  ASSUME NEW a \in Attempt, AttemptSound(a), a.step \in {"inspect", "select"},
         NEW row \in Row, row.outcome \in Outcomes, row.linked <=> a.intent # NoActor,
         row.outcome = "replaced" => Mode[a.decision] = "enforce" /\ row.actor \in Actors,
         row.outcome = "simulated_replacement" => Mode[a.decision] = "shadow"
  PROVE  LET b == AfterPlan(a, row) IN
         b \in Attempt /\ AttemptSound(b) /\ b.step \notin MutationSteps
<1>0. a.step \in PlanSteps /\ a.effects \in BOOLEAN
  BY DEF PlanSteps, Attempt
<1>1. CASE row.outcome = "replaced" /\ ~row.linked
  <2> DEFINE b == [[a EXCEPT !.row = row] EXCEPT !.step = "prepare"]
  <2>1. AfterPlan(a, row) = b
    BY <1>1 DEF AfterPlan
  <2>2. b \in Attempt /\ b.step = "prepare" /\ b.row = row
    BY DEF Attempt, AttemptSteps, DatabaseSteps
  <2>3. /\ b.job = a.job /\ b.decision = a.decision /\ b.intent = a.intent
        /\ b.open = a.open /\ b.todo = a.todo /\ b.from = a.from
    BY DEF Attempt
  <2> HIDE DEF b
  <2>4. AttemptSound(b)
    BY <1>0, <1>1, <2>2, <2>3, PlanSound DEF PlanSteps
  <2> QED BY <2>1, <2>2, <2>4 DEF MutationSteps
<1>2. CASE ~(row.outcome = "replaced" /\ ~row.linked) /\ a.round = 1
  <2> DEFINE b == [[a EXCEPT !.row = row] EXCEPT !.step = "inspect", !.round = 2]
  <2>1. AfterPlan(a, row) = b
    BY <1>2 DEF AfterPlan
  <2>2. b \in Attempt /\ b.step = "inspect"
    BY DEF Attempt, AttemptSteps, ProviderSteps
  <2>3. /\ b.job = a.job /\ b.decision = a.decision /\ b.intent = a.intent
        /\ b.open = a.open /\ b.todo = a.todo /\ b.from = a.from
    BY DEF Attempt
  <2> HIDE DEF b
  <2>4. AttemptSound(b)
    BY <1>0, <2>2, <2>3, PlanSound DEF PlanSteps
  <2> QED BY <2>1, <2>2, <2>4 DEF MutationSteps
<1>3. CASE row.outcome = "replaced" /\ row.linked /\ a.round # 1
  <2> DEFINE b == [[a EXCEPT !.row = row] EXCEPT !.step = "check"]
  <2>1. AfterPlan(a, row) = b
    BY <1>3 DEF AfterPlan
  <2>2. b \in Attempt /\ b.step = "check"
    BY DEF Attempt, AttemptSteps, DatabaseSteps
  <2>3. /\ b.job = a.job /\ b.decision = a.decision /\ b.intent = a.intent
        /\ b.open = a.open /\ b.todo = a.todo /\ b.from = a.from
    BY DEF Attempt
  <2> HIDE DEF b
  <2>4. AttemptSound(b)
    BY <1>0, <1>3, <2>2, <2>3, PlanSound DEF PlanSteps
  <2> QED BY <2>1, <2>2, <2>4 DEF MutationSteps
<1>4. CASE row.outcome # "replaced" /\ a.round # 1
  <2> DEFINE b == [a EXCEPT !.step = "persist", !.row = row, !.effects = a.effects]
  <2>1. AfterPlan(a, row) = b
    BY <1>4 DEF AfterPlan, Attempt
  <2>2. Persistable(a, row)
    BY <1>4 DEF Persistable
  <2>3. b.step = "persist"
    BY DEF Attempt
  <2>4. b \in Attempt /\ AttemptSound(b)
    BY <1>0, <2>2, PersistNext
  <2> HIDE DEF b
  <2> QED BY <2>1, <2>3, <2>4 DEF MutationSteps
<1> QED BY <1>1, <1>2, <1>3, <1>4

\* The reviewers that remain, or nobody.
LEMMA ChoicesType ==
  ASSUME NEW approved, NEW absent, NEW x \in Choices(approved, absent)
  PROVE  x \in Actors \cup {NoActor}
BY AvailabilityAssumption DEF Choices, Candidates

LEMMA TerminalOutcomes ==
  ASSUME NEW view, TerminalOutcome(view) # "none"
  PROVE  TerminalOutcome(view) \in Outcomes \ {"replaced", "simulated_replacement"}
BY DEF TerminalOutcome, Outcomes

\* The plan for an actor, or for nobody, and where it leads.
LEMMA ReplacementNext ==
  ASSUME NEW a \in Attempt, AttemptSound(a), a.step \in {"inspect", "select"},
         NEW x \in Actors \cup {NoActor}
  PROVE  LET b == AfterPlan(a, ReplacementRow(a, x)) IN
         b \in Attempt /\ AttemptSound(b) /\ b.step \notin MutationSteps
<1> DEFINE row == ReplacementRow(a, x)
<1>1. a.decision \in Decisions
  BY DEF AttemptSound, DecisionSteps
<1>2. /\ row \in Row
      /\ row.outcome \in {"no_replacement_available", "replaced", "simulated_replacement"}
      /\ row.linked <=> a.intent # NoActor
      /\ row.outcome = "replaced" =>
           Mode[a.decision] = "enforce" /\ row.actor = x /\ x # NoActor
      /\ row.outcome = "simulated_replacement" => Mode[a.decision] = "shadow"
  BY <1>1, ReplacementRowFacts
<1>3. row.outcome \in Outcomes
  BY <1>2 DEF Outcomes
<1> HIDE DEF row
<1>4. AfterPlan(a, row) \in Attempt /\ AttemptSound(AfterPlan(a, row))
      /\ AfterPlan(a, row).step \notin MutationSteps
  BY <1>2, <1>3, AfterPlanNext
<1> QED BY <1>4 DEF row

LEMMA InspectGoes ==
  ASSUME AvailabilityInv, NEW w \in Workers, Inspect(w)
  PROVE  \E b : Goes(w, b)
<1> DEFINE o == attempt[w]
           a == [o EXCEPT !.approved = pull[o.decision].approved]
           outcome == TerminalOutcome(pull[o.decision])
           b == [a EXCEPT !.step = "select"]
<1>1. o \in Attempt /\ AttemptSound(o) /\ o.step = "inspect"
  BY OwnAttempt DEF Inspect, At
<1>2. o.decision \in Decisions
  BY <1>1 DEF AttemptSound, DecisionSteps
<1>3. a \in Attempt
  <2>1. pull[o.decision].approved \subseteq Actors
    BY <1>2 DEF AvailabilityInv, TypeOK, PullRequest
  <2> QED BY <1>1, <2>1 DEF Attempt
<1>4. /\ a.step = "inspect" /\ a.decision = o.decision /\ a.job = o.job
      /\ a.intent = o.intent /\ a.open = o.open /\ a.todo = o.todo /\ a.from = o.from
  BY <1>1 DEF Attempt
<1>5. AttemptSound(a)
  <2> HIDE DEF a, o
  <2> QED BY <1>1, <1>4, PlanSound DEF PlanSteps
<1>6. \/ outcome # "none"
         /\ Proceed(w, AfterPlan(a, Planned(a, outcome, NoActor, PlannedState(a.decision, outcome))))
      \/ a.intent # NoActor /\ Proceed(w, AfterPlan(a, ReplacementRow(a, a.intent)))
      \/ \E x \in Choices(a.approved, a.selection) :
           Proceed(w, AfterPlan(a, ReplacementRow(a, x)))
      \/ Proceed(w, b)
  <2>1. pull[a.decision] = pull[o.decision]
    BY <1>4
  <2> QED BY <2>1 DEF Inspect
<1>7. CASE outcome # "none"
           /\ Proceed(w, AfterPlan(a, Planned(a, outcome, NoActor,
                                               PlannedState(a.decision, outcome))))
  <2> DEFINE state == PlannedState(a.decision, outcome)
             row == Planned(a, outcome, NoActor, state)
  <2>1. outcome \in Outcomes \ {"replaced", "simulated_replacement"}
    BY <1>7, TerminalOutcomes
  <2>2. state \in RowState
    BY PlannedStateType
  <2> HIDE DEF a, o, outcome, state
  <2>3. row \in Row /\ row.outcome = outcome /\ (row.linked <=> a.intent # NoActor)
    BY <1>3, <2>1, <2>2, PlannedRow
  <2> HIDE DEF row
  <2>4. AfterPlan(a, row) \in Attempt /\ AttemptSound(AfterPlan(a, row))
        /\ AfterPlan(a, row).step \notin MutationSteps
    BY <1>3, <1>4, <1>5, <2>1, <2>3, AfterPlanNext
  <2>5. Proceed(w, AfterPlan(a, row))
    BY <1>7 DEF row, state
  <2> QED BY <2>4, <2>5 DEF Goes, Proceed
<1>8. ASSUME NEW x \in Actors \cup {NoActor}, Proceed(w, AfterPlan(a, ReplacementRow(a, x)))
      PROVE  \E c : Goes(w, c)
  <2> HIDE DEF a
  <2> QED BY <1>3, <1>4, <1>5, <1>8, ReplacementNext DEF Goes, Proceed
<1>9. CASE Proceed(w, b)
  <2>1. b \in Attempt /\ b.step = "select"
    BY <1>3 DEF Attempt, AttemptSteps, DatabaseSteps
  <2>2. /\ b.job = a.job /\ b.decision = a.decision /\ b.intent = a.intent
        /\ b.open = a.open /\ b.todo = a.todo /\ b.from = a.from
    BY <1>3 DEF Attempt
  <2>3. attempt' = [attempt EXCEPT ![w] = b]
    BY <1>9 DEF Proceed
  <2> HIDE DEF b, a, o
  <2>4. AttemptSound(b)
    BY <1>3, <1>4, <1>5, <2>1, <2>2, PlanSound DEF PlanSteps
  <2> QED BY <2>1, <2>3, <2>4 DEF Goes, MutationSteps
<1>10. a.intent \in Actors \cup {NoActor}
  BY <1>3 DEF Attempt
<1> QED BY <1>6, <1>7, <1>8, <1>9, <1>10, ChoicesType

LEMMA SelectGoes ==
  ASSUME AvailabilityInv, NEW w \in Workers, Select(w)
  PROVE  \E b : Goes(w, b)
<1> DEFINE o == attempt[w]
           A(absent) == [o EXCEPT !.selection = absent]
<1>1. o \in Attempt /\ AttemptSound(o) /\ o.step = "select"
  BY OwnAttempt DEF Select, At
<1>2. PICK absent \in {o.away, away} : \E x \in Choices(A(absent).approved, absent) :
        Proceed(w, AfterPlan(A(absent), ReplacementRow(A(absent), x)))
  BY DEF Select
<1>3. absent \subseteq Actors
  BY <1>1 DEF Attempt, AvailabilityInv, TypeOK
<1> DEFINE a == A(absent)
<1>4. a \in Attempt
  BY <1>1, <1>3 DEF Attempt
<1>5. /\ a.step = "select" /\ a.decision = o.decision /\ a.job = o.job
      /\ a.intent = o.intent /\ a.open = o.open /\ a.todo = o.todo /\ a.from = o.from
  BY <1>1 DEF Attempt
<1>6. PICK x \in Choices(a.approved, absent) : Proceed(w, AfterPlan(a, ReplacementRow(a, x)))
  BY <1>2
<1> HIDE DEF a, o, A
<1>7. AttemptSound(a)
  BY <1>1, <1>5, PlanSound DEF PlanSteps
<1>8. x \in Actors \cup {NoActor}
  BY ChoicesType
<1> QED BY <1>4, <1>5, <1>6, <1>7, <1>8, ReplacementNext DEF Goes, Proceed

LEMMA CheckIntentGoes ==
  ASSUME AvailabilityInv, NEW w \in Workers, CheckIntent(w)
  PROVE  \E b : Goes(w, b)
<1> DEFINE a == attempt[w]
           b == [a EXCEPT !.step = "begin"]
           c == [a EXCEPT !.step = "persist", !.row = PermanentFailure(a)]
           e == [a EXCEPT !.step = "persist", !.row = PermanentFailure(a),
                          !.effects = a.effects]
<1>1. a \in Attempt /\ AttemptSound(a) /\ a.step = "check"
  BY OwnAttempt DEF CheckIntent, At
<1>2. Proceed(w, b) \/ Proceed(w, c)
  BY DEF CheckIntent
<1>3. CASE Proceed(w, b)
  <2>1. b \in Attempt /\ b.step = "begin"
    BY <1>1 DEF Attempt, AttemptSteps, DatabaseSteps
  <2>2. /\ b.job = a.job /\ b.decision = a.decision /\ b.intent = a.intent
        /\ b.open = a.open /\ b.todo = a.todo /\ b.from = a.from
    BY <1>1 DEF Attempt
  <2>3. a.intent # NoActor
    BY <1>1 DEF AttemptSound
  <2> HIDE DEF a, b
  <2>4. AttemptSound(b)
    BY <1>1, <2>1, <2>2, <2>3, PlanSound DEF PlanSteps
  <2> QED BY <1>3, <2>1, <2>4 DEF Goes, Proceed, MutationSteps
<1>4. CASE Proceed(w, c)
  <2>1. c = e /\ c.step = "persist" /\ a.effects \in BOOLEAN
    BY <1>1 DEF Attempt
  <2>2. Persistable(a, PermanentFailure(a))
    BY <1>1, PermanentFailureRow DEF Persistable, Outcomes
  <2>3. a.step \in PlanSteps
    BY <1>1 DEF PlanSteps
  <2> HIDE DEF a, c
  <2>4. e \in Attempt /\ AttemptSound(e)
    BY <1>1, <2>1, <2>2, <2>3, PersistNext
  <2> HIDE DEF e
  <2> QED BY <1>4, <2>1, <2>4 DEF Goes, Proceed, MutationSteps
<1> QED BY <1>2, <1>3, <1>4

\* A mutation begins under authority, with its rows locked.
LEMMA BeginGoes ==
  ASSUME AvailabilityInv, NEW w \in Workers, Begin(w)
  PROVE  \E b : Goes(w, b)
<1> DEFINE a == attempt[w]
           b == [a EXCEPT !.step = "remove"]
<1>1. a \in Attempt /\ AttemptSound(a) /\ a.step = "begin"
  BY OwnAttempt DEF Begin, At
<1>2. CASE Proceed(w, Caught(a))
  BY <1>1, <1>2, CaughtGoes DEF At
<1>3. CASE Authorized(w) /\ Proceed(w, b)
  <2>1. b \in Attempt /\ b.step = "remove"
    BY <1>1 DEF Attempt, AttemptSteps, ProviderSteps
  <2>2. /\ b.job = a.job /\ b.decision = a.decision /\ b.intent = a.intent
        /\ b.open = a.open /\ b.todo = a.todo /\ b.from = a.from
    BY <1>1 DEF Attempt
  <2>3. a.intent # NoActor
    BY <1>1 DEF AttemptSound
  <2>4. job[a.job].holder = w /\ Current(a.job) /\ connection = "active"
    BY <1>3 DEF Authorized, HoldsJob
  <2> HIDE DEF a, b
  <2>5. AttemptSound(b)
    BY <1>1, <2>1, <2>2, <2>3, PlanSound DEF PlanSteps
  <2> QED BY <1>3, <2>1, <2>2, <2>4, <2>5 DEF Goes, Proceed
<1> QED BY <1>2, <1>3 DEF Begin

LEMMA PersistStaleGoes ==
  ASSUME AvailabilityInv, NEW w \in Workers, PersistStale(w)
  PROVE  \E b : Goes(w, b)
<1> DEFINE a == attempt[w]
<1>1. a \in Attempt /\ AttemptSound(a) /\ a.step = "persist"
  BY OwnAttempt DEF PersistStale, At
<1>2. CASE Proceed(w, GivenBack(a, "persist_replacement", "transient"))
  <2> DEFINE b == GivenBack(a, "persist_replacement", "transient")
  <2>1. b \in Attempt /\ AttemptSound(b) /\ b.step \in {"caught", "give back"}
    BY <1>1, GivenBackNext DEF RowSteps, Phases, Errors
  <2> HIDE DEF b
  <2>2. Proceed(w, b)
    BY <1>2 DEF b
  <2> QED BY <2>1, <2>2 DEF Goes, Proceed, MutationSteps
<1>3. CASE Proceed(w, [a EXCEPT !.step = "succeed"])
  <2>1. Goto(w, "succeed")
    BY <1>3 DEF Proceed, Goto
  <2> QED BY <1>1, <2>1, FreeGoes DEF At, FreeSteps
<1> QED BY <1>2, <1>3 DEF PersistStale

LEMMA NextIntentGoes ==
  ASSUME AvailabilityInv, NEW w \in Workers, NextIntent(w)
  PROVE  \E b : Goes(w, b)
<1> DEFINE a == attempt[w]
<1>1. a \in Attempt /\ AttemptSound(a) /\ a.step = "next intent"
  BY OwnAttempt DEF NextIntent, At
<1>2. CASE Goto(w, "succeed")
  BY <1>1, <1>2, FreeGoes DEF At, FreeSteps
<1>3. ASSUME NEW d \in a.open,
             LET b == [a EXCEPT !.decision = d, !.intent = intent[a.job][d]] IN
             Proceed(w, [b EXCEPT !.step = "audit", !.row = Abandoned(b)])
      PROVE  \E c : Goes(w, c)
  <2> DEFINE b == [a EXCEPT !.decision = d, !.intent = intent[a.job][d]]
             row == Abandoned(b)
             c == [b EXCEPT !.step = "audit", !.row = row]
  <2>1. d \in Decisions /\ a.job \in Jobs /\ intent[a.job][d] # NoActor
    BY <1>1 DEF Attempt, AttemptSound
  <2>2. intent[a.job][d] \in Actors
    BY <2>1, OwnRows
  <2>3. b \in Attempt
    BY <1>1, <2>1, <2>2 DEF Attempt
  <2>4. row \in Row /\ row.outcome = "permanent_failure" /\ row.actor = NoActor
        /\ row.state = "permanent_failure"
    <3>1. /\ PermanentFailure(b) \in Row /\ PermanentFailure(b).actor = NoActor
          /\ PermanentFailure(b).outcome = "permanent_failure"
          /\ PermanentFailure(b).state = "permanent_failure"
      BY <2>3, PermanentFailureRow DEF PermanentFailure, Planned
    <3> QED BY <3>1 DEF Abandoned, Row
  <2> HIDE DEF row
  <2>5. c \in Attempt
    <3>1. "audit" \in AttemptSteps /\ row \in Row
      BY <2>4 DEF AttemptSteps, DatabaseSteps
    <3> HIDE DEF b
    <3> QED BY <2>3, <3>1 DEF Attempt
  <2>6. /\ c.step = "audit" /\ c.job = a.job /\ c.decision = d /\ c.open = a.open
        /\ c.todo = a.todo /\ c.from = a.from /\ c.row = row
    BY <1>1 DEF Attempt
  <2>7. /\ \A e \in a.open : intent[a.job][e] # NoActor
        /\ a.from = "replay" => \A e \in a.todo : HasFinalizer(history[a.job][e].outcome)
    BY <1>1 DEF AttemptSound
  <2>8. RowFounded(a.job, d, row)
    BY <2>1, <2>4 DEF RowFounded, Outcomes
  <2>9. attempt' = [attempt EXCEPT ![w] = c]
    BY <1>3 DEF Proceed, row
  <2> HIDE DEF a, b, c
  <2>10. AttemptSound(c)
    BY <2>1, <2>4, <2>6, <2>7, <2>8 DEF AttemptSound, DecisionSteps, PlanSteps, RowSteps
  <2> QED BY <2>5, <2>6, <2>9, <2>10 DEF Goes, MutationSteps
<1> QED BY <1>1, <1>2, <1>3 DEF NextIntent

\* Steps whose error goes to the handler of the step.
LEMMA RefusedGoes ==
  ASSUME AvailabilityInv, NEW w \in Workers,
         \/ Unavailable(w) \/ PrepareRefused(w) \/ PersistRefused(w) \/ FinalizeRefused(w)
         \/ CompleteRefused(w) \/ AuditRefused(w) \/ RecoverRefused(w) \/ Throw(w)
  PROVE  \E b : Goes(w, b)
<1>1. ~At(w, "idle")
  BY DEF Unavailable, PrepareRefused, PersistRefused, FinalizeRefused, CompleteRefused,
         AuditRefused, RecoverRefused, Throw, At, DatabaseSteps, ProviderSteps
<1>2. \/ Proceed(w, Caught(attempt[w]))
      \/ \E error \in {"transient", "permanent"} : Proceed(w, Failed(attempt[w], error))
  BY DEF Unavailable, PrepareRefused, PersistRefused, FinalizeRefused, CompleteRefused,
         AuditRefused, RecoverRefused, Throw
<1> QED BY <1>1, <1>2, CaughtGoes, FailedGoes

\* A recovery of a row that is on record goes on with its phase.
LEMMA RecoverLoadGoes ==
  ASSUME AvailabilityInv, NEW w \in Workers, RecoverLoad(w)
  PROVE  \E b : Goes(w, b)
<1> DEFINE a == attempt[w]
           b == [a EXCEPT !.step = RecoveryStep(a.phase)]
<1>1. a \in Attempt /\ AttemptSound(a) /\ a.step = "recover load"
  BY OwnAttempt DEF RecoverLoad, At
<1>2. CASE Proceed(w, Failed(a, "permanent"))
  BY <1>1, <1>2, FailedGoes DEF At
<1>3. CASE Proceed(w, [a EXCEPT !.step = RecoveryStep("none")])
  <2>1. Goto(w, "list finalizers")
    BY <1>3 DEF Proceed, Goto, RecoveryStep
  <2> QED BY <1>1, <2>1, FreeGoes DEF At, FreeSteps
<1>4. CASE /\ Proceed(w, b) /\ MatchesRecovery(a)
           /\ history[a.job][a.decision].state = "finalizer_pending"
  <2>1. /\ a.job \in Jobs /\ a.decision \in Decisions
        /\ a.phase \in {"run_finalizer", "complete_replacement"}
        /\ RowFounded(a.job, a.decision, a.row)
        /\ a.phase = "complete_replacement" => <<a.job, a.decision>> \in ran
    BY <1>1 DEF AttemptSound, DecisionSteps, RecoveryFounded
  <2>2. HasFinalizer(history[a.job][a.decision].outcome)
    BY <1>4, <2>1, OwnRows DEF RecordSoundFor, MatchesRecovery
  <2>3. /\ RecoveryStep(a.phase) \in {"finalize", "complete"}
        /\ RecoveryStep(a.phase) = "complete" => a.phase = "complete_replacement"
    BY <2>1 DEF RecoveryStep
  <2>4. b \in Attempt
    BY <1>1, <2>3 DEF Attempt, AttemptSteps, DatabaseSteps
  <2>5. /\ b.step = RecoveryStep(a.phase) /\ b.job = a.job /\ b.decision = a.decision
        /\ b.open = a.open /\ b.todo = a.todo /\ b.from = a.from /\ b.row = a.row
    BY <1>1 DEF Attempt
  <2>6. /\ \A e \in a.open : intent[a.job][e] # NoActor
        /\ a.from = "replay" => \A e \in a.todo : HasFinalizer(history[a.job][e].outcome)
    BY <1>1 DEF AttemptSound
  <2> HIDE DEF a, b
  <2>7. AttemptSound(b)
    BY <2>1, <2>2, <2>3, <2>5, <2>6 DEF AttemptSound, DecisionSteps, PlanSteps, RowSteps
  <2> QED BY <1>4, <2>3, <2>4, <2>5, <2>7 DEF Goes, Proceed, MutationSteps
<1> QED BY <1>2, <1>3, <1>4 DEF RecoverLoad

\* A recovery that is stale becomes the audit of its row.
LEMMA RecoverStaleGoes ==
  ASSUME AvailabilityInv, NEW w \in Workers, RecoverStale(w)
  PROVE  \E b : Goes(w, b)
<1> DEFINE a == attempt[w]
           b == [a EXCEPT !.step = "recover audit"]
<1>1. a \in Attempt /\ AttemptSound(a) /\ a.step = "recover persist"
  BY OwnAttempt DEF RecoverStale, At
<1>2. /\ a.job \in Jobs /\ a.decision \in Decisions
      /\ RowFounded(a.job, a.decision, a.row)
      /\ \A e \in a.open : intent[a.job][e] # NoActor
      /\ a.from = "replay" => \A e \in a.todo : HasFinalizer(history[a.job][e].outcome)
  BY <1>1 DEF AttemptSound, DecisionSteps, RowSteps
<1>3. b \in Attempt
  BY <1>1 DEF Attempt, AttemptSteps, DatabaseSteps
<1>4. /\ b.step = "recover audit" /\ b.job = a.job /\ b.decision = a.decision
      /\ b.open = a.open /\ b.todo = a.todo /\ b.from = a.from /\ b.row = a.row
  BY <1>1 DEF Attempt
<1>5. attempt' = [attempt EXCEPT ![w] = b]
  BY DEF RecoverStale, Proceed
<1> HIDE DEF a, b
<1>6. AttemptSound(b)
  BY <1>2, <1>4 DEF AttemptSound, DecisionSteps, PlanSteps, RowSteps
<1> QED BY <1>3, <1>4, <1>5, <1>6 DEF Goes, MutationSteps

\* A worker that comes to rest knows nothing.
LEMMA RestGoes ==
  ASSUME NEW w \in Workers, Rest(w)
  PROVE  Goes(w, NoAttempt)
BY NoAttemptType, NoAttemptSound DEF Rest, Proceed, Goes, MutationSteps

\* Every step that changes the attempt alone.
Quietly(w) ==
  \/ ListFinalizers(w) \/ Replay(w) \/ ListIntents(w) \/ Load(w) \/ NextCandidate(w)
  \/ Inspect(w) \/ Select(w) \/ Unavailable(w) \/ PrepareRefused(w) \/ CheckIntent(w)
  \/ Begin(w) \/ PersistStale(w) \/ PersistRefused(w) \/ FinalizeRefused(w)
  \/ CompleteRefused(w) \/ NextIntent(w) \/ AuditRefused(w) \/ RecoverLoad(w)
  \/ RecoverStale(w) \/ RecoverRefused(w) \/ LeaseLost(w) \/ Throw(w)

LEMMA QuietlyShared ==
  ASSUME NEW w \in Workers, Quietly(w) PROVE UNCHANGED shared
BY DEF Quietly, ListFinalizers, Replay, ListIntents, Load, NextCandidate, Inspect, Select,
       Unavailable, PrepareRefused, CheckIntent, Begin, PersistStale, PersistRefused,
       FinalizeRefused, CompleteRefused, NextIntent, AuditRefused, RecoverLoad,
       RecoverStale, RecoverRefused, LeaseLost, Throw

LEMMA QuietlyKeeps ==
  ASSUME AvailabilityInv, NEW w \in Workers, Quietly(w)
  PROVE  AvailabilityInv' /\ UNCHANGED shared
<1>1. CASE LeaseLost(w)
  <2>1. Rest(w)
    BY <1>1 DEF LeaseLost
  <2> QED BY <2>1, QuietlyShared, RestGoes, QuietStep DEF Goes
<1>2. CASE ~LeaseLost(w)
  <2>1. PICK b : Goes(w, b)
    BY <1>2, ListFinalizersGoes, ReplayGoes, ListIntentsGoes, LoadGoes, NextCandidateGoes,
       InspectGoes, SelectGoes, CheckIntentGoes, BeginGoes, PersistStaleGoes,
       NextIntentGoes, RefusedGoes, RecoverLoadGoes, RecoverStaleGoes DEF Quietly
  <2> QED BY <2>1, QuietlyShared, QuietStep DEF Goes
<1> QED BY <1>1, <1>2

-----------------------------------------------------------------------------
(* Rows that are recorded, completed and given up *)

LEMMA TableTypes ==
  ASSUME AvailabilityInv
  PROVE  /\ history \in [Jobs -> [Decisions -> Row]]
         /\ intent \in [Jobs -> [Decisions -> Actors \cup {NoActor}]]
         /\ attempt \in [Workers -> Attempt]
BY DEF AvailabilityInv, TypeOK

LEMMA TableUpdate ==
  ASSUME NEW table \in [Jobs -> [Decisions -> Row]], NEW r \in Jobs, NEW d \in Decisions,
         NEW row \in Row
  PROVE  [table EXCEPT ![r][d] = row] \in [Jobs -> [Decisions -> Row]]
OBVIOUS

\* A founded row in a place that is free.
LEMMA RecordedRow ==
  ASSUME AvailabilityInv, NEW r \in Jobs, NEW d \in Decisions, NEW row \in Row,
         history[r][d] = NoRow, RowFounded(r, d, row), row.state # "none",
         row.state = "finalizer_pending" => HasFinalizer(row.outcome),
         history' = [history EXCEPT ![r][d] = row], UNCHANGED <<intent, asked, ran>>
  PROVE  /\ Grows /\ RecordsSound' /\ history' \in [Jobs -> [Decisions -> Row]]
         /\ history'[r][d] = row
<1>1. history \in [Jobs -> [Decisions -> Row]]
  BY TableTypes
<1>2. history' \in [Jobs -> [Decisions -> Row]] /\ history'[r][d] = row
  BY <1>1
<1>3. \A q \in Jobs : \A e \in Decisions :
        q # r \/ e # d => history'[q][e] = history[q][e]
  BY <1>1
<1>4. history[r][d].outcome = "none"
  BY DEF NoRow
<1>5. Grows
  BY <1>3, <1>4 DEF Grows
<1>6. ASSUME NEW q \in Jobs, NEW e \in Decisions PROVE RecordSoundFor(q, e)'
  <2>1. PICK other \in Row : other = history'[q][e]
    BY <1>2
  <2>2. CASE q = r /\ e = d
    <3>1. RowFounded(q, e, row)'
      BY <1>5, <2>2, RowGrows
    <3>2. intent'[q][e] # NoActor => Mode[e] = "enforce"
      BY <2>2 DEF AvailabilityInv, RecordsSound, RecordSoundFor
    <3> QED BY <1>2, <2>2, <3>1, <3>2 DEF RecordSoundFor
  <2>3. CASE q # r \/ e # d
    <3>1. other = history[q][e] /\ RecordSoundFor(q, e)
      BY <1>3, <2>1, <2>3 DEF AvailabilityInv, RecordsSound
    <3>2. other # NoRow => RowFounded(q, e, other)'
      BY <1>5, <3>1, RowGrows DEF RecordSoundFor
    <3> QED BY <2>1, <3>1, <3>2 DEF RecordSoundFor
  <2> QED BY <2>2, <2>3
<1> QED BY <1>2, <1>5, <1>6 DEF RecordsSound

\* Rows that keep what they say, and are not opened again.
LEMMA SettledRows ==
  ASSUME AvailabilityInv, history' \in [Jobs -> [Decisions -> Row]],
         UNCHANGED <<intent, asked, ran>>,
         \A r \in Jobs : \A d \in Decisions :
           \/ history'[r][d] = history[r][d]
           \/ /\ history[r][d] # NoRow
              /\ history'[r][d].outcome = history[r][d].outcome
              /\ history'[r][d].actor = history[r][d].actor
              /\ history'[r][d].linked = history[r][d].linked
              /\ history'[r][d].state \in {"completed", "permanent_failure"}
           \/ /\ history[r][d] = NoRow /\ intent[r][d] # NoActor
              /\ history'[r][d].outcome = "permanent_failure"
              /\ history'[r][d].state = "permanent_failure"
  PROVE  Grows /\ RecordsSound'
<1>1. ASSUME NEW r \in Jobs, NEW d \in Decisions
      PROVE  history[r][d].outcome # "none" => history'[r][d].outcome = history[r][d].outcome
  BY OwnRows
<1>2. Grows
  BY <1>1 DEF Grows
<1>3. ASSUME NEW r \in Jobs, NEW d \in Decisions PROVE RecordSoundFor(r, d)'
  <2>1. RecordSoundFor(r, d)
    BY DEF AvailabilityInv, RecordsSound
  <2>2. PICK row \in Row : row = history'[r][d]
    OBVIOUS
  <2>3. row # NoRow => RowFounded(r, d, row) /\ row.state # "none"
                       /\ (row.state = "finalizer_pending" => HasFinalizer(row.outcome))
    <3>1. CASE row = history[r][d]
      BY <2>1, <3>1 DEF RecordSoundFor
    <3>2. CASE /\ history[r][d] # NoRow /\ row.outcome = history[r][d].outcome
               /\ row.actor = history[r][d].actor /\ row.linked = history[r][d].linked
               /\ row.state \in {"completed", "permanent_failure"}
      <4>1. RowFounded(r, d, history[r][d])
        BY <2>1, <3>2 DEF RecordSoundFor
      <4>2. RowFounded(r, d, row)
        BY <3>2, <4>1 DEF RowFounded
      <4> QED BY <3>2, <4>2
    <3>3. CASE /\ intent[r][d] # NoActor /\ row.outcome = "permanent_failure"
               /\ row.state = "permanent_failure"
      BY <3>3 DEF RowFounded, Outcomes
    <3> QED BY <2>2, <3>1, <3>2, <3>3
  <2>4. row # NoRow => RowFounded(r, d, row)'
    BY <1>2, <2>3, RowGrows
  <2>5. intent'[r][d] # NoActor => Mode[d] = "enforce"
    BY <2>1 DEF RecordSoundFor
  <2> QED BY <2>2, <2>3, <2>4, <2>5 DEF RecordSoundFor
<1> QED BY <1>2, <1>3 DEF RecordsSound

LEMMA CompletedRow ==
  ASSUME AvailabilityInv, NEW r \in Jobs, NEW d \in Decisions,
         history[r][d].state \in {"finalizer_pending", "completed"},
         history' = [history EXCEPT ![r][d].state = "completed"],
         UNCHANGED <<intent, asked, ran>>
  PROVE  Grows /\ RecordsSound' /\ history' \in [Jobs -> [Decisions -> Row]]
<1>1. history \in [Jobs -> [Decisions -> Row]]
  BY TableTypes
<1>2. PICK row \in Row : row = history[r][d]
  BY <1>1
<1>3. PICK done : done = [row EXCEPT !.state = "completed"]
  OBVIOUS
<1>4. /\ done \in Row /\ done.outcome = row.outcome /\ done.actor = row.actor
      /\ done.linked = row.linked /\ done.state = "completed"
      /\ history' = [history EXCEPT ![r][d] = done]
  BY <1>2, <1>3 DEF Row, RowState
<1>5. row # NoRow
  BY <1>2 DEF NoRow
<1>6. history' \in [Jobs -> [Decisions -> Row]]
  <2>1. history' = [history EXCEPT ![r][d] = done]
    BY <1>4
  <2>2. [history EXCEPT ![r][d] = done] \in [Jobs -> [Decisions -> Row]]
    BY <1>1, <1>4, TableUpdate
  <2> QED BY <2>1, <2>2, Zenon
<1>7. ASSUME NEW q \in Jobs, NEW e \in Decisions
      PROVE  \/ history'[q][e] = history[q][e]
             \/ q = r /\ e = d /\ history'[q][e] = done
  BY <1>1, <1>4
<1> QED BY <1>2, <1>4, <1>5, <1>6, <1>7, SettledRows

LEMMA GivenUpRows ==
  ASSUME AvailabilityInv, NEW r \in Jobs, history' = [history EXCEPT ![r] = GivenUp(r)],
         UNCHANGED <<intent, asked, ran>>
  PROVE  Grows /\ RecordsSound' /\ history' \in [Jobs -> [Decisions -> Row]]
<1> DEFINE open == [outcome |-> "permanent_failure", actor |-> NoActor, linked |-> TRUE,
                    state |-> "permanent_failure", stamp |-> 0]
<1>1. history \in [Jobs -> [Decisions -> Row]]
  BY TableTypes
<1>2. open \in Row /\ open.outcome = "permanent_failure" /\ open.state = "permanent_failure"
  BY DEF Row, Outcomes, RowState
<1>3. ASSUME NEW row \in Row
      PROVE  LET failed == [row EXCEPT !.state = "permanent_failure"] IN
             /\ failed \in Row /\ failed.outcome = row.outcome /\ failed.actor = row.actor
             /\ failed.linked = row.linked /\ failed.state = "permanent_failure"
  BY DEF Row, RowState
<1>4. ASSUME NEW d \in Decisions
      PROVE  \/ GivenUp(r)[d] = open /\ history[r][d] = NoRow /\ intent[r][d] # NoActor
             \/ /\ GivenUp(r)[d] = [history[r][d] EXCEPT !.state = "permanent_failure"]
                /\ history[r][d].state = "finalizer_pending"
             \/ GivenUp(r)[d] = history[r][d]
  BY DEF GivenUp, OpenIntents
<1> HIDE DEF open
<1>5. \A d \in Decisions : GivenUp(r)[d] \in Row
  <2> TAKE d \in Decisions
  <2>1. history[r][d] \in Row
    BY <1>1
  <2> QED BY <1>2, <1>3, <1>4, <2>1
<1>6. GivenUp(r) \in [Decisions -> Row]
  <2>1. GivenUp(r) = [d \in Decisions |-> GivenUp(r)[d]]
    BY DEF GivenUp
  <2> QED BY <1>5, <2>1
<1>7. history' \in [Jobs -> [Decisions -> Row]]
  BY <1>1, <1>6
<1>8. ASSUME NEW q \in Jobs, NEW d \in Decisions
      PROVE  \/ history'[q][d] = history[q][d]
             \/ /\ history[q][d] # NoRow
                /\ history'[q][d].outcome = history[q][d].outcome
                /\ history'[q][d].actor = history[q][d].actor
                /\ history'[q][d].linked = history[q][d].linked
                /\ history'[q][d].state \in {"completed", "permanent_failure"}
             \/ /\ history[q][d] = NoRow /\ intent[q][d] # NoActor
                /\ history'[q][d].outcome = "permanent_failure"
                /\ history'[q][d].state = "permanent_failure"
  <2>1. CASE q # r
    BY <1>1, <2>1
  <2>2. CASE q = r
    <3>1. history'[q][d] = GivenUp(r)[d]
      BY <1>1, <2>2
    <3>2. history[q][d] \in Row
      BY <1>1
    <3>3. history[q][d].state = "finalizer_pending" => history[q][d] # NoRow
      BY DEF NoRow
    <3>4. CASE GivenUp(r)[d] = open /\ history[r][d] = NoRow /\ intent[r][d] # NoActor
      BY <1>2, <2>2, <3>1, <3>4
    <3>5. CASE /\ GivenUp(r)[d] = [history[r][d] EXCEPT !.state = "permanent_failure"]
               /\ history[r][d].state = "finalizer_pending"
      <4>1. PICK row \in Row : row = history[q][d]
        BY <3>2
      <4>2. PICK failed : failed = [row EXCEPT !.state = "permanent_failure"]
        OBVIOUS
      <4>3. history'[q][d] = failed
        BY <2>2, <3>1, <3>5, <4>1, <4>2
      <4>4. /\ failed.outcome = row.outcome /\ failed.actor = row.actor
            /\ failed.linked = row.linked /\ failed.state = "permanent_failure"
        BY <1>3, <4>2
      <4>5. row # NoRow
        BY <2>2, <3>3, <3>5, <4>1
      <4> QED BY <4>1, <4>3, <4>4, <4>5
    <3>6. CASE GivenUp(r)[d] = history[r][d]
      BY <2>2, <3>1, <3>6
    <3> QED BY <1>4, <3>4, <3>5, <3>6
  <2> QED BY <2>1, <2>2
<1> QED BY <1>7, <1>8, SettledRows

-----------------------------------------------------------------------------
(* The steps of an attempt that take effect *)

\* The effect leaves the job, the absence and the connection alone, and the
\* attempt goes on as it should or as its error says.
LEMMA EffectStep ==
  ASSUME AvailabilityInv, Grows, RecordsSound', NEW w \in Workers, ~At(w, "idle"),
         NEW next \in Attempt, AttemptSound(next)',
         NEW answered \in BOOLEAN, Proceed(w, Answered(attempt[w], next, answered)),
         UNCHANGED <<job, absence, connection, payload, late>>,
         next.step \in MutationSteps =>
           job[next.job].holder = w /\ Current(next.job) /\ connection = "active",
         attempt' \in [Workers -> Attempt] => TypeOK'
  PROVE  AvailabilityInv'
<1> USE DEF AvailabilityInv
<1> DEFINE failed == Failed(attempt[w], "transient")
<1>1. failed \in Attempt /\ AttemptSound(failed) /\ failed.step \in {"caught", "give back", "persist"}
  BY OwnAttempt, FailedNext DEF At
<1>2. PICK b \in Attempt : b = failed
  BY <1>1
<1>3. AttemptSound(b)'
  BY <1>1, <1>2, AttemptGrows
<1>4. PICK a \in {next, b} : attempt' = [attempt EXCEPT ![w] = a]
  BY <1>2 DEF Proceed, Answered
<1>5. a \in Attempt /\ AttemptSound(a)'
  BY <1>3, <1>4
<1>6. a.step \in MutationSteps =>
        job[a.job].holder = w /\ Current(a.job) /\ connection = "active"
  BY <1>1, <1>2, <1>4 DEF MutationSteps
<1> HIDE DEF failed
<1>7. attempt' \in [Workers -> Attempt] /\ AttemptsSound'
  BY <1>4, <1>5, AttemptsKept
<1>8. PayloadsSound' /\ RequestsSound'
  BY PayloadsKept, RequestsKept
<1>9. HeldJobRuns'
  BY DEF HeldJobRuns
<1>10. MutationAuthorized'
  BY <1>4, <1>5, <1>6, AuthorityKept
<1> QED BY <1>7, <1>8, <1>9, <1>10

\* An intent, once on record, stays.
LEMMA PrepareKeeps ==
  ASSUME AvailabilityInv, NEW w \in Workers, NEW answered \in BOOLEAN, Prepare(w, answered)
  PROVE  AvailabilityInv'
<1> DEFINE a == attempt[w]
           r == a.job
           d == a.decision
           x == a.row.actor
<1>1. a \in Attempt /\ AttemptSound(a) /\ a.step = "prepare"
  BY OwnAttempt DEF Prepare, At
<1>2. r \in Jobs /\ d \in Decisions /\ Mode[d] = "enforce" /\ x \in Actors /\ x # NoActor
  BY <1>1, AvailabilityAssumption DEF AttemptSound, DecisionSteps
<1>3. /\ intent[r][d] \in {NoActor, x}
      /\ intent' = [intent EXCEPT ![r][d] = x]
      /\ UNCHANGED <<job, absence, connection, world, policy, cohort, history, payload,
                     lastError, late, ghosts>>
  BY DEF Prepare, IntentAccepted
<1>4. intent \in [Jobs -> [Decisions -> Actors \cup {NoActor}]]
  BY TableTypes
<1>5. PICK next : next = [a EXCEPT !.step = "inspect", !.round = @ + 1, !.intent = x]
  OBVIOUS
<1>6. /\ next \in Attempt /\ next.step = "inspect" /\ next.job = r /\ next.decision = d
      /\ next.intent = x /\ next.open = a.open /\ next.todo = a.todo /\ next.from = a.from
  <2>1. "inspect" \in AttemptSteps /\ a.round + 1 \in Nat
    <3>1. "inspect" \in AttemptSteps
      BY DEF AttemptSteps, ProviderSteps
    <3>2. a.round \in Nat
      BY <1>1 DEF Attempt
    <3> QED BY <3>1, <3>2
  <2> HIDE DEF a, r, d, x
  <2>2. next \in Attempt
    BY <1>1, <1>2, <1>5, <2>1 DEF Attempt
  <2>3. /\ next.step = "inspect" /\ next.job = a.job /\ next.decision = a.decision
        /\ next.intent = x /\ next.open = a.open /\ next.todo = a.todo /\ next.from = a.from
    BY <1>1, <1>5 DEF Attempt
  <2> QED BY <2>2, <2>3 DEF r, d
<1>7. Proceed(w, Answered(a, next, answered))
  BY <1>5 DEF Prepare
<1>8. /\ \A e \in a.open : intent[r][e] # NoActor
      /\ a.from = "replay" => \A e \in a.todo : HasFinalizer(history[r][e].outcome)
      /\ a.open \subseteq Decisions
  BY <1>1 DEF AttemptSound, Attempt
<1> HIDE DEF a, r, d, x
<1>9. /\ intent' \in [Jobs -> [Decisions -> Actors \cup {NoActor}]]
      /\ intent'[r][d] = x
      /\ \A q \in Jobs : \A e \in Decisions :
           q # r \/ e # d => intent'[q][e] = intent[q][e]
  BY <1>2, <1>3, <1>4
<1>10. Grows
  BY <1>2, <1>3, <1>9 DEF Grows, ghosts
<1>11. RecordsSound'
  <2>1. ASSUME NEW q \in Jobs, NEW e \in Decisions PROVE RecordSoundFor(q, e)'
    <3>1. RecordSoundFor(q, e) /\ history[q][e] \in Row
      BY OwnRows
    <3>2. PICK row \in Row : row = history[q][e]
      BY <3>1
    <3>3. row # NoRow => RowFounded(q, e, row)'
      BY <1>10, <3>1, <3>2, RowGrows DEF RecordSoundFor
    <3>4. intent'[q][e] # NoActor => Mode[e] = "enforce"
      BY <1>2, <1>9, <3>1 DEF RecordSoundFor
    <3> QED BY <1>3, <3>1, <3>2, <3>3, <3>4 DEF RecordSoundFor
  <2> QED BY <2>1 DEF RecordsSound
<1>12. AttemptSound(next)'
  <2>1. /\ \A e \in a.open : intent'[r][e] # NoActor
        /\ a.from = "replay" => \A e \in a.todo : HasFinalizer(history'[r][e].outcome)
    BY <1>2, <1>3, <1>8, <1>9
  <2> QED BY <1>2, <1>6, <1>9, <2>1 DEF AttemptSound, DecisionSteps, PlanSteps, RowSteps
<1>13. attempt' \in [Workers -> Attempt] => TypeOK'
  BY <1>3, <1>9 DEF AvailabilityInv, TypeOK, world, ghosts
<1>14. next.step \notin MutationSteps /\ ~At(w, "idle")
  BY <1>1, <1>6 DEF MutationSteps, At, a
<1>15. Proceed(w, Answered(attempt[w], next, answered))
  BY <1>7 DEF a
<1> QED BY <1>3, <1>6, <1>10, <1>11, <1>12, <1>13, <1>14, <1>15, EffectStep

\* The requested reviewers of one pull request change.
LEMMA RequestedType ==
  ASSUME TypeOK, NEW d \in Decisions, NEW requested \in SUBSET Actors,
         pull' = [pull EXCEPT ![d].requested = requested]
  PROVE  pull' \in [Decisions -> PullRequest]
<1>1. pull[d] \in PullRequest /\ pull \in [Decisions -> PullRequest]
  BY DEF TypeOK
<1>2. PICK p : p = [pull[d] EXCEPT !.requested = requested]
  OBVIOUS
<1>3. p \in PullRequest
  BY <1>1, <1>2 DEF PullRequest
<1>4. pull' = [pull EXCEPT ![d] = p]
  BY <1>2
<1> QED BY <1>1, <1>3, <1>4

LEMMA RemoveKeeps ==
  ASSUME AvailabilityInv, NEW w \in Workers, NEW answered \in BOOLEAN, Remove(w, answered)
  PROVE  AvailabilityInv'
<1> DEFINE a == attempt[w]
           d == a.decision
<1>1. a \in Attempt /\ AttemptSound(a) /\ a.step = "remove"
  BY OwnAttempt DEF Remove, At
<1>2. PICK next : next = [a EXCEPT !.step = "ask"]
  OBVIOUS
<1>3. /\ next \in Attempt /\ next.step = "ask" /\ next.job = a.job
      /\ next.decision = a.decision /\ next.intent = a.intent /\ next.open = a.open
      /\ next.todo = a.todo /\ next.from = a.from
  BY <1>1, <1>2 DEF Attempt, AttemptSteps, ProviderSteps
<1>4. /\ Proceed(w, Answered(attempt[w], next, answered))
      /\ pull' = [pull EXCEPT ![d].requested = @ \ {Absentee}]
      /\ UNCHANGED <<job, absence, connection, superseded, away, policy, cohort, intent,
                     history, payload, lastError, late, ghosts>>
  BY <1>2 DEF Remove
<1>5. a.intent # NoActor /\ d \in Decisions
  BY <1>1 DEF AttemptSound, DecisionSteps
<1>6. job[a.job].holder = w /\ Current(a.job) /\ connection = "active"
  BY <1>1 DEF AvailabilityInv, MutationAuthorized, Authorized, HoldsJob, MutationSteps
<1>7. ~At(w, "idle")
  BY <1>1 DEF At
<1> HIDE DEF a
<1>8. AttemptSound(next)
  BY <1>1, <1>3, <1>5, PlanSound DEF PlanSteps
<1>9. Grows
  BY <1>4 DEF Grows, ghosts
<1>10. AttemptSound(next)'
  BY <1>3, <1>8, <1>9, AttemptGrows
<1>11. RecordsSound'
  BY <1>4, <1>9, RecordsKept DEF AvailabilityInv
<1>12. attempt' \in [Workers -> Attempt] => TypeOK'
  <2>1. pull[d].requested \subseteq Actors /\ pull \in [Decisions -> PullRequest]
    BY <1>5 DEF AvailabilityInv, TypeOK, PullRequest
  <2>2. PICK requested \in SUBSET Actors : requested = pull[d].requested \ {Absentee}
    BY <2>1
  <2>3. pull' = [pull EXCEPT ![d].requested = requested]
    BY <1>4, <2>2
  <2>4. pull' \in [Decisions -> PullRequest]
    BY <1>5, <2>3, RequestedType DEF AvailabilityInv
  <2> QED BY <1>4, <2>4 DEF AvailabilityInv, TypeOK, ghosts
<1> QED BY <1>3, <1>4, <1>6, <1>7, <1>9, <1>10, <1>11, <1>12, EffectStep

\* The attempt goes on at a step that asks nothing of its plan or row.
LEMMA FreeNext ==
  ASSUME Grows, NEW a \in Attempt, AttemptSound(a), a.step # "idle",
         NEW next \in Attempt, next.step \in FreeSteps, next.job = a.job,
         next.open \subseteq a.open, next.todo = a.todo, next.from = a.from,
         next.step = "replay" => a.from = "replay"
  PROVE  AttemptSound(next)'
<1>1. /\ a.job \in Jobs /\ \A d \in a.open : intent[a.job][d] # NoActor
      /\ a.from = "replay" => \A d \in a.todo : HasFinalizer(history[a.job][d].outcome)
  BY DEF AttemptSound
<1>2. AttemptSound(next)
  BY <1>1, FreeSound
<1> QED BY <1>2, AttemptGrows

\* The attempt goes on to finalize or complete the row it is about.
LEMMA FinalizerNext ==
  ASSUME Grows, NEW a \in Attempt, AttemptSound(a), a.step \in RowSteps,
         NEW next \in Attempt, next.step \in {"finalize", "complete"}, next.job = a.job,
         next.decision = a.decision, next.row = a.row, next.open = a.open,
         next.todo = a.todo, next.from = a.from,
         HasFinalizer(history'[a.job][a.decision].outcome),
         next.step = "complete" => <<a.job, a.decision>> \in ran'
  PROVE  AttemptSound(next)'
<1>1. a.job \in Jobs /\ a.decision \in Decisions /\ a.step # "idle"
  BY DEF AttemptSound, RowSteps, DecisionSteps
<1>2. RowFounded(a.job, a.decision, a.row)'
  BY <1>1, RowGrows DEF AttemptSound
<1>3. a.open \subseteq Decisions /\ a.todo \subseteq Decisions
  BY DEF Attempt
<1>4. /\ \A d \in a.open : intent'[a.job][d] # NoActor
      /\ a.from = "replay" => \A d \in a.todo : HasFinalizer(history'[a.job][d].outcome)
  BY <1>1, <1>3, FinalizerGrows DEF AttemptSound, Grows
<1> QED BY <1>1, <1>2, <1>4 DEF AttemptSound, DecisionSteps, PlanSteps, RowSteps

\* The attempt asks the actor of its intent, whose row is then founded.
LEMMA AskKeeps ==
  ASSUME AvailabilityInv, NEW w \in Workers, NEW answered \in BOOLEAN, Ask(w, answered)
  PROVE  AvailabilityInv'
<1>1. PICK a \in Attempt : a = attempt[w] /\ AttemptSound(a) /\ a.step = "ask"
  BY OwnAttempt DEF Ask, At
<1>2. PICK r \in Jobs, d \in Decisions, x \in Actors :
        r = a.job /\ d = a.decision /\ x = a.intent /\ x # NoActor /\ intent[r][d] = x
  <2>1. a.job \in Jobs /\ a.decision \in Decisions
    BY <1>1 DEF AttemptSound, DecisionSteps
  <2>2. a.intent # NoActor /\ intent[a.job][a.decision] = a.intent
    BY <1>1 DEF AttemptSound, PlanSteps
  <2>3. a.intent \in Actors
    BY <2>2 DEF Attempt
  <2> QED BY <2>1, <2>2, <2>3
<1>3. PICK row : row = ReplacementRow(a, x)
  OBVIOUS
<1>4. /\ row \in Row
      /\ row.outcome \in {"no_replacement_available", "replaced", "simulated_replacement"}
      /\ row.outcome = "replaced" => row.actor = x
      /\ row.outcome = "simulated_replacement" => Mode[d] = "shadow"
  BY <1>2, <1>3, ReplacementRowFacts
<1>5. PICK next : next = [a EXCEPT !.step = "persist", !.effects = TRUE, !.row = row]
  OBVIOUS
<1>6. /\ next \in Attempt /\ next.step = "persist" /\ next.job = r
      /\ next.decision = d /\ next.intent = x /\ next.open = a.open
      /\ next.todo = a.todo /\ next.from = a.from /\ next.row = row
  BY <1>2, <1>4, <1>5 DEF Attempt, AttemptSteps, DatabaseSteps
<1>7. /\ Proceed(w, Answered(attempt[w], next, answered))
      /\ pull' = [pull EXCEPT ![d].requested = @ \cup {x}]
      /\ asked' = asked \cup {<<r, d, x>>}
      /\ UNCHANGED <<job, absence, connection, superseded, away, policy, cohort, intent,
                     history, payload, lastError, late, ran>>
  BY <1>1, <1>2, <1>3, <1>5 DEF Ask
<1>8. /\ \A e \in a.open : intent[r][e] # NoActor
      /\ a.from = "replay" => \A e \in a.todo : HasFinalizer(history[r][e].outcome)
  BY <1>1, <1>2 DEF AttemptSound
<1>9. ~At(w, "idle") /\ next.step \notin MutationSteps
  BY <1>1, <1>6 DEF At, MutationSteps
<1>10. Grows
  BY <1>7 DEF Grows
<1>11. RowFounded(r, d, row)'
  <2>1. row.outcome \in Outcomes
    BY <1>4 DEF Outcomes
  <2>2. intent'[r][d] # NoActor
    BY <1>2, <1>7
  <2>3. row.outcome = "replaced" => <<r, d, row.actor>> \in asked'
    BY <1>4, <1>7
  <2> QED BY <1>4, <2>1, <2>2, <2>3 DEF RowFounded
<1>12. AttemptSound(next)'
  <2>1. /\ \A e \in a.open : intent'[r][e] # NoActor
        /\ a.from = "replay" => \A e \in a.todo : HasFinalizer(history'[r][e].outcome)
        /\ intent'[r][d] = x
    BY <1>2, <1>7, <1>8
  <2> QED BY <1>2, <1>6, <1>11, <2>1 DEF AttemptSound, DecisionSteps, PlanSteps, RowSteps
<1>13. RecordsSound'
  BY <1>7, <1>10, RecordsKept DEF AvailabilityInv
<1>14. attempt' \in [Workers -> Attempt] => TypeOK'
  <2>1. pull[d].requested \subseteq Actors /\ pull \in [Decisions -> PullRequest]
    BY DEF AvailabilityInv, TypeOK, PullRequest
  <2>2. PICK requested \in SUBSET Actors : requested = pull[d].requested \cup {x}
    BY <2>1
  <2>3. pull' = [pull EXCEPT ![d].requested = requested]
    BY <1>7, <2>2
  <2>4. pull' \in [Decisions -> PullRequest]
    BY <2>3, RequestedType DEF AvailabilityInv
  <2>5. asked' \subseteq Jobs \X Decisions \X Actors
    <3>1. asked \subseteq Jobs \X Decisions \X Actors
      BY DEF AvailabilityInv, TypeOK
    <3>2. <<r, d, x>> \in Jobs \X Decisions \X Actors
      OBVIOUS
    <3> QED BY <1>7, <3>1, <3>2
  <2>6. superseded' \subseteq Decisions /\ away' \subseteq Actors
    BY <1>7 DEF AvailabilityInv, TypeOK
  <2> HIDE <2>3
  <2> QED BY <1>7, <2>4, <2>5, <2>6 DEF AvailabilityInv, TypeOK
<1> QED BY <1>6, <1>7, <1>9, <1>10, <1>12, <1>13, <1>14, EffectStep

\* What the record of a row does to a cohort.
LEMMA CohortType ==
  ASSUME TypeOK, NEW r \in Jobs, NEW d \in Decisions, NEW row \in Row, Record(r, d, row)
  PROVE  cohort' \in [Decisions -> SUBSET Actors]
<1>1. cohort \in [Decisions -> SUBSET Actors] /\ row.actor \in Actors \cup {NoActor}
  BY DEF TypeOK, Row
<1>2. PICK c \in SUBSET Actors : c = IF row.actor = NoActor THEN cohort[d]
                                     ELSE (cohort[d] \ {Absentee}) \cup {row.actor}
  BY <1>1
<1>3. cohort' = [cohort EXCEPT ![d] = c]
  BY <1>2 DEF Record
<1> QED BY <1>1, <1>3

\* What an outcome is recorded with.
LEMMA WellFormedRow ==
  ASSUME NEW row \in Row, row.outcome \in Outcomes, WellFormed(row)
  PROVE  /\ row.state # "none"
         /\ row.state = "finalizer_pending" <=> HasFinalizer(row.outcome)
BY DEF WellFormed, ExpectedState, HasFinalizer, Outcomes

\* A row that is accepted is on record afterwards, with its outcome.
LEMMA AcceptedRow ==
  ASSUME AvailabilityInv, NEW r \in Jobs, NEW d \in Decisions, NEW row \in Row,
         RowFounded(r, d, row), row.state # "none",
         row.state = "finalizer_pending" => HasFinalizer(row.outcome),
         \/ RetryMatches(r, d, row) /\ UNCHANGED <<history, cohort>>
         \/ history[r][d] = NoRow /\ Record(r, d, row)
         \/ /\ history[r][d] = NoRow /\ UNCHANGED cohort
            /\ history' = [history EXCEPT ![r][d] = row],
         UNCHANGED <<intent, asked, ran>>
  PROVE  /\ Grows /\ RecordsSound' /\ history' \in [Jobs -> [Decisions -> Row]]
         /\ cohort' \in [Decisions -> SUBSET Actors]
         /\ history'[r][d].outcome = row.outcome
<1>1. CASE RetryMatches(r, d, row) /\ UNCHANGED <<history, cohort>>
  <2>1. Grows
    BY <1>1 DEF Grows
  <2>2. RecordsSound'
    BY <1>1, <2>1, RecordsKept DEF AvailabilityInv
  <2>3. history[r][d] \in Row
    BY OwnRows
  <2>4. history[r][d].outcome = row.outcome
    BY <1>1, <2>3 DEF RetryMatches, Row
  <2>5. history' \in [Jobs -> [Decisions -> Row]] /\ cohort' \in [Decisions -> SUBSET Actors]
    BY <1>1 DEF AvailabilityInv, TypeOK
  <2> QED BY <1>1, <2>1, <2>2, <2>4, <2>5
<1>2. CASE history[r][d] = NoRow /\ history' = [history EXCEPT ![r][d] = row]
           /\ (Record(r, d, row) \/ UNCHANGED cohort)
  <2>1. cohort' \in [Decisions -> SUBSET Actors]
    BY <1>2, CohortType DEF AvailabilityInv, TypeOK
  <2> QED BY <1>2, <2>1, RecordedRow
<1> QED BY <1>1, <1>2 DEF Record

\* The attempt is done with its decision.
LEMMA ProcessedNext ==
  ASSUME Grows, NEW a \in Attempt, AttemptSound(a), a.step # "idle"
  PROVE  /\ Processed(a) \in Attempt /\ Processed(a).step = "next"
         /\ AttemptSound(Processed(a))'
<1>1. PICK next : next = Processed(a)
  OBVIOUS
<1>2. /\ next \in Attempt /\ next.step = "next" /\ next.job = a.job
      /\ next.open \subseteq a.open /\ next.todo = a.todo /\ next.from = a.from
  BY <1>1 DEF Processed, Attempt, AttemptSteps, DatabaseSteps
<1>3. next.step \in FreeSteps
  BY <1>2 DEF FreeSteps
<1>4. AttemptSound(next)'
  BY <1>2, <1>3, FreeNext
<1> QED BY <1>1, <1>2, <1>4

\* What the record of a row leaves of the types.
LEMMA RecordType ==
  ASSUME TypeOK, history' \in [Jobs -> [Decisions -> Row]],
         cohort' \in [Decisions -> SUBSET Actors],
         UNCHANGED <<job, absence, connection, world, policy, intent, payload, lastError,
                     late, ghosts>>
  PROVE  attempt' \in [Workers -> Attempt] => TypeOK'
BY DEF TypeOK, world, ghosts

LEMMA PersistKeeps ==
  ASSUME AvailabilityInv, NEW w \in Workers, NEW answered \in BOOLEAN, Persist(w, answered)
  PROVE  AvailabilityInv'
<1>1. PICK a \in Attempt : a = attempt[w] /\ AttemptSound(a) /\ a.step = "persist"
  BY OwnAttempt DEF Persist, At
<1>2. PICK r \in Jobs, d \in Decisions, row \in Row :
        r = a.job /\ d = a.decision /\ row = a.row /\ RowFounded(r, d, row)
  <2>1. a.job \in Jobs /\ a.decision \in Decisions /\ RowFounded(a.job, a.decision, a.row)
    BY <1>1 DEF AttemptSound, DecisionSteps, RowSteps
  <2> QED BY <2>1 DEF Attempt
<1>3. PICK next : next = IF row.state = "finalizer_pending"
                         THEN [a EXCEPT !.step = "finalize"] ELSE Processed(a)
  OBVIOUS
<1>4. /\ WellFormed(row) /\ Accepts(r, d, row)
      /\ IF history[r][d] # NoRow THEN UNCHANGED <<history, cohort>> ELSE Record(r, d, row)
      /\ Proceed(w, Answered(attempt[w], next, answered))
      /\ UNCHANGED <<job, absence, connection, world, policy, intent, payload, lastError,
                     late, ghosts>>
  BY <1>1, <1>2, <1>3 DEF Persist
<1>5. row.state # "none" /\ (row.state = "finalizer_pending" <=> HasFinalizer(row.outcome))
  BY <1>2, <1>4, WellFormedRow DEF RowFounded
<1>6. /\ Grows /\ RecordsSound' /\ history' \in [Jobs -> [Decisions -> Row]]
      /\ cohort' \in [Decisions -> SUBSET Actors] /\ history'[r][d].outcome = row.outcome
  <2>1. \/ RetryMatches(r, d, row) /\ UNCHANGED <<history, cohort>>
        \/ history[r][d] = NoRow /\ Record(r, d, row)
    BY <1>4 DEF Accepts
  <2>2. UNCHANGED <<intent, asked, ran>>
    BY <1>4 DEF ghosts
  <2> QED BY <1>2, <1>5, <2>1, <2>2, AcceptedRow
<1>7. next \in Attempt /\ AttemptSound(next)' /\ next.step \notin MutationSteps
  <2>1. CASE row.state = "finalizer_pending"
    <3>1. /\ next \in Attempt /\ next.step = "finalize" /\ next.job = a.job
          /\ next.decision = a.decision /\ next.row = a.row /\ next.open = a.open
          /\ next.todo = a.todo /\ next.from = a.from
      BY <1>3, <2>1 DEF Attempt, AttemptSteps, DatabaseSteps
    <3>2. HasFinalizer(history'[a.job][a.decision].outcome) /\ a.step \in RowSteps
      BY <1>1, <1>2, <1>5, <1>6, <2>1 DEF RowSteps
    <3>3. AttemptSound(next)'
      BY <1>1, <1>6, <3>1, <3>2, FinalizerNext
    <3> QED BY <3>1, <3>3 DEF MutationSteps
  <2>2. CASE row.state # "finalizer_pending"
    <3>1. next = Processed(a)
      BY <1>3, <2>2
    <3>2. next \in Attempt /\ next.step = "next" /\ AttemptSound(next)'
      BY <1>1, <1>6, <3>1, ProcessedNext
    <3> QED BY <3>2 DEF MutationSteps
  <2> QED BY <2>1, <2>2
<1>8. attempt' \in [Workers -> Attempt] => TypeOK'
  BY <1>4, <1>6, RecordType DEF AvailabilityInv
<1>9. ~At(w, "idle")
  BY <1>1 DEF At
<1> QED BY <1>4, <1>6, <1>7, <1>8, <1>9, EffectStep

\* What the policy says of a pull request.
LEMMA EvaluatedType ==
  ASSUME TypeOK, NEW d \in Decisions PROVE Evaluated(d) \in Verdicts
BY DEF TypeOK, Evaluated, Verdicts

LEMMA FinalizeKeeps ==
  ASSUME AvailabilityInv, NEW w \in Workers, NEW answered \in BOOLEAN, Finalize(w, answered)
  PROVE  AvailabilityInv'
<1>1. PICK a \in Attempt : a = attempt[w] /\ AttemptSound(a) /\ a.step = "finalize"
  BY OwnAttempt DEF Finalize, At
<1>2. PICK r \in Jobs, d \in Decisions :
        r = a.job /\ d = a.decision /\ HasFinalizer(history[r][d].outcome)
  BY <1>1 DEF AttemptSound, DecisionSteps
<1>3. PICK next : next = [a EXCEPT !.step = "complete"]
  OBVIOUS
<1>4. /\ ran' = ran \cup {<<r, d>>}
      /\ policy' = [policy EXCEPT ![d] = IF a.row.outcome = "no_replacement_available"
                                         THEN "failure" ELSE Evaluated(d)]
      /\ Proceed(w, Answered(attempt[w], next, answered))
      /\ UNCHANGED <<job, absence, connection, world, cohort, intent, history, payload,
                     lastError, late, asked>>
  BY <1>1, <1>2, <1>3 DEF Finalize
<1>5. Grows
  BY <1>4 DEF Grows
<1>6. RecordsSound'
  BY <1>4, <1>5, RecordsKept DEF AvailabilityInv
<1>7. /\ next \in Attempt /\ next.step = "complete" /\ next.job = a.job
      /\ next.decision = a.decision /\ next.row = a.row /\ next.open = a.open
      /\ next.todo = a.todo /\ next.from = a.from
  BY <1>3 DEF Attempt, AttemptSteps, DatabaseSteps
<1>8. AttemptSound(next)'
  <2>1. HasFinalizer(history'[a.job][a.decision].outcome) /\ <<a.job, a.decision>> \in ran'
    BY <1>2, <1>4
  <2>2. a.step \in RowSteps
    BY <1>1 DEF RowSteps
  <2> QED BY <1>1, <1>5, <1>7, <2>1, <2>2, FinalizerNext
<1>9. attempt' \in [Workers -> Attempt] => TypeOK'
  <2>1. policy \in [Decisions -> Verdicts] /\ Evaluated(d) \in Verdicts
    BY EvaluatedType DEF AvailabilityInv, TypeOK
  <2>2. policy' \in [Decisions -> Verdicts]
    BY <1>4, <2>1 DEF Verdicts
  <2>3. ran' \subseteq Jobs \X Decisions
    <3>1. ran \subseteq Jobs \X Decisions
      BY DEF AvailabilityInv, TypeOK
    <3> QED BY <1>4, <3>1
  <2> QED BY <1>4, <2>2, <2>3 DEF AvailabilityInv, TypeOK, world
<1>10. ~At(w, "idle") /\ next.step \notin MutationSteps
  BY <1>1, <1>7 DEF At, MutationSteps
<1> QED BY <1>4, <1>5, <1>6, <1>7, <1>8, <1>9, <1>10, EffectStep

LEMMA CompleteKeeps ==
  ASSUME AvailabilityInv, NEW w \in Workers, NEW answered \in BOOLEAN, Complete(w, answered)
  PROVE  AvailabilityInv'
<1>1. PICK a \in Attempt : a = attempt[w] /\ AttemptSound(a) /\ a.step = "complete"
  BY OwnAttempt DEF Complete, At
<1>2. PICK r \in Jobs, d \in Decisions : r = a.job /\ d = a.decision
  BY <1>1 DEF AttemptSound, DecisionSteps
<1>3. PICK next : next = AfterRow(a)
  OBVIOUS
<1>4. /\ history[r][d].state \in {"finalizer_pending", "completed"}
      /\ history' = [history EXCEPT ![r][d].state = "completed"]
      /\ Proceed(w, Answered(attempt[w], next, answered))
      /\ UNCHANGED <<job, absence, connection, world, policy, cohort, intent, payload,
                     lastError, late, ghosts>>
  BY <1>1, <1>2, <1>3 DEF Complete
<1>5. Grows /\ RecordsSound' /\ history' \in [Jobs -> [Decisions -> Row]]
  <2>1. UNCHANGED <<intent, asked, ran>>
    BY <1>4 DEF ghosts
  <2> QED BY <1>4, <2>1, CompletedRow
<1>6. next \in Attempt /\ AttemptSound(next)' /\ next.step \notin MutationSteps
  <2>1. CASE a.from = "candidate"
    <3>1. next = Processed(a)
      BY <1>3, <2>1 DEF AfterRow
    <3>2. next \in Attempt /\ next.step = "next" /\ AttemptSound(next)'
      BY <1>1, <1>5, <3>1, ProcessedNext
    <3> QED BY <3>2 DEF MutationSteps
  <2>2. CASE a.from # "candidate"
    <3>1. PICK s \in {"replay", "list finalizers"} :
            next = [a EXCEPT !.step = s] /\ (s = "replay" => a.from = "replay")
      BY <1>3, <2>2 DEF AfterRow, RecoveryStep
    <3>2. s \in AttemptSteps /\ s \in FreeSteps /\ s \notin MutationSteps
      BY DEF AttemptSteps, DatabaseSteps, FreeSteps, MutationSteps
    <3>3. /\ next \in Attempt /\ next.step = s /\ next.job = a.job /\ next.open = a.open
          /\ next.todo = a.todo /\ next.from = a.from
      BY <3>1, <3>2 DEF Attempt
    <3>4. AttemptSound(next)'
      BY <1>1, <1>5, <3>1, <3>2, <3>3, FreeNext
    <3> QED BY <3>2, <3>3, <3>4
  <2> QED BY <2>1, <2>2
<1>7. attempt' \in [Workers -> Attempt] => TypeOK'
  BY <1>4, <1>5 DEF AvailabilityInv, TypeOK, world, ghosts
<1>8. ~At(w, "idle")
  BY <1>1 DEF At
<1> QED BY <1>4, <1>5, <1>6, <1>7, <1>8, EffectStep

\* A row that is audited is a permanent failure whose intent exists.
LEMMA AuditedRow ==
  ASSUME AvailabilityInv, NEW r \in Jobs, NEW d \in Decisions, NEW row \in Row,
         row.outcome = "permanent_failure", row.state = "permanent_failure",
         row.linked => intent[r][d] # NoActor, Audited(r, d, row),
         UNCHANGED <<intent, asked, ran, cohort>>
  PROVE  /\ Grows /\ RecordsSound' /\ history' \in [Jobs -> [Decisions -> Row]]
         /\ cohort' \in [Decisions -> SUBSET Actors]
         /\ history'[r][d].outcome = row.outcome
<1>1. RowFounded(r, d, row)
  BY DEF RowFounded, Outcomes
<1>2. \/ RetryMatches(r, d, row) /\ UNCHANGED <<history, cohort>>
      \/ /\ history[r][d] = NoRow /\ UNCHANGED cohort
         /\ history' = [history EXCEPT ![r][d] = row]
  BY DEF Audited, RetryMatches
<1> QED BY <1>1, <1>2, AcceptedRow

LEMMA AuditKeeps ==
  ASSUME AvailabilityInv, NEW w \in Workers, NEW answered \in BOOLEAN, Audit(w, answered)
  PROVE  AvailabilityInv'
<1>1. PICK a \in Attempt : a = attempt[w] /\ AttemptSound(a) /\ a.step = "audit"
  BY OwnAttempt DEF Audit, At
<1>2. PICK r \in Jobs, d \in Decisions, row \in Row :
        /\ r = a.job /\ d = a.decision /\ row = a.row /\ RowFounded(r, d, row)
        /\ row.outcome = "permanent_failure" /\ row.state = "permanent_failure"
  <2>1. /\ a.job \in Jobs /\ a.decision \in Decisions /\ RowFounded(a.job, a.decision, a.row)
        /\ a.row.outcome = "permanent_failure" /\ a.row.state = "permanent_failure"
    BY <1>1 DEF AttemptSound, DecisionSteps, RowSteps
  <2> QED BY <2>1 DEF Attempt
<1>3. PICK next : next = [a EXCEPT !.step = "next intent", !.open = @ \ {a.decision}]
  OBVIOUS
<1>4. /\ Audited(r, d, row) /\ Proceed(w, Answered(attempt[w], next, answered))
      /\ UNCHANGED <<job, absence, connection, world, policy, cohort, intent, payload,
                     lastError, late, ghosts>>
  BY <1>1, <1>2, <1>3 DEF Audit
<1>5. /\ Grows /\ RecordsSound' /\ history' \in [Jobs -> [Decisions -> Row]]
      /\ cohort' \in [Decisions -> SUBSET Actors]
  <2>1. UNCHANGED <<intent, asked, ran, cohort>>
    BY <1>4 DEF ghosts
  <2>2. row.linked => intent[r][d] # NoActor
    BY <1>2 DEF RowFounded
  <2> QED BY <1>2, <1>4, <2>1, <2>2, AuditedRow
<1>6. /\ next \in Attempt /\ next.step = "next intent" /\ next.job = a.job
      /\ next.open \subseteq a.open /\ next.todo = a.todo /\ next.from = a.from
  BY <1>3 DEF Attempt, AttemptSteps
<1>7. AttemptSound(next)'
  BY <1>1, <1>5, <1>6, FreeNext DEF FreeSteps
<1>8. attempt' \in [Workers -> Attempt] => TypeOK'
  BY <1>4, <1>5, RecordType DEF AvailabilityInv
<1>9. ~At(w, "idle") /\ next.step \notin MutationSteps
  BY <1>1, <1>6 DEF At, MutationSteps
<1> QED BY <1>4, <1>5, <1>6, <1>7, <1>8, <1>9, EffectStep

\* The row of a recovery is recorded, with its cohort, or it was already.
LEMMA RecoverPersistKeeps ==
  ASSUME AvailabilityInv, NEW w \in Workers, NEW answered \in BOOLEAN,
         RecoverPersist(w, answered)
  PROVE  AvailabilityInv'
<1>1. PICK a \in Attempt : a = attempt[w] /\ AttemptSound(a) /\ a.step = "recover persist"
  BY OwnAttempt DEF RecoverPersist, At
<1>2. PICK r \in Jobs, d \in Decisions, row \in Row :
        /\ r = a.job /\ d = a.decision /\ row = a.row /\ RowFounded(r, d, row)
        /\ WellFormed(row)
  <2>1. /\ a.job \in Jobs /\ a.decision \in Decisions
        /\ RecoveryFounded(a.job, a.decision, a.row, "persist_replacement")
    BY <1>1 DEF AttemptSound, DecisionSteps
  <2> QED BY <2>1 DEF Attempt, RecoveryFounded
<1>3. PICK next : next = [a EXCEPT !.step = RecoveryStep(IF HasFinalizer(row.outcome)
                                                         THEN "run_finalizer" ELSE "none")]
  OBVIOUS
<1>4. /\ IF row.outcome = "permanent_failure"
         THEN Audited(r, d, row) /\ UNCHANGED cohort
         ELSE /\ Accepts(r, d, row)
              /\ IF history[r][d] # NoRow THEN UNCHANGED <<history, cohort>>
                 ELSE Record(r, d, row)
      /\ Proceed(w, Answered(attempt[w], next, answered))
      /\ UNCHANGED <<job, absence, connection, world, policy, intent, payload, lastError,
                     late, ghosts>>
  BY <1>1, <1>2, <1>3 DEF RecoverPersist
<1>5. row.state # "none" /\ (row.state = "finalizer_pending" <=> HasFinalizer(row.outcome))
  BY <1>2, WellFormedRow DEF RowFounded
<1>6. /\ Grows /\ RecordsSound' /\ history' \in [Jobs -> [Decisions -> Row]]
      /\ cohort' \in [Decisions -> SUBSET Actors] /\ history'[r][d].outcome = row.outcome
  <2>1. \/ RetryMatches(r, d, row) /\ UNCHANGED <<history, cohort>>
        \/ history[r][d] = NoRow /\ Record(r, d, row)
        \/ /\ history[r][d] = NoRow /\ UNCHANGED cohort
           /\ history' = [history EXCEPT ![r][d] = row]
    BY <1>4 DEF Accepts, Audited, RetryMatches
  <2>2. UNCHANGED <<intent, asked, ran>>
    BY <1>4 DEF ghosts
  <2> QED BY <1>2, <1>5, <2>1, <2>2, AcceptedRow
<1>7. next \in Attempt /\ AttemptSound(next)' /\ next.step \notin MutationSteps
  <2>1. PICK s \in {"finalize", "list finalizers"} :
          next = [a EXCEPT !.step = s] /\ (s = "finalize" => HasFinalizer(row.outcome))
    BY <1>3 DEF RecoveryStep
  <2>2. s \in AttemptSteps /\ s \notin MutationSteps
    BY DEF AttemptSteps, DatabaseSteps, MutationSteps
  <2>3. /\ next \in Attempt /\ next.step = s /\ next.job = a.job
        /\ next.decision = a.decision /\ next.row = a.row /\ next.open = a.open
        /\ next.todo = a.todo /\ next.from = a.from
    BY <2>1, <2>2 DEF Attempt
  <2>4. AttemptSound(next)'
    <3>1. CASE s = "finalize"
      <4>1. HasFinalizer(history'[a.job][a.decision].outcome) /\ a.step \in RowSteps
        BY <1>1, <1>2, <1>6, <2>1, <3>1 DEF RowSteps
      <4> QED BY <1>1, <1>6, <2>3, <3>1, <4>1, FinalizerNext
    <3>2. CASE s = "list finalizers"
      BY <1>1, <1>6, <2>3, <3>2, FreeNext DEF FreeSteps
    <3> QED BY <3>1, <3>2
  <2> QED BY <2>2, <2>3, <2>4
<1>8. attempt' \in [Workers -> Attempt] => TypeOK'
  BY <1>4, <1>6, RecordType DEF AvailabilityInv
<1>9. ~At(w, "idle")
  BY <1>1 DEF At
<1> QED BY <1>4, <1>6, <1>7, <1>8, <1>9, EffectStep

LEMMA RecoverAuditKeeps ==
  ASSUME AvailabilityInv, NEW w \in Workers, NEW answered \in BOOLEAN,
         RecoverAudit(w, answered)
  PROVE  AvailabilityInv'
<1>1. PICK a \in Attempt : a = attempt[w] /\ AttemptSound(a) /\ a.step = "recover audit"
  BY OwnAttempt DEF RecoverAudit, At
<1>2. PICK r \in Jobs, d \in Decisions, row \in Row :
        r = a.job /\ d = a.decision /\ row = AuditOf(a.row)
        /\ row.outcome = "permanent_failure" /\ row.state = "permanent_failure"
        /\ (row.linked => intent[r][d] # NoActor)
  <2>1. a.job \in Jobs /\ a.decision \in Decisions /\ RowFounded(a.job, a.decision, a.row)
        /\ a.row \in Row
    BY <1>1 DEF AttemptSound, DecisionSteps, RowSteps, Attempt
  <2>2. /\ AuditOf(a.row) \in Row /\ AuditOf(a.row).outcome = "permanent_failure"
        /\ AuditOf(a.row).state = "permanent_failure" /\ AuditOf(a.row).linked = a.row.linked
    BY <2>1 DEF AuditOf, Row, Outcomes, RowState
  <2> QED BY <2>1, <2>2 DEF RowFounded
<1>3. PICK next : next = [a EXCEPT !.step = "list finalizers"]
  OBVIOUS
<1>4. /\ Audited(r, d, row) /\ Proceed(w, Answered(attempt[w], next, answered))
      /\ UNCHANGED <<job, absence, connection, world, policy, cohort, intent, payload,
                     lastError, late, ghosts>>
  BY <1>1, <1>2, <1>3 DEF RecoverAudit
<1>5. /\ Grows /\ RecordsSound' /\ history' \in [Jobs -> [Decisions -> Row]]
      /\ cohort' \in [Decisions -> SUBSET Actors]
  <2>1. UNCHANGED <<intent, asked, ran, cohort>>
    BY <1>4 DEF ghosts
  <2> QED BY <1>2, <1>4, <2>1, AuditedRow
<1>6. /\ next \in Attempt /\ next.step = "list finalizers" /\ next.job = a.job
      /\ next.open = a.open /\ next.todo = a.todo /\ next.from = a.from
  BY <1>3 DEF Attempt, AttemptSteps, DatabaseSteps
<1>7. AttemptSound(next)'
  BY <1>1, <1>5, <1>6, FreeNext DEF FreeSteps
<1>8. attempt' \in [Workers -> Attempt] => TypeOK'
  BY <1>4, <1>5, RecordType DEF AvailabilityInv
<1>9. ~At(w, "idle") /\ next.step \notin MutationSteps
  BY <1>1, <1>6 DEF At, MutationSteps
<1> QED BY <1>4, <1>5, <1>6, <1>7, <1>8, <1>9, EffectStep

-----------------------------------------------------------------------------
(* Jobs that are claimed, settled, lost and taken back *)

\* One job changes, and still runs if somebody holds it.
LEMMA JobUpdate ==
  ASSUME TypeOK, HeldJobRuns, NEW r \in Jobs, NEW j \in Queued,
         j.holder # Nobody => j.status = "running", job' = [job EXCEPT ![r] = j]
  PROVE  /\ job' \in [Jobs -> Queued] /\ HeldJobRuns'
         /\ \A q \in Jobs : q # r => job'[q] = job[q]
         /\ job'[r] = j
<1>1. job \in [Jobs -> Queued]
  BY DEF TypeOK
<1> QED BY <1>1 DEF HeldJobRuns

LEMMA SubmitJob ==
  ASSUME TypeOK, HeldJobRuns, NEW r \in Jobs, Submit(r)
  PROVE  job' \in [Jobs -> Queued] /\ HeldJobRuns'
<1>1. PICK j : j = [job[r] EXCEPT !.status = "queued"]
  OBVIOUS
<1>2. job[r] \in Queued /\ job[r].status = "absent" /\ job[r].holder = Nobody
  BY DEF TypeOK, HeldJobRuns, Submit
<1>3. j \in Queued /\ j.holder = Nobody
  BY <1>1, <1>2 DEF Queued
<1>4. job' = [job EXCEPT ![r] = j]
  BY <1>1 DEF Submit
<1> QED BY <1>3, <1>4, JobUpdate

LEMMA AcquireJob ==
  ASSUME TypeOK, HeldJobRuns, NEW w \in Workers, NEW r \in Jobs, Acquire(w, r)
  PROVE  /\ job' \in [Jobs -> Queued] /\ HeldJobRuns' /\ job[r].holder = Nobody
         /\ \A q \in Jobs : q # r => job'[q] = job[q]
<1>1. PICK j : j = [job[r] EXCEPT !.status = "running", !.holder = w, !.attempt = @ + 1]
  OBVIOUS
<1>2. job[r] \in Queued /\ job[r].status = "queued" /\ job[r].holder = Nobody
  BY DEF TypeOK, HeldJobRuns, Acquire
<1>3. job[r].attempt + 1 \in Nat
  BY <1>2 DEF Queued
<1>4. j \in Queued /\ j.status = "running"
  BY <1>1, <1>2, <1>3 DEF Queued
<1>5. job' = [job EXCEPT ![r] = j]
  BY <1>1 DEF Acquire
<1> QED BY <1>2, <1>4, <1>5, JobUpdate

\* Whoever settles, gives back or loses a job no longer holds it.
LEMMA ReleaseJob ==
  ASSUME TypeOK, HeldJobRuns, NEW r \in Jobs,
         \/ \E w \in Workers : \E outcome \in {"succeeded", "failed"} : Conclude(w, r, outcome)
         \/ \E w \in Workers : \E max \in Nat : GiveBack(w, r, max)
         \/ Vanish(r)
  PROVE  /\ job' \in [Jobs -> Queued] /\ HeldJobRuns'
         /\ \A q \in Jobs : q # r => job'[q] = job[q]
<1>1. job[r] \in Queued
  BY DEF TypeOK
<1>2. ASSUME NEW w \in Workers, NEW outcome \in {"succeeded", "failed"}, Conclude(w, r, outcome)
      PROVE  \E j \in Queued : j.holder = Nobody /\ job' = [job EXCEPT ![r] = j]
  <2>1. PICK j : j = [job[r] EXCEPT !.status = outcome, !.holder = Nobody]
    OBVIOUS
  <2>2. j \in Queued /\ j.holder = Nobody
    BY <1>1, <2>1 DEF Queued
  <2>3. job' = [job EXCEPT ![r] = j]
    BY <1>2, <2>1 DEF Conclude
  <2> QED BY <2>2, <2>3
<1>3. ASSUME NEW w \in Workers, NEW max \in Nat, GiveBack(w, r, max)
      PROVE  \E j \in Queued : j.holder = Nobody /\ job' = [job EXCEPT ![r] = j]
  <2>1. PICK j : j = [job[r] EXCEPT !.status = "queued", !.holder = Nobody, !.max = max]
    OBVIOUS
  <2>2. j \in Queued /\ j.holder = Nobody
    BY <1>1, <2>1 DEF Queued
  <2>3. job' = [job EXCEPT ![r] = j]
    BY <1>3, <2>1 DEF GiveBack
  <2> QED BY <2>2, <2>3
<1>4. ASSUME Vanish(r)
      PROVE  \E j \in Queued : j.holder = Nobody /\ job' = [job EXCEPT ![r] = j]
  <2>1. PICK j : j = [job[r] EXCEPT !.holder = Nobody]
    OBVIOUS
  <2>2. j \in Queued /\ j.holder = Nobody
    BY <1>1, <2>1 DEF Queued
  <2>3. job' = [job EXCEPT ![r] = j]
    BY <1>4, <2>1 DEF Vanish
  <2> QED BY <2>2, <2>3
<1>5. PICK j \in Queued : j.holder = Nobody /\ job' = [job EXCEPT ![r] = j]
  BY <1>2, <1>3, <1>4
<1> QED BY <1>5, JobUpdate

LEMMA ExpireJob ==
  ASSUME TypeOK, HeldJobRuns, NEW r \in Jobs, Expire({r})
  PROVE  job' \in [Jobs -> Queued] /\ HeldJobRuns'
<1>1. PICK j : j = [job[r] EXCEPT !.holder = Nobody,
                      !.status = IF job[r].attempt < job[r].max THEN "queued" ELSE "failed"]
  OBVIOUS
<1>2. job[r] \in Queued /\ job \in [Jobs -> Queued]
  BY DEF TypeOK
<1>3. j \in Queued /\ j.holder = Nobody
  BY <1>1, <1>2 DEF Queued
<1>4. job' = [job EXCEPT ![r] = j]
  BY <1>1, <1>2 DEF Expire
<1> QED BY <1>3, <1>4, JobUpdate

\* The worker has come to rest, and the tables have grown at most.
LEMMA RestStep ==
  ASSUME AvailabilityInv, NEW w \in Workers, Rest(w), Grows, RecordsSound', PayloadsSound',
         HeldJobRuns', MutationAuthorized', UNCHANGED late,
         attempt' \in [Workers -> Attempt] => TypeOK'
  PROVE  AvailabilityInv'
<1> USE DEF AvailabilityInv
<1>1. PICK b \in Attempt : b = NoAttempt
  BY NoAttemptType
<1>2. AttemptSound(b)'
  <2>1. AttemptSound(b)
    BY <1>1, NoAttemptSound
  <2> QED BY <2>1, AttemptGrows
<1>3. attempt' = [attempt EXCEPT ![w] = b]
  BY <1>1 DEF Rest, Proceed
<1>4. attempt' \in [Workers -> Attempt] /\ AttemptsSound'
  BY <1>2, <1>3, AttemptsKept
<1>5. RequestsSound'
  BY RequestsKept
<1> QED BY <1>4, <1>5

\* An unlocked step at whose end a worker rests.
LEMMA RestUnlocked ==
  ASSUME AvailabilityInv, NEW w \in Workers, Rest(w), Unlocked PROVE MutationAuthorized'
<1>1. NoAttempt \in Attempt /\ NoAttempt.step \notin MutationSteps
  BY NoAttemptType DEF MutationSteps
<1> QED BY <1>1, AuthorityUnlocked DEF AvailabilityInv, Rest, Proceed

LEMMA TimeOutKeeps ==
  ASSUME AvailabilityInv, NEW w \in Workers, TimeOut(w)
  PROVE  AvailabilityInv'
<1>1. PICK a \in Attempt : a = attempt[w] /\ AttemptSound(a) /\ a.step \in MutationSteps
  BY OwnAttempt DEF TimeOut
<1>2. PICK q : q = [request |-> a.step, job |-> a.job, decision |-> a.decision,
                    actor |-> a.intent]
  OBVIOUS
<1>3. PICK b : b = Caught(a)
  OBVIOUS
<1>4. /\ late' = late \cup {q} /\ attempt' = [attempt EXCEPT ![w] = b]
      /\ UNCHANGED <<job, absence, connection, world, policy, cohort, intent, history,
                     payload, lastError, ghosts>>
  BY <1>1, <1>2, <1>3 DEF TimeOut, Proceed
<1>5. q \in LateRequest /\ LateSound(q)
  <2>1. /\ a.job \in Jobs /\ a.decision \in Decisions /\ a.intent # NoActor
        /\ intent[a.job][a.decision] = a.intent
    BY <1>1 DEF AttemptSound, DecisionSteps, PlanSteps, MutationSteps
  <2>2. a.intent \in Actors
    BY <2>1 DEF Attempt
  <2> QED BY <1>1, <1>2, <2>1, <2>2 DEF LateRequest, LateSound
<1>6. Grows
  BY <1>4 DEF Grows, ghosts
<1>7. b \in Attempt /\ AttemptSound(b)' /\ b.step \notin MutationSteps
  <2>1. b \in Attempt /\ AttemptSound(b) /\ b.step = "caught"
    BY <1>1, <1>3, CaughtNext DEF MutationSteps
  <2> QED BY <1>6, <2>1, AttemptGrows DEF MutationSteps
<1>8. attempt' \in [Workers -> Attempt] /\ AttemptsSound'
  BY <1>4, <1>6, <1>7, AttemptsKept DEF AvailabilityInv
<1>9. RecordsSound' /\ PayloadsSound'
  BY <1>4, <1>6, RecordsKept, PayloadsKept DEF AvailabilityInv
<1>10. RequestsSound'
  BY <1>4, <1>5 DEF AvailabilityInv, RequestsSound, LateSound
<1>11. TypeOK'
  BY <1>4, <1>5, <1>8 DEF AvailabilityInv, TypeOK, world, ghosts
<1>12. HeldJobRuns'
  BY <1>4 DEF AvailabilityInv, HeldJobRuns
<1>13. MutationAuthorized'
  BY <1>4, <1>7, AuthorityKept DEF AvailabilityInv
<1> QED BY <1>8, <1>9, <1>10, <1>11, <1>12, <1>13 DEF AvailabilityInv

\* GitHub serves a request of an actor whose intent is on record.
LEMMA LandKeeps ==
  ASSUME AvailabilityInv, NEW q \in late, Land(q)
  PROVE  AvailabilityInv'
<1>1. /\ late' = late \ {q}
      /\ UNCHANGED <<job, absence, connection, superseded, away, policy, cohort, intent,
                     history, payload, lastError, attempt, ran>>
  BY DEF Land
<1>2. q.job \in Jobs /\ q.decision \in Decisions /\ q.actor \in Actors
  BY DEF AvailabilityInv, TypeOK, LateRequest
<1>3. pull' \in [Decisions -> PullRequest]
  <2>1. pull[q.decision].requested \subseteq Actors /\ pull \in [Decisions -> PullRequest]
    BY <1>2 DEF AvailabilityInv, TypeOK, PullRequest
  <2>2. Absentee \in Actors
    BY AvailabilityAssumption
  <2>3. PICK requested \in SUBSET Actors :
          pull' = [pull EXCEPT ![q.decision].requested = requested]
    <3>1. CASE q.request = "remove"
      BY <2>1, <3>1 DEF Land
    <3>2. CASE q.request # "remove"
      BY <1>2, <2>1, <3>2 DEF Land
    <3> QED BY <3>1, <3>2
  <2> QED BY <1>2, <2>3, RequestedType DEF AvailabilityInv
<1>4. asked \subseteq asked' /\ asked' \subseteq Jobs \X Decisions \X Actors
  <2>1. asked \subseteq Jobs \X Decisions \X Actors
    BY DEF AvailabilityInv, TypeOK
  <2> QED BY <1>2, <2>1 DEF Land
<1>5. Grows
  BY <1>1, <1>4 DEF Grows
<1>6. AttemptsSound' /\ RecordsSound' /\ PayloadsSound' /\ RequestsSound'
  <2>1. late' \subseteq late
    BY <1>1
  <2> QED BY <1>1, <1>5, <2>1, OthersKept, RecordsKept, PayloadsKept, RequestsKept
             DEF AvailabilityInv
<1>7. TypeOK'
  BY <1>1, <1>3, <1>4 DEF AvailabilityInv, TypeOK
<1>8. HeldJobRuns' /\ MutationAuthorized'
  BY <1>1 DEF AvailabilityInv, HeldJobRuns, MutationAuthorized, Authorized, HoldsJob, Current
<1> QED BY <1>6, <1>7, <1>8 DEF AvailabilityInv

\* A claimed attempt starts from what the payload says.
LEMMA ClaimKeeps ==
  ASSUME AvailabilityInv, NEW w \in Workers, NEW r \in Jobs, Claim(w, r)
  PROVE  AvailabilityInv'
<1>1. /\ At(w, "idle") /\ Acquire(w, r)
      /\ UNCHANGED <<absence, connection, world, policy, cohort, intent, history, payload,
                     lastError, late, ghosts>>
  BY DEF Claim
<1>2. PICK next : next = [NoAttempt EXCEPT
        !.step = FirstStep(r), !.from = "recover", !.job = r, !.number = job[r].attempt + 1,
        !.max = job[r].max, !.bounded = payload[r].phase # "none",
        !.phase = payload[r].phase, !.decision = payload[r].decision, !.row = payload[r].row,
        !.effects = payload[r].phase # "none"]
  OBVIOUS
<1>3. PICK phase \in Phases \cup {"none"}, d \in Decisions \cup {0}, row \in Row :
        phase = payload[r].phase /\ d = payload[r].decision /\ row = payload[r].row
  BY DEF AvailabilityInv, TypeOK, Recovery
<1>4. phase # "none" => d \in Decisions /\ RecoveryFounded(r, d, row, phase)
  BY <1>3 DEF AvailabilityInv, PayloadsSound, PayloadSound
<1>5. PICK s : s = FirstStep(r)
  OBVIOUS
<1>6. /\ s = "list finalizers" <=> phase = "none"
      /\ s = "recover persist" <=> phase = "persist_replacement"
      /\ s \in {"list finalizers", "recover persist", "recover load"}
  BY <1>3, <1>5 DEF FirstStep, Phases
<1>7. job[r] \in Queued
  BY DEF AvailabilityInv, TypeOK
<1>8. job[r].attempt + 1 \in Nat /\ job[r].max \in Nat
  BY <1>7 DEF Queued
<1>9. /\ next \in Attempt /\ next.step = s /\ next.from = "recover" /\ next.job = r
      /\ next.phase = phase /\ next.decision = d /\ next.row = row /\ next.open = {}
  <2>1. s \in AttemptSteps
    BY <1>6 DEF AttemptSteps, DatabaseSteps
  <2>2. PICK bounded \in BOOLEAN, number \in Nat, max \in Nat :
          /\ bounded = (phase # "none") /\ number = job[r].attempt + 1 /\ max = job[r].max
    BY <1>8
  <2>3. next = [NoAttempt EXCEPT !.step = s, !.from = "recover", !.job = r,
                  !.number = number, !.max = max, !.bounded = bounded, !.phase = phase,
                  !.decision = d, !.row = row, !.effects = bounded]
    BY <1>2, <1>3, <1>5, <2>2
  <2>4. NoAttempt \in Attempt /\ NoAttempt.open = {}
    BY NoAttemptType DEF NoAttempt
  <2> QED BY <2>1, <2>3, <2>4 DEF Attempt
<1>10. AttemptSound(next)
  <2>1. CASE s = "list finalizers"
    <3>1. next.step \in FreeSteps /\ next.step # "replay" /\ next.job \in Jobs
      BY <1>9, <2>1 DEF FreeSteps
    <3>2. /\ \A e \in next.open : intent[next.job][e] # NoActor
          /\ next.from # "replay"
      BY <1>9
    <3> QED BY <3>1, <3>2, FreeSound
  <2>2. CASE s = "recover persist"
    <3>1. d \in Decisions /\ RecoveryFounded(r, d, row, "persist_replacement")
      BY <1>4, <1>6, <2>2 DEF Phases
    <3> QED BY <1>9, <2>2, <3>1
               DEF AttemptSound, DecisionSteps, PlanSteps, RowSteps, RecoveryFounded
  <2>3. CASE s = "recover load"
    <3>1. /\ d \in Decisions /\ RecoveryFounded(r, d, row, phase)
          /\ phase \in {"run_finalizer", "complete_replacement"}
      BY <1>4, <1>6, <2>3 DEF Phases
    <3> QED BY <1>9, <2>3, <3>1
               DEF AttemptSound, DecisionSteps, PlanSteps, RowSteps, RecoveryFounded, Phases
  <2> QED BY <1>6, <2>1, <2>2, <2>3
<1>11. Grows
  BY <1>1 DEF Grows, ghosts
<1>12. attempt' = [attempt EXCEPT ![w] = next]
  BY <1>2 DEF Claim, Proceed
<1>13. attempt' \in [Workers -> Attempt] /\ AttemptsSound'
  <2>1. AttemptSound(next)'
    BY <1>9, <1>10, <1>11, AttemptGrows
  <2> QED BY <1>9, <1>11, <1>12, <2>1, AttemptsKept DEF AvailabilityInv
<1>14. /\ job' \in [Jobs -> Queued] /\ HeldJobRuns' /\ job[r].holder = Nobody
       /\ \A q \in Jobs : q # r => job'[q] = job[q]
  BY <1>1, AcquireJob DEF AvailabilityInv
<1>15. RecordsSound' /\ PayloadsSound' /\ RequestsSound'
  BY <1>1, <1>11, RecordsKept, PayloadsKept, RequestsKept DEF AvailabilityInv
<1>16. TypeOK'
  BY <1>1, <1>13, <1>14 DEF AvailabilityInv, TypeOK, world, ghosts
<1>17. MutationAuthorized'
  <2>1. ASSUME NEW v \in Workers, attempt'[v].step \in MutationSteps PROVE Authorized(v)'
    <3>1. attempt \in [Workers -> Attempt]
      BY TableTypes
    <3>2. v # w /\ attempt'[v] = attempt[v]
      BY <1>6, <1>9, <1>12, <2>1, <3>1 DEF MutationSteps
    <3>3. Authorized(v) /\ attempt[v].job \in Jobs
      <4>1. AttemptSound(attempt[v]) /\ attempt[v].step # "idle"
        BY <2>1, <3>2, OwnAttempt DEF MutationSteps
      <4> QED BY <2>1, <3>2, <4>1 DEF AvailabilityInv, MutationAuthorized, AttemptSound
    <3>4. attempt[v].job # r
      BY <1>14, <3>3, AvailabilityAssumption DEF Authorized, HoldsJob
    <3> QED BY <1>1, <1>14, <3>2, <3>3, <3>4 DEF Authorized, HoldsJob, Current
  <2> QED BY <2>1 DEF MutationAuthorized
<1> QED BY <1>13, <1>14, <1>15, <1>16, <1>17 DEF AvailabilityInv

LEMMA SucceedKeeps ==
  ASSUME AvailabilityInv, NEW w \in Workers, Succeed(w)
  PROVE  AvailabilityInv'
<1>1. /\ Unlocked /\ Rest(w) /\ Conclude(w, attempt[w].job, "succeeded")
      /\ UNCHANGED <<absence, connection, world, policy, cohort, intent, history, payload,
                     lastError, late, ghosts>>
  BY DEF Succeed
<1>2. attempt[w].job \in Jobs
  <2>1. AttemptSound(attempt[w]) /\ attempt[w].step = "succeed"
    BY OwnAttempt DEF Succeed, At
  <2> QED BY <2>1 DEF AttemptSound
<1>3. job' \in [Jobs -> Queued] /\ HeldJobRuns'
  BY <1>1, <1>2, ReleaseJob DEF AvailabilityInv
<1>4. Grows
  BY <1>1 DEF Grows, ghosts
<1>5. RecordsSound' /\ PayloadsSound'
  BY <1>1, <1>4, RecordsKept, PayloadsKept DEF AvailabilityInv
<1>6. attempt' \in [Workers -> Attempt] => TypeOK'
  BY <1>1, <1>3 DEF AvailabilityInv, TypeOK, world, ghosts
<1>7. MutationAuthorized' /\ UNCHANGED late
  BY <1>1, RestUnlocked
<1> QED BY <1>1, <1>3, <1>4, <1>5, <1>6, <1>7, RestStep

\* A recovery that is handed on says what the attempt knew.
LEMMA RetryKeeps ==
  ASSUME AvailabilityInv, NEW w \in Workers, Retry(w)
  PROVE  AvailabilityInv'
<1>1. PICK a \in Attempt : a = attempt[w] /\ AttemptSound(a) /\ a.step \in {"give back", "caught"}
  BY OwnAttempt DEF Retry
<1>2. PICK r \in Jobs, max \in Nat : r = a.job /\ max = NextMax(a)
  <2>1. a.job \in Jobs
    BY <1>1 DEF AttemptSound
  <2>2. a.number + RecoveryAttempts \in Nat
    <3>1. a.number \in Nat /\ RecoveryAttempts \in Nat
      BY AvailabilityAssumption DEF Attempt
    <3> QED BY <3>1
  <2>3. NextMax(a) \in Nat
    BY <2>2 DEF NextMax, Attempt
  <2> QED BY <2>1, <2>3
<1>3. /\ Unlocked /\ Rest(w) /\ GiveBack(w, r, max)
      /\ payload' = IF a.step = "caught" THEN payload
                    ELSE [payload EXCEPT ![r] = [phase |-> a.phase, decision |-> a.decision,
                                                 row |-> a.row]]
      /\ UNCHANGED <<absence, connection, world, policy, cohort, intent, history, lastError,
                     late, ghosts>>
  BY <1>1, <1>2 DEF Retry
<1>4. job' \in [Jobs -> Queued] /\ HeldJobRuns'
  BY <1>3, ReleaseJob DEF AvailabilityInv
<1>5. Grows
  BY <1>3 DEF Grows, ghosts
<1>6. RecordsSound'
  BY <1>3, <1>5, RecordsKept DEF AvailabilityInv
<1>7. payload' \in [Jobs -> Recovery] /\ PayloadsSound'
  <2>1. CASE a.step = "caught"
    BY <1>3, <1>5, <2>1, PayloadsKept DEF AvailabilityInv, TypeOK
  <2>2. CASE a.step = "give back"
    <3>1. PICK phase \in Phases, d \in Decisions, row \in Row :
            /\ phase = a.phase /\ d = a.decision /\ row = a.row
            /\ RecoveryFounded(r, d, row, phase)
      <4>1. a.phase \in Phases /\ a.decision \in Decisions
            /\ RecoveryFounded(a.job, a.decision, a.row, a.phase)
        BY <2>2, <1>1 DEF AttemptSound, DecisionSteps
      <4> QED BY <1>2, <4>1 DEF Attempt
    <3>2. PICK p : p = [phase |-> phase, decision |-> d, row |-> row]
      OBVIOUS
    <3>3. p \in Recovery
      BY <3>2 DEF Recovery
    <3>4. payload \in [Jobs -> Recovery] /\ payload' = [payload EXCEPT ![r] = p]
      BY <1>3, <2>2, <3>1, <3>2 DEF AvailabilityInv, TypeOK
    <3>5. ASSUME NEW q \in Jobs PROVE PayloadSound(q)'
      <4>1. CASE q = r
        <5>1. payload'[q] = p
          BY <3>4, <4>1
        <5>2. RecoveryFounded(q, d, row, phase)'
          BY <1>5, <3>1, <4>1, RecoveryGrows
        <5> QED BY <3>2, <5>1, <5>2 DEF PayloadSound
      <4>2. CASE q # r
        <5>1. payload'[q] = payload[q]
          BY <3>4, <4>2
        <5>2. PICK f \in Phases \cup {"none"}, e \in Decisions \cup {0}, other \in Row :
                f = payload[q].phase /\ e = payload[q].decision /\ other = payload[q].row
          BY <3>4 DEF Recovery
        <5>3. f # "none" => e \in Decisions /\ RecoveryFounded(q, e, other, f)
          BY <5>2 DEF AvailabilityInv, PayloadsSound, PayloadSound
        <5>4. f # "none" => RecoveryFounded(q, e, other, f)'
          BY <1>5, <5>3, RecoveryGrows
        <5> QED BY <5>1, <5>2, <5>3, <5>4 DEF PayloadSound
      <4> QED BY <4>1, <4>2
    <3>6. payload' \in [Jobs -> Recovery]
      BY <3>3, <3>4
    <3> QED BY <3>5, <3>6 DEF PayloadsSound
  <2> QED BY <1>1, <2>1, <2>2
<1>8. attempt' \in [Workers -> Attempt] => TypeOK'
  BY <1>3, <1>4, <1>7 DEF AvailabilityInv, TypeOK, world, ghosts
<1>9. MutationAuthorized' /\ UNCHANGED late
  BY <1>3, RestUnlocked
<1> QED BY <1>3, <1>4, <1>5, <1>6, <1>7, <1>8, <1>9, RestStep

\* What a revision leaves on record when it is given up, whole or not.
LEMMA ExhaustedRows ==
  ASSUME AvailabilityInv, NEW r \in Jobs, Exhaust(r), UNCHANGED <<intent, asked, ran>>
  PROVE  /\ Grows /\ RecordsSound' /\ history' \in [Jobs -> [Decisions -> Row]]
         /\ lastError' \in [Jobs -> {"none", "given up", "source is invalid", "isolated"}]
<1>1. lastError' \in [Jobs -> {"none", "given up", "source is invalid", "isolated"}]
  BY DEF Exhaust, AvailabilityInv, TypeOK
<1>2. CASE history' = [history EXCEPT ![r] = GivenUp(r)]
  BY <1>1, <1>2, GivenUpRows
<1>3. CASE UNCHANGED history
  <2>1. Grows
    BY <1>3 DEF Grows
  <2>2. RecordsSound'
    BY <1>3, <2>1, RecordsKept DEF AvailabilityInv
  <2> QED BY <1>1, <1>3, <2>1, <2>2, TableTypes
<1> QED BY <1>2, <1>3 DEF Exhaust

LEMMA GiveUpKeeps ==
  ASSUME AvailabilityInv, NEW w \in Workers, GiveUp(w)
  PROVE  AvailabilityInv'
<1>1. PICK r \in Jobs : r = attempt[w].job
  <2>1. AttemptSound(attempt[w]) /\ attempt[w].step # "idle"
    BY OwnAttempt DEF GiveUp
  <2> QED BY <2>1 DEF AttemptSound
<1>2. /\ Unlocked /\ Rest(w) /\ Conclude(w, r, "failed") /\ Exhaust(r)
      /\ UNCHANGED <<absence, connection, world, policy, cohort, intent, payload, late,
                     ghosts>>
  BY <1>1 DEF GiveUp
<1>3. job' \in [Jobs -> Queued] /\ HeldJobRuns'
  BY <1>2, ReleaseJob DEF AvailabilityInv
<1>4. /\ Grows /\ RecordsSound' /\ history' \in [Jobs -> [Decisions -> Row]]
      /\ lastError' \in [Jobs -> {"none", "given up", "source is invalid", "isolated"}]
  <2>1. UNCHANGED <<intent, asked, ran>>
    BY <1>2 DEF ghosts
  <2> QED BY <1>2, <2>1, ExhaustedRows
<1>5. PayloadsSound'
  BY <1>2, <1>4, PayloadsKept DEF AvailabilityInv
<1>6. attempt' \in [Workers -> Attempt] => TypeOK'
  BY <1>2, <1>3, <1>4 DEF AvailabilityInv, TypeOK, world, ghosts
<1>7. MutationAuthorized' /\ UNCHANGED late
  BY <1>2, RestUnlocked
<1> QED BY <1>2, <1>3, <1>4, <1>5, <1>6, <1>7, RestStep

\* A worker that dies while it moves a review request leaves the others alone:
\* nobody else holds its job.
LEMMA DieKeeps ==
  ASSUME AvailabilityInv, NEW w \in Workers, Die(w)
  PROVE  AvailabilityInv'
<1>1. /\ ~At(w, "idle") /\ Rest(w)
      /\ IF HoldsJob(w) THEN Vanish(attempt[w].job) ELSE UNCHANGED job
      /\ UNCHANGED <<absence, connection, world, policy, cohort, intent, history, payload,
                     lastError, late, ghosts>>
  BY DEF Die
<1>2. PICK r \in Jobs : r = attempt[w].job
  <2>1. AttemptSound(attempt[w]) /\ attempt[w].step # "idle"
    BY <1>1, OwnAttempt DEF At
  <2> QED BY <2>1 DEF AttemptSound
<1>3. /\ job' \in [Jobs -> Queued] /\ HeldJobRuns'
      /\ \A q \in Jobs : job[q].holder # w => job'[q] = job[q]
  <2>1. CASE HoldsJob(w)
    BY <1>1, <1>2, <2>1, ReleaseJob DEF AvailabilityInv, HoldsJob
  <2>2. CASE ~HoldsJob(w)
    BY <1>1, <2>2 DEF AvailabilityInv, TypeOK, HeldJobRuns
  <2> QED BY <2>1, <2>2
<1>4. Grows
  BY <1>1 DEF Grows, ghosts
<1>5. RecordsSound' /\ PayloadsSound'
  BY <1>1, <1>4, RecordsKept, PayloadsKept DEF AvailabilityInv
<1>6. attempt' \in [Workers -> Attempt] => TypeOK'
  BY <1>1, <1>3 DEF AvailabilityInv, TypeOK, world, ghosts
<1>7. MutationAuthorized'
  <2>1. ASSUME NEW v \in Workers, attempt'[v].step \in MutationSteps PROVE Authorized(v)'
    <3>1. attempt \in [Workers -> Attempt]
      BY TableTypes
    <3>2. v # w /\ attempt'[v] = attempt[v]
      BY <1>1, <2>1, <3>1, NoAttemptType DEF Rest, Proceed, MutationSteps
    <3>3. Authorized(v) /\ attempt[v].job \in Jobs
      <4>1. AttemptSound(attempt[v]) /\ attempt[v].step # "idle"
        BY <2>1, <3>2, OwnAttempt DEF MutationSteps
      <4> QED BY <2>1, <3>2, <4>1 DEF AvailabilityInv, MutationAuthorized, AttemptSound
    <3>4. job[attempt[v].job].holder # w
      BY <3>2, <3>3 DEF Authorized, HoldsJob
    <3> QED BY <1>1, <1>3, <3>2, <3>3, <3>4 DEF Authorized, HoldsJob, Current
  <2> QED BY <2>1 DEF MutationAuthorized
<1>8. UNCHANGED late
  BY <1>1
<1> QED BY <1>1, <1>3, <1>4, <1>5, <1>6, <1>7, <1>8, RestStep

LEMMA SweepKeeps ==
  ASSUME AvailabilityInv, NEW r \in Jobs, NEW whole \in BOOLEAN, Sweep(r, whole)
  PROVE  AvailabilityInv'
<1>1. /\ Unlocked /\ Expire({r}) /\ SweepEffect(r, whole)
      /\ UNCHANGED <<absence, connection, world, policy, cohort, intent, payload, late,
                     attempt, ghosts>>
  BY DEF Sweep
<1>2. job' \in [Jobs -> Queued] /\ HeldJobRuns'
  BY <1>1, ExpireJob DEF AvailabilityInv
<1>3. /\ Grows /\ RecordsSound' /\ history' \in [Jobs -> [Decisions -> Row]]
      /\ lastError' \in [Jobs -> {"none", "given up", "source is invalid", "isolated"}]
  <2>1. UNCHANGED <<intent, asked, ran>>
    BY <1>1 DEF ghosts
  <2>2. CASE Exhaust(r)
    BY <2>1, <2>2, ExhaustedRows
  <2>3. CASE UNCHANGED history
    <3>1. Grows
      BY <2>1, <2>3 DEF Grows
    <3>2. RecordsSound'
      BY <2>1, <2>3, <3>1, RecordsKept DEF AvailabilityInv
    <3>3. lastError' \in [Jobs -> {"none", "given up", "source is invalid", "isolated"}]
      BY <1>1 DEF SweepEffect, Exhaust, AvailabilityInv, TypeOK
    <3> QED BY <2>3, <3>1, <3>2, <3>3, TableTypes
  <2> QED BY <1>1, <2>2, <2>3 DEF SweepEffect
<1>4. AttemptsSound' /\ PayloadsSound' /\ RequestsSound'
  <2>1. late' \subseteq late
    BY <1>1
  <2> QED BY <1>1, <1>3, <2>1, OthersKept, PayloadsKept, RequestsKept DEF AvailabilityInv
<1>5. TypeOK'
  BY <1>1, <1>2, <1>3 DEF AvailabilityInv, TypeOK, world, ghosts
<1>6. MutationAuthorized'
  BY <1>1, AuthorityUnlocked DEF AvailabilityInv
<1> QED BY <1>2, <1>3, <1>4, <1>5, <1>6 DEF AvailabilityInv

-----------------------------------------------------------------------------
(* What the administrator and the rest of the world do *)

LEMMA OutsideStep ==
  ASSUME AvailabilityInv, UNCHANGED <<intent, history, payload, late, attempt, ghosts>>,
         TypeOK', HeldJobRuns', MutationAuthorized'
  PROVE  AvailabilityInv'
<1>1. Grows
  BY DEF Grows, ghosts
<1>2. late' \subseteq late
  OBVIOUS
<1> QED BY <1>1, <1>2, OthersKept, RecordsKept, PayloadsKept, RequestsKept
           DEF AvailabilityInv

\* Before an absence is scheduled, nobody has the authority of a mutation.
LEMMA ScheduleKeeps ==
  ASSUME AvailabilityInv, NEW window \in {"upcoming", "active"}, Schedule(window)
  PROVE  AvailabilityInv'
<1>1. /\ absence.status = "unscheduled" /\ Submit(1)
      /\ absence' = [revision |-> 1, status |-> "scheduled", window |-> window]
      /\ UNCHANGED <<connection, world, policy, cohort, intent, history, payload,
                     lastError, late, attempt, ghosts>>
  BY DEF Schedule, EnqueueActivation
<1>2. job' \in [Jobs -> Queued] /\ HeldJobRuns'
  BY <1>1, SubmitJob, AvailabilityAssumption DEF AvailabilityInv
<1>3. absence' \in Absence
  BY <1>1 DEF Absence, Windows
<1>4. TypeOK'
  BY <1>1, <1>2, <1>3 DEF AvailabilityInv, TypeOK, world, ghosts
<1>5. MutationAuthorized'
  BY <1>1 DEF AvailabilityInv, MutationAuthorized, Authorized, Current
<1> QED BY <1>1, <1>2, <1>4, <1>5, OutsideStep

LEMMA ChangedKeeps ==
  ASSUME AvailabilityInv, NEW status \in {"scheduled", "cancelled"}, NEW window \in Windows,
         Changed(status, window)
  PROVE  AvailabilityInv'
<1>1. /\ Unlocked /\ absence.revision + 1 \in Jobs /\ Submit(absence.revision + 1)
      /\ absence' = [revision |-> absence.revision + 1, status |-> status, window |-> window]
      /\ UNCHANGED <<connection, world, policy, cohort, intent, history, payload,
                     lastError, late, attempt, ghosts>>
  BY DEF Changed, EnqueueActivation
<1>2. job' \in [Jobs -> Queued] /\ HeldJobRuns'
  BY <1>1, SubmitJob DEF AvailabilityInv
<1>3. absence' \in Absence
  <2>1. absence.revision \in Nat
    BY DEF AvailabilityInv, TypeOK, Absence
  <2> QED BY <1>1, <2>1 DEF Absence
<1>4. TypeOK'
  BY <1>1, <1>2, <1>3 DEF AvailabilityInv, TypeOK, world, ghosts
<1>5. MutationAuthorized'
  BY <1>1, AuthorityUnlocked DEF AvailabilityInv
<1> QED BY <1>1, <1>2, <1>4, <1>5, OutsideStep

LEMMA MoveWindowKeeps ==
  ASSUME AvailabilityInv, NEW window \in {"active", "ended"}, MoveWindow(window)
  PROVE  AvailabilityInv'
<1>1. /\ absence' = [absence EXCEPT !.window = window]
      /\ UNCHANGED <<job, connection, world, policy, cohort, intent, history, payload,
                     lastError, late, attempt, ghosts>>
  BY DEF MoveWindow
<1>2. /\ absence' \in Absence /\ absence'.revision = absence.revision
      /\ absence'.status = absence.status
  BY <1>1 DEF AvailabilityInv, TypeOK, Absence, Windows
<1>3. TypeOK'
  BY <1>1, <1>2 DEF AvailabilityInv, TypeOK, world, ghosts
<1>4. HeldJobRuns' /\ MutationAuthorized'
  BY <1>1, <1>2
     DEF AvailabilityInv, HeldJobRuns, MutationAuthorized, Authorized, HoldsJob, Current
<1> QED BY <1>1, <1>3, <1>4, OutsideStep

LEMMA SetConnectionKeeps ==
  ASSUME AvailabilityInv, NEW status \in {"active", "inactive", "revoked"},
         SetConnection(status)
  PROVE  AvailabilityInv'
<1>1. /\ Unlocked /\ connection' = status
      /\ UNCHANGED <<job, absence, world, policy, cohort, intent, history, payload,
                     lastError, late, attempt, ghosts>>
  BY DEF SetConnection
<1>2. TypeOK'
  BY <1>1 DEF AvailabilityInv, TypeOK, world, ghosts
<1>3. HeldJobRuns' /\ MutationAuthorized'
  BY <1>1, AuthorityUnlocked DEF AvailabilityInv, HeldJobRuns
<1> QED BY <1>1, <1>2, <1>3, OutsideStep

\* Nothing a mutation relies on changes.
Elsewhere ==
  /\ UNCHANGED <<job, absence, connection, cohort, intent, history, payload, lastError,
                 late, attempt, ghosts>>
  /\ \/ UNCHANGED <<world, policy>>
     \/ /\ UNCHANGED <<superseded, away, policy>>
        /\ \E d \in Decisions : \E p \in PullRequest : pull' = [pull EXCEPT ![d] = p]
     \/ UNCHANGED <<pull, away, policy>> /\ superseded' \subseteq Decisions
     \/ UNCHANGED <<pull, superseded, policy>> /\ away' \subseteq Actors
     \/ UNCHANGED world /\ policy' \in [Decisions -> Verdicts]

LEMMA ElsewhereKeeps ==
  ASSUME AvailabilityInv, Elsewhere
  PROVE  AvailabilityInv'
<1>1. UNCHANGED <<job, absence, connection, cohort, intent, history, payload, lastError,
                  late, attempt, ghosts>>
  BY DEF Elsewhere
<1>2. /\ pull' \in [Decisions -> PullRequest] /\ superseded' \subseteq Decisions
      /\ away' \subseteq Actors /\ policy' \in [Decisions -> Verdicts]
  BY DEF Elsewhere, AvailabilityInv, TypeOK, world
<1>3. TypeOK'
  BY <1>1, <1>2 DEF AvailabilityInv, TypeOK, ghosts
<1>4. HeldJobRuns' /\ MutationAuthorized'
  BY <1>1
     DEF AvailabilityInv, HeldJobRuns, MutationAuthorized, Authorized, HoldsJob, Current
<1> QED BY <1>1, <1>3, <1>4, OutsideStep

LEMMA PullRequestElsewhere ==
  ASSUME AvailabilityInv, NEW d \in Decisions,
         Close(d) \/ Push(d) \/ \E x \in Actors \ {Author} : Review(d, x)
  PROVE  Elsewhere
<1>1. pull[d] \in PullRequest
  BY DEF AvailabilityInv, TypeOK
<1>2. \E p \in PullRequest : PullChanges(d, p)
  <2>1. CASE Close(d)
    BY <1>1, <2>1 DEF Close, PullRequest
  <2>2. CASE Push(d)
    BY <1>1, <2>2 DEF Push, PullRequest
  <2>3. ASSUME NEW x \in Actors, Review(d, x) PROVE \E p \in PullRequest : PullChanges(d, p)
    <3>1. PICK approved \in SUBSET Actors :
            approved = IF x \in pull[d].approved THEN pull[d].approved \ {x}
                                                 ELSE pull[d].approved \cup {x}
      BY <1>1 DEF PullRequest
    <3>2. PICK p : p = [pull[d] EXCEPT !.approved = approved]
      OBVIOUS
    <3>3. p \in PullRequest
      BY <1>1, <3>2 DEF PullRequest
    <3>4. PullChanges(d, p)
      BY <2>3, <3>1, <3>2 DEF Review
    <3> QED BY <3>3, <3>4
  <2> QED BY <2>1, <2>2, <2>3
<1> QED BY <1>2 DEF PullChanges, Elsewhere

LEMMA EnvironmentKeeps ==
  ASSUME AvailabilityInv, Environment PROVE AvailabilityInv'
<1>1. ASSUME NEW window \in {"upcoming", "active"}, Revise(window) PROVE AvailabilityInv'
  BY <1>1, ChangedKeeps DEF Revise, Windows
<1>2. CASE Cancel
  <2>1. absence.window \in Windows
    BY DEF AvailabilityInv, TypeOK, Absence
  <2> QED BY <1>2, <2>1, ChangedKeeps DEF Cancel
<1>3. ASSUME NEW status \in {"active", "inactive", "revoked"}, SetConnection(status)
      PROVE  AvailabilityInv'
  BY <1>3, SetConnectionKeeps
<1>4. ASSUME NEW x \in Actors, OtherAbsence(x) PROVE AvailabilityInv'
  <2>1. away' \subseteq Actors
    BY <1>4 DEF OtherAbsence, AvailabilityInv, TypeOK
  <2>2. Elsewhere
    BY <1>4, <2>1 DEF OtherAbsence, Elsewhere
  <2> QED BY <2>2, ElsewhereKeeps
<1>5. ASSUME NEW d \in Decisions,
             Close(d) \/ Push(d) \/ \E x \in Actors \ {Author} : Review(d, x)
      PROVE  AvailabilityInv'
  BY <1>5, PullRequestElsewhere, ElsewhereKeeps
<1>6. ASSUME NEW d \in Decisions, Supersede(d) PROVE AvailabilityInv'
  <2>1. superseded' \subseteq Decisions
    BY <1>6 DEF Supersede, AvailabilityInv, TypeOK
  <2>2. Elsewhere
    BY <1>6, <2>1 DEF Supersede, Elsewhere
  <2> QED BY <2>2, ElsewhereKeeps
<1>7. ASSUME NEW d \in Decisions, NEW state \in {"pending", "success", "failure"},
             EvaluatePolicy(d, state)
      PROVE  AvailabilityInv'
  <2>1. policy' \in [Decisions -> Verdicts]
    BY <1>7 DEF EvaluatePolicy, AvailabilityInv, TypeOK, Verdicts
  <2>2. Elsewhere
    BY <1>7, <2>1 DEF EvaluatePolicy, Elsewhere
  <2> QED BY <2>2, ElsewhereKeeps
<1> QED BY <1>1, <1>2, <1>3, <1>4, <1>5, <1>6, <1>7 DEF Environment

-----------------------------------------------------------------------------
(* The invariant *)

LEMMA InvariantInit == AvailabilityInit => AvailabilityInv
<1> SUFFICES ASSUME AvailabilityInit PROVE AvailabilityInv
  OBVIOUS
<1>1. job \in [Jobs -> Queued] /\ HeldJobRuns
  <2>1. DefaultMaxAttempts \in Nat
    BY AvailabilityAssumption
  <2>2. PICK j : j = [status |-> "absent", attempt |-> 0, max |-> DefaultMaxAttempts,
                      holder |-> Nobody]
    OBVIOUS
  <2>3. j \in Queued /\ j.holder = Nobody
    BY <2>1, <2>2 DEF Queued
  <2>4. job = [r \in Jobs |-> j]
    BY <2>2 DEF AvailabilityInit, Init
  <2> QED BY <2>3, <2>4 DEF HeldJobRuns
<1>2. pull \in [Decisions -> PullRequest]
  <2>1. FirstCohort \subseteq Actors
    BY AvailabilityAssumption
  <2>2. PICK p : p = [open |-> TRUE, head |-> "routed", approved |-> {},
                      requested |-> FirstCohort]
    OBVIOUS
  <2>3. p \in PullRequest
    BY <2>1, <2>2 DEF PullRequest
  <2>4. pull = [d \in Decisions |-> p]
    BY <2>2 DEF AvailabilityInit
  <2> QED BY <2>3, <2>4
<1>3. /\ absence \in Absence /\ connection \in {"active", "inactive", "revoked"}
      /\ policy \in [Decisions -> Verdicts]
  BY DEF AvailabilityInit, Absence, Windows, Verdicts
<1>4. cohort \in [Decisions -> SUBSET Actors]
  BY AvailabilityAssumption DEF AvailabilityInit
<1>5. /\ intent \in [Jobs -> [Decisions -> Actors \cup {NoActor}]]
      /\ \A r \in Jobs : \A d \in Decisions : intent[r][d] = NoActor
  BY DEF AvailabilityInit
<1>6. /\ history \in [Jobs -> [Decisions -> Row]]
      /\ \A r \in Jobs : \A d \in Decisions : history[r][d] = NoRow
  BY NoRowIsRow DEF AvailabilityInit
<1>7. payload \in [Jobs -> Recovery] /\ \A r \in Jobs : payload[r].phase = "none"
  <2>1. NoRecovery \in Recovery /\ NoRecovery.phase = "none"
    BY NoRowIsRow DEF NoRecovery, Recovery
  <2> QED BY <2>1 DEF AvailabilityInit
<1>8. attempt \in [Workers -> Attempt] /\ \A w \in Workers : attempt[w] = NoAttempt
  BY NoAttemptType DEF AvailabilityInit
<1>9. /\ superseded = {} /\ away = {} /\ late = {} /\ asked = {} /\ ran = {}
      /\ lastError \in [Jobs -> {"none", "given up", "source is invalid", "isolated"}]
  BY DEF AvailabilityInit
<1>10. TypeOK
  BY <1>1, <1>2, <1>3, <1>4, <1>5, <1>6, <1>7, <1>8, <1>9 DEF TypeOK
<1>11. AttemptsSound
  BY <1>8, NoAttemptSound DEF AttemptsSound
<1>12. RecordsSound
  BY <1>5, <1>6 DEF RecordsSound, RecordSoundFor
<1>13. PayloadsSound /\ RequestsSound
  BY <1>7, <1>9 DEF PayloadsSound, PayloadSound, RequestsSound
<1>14. MutationAuthorized
  BY <1>8, NoAttemptType DEF MutationAuthorized, MutationSteps
<1> QED BY <1>1, <1>10, <1>11, <1>12, <1>13, <1>14 DEF AvailabilityInv

LEMMA EffectKeeps ==
  ASSUME AvailabilityInv, NEW w \in Workers, NEW answered \in BOOLEAN, Effect(w, answered)
  PROVE  AvailabilityInv'
BY PrepareKeeps, RemoveKeeps, AskKeeps, PersistKeeps, FinalizeKeeps, CompleteKeeps,
   AuditKeeps, RecoverPersistKeeps, RecoverAuditKeeps DEF Effect

LEMMA WorkerKeeps ==
  ASSUME AvailabilityInv, NEW w \in Workers, Step(w) \/ Fault(w)
  PROVE  AvailabilityInv'
<1>1. CASE Quietly(w)
  BY <1>1, QuietlyKeeps
<1>2. CASE Succeed(w)
  BY <1>2, SucceedKeeps
<1>3. CASE Retry(w)
  BY <1>3, RetryKeeps
<1>4. CASE GiveUp(w)
  BY <1>4, GiveUpKeeps
<1>5. CASE TimeOut(w)
  BY <1>5, TimeOutKeeps
<1>6. CASE Die(w)
  BY <1>6, DieKeeps
<1>7. CASE Effect(w, TRUE) \/ Effect(w, FALSE)
  BY <1>7, EffectKeeps
<1> QED BY <1>1, <1>2, <1>3, <1>4, <1>5, <1>6, <1>7 DEF Step, Fault, Regular, Quietly

LEMMA InvariantStep ==
  AvailabilityInv /\ [AvailabilityNext]_availabilityVars => AvailabilityInv'
<1> SUFFICES ASSUME AvailabilityInv, [AvailabilityNext]_availabilityVars
             PROVE  AvailabilityInv'
  OBVIOUS
<1>1. ASSUME NEW w \in Workers, Step(w) \/ Fault(w) PROVE AvailabilityInv'
  BY <1>1, WorkerKeeps
<1>2. CASE Queue
  BY <1>2, ClaimKeeps, SweepKeeps DEF Queue
<1>3. ASSUME NEW window \in {"upcoming", "active"}, Schedule(window) PROVE AvailabilityInv'
  BY <1>3, ScheduleKeeps
<1>4. CASE Time
  BY <1>4, MoveWindowKeeps DEF Time
<1>5. CASE Environment
  BY <1>5, EnvironmentKeeps
<1>6. ASSUME NEW r \in Jobs, Sweep(r, FALSE) PROVE AvailabilityInv'
  BY <1>6, SweepKeeps
<1>7. ASSUME NEW q \in late, Land(q) PROVE AvailabilityInv'
  BY <1>7, LandKeeps
<1>8. CASE UNCHANGED availabilityVars
  <2>1. UNCHANGED <<shared, attempt>>
    BY <1>8 DEF availabilityVars
  <2>2. Elsewhere
    BY <2>1 DEF shared, Elsewhere
  <2> QED BY <2>2, ElsewhereKeeps
<1> QED BY <1>1, <1>2, <1>3, <1>4, <1>5, <1>6, <1>7, <1>8 DEF AvailabilityNext

\* Whatever attempts overlap, time out, die and are taken up again: what an
\* attempt, a payload or a request under way says of the rows is true.
THEOREM AvailabilityInvariant == AvailabilitySpec => []AvailabilityInv
BY InvariantInit, InvariantStep, PTL DEF AvailabilitySpec

-----------------------------------------------------------------------------
(* Requests and cohorts *)

\* Steps that leave the pull requests, and steps that leave the cohorts, alone.
LEMMA PullRequestsKept ==
  ASSUME NEW w \in Workers, NEW answered \in BOOLEAN,
         \/ Quietly(w) \/ Succeed(w) \/ Retry(w) \/ GiveUp(w) \/ TimeOut(w) \/ Die(w)
         \/ Prepare(w, answered) \/ Persist(w, answered) \/ Finalize(w, answered)
         \/ Complete(w, answered) \/ Audit(w, answered) \/ RecoverPersist(w, answered)
         \/ RecoverAudit(w, answered)
  PROVE  UNCHANGED pull
BY QuietlyShared DEF shared, world, Succeed, Retry, GiveUp, TimeOut, Die, Prepare, Persist,
     Finalize, Complete, Audit, RecoverPersist, RecoverAudit

LEMMA CohortsKept ==
  ASSUME NEW w \in Workers, NEW answered \in BOOLEAN,
         \/ Quietly(w) \/ Succeed(w) \/ Retry(w) \/ GiveUp(w) \/ TimeOut(w) \/ Die(w)
         \/ Prepare(w, answered) \/ Remove(w, answered) \/ Ask(w, answered)
         \/ Finalize(w, answered) \/ Complete(w, answered) \/ Audit(w, answered)
         \/ RecoverAudit(w, answered)
  PROVE  UNCHANGED cohort
BY QuietlyShared DEF shared, Succeed, Retry, GiveUp, TimeOut, Die, Prepare, Remove, Ask,
     Finalize, Complete, Audit, RecoverAudit

\* The review requests of a decision change for whoever is authorized, or late.
RequestAuthorized(d) ==
  pull'[d].requested # pull[d].requested =>
    \/ late' # late
    \/ /\ absence.status = "scheduled" /\ connection = "active"
       /\ \E w \in Workers : /\ attempt[w].step \in MutationSteps
                             /\ attempt[w].decision = d
                             /\ attempt[w].job = absence.revision
                             /\ job[absence.revision].holder = w

LEMMA RequestStep ==
  ASSUME AvailabilityInv, [AvailabilityNext]_availabilityVars, NEW d \in Decisions
  PROVE  RequestAuthorized(d)
<1>1. ASSUME UNCHANGED pull PROVE RequestAuthorized(d)
  BY <1>1 DEF RequestAuthorized
<1>2. ASSUME NEW w \in Workers, NEW answered \in BOOLEAN,
             Remove(w, answered) \/ Ask(w, answered)
      PROVE  RequestAuthorized(d)
  <2>1. attempt[w].step \in MutationSteps
    BY <1>2 DEF Remove, Ask, At, MutationSteps
  <2>2. /\ absence.status = "scheduled" /\ connection = "active"
        /\ attempt[w].job = absence.revision /\ job[absence.revision].holder = w
    BY <2>1 DEF AvailabilityInv, MutationAuthorized, Authorized, HoldsJob, Current
  <2>3. CASE attempt[w].decision = d
    BY <2>1, <2>2, <2>3 DEF RequestAuthorized
  <2>4. CASE attempt[w].decision # d
    <3>1. pull \in [Decisions -> PullRequest]
      BY DEF AvailabilityInv, TypeOK
    <3>2. pull'[d] = pull[d]
      BY <1>2, <2>4, <3>1 DEF Remove, Ask
    <3> QED BY <3>2 DEF RequestAuthorized
  <2> QED BY <2>3, <2>4
<1>3. ASSUME NEW w \in Workers, NEW answered \in BOOLEAN, Effect(w, answered)
      PROVE  RequestAuthorized(d)
  BY <1>1, <1>2, <1>3, PullRequestsKept DEF Effect
<1>4. ASSUME NEW w \in Workers, Step(w) \/ Fault(w) PROVE RequestAuthorized(d)
  <2>1. CASE Effect(w, TRUE) \/ Effect(w, FALSE)
    BY <1>3, <2>1
  <2>2. CASE Quietly(w) \/ Succeed(w) \/ Retry(w) \/ GiveUp(w) \/ TimeOut(w) \/ Die(w)
    BY <1>1, <2>2, PullRequestsKept
  <2> QED BY <1>4, <2>1, <2>2 DEF Step, Fault, Regular, Quietly
<1>5. CASE Queue \/ (\E window \in {"upcoming", "active"} : Schedule(window)) \/ Time
           \/ \E r \in Jobs : Sweep(r, FALSE)
  BY <1>1, <1>5 DEF Queue, Claim, Sweep, Schedule, Time, MoveWindow, world
<1>6. CASE Environment
  <2>1. ASSUME NEW e \in Decisions, Close(e) \/ Push(e) \/ \E x \in Actors : Review(e, x)
        PROVE  pull'[d].requested = pull[d].requested
    <3>1. pull \in [Decisions -> PullRequest]
      BY DEF AvailabilityInv, TypeOK
    <3>2. PICK p : pull' = [pull EXCEPT ![e] = p] /\ p.requested = pull[e].requested
      <4>1. pull[e] \in PullRequest
        BY <3>1
      <4>2. CASE Close(e)
        BY <4>1, <4>2 DEF Close, PullChanges, PullRequest
      <4>3. CASE Push(e)
        BY <4>1, <4>3 DEF Push, PullChanges, PullRequest
      <4>4. ASSUME NEW x, Review(e, x)
            PROVE  \E p : pull' = [pull EXCEPT ![e] = p] /\ p.requested = pull[e].requested
        <5>1. PICK approved : pull' = [pull EXCEPT ![e] = [pull[e] EXCEPT !.approved = approved]]
          BY <4>4 DEF Review, PullChanges
        <5>2. [pull[e] EXCEPT !.approved = approved].requested = pull[e].requested
          BY <4>1 DEF PullRequest
        <5> QED BY <5>1, <5>2
      <4> QED BY <2>1, <4>2, <4>3, <4>4
    <3> QED BY <3>1, <3>2
  <2>2. CASE \E e \in Decisions : Close(e) \/ Push(e) \/ \E x \in Actors : Review(e, x)
    BY <2>1, <2>2 DEF RequestAuthorized
  <2>3. CASE UNCHANGED pull
    BY <1>1, <2>3
  <2> QED BY <1>6, <2>2, <2>3 DEF Environment, Revise, Cancel, Changed, SetConnection,
               OtherAbsence, Supersede, EvaluatePolicy, world
<1>7. ASSUME NEW q \in late, Land(q) PROVE RequestAuthorized(d)
  BY <1>7 DEF Land, RequestAuthorized
<1>8. CASE UNCHANGED availabilityVars
  BY <1>1, <1>8 DEF availabilityVars, shared, world
<1> QED BY <1>4, <1>5, <1>6, <1>7, <1>8 DEF AvailabilityNext

\* A review request moves only under the authority of its revision, or late.
THEOREM RequestsAuthorized == AvailabilitySpec => RequestsAreAuthorized
<1>1. AvailabilityInv /\ [AvailabilityNext]_availabilityVars =>
        [\A d \in Decisions : RequestAuthorized(d)]_availabilityVars
  BY RequestStep
<1> QED BY <1>1, AvailabilityInvariant, PTL
        DEF AvailabilitySpec, RequestsAreAuthorized, RequestAuthorized

\* How the cohort of a decision may change.
SwapCurrent(d) ==
  cohort'[d] # cohort[d] =>
    /\ absence.status = "scheduled" /\ policy[d] = "pending"
    /\ \E x \in Pool \ cohort[d] :
         /\ cohort'[d] = (cohort[d] \ {Absentee}) \cup {x}
         /\ Mode[d] = "enforce" => intent[absence.revision][d] = x

\* A founded row that still applies when it is recorded.
LEMMA RecordSwaps ==
  ASSUME AvailabilityInv, NEW r \in Jobs, NEW d \in Decisions, NEW row \in Row,
         RowFounded(r, d, row), WellFormed(row), LinkageValid(r, d, row), NEW absent,
         StillApplies(r, d, row, absent), Record(r, d, row), NEW e \in Decisions
  PROVE  SwapCurrent(e)
<1>1. cohort \in [Decisions -> SUBSET Actors]
  BY DEF AvailabilityInv, TypeOK
<1>2. CASE e # d \/ row.actor = NoActor
  <2>1. cohort'[e] = cohort[e]
    BY <1>1, <1>2 DEF Record
  <2> QED BY <2>1 DEF SwapCurrent
<1>3. CASE e = d /\ row.actor # NoActor
  <2>1. row.actor \in Pool \ cohort[d] /\ policy[d] = "pending"
        /\ absence.status = "scheduled" /\ absence.revision = r
    BY <1>3 DEF StillApplies, Current
  <2>2. cohort'[d] = (cohort[d] \ {Absentee}) \cup {row.actor}
    BY <1>1, <1>3 DEF Record
  <2>3. ASSUME Mode[d] = "enforce" PROVE intent[r][d] = row.actor
    <3>1. row.outcome \in {"replaced", "simulated_replacement"}
      BY <1>3 DEF WellFormed, ProvenanceValid
    <3>2. row.outcome = "replaced" /\ row.linked
      BY <2>3, <3>1 DEF RowFounded, WellFormed, ProvenanceValid
    <3> QED BY <3>2 DEF LinkageValid
  <2> QED BY <1>3, <2>1, <2>2, <2>3 DEF SwapCurrent
<1> QED BY <1>2, <1>3

LEMMA SwapStep ==
  ASSUME AvailabilityInv, [AvailabilityNext]_availabilityVars, NEW d \in Decisions
  PROVE  SwapCurrent(d)
<1>1. ASSUME UNCHANGED cohort PROVE SwapCurrent(d)
  BY <1>1 DEF SwapCurrent
<1>2. ASSUME NEW w \in Workers, NEW answered \in BOOLEAN, Persist(w, answered)
      PROVE  SwapCurrent(d)
  <2>1. PICK a \in Attempt : a = attempt[w] /\ AttemptSound(a) /\ a.step = "persist"
    BY <1>2, OwnAttempt DEF Persist, At
  <2>2. PICK r \in Jobs, e \in Decisions, row \in Row :
          r = a.job /\ e = a.decision /\ row = a.row /\ RowFounded(r, e, row)
    <3>1. a.job \in Jobs /\ a.decision \in Decisions /\ RowFounded(a.job, a.decision, a.row)
      BY <2>1 DEF AttemptSound, DecisionSteps, RowSteps
    <3> QED BY <3>1 DEF Attempt
  <2>3. CASE history[r][e] # NoRow
    BY <1>1, <1>2, <2>1, <2>2, <2>3 DEF Persist
  <2>4. CASE history[r][e] = NoRow
    <3>1. /\ WellFormed(row) /\ LinkageValid(r, e, row)
          /\ StillApplies(r, e, row, away) /\ Record(r, e, row)
      BY <1>2, <2>1, <2>2, <2>4 DEF Persist, Accepts, RetryMatches
    <3> QED BY <2>2, <3>1, RecordSwaps
  <2> QED BY <2>3, <2>4
<1>3. ASSUME NEW w \in Workers, NEW answered \in BOOLEAN, RecoverPersist(w, answered)
      PROVE  SwapCurrent(d)
  <2>1. PICK a \in Attempt : a = attempt[w] /\ AttemptSound(a) /\ a.step = "recover persist"
    BY <1>3, OwnAttempt DEF RecoverPersist, At
  <2>2. PICK r \in Jobs, e \in Decisions, row \in Row :
          /\ r = a.job /\ e = a.decision /\ row = a.row /\ RowFounded(r, e, row)
          /\ WellFormed(row)
    <3>1. /\ a.job \in Jobs /\ a.decision \in Decisions
          /\ RecoveryFounded(a.job, a.decision, a.row, "persist_replacement")
      BY <2>1 DEF AttemptSound, DecisionSteps
    <3> QED BY <3>1 DEF Attempt, RecoveryFounded
  <2>3. CASE history[r][e] # NoRow \/ row.outcome = "permanent_failure"
    BY <1>1, <1>3, <2>1, <2>2, <2>3 DEF RecoverPersist
  <2>4. CASE history[r][e] = NoRow /\ row.outcome # "permanent_failure"
    <3>1. LinkageValid(r, e, row) /\ StillApplies(r, e, row, {}) /\ Record(r, e, row)
      BY <1>3, <2>1, <2>2, <2>4 DEF RecoverPersist, Accepts, RetryMatches
    <3> QED BY <2>2, <3>1, RecordSwaps
  <2> QED BY <2>3, <2>4
<1>4. ASSUME NEW w \in Workers, NEW answered \in BOOLEAN, Effect(w, answered)
      PROVE  SwapCurrent(d)
  BY <1>1, <1>2, <1>3, <1>4, CohortsKept DEF Effect
<1>5. ASSUME NEW w \in Workers, Step(w) \/ Fault(w) PROVE SwapCurrent(d)
  <2>1. CASE Effect(w, TRUE) \/ Effect(w, FALSE)
    BY <1>4, <2>1
  <2>2. CASE Quietly(w) \/ Succeed(w) \/ Retry(w) \/ GiveUp(w) \/ TimeOut(w) \/ Die(w)
    BY <1>1, <2>2, CohortsKept
  <2> QED BY <1>5, <2>1, <2>2 DEF Step, Fault, Regular, Quietly
<1>6. CASE Queue \/ (\E window \in {"upcoming", "active"} : Schedule(window)) \/ Time
           \/ (\E r \in Jobs : Sweep(r, FALSE)) \/ (\E q \in late : Land(q))
  BY <1>1, <1>6 DEF Queue, Claim, Sweep, Schedule, Time, MoveWindow, Land
<1>7. CASE Environment
  BY <1>1, <1>7 DEF Environment, Revise, Cancel, Changed, SetConnection, OtherAbsence,
                    Close, Push, Review, PullChanges, Supersede, EvaluatePolicy
<1>8. CASE UNCHANGED availabilityVars
  BY <1>1, <1>8 DEF availabilityVars, shared
<1> QED BY <1>5, <1>6, <1>7, <1>8 DEF AvailabilityNext

\* A cohort changes one for one, for the current absence and the actor of the
\* intent, although the plan was made long before the row is written.
THEOREM SwapsCurrent == AvailabilitySpec => SwapsAreCurrent
<1>1. AvailabilityInv /\ [AvailabilityNext]_availabilityVars =>
        [\A d \in Decisions : SwapCurrent(d)]_availabilityVars
  BY SwapStep
<1> QED BY <1>1, AvailabilityInvariant, PTL
        DEF AvailabilitySpec, SwapsAreCurrent, SwapCurrent

-----------------------------------------------------------------------------
(* The abstract history *)

\* The outcomes and the states on record, as ReplacementHistory has them.
OutcomeOf == [r \in Jobs |-> [d \in Decisions |-> history[r][d].outcome]]
StateOf == [r \in Jobs |-> [d \in Decisions |-> history[r][d].state]]

HistoryVars == <<intent, asked, history, ran, cohort>>

\* A step that leaves the history alone is a stuttering step.
LEMMA HistoryStutters ==
  ASSUME UNCHANGED HistoryVars PROVE UNCHANGED RH!history
BY DEF HistoryVars, RH!history

\* Two tables that differ in one place.
LEMMA TablePlace ==
  ASSUME NEW S, NEW T, NEW V, NEW A \in [S -> [T -> V]], NEW B \in [S -> [T -> V]],
         NEW r \in S, NEW d \in T, NEW v \in V,
         \A q \in S : \A e \in T : B[q][e] = IF q = r /\ e = d THEN v ELSE A[q][e]
  PROVE  B = [A EXCEPT ![r][d] = v]
<1> DEFINE C == [A EXCEPT ![r][d] = v]
<1>1. C \in [S -> [T -> V]]
  OBVIOUS
<1>2. ASSUME NEW q \in S PROVE B[q] = C[q]
  <2>1. \A e \in T : B[q][e] = C[q][e]
    OBVIOUS
  <2>2. B[q] \in [T -> V] /\ C[q] \in [T -> V]
    BY <1>1
  <2> HIDE DEF C
  <2> QED BY <2>1, <2>2
<1> HIDE DEF C
<1>3. B = C
  BY <1>1, <1>2
<1> QED BY <1>3 DEF C

\* Two tables that differ in one revision.
LEMMA TableRow ==
  ASSUME NEW S, NEW T, NEW V, NEW A \in [S -> [T -> V]], NEW B \in [S -> [T -> V]],
         NEW r \in S, NEW f \in [T -> V],
         \A q \in S : \A e \in T : B[q][e] = IF q = r THEN f[e] ELSE A[q][e]
  PROVE  B = [A EXCEPT ![r] = f]
<1> DEFINE C == [A EXCEPT ![r] = f]
<1>1. C \in [S -> [T -> V]]
  OBVIOUS
<1>2. ASSUME NEW q \in S PROVE B[q] = C[q]
  <2>1. \A e \in T : B[q][e] = C[q][e]
    OBVIOUS
  <2>2. B[q] \in [T -> V] /\ C[q] \in [T -> V]
    BY <1>1
  <2> HIDE DEF C
  <2> QED BY <2>1, <2>2
<1> HIDE DEF C
<1>3. B = C
  BY <1>1, <1>2
<1> QED BY <1>3 DEF C

\* The tables of the abstract history are typed.
LEMMA MapTypes ==
  ASSUME history \in [Jobs -> [Decisions -> Row]]
  PROVE  /\ OutcomeOf \in [Jobs -> [Decisions -> Outcomes \cup {"none"}]]
         /\ StateOf \in [Jobs -> [Decisions -> RowState \cup {"none"}]]
BY DEF OutcomeOf, StateOf, Row

\* One row that is recorded, or whose state changes.
LEMMA RowMapped ==
  ASSUME AvailabilityInv, NEW r \in Jobs, NEW d \in Decisions, NEW row \in Row,
         history' = [history EXCEPT ![r][d] = row]
  PROVE  /\ OutcomeOf' = [OutcomeOf EXCEPT ![r][d] = row.outcome]
         /\ StateOf' = [StateOf EXCEPT ![r][d] = row.state]
<1>1. history \in [Jobs -> [Decisions -> Row]]
  BY TableTypes
<1>2. \A q \in Jobs : \A e \in Decisions :
        history'[q][e] = IF q = r /\ e = d THEN row ELSE history[q][e]
  BY <1>1
<1>3. history' \in [Jobs -> [Decisions -> Row]]
  BY <1>1
<1>4. OutcomeOf' = [OutcomeOf EXCEPT ![r][d] = row.outcome]
  <2> DEFINE V == Outcomes \cup {"none"}
  <2>1. OutcomeOf \in [Jobs -> [Decisions -> V]] /\ OutcomeOf' \in [Jobs -> [Decisions -> V]]
    BY <1>1, <1>3 DEF OutcomeOf, Row
  <2>2. row.outcome \in V
    BY DEF Row
  <2>3. \A q \in Jobs : \A e \in Decisions :
          OutcomeOf'[q][e] = IF q = r /\ e = d THEN row.outcome ELSE OutcomeOf[q][e]
    BY <1>2 DEF OutcomeOf
  <2> HIDE DEF V
  <2> QED BY <2>1, <2>2, <2>3, TablePlace
<1>5. StateOf' = [StateOf EXCEPT ![r][d] = row.state]
  <2> DEFINE V == RowState \cup {"none"}
  <2>1. StateOf \in [Jobs -> [Decisions -> V]] /\ StateOf' \in [Jobs -> [Decisions -> V]]
    BY <1>1, <1>3 DEF StateOf, Row
  <2>2. row.state \in V
    BY DEF Row
  <2>3. \A q \in Jobs : \A e \in Decisions :
          StateOf'[q][e] = IF q = r /\ e = d THEN row.state ELSE StateOf[q][e]
    BY <1>2 DEF StateOf
  <2> HIDE DEF V
  <2> QED BY <2>1, <2>2, <2>3, TablePlace
<1> QED BY <1>4, <1>5

LEMMA HistoryInit == AvailabilityInit => RH!Init
<1> SUFFICES ASSUME AvailabilityInit PROVE RH!Init
  OBVIOUS
<1>1. \A r \in Jobs : \A d \in Decisions :
        history[r][d].outcome = "none" /\ history[r][d].state = "none"
  BY DEF AvailabilityInit, NoRow
<1>2. OutcomeOf = [r \in Jobs |-> [d \in Decisions |-> "none"]]
  BY <1>1 DEF OutcomeOf
<1>3. StateOf = [r \in Jobs |-> [d \in Decisions |-> "none"]]
  BY <1>1 DEF StateOf
<1> QED BY <1>2, <1>3 DEF AvailabilityInit, RH!Init, RH!For, OutcomeOf, StateOf

\* A row that is recorded where none was is a record of the abstract history.
LEMMA RecordMapped ==
  ASSUME AvailabilityInv, NEW r \in Jobs, NEW d \in Decisions, NEW row \in Row,
         history[r][d] = NoRow, history' = [history EXCEPT ![r][d] = row],
         RowFounded(r, d, row), row.state = ExpectedState(row.outcome),
         UNCHANGED <<intent, asked, ran>>,
         \/ row.outcome \notin {"replaced", "simulated_replacement"} /\ UNCHANGED cohort
         \/ /\ row.outcome \in {"replaced", "simulated_replacement"}
            /\ Absentee \in cohort[d] /\ row.actor \in Pool \ cohort[d]
            /\ cohort' = [cohort EXCEPT ![d] = (@ \ {Absentee}) \cup {row.actor}]
            /\ row.outcome = "replaced" => intent[r][d] = row.actor
  PROVE  RH!Next
<1> DEFINE o == row.outcome
<1>1. /\ OutcomeOf' = [OutcomeOf EXCEPT ![r][d] = o]
      /\ StateOf' = [StateOf EXCEPT ![r][d] = row.state]
  <2>1. OutcomeOf' = [OutcomeOf EXCEPT ![r][d] = row.outcome]
    BY RowMapped
  <2>2. StateOf' = [StateOf EXCEPT ![r][d] = row.state]
    BY RowMapped
  <2> QED BY <2>1, <2>2
<1>2. OutcomeOf[r][d] = "none"
  BY DEF OutcomeOf, NoRow
<1>3. o \in Outcomes
  BY DEF RowFounded
<1>4. row.state = CASE o = "permanent_failure" -> "permanent_failure"
                    [] o \in {"replaced", "skipped_policy_satisfied",
                              "no_replacement_available"} -> "finalizer_pending"
                    [] OTHER -> "completed"
  BY DEF ExpectedState, HasFinalizer
<1>5. \/ o = "replaced" /\ <<r, d, intent[r][d]>> \in asked /\ RH!Swap(d, intent[r][d])
      \/ o = "simulated_replacement" /\ Mode[d] = "shadow" /\ \E x \in Pool : RH!Swap(d, x)
      \/ o \notin {"none", "replaced", "simulated_replacement"} /\ UNCHANGED cohort
  BY <1>3 DEF RowFounded, RH!Swap, Outcomes
<1>6. RH!Record(r, d, o)
  BY <1>1, <1>2, <1>4, <1>5 DEF RH!Record, OutcomeOf, StateOf
<1>7. o \in RH!Outcomes
  BY <1>3 DEF RH!Outcomes, Outcomes
<1> QED BY <1>6, <1>7 DEF RH!Next

LEMMA PrepareMapped ==
  ASSUME AvailabilityInv, NEW w \in Workers, NEW answered \in BOOLEAN, Prepare(w, answered)
  PROVE  RH!Next \/ UNCHANGED RH!history
<1>1. PICK a \in Attempt : a = attempt[w] /\ AttemptSound(a) /\ a.step = "prepare"
  BY OwnAttempt DEF Prepare, At
<1>2. PICK r \in Jobs, d \in Decisions, x \in Actors :
        r = a.job /\ d = a.decision /\ x = a.row.actor /\ Mode[d] = "enforce"
  BY <1>1 DEF AttemptSound, DecisionSteps
<1>3. /\ IntentAccepted(r, d, x) /\ intent' = [intent EXCEPT ![r][d] = x]
      /\ UNCHANGED <<asked, history, ran, cohort>>
  BY <1>1, <1>2 DEF Prepare, ghosts
<1>4. CASE intent[r][d] = x
  <2>1. intent' = intent
    BY <1>3, <1>4, TableTypes
  <2> QED BY <1>3, <2>1, HistoryStutters DEF HistoryVars
<1>5. CASE intent[r][d] = NoActor
  <2>1. history[r][d] = NoRow
    <3>1. history[r][d] # NoRow => ~history[r][d].linked
      BY <1>5, OwnRows DEF RecordSoundFor, RowFounded
    <3> QED BY <1>3, <3>1 DEF IntentAccepted
  <2>2. history[r][d].outcome = "none"
    BY <2>1 DEF NoRow
  <2>3. RH!Intend(r, d, x)
    BY <1>2, <1>3, <1>5, <2>2 DEF IntentAccepted, RH!Intend
  <2>4. x \in Pool
    BY <1>3 DEF IntentAccepted
  <2> QED BY <2>3, <2>4 DEF RH!Next
<1> QED BY <1>3, <1>4, <1>5 DEF IntentAccepted

LEMMA AskMapped ==
  ASSUME AvailabilityInv, NEW w \in Workers, NEW answered \in BOOLEAN, Ask(w, answered)
  PROVE  RH!Next
<1>1. PICK a \in Attempt : a = attempt[w] /\ AttemptSound(a) /\ a.step = "ask"
  BY OwnAttempt DEF Ask, At
<1>2. PICK r \in Jobs, d \in Decisions :
        r = a.job /\ d = a.decision /\ intent[r][d] # NoActor /\ intent[r][d] = a.intent
  BY <1>1 DEF AttemptSound, DecisionSteps, PlanSteps
<1>3. /\ asked' = asked \cup {<<r, d, intent[r][d]>>}
      /\ UNCHANGED <<intent, history, ran, cohort>>
  BY <1>1, <1>2 DEF Ask
<1>4. RH!Ask(r, d)
  BY <1>2, <1>3 DEF RH!Ask
<1> QED BY <1>4 DEF RH!Next

LEMMA LandMapped ==
  ASSUME AvailabilityInv, NEW q \in late, Land(q)
  PROVE  RH!Next \/ UNCHANGED RH!history
<1>1. UNCHANGED <<intent, history, ran, cohort>>
  BY DEF Land
<1>2. CASE q.request = "remove"
  BY <1>1, <1>2, HistoryStutters DEF HistoryVars, Land
<1>3. CASE q.request # "remove"
  <2>1. /\ q.job \in Jobs /\ q.decision \in Decisions /\ q.actor # NoActor
        /\ intent[q.job][q.decision] = q.actor
    BY AvailabilityAssumption
       DEF AvailabilityInv, TypeOK, LateRequest, RequestsSound, LateSound
  <2>2. asked' = asked \cup {<<q.job, q.decision, q.actor>>}
    BY <1>3 DEF Land
  <2>3. RH!Ask(q.job, q.decision)
    BY <1>1, <2>1, <2>2 DEF RH!Ask
  <2> QED BY <2>1, <2>3 DEF RH!Next
<1> QED BY <1>2, <1>3

\* A founded row that is accepted, with its cohort.
LEMMA AcceptedMapped ==
  ASSUME AvailabilityInv, NEW r \in Jobs, NEW d \in Decisions, NEW row \in Row,
         RowFounded(r, d, row), WellFormed(row), Accepts(r, d, row),
         UNCHANGED <<intent, asked, ran>>,
         \/ history[r][d] # NoRow /\ UNCHANGED <<history, cohort>>
         \/ /\ history[r][d] = NoRow /\ Record(r, d, row)
            /\ \E absent : StillApplies(r, d, row, absent)
  PROVE  RH!Next \/ UNCHANGED RH!history
<1>1. CASE UNCHANGED <<history, cohort>>
  BY <1>1, HistoryStutters DEF HistoryVars
<1>2. CASE /\ history[r][d] = NoRow /\ Record(r, d, row)
           /\ \E absent : StillApplies(r, d, row, absent)
  <2>1. LinkageValid(r, d, row)
    BY <1>2 DEF Accepts, RetryMatches
  <2>2. /\ row.actor # NoActor <=> row.outcome \in {"replaced", "simulated_replacement"}
        /\ row.outcome = "replaced" => row.linked
        /\ row.state = ExpectedState(row.outcome)
    BY DEF WellFormed, ProvenanceValid
  <2>3. row.outcome = "replaced" => intent[r][d] = row.actor
    BY <2>1, <2>2 DEF LinkageValid
  <2>4. CASE row.actor = NoActor
    <3>1. UNCHANGED cohort
      BY <1>2, <2>4 DEF Record, AvailabilityInv, TypeOK
    <3>2. row.outcome \notin {"replaced", "simulated_replacement"}
      BY <2>2, <2>4
    <3> QED BY <1>2, <2>2, <3>1, <3>2, RecordMapped DEF Record
  <2>5. CASE row.actor # NoActor
    <3>1. Absentee \in cohort[d] /\ row.actor \in Pool \ cohort[d]
      BY <1>2, <2>5 DEF StillApplies
    <3>2. cohort' = [cohort EXCEPT ![d] = (@ \ {Absentee}) \cup {row.actor}]
      BY <1>2, <2>5 DEF Record
    <3>3. row.outcome \in {"replaced", "simulated_replacement"}
      BY <2>2, <2>5
    <3> QED BY <1>2, <2>2, <2>3, <3>1, <3>2, <3>3, RecordMapped DEF Record
  <2> QED BY <2>4, <2>5
<1> QED BY <1>1, <1>2

LEMMA AuditedMapped ==
  ASSUME AvailabilityInv, NEW r \in Jobs, NEW d \in Decisions, NEW row \in Row,
         row.outcome = "permanent_failure", row.state = "permanent_failure",
         row.linked => intent[r][d] # NoActor, Audited(r, d, row),
         UNCHANGED <<intent, asked, ran, cohort>>
  PROVE  RH!Next \/ UNCHANGED RH!history
<1>1. CASE UNCHANGED history
  BY <1>1, HistoryStutters DEF HistoryVars
<1>2. CASE history[r][d] = NoRow /\ history' = [history EXCEPT ![r][d] = row]
  <2>1. RowFounded(r, d, row) /\ row.state = ExpectedState(row.outcome)
    BY DEF RowFounded, Outcomes, ExpectedState, HasFinalizer
  <2> QED BY <1>2, <2>1, RecordMapped
<1> QED BY <1>1, <1>2 DEF Audited

\* A revision that is given up as a whole.
LEMMA ExhaustMapped ==
  ASSUME AvailabilityInv, NEW r \in Jobs, Exhaust(r), UNCHANGED <<intent, asked, ran, cohort>>
  PROVE  RH!Next \/ UNCHANGED RH!history
<1>1. CASE UNCHANGED history
  BY <1>1, HistoryStutters DEF HistoryVars
<1>2. CASE history' = [history EXCEPT ![r] = GivenUp(r)]
  <2> DEFINE open == {d \in Decisions : intent[r][d] # NoActor /\ OutcomeOf[r][d] = "none"}
             pending == {d \in Decisions : StateOf[r][d] = "finalizer_pending"}
             outcomes == [d \in Decisions |-> IF d \in open THEN "permanent_failure"
                                                            ELSE OutcomeOf[r][d]]
             states == [d \in Decisions |-> IF d \in open \cup pending
                                            THEN "permanent_failure" ELSE StateOf[r][d]]
  <2>1. history \in [Jobs -> [Decisions -> Row]] /\ history' \in [Jobs -> [Decisions -> Row]]
    BY <1>2, GivenUpRows, TableTypes
  <2>2. /\ OutcomeOf \in [Jobs -> [Decisions -> Outcomes \cup {"none"}]]
        /\ StateOf \in [Jobs -> [Decisions -> RowState \cup {"none"}]]
    BY <2>1, MapTypes
  <2>3. /\ OutcomeOf' \in [Jobs -> [Decisions -> Outcomes \cup {"none"}]]
        /\ StateOf' \in [Jobs -> [Decisions -> RowState \cup {"none"}]]
    BY <2>1 DEF OutcomeOf, StateOf, Row
  <2>4. open = OpenIntents(r)
    BY OwnRows DEF OpenIntents, OutcomeOf
  <2>5. \A q \in Jobs : q # r => history'[q] = history[q]
    BY <1>2, <2>1
  <2>6. history'[r] = GivenUp(r)
    BY <1>2, <2>1
  <2>7. ASSUME NEW d \in Decisions
        PROVE  history'[r][d].outcome = outcomes[d] /\ history'[r][d].state = states[d]
    <3>1. history[r][d] \in Row
      BY <2>1
    <3>2. OutcomeOf[r][d] = history[r][d].outcome /\ StateOf[r][d] = history[r][d].state
      BY DEF OutcomeOf, StateOf
    <3>3. history'[r][d] =
            IF d \in open
            THEN [outcome |-> "permanent_failure", actor |-> NoActor, linked |-> TRUE,
                  state |-> "permanent_failure", stamp |-> 0]
            ELSE IF history[r][d].state = "finalizer_pending"
            THEN [history[r][d] EXCEPT !.state = "permanent_failure"]
            ELSE history[r][d]
      BY <2>4, <2>6 DEF GivenUp
    <3>4. d \in pending <=> history[r][d].state = "finalizer_pending"
      BY <3>2
    <3> HIDE DEF open, pending
    <3>5. CASE d \in open
      BY <3>3, <3>5
    <3>6. CASE d \notin open /\ d \in pending
      BY <3>1, <3>2, <3>3, <3>4, <3>6 DEF Row
    <3>7. CASE d \notin open /\ d \notin pending
      BY <3>2, <3>3, <3>4, <3>7
    <3> QED BY <3>5, <3>6, <3>7
  <2>8. outcomes \in [Decisions -> Outcomes \cup {"none"}]
    BY <2>2 DEF Outcomes
  <2>9. states \in [Decisions -> RowState \cup {"none"}]
    BY <2>2 DEF RowState
  <2>10. PICK os \in [Decisions -> Outcomes \cup {"none"}],
              ss \in [Decisions -> RowState \cup {"none"}] : os = outcomes /\ ss = states
    BY <2>8, <2>9
  <2> HIDE DEF outcomes, states, open, pending
  <2>11. OutcomeOf' = [OutcomeOf EXCEPT ![r] = os]
    <3>1. \A q \in Jobs : \A e \in Decisions :
            OutcomeOf'[q][e] = IF q = r THEN os[e] ELSE OutcomeOf[q][e]
      BY <2>5, <2>7, <2>10 DEF OutcomeOf
    <3> QED BY <2>2, <2>3, <3>1, TableRow
  <2>12. StateOf' = [StateOf EXCEPT ![r] = ss]
    <3>1. \A q \in Jobs : \A e \in Decisions :
            StateOf'[q][e] = IF q = r THEN ss[e] ELSE StateOf[q][e]
      BY <2>5, <2>7, <2>10 DEF StateOf
    <3> QED BY <2>2, <2>3, <3>1, TableRow
  <2>13. RH!GiveUp(r)
    BY <2>10, <2>11, <2>12
       DEF RH!GiveUp, OutcomeOf, StateOf, outcomes, states, open, pending
  <2> QED BY <2>13 DEF RH!Next
<1> QED BY <1>1, <1>2 DEF Exhaust

LEMMA CompleteMapped ==
  ASSUME AvailabilityInv, NEW w \in Workers, NEW answered \in BOOLEAN, Complete(w, answered)
  PROVE  RH!Next \/ UNCHANGED RH!history
<1>1. PICK a \in Attempt : a = attempt[w] /\ AttemptSound(a) /\ a.step = "complete"
  BY OwnAttempt DEF Complete, At
<1>2. PICK r \in Jobs, d \in Decisions : r = a.job /\ d = a.decision /\ <<r, d>> \in ran
  BY <1>1 DEF AttemptSound, DecisionSteps
<1>3. /\ history[r][d].state \in {"finalizer_pending", "completed"}
      /\ history' = [history EXCEPT ![r][d].state = "completed"]
      /\ UNCHANGED <<intent, asked, ran, cohort>>
  BY <1>1, <1>2 DEF Complete, ghosts
<1>4. PICK row \in Row : row = history[r][d]
  BY OwnRows
<1>5. PICK done : done = [row EXCEPT !.state = "completed"]
  OBVIOUS
<1>6. done \in Row /\ done.outcome = row.outcome /\ done.state = "completed"
  BY <1>5 DEF Row, RowState
<1>7. history' = [history EXCEPT ![r][d] = done]
  BY <1>3, <1>4, <1>5
<1>8. CASE row.state = "completed"
  <2>1. done = row
    BY <1>5, <1>8 DEF Row
  <2>2. history' = history
    BY <1>4, <1>7, <2>1, TableTypes
  <2> QED BY <1>3, <2>2, HistoryStutters DEF HistoryVars
<1>9. CASE row.state = "finalizer_pending"
  <2>1. /\ OutcomeOf' = [OutcomeOf EXCEPT ![r][d] = done.outcome]
        /\ StateOf' = [StateOf EXCEPT ![r][d] = done.state]
    <3>1. OutcomeOf' = [OutcomeOf EXCEPT ![r][d] = done.outcome]
      BY <1>6, <1>7, RowMapped
    <3>2. StateOf' = [StateOf EXCEPT ![r][d] = done.state]
      BY <1>6, <1>7, RowMapped
    <3> QED BY <3>1, <3>2
  <2>2. OutcomeOf[r][d] = row.outcome /\ StateOf[r][d] = "finalizer_pending"
    BY <1>4, <1>9 DEF OutcomeOf, StateOf
  <2>3. OutcomeOf' = OutcomeOf
    <3>1. OutcomeOf \in [Jobs -> [Decisions -> Outcomes \cup {"none"}]]
      BY MapTypes, TableTypes
    <3> QED BY <1>6, <2>1, <2>2, <3>1
  <2>4. StateOf' = [StateOf EXCEPT ![r][d] = "completed"]
    BY <1>6, <2>1
  <2>5. RH!Complete(r, d)
    BY <1>2, <1>3, <2>2, <2>3, <2>4 DEF RH!Complete, OutcomeOf, StateOf
  <2> QED BY <2>5 DEF RH!Next
<1> QED BY <1>3, <1>4, <1>8, <1>9

LEMMA FinalizeMapped ==
  ASSUME AvailabilityInv, NEW w \in Workers, NEW answered \in BOOLEAN, Finalize(w, answered)
  PROVE  RH!Next
<1>1. PICK a \in Attempt : a = attempt[w] /\ AttemptSound(a) /\ a.step = "finalize"
  BY OwnAttempt DEF Finalize, At
<1>2. PICK r \in Jobs, d \in Decisions :
        r = a.job /\ d = a.decision /\ HasFinalizer(history[r][d].outcome)
  BY <1>1 DEF AttemptSound, DecisionSteps
<1>3. ran' = ran \cup {<<r, d>>} /\ UNCHANGED <<intent, asked, history, cohort>>
  BY <1>1, <1>2 DEF Finalize
<1>4. RH!Finalize(r, d)
  BY <1>2, <1>3 DEF RH!Finalize, HasFinalizer
<1> QED BY <1>4 DEF RH!Next

LEMMA RecordsMapped ==
  ASSUME AvailabilityInv, NEW w \in Workers, NEW answered \in BOOLEAN,
         \/ Persist(w, answered) \/ Audit(w, answered) \/ RecoverPersist(w, answered)
         \/ RecoverAudit(w, answered)
  PROVE  RH!Next \/ UNCHANGED RH!history
<1>1. PICK a \in Attempt : a = attempt[w] /\ AttemptSound(a)
  BY OwnAttempt
<1>2. a.step \in {"persist", "audit", "recover persist", "recover audit"}
  BY <1>1 DEF Persist, Audit, RecoverPersist, RecoverAudit, At
<1>3. PICK r \in Jobs, d \in Decisions, row \in Row :
        r = a.job /\ d = a.decision /\ row = a.row /\ RowFounded(r, d, row)
  <2>1. a.job \in Jobs /\ a.decision \in Decisions /\ RowFounded(a.job, a.decision, a.row)
    BY <1>1, <1>2 DEF AttemptSound, DecisionSteps, RowSteps
  <2> QED BY <2>1 DEF Attempt
<1>4. UNCHANGED <<intent, asked, ran>>
  BY DEF Persist, Audit, RecoverPersist, RecoverAudit, ghosts
<1>5. CASE Persist(w, answered)
  <2>1. /\ WellFormed(row) /\ Accepts(r, d, row)
        /\ \/ history[r][d] # NoRow /\ UNCHANGED <<history, cohort>>
           \/ /\ history[r][d] = NoRow /\ Record(r, d, row)
              /\ \E absent : StillApplies(r, d, row, absent)
    BY <1>1, <1>3, <1>5 DEF Persist
  <2> QED BY <1>3, <1>4, <2>1, AcceptedMapped
<1>6. CASE Audit(w, answered)
  <2>1. row.outcome = "permanent_failure" /\ row.state = "permanent_failure"
    BY <1>1, <1>3, <1>6 DEF Audit, At, AttemptSound
  <2>2. Audited(r, d, row) /\ UNCHANGED cohort /\ (row.linked => intent[r][d] # NoActor)
    BY <1>1, <1>3, <1>6 DEF Audit, RowFounded
  <2> QED BY <1>4, <2>1, <2>2, AuditedMapped
<1>7. CASE RecoverPersist(w, answered)
  <2>1. WellFormed(row)
    BY <1>1, <1>3, <1>7 DEF RecoverPersist, At, AttemptSound, RecoveryFounded
  <2>2. CASE row.outcome = "permanent_failure"
    <3>1. row.state = "permanent_failure"
      BY <2>1, <2>2 DEF WellFormed, ExpectedState, HasFinalizer
    <3>2. Audited(r, d, row) /\ UNCHANGED cohort /\ (row.linked => intent[r][d] # NoActor)
      BY <1>1, <1>3, <1>7, <2>2 DEF RecoverPersist, RowFounded
    <3> QED BY <1>4, <2>2, <3>1, <3>2, AuditedMapped
  <2>3. CASE row.outcome # "permanent_failure"
    <3>1. /\ Accepts(r, d, row)
          /\ \/ history[r][d] # NoRow /\ UNCHANGED <<history, cohort>>
             \/ /\ history[r][d] = NoRow /\ Record(r, d, row)
                /\ \E absent : StillApplies(r, d, row, absent)
      BY <1>1, <1>3, <1>7, <2>3 DEF RecoverPersist
    <3> QED BY <1>3, <1>4, <2>1, <3>1, AcceptedMapped
  <2> QED BY <2>2, <2>3
<1>8. CASE RecoverAudit(w, answered)
  <2>1. PICK audit \in Row :
          /\ audit = AuditOf(row) /\ audit.outcome = "permanent_failure"
          /\ audit.state = "permanent_failure" /\ audit.linked = row.linked
    <3>1. /\ AuditOf(row) \in Row /\ AuditOf(row).outcome = "permanent_failure"
          /\ AuditOf(row).state = "permanent_failure" /\ AuditOf(row).linked = row.linked
      BY DEF AuditOf, Row, Outcomes, RowState
    <3> QED BY <3>1
  <2>2. /\ Audited(r, d, audit) /\ UNCHANGED cohort
        /\ audit.linked => intent[r][d] # NoActor
    BY <1>1, <1>3, <1>8, <2>1 DEF RecoverAudit, RowFounded
  <2> QED BY <1>4, <2>1, <2>2, AuditedMapped
<1> QED BY <1>5, <1>6, <1>7, <1>8

\* Every other step leaves the history alone.
LEMMA HistoryKept ==
  ASSUME NEW w \in Workers, NEW answered \in BOOLEAN,
         \/ Quietly(w) \/ Succeed(w) \/ Retry(w) \/ TimeOut(w) \/ Die(w)
         \/ Remove(w, answered)
  PROVE  UNCHANGED HistoryVars
BY QuietlyShared DEF HistoryVars, shared, ghosts, Succeed, Retry, TimeOut, Die, Remove

LEMMA HistoryStep ==
  ASSUME AvailabilityInv, [AvailabilityNext]_availabilityVars
  PROVE  [RH!Next]_RH!history
<1>1. ASSUME NEW w \in Workers, NEW answered \in BOOLEAN, Effect(w, answered)
      PROVE  RH!Next \/ UNCHANGED RH!history
  BY <1>1, PrepareMapped, AskMapped, FinalizeMapped, CompleteMapped, RecordsMapped,
     HistoryKept, HistoryStutters DEF Effect
<1>2. ASSUME NEW w \in Workers, GiveUp(w)
      PROVE  RH!Next \/ UNCHANGED RH!history
  <2>1. attempt[w].job \in Jobs
    BY <1>2, OwnAttempt DEF GiveUp, AttemptSound
  <2> QED BY <1>2, <2>1, ExhaustMapped DEF GiveUp, ghosts
<1>3. ASSUME NEW r \in Jobs, NEW whole \in BOOLEAN, Sweep(r, whole)
      PROVE  RH!Next \/ UNCHANGED RH!history
  <2>1. UNCHANGED <<intent, asked, ran, cohort>> /\ (Exhaust(r) \/ UNCHANGED history)
    BY <1>3 DEF Sweep, SweepEffect, ghosts
  <2>2. CASE Exhaust(r)
    BY <2>1, <2>2, ExhaustMapped
  <2>3. CASE UNCHANGED history
    BY <2>1, <2>3, HistoryStutters DEF HistoryVars
  <2> QED BY <2>1, <2>2, <2>3
<1>4. ASSUME NEW w \in Workers, Step(w) \/ Fault(w)
      PROVE  RH!Next \/ UNCHANGED RH!history
  <2>1. CASE Effect(w, TRUE) \/ Effect(w, FALSE)
    BY <1>1, <2>1
  <2>2. CASE GiveUp(w)
    BY <1>2, <2>2
  <2>3. CASE Quietly(w) \/ Succeed(w) \/ Retry(w) \/ TimeOut(w) \/ Die(w)
    BY <2>3, HistoryKept, HistoryStutters
  <2> QED BY <1>4, <2>1, <2>2, <2>3 DEF Step, Fault, Regular, Quietly
<1>5. CASE Queue
  <2>1. ASSUME NEW w \in Workers, NEW r \in Jobs, Claim(w, r) PROVE UNCHANGED HistoryVars
    BY <2>1 DEF Claim, HistoryVars, ghosts
  <2> QED BY <1>3, <1>5, <2>1, HistoryStutters DEF Queue
<1>6. CASE \/ \E window \in {"upcoming", "active"} : Schedule(window)
           \/ Time \/ Environment
  <2>1. UNCHANGED HistoryVars
    BY <1>6 DEF HistoryVars, ghosts, Schedule, Time, MoveWindow, Environment, Revise, Cancel,
                Changed, SetConnection, OtherAbsence, Close, Push, Review, PullChanges,
                Supersede, EvaluatePolicy
  <2> QED BY <2>1, HistoryStutters
<1>7. ASSUME NEW q \in late, Land(q) PROVE RH!Next \/ UNCHANGED RH!history
  BY <1>7, LandMapped
<1>8. CASE UNCHANGED availabilityVars
  BY <1>8, HistoryStutters DEF availabilityVars, shared, HistoryVars, ghosts
<1> QED BY <1>3, <1>4, <1>5, <1>6, <1>7, <1>8 DEF AvailabilityNext

\* The detailed activation implements the abstract history of replacements.
THEOREM HistoryImplemented == AvailabilitySpec => ImplementsHistory
<1>1. AvailabilityInit => RH!Init
  BY HistoryInit
<1>2. AvailabilityInv /\ [AvailabilityNext]_availabilityVars => [RH!Next]_RH!history
  BY HistoryStep
<1> QED BY <1>1, <1>2, AvailabilityInvariant, PTL
        DEF AvailabilitySpec, ImplementsHistory, RH!Spec

-----------------------------------------------------------------------------
(* One worker: what is unfinished when a job is settled *)

\* With one worker no attempt outlives its lease: the sweep, which alone takes a
\* job from its holder, is run by a worker that is idle.
OneWorker == \A u, v \in Workers : u = v

Pending(r) == {d \in Decisions : history[r][d].state = "finalizer_pending"}

\* Steps at which the revision has no row that waits for its finalizer.
EmptySteps == PlanSteps \cup {"list intents", "load", "next", "next intent", "audit",
                              "succeed"}

\* The rows that may wait for their finalizer while an attempt is at work: those
\* it has still to replay, and the one it is about.
Awaited(a) ==
  (IF a.from = "replay" THEN a.todo ELSE {}) \cup {a.decision}

AttemptAwaits(a) ==
  /\ a.step \in {"recover load", "recover persist", "recover audit"} => a.from = "recover"
  /\ a.step \in EmptySteps => Pending(a.job) = {}
  /\ a.step = "replay" => Pending(a.job) \subseteq a.todo
  /\ a.step \in {"finalize", "complete"} /\ a.from # "recover" =>
       Pending(a.job) \subseteq Awaited(a)

\* Whoever is at work holds the job.
HoldersWork == \A w \in Workers : ~At(w, "idle") => HoldsJob(w)

RevisionSettled(r) ==
  /\ job[r].status = "succeeded" => Pending(r) = {}
  /\ lastError[r] = "given up" =>
       job[r].status = "failed" /\ Pending(r) = {} /\ OpenIntents(r) = {}

SettledInv ==
  /\ HoldersWork
  /\ \A w \in Workers : AttemptAwaits(attempt[w])
  /\ \A r \in Jobs : RevisionSettled(r)

\* The attempt of a worker goes on as b, about the same job, and its revision has
\* no more pending rows than b may leave.
MovesTo(w, b) ==
  /\ attempt' = [attempt EXCEPT ![w] = b]
  /\ b.step # "idle" => b.job = attempt[w].job
  /\ AttemptAwaits(b)

\* Steps that any row may wait at.
EndSteps == {"idle", "caught", "give back", "list finalizers"}

LEMMA EndAwaits ==
  ASSUME NEW b, b.step \in EndSteps PROVE AttemptAwaits(b)
BY DEF EndSteps, AttemptAwaits, EmptySteps, PlanSteps

LEMMA EmptyAwaits ==
  ASSUME NEW b, b.step \in EmptySteps, Pending(b.job) = {} PROVE AttemptAwaits(b)
BY DEF AttemptAwaits, EmptySteps, PlanSteps

LEMMA CaughtFacts ==
  ASSUME NEW a \in Attempt
  PROVE  Caught(a).step = "caught" /\ Caught(a).job = a.job
BY DEF Caught, Attempt

LEMMA GivenBackFacts ==
  ASSUME NEW a \in Attempt, NEW phase \in Phases \cup {"none"},
         NEW error \in {"transient", "permanent"}, NEW b, b = GivenBack(a, phase, error)
  PROVE  b.job = a.job /\ (b.step = "caught" \/ b.step = "give back")
BY CaughtFacts DEF GivenBack, Attempt

\* An error leads to the end of the attempt, or from a plan to the record of a
\* permanent failure.
LEMMA FailedFacts ==
  ASSUME NEW a \in Attempt, NEW error \in {"transient", "permanent"}, NEW b, b = Failed(a, error)
  PROVE  /\ b.job = a.job
         /\ \/ b.step = "caught" \/ b.step = "give back"
            \/ b.step = "persist" /\ a.step \in PlanSteps /\ error = "permanent"
<1>1. CASE a.step \in {"finalize", "complete", "audit", "recover persist", "recover audit"}
  <2>1. b = GivenBack(a, PhaseOf(a.step), error)
    BY <1>1 DEF Failed, MutationSteps
  <2>2. PICK phase \in Phases \cup {"none"} : phase = PhaseOf(a.step)
    BY DEF PhaseOf, Phases
  <2>3. b = GivenBack(a, phase, error)
    BY <2>1, <2>2, Zenon
  <2>4. b.job = a.job /\ (b.step = "caught" \/ b.step = "give back")
    BY <2>3, GivenBackFacts, Zenon
  <2> QED BY <2>4
<1>2. CASE a.step = "recover load"
  <2>1. b = GivenBack(a, a.phase, error)
    BY <1>2 DEF Failed, MutationSteps
  <2>2. a.phase \in Phases \cup {"none"}
    BY DEF Attempt
  <2>3. b.job = a.job /\ (b.step = "caught" \/ b.step = "give back")
    BY <2>1, <2>2, GivenBackFacts, Zenon
  <2> QED BY <2>3
<1>3. CASE a.step = "persist" /\ a.effects
  <2>1. b = GivenBack(a, "persist_replacement", error)
    BY <1>3 DEF Failed, MutationSteps
  <2>2. PICK phase \in Phases \cup {"none"} : phase = "persist_replacement"
    BY DEF Phases
  <2>3. b = GivenBack(a, phase, error)
    BY <2>1, <2>2, Zenon
  <2>4. b.job = a.job /\ (b.step = "caught" \/ b.step = "give back")
    BY <2>3, GivenBackFacts, Zenon
  <2> QED BY <2>4
<1>4. CASE a.step \in MutationSteps \cup {"inspect"} /\ error = "permanent"
  <2>1. b = [a EXCEPT !.step = "persist", !.row = PermanentFailure(a),
                                     !.effects = a.step \in MutationSteps]
    BY <1>4 DEF Failed, MutationSteps
  <2>2. a.step \in PlanSteps
    BY <1>4 DEF PlanSteps, MutationSteps
  <2>3. b.step = "persist" /\ b.job = a.job
    BY <2>1 DEF Attempt
  <2> QED BY <1>4, <2>2, <2>3
<1>5. CASE /\ a.step \notin {"finalize", "complete", "audit", "recover persist",
                             "recover audit", "recover load"}
           /\ ~(a.step = "persist" /\ a.effects)
           /\ ~(a.step \in MutationSteps \cup {"inspect"} /\ error = "permanent")
  <2>1. b = Caught(a)
    BY <1>5 DEF Failed
  <2> QED BY <2>1, CaughtFacts
<1> QED BY <1>1, <1>2, <1>3, <1>4, <1>5

\* An attempt that is over, or whose revision has nothing pending, goes on.
LEMMA EndMoves ==
  ASSUME NEW w \in Workers, NEW b, b.step \in EndSteps, b.job = attempt[w].job,
         Proceed(w, b)
  PROVE  MovesTo(w, b)
BY EndAwaits DEF MovesTo, Proceed

LEMMA EmptyMoves ==
  ASSUME NEW w \in Workers, AttemptAwaits(attempt[w]), attempt[w].step \in EmptySteps,
         NEW b, b.step \in EmptySteps, b.job = attempt[w].job, Proceed(w, b)
  PROVE  MovesTo(w, b)
<1>1. Pending(b.job) = {}
  BY DEF AttemptAwaits
<1> QED BY <1>1, EmptyAwaits DEF MovesTo, Proceed

LEMMA CaughtMoves ==
  ASSUME AvailabilityInv, NEW w \in Workers, Proceed(w, Caught(attempt[w]))
  PROVE  \E b : MovesTo(w, b)
<1>1. Caught(attempt[w]).step \in EndSteps /\ Caught(attempt[w]).job = attempt[w].job
  BY OwnAttempt, CaughtFacts DEF EndSteps
<1> QED BY <1>1, EndMoves

LEMMA FailedMoves ==
  ASSUME AvailabilityInv, NEW w \in Workers, AttemptAwaits(attempt[w]),
         NEW error \in {"transient", "permanent"}, Proceed(w, Failed(attempt[w], error))
  PROVE  \E b : MovesTo(w, b)
<1>1. PICK b : b = Failed(attempt[w], error)
  OBVIOUS
<1>0. PICK a \in Attempt : a = attempt[w]
  BY OwnAttempt
<1>2. /\ b.job = a.job
      /\ \/ b.step = "caught" \/ b.step = "give back"
         \/ b.step = "persist" /\ a.step \in PlanSteps /\ error = "permanent"
  BY <1>0, <1>1, FailedFacts, Zenon
<1>3. Proceed(w, b)
  BY <1>1
<1>4. CASE b.step = "caught" \/ b.step = "give back"
  <2>1. b.step \in EndSteps /\ b.job = attempt[w].job
    BY <1>0, <1>2, <1>4 DEF EndSteps
  <2> QED BY <1>3, <2>1, EndMoves, Zenon
<1>5. CASE b.step = "persist" /\ a.step \in PlanSteps
  BY <1>0, <1>2, <1>3, <1>5, EmptyMoves DEF EmptySteps, PlanSteps
<1> QED BY <1>2, <1>4, <1>5

LEMMA GotoMoves ==
  ASSUME AvailabilityInv, NEW w \in Workers, AttemptAwaits(attempt[w]),
         NEW s, s \in EmptySteps, Pending(attempt[w].job) = {}, Goto(w, s)
  PROVE  \E b : MovesTo(w, b)
<1>1. PICK b : b = [attempt[w] EXCEPT !.step = s]
  OBVIOUS
<1>2. b.step = s /\ b.job = attempt[w].job
  BY <1>1, OwnAttempt DEF Attempt
<1>3. attempt' = [attempt EXCEPT ![w] = b]
  BY <1>1 DEF Goto
<1>4. AttemptAwaits(b)
  BY <1>2, EmptyAwaits
<1> QED BY <1>2, <1>3, <1>4 DEF MovesTo

\* The steps that come before the plans.
LEMMA ListFinalizersMoves ==
  ASSUME AvailabilityInv, NEW w \in Workers, ListFinalizers(w)
  PROVE  \E b : MovesTo(w, b)
<1>1. PICK a \in Attempt : a = attempt[w]
  BY OwnAttempt
<1>2. PICK b : b = [a EXCEPT !.step = "replay", !.from = "replay", !.effects = FALSE,
                       !.started = absence.window, !.away = away, !.phase = "none",
                       !.todo = Pending(a.job)]
  OBVIOUS
<1>3. Proceed(w, Caught(attempt[w])) \/ Proceed(w, b)
  BY <1>1, <1>2 DEF ListFinalizers, Pending
<1>4. b.step = "replay" /\ b.job = a.job /\ b.todo = Pending(a.job)
  BY <1>2 DEF Attempt
<1>5. AttemptAwaits(b)
  BY <1>4 DEF AttemptAwaits, EmptySteps, PlanSteps
<1>6. CASE Proceed(w, b)
  BY <1>1, <1>4, <1>5, <1>6 DEF MovesTo, Proceed
<1> QED BY <1>3, <1>6, CaughtMoves

LEMMA ReplayMoves ==
  ASSUME AvailabilityInv, NEW w \in Workers, AttemptAwaits(attempt[w]), Replay(w)
  PROVE  \E b : MovesTo(w, b)
<1>1. PICK a \in Attempt : a = attempt[w] /\ AttemptAwaits(a) /\ a.step = "replay"
  BY OwnAttempt DEF Replay, At
<1>2. Pending(a.job) \subseteq a.todo
  BY <1>1 DEF AttemptAwaits
<1>3. CASE a.todo = {} /\ Goto(w, "list intents")
  BY <1>1, <1>2, <1>3, GotoMoves DEF EmptySteps
<1>4. ASSUME NEW d \in a.todo,
             Proceed(w, [a EXCEPT !.step = "finalize", !.todo = @ \ {d}, !.decision = d,
                                  !.row = history[a.job][d]])
      PROVE  \E b : MovesTo(w, b)
  <2>1. PICK b : b = [a EXCEPT !.step = "finalize", !.todo = @ \ {d}, !.decision = d,
                               !.row = history[a.job][d]]
    OBVIOUS
  <2>2. /\ b.step = "finalize" /\ b.job = a.job /\ b.todo = a.todo \ {d} /\ b.decision = d
        /\ b.from = a.from
    BY <2>1 DEF Attempt
  <2>3. a.from = "replay"
    BY <1>1, OwnAttempt DEF AttemptSound
  <2>4. Pending(b.job) \subseteq Awaited(b)
    BY <1>2, <2>2, <2>3 DEF Awaited
  <2>5. AttemptAwaits(b)
    BY <2>2, <2>4 DEF AttemptAwaits, EmptySteps, PlanSteps
  <2> QED BY <1>1, <1>4, <2>1, <2>2, <2>5 DEF MovesTo, Proceed
<1> QED BY <1>1, <1>3, <1>4 DEF Replay

LEMMA ListIntentsMoves ==
  ASSUME AvailabilityInv, NEW w \in Workers, AttemptAwaits(attempt[w]), ListIntents(w)
  PROVE  \E b : MovesTo(w, b)
<1>1. PICK a \in Attempt : a = attempt[w]
  BY OwnAttempt
<1>2. PICK b : b = [a EXCEPT !.step = "load", !.open = OpenIntents(a.job)]
  OBVIOUS
<1>3. b.step \in EmptySteps /\ b.job = attempt[w].job
  BY <1>1, <1>2 DEF Attempt, EmptySteps
<1>4. attempt[w].step \in EmptySteps
  BY DEF ListIntents, At, EmptySteps
<1>5. Proceed(w, Caught(attempt[w])) \/ Proceed(w, b)
  BY <1>1, <1>2 DEF ListIntents
<1>6. CASE Proceed(w, b)
  BY <1>3, <1>4, <1>6, EmptyMoves, Zenon
<1> QED BY <1>5, <1>6, CaughtMoves

LEMMA LoadMoves ==
  ASSUME AvailabilityInv, NEW w \in Workers, AttemptAwaits(attempt[w]), Load(w)
  PROVE  \E b : MovesTo(w, b)
<1>1. PICK a \in Attempt : a = attempt[w]
  BY OwnAttempt
<1>2. PICK b : b = IF Current(a.job) /\ connection = "active" /\ a.started = "active"
                   THEN [a EXCEPT !.step = "next", !.from = "candidate", !.seen = policy,
                                  !.todo = Activated(a.job)]
                   ELSE [a EXCEPT !.step = "next intent"]
  OBVIOUS
<1>3. b.step \in EmptySteps /\ b.job = attempt[w].job
  BY <1>1, <1>2 DEF Attempt, EmptySteps
<1>4. attempt[w].step \in EmptySteps
  BY DEF Load, At, EmptySteps
<1>5. Proceed(w, b)
  BY <1>1, <1>2 DEF Load
<1> QED BY <1>3, <1>4, <1>5, EmptyMoves, Zenon

\* A plan leads to a step of the same decision's plan.
LEMMA FirstPlanFacts ==
  ASSUME NEW a \in Attempt, NEW b, b = FirstPlan(a)
  PROVE  b.step \in EmptySteps /\ b.job = a.job
<1>1. b.job = a.job /\ (b.step = "persist" \/ b.step = "inspect")
  BY DEF FirstPlan, Attempt
<1> QED BY <1>1 DEF EmptySteps, PlanSteps

LEMMA AfterPlanFacts ==
  ASSUME NEW a \in Attempt, NEW row \in Row, NEW b, b = AfterPlan(a, row)
  PROVE  b.step \in EmptySteps /\ b.job = a.job
<1>1. PICK next : next = [a EXCEPT !.row = row]
  OBVIOUS
<1>2. next \in Attempt /\ next.job = a.job
  BY <1>1 DEF Attempt
<1>3. \/ b = [next EXCEPT !.step = "prepare"]
      \/ b = [next EXCEPT !.step = "inspect", !.round = 2]
      \/ b = [next EXCEPT !.step = "check"]
      \/ b = [next EXCEPT !.step = "persist"]
  BY <1>1 DEF AfterPlan
<1>4. b.job = a.job /\ b.step \in {"prepare", "inspect", "check", "persist"}
  BY <1>2, <1>3 DEF Attempt
<1> QED BY <1>4 DEF EmptySteps, PlanSteps

LEMMA NextCandidateMoves ==
  ASSUME AvailabilityInv, NEW w \in Workers, AttemptAwaits(attempt[w]), NextCandidate(w)
  PROVE  \E b : MovesTo(w, b)
<1> DEFINE a == attempt[w]
           d == CHOOSE c \in a.todo : \A e \in a.todo : c <= e
           x == IF Mode[d] = "enforce" THEN intent[a.job][d] ELSE NoActor
           p == [a EXCEPT !.todo = @ \ {d}, !.decision = d, !.round = 1,
                          !.selection = {NoActor}, !.effects = FALSE, !.intent = x]
<1>1. a \in Attempt /\ AttemptSound(a) /\ a.step = "next"
  BY OwnAttempt DEF NextCandidate, At
<1>2. a.step \in EmptySteps
  BY <1>1 DEF EmptySteps
<1>3. CASE Goto(w, "next intent")
  <2>1. Pending(a.job) = {}
    BY <1>2 DEF AttemptAwaits
  <2> QED BY <1>3, <2>1, GotoMoves DEF EmptySteps
<1>4. CASE a.todo # {} /\ Proceed(w, FirstPlan(p))
  <2>1. a.todo \subseteq Decisions /\ a.todo \subseteq Nat
    BY <1>1, AvailabilityAssumption DEF Attempt
  <2>2. d \in a.todo /\ d \in Decisions
    BY <1>4, <2>1, LeastOf
  <2>3. a.job \in Jobs
    BY <1>1 DEF AttemptSound
  <2> HIDE DEF d
  <2>4. x \in Actors \cup {NoActor}
    BY <2>2, <2>3, OwnRows
  <2> HIDE DEF x
  <2>5. p \in Attempt /\ p.job = a.job
    BY <1>1, <2>2, <2>4 DEF Attempt
  <2> HIDE DEF p
  <2>6. PICK b : b = FirstPlan(p)
    OBVIOUS
  <2>7. b.step \in EmptySteps /\ b.job = a.job
    BY <2>5, <2>6, FirstPlanFacts, Zenon
  <2>8. Proceed(w, b)
    BY <1>4, <2>6
  <2> QED BY <1>2, <2>7, <2>8, EmptyMoves, Zenon
<1> QED BY <1>3, <1>4 DEF NextCandidate

\* The plan for an actor.
LEMMA ReplacementMoves ==
  ASSUME AvailabilityInv, NEW w \in Workers, AttemptAwaits(attempt[w]),
         attempt[w].step \in EmptySteps, NEW a \in Attempt, a.job = attempt[w].job,
         NEW row \in Row, Proceed(w, AfterPlan(a, row))
  PROVE  \E b : MovesTo(w, b)
<1>1. PICK b : b = AfterPlan(a, row)
  OBVIOUS
<1>2. b.step \in EmptySteps /\ b.job = attempt[w].job
  BY <1>1, AfterPlanFacts, Zenon
<1>3. Proceed(w, b)
  BY <1>1
<1> QED BY <1>2, <1>3, EmptyMoves, Zenon

LEMMA InspectMoves ==
  ASSUME AvailabilityInv, NEW w \in Workers, AttemptAwaits(attempt[w]), Inspect(w)
  PROVE  \E b : MovesTo(w, b)
<1>1. PICK o \in Attempt : o = attempt[w] /\ AttemptSound(o) /\ o.step = "inspect"
  BY OwnAttempt DEF Inspect, At
<1>2. o.decision \in Decisions /\ attempt[w].step \in EmptySteps
  BY <1>1 DEF AttemptSound, DecisionSteps, EmptySteps, PlanSteps
<1>3. PICK a : a = [o EXCEPT !.approved = pull[o.decision].approved]
  OBVIOUS
<1>4. /\ a \in Attempt /\ a.job = attempt[w].job /\ a.decision = o.decision
      /\ a.step = o.step
  <2>1. pull[o.decision].approved \subseteq Actors
    BY <1>2 DEF AvailabilityInv, TypeOK, PullRequest
  <2> QED BY <1>1, <1>3, <2>1 DEF Attempt
<1>5. PICK outcome : outcome = TerminalOutcome(pull[a.decision])
  OBVIOUS
<1>6. \/ outcome # "none"
         /\ Proceed(w, AfterPlan(a, Planned(a, outcome, NoActor,
                                            PlannedState(a.decision, outcome))))
      \/ a.intent # NoActor /\ Proceed(w, AfterPlan(a, ReplacementRow(a, a.intent)))
      \/ \E x \in Choices(a.approved, a.selection) :
           Proceed(w, AfterPlan(a, ReplacementRow(a, x)))
      \/ Proceed(w, [a EXCEPT !.step = "select"])
  BY <1>1, <1>3, <1>5 DEF Inspect
<1>7. ASSUME NEW x \in Actors \cup {NoActor}, Proceed(w, AfterPlan(a, ReplacementRow(a, x)))
      PROVE  \E b : MovesTo(w, b)
  <2>1. ReplacementRow(a, x) \in Row
    BY <1>2, <1>4, ReplacementRowFacts
  <2> QED BY <1>2, <1>4, <1>7, <2>1, ReplacementMoves
<1>8. CASE outcome # "none"
           /\ Proceed(w, AfterPlan(a, Planned(a, outcome, NoActor,
                                               PlannedState(a.decision, outcome))))
  <2>1. PICK state : state = PlannedState(a.decision, outcome)
    OBVIOUS
  <2>2. outcome \in Outcomes /\ state \in RowState
    BY <1>5, <1>8, <2>1, TerminalOutcomes, PlannedStateType
  <2>3. Planned(a, outcome, NoActor, state) \in Row
    BY <1>4, <2>2, PlannedRow
  <2> QED BY <1>2, <1>4, <1>8, <2>1, <2>3, ReplacementMoves
<1>9. CASE Proceed(w, [a EXCEPT !.step = "select"])
  <2>1. PICK b : b = [a EXCEPT !.step = "select"]
    OBVIOUS
  <2>2. b.step \in EmptySteps /\ b.job = attempt[w].job
    BY <1>4, <2>1 DEF Attempt, EmptySteps, PlanSteps
  <2> QED BY <1>2, <1>9, <2>1, <2>2, EmptyMoves, Zenon
<1>10. a.intent \in Actors \cup {NoActor}
  BY <1>4 DEF Attempt
<1> QED BY <1>6, <1>7, <1>8, <1>9, <1>10, ChoicesType

LEMMA SelectMoves ==
  ASSUME AvailabilityInv, NEW w \in Workers, AttemptAwaits(attempt[w]), Select(w)
  PROVE  \E b : MovesTo(w, b)
<1>1. PICK o \in Attempt : o = attempt[w] /\ AttemptSound(o) /\ o.step = "select"
  BY OwnAttempt DEF Select, At
<1>2. o.decision \in Decisions /\ attempt[w].step \in EmptySteps
  BY <1>1 DEF AttemptSound, DecisionSteps, EmptySteps, PlanSteps
<1>3. PICK absent \in SUBSET Actors :
        \E x \in Choices([o EXCEPT !.selection = absent].approved, absent) :
          Proceed(w, AfterPlan([o EXCEPT !.selection = absent],
                               ReplacementRow([o EXCEPT !.selection = absent], x)))
  <2>1. o.away \subseteq Actors /\ away \subseteq Actors
    BY DEF Attempt, AvailabilityInv, TypeOK
  <2> QED BY <1>1, <2>1 DEF Select
<1>4. PICK a : a = [o EXCEPT !.selection = absent]
  OBVIOUS
<1>5. a \in Attempt /\ a.job = attempt[w].job /\ a.decision = o.decision
  BY <1>1, <1>4 DEF Attempt
<1>6. PICK x \in Actors \cup {NoActor} : Proceed(w, AfterPlan(a, ReplacementRow(a, x)))
  BY <1>3, <1>4, ChoicesType
<1>7. ReplacementRow(a, x) \in Row
  BY <1>2, <1>5, ReplacementRowFacts
<1> QED BY <1>2, <1>5, <1>6, <1>7, ReplacementMoves

LEMMA CheckIntentMoves ==
  ASSUME AvailabilityInv, NEW w \in Workers, AttemptAwaits(attempt[w]), CheckIntent(w)
  PROVE  \E b : MovesTo(w, b)
<1>1. PICK a \in Attempt : a = attempt[w] /\ a.step = "check"
  BY OwnAttempt DEF CheckIntent, At
<1>2. PICK b : /\ Proceed(w, b)
               /\ \/ b = [a EXCEPT !.step = "persist", !.row = PermanentFailure(a)]
                  \/ b = [a EXCEPT !.step = "begin"]
  BY <1>1 DEF CheckIntent
<1>3. b.job = a.job /\ (b.step = "persist" \/ b.step = "begin")
  BY <1>2 DEF Attempt
<1>4. b.step \in EmptySteps /\ b.job = attempt[w].job /\ attempt[w].step \in EmptySteps
  BY <1>1, <1>3 DEF EmptySteps, PlanSteps
<1> QED BY <1>2, <1>4, EmptyMoves, Zenon

LEMMA BeginMoves ==
  ASSUME AvailabilityInv, NEW w \in Workers, AttemptAwaits(attempt[w]), Begin(w)
  PROVE  \E b : MovesTo(w, b)
<1>1. PICK a \in Attempt : a = attempt[w] /\ a.step = "begin"
  BY OwnAttempt DEF Begin, At
<1>2. PICK b : b = [a EXCEPT !.step = "remove"]
  OBVIOUS
<1>3. Proceed(w, b) \/ Proceed(w, Caught(attempt[w]))
  BY <1>1, <1>2 DEF Begin
<1>4. b.step \in EmptySteps /\ b.job = attempt[w].job /\ attempt[w].step \in EmptySteps
  BY <1>1, <1>2 DEF Attempt, EmptySteps, PlanSteps
<1>5. CASE Proceed(w, b)
  BY <1>4, <1>5, EmptyMoves, Zenon
<1> QED BY <1>3, <1>5, CaughtMoves

LEMMA PersistStaleMoves ==
  ASSUME AvailabilityInv, NEW w \in Workers, AttemptAwaits(attempt[w]), PersistStale(w)
  PROVE  \E b : MovesTo(w, b)
<1>1. PICK a \in Attempt : a = attempt[w] /\ a.step = "persist"
  BY OwnAttempt DEF PersistStale, At
<1>2. PICK b, c : /\ b = GivenBack(a, "persist_replacement", "transient")
                  /\ c = [a EXCEPT !.step = "succeed"]
  OBVIOUS
<1>3. Proceed(w, b) \/ Proceed(w, c)
  BY <1>1, <1>2 DEF PersistStale
<1>4. CASE Proceed(w, b)
  <2>1. "persist_replacement" \in Phases \cup {"none"}
    BY DEF Phases
  <2>2. b.job = a.job /\ (b.step = "caught" \/ b.step = "give back")
    BY <1>2, <2>1, GivenBackFacts, Zenon
  <2>3. b.step \in EndSteps /\ b.job = attempt[w].job
    BY <1>1, <2>2 DEF EndSteps
  <2> QED BY <1>4, <2>3, EndMoves, Zenon
<1>5. CASE Proceed(w, c)
  <2>1. c.step \in EmptySteps /\ c.job = attempt[w].job /\ attempt[w].step \in EmptySteps
    BY <1>1, <1>2 DEF Attempt, EmptySteps, PlanSteps
  <2> QED BY <1>5, <2>1, EmptyMoves, Zenon
<1> QED BY <1>3, <1>4, <1>5

LEMMA NextIntentMoves ==
  ASSUME AvailabilityInv, NEW w \in Workers, AttemptAwaits(attempt[w]), NextIntent(w)
  PROVE  \E b : MovesTo(w, b)
<1>1. PICK a \in Attempt : a = attempt[w] /\ a.step = "next intent"
  BY OwnAttempt DEF NextIntent, At
<1>2. attempt[w].step \in EmptySteps /\ Pending(attempt[w].job) = {}
  BY <1>1 DEF AttemptAwaits, EmptySteps
<1>3. CASE Goto(w, "succeed")
  BY <1>2, <1>3, GotoMoves DEF EmptySteps
<1>4. CASE ~Goto(w, "succeed")
  <2>1. PICK d \in a.open :
          Proceed(w, [[a EXCEPT !.decision = d, !.intent = intent[a.job][d]]
                        EXCEPT !.step = "audit",
                               !.row = Abandoned([a EXCEPT !.decision = d,
                                                    !.intent = intent[a.job][d]])])
    BY <1>1, <1>4 DEF NextIntent
  <2>2. PICK c : c = [a EXCEPT !.decision = d, !.intent = intent[a.job][d]]
    OBVIOUS
  <2>3. PICK b : b = [c EXCEPT !.step = "audit", !.row = Abandoned(c)]
    OBVIOUS
  <2>4. Proceed(w, b)
    BY <2>1, <2>2, <2>3
  <2>5. b.step = "audit" /\ b.job = a.job
    BY <2>2, <2>3 DEF Attempt
  <2>6. b.step \in EmptySteps /\ b.job = attempt[w].job
    BY <1>1, <2>5 DEF EmptySteps
  <2> QED BY <1>2, <2>4, <2>6, EmptyMoves, Zenon
<1> QED BY <1>3, <1>4

\* A recovery goes on with the finalizer of its row, whatever else is pending.
LEMMA RecoverMoves ==
  ASSUME AvailabilityInv, NEW w \in Workers, AttemptAwaits(attempt[w]),
         RecoverLoad(w) \/ RecoverStale(w)
  PROVE  \E b : MovesTo(w, b)
<1>1. PICK a \in Attempt : /\ a = attempt[w] /\ AttemptSound(a)
                           /\ a.step \in {"recover load", "recover persist"}
  BY OwnAttempt DEF RecoverLoad, RecoverStale, At
<1>2. a.from = "recover"
  BY <1>1 DEF AttemptAwaits
<1>3. \/ Proceed(w, Failed(attempt[w], "permanent"))
      \/ /\ a.step = "recover load"
         /\ \/ Proceed(w, [a EXCEPT !.step = RecoveryStep("none")])
            \/ Proceed(w, [a EXCEPT !.step = RecoveryStep(a.phase)])
      \/ Proceed(w, [a EXCEPT !.step = "recover audit"])
  BY <1>1 DEF RecoverLoad, RecoverStale, At
<1>4. ASSUME NEW s, s \in {"list finalizers", "finalize", "complete", "recover audit"},
             Proceed(w, [a EXCEPT !.step = s])
      PROVE  \E b : MovesTo(w, b)
  <2>1. PICK b : b = [a EXCEPT !.step = s]
    OBVIOUS
  <2>2. b.step = s /\ b.job = a.job /\ b.from = "recover"
    BY <1>2, <2>1 DEF Attempt
  <2>3. AttemptAwaits(b)
    BY <1>4, <2>2 DEF AttemptAwaits, EmptySteps, PlanSteps
  <2> QED BY <1>1, <1>4, <2>1, <2>2, <2>3 DEF MovesTo, Proceed
<1>5. RecoveryStep("none") = "list finalizers"
  BY DEF RecoveryStep
<1>6. a.step = "recover load" => RecoveryStep(a.phase) \in {"finalize", "complete"}
  BY <1>1 DEF AttemptSound, RecoveryStep
<1> QED BY <1>3, <1>4, <1>5, <1>6, FailedMoves

\* A worker that comes to rest leaves nothing to be awaited.
LEMMA RestMoves ==
  ASSUME NEW w \in Workers, Rest(w)
  PROVE  \E b : MovesTo(w, b)
<1>1. AttemptAwaits(NoAttempt)
  <2>1. NoAttempt.step \in EndSteps
    BY NoAttemptType DEF EndSteps
  <2> QED BY <2>1, EndAwaits, Zenon
<1> QED BY <1>1, NoAttemptType DEF Rest, Proceed, MovesTo

LEMMA RefusedMoves ==
  ASSUME AvailabilityInv, NEW w \in Workers, AttemptAwaits(attempt[w]),
         \/ Unavailable(w) \/ PrepareRefused(w) \/ PersistRefused(w) \/ FinalizeRefused(w)
         \/ CompleteRefused(w) \/ AuditRefused(w) \/ RecoverRefused(w) \/ Throw(w)
  PROVE  \E b : MovesTo(w, b)
<1>1. \/ Proceed(w, Caught(attempt[w]))
      \/ \E error \in {"transient", "permanent"} : Proceed(w, Failed(attempt[w], error))
  BY DEF Unavailable, PrepareRefused, PersistRefused, FinalizeRefused, CompleteRefused,
         AuditRefused, RecoverRefused, Throw
<1> QED BY <1>1, CaughtMoves, FailedMoves

LEMMA QuietlyMoves ==
  ASSUME AvailabilityInv, NEW w \in Workers, AttemptAwaits(attempt[w]), Quietly(w)
  PROVE  \E b : MovesTo(w, b)
<1>1. CASE LeaseLost(w)
  BY <1>1, RestMoves DEF LeaseLost
<1>2. CASE ~LeaseLost(w)
  BY <1>2, ListFinalizersMoves, ReplayMoves, ListIntentsMoves, LoadMoves, NextCandidateMoves,
     InspectMoves, SelectMoves, CheckIntentMoves, BeginMoves, PersistStaleMoves,
     NextIntentMoves, RefusedMoves, RecoverMoves DEF Quietly
<1> QED BY <1>1, <1>2

\* A job that somebody is at work on is running: it has neither succeeded nor been
\* given up.
LEMMA WorkedOn ==
  ASSUME AvailabilityInv, SettledInv, NEW w \in Workers, attempt[w].step # "idle"
  PROVE  /\ attempt[w].job \in Jobs /\ job[attempt[w].job].holder = w
         /\ job[attempt[w].job].status = "running"
         /\ lastError[attempt[w].job] # "given up"
<1>1. PICK r \in Jobs : r = attempt[w].job
  BY OwnAttempt DEF AttemptSound
<1>2. job[r].holder = w
  BY <1>1 DEF SettledInv, HoldersWork, HoldsJob, At
<1>3. w # Nobody
  BY AvailabilityAssumption
<1>4. job[r].status = "running"
  BY <1>2, <1>3 DEF AvailabilityInv, HeldJobRuns
<1>5. lastError[r] # "given up"
  BY <1>4 DEF SettledInv, RevisionSettled
<1> QED BY <1>1, <1>2, <1>4, <1>5

\* A step of the only worker that leaves its job running.
LEMMA WorkSettles ==
  ASSUME OneWorker, AvailabilityInv, SettledInv, NEW w \in Workers,
         attempt[w].step # "idle", UNCHANGED <<job, lastError>>,
         \A q \in Jobs : q # attempt[w].job =>
           history'[q] = history[q] /\ intent'[q] = intent[q],
         NEW b, attempt' = [attempt EXCEPT ![w] = b],
         b.step # "idle" => b.job = attempt[w].job, AttemptAwaits(b)'
  PROVE  SettledInv'
<1>1. PICK r \in Jobs : r = attempt[w].job
  BY WorkedOn
<1>2. /\ job'[r].holder = w /\ job'[r].status = "running"
      /\ lastError'[r] # "given up"
  BY <1>1, WorkedOn
<1>3. attempt'[w] = b /\ \A v \in Workers : v = w
  BY TableTypes DEF OneWorker
<1>4. HoldersWork'
  BY <1>1, <1>2, <1>3 DEF HoldersWork, HoldsJob, At
<1>5. \A v \in Workers : AttemptAwaits(attempt[v])'
  <2> TAKE v \in Workers
  <2>1. attempt'[v] = b
    BY <1>3
  <2> QED BY <2>1 DEF AttemptAwaits, Pending, Awaited
<1>6. ASSUME NEW q \in Jobs PROVE RevisionSettled(q)'
  <2>1. CASE q = r
    BY <1>2, <2>1 DEF RevisionSettled
  <2>2. CASE q # r
    <3>1. /\ Pending(q)' = Pending(q) /\ OpenIntents(q)' = OpenIntents(q)
          /\ job'[q] = job[q] /\ lastError'[q] = lastError[q]
      BY <1>1, <2>2 DEF Pending, OpenIntents
    <3>2. RevisionSettled(q)
      BY DEF SettledInv
    <3> QED BY <3>1, <3>2 DEF RevisionSettled
  <2> QED BY <2>1, <2>2
<1> QED BY <1>4, <1>5, <1>6 DEF SettledInv

\* The only worker comes to rest and its job is settled, given back or lost.
LEMMA RestSettles ==
  ASSUME OneWorker, AvailabilityInv, SettledInv, NEW w \in Workers, Rest(w),
         NEW r \in Jobs, RevisionSettled(r)',
         \A q \in Jobs : q # r =>
           /\ job'[q] = job[q] /\ lastError'[q] = lastError[q]
           /\ history'[q] = history[q] /\ intent'[q] = intent[q]
  PROVE  SettledInv'
<1>1. \A v \in Workers : v = w /\ attempt'[v] = NoAttempt /\ attempt'[v].step = "idle"
  BY TableTypes, NoAttemptType DEF OneWorker, Rest, Proceed
<1>2. HoldersWork'
  BY <1>1 DEF HoldersWork, At
<1>3. \A v \in Workers : AttemptAwaits(attempt[v])'
  BY <1>1 DEF AttemptAwaits, EmptySteps, PlanSteps
<1>4. ASSUME NEW q \in Jobs PROVE RevisionSettled(q)'
  <2>1. CASE q # r
    <3>1. /\ Pending(q)' = Pending(q) /\ OpenIntents(q)' = OpenIntents(q)
          /\ job'[q] = job[q] /\ lastError'[q] = lastError[q]
      BY <2>1 DEF Pending, OpenIntents
    <3>2. RevisionSettled(q)
      BY DEF SettledInv
    <3> QED BY <3>1, <3>2 DEF RevisionSettled
  <2> QED BY <2>1
<1> QED BY <1>2, <1>3, <1>4 DEF SettledInv

LEMMA QuietlySettles ==
  ASSUME OneWorker, AvailabilityInv, SettledInv, NEW w \in Workers, Quietly(w)
  PROVE  SettledInv'
<1>1. UNCHANGED shared
  BY QuietlyShared
<1>2. PICK b : MovesTo(w, b)
  <2>1. AttemptAwaits(attempt[w])
    BY DEF SettledInv
  <2> QED BY <2>1, QuietlyMoves
<1>3. attempt[w].step # "idle"
  BY DEF Quietly, ListFinalizers, Replay, ListIntents, Load, NextCandidate, Inspect, Select,
         Unavailable, PrepareRefused, CheckIntent, Begin, PersistStale, PersistRefused,
         FinalizeRefused, CompleteRefused, NextIntent, AuditRefused, RecoverLoad,
         RecoverStale, RecoverRefused, LeaseLost, Throw, At, DatabaseSteps, ProviderSteps
<1>4. AttemptAwaits(b)'
  <2>1. UNCHANGED history
    BY <1>1 DEF shared
  <2>2. AttemptAwaits(b)
    BY <1>2 DEF MovesTo
  <2> QED BY <2>1, <2>2 DEF AttemptAwaits, Pending, Awaited
<1> QED BY <1>1, <1>2, <1>3, <1>4, WorkSettles DEF MovesTo, shared

\* The effect of a step is at one decision of its own job, and what follows it
\* waits for nothing else, whether its answer arrives or not.
LEMMA EffectSettles ==
  ASSUME OneWorker, AvailabilityInv, SettledInv, NEW w \in Workers,
         NEW answered \in BOOLEAN, NEW a \in Attempt, a = attempt[w], a.step # "idle",
         UNCHANGED <<job, lastError>>,
         \A q \in Jobs : q # a.job => history'[q] = history[q] /\ intent'[q] = intent[q],
         NEW next, Proceed(w, Answered(attempt[w], next, answered)), next.job = a.job,
         AttemptAwaits(next)'
  PROVE  SettledInv'
<1>1. PICK b : b = Answered(a, next, answered)
  OBVIOUS
<1>2. CASE answered
  <2>1. attempt' = [attempt EXCEPT ![w] = next]
    BY <1>2 DEF Answered, Proceed
  <2> QED BY <2>1, WorkSettles
<1>3. CASE ~answered
  <2>1. b = Failed(a, "transient")
    BY <1>1, <1>3 DEF Answered
  <2>2. b.job = a.job /\ (b.step = "caught" \/ b.step = "give back")
    BY <2>1, FailedFacts, Zenon
  <2>3. AttemptAwaits(b)'
    BY <2>2 DEF AttemptAwaits, EmptySteps, PlanSteps
  <2>4. attempt' = [attempt EXCEPT ![w] = b]
    BY <1>1 DEF Proceed
  <2> QED BY <2>2, <2>3, <2>4, WorkSettles
<1> QED BY <1>2, <1>3

\* Steps that leave the rows alone.
LEMMA PlanEffectSettles ==
  ASSUME OneWorker, AvailabilityInv, SettledInv, NEW w \in Workers,
         NEW answered \in BOOLEAN,
         Prepare(w, answered) \/ Remove(w, answered) \/ Ask(w, answered)
  PROVE  SettledInv'
<1>1. PICK a \in Attempt : /\ a = attempt[w] /\ AttemptSound(a) /\ AttemptAwaits(a)
                           /\ a.step \in {"prepare", "remove", "ask"}
  <2>1. attempt[w].step \in {"prepare", "remove", "ask"} /\ AttemptAwaits(attempt[w])
    BY DEF Prepare, Remove, Ask, At, SettledInv
  <2> QED BY <2>1, OwnAttempt
<1>2. Pending(a.job) = {}
  BY <1>1 DEF AttemptAwaits, EmptySteps, PlanSteps
<1>3. PICK next : /\ \/ next = [a EXCEPT !.step = "inspect", !.round = @ + 1,
                                         !.intent = a.row.actor]
                     \/ next = [a EXCEPT !.step = "ask"]
                     \/ next = [a EXCEPT !.step = "persist", !.effects = TRUE,
                                         !.row = ReplacementRow(a, a.intent)]
                  /\ Proceed(w, Answered(attempt[w], next, answered))
  BY <1>1 DEF Prepare, Remove, Ask
<1>4. next.job = a.job /\ next.step \in {"inspect", "ask", "persist"}
  BY <1>3 DEF Attempt
<1>5. /\ UNCHANGED <<job, history, lastError>>
      /\ \A q \in Jobs : q # a.job => intent'[q] = intent[q]
  <2>1. UNCHANGED <<job, history, lastError>>
    BY DEF Prepare, Remove, Ask
  <2>2. CASE Prepare(w, answered)
    <3>1. intent' = [intent EXCEPT ![a.job][a.decision] = a.row.actor]
      BY <1>1, <2>2 DEF Prepare
    <3> QED BY <2>1, <3>1, TableTypes
  <2>3. CASE Remove(w, answered) \/ Ask(w, answered)
    <3>1. UNCHANGED intent
      BY <2>3 DEF Remove, Ask
    <3> QED BY <2>1, <3>1
  <2> QED BY <2>2, <2>3
<1>6. AttemptAwaits(next)'
  <2>1. Pending(next.job)' = {}
    BY <1>2, <1>4, <1>5 DEF Pending
  <2> QED BY <1>4, <2>1 DEF AttemptAwaits, EmptySteps, PlanSteps
<1>7. a.step # "idle" /\ \A q \in Jobs : q # a.job => history'[q] = history[q]
  BY <1>1, <1>5
<1> QED BY <1>1, <1>3, <1>4, <1>5, <1>6, <1>7, EffectSettles

LEMMA FinalizeSettles ==
  ASSUME OneWorker, AvailabilityInv, SettledInv, NEW w \in Workers,
         NEW answered \in BOOLEAN, Finalize(w, answered)
  PROVE  SettledInv'
<1>1. PICK a \in Attempt : a = attempt[w] /\ a.step = "finalize" /\ AttemptAwaits(a)
  BY OwnAttempt DEF Finalize, At, SettledInv
<1>2. PICK next : next = [a EXCEPT !.step = "complete"]
  OBVIOUS
<1>3. /\ Proceed(w, Answered(attempt[w], next, answered))
      /\ UNCHANGED <<job, history, intent, lastError>>
  BY <1>1, <1>2 DEF Finalize
<1>4. /\ next.step = "complete" /\ next.job = a.job /\ next.from = a.from
      /\ next.todo = a.todo /\ next.decision = a.decision
  BY <1>2 DEF Attempt
<1>5. a.from # "recover" => Pending(a.job) \subseteq Awaited(a)
  BY <1>1 DEF AttemptAwaits
<1>6. AttemptAwaits(next)'
  <2>1. Pending(next.job)' = Pending(a.job) /\ Awaited(next) = Awaited(a)
    BY <1>3, <1>4 DEF Pending, Awaited
  <2> QED BY <1>4, <1>5, <2>1 DEF AttemptAwaits, EmptySteps, PlanSteps, Awaited
<1> QED BY <1>1, <1>3, <1>4, <1>6, EffectSettles

\* A row that is complete no longer waits.
LEMMA CompleteSettles ==
  ASSUME OneWorker, AvailabilityInv, SettledInv, NEW w \in Workers,
         NEW answered \in BOOLEAN, Complete(w, answered)
  PROVE  SettledInv'
<1>1. PICK a \in Attempt : /\ a = attempt[w] /\ a.step = "complete"
                           /\ AttemptAwaits(a) /\ AttemptSound(a)
  BY OwnAttempt DEF Complete, At, SettledInv
<1>2. PICK r \in Jobs, d \in Decisions : r = a.job /\ d = a.decision
  BY <1>1 DEF AttemptSound, DecisionSteps
<1>3. PICK next : next = AfterRow(a)
  OBVIOUS
<1>4. /\ Proceed(w, Answered(attempt[w], next, answered))
      /\ history' = [history EXCEPT ![r][d].state = "completed"]
      /\ UNCHANGED <<job, intent, lastError>>
  BY <1>1, <1>2, <1>3 DEF Complete
<1>5. /\ \A q \in Jobs : q # r => history'[q] = history[q]
      /\ history'[r][d].state = "completed"
      /\ \A e \in Decisions : e # d => history'[r][e] = history[r][e]
  <2>1. history \in [Jobs -> [Decisions -> Row]]
    BY TableTypes
  <2> QED BY <1>4, <2>1 DEF Row
<1>6. Pending(r)' \subseteq Pending(r) \ {d}
  BY <1>5 DEF Pending
<1>7. CASE a.from = "replay"
  <2>1. next.step = "replay" /\ next.job = a.job /\ next.todo = a.todo
    BY <1>3, <1>7 DEF AfterRow, Attempt
  <2>2. Pending(r) \subseteq a.todo \cup {d}
    BY <1>1, <1>2, <1>7 DEF AttemptAwaits, Awaited
  <2>3. AttemptAwaits(next)'
    BY <1>2, <1>6, <2>1, <2>2 DEF AttemptAwaits, EmptySteps, PlanSteps
  <2> QED BY <1>1, <1>2, <1>4, <1>5, <2>1, <2>3, EffectSettles
<1>8. CASE a.from = "candidate"
  <2>1. next = Processed(a)
    BY <1>3, <1>8 DEF AfterRow
  <2>2. next.step = "next" /\ next.job = a.job
    BY <2>1 DEF Processed, Attempt
  <2>3. Pending(r) \subseteq {d}
    BY <1>1, <1>2, <1>8 DEF AttemptAwaits, Awaited
  <2>4. AttemptAwaits(next)'
    BY <1>2, <1>6, <2>2, <2>3 DEF AttemptAwaits, EmptySteps, PlanSteps
  <2> QED BY <1>1, <1>2, <1>4, <1>5, <2>2, <2>4, EffectSettles
<1>9. CASE a.from = "recover"
  <2>1. next.step = "list finalizers" /\ next.job = a.job
    BY <1>3, <1>9 DEF AfterRow, RecoveryStep, Attempt
  <2>2. AttemptAwaits(next)'
    BY <2>1 DEF AttemptAwaits, EmptySteps, PlanSteps
  <2> QED BY <1>1, <1>2, <1>4, <1>5, <2>1, <2>2, EffectSettles
<1> QED BY <1>7, <1>8, <1>9 DEF Attempt

\* A row is recorded at its own place, or not at all.
LEMMA RecordedAt ==
  ASSUME AvailabilityInv, NEW r \in Jobs, NEW d \in Decisions, NEW row \in Row,
         \/ UNCHANGED history
         \/ history' = [history EXCEPT ![r][d] = row]
  PROVE  /\ \A q \in Jobs : q # r => history'[q] = history[q]
         /\ Pending(r)' \subseteq Pending(r) \cup {d}
         /\ row.state # "finalizer_pending" => Pending(r)' \subseteq Pending(r)
<1>1. history \in [Jobs -> [Decisions -> Row]]
  BY TableTypes
<1>2. CASE UNCHANGED history
  BY <1>2 DEF Pending
<1>3. CASE history' = [history EXCEPT ![r][d] = row]
  <2>1. /\ \A q \in Jobs : q # r => history'[q] = history[q]
        /\ history'[r][d] = row
        /\ \A e \in Decisions : e # d => history'[r][e] = history[r][e]
    BY <1>1, <1>3
  <2> QED BY <2>1 DEF Pending
<1> QED BY <1>2, <1>3

LEMMA PersistSettles ==
  ASSUME OneWorker, AvailabilityInv, SettledInv, NEW w \in Workers,
         NEW answered \in BOOLEAN, Persist(w, answered)
  PROVE  SettledInv'
<1>1. PICK a \in Attempt : /\ a = attempt[w] /\ a.step = "persist"
                           /\ AttemptAwaits(a) /\ AttemptSound(a)
  BY OwnAttempt DEF Persist, At, SettledInv
<1>2. PICK r \in Jobs, d \in Decisions, row \in Row :
        r = a.job /\ d = a.decision /\ row = a.row
  <2>1. a.job \in Jobs /\ a.decision \in Decisions
    BY <1>1 DEF AttemptSound, DecisionSteps
  <2> QED BY <2>1 DEF Attempt
<1>3. PICK next : next = IF row.state = "finalizer_pending"
                         THEN [a EXCEPT !.step = "finalize"] ELSE Processed(a)
  OBVIOUS
<1>4. /\ IF history[r][d] # NoRow THEN UNCHANGED <<history, cohort>> ELSE Record(r, d, row)
      /\ Proceed(w, Answered(attempt[w], next, answered))
      /\ UNCHANGED <<job, intent, lastError>>
  BY <1>1, <1>2, <1>3 DEF Persist
<1>5. UNCHANGED history \/ history' = [history EXCEPT ![r][d] = row]
  BY <1>4 DEF Record
<1>6. Pending(r) = {}
  BY <1>1, <1>2 DEF AttemptAwaits, EmptySteps, PlanSteps
<1>7. /\ \A q \in Jobs : q # r => history'[q] = history[q]
      /\ Pending(r)' \subseteq {d}
      /\ row.state # "finalizer_pending" => Pending(r)' = {}
  BY <1>5, <1>6, RecordedAt
<1>8. CASE row.state = "finalizer_pending"
  <2>1. next.step = "finalize" /\ next.job = a.job /\ next.decision = a.decision
    BY <1>3, <1>8 DEF Attempt
  <2>2. AttemptAwaits(next)'
    BY <1>2, <1>7, <2>1 DEF AttemptAwaits, EmptySteps, PlanSteps, Awaited
  <2> QED BY <1>1, <1>2, <1>4, <1>7, <2>1, <2>2, EffectSettles
<1>9. CASE row.state # "finalizer_pending"
  <2>1. next = Processed(a)
    BY <1>3, <1>9
  <2>2. next.step = "next" /\ next.job = a.job
    BY <2>1 DEF Processed, Attempt
  <2>3. AttemptAwaits(next)'
    BY <1>2, <1>7, <1>9, <2>2 DEF AttemptAwaits, EmptySteps, PlanSteps
  <2> QED BY <1>1, <1>2, <1>4, <1>7, <2>2, <2>3, EffectSettles
<1> QED BY <1>8, <1>9

LEMMA AuditSettles ==
  ASSUME OneWorker, AvailabilityInv, SettledInv, NEW w \in Workers,
         NEW answered \in BOOLEAN, Audit(w, answered)
  PROVE  SettledInv'
<1>1. PICK a \in Attempt : /\ a = attempt[w] /\ a.step = "audit"
                           /\ AttemptAwaits(a) /\ AttemptSound(a)
  BY OwnAttempt DEF Audit, At, SettledInv
<1>2. PICK r \in Jobs, d \in Decisions, row \in Row :
        r = a.job /\ d = a.decision /\ row = a.row /\ row.state = "permanent_failure"
  <2>1. a.job \in Jobs /\ a.decision \in Decisions /\ a.row.state = "permanent_failure"
    BY <1>1 DEF AttemptSound, DecisionSteps
  <2> QED BY <2>1 DEF Attempt
<1>3. PICK next : next = [a EXCEPT !.step = "next intent", !.open = @ \ {a.decision}]
  OBVIOUS
<1>4. /\ Audited(r, d, row) /\ Proceed(w, Answered(attempt[w], next, answered))
      /\ UNCHANGED <<job, intent, lastError>>
  BY <1>1, <1>2, <1>3 DEF Audit
<1>5. UNCHANGED history \/ history' = [history EXCEPT ![r][d] = row]
  BY <1>4 DEF Audited
<1>6. Pending(r) = {}
  BY <1>1, <1>2 DEF AttemptAwaits, EmptySteps
<1>7. /\ \A q \in Jobs : q # r => history'[q] = history[q]
      /\ Pending(r)' = {}
  BY <1>2, <1>5, <1>6, RecordedAt
<1>8. next.step = "next intent" /\ next.job = a.job
  BY <1>3 DEF Attempt
<1>9. AttemptAwaits(next)'
  BY <1>2, <1>7, <1>8 DEF AttemptAwaits, EmptySteps, PlanSteps
<1> QED BY <1>1, <1>2, <1>4, <1>7, <1>8, <1>9, EffectSettles

\* What a recovery records is finished before anything else is looked at.
LEMMA RecoverySettles ==
  ASSUME OneWorker, AvailabilityInv, SettledInv, NEW w \in Workers,
         NEW answered \in BOOLEAN, RecoverPersist(w, answered) \/ RecoverAudit(w, answered)
  PROVE  SettledInv'
<1>1. PICK a \in Attempt : /\ a = attempt[w] /\ a.step \in {"recover persist", "recover audit"}
                           /\ AttemptAwaits(a) /\ AttemptSound(a)
  <2>1. /\ attempt[w].step \in {"recover persist", "recover audit"}
        /\ AttemptAwaits(attempt[w])
    BY DEF RecoverPersist, RecoverAudit, At, SettledInv
  <2> QED BY <2>1, OwnAttempt
<1>2. PICK r \in Jobs, d \in Decisions, row \in Row :
        r = a.job /\ d = a.decision /\ row = a.row
  <2>1. a.job \in Jobs /\ a.decision \in Decisions
    BY <1>1 DEF AttemptSound, DecisionSteps
  <2> QED BY <2>1 DEF Attempt
<1>3. PICK s : /\ s \in {"finalize", "list finalizers"}
               /\ Proceed(w, Answered(attempt[w], [a EXCEPT !.step = s], answered))
  <2>1. RecoverPersist(w, answered) =>
          Proceed(w, Answered(attempt[w], [a EXCEPT !.step =
                    RecoveryStep(IF HasFinalizer(a.row.outcome) THEN "run_finalizer"
                                                                ELSE "none")], answered))
    BY <1>1 DEF RecoverPersist
  <2>2. RecoverAudit(w, answered) =>
          Proceed(w, Answered(attempt[w], [a EXCEPT !.step = "list finalizers"], answered))
    BY <1>1 DEF RecoverAudit
  <2>3. RecoveryStep(IF HasFinalizer(a.row.outcome) THEN "run_finalizer" ELSE "none")
          \in {"finalize", "list finalizers"}
    BY DEF RecoveryStep
  <2> QED BY <2>1, <2>2, <2>3
<1>4. PICK next : next = [a EXCEPT !.step = s]
  OBVIOUS
<1>5. next.step = s /\ next.job = a.job /\ next.from = "recover"
  <2>1. a.from = "recover"
    BY <1>1 DEF AttemptAwaits
  <2> QED BY <1>4, <2>1 DEF Attempt
<1>6. AttemptAwaits(next)'
  BY <1>3, <1>5 DEF AttemptAwaits, EmptySteps, PlanSteps
<1>7. UNCHANGED <<job, intent, lastError>>
  BY DEF RecoverPersist, RecoverAudit
<1>8. \/ UNCHANGED history
      \/ history' = [history EXCEPT ![r][d] = row]
      \/ history' = [history EXCEPT ![r][d] = AuditOf(row)]
  BY <1>1, <1>2 DEF RecoverPersist, RecoverAudit, Record, Audited
<1>9. AuditOf(row) \in Row
  BY DEF AuditOf, Row, Outcomes, RowState
<1>10. \A q \in Jobs : q # r => history'[q] = history[q]
  BY <1>8, <1>9, RecordedAt
<1> QED BY <1>1, <1>2, <1>3, <1>4, <1>5, <1>6, <1>7, <1>10, EffectSettles

LEMMA TimeOutSettles ==
  ASSUME OneWorker, AvailabilityInv, SettledInv, NEW w \in Workers, TimeOut(w)
  PROVE  SettledInv'
<1>1. PICK a \in Attempt : a = attempt[w] /\ a.step # "idle"
  BY OwnAttempt DEF TimeOut, MutationSteps
<1>2. PICK b : b = Caught(a)
  OBVIOUS
<1>3. /\ attempt' = [attempt EXCEPT ![w] = b]
      /\ UNCHANGED <<job, history, intent, lastError>>
  BY <1>1, <1>2 DEF TimeOut, Proceed
<1>4. b.step = "caught" /\ b.job = a.job
  BY <1>2, CaughtFacts
<1>5. AttemptAwaits(b)'
  BY <1>4 DEF AttemptAwaits, EmptySteps, PlanSteps
<1> QED BY <1>1, <1>3, <1>4, <1>5, WorkSettles

\* A job that is given up whole leaves nothing pending and no intent open; one
\* that is not says so in its last error.
LEMMA ExhaustSettles ==
  ASSUME AvailabilityInv, NEW r \in Jobs, Exhaust(r), UNCHANGED intent,
         job'[r].status = "failed"
  PROVE  /\ RevisionSettled(r)'
         /\ \A q \in Jobs : q # r =>
              lastError'[q] = lastError[q] /\ history'[q] = history[q]
<1>1. /\ history \in [Jobs -> [Decisions -> Row]] /\ lastError \in [Jobs ->
           {"none", "given up", "source is invalid", "isolated"}]
  BY TableTypes DEF AvailabilityInv, TypeOK
<1>2. CASE /\ history' = [history EXCEPT ![r] = GivenUp(r)]
           /\ lastError' = [lastError EXCEPT ![r] = "given up"]
  <2>1. ASSUME NEW d \in Decisions
        PROVE  /\ history'[r][d].state # "finalizer_pending"
               /\ intent'[r][d] # NoActor => history'[r][d] # NoRow
    <3>1. history'[r][d] = GivenUp(r)[d] /\ intent'[r][d] = intent[r][d]
      BY <1>1, <1>2
    <3>2. PICK row \in Row : row = history[r][d]
      BY <1>1
    <3>3. CASE d \in OpenIntents(r)
      <4>1. history'[r][d].state = "permanent_failure"
        BY <3>1, <3>3 DEF GivenUp
      <4> QED BY <4>1 DEF NoRow
    <3>4. CASE d \notin OpenIntents(r) /\ row.state = "finalizer_pending"
      <4>1. PICK failed : failed = [row EXCEPT !.state = "permanent_failure"]
        OBVIOUS
      <4>2. failed.state = "permanent_failure"
        BY <4>1 DEF Row
      <4>3. history'[r][d] = failed
        BY <3>1, <3>2, <3>4, <4>1 DEF GivenUp
      <4> QED BY <4>2, <4>3 DEF NoRow
    <3>5. CASE d \notin OpenIntents(r) /\ row.state # "finalizer_pending"
      <4>1. history'[r][d] = row
        BY <3>1, <3>2, <3>5 DEF GivenUp
      <4> QED BY <3>1, <3>2, <3>5, <4>1 DEF OpenIntents
    <3> QED BY <3>3, <3>4, <3>5
  <2>2. Pending(r)' = {} /\ OpenIntents(r)' = {}
    BY <2>1 DEF Pending, OpenIntents
  <2>3. \A q \in Jobs : q # r => lastError'[q] = lastError[q] /\ history'[q] = history[q]
    BY <1>1, <1>2
  <2> QED BY <2>2, <2>3 DEF RevisionSettled
<1>3. CASE /\ UNCHANGED history
           /\ lastError' = [lastError EXCEPT ![r] = "source is invalid"]
  <2>1. /\ lastError'[r] # "given up"
        /\ \A q \in Jobs : q # r => lastError'[q] = lastError[q] /\ history'[q] = history[q]
    BY <1>1, <1>3
  <2> QED BY <2>1 DEF RevisionSettled
<1> QED BY <1>2, <1>3 DEF Exhaust

\* The attempt ends.
LEMMA SucceedSettles ==
  ASSUME OneWorker, AvailabilityInv, SettledInv, NEW w \in Workers, Succeed(w)
  PROVE  SettledInv'
<1>1. PICK r \in Jobs : r = attempt[w].job /\ attempt[w].step = "succeed"
  BY WorkedOn DEF Succeed, At
<1>2. Pending(r) = {} /\ lastError[r] # "given up"
  <2>1. AttemptAwaits(attempt[w])
    BY DEF SettledInv
  <2> QED BY <1>1, <2>1, WorkedOn DEF AttemptAwaits, EmptySteps
<1>3. /\ Rest(w) /\ Conclude(w, r, "succeeded")
      /\ UNCHANGED <<intent, history, lastError>>
  BY <1>1 DEF Succeed
<1>4. \A q \in Jobs : q # r => job'[q] = job[q]
  BY <1>3, ReleaseJob DEF AvailabilityInv
<1>5. RevisionSettled(r)'
  <2>1. Pending(r)' = {} /\ lastError'[r] # "given up"
    BY <1>2, <1>3 DEF Pending
  <2> QED BY <2>1 DEF RevisionSettled
<1> QED BY <1>3, <1>4, <1>5, RestSettles

LEMMA RetrySettles ==
  ASSUME OneWorker, AvailabilityInv, SettledInv, NEW w \in Workers, Retry(w) \/ Die(w)
  PROVE  SettledInv'
<1>1. PICK r \in Jobs : r = attempt[w].job /\ lastError[r] # "given up"
  BY WorkedOn DEF Retry, Die, At
<1>2. job[r].holder = w /\ job[r].status = "running" /\ HoldsJob(w)
  BY <1>1, WorkedOn DEF Retry, Die, At, HoldsJob
<1>3. /\ Rest(w) /\ UNCHANGED <<intent, history, lastError>>
      /\ \/ GiveBack(w, r, NextMax(attempt[w]))
         \/ Vanish(r)
  BY <1>1, <1>2 DEF Retry, Die
<1>4. NextMax(attempt[w]) \in Nat
  <2>1. RecoveryAttempts \in Nat
    BY AvailabilityAssumption
  <2>2. PICK a \in Attempt : a = attempt[w]
    BY OwnAttempt
  <2>3. a.number \in Nat /\ a.max \in Nat
    BY DEF Attempt
  <2>4. NextMax(a) = a.max \/ NextMax(a) = a.number + RecoveryAttempts
    BY DEF NextMax
  <2>5. NextMax(a) \in Nat
    BY <2>1, <2>3, <2>4
  <2> QED BY <2>2, <2>5
<1>5. \A q \in Jobs : q # r => job'[q] = job[q]
  BY <1>3, <1>4, ReleaseJob DEF AvailabilityInv
<1>6. job'[r].status # "succeeded"
  <2>1. job \in [Jobs -> Queued]
    BY DEF AvailabilityInv, TypeOK
  <2>2. PICK j \in Queued : j = job[r]
    BY <2>1
  <2>3. CASE Vanish(r)
    <3>1. PICK k : k = [j EXCEPT !.holder = Nobody]
      OBVIOUS
    <3>2. job' = [job EXCEPT ![r] = k]
      BY <2>2, <2>3, <3>1 DEF Vanish
    <3>3. k.status = "running"
      BY <1>2, <2>2, <3>1 DEF Queued
    <3> QED BY <2>1, <3>2, <3>3
  <2>4. CASE GiveBack(w, r, NextMax(attempt[w]))
    <3>1. PICK k : k = [j EXCEPT !.status = "queued", !.holder = Nobody,
                                 !.max = NextMax(attempt[w])]
      OBVIOUS
    <3>2. job' = [job EXCEPT ![r] = k]
      BY <2>2, <2>4, <3>1 DEF GiveBack
    <3>3. k.status = "queued"
      BY <3>1 DEF Queued
    <3> QED BY <2>1, <3>2, <3>3
  <2> QED BY <1>3, <2>3, <2>4
<1>7. RevisionSettled(r)'
  BY <1>1, <1>3, <1>6 DEF RevisionSettled
<1> QED BY <1>3, <1>5, <1>7, RestSettles

LEMMA GiveUpSettles ==
  ASSUME OneWorker, AvailabilityInv, SettledInv, NEW w \in Workers, GiveUp(w)
  PROVE  SettledInv'
<1>1. PICK r \in Jobs : r = attempt[w].job
  BY WorkedOn DEF GiveUp
<1>2. /\ Rest(w) /\ Conclude(w, r, "failed") /\ Exhaust(r) /\ UNCHANGED intent
  BY <1>1 DEF GiveUp
<1>3. \A q \in Jobs : q # r => job'[q] = job[q]
  BY <1>2, ReleaseJob DEF AvailabilityInv
<1>4. job'[r].status = "failed"
  <2>1. job \in [Jobs -> Queued]
    BY DEF AvailabilityInv, TypeOK
  <2>2. PICK k : k = [job[r] EXCEPT !.status = "failed", !.holder = Nobody]
    OBVIOUS
  <2>3. k.status = "failed"
    BY <2>1, <2>2 DEF Queued
  <2>4. job' = [job EXCEPT ![r] = k]
    BY <1>2, <2>2 DEF Conclude
  <2> QED BY <2>1, <2>3, <2>4
<1>5. /\ RevisionSettled(r)'
      /\ \A q \in Jobs : q # r => lastError'[q] = lastError[q] /\ history'[q] = history[q]
  BY <1>2, <1>4, ExhaustSettles
<1> QED BY <1>2, <1>3, <1>5, RestSettles

\* The sweep is run by the only worker while it is idle: nobody is at work.
LEMMA SweepSettles ==
  ASSUME OneWorker, AvailabilityInv, SettledInv, NEW r \in Jobs, NEW whole \in BOOLEAN,
         Sweep(r, whole)
  PROVE  SettledInv'
<1>1. /\ Expire({r}) /\ SweepEffect(r, whole) /\ UNCHANGED <<intent, attempt>>
      /\ \A w \in Workers : At(w, "idle")
  BY DEF Sweep, OneWorker
<1>2. HoldersWork' /\ \A w \in Workers : AttemptAwaits(attempt[w])'
  <2>1. \A w \in Workers : attempt'[w].step = "idle"
    BY <1>1 DEF At
  <2> QED BY <2>1 DEF HoldersWork, At, AttemptAwaits, EmptySteps, PlanSteps
<1>3. /\ job[r].status = "running" /\ lastError[r] # "given up"
      /\ job'[r].status = IF job[r].attempt < job[r].max THEN "queued" ELSE "failed"
      /\ \A q \in Jobs : q # r => job'[q] = job[q]
  <2>1. job \in [Jobs -> Queued]
    BY DEF AvailabilityInv, TypeOK
  <2>2. PICK s : s = IF job[r].attempt < job[r].max THEN "queued" ELSE "failed"
    OBVIOUS
  <2>3. PICK k : k = [job[r] EXCEPT !.holder = Nobody, !.status = s]
    OBVIOUS
  <2>4. k.status = s
    BY <2>1, <2>3 DEF Queued
  <2>5. job'[r] = k /\ (\A q \in Jobs : q # r => job'[q] = job[q])
    BY <1>1, <2>2, <2>3 DEF Expire
  <2>6. job[r].status = "running"
    BY <1>1 DEF Expire
  <2>7. lastError[r] # "given up"
    BY <2>6 DEF SettledInv, RevisionSettled
  <2> QED BY <2>2, <2>4, <2>5, <2>6, <2>7
<1>4. /\ RevisionSettled(r)'
      /\ \A q \in Jobs : q # r => lastError'[q] = lastError[q] /\ history'[q] = history[q]
  <2>1. CASE job[r].attempt < job[r].max
    <3>1. UNCHANGED <<history, lastError>> /\ job'[r].status = "queued"
      BY <1>1, <1>3, <2>1 DEF SweepEffect
    <3> QED BY <1>3, <3>1 DEF RevisionSettled
  <2>2. CASE ~(job[r].attempt < job[r].max) /\ whole
    BY <1>1, <1>3, <2>2, ExhaustSettles DEF SweepEffect
  <2>3. CASE ~(job[r].attempt < job[r].max) /\ ~whole
    <3>1. /\ UNCHANGED history /\ lastError' = [lastError EXCEPT ![r] = "isolated"]
          /\ lastError \in [Jobs -> {"none", "given up", "source is invalid", "isolated"}]
          /\ job'[r].status = "failed"
      BY <1>1, <1>3, <2>3 DEF SweepEffect, AvailabilityInv, TypeOK
    <3> QED BY <3>1 DEF RevisionSettled
  <2> QED BY <2>1, <2>2, <2>3
<1>5. ASSUME NEW q \in Jobs PROVE RevisionSettled(q)'
  <2>1. CASE q # r
    <3>1. /\ Pending(q)' = Pending(q) /\ OpenIntents(q)' = OpenIntents(q)
          /\ job'[q] = job[q] /\ lastError'[q] = lastError[q]
      BY <1>1, <1>3, <1>4, <2>1 DEF Pending, OpenIntents
    <3>2. RevisionSettled(q)
      BY DEF SettledInv
    <3> QED BY <3>1, <3>2 DEF RevisionSettled
  <2> QED BY <1>4, <2>1
<1> QED BY <1>2, <1>5 DEF SettledInv

\* A job that is claimed was queued: neither succeeded nor given up.
LEMMA ClaimSettles ==
  ASSUME OneWorker, AvailabilityInv, SettledInv, NEW w \in Workers, NEW r \in Jobs,
         Claim(w, r)
  PROVE  SettledInv'
<1>1. /\ Acquire(w, r) /\ UNCHANGED <<history, intent, lastError>>
      /\ \A v \in Workers : v = w
  BY DEF Claim, OneWorker
<1>2. PICK b : b = [NoAttempt EXCEPT
        !.step = FirstStep(r), !.from = "recover", !.job = r, !.number = job[r].attempt + 1,
        !.max = job[r].max, !.bounded = payload[r].phase # "none",
        !.phase = payload[r].phase, !.decision = payload[r].decision, !.row = payload[r].row,
        !.effects = payload[r].phase # "none"]
  OBVIOUS
<1>3. /\ b.step \in {"list finalizers", "recover persist", "recover load"}
      /\ b.from = "recover" /\ b.job = r
  <2>1. b.step = FirstStep(r) /\ b.from = "recover" /\ b.job = r
    BY <1>2, NoAttemptType DEF Attempt
  <2> QED BY <2>1 DEF FirstStep
<1>4. attempt'[w] = b
  <2>1. attempt' = [attempt EXCEPT ![w] = b]
    BY <1>2 DEF Claim, Proceed
  <2> QED BY <2>1, TableTypes
<1>5. /\ job[r].status = "queued" /\ job'[r].holder = w /\ job'[r].status = "running"
      /\ \A q \in Jobs : q # r => job'[q] = job[q]
  <2>1. job \in [Jobs -> Queued]
    BY DEF AvailabilityInv, TypeOK
  <2>2. PICK k : k = [job[r] EXCEPT !.status = "running", !.holder = w, !.attempt = @ + 1]
    OBVIOUS
  <2>3. k.status = "running" /\ k.holder = w
    BY <2>1, <2>2 DEF Queued
  <2>4. job' = [job EXCEPT ![r] = k]
    BY <1>1, <2>2 DEF Acquire
  <2> QED BY <1>1, <2>1, <2>3, <2>4 DEF Acquire
<1>6. HoldersWork'
  BY <1>1, <1>3, <1>4, <1>5 DEF HoldersWork, HoldsJob, At
<1>7. \A v \in Workers : AttemptAwaits(attempt[v])'
  <2>1. AttemptAwaits(b)'
    BY <1>3 DEF AttemptAwaits, EmptySteps, PlanSteps
  <2> TAKE v \in Workers
  <2>2. attempt'[v] = b
    BY <1>1, <1>4
  <2> QED BY <2>1, <2>2 DEF AttemptAwaits, Pending, Awaited
<1>8. ASSUME NEW q \in Jobs PROVE RevisionSettled(q)'
  <2>1. /\ Pending(q)' = Pending(q) /\ OpenIntents(q)' = OpenIntents(q)
        /\ lastError'[q] = lastError[q] /\ RevisionSettled(q)
    BY <1>1 DEF Pending, OpenIntents, SettledInv
  <2> QED BY <1>5, <2>1 DEF RevisionSettled
<1> QED BY <1>6, <1>7, <1>8 DEF SettledInv

\* The rest of the world: at most a job that was absent is queued.
LEMMA OutsideSettles ==
  ASSUME AvailabilityInv, SettledInv, UNCHANGED <<history, intent, lastError, attempt>>,
         UNCHANGED job \/ \E r \in Jobs : Submit(r)
  PROVE  SettledInv'
<1>1. job \in [Jobs -> Queued]
  BY DEF AvailabilityInv, TypeOK
<1>2. \A q \in Jobs : /\ job'[q].holder = job[q].holder
                      /\ job'[q].status = job[q].status
                         \/ (job[q].status = "absent" /\ job'[q].status = "queued")
  <2>1. CASE UNCHANGED job
    BY <2>1
  <2>2. ASSUME NEW r \in Jobs, Submit(r)
        PROVE  \A q \in Jobs : /\ job'[q].holder = job[q].holder
                               /\ job'[q].status = job[q].status
                                  \/ (job[q].status = "absent" /\ job'[q].status = "queued")
    <3>1. PICK k : k = [job[r] EXCEPT !.status = "queued"]
      OBVIOUS
    <3>2. k.status = "queued" /\ k.holder = job[r].holder
      BY <1>1, <3>1 DEF Queued
    <3>3. job' = [job EXCEPT ![r] = k] /\ job[r].status = "absent"
      BY <2>2, <3>1 DEF Submit
    <3> QED BY <1>1, <3>2, <3>3
  <2> QED BY <2>1, <2>2
<1>3. HoldersWork'
  <2>1. ASSUME NEW w \in Workers, attempt[w].step # "idle"
        PROVE  job'[attempt[w].job].holder = w
    BY <1>2, <2>1, WorkedOn
  <2> QED BY <2>1 DEF HoldersWork, HoldsJob, At
<1>4. \A w \in Workers : AttemptAwaits(attempt[w])'
  <2>1. \A w \in Workers : AttemptAwaits(attempt[w])
    BY DEF SettledInv
  <2> QED BY <2>1 DEF AttemptAwaits, Pending, Awaited
<1>5. ASSUME NEW q \in Jobs PROVE RevisionSettled(q)'
  <2>1. /\ Pending(q)' = Pending(q) /\ OpenIntents(q)' = OpenIntents(q)
        /\ lastError'[q] = lastError[q] /\ RevisionSettled(q)
    BY DEF Pending, OpenIntents, SettledInv
  <2> QED BY <1>2, <2>1 DEF RevisionSettled
<1> QED BY <1>3, <1>4, <1>5 DEF SettledInv

LEMMA EnvironmentSettles ==
  ASSUME AvailabilityInv, SettledInv,
         \/ \E window \in {"upcoming", "active"} : Schedule(window)
         \/ Time \/ Environment \/ \E q \in late : Land(q)
  PROVE  SettledInv'
<1>1. UNCHANGED <<history, intent, lastError, attempt>>
  BY DEF Schedule, Time, MoveWindow, Environment, Revise, Cancel, Changed, SetConnection,
         OtherAbsence, Close, Push, Review, PullChanges, Supersede, EvaluatePolicy, Land
<1>2. UNCHANGED job \/ \E r \in Jobs : Submit(r)
  <2>1. ASSUME NEW window, Schedule(window) PROVE \E r \in Jobs : Submit(r)
    BY <2>1, AvailabilityAssumption DEF Schedule, EnqueueActivation
  <2>2. ASSUME NEW status, NEW window, Changed(status, window)
        PROVE  \E r \in Jobs : Submit(r)
    BY <2>2 DEF Changed, EnqueueActivation
  <2> QED BY <2>1, <2>2 DEF Time, MoveWindow, Environment, Revise, Cancel, SetConnection,
                            OtherAbsence, Close, Push, Review, PullChanges, Supersede,
                            EvaluatePolicy, Land
<1> QED BY <1>1, <1>2, OutsideSettles

LEMMA SettledStep ==
  ASSUME OneWorker
  PROVE  AvailabilityInv /\ SettledInv /\ [AvailabilityNext]_availabilityVars => SettledInv'
<1> SUFFICES ASSUME AvailabilityInv, SettledInv, [AvailabilityNext]_availabilityVars
             PROVE  SettledInv'
  OBVIOUS
<1>1. ASSUME NEW w \in Workers, NEW answered \in BOOLEAN, Effect(w, answered)
      PROVE  SettledInv'
  BY <1>1, PlanEffectSettles, PersistSettles, FinalizeSettles, CompleteSettles,
     AuditSettles, RecoverySettles DEF Effect
<1>2. ASSUME NEW w \in Workers, Step(w) \/ Fault(w) PROVE SettledInv'
  <2>1. CASE Effect(w, TRUE) \/ Effect(w, FALSE)
    BY <1>1, <2>1
  <2>2. CASE Quietly(w) \/ Succeed(w) \/ Retry(w) \/ Die(w) \/ GiveUp(w) \/ TimeOut(w)
    BY <2>2, QuietlySettles, SucceedSettles, RetrySettles, GiveUpSettles, TimeOutSettles
  <2> QED BY <1>2, <2>1, <2>2 DEF Step, Fault, Regular, Quietly
<1>3. CASE Queue \/ \E r \in Jobs : Sweep(r, FALSE)
  BY <1>3, SweepSettles, ClaimSettles DEF Queue
<1>4. CASE \/ \E window \in {"upcoming", "active"} : Schedule(window)
           \/ Time \/ Environment \/ \E q \in late : Land(q)
  BY <1>4, EnvironmentSettles
<1>5. CASE UNCHANGED availabilityVars
  BY <1>5, OutsideSettles DEF availabilityVars, shared
<1> QED BY <1>2, <1>3, <1>4, <1>5 DEF AvailabilityNext

LEMMA SettledInit == AvailabilityInit => SettledInv
<1> SUFFICES ASSUME AvailabilityInit PROVE SettledInv
  OBVIOUS
<1>1. \A w \in Workers : attempt[w].step = "idle"
  BY NoAttemptType DEF AvailabilityInit
<1>2. \A r \in Jobs : job[r].status = "absent" /\ lastError[r] = "none"
  BY DEF AvailabilityInit, Init
<1>3. HoldersWork /\ \A w \in Workers : AttemptAwaits(attempt[w])
  BY <1>1 DEF HoldersWork, At, AttemptAwaits, EmptySteps, PlanSteps
<1> QED BY <1>2, <1>3 DEF SettledInv, RevisionSettled

\* With one worker, a job that succeeded or was given up whole leaves no row of
\* its revision waiting for a finalizer, and the latter no intent without a row.
THEOREM JobsSettled == OneWorker => (AvailabilitySpec => []SettledJobs)
<1> SUFFICES ASSUME OneWorker PROVE AvailabilitySpec => []SettledJobs
  OBVIOUS
<1>1. AvailabilityInit => SettledInv
  BY SettledInit
<1>2. AvailabilityInv /\ SettledInv /\ [AvailabilityNext]_availabilityVars => SettledInv'
  BY SettledStep
<1>3. SettledInv => SettledJobs
  BY DEF SettledInv, RevisionSettled, Pending, SettledJobs
<1> QED BY <1>1, <1>2, <1>3, AvailabilityInvariant, PTL DEF AvailabilitySpec

-----------------------------------------------------------------------------
(* The life of an activation job: how often it is attempted. *)

\* A job is attempted as often as its limit says, and the limit is raised once,
\* when the first finalizer recovery is stored in the payload.
ActivationBudget ==
  \A r \in Jobs :
    /\ job[r].attempt <= job[r].max
    /\ job[r].max <= DefaultMaxAttempts + RecoveryAttempts
    /\ payload[r].phase = "none" => job[r].max <= DefaultMaxAttempts

\* What an attempt knows of its number and limit is what it was claimed with; one
\* that was claimed with a recovery does not raise the limit again.
NumbersFit(a, recovery) ==
  /\ a.number <= a.max /\ a.max <= DefaultMaxAttempts + RecoveryAttempts
  /\ IF a.bounded THEN a.job \in Jobs /\ recovery[a.job].phase # "none"
     ELSE a.max <= DefaultMaxAttempts

BudgetInv == ActivationBudget /\ \A w \in Workers : NumbersFit(attempt[w], payload)

\* The fields that an attempt keeps to its end.
ClaimFields == {"job", "number", "max", "bounded"}

SameClaim(a, b) == ClaimFields \subseteq DOMAIN b /\ \A f \in ClaimFields : b[f] = a[f]

GoesOn(w) ==
  \E b : SameClaim(attempt[w], b) /\ attempt' = [attempt EXCEPT ![w] = b]

LEMMA GoesOnAs ==
  ASSUME NEW w \in Workers, NEW b, SameClaim(attempt[w], b), Proceed(w, b)
  PROVE  GoesOn(w)
BY DEF GoesOn, Proceed

\* Whatever an attempt does next, it keeps them.
LEMMA AttemptClaim ==
  ASSUME TypeOK, NEW w \in Workers PROVE ClaimFields \subseteq DOMAIN attempt[w]
<1>1. attempt[w] \in Attempt
  BY DEF TypeOK
<1> QED BY <1>1 DEF Attempt, ClaimFields

LEMMA SameThrough ==
  ASSUME NEW a, NEW b, NEW c, SameClaim(a, b), SameClaim(b, c) PROVE SameClaim(a, c)
BY DEF SameClaim

LEMMA StepSame ==
  ASSUME NEW a, ClaimFields \subseteq DOMAIN a, NEW s
  PROVE  SameClaim(a, [a EXCEPT !.step = s])
BY DEF ClaimFields, SameClaim

LEMMA GivenBackSame ==
  ASSUME NEW a, ClaimFields \subseteq DOMAIN a, NEW phase, NEW error
  PROVE  SameClaim(a, GivenBack(a, phase, error))
BY StepSame DEF GivenBack, Caught, ClaimFields, SameClaim

LEMMA FailedSame ==
  ASSUME NEW a, ClaimFields \subseteq DOMAIN a, NEW error
  PROVE  SameClaim(a, Failed(a, error))
<1>1. CASE a.step \in {"finalize", "complete", "audit", "recover persist", "recover audit"}
  BY <1>1, GivenBackSame DEF Failed, MutationSteps
<1>2. CASE a.step = "recover load"
  BY <1>2, GivenBackSame DEF Failed, MutationSteps
<1>3. CASE a.step = "persist" /\ a.effects
  BY <1>3, GivenBackSame DEF Failed, MutationSteps
<1>4. CASE a.step \in MutationSteps \cup {"inspect"} /\ error = "permanent"
  <2>1. Failed(a, error) = [a EXCEPT !.step = "persist", !.row = PermanentFailure(a),
                                     !.effects = a.step \in MutationSteps]
    BY <1>4 DEF Failed, MutationSteps
  <2> QED BY <2>1 DEF ClaimFields, SameClaim
<1>5. CASE /\ a.step \notin {"finalize", "complete", "audit", "recover persist",
                             "recover audit", "recover load"}
           /\ ~(a.step = "persist" /\ a.effects)
           /\ ~(a.step \in MutationSteps \cup {"inspect"} /\ error = "permanent")
  BY <1>5, StepSame DEF Failed, Caught
<1> QED BY <1>1, <1>2, <1>3, <1>4, <1>5

LEMMA AnsweredSame ==
  ASSUME NEW a, ClaimFields \subseteq DOMAIN a, NEW next, SameClaim(a, next), NEW answered \in BOOLEAN
  PROVE  SameClaim(a, Answered(a, next, answered))
BY FailedSame DEF Answered

LEMMA PlanSame ==
  ASSUME NEW a, ClaimFields \subseteq DOMAIN a, NEW row
  PROVE  SameClaim(a, AfterPlan(a, row)) /\ SameClaim(a, FirstPlan(a))
<1>1. SameClaim(a, AfterPlan(a, row))
  BY DEF AfterPlan, ClaimFields, SameClaim
<1>2. SameClaim(a, FirstPlan(a))
  BY DEF FirstPlan, ClaimFields, SameClaim
<1> QED BY <1>1, <1>2

LEMMA AfterRowSame ==
  ASSUME NEW a, ClaimFields \subseteq DOMAIN a
  PROVE  SameClaim(a, AfterRow(a)) /\ SameClaim(a, Processed(a))
<1>1. SameClaim(a, Processed(a))
  BY DEF Processed, ClaimFields, SameClaim
<1> QED BY <1>1, StepSame DEF AfterRow

LEMMA RefusedGoesOn ==
  ASSUME TypeOK, NEW w \in Workers,
         \/ Unavailable(w) \/ PrepareRefused(w) \/ PersistRefused(w) \/ FinalizeRefused(w)
         \/ CompleteRefused(w) \/ AuditRefused(w) \/ RecoverRefused(w) \/ Throw(w) \/ TimeOut(w)
  PROVE  GoesOn(w)
<1>1. ClaimFields \subseteq DOMAIN attempt[w]
  BY AttemptClaim
<1>2. \/ Proceed(w, Caught(attempt[w]))
      \/ \E error : Proceed(w, Failed(attempt[w], error))
  BY DEF Unavailable, PrepareRefused, PersistRefused, FinalizeRefused, CompleteRefused,
         AuditRefused, RecoverRefused, Throw, TimeOut
<1>3. SameClaim(attempt[w], Caught(attempt[w]))
  BY <1>1, StepSame DEF Caught
<1> QED BY <1>1, <1>2, <1>3, FailedSame, GoesOnAs

LEMMA GotoGoesOn ==
  ASSUME TypeOK, NEW w \in Workers, NEW s, Goto(w, s)
  PROVE  GoesOn(w)
<1>1. Proceed(w, [attempt[w] EXCEPT !.step = s])
  BY DEF Goto, Proceed
<1> QED BY <1>1, AttemptClaim, StepSame, GoesOnAs

\* The steps of Quietly that are neither refusals nor the end of an attempt.
LEMMA ReadingGoesOn ==
  ASSUME TypeOK, NEW w \in Workers,
         \/ ListFinalizers(w) \/ Replay(w) \/ ListIntents(w) \/ Load(w) \/ NextCandidate(w)
         \/ Inspect(w) \/ Select(w) \/ CheckIntent(w) \/ Begin(w) \/ PersistStale(w)
         \/ NextIntent(w) \/ RecoverLoad(w) \/ RecoverStale(w)
  PROVE  GoesOn(w)
<1>1. PICK a : a = attempt[w] /\ ClaimFields \subseteq DOMAIN a
  BY AttemptClaim
<1>2. \A b : SameClaim(a, b) /\ Proceed(w, b) => GoesOn(w)
  BY <1>1, GoesOnAs
<1>3. SameClaim(a, Caught(a)) /\ \A s : SameClaim(a, [a EXCEPT !.step = s])
  BY <1>1, StepSame DEF Caught
<1>4. CASE ListFinalizers(w)
  <2> DEFINE pending == {d \in Decisions : history[a.job][d].state = "finalizer_pending"}
             b == [a EXCEPT !.step = "replay", !.from = "replay", !.effects = FALSE,
                            !.started = absence.window, !.away = away, !.phase = "none",
                            !.todo = pending]
  <2>1. Proceed(w, Caught(a)) \/ Proceed(w, b)
    BY <1>1, <1>4 DEF ListFinalizers
  <2> HIDE DEF pending
  <2>2. SameClaim(a, b)
    BY <1>1 DEF ClaimFields, SameClaim
  <2> QED BY <1>2, <1>3, <2>1, <2>2
<1>5. CASE Replay(w)
  <2>1. \/ Goto(w, "list intents")
        \/ \E d : Proceed(w, [a EXCEPT !.step = "finalize", !.todo = @ \ {d}, !.decision = d,
                                       !.row = history[a.job][d]])
    BY <1>1, <1>5 DEF Replay
  <2>2. \A d : SameClaim(a, [a EXCEPT !.step = "finalize", !.todo = @ \ {d}, !.decision = d,
                                      !.row = history[a.job][d]])
    BY <1>1 DEF ClaimFields, SameClaim
  <2> QED BY <1>2, <2>1, <2>2, GotoGoesOn
<1>6. CASE ListIntents(w)
  <2> DEFINE b == [a EXCEPT !.step = "load", !.open = OpenIntents(a.job)]
  <2>1. Proceed(w, Caught(a)) \/ Proceed(w, b)
    BY <1>1, <1>6 DEF ListIntents
  <2>2. SameClaim(a, b)
    BY <1>1 DEF ClaimFields, SameClaim
  <2> QED BY <1>2, <1>3, <2>1, <2>2
<1>7. CASE Load(w)
  <2> DEFINE b == [a EXCEPT !.step = "next", !.from = "candidate", !.seen = policy,
                            !.todo = Activated(a.job)]
  <2>1. Proceed(w, b) \/ Proceed(w, [a EXCEPT !.step = "next intent"])
    BY <1>1, <1>7 DEF Load
  <2>2. SameClaim(a, b)
    BY <1>1 DEF ClaimFields, SameClaim
  <2> QED BY <1>2, <1>3, <2>1, <2>2
<1>8. CASE NextCandidate(w)
  <2> DEFINE b(d, x) == [a EXCEPT !.todo = @ \ {d}, !.decision = d, !.round = 1,
                                  !.selection = {NoActor}, !.effects = FALSE, !.intent = x]
  <2>1. Goto(w, "next intent") \/ \E d, x : Proceed(w, FirstPlan(b(d, x)))
    BY <1>1, <1>8 DEF NextCandidate
  <2>2. ASSUME NEW d, NEW x PROVE SameClaim(a, FirstPlan(b(d, x)))
    <3>1. SameClaim(a, b(d, x))
      BY <1>1 DEF ClaimFields, SameClaim
    <3> HIDE DEF b
    <3> QED BY <3>1, PlanSame, SameThrough DEF SameClaim
  <2> HIDE DEF b
  <2> QED BY <1>2, <2>1, <2>2, GotoGoesOn
<1>9. CASE Inspect(w) \/ Select(w)
  <2> DEFINE b(x) == [a EXCEPT !.approved = x]
             c(x) == [a EXCEPT !.selection = x]
  <2>1. \E x : \/ Proceed(w, [b(x) EXCEPT !.step = "select"])
               \/ \E row : Proceed(w, AfterPlan(b(x), row)) \/ Proceed(w, AfterPlan(c(x), row))
    BY <1>1, <1>9 DEF Inspect, Select
  <2>2. \A x : SameClaim(a, b(x)) /\ SameClaim(a, c(x))
    BY <1>1 DEF ClaimFields, SameClaim
  <2> HIDE DEF b, c
  <2>3. ASSUME NEW x, NEW row
        PROVE  /\ SameClaim(a, AfterPlan(b(x), row)) /\ SameClaim(a, AfterPlan(c(x), row))
               /\ SameClaim(a, [b(x) EXCEPT !.step = "select"])
    BY <2>2, StepSame, PlanSame, SameThrough DEF SameClaim
  <2> QED BY <1>2, <2>1, <2>3
<1>10. CASE CheckIntent(w)
  <2> DEFINE b == [a EXCEPT !.step = "persist", !.row = PermanentFailure(a)]
  <2>1. Proceed(w, b) \/ Proceed(w, [a EXCEPT !.step = "begin"])
    BY <1>1, <1>10 DEF CheckIntent
  <2>2. SameClaim(a, b)
    BY <1>1 DEF ClaimFields, SameClaim
  <2> QED BY <1>2, <1>3, <2>1, <2>2
<1>11. CASE Begin(w) \/ RecoverStale(w)
  BY <1>1, <1>2, <1>3, <1>11 DEF Begin, RecoverStale
<1>12. CASE PersistStale(w)
  <2>1. \/ Proceed(w, GivenBack(a, "persist_replacement", "transient"))
        \/ Proceed(w, [a EXCEPT !.step = "succeed"])
    BY <1>1, <1>12 DEF PersistStale
  <2> QED BY <1>1, <1>2, <1>3, <2>1, GivenBackSame
<1>13. CASE NextIntent(w)
  <2> DEFINE b(d) == [a EXCEPT !.decision = d, !.intent = intent[a.job][d]]
             c(d) == [b(d) EXCEPT !.step = "audit", !.row = Abandoned(b(d))]
  <2>1. Goto(w, "succeed") \/ \E d : Proceed(w, c(d))
    BY <1>1, <1>13 DEF NextIntent
  <2>2. ASSUME NEW d PROVE SameClaim(a, c(d))
    BY <1>1 DEF ClaimFields, SameClaim
  <2> QED BY <1>2, <2>1, <2>2, GotoGoesOn
<1>14. CASE RecoverLoad(w)
  <2>1. Proceed(w, Failed(a, "permanent")) \/ \E s : Proceed(w, [a EXCEPT !.step = s])
    BY <1>1, <1>14 DEF RecoverLoad
  <2> QED BY <1>1, <1>2, <1>3, <2>1, FailedSame
<1> QED BY <1>4, <1>5, <1>6, <1>7, <1>8, <1>9, <1>10, <1>11, <1>12, <1>13, <1>14

\* The steps that take effect before their answer.
LEMMA EffectGoesOn ==
  ASSUME TypeOK, NEW w \in Workers, NEW answered \in BOOLEAN, Effect(w, answered)
  PROVE  GoesOn(w)
<1>1. PICK a : a = attempt[w] /\ ClaimFields \subseteq DOMAIN a
  BY AttemptClaim
<1>2. \A b : SameClaim(a, b) /\ Proceed(w, Answered(a, b, answered)) => GoesOn(w)
  BY <1>1, AnsweredSame, GoesOnAs
<1>3. \A s : SameClaim(a, [a EXCEPT !.step = s])
  BY <1>1, StepSame
<1>4. CASE Prepare(w, answered)
  <2> DEFINE b == [a EXCEPT !.step = "inspect", !.round = @ + 1, !.intent = a.row.actor]
  <2>1. Proceed(w, Answered(a, b, answered))
    BY <1>1, <1>4 DEF Prepare
  <2>2. SameClaim(a, b)
    BY <1>1 DEF ClaimFields, SameClaim
  <2> QED BY <1>2, <2>1, <2>2
<1>5. CASE Remove(w, answered) \/ Finalize(w, answered) \/ RecoverAudit(w, answered)
           \/ RecoverPersist(w, answered)
  <2>1. \E s : Proceed(w, Answered(a, [a EXCEPT !.step = s], answered))
    BY <1>1, <1>5 DEF Remove, Finalize, RecoverAudit, RecoverPersist
  <2> QED BY <1>2, <1>3, <2>1
<1>6. CASE Ask(w, answered)
  <2> DEFINE b == [a EXCEPT !.step = "persist", !.effects = TRUE,
                            !.row = ReplacementRow(a, a.intent)]
  <2>1. Proceed(w, Answered(a, b, answered))
    BY <1>1, <1>6 DEF Ask
  <2>2. SameClaim(a, b)
    BY <1>1 DEF ClaimFields, SameClaim
  <2> QED BY <1>2, <2>1, <2>2
<1>7. CASE Persist(w, answered)
  <2>1. \/ Proceed(w, Answered(a, [a EXCEPT !.step = "finalize"], answered))
        \/ Proceed(w, Answered(a, Processed(a), answered))
    BY <1>1, <1>7 DEF Persist
  <2> QED BY <1>1, <1>2, <1>3, <2>1, AfterRowSame
<1>8. CASE Complete(w, answered)
  <2>1. Proceed(w, Answered(a, AfterRow(a), answered))
    BY <1>1, <1>8 DEF Complete
  <2> QED BY <1>1, <1>2, <2>1, AfterRowSame
<1>9. CASE Audit(w, answered)
  <2> DEFINE b == [a EXCEPT !.step = "next intent", !.open = @ \ {a.decision}]
  <2>1. Proceed(w, Answered(a, b, answered))
    BY <1>1, <1>9 DEF Audit
  <2>2. SameClaim(a, b)
    BY <1>1 DEF ClaimFields, SameClaim
  <2> QED BY <1>2, <2>1, <2>2
<1> QED BY <1>4, <1>5, <1>6, <1>7, <1>8, <1>9 DEF Effect

\* An attempt goes on, or comes to rest, and neither jobs nor payloads change.
Works(w) == (GoesOn(w) \/ Rest(w)) /\ UNCHANGED <<job, payload>>

LEMMA WorkerWorks ==
  ASSUME TypeOK, NEW w \in Workers,
         Quietly(w) \/ TimeOut(w) \/ Effect(w, TRUE) \/ Effect(w, FALSE)
  PROVE  Works(w)
<1>1. CASE Quietly(w)
  <2>1. UNCHANGED <<job, payload>>
    BY <1>1, QuietlyShared DEF shared
  <2>2. CASE LeaseLost(w)
    BY <2>1, <2>2 DEF LeaseLost, Works
  <2> QED BY <1>1, <2>1, <2>2, RefusedGoesOn, ReadingGoesOn DEF Quietly, Works
<1>2. CASE TimeOut(w)
  BY <1>2, RefusedGoesOn DEF TimeOut, Works
<1>3. ASSUME NEW answered \in BOOLEAN, Effect(w, answered) PROVE Works(w)
  <2>1. UNCHANGED <<job, payload>>
    BY <1>3 DEF Effect, Prepare, Remove, Ask, Persist, Finalize, Complete, Audit,
       RecoverPersist, RecoverAudit
  <2> QED BY <1>3, <2>1, EffectGoesOn DEF Works
<1> QED BY <1>1, <1>2, <1>3

\* Others' attempts go on when no payload loses its recovery.
LEMMA NumbersKept ==
  ASSUME NEW a, NumbersFit(a, payload),
         \A r \in Jobs : payload[r].phase # "none" => payload'[r].phase # "none"
  PROVE  NumbersFit(a, payload')
BY DEF NumbersFit

LEMMA IdleNumbersFit == \A recovery : NumbersFit(NoAttempt, recovery)
BY AvailabilityAssumption DEF NumbersFit, NoAttempt

\* Steps that change neither the attempts made nor the limits.
LEMMA BudgetUnchanged ==
  ASSUME AvailabilityInv, BudgetInv, UNCHANGED payload,
         \A r \in Jobs : job'[r].attempt = job[r].attempt /\ job'[r].max = job[r].max,
         \/ UNCHANGED attempt
         \/ \E w \in Workers : GoesOn(w) \/ Rest(w)
  PROVE  BudgetInv'
<1>1. ActivationBudget'
  BY DEF BudgetInv, ActivationBudget
<1>2. ASSUME NEW v \in Workers PROVE NumbersFit(attempt'[v], payload')
  <2>1. NumbersFit(attempt[v], payload')
    BY DEF BudgetInv
  <2>2. CASE attempt'[v] = attempt[v]
    BY <2>1, <2>2
  <2>3. CASE attempt'[v] = NoAttempt
    BY <2>3, IdleNumbersFit
  <2>4. CASE SameClaim(attempt[v], attempt'[v])
    <3>1. PICK a, b, recovery : a = attempt[v] /\ b = attempt'[v] /\ recovery = payload'
      OBVIOUS
    <3>2. /\ b.job = a.job /\ b.number = a.number /\ b.max = a.max /\ b.bounded = a.bounded
          /\ NumbersFit(a, recovery)
      BY <2>1, <2>4, <3>1 DEF SameClaim, ClaimFields
    <3>3. NumbersFit(b, recovery)
      BY <3>2 DEF NumbersFit
    <3> QED BY <3>1, <3>3
  <2>5. attempt \in [Workers -> Attempt]
    BY DEF AvailabilityInv, TypeOK
  <2> QED BY <2>2, <2>3, <2>4, <2>5 DEF GoesOn, Rest, Proceed
<1> QED BY <1>1, <1>2 DEF BudgetInv

\* The steps of JobLifecycle, but for the first and the last of an attempt.
LEMMA LimitsKept ==
  ASSUME TypeOK, NEW r \in Jobs,
         \/ Submit(r) \/ Vanish(r) \/ Expire({r})
         \/ \E w \in Workers : \E outcome : Conclude(w, r, outcome)
  PROVE  \A q \in Jobs : job'[q].attempt = job[q].attempt /\ job'[q].max = job[q].max
<1>1. job \in [Jobs -> Queued]
  BY DEF TypeOK
<1>2. ASSUME NEW status, NEW holder, NEW q \in Jobs,
             \/ job' = [job EXCEPT ![r].status = status, ![r].holder = holder]
             \/ job' = [job EXCEPT ![r].status = status]
             \/ job' = [job EXCEPT ![r].holder = holder]
      PROVE  job'[q].attempt = job[q].attempt /\ job'[q].max = job[q].max
  <2>1. job[q] \in Queued
    BY <1>1
  <2> QED BY <1>1, <1>2, <2>1 DEF Queued
<1>3. CASE Submit(r) \/ Vanish(r) \/ \E w \in Workers : \E outcome : Conclude(w, r, outcome)
  <2>1. CASE Submit(r)
    BY <1>2, <2>1 DEF Submit
  <2>2. CASE Vanish(r)
    BY <1>2, <2>2 DEF Vanish
  <2>3. CASE \E w \in Workers : \E outcome : Conclude(w, r, outcome)
    <3>1. PICK w \in Workers : \E outcome : Conclude(w, r, outcome)
      BY <2>3
    <3>2. PICK outcome : Conclude(w, r, outcome)
      BY <3>1
    <3>3. job' = [job EXCEPT ![r].status = outcome, ![r].holder = Nobody]
      BY <3>2 DEF Conclude
    <3>4. ASSUME NEW q \in Jobs
          PROVE  job'[q].attempt = job[q].attempt /\ job'[q].max = job[q].max
      <4>1. job[q] \in Queued
        BY <1>1
      <4> QED BY <1>1, <3>3, <4>1 DEF Queued
    <3> QED BY <3>4
  <2> QED BY <1>3, <2>1, <2>2, <2>3
<1>4. CASE Expire({r})
  <2> SUFFICES ASSUME NEW q \in Jobs
               PROVE  job'[q].attempt = job[q].attempt /\ job'[q].max = job[q].max
    OBVIOUS
  <2>1. job[q] \in Queued
    BY <1>1
  <2>2. \/ job'[q] = job[q]
        \/ \E status : job'[q] = [job[q] EXCEPT !.holder = Nobody, !.status = status]
    BY <1>4 DEF Expire
  <2> QED BY <2>1, <2>2 DEF Queued
<1> QED BY <1>3, <1>4

\* Which of them an action is.
LEMMA SettlesOnce ==
  ASSUME AvailabilityInv, NEW w \in Workers, Succeed(w) \/ GiveUp(w) \/ Die(w)
  PROVE  /\ Rest(w) /\ UNCHANGED payload
         /\ \/ UNCHANGED job
            \/ \E r \in Jobs : \/ \E outcome \in {"succeeded", "failed"} : Conclude(w, r, outcome)
                               \/ Vanish(r)
<1>1. attempt[w].step # "idle" => attempt[w].job \in Jobs
  BY OwnAttempt DEF AttemptSound
<1>2. CASE Succeed(w) \/ GiveUp(w)
  BY <1>1, <1>2 DEF Succeed, GiveUp, At
<1>3. CASE Die(w)
  BY <1>1, <1>3 DEF Die, At
<1> QED BY <1>2, <1>3

LEMMA OutsideJobs ==
  ASSUME AvailabilityInv,
         \/ \E window \in {"upcoming", "active"} : Schedule(window)
         \/ Time \/ Environment \/ (\E q \in late : Land(q))
         \/ \E r \in Jobs : \E whole \in BOOLEAN : Sweep(r, whole)
  PROVE  UNCHANGED <<attempt, payload>>
         /\ (UNCHANGED job \/ \E r \in Jobs : Submit(r) \/ Expire({r}))
<1>1. CASE \E r \in Jobs : \E whole \in BOOLEAN : Sweep(r, whole)
  BY <1>1 DEF Sweep
<1>2. ASSUME NEW window, Schedule(window)
      PROVE  UNCHANGED <<attempt, payload>> /\ \E r \in Jobs : Submit(r)
  BY <1>2, AvailabilityAssumption DEF Schedule, EnqueueActivation
<1>3. ASSUME NEW status, NEW window, Changed(status, window)
      PROVE  UNCHANGED <<attempt, payload>> /\ \E r \in Jobs : Submit(r)
  BY <1>3 DEF Changed, EnqueueActivation
<1>4. CASE Time \/ Environment \/ \E q \in late : Land(q)
  BY <1>3, <1>4 DEF Time, MoveWindow, Environment, Revise, Cancel, SetConnection,
                    OtherAbsence, Close, Push, Review, PullChanges, Supersede,
                    EvaluatePolicy, Land
<1> QED BY <1>1, <1>2, <1>4

\* A claim copies the row's number and limit, and whether it has a recovery.
LEMMA ClaimNumbers ==
  ASSUME AvailabilityInv, BudgetInv, NEW w \in Workers, NEW r \in Jobs, Claim(w, r)
  PROVE  BudgetInv'
<1>1. PICK a : /\ attempt' = [attempt EXCEPT ![w] = a] /\ a.job = r
               /\ a.number = job[r].attempt + 1 /\ a.max = job[r].max
               /\ a.bounded = (payload[r].phase # "none")
  <2> DEFINE a == [NoAttempt EXCEPT
                !.step = FirstStep(r), !.from = "recover", !.job = r,
                !.number = job[r].attempt + 1,
                !.max = job[r].max, !.bounded = payload[r].phase # "none",
                !.phase = payload[r].phase, !.decision = payload[r].decision,
                !.row = payload[r].row, !.effects = payload[r].phase # "none"]
  <2>1. attempt' = [attempt EXCEPT ![w] = a]
    BY DEF Claim, Proceed
  <2>2. /\ a.job = r /\ a.number = job[r].attempt + 1 /\ a.max = job[r].max
        /\ a.bounded = (payload[r].phase # "none")
    BY DEF NoAttempt
  <2> QED BY <2>1, <2>2
<1>2. /\ job[r].attempt < job[r].max /\ UNCHANGED payload
      /\ job' = [job EXCEPT ![r].status = "running", ![r].holder = w, ![r].attempt = @ + 1]
  BY DEF Claim, Acquire
<1>3. job \in [Jobs -> Queued] /\ attempt \in [Workers -> Attempt]
  BY DEF AvailabilityInv, TypeOK
<1>4. job[r].attempt \in Nat /\ job[r].max \in Nat
  BY <1>3 DEF Queued
<1>5. ASSUME NEW q \in Jobs
      PROVE  /\ job'[q].attempt <= job'[q].max /\ job'[q].max = job[q].max
  <2>1. job[q] \in Queued /\ job[q].attempt <= job[q].max
    BY <1>3 DEF BudgetInv, ActivationBudget
  <2>2. CASE q = r
    <3>1. job'[q].attempt = job[r].attempt + 1 /\ job'[q].max = job[r].max
      BY <1>2, <1>3, <2>1, <2>2 DEF Queued
    <3> QED BY <1>2, <1>4, <2>2, <3>1
  <2>3. CASE q # r
    BY <1>2, <1>3, <2>1, <2>3
  <2> QED BY <2>2, <2>3
<1>6. ActivationBudget'
  BY <1>2, <1>5 DEF BudgetInv, ActivationBudget
<1>7. ASSUME NEW v \in Workers PROVE NumbersFit(attempt'[v], payload')
  <2>1. CASE v # w
    BY <1>1, <1>2, <1>3, <2>1, NumbersKept DEF BudgetInv
  <2>2. CASE v = w
    <3>1. attempt'[v] = a
      BY <1>1, <1>3, <2>2
    <3>2. /\ job[r].max <= DefaultMaxAttempts + RecoveryAttempts
          /\ payload[r].phase = "none" => job[r].max <= DefaultMaxAttempts
      BY DEF BudgetInv, ActivationBudget
    <3>3. a.number <= a.max
      BY <1>1, <1>2, <1>4
    <3> QED BY <1>1, <1>2, <3>1, <3>2, <3>3 DEF NumbersFit
  <2> QED BY <2>1, <2>2
<1> QED BY <1>6, <1>7 DEF BudgetInv

\* Only an attempt without a recovery raises the limit, and it leaves one.
LEMMA RetryNumbers ==
  ASSUME AvailabilityInv, BudgetInv, NEW w \in Workers, Retry(w)
  PROVE  /\ BudgetInv'
         /\ \E r \in Jobs : \E max \in 1 .. (DefaultMaxAttempts + RecoveryAttempts) :
              GiveBack(w, r, max)
<1>1. PICK a \in Attempt : a = attempt[w] /\ AttemptSound(a) /\ a.step \in {"give back", "caught"}
  BY OwnAttempt DEF Retry
<1>2. PICK r \in Jobs : r = a.job
  BY <1>1 DEF AttemptSound
<1>3. PICK max : max = NextMax(a)
  OBVIOUS
<1>4. r = a.job /\ max = NextMax(a)
  BY <1>2, <1>3
<1>5. a.number \in Nat /\ a.max \in Nat /\ RecoveryAttempts \in Nat /\ DefaultMaxAttempts \in Nat
  BY AvailabilityAssumption DEF Attempt
<1>6. /\ Rest(w) /\ GiveBack(w, r, max)
      /\ payload' = IF a.step = "caught" THEN payload
                    ELSE [payload EXCEPT ![r] = [phase |-> a.phase, decision |-> a.decision,
                                                 row |-> a.row]]
  BY <1>1, <1>4 DEF Retry
<1>7. NumbersFit(a, payload)
  BY <1>1 DEF BudgetInv
<1>8. max \in Nat /\ max <= DefaultMaxAttempts + RecoveryAttempts
  <2>1. CASE a.step = "give back" /\ ~a.bounded
    <3>1. max = a.number + RecoveryAttempts
      BY <1>4, <2>1, Zenon DEF NextMax
    <3>2. a.number <= a.max /\ a.max <= DefaultMaxAttempts
      BY <1>7, <2>1, Zenon DEF NumbersFit
    <3> QED BY <1>5, <3>1, <3>2
  <2>2. CASE ~(a.step = "give back" /\ ~a.bounded)
    <3>1. max = a.max
      BY <1>4, <2>2, Zenon DEF NextMax
    <3>2. a.max <= DefaultMaxAttempts + RecoveryAttempts
      BY <1>7, Zenon DEF NumbersFit
    <3> QED BY <1>5, <3>1, <3>2
  <2> QED BY <2>1, <2>2
<1>9. max <= DefaultMaxAttempts \/ a.step = "give back" \/ payload[r].phase # "none"
  <2>1. CASE a.step # "give back"
    <3>1. max = a.max
      BY <1>4, <2>1, Zenon DEF NextMax
    <3> QED BY <1>4, <1>7, <3>1, Zenon DEF NumbersFit
  <2> QED BY <2>1
<1>10. payload \in [Jobs -> Recovery] /\ job \in [Jobs -> Queued] /\ attempt \in [Workers -> Attempt]
  BY DEF AvailabilityInv, TypeOK
<1>11. /\ \A q \in Jobs : payload[q].phase # "none" => payload'[q].phase # "none"
       /\ \A q \in Jobs : q # r => payload'[q] = payload[q]
       /\ a.step = "give back" => payload'[r].phase # "none"
  <2>1. a.step = "give back" => a.phase \in Phases
    BY <1>1 DEF AttemptSound
  <2> QED BY <1>1, <1>6, <1>10, <2>1 DEF Phases
<1>12. PICK n \in Nat : n = job[r].attempt /\ n < max
  BY <1>6, <1>10 DEF GiveBack, Queued
<1>13. job' = [job EXCEPT ![r].status = "queued", ![r].holder = Nobody, ![r].max = max]
  BY <1>6 DEF GiveBack
<1>14. ASSUME NEW q \in Jobs
       PROVE  /\ job'[q].attempt <= job'[q].max
              /\ job'[q].max <= DefaultMaxAttempts + RecoveryAttempts
              /\ payload'[q].phase = "none" => job'[q].max <= DefaultMaxAttempts
  <2>1. job[q] \in Queued
    BY <1>10
  <2>2. CASE q = r
    <3>1. job'[q].attempt = n /\ job'[q].max = max
      BY <1>10, <1>12, <1>13, <2>1, <2>2 DEF Queued
    <3>2. n <= max
      BY <1>8, <1>12
    <3>3. payload'[q].phase = "none" => max <= DefaultMaxAttempts
      BY <1>9, <1>11, <2>2
    <3> QED BY <1>8, <3>1, <3>2, <3>3
  <2>3. CASE q # r
    <3>1. job'[q] = job[q] /\ payload'[q] = payload[q]
      BY <1>10, <1>11, <1>13, <2>3
    <3> QED BY <3>1 DEF BudgetInv, ActivationBudget
  <2> QED BY <2>2, <2>3
<1>15. ASSUME NEW v \in Workers PROVE NumbersFit(attempt'[v], payload')
  <2>1. CASE v # w
    <3>1. attempt'[v] = attempt[v]
      BY <1>6, <1>10, <2>1 DEF Rest, Proceed
    <3> QED BY <1>11, <3>1, NumbersKept DEF BudgetInv
  <2>2. CASE v = w
    BY <1>6, <1>10, <2>2, IdleNumbersFit DEF Rest, Proceed
  <2> QED BY <2>1, <2>2
<1>16. max \in 1 .. (DefaultMaxAttempts + RecoveryAttempts)
  BY <1>5, <1>12, <1>8
<1> QED BY <1>6, <1>14, <1>15, <1>16 DEF BudgetInv, ActivationBudget

\* Every step keeps the budget and is one of the queue's.
LEMMA LifeStep ==
  ASSUME AvailabilityInv, BudgetInv, [AvailabilityNext]_availabilityVars
  PROVE  BudgetInv' /\ (DefaultMaxAttempts + RecoveryAttempts <= AttemptCap /\ AttemptCap \in Nat
                          => [Next]_job)
<1> DEFINE Capped == DefaultMaxAttempts + RecoveryAttempts <= AttemptCap /\ AttemptCap \in Nat
<1>1. ASSUME NEW w \in Workers, Works(w) PROVE BudgetInv' /\ UNCHANGED job
  BY <1>1, BudgetUnchanged DEF Works
<1>2. ASSUME NEW w \in Workers, Succeed(w) \/ GiveUp(w) \/ Die(w) PROVE BudgetInv' /\ [Next]_job
  <2>1. Rest(w) /\ UNCHANGED payload /\ [Next]_job
    BY <1>2, SettlesOnce DEF Next
  <2>2. \A q \in Jobs : job'[q].attempt = job[q].attempt /\ job'[q].max = job[q].max
    BY <1>2, SettlesOnce, LimitsKept DEF AvailabilityInv
  <2> QED BY <2>1, <2>2, BudgetUnchanged
<1>3. ASSUME NEW w \in Workers, Retry(w) PROVE BudgetInv' /\ (Capped => [Next]_job)
  <2>1. PICK r \in Jobs, max \in 1 .. (DefaultMaxAttempts + RecoveryAttempts) : GiveBack(w, r, max)
    BY <1>3, RetryNumbers
  <2>2. Capped => max \in 1 .. AttemptCap
    BY AvailabilityAssumption
  <2> HIDE DEF Capped
  <2> QED BY <1>3, <2>1, <2>2, RetryNumbers DEF Next
<1>4. ASSUME NEW w \in Workers, NEW r \in Jobs, Claim(w, r) PROVE BudgetInv' /\ [Next]_job
  BY <1>4, ClaimNumbers DEF Claim, Next
<1>5. ASSUME \/ \E window \in {"upcoming", "active"} : Schedule(window)
             \/ Time \/ Environment \/ (\E q \in late : Land(q))
             \/ \E r \in Jobs : \E whole \in BOOLEAN : Sweep(r, whole)
      PROVE  BudgetInv' /\ [Next]_job
  <2>1. UNCHANGED <<attempt, payload>>
        /\ (UNCHANGED job \/ \E r \in Jobs : Submit(r) \/ Expire({r}))
    BY <1>5, OutsideJobs
  <2>2. \A q \in Jobs : job'[q].attempt = job[q].attempt /\ job'[q].max = job[q].max
    BY <2>1, LimitsKept DEF AvailabilityInv
  <2>3. [Next]_job
    <3>1. ASSUME NEW r \in Jobs, Expire({r}) PROVE Next
      BY <3>1 DEF Next
    <3> QED BY <2>1, <3>1 DEF Next
  <2> QED BY <2>1, <2>2, <2>3, BudgetUnchanged
<1>6. CASE UNCHANGED availabilityVars
  BY <1>6, BudgetUnchanged DEF availabilityVars, shared
<1>7. ASSUME NEW w \in Workers, Step(w) \/ Fault(w) PROVE BudgetInv' /\ (Capped => [Next]_job)
  <2>1. CASE Quietly(w) \/ TimeOut(w) \/ Effect(w, TRUE) \/ Effect(w, FALSE)
    BY <1>1, <2>1, WorkerWorks DEF AvailabilityInv
  <2>2. CASE Succeed(w) \/ GiveUp(w) \/ Die(w) \/ Retry(w)
    BY <1>2, <1>3, <2>2
  <2> QED BY <1>7, <2>1, <2>2 DEF Step, Fault, Regular, Quietly
<1> QED BY <1>4, <1>5, <1>6, <1>7 DEF AvailabilityNext, Queue

LEMMA BudgetInit == AvailabilityInit => BudgetInv
<1> SUFFICES ASSUME AvailabilityInit PROVE BudgetInv
  OBVIOUS
<1>1. \A w \in Workers : attempt[w] = NoAttempt
  BY DEF AvailabilityInit
<1>2. \A r \in Jobs : job[r].attempt = 0 /\ job[r].max = DefaultMaxAttempts
  BY DEF AvailabilityInit, Init
<1> QED BY <1>1, <1>2, IdleNumbersFit, AvailabilityAssumption DEF BudgetInv, ActivationBudget

\* However often an attempt throws, loses its lease or hands a recovery on, a job
\* is attempted no more than its first limit and the attempts of one recovery
\* allow: the runner raises max_attempts only for a claim that had no recovery.
THEOREM ActivationsAreBounded == AvailabilitySpec => []ActivationBudget
<1>1. AvailabilityInv /\ BudgetInv /\ [AvailabilityNext]_availabilityVars => BudgetInv'
  BY LifeStep
<1>2. BudgetInv => ActivationBudget
  BY DEF BudgetInv
<1> QED BY <1>1, <1>2, BudgetInit, AvailabilityInvariant, PTL DEF AvailabilitySpec

\* Activations are claimed, settled, given back and swept as the queue promises,
\* when the limit that it may be raised to covers one recovery.
THEOREM ActivationsRunTheLifecycle ==
  DefaultMaxAttempts + RecoveryAttempts <= AttemptCap /\ AttemptCap \in Nat
    => (AvailabilitySpec => Spec)
<1> SUFFICES ASSUME DefaultMaxAttempts + RecoveryAttempts <= AttemptCap /\ AttemptCap \in Nat
             PROVE  AvailabilitySpec => Spec
  OBVIOUS
<1>1. AvailabilityInv /\ BudgetInv /\ [AvailabilityNext]_availabilityVars
        => BudgetInv' /\ [Next]_job
  BY LifeStep
<1>2. AvailabilityInit => Init
  BY DEF AvailabilityInit
<1> QED BY <1>1, <1>2, BudgetInit, AvailabilityInvariant, PTL DEF AvailabilitySpec, Spec

=============================================================================
