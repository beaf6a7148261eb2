------------------------ MODULE RoutingWorkerProofs ------------------------
(***************************************************************************)
(* Proofs about RoutingWorker, for any jobs, workers and decisions: the    *)
(* runner implements the queue, so the theorems of JobQueueProofs hold of  *)
(* it; what GitHub sees is the published decision; a success is complete.  *)
(***************************************************************************)
EXTENDS RoutingWorker, JobQueueProofs

-----------------------------------------------------------------------------
(* The runner takes steps of the queue *)

\* Whatever step the runner takes, the queue takes one of its own or none.
LEMMA RunnerTakesQueueSteps ==
  ASSUME IInv, [RoutingNext]_routingVars
  PROVE  [Next]_vars
<1>1. CASE QueueStep
  BY <1>1 DEF QueueStep, Next, PollStep
<1>2. ASSUME NEW j \in Jobs, HeadMoves(j) PROVE UNCHANGED vars
  BY <1>2 DEF HeadMoves, vars
<1>3. ASSUME NEW w \in Workers, NEW j \in Jobs, Claim(w, j) PROVE Next
  BY <1>3 DEF Claim, Next, PollStep
<1>4. ASSUME NEW w \in Workers, AttemptStep(w) \/ Throw(w) PROVE UNCHANGED vars
  BY <1>4 DEF AttemptStep, Throw, Begin, Skip, Compute, Persist, PersistRefused,
       Preflight, FindCheck, CreateCheck, RecordCheck, Act, ActFails, ConcludeCheck,
       ConcludeRow, EnqueuePolicy, ActionDone, ActionFailed, FindFailedCheck,
       FailCheck, FailRow, RecoveryUnsettled, vars
<1>5. ASSUME NEW w \in Workers, SettleAttempt(w) PROVE SettleStep(w)
  <2>1. CASE Finish(w)
    BY <2>1 DEF Finish, SettleStep
  <2>2. CASE CatchAndFinalize(w)
    <3>1. lease[w].attempt \in Nat /\ phase[w] = "executing"
      BY <2>2, ExecutingLease DEF CatchAndFinalize, At, IInv
    <3>2. FinalizationLimit(w) \in (lease[w].attempt + 1) .. AttemptCap
      BY <2>2, <3>1, RoutingAssumption, ConstantsAssumption
         DEF CatchAndFinalize, FinalizationLimit
    <3> QED BY <2>2, <3>1, <3>2 DEF CatchAndFinalize, SettleStep, Recover
  <2>3. CASE CatchAndRetry(w) \/ Finalized(w) \/ RecoveryFailed(w)
    <3>1. \E retryable \in BOOLEAN : MarkFailed(w, retryable)
      BY <2>3 DEF CatchAndRetry, Finalized, RecoveryFailed
    <3> QED BY <3>1 DEF SettleStep
  <2>4. CASE SettleStale(w)
    BY <2>4 DEF SettleStale, SettleStep
  <2> QED BY <1>5, <2>1, <2>2, <2>3, <2>4 DEF SettleAttempt
<1>6. ASSUME NEW w \in Workers, Crash(w) PROVE Next
  BY <1>6 DEF Crash, Next
<1>7. CASE UNCHANGED routingVars
  BY <1>7 DEF routingVars
<1> QED
  BY <1>1, <1>2, <1>3, <1>4, <1>5, <1>6, <1>7 DEF RoutingNext, Next

\* The queue's invariant holds under the runner.
THEOREM RunnerKeepsQueueInvariant == RoutingSpec => []IInv
<1>1. RoutingInit => IInv
  BY InvInit DEF RoutingInit
<1>2. IInv /\ [RoutingNext]_routingVars => IInv'
  BY RunnerTakesQueueSteps, InvStep
<1> QED BY <1>1, <1>2, PTL DEF RoutingSpec

\* Every behaviour of the runner is a behaviour of the job queue, so that
\* SingleOwner, AttemptBudget, OwnerOrExpiryEndsAttempt, OutcomeIsFinal and the
\* refinement of JobLifecycle hold of it as well.
THEOREM RunnerImplementsQueue == RoutingSpec => RunsTheQueue
<1>1. RoutingInit => Init
  BY DEF RoutingInit
<1>2. IInv /\ [RoutingNext]_routingVars => [Next]_vars
  BY RunnerTakesQueueSteps
<1> QED
  BY <1>1, <1>2, RunnerKeepsQueueInvariant, PTL DEF RoutingSpec, RunsTheQueue, Spec

-----------------------------------------------------------------------------
(* What the steps of an attempt do to its local state *)

LEMMA GotoFacts ==
  ASSUME run \in [Workers -> Attempt], NEW w \in Workers, NEW s \in Steps, Goto(w, s)
  PROVE  /\ run' \in [Workers -> Attempt]
         /\ run'[w].step = s
         /\ run'[w].decision = run[w].decision
         /\ run'[w].checkRun = run[w].checkRun
         /\ \A v \in Workers \ {w} : run'[v] = run[v]
BY DEF Goto, Attempt

LEMMA RaiseFacts ==
  ASSUME run \in [Workers -> Attempt], NEW w \in Workers, NEW s \in Steps,
         NEW e \in {"transient", "permanent"}, Raise(w, s, e)
  PROVE  /\ run' \in [Workers -> Attempt]
         /\ run'[w].step = s
         /\ run'[w].decision = run[w].decision
         /\ run'[w].checkRun = run[w].checkRun
         /\ \A v \in Workers \ {w} : run'[v] = run[v]
BY DEF Raise, Attempt

LEMMA TakeFacts ==
  ASSUME run \in [Workers -> Attempt], NEW w \in Workers, NEW s \in Steps, NEW c \in Nat,
         NEW f \in CheckState, Take(w, s, c, f)
  PROVE  /\ run' \in [Workers -> Attempt]
         /\ run'[w].step = s
         /\ run'[w].decision = run[w].decision
         /\ run'[w].checkRun = c
         /\ \A v \in Workers \ {w} : run'[v] = run[v]
BY DEF Take, Attempt

\* The rows that persisting, recording a check or a status leave behind.
LEMMA RowFacts ==
  ASSUME NEW row \in Decision
  PROVE  /\ \A d \in Decisions :
              /\ Refreshed(row, d) \in Decision
              /\ Refreshed(row, d).checkRun = row.checkRun
              /\ Refreshed(row, d).checkState = row.checkState
              /\ Refreshed(row, d).status = "succeeded" => Refreshed(row, d) = row
         /\ \A c \in Nat, s \in CheckState :
              /\ WithCheck(row, c, s) \in Decision
              /\ WithCheck(row, c, s).value = row.value
              /\ WithCheck(row, c, s).status = row.status
              /\ WithCheck(row, c, s).checkRun \in {c, row.checkRun}
         /\ \A s \in ActionStatus :
              /\ WithStatus(row, s) \in Decision
              /\ WithStatus(row, s).value = row.value
              /\ WithStatus(row, s).checkRun = row.checkRun
              /\ WithStatus(row, s).checkState = row.checkState
              /\ WithStatus(row, s).status \in {s, "succeeded"}
              /\ WithStatus(row, s).status = row.status \/ WithStatus(row, s).status = s
<1>1. \A d \in Decisions : InitialStatus(d) \in ActionStatus \ {"succeeded"}
  BY DEF InitialStatus, ActionStatus
<1>2. \A d \in Decisions :
        /\ Refreshed(row, d) \in Decision
        /\ Refreshed(row, d).checkRun = row.checkRun
        /\ Refreshed(row, d).checkState = row.checkState
        /\ Refreshed(row, d).status = "succeeded" => Refreshed(row, d) = row
  BY <1>1 DEF Refreshed, Decision, ActionStatus
<1>3. \A c \in Nat, s \in CheckState :
        /\ WithCheck(row, c, s) \in Decision
        /\ WithCheck(row, c, s).value = row.value
        /\ WithCheck(row, c, s).status = row.status
        /\ WithCheck(row, c, s).checkRun \in {c, row.checkRun}
  BY DEF WithCheck, Decision
<1>4. \A s \in ActionStatus :
        /\ WithStatus(row, s) \in Decision
        /\ WithStatus(row, s).value = row.value
        /\ WithStatus(row, s).checkRun = row.checkRun
        /\ WithStatus(row, s).checkState = row.checkState
        /\ WithStatus(row, s).status \in {s, "succeeded"}
        /\ WithStatus(row, s).status = row.status \/ WithStatus(row, s).status = s
  BY DEF WithStatus, Decision
<1> QED BY <1>2, <1>3, <1>4

\* A step preserves the invariant if the attempts it does not touch stay, what
\* is written stays written, and the rest of the invariant is preserved.
LEMMA InvFrame ==
  ASSUME RoutingInv, RoutingTypeOK', PublishedInv', SuccessMeansDone',
         \A v \in Workers :
           phase'[v] = "executing" =>
             \/ AttemptOK(v)'
             \/ phase[v] = "executing" /\ run'[v] = run[v] /\ lease'[v] = lease[v]
                /\ lease[v].job \in Jobs,
         \A j \in Jobs :
           /\ event[j] # NoDecision => event'[j] = event[j]
           /\ complete[j] \subseteq complete'[j]
           /\ queued[j] => queued'[j]
           /\ decision[j].checkRun # 0 => decision'[j].checkRun # 0
  PROVE  RoutingInv'
<1> SUFFICES ASSUME NEW v \in Workers, phase'[v] = "executing",
                    phase[v] = "executing", run'[v] = run[v], lease'[v] = lease[v],
                    lease[v].job \in Jobs
             PROVE  AttemptOK(v)'
  BY DEF RoutingInv, AttemptInv
<1>1. PICK j \in Jobs : j = lease[v].job
  OBVIOUS
<1>2. lease'[v].job = j
  BY <1>1
<1>3. AttemptOK(v)
  BY DEF RoutingInv, AttemptInv
<1> DEFINE d == run[v].decision
           step == run[v].step
<1>4. /\ step = "persist" => d \in Decisions
      /\ step \in ActionSteps \cup {"action done"} => d \in Decisions /\ d = event[j]
      /\ step \in {"record check", "act", "conclude check", "fail check", "fail row"}
           => run[v].checkRun # 0
      /\ step \in {"act", "conclude check", "conclude row", "enqueue policy", "action done"}
           => decision[j].checkRun # 0
      /\ step \in {"enqueue policy", "action done"} => d \in complete[j]
  BY <1>1, <1>3 DEF AttemptOK, JobOf
<1>5. step = "action done" /\ RouteOf[d] = "human_review" => queued[j]
  BY <1>1, <1>3, Zenon DEF AttemptOK, JobOf
<1>6. step \in ActionSteps \cup {"action done"} => d \in Decisions /\ d = event'[j]
  BY <1>4, RoutingAssumption
<1>7. step \in {"act", "conclude check", "conclude row", "enqueue policy", "action done"}
        => decision'[j].checkRun # 0
  BY <1>4
<1>8. step \in {"enqueue policy", "action done"} => d \in complete'[j]
  BY <1>4
<1>9. step = "action done" /\ RouteOf[d] = "human_review" => queued'[j]
  BY <1>5, Zenon
<1>10. run'[v].decision = d /\ run'[v].step = step /\ run'[v].checkRun = run[v].checkRun
  OBVIOUS
<1> HIDE DEF d, step
<1> QED BY <1>2, <1>4, <1>6, <1>7, <1>8, <1>9, <1>10, Zenon DEF AttemptOK, JobOf

\* Nothing is asked of an attempt at the other steps.
FreeSteps == {"begin", "compute", "finish", "caught", "action failed",
              "find failed check", "finalized", "recovery failed"}

LEMMA FreeStepIsOK ==
  ASSUME NEW w \in Workers, run'[w].step \in FreeSteps
  PROVE  AttemptOK(w)'
BY DEF AttemptOK, FreeSteps, ActionSteps

\* The obligations of AttemptOK after a step, by what it depends on.
LEMMA AttemptOKAfter ==
  ASSUME NEW w \in Workers, NEW j \in Jobs, lease'[w].job = j,
         NEW s, run'[w].step = s, NEW d, run'[w].decision = d,
         s = "persist" => d \in Decisions,
         s \in ActionSteps \cup {"action done"} => d \in Decisions /\ d = event'[j],
         s \in {"record check", "act", "conclude check", "fail check", "fail row"}
           => run'[w].checkRun # 0,
         s \in {"act", "conclude check", "conclude row", "enqueue policy", "action done"}
           => decision'[j].checkRun # 0,
         s \in {"enqueue policy", "action done"} => d \in complete'[j],
         s = "action done" /\ RouteOf[d] = "human_review" => queued'[j]
  PROVE  AttemptOK(w)'
BY Zenon DEF AttemptOK, JobOf

\* ... and before one, for the job and the decision at hand.
LEMMA AttemptOKBefore ==
  ASSUME AttemptInv, NEW w \in Workers, phase[w] = "executing",
         NEW j \in Jobs, lease[w].job = j, NEW s, run[w].step = s
  PROVE  /\ s = "persist" => run[w].decision \in Decisions
         /\ s \in ActionSteps \cup {"action done"}
              => run[w].decision \in Decisions /\ run[w].decision = event[j]
         /\ s \in {"record check", "act", "conclude check", "fail check", "fail row"}
              => run[w].checkRun # 0
         /\ s \in {"act", "conclude check", "conclude row", "enqueue policy", "action done"}
              => decision[j].checkRun # 0
         /\ s \in {"enqueue policy", "action done"} => run[w].decision \in complete[j]
         /\ s = "action done" /\ RouteOf[run[w].decision] = "human_review" => queued[j]
<1>1. AttemptOK(w)
  BY DEF AttemptInv
<1> QED BY <1>1, Zenon DEF AttemptOK, JobOf

\* What an attempt writes concerns its own job.  The invariant is preserved if
\* it is for that job and nothing that was written is lost.
LEMMA AttemptWrites ==
  ASSUME RoutingInv, IInv, RoutingTypeOK',
         NEW w \in Workers, phase[w] = "executing", NEW j \in Jobs, lease[w].job = j,
         UNCHANGED vars, AttemptOK(w)',
         \A v \in Workers \ {w} : run'[v] = run[v],
         \A k \in Jobs \ {j} :
           /\ decision'[k] = decision[k] /\ event'[k] = event[k]
           /\ applied'[k] = applied[k] /\ complete'[k] = complete[k]
           /\ queued'[k] = queued[k],
         decision'[j].value = event'[j], CheckOnRecord(decision'[j]),
         applied'[j] \subseteq {event'[j]},
         complete'[j] \subseteq applied'[j],
         decision'[j].status = "succeeded" =>
           /\ decision'[j].value \in complete'[j]
           /\ decision'[j].checkRun # 0
           /\ RouteOf[decision'[j].value] = "human_review" => queued'[j],
         event[j] # NoDecision => event'[j] = event[j],
         complete[j] \subseteq complete'[j],
         queued[j] => queued'[j],
         decision[j].checkRun # 0 => decision'[j].checkRun # 0
  PROVE  RoutingInv'
<1>1. PublishedInv'
  <2> SUFFICES ASSUME NEW k \in Jobs
               PROVE  /\ decision'[k].value = event'[k]
                      /\ CheckOnRecord(decision'[k])
                      /\ applied'[k] \subseteq {event'[k]}
                      /\ complete'[k] \subseteq applied'[k]
    BY DEF PublishedInv, CheckOnRecord
  <2> QED BY DEF RoutingInv, PublishedInv
<1>2. SuccessMeansDone'
  <2> SUFFICES ASSUME NEW k \in Jobs, decision'[k].status = "succeeded"
               PROVE  /\ decision'[k].value \in complete'[k]
                      /\ decision'[k].checkRun # 0
                      /\ RouteOf[decision'[k].value] = "human_review" => queued'[k]
    BY Zenon DEF SuccessMeansDone
  <2>1. CASE k = j
    BY <2>1, Zenon
  <2>2. CASE k # j
    <3>1. /\ decision[k].status = "succeeded" =>
               /\ decision[k].value \in complete[k]
               /\ decision[k].checkRun # 0
               /\ RouteOf[decision[k].value] = "human_review" => queued[k]
      BY Zenon DEF RoutingInv, SuccessMeansDone
    <3>2. /\ decision'[k] = decision[k] /\ complete'[k] = complete[k]
          /\ queued'[k] = queued[k]
      BY <2>2
    <3> QED BY <3>1, <3>2, Zenon
  <2> QED BY <2>1, <2>2
<1>3. \A v \in Workers :
        phase'[v] = "executing" =>
          \/ AttemptOK(v)'
          \/ phase[v] = "executing" /\ run'[v] = run[v] /\ lease'[v] = lease[v]
             /\ lease[v].job \in Jobs
  <2> SUFFICES ASSUME NEW v \in Workers, phase'[v] = "executing", v # w
               PROVE  phase[v] = "executing" /\ run'[v] = run[v] /\ lease'[v] = lease[v]
                      /\ lease[v].job \in Jobs
    OBVIOUS
  <2>1. phase[v] = "executing" /\ run'[v] = run[v] /\ lease'[v] = lease[v]
    BY DEF vars
  <2> QED BY <2>1, ExecutingLease DEF IInv
<1>4. \A k \in Jobs :
        /\ event[k] # NoDecision => event'[k] = event[k]
        /\ complete[k] \subseteq complete'[k]
        /\ decision[k].checkRun # 0 => decision'[k].checkRun # 0
  OBVIOUS
<1>5. \A k \in Jobs : queued[k] => queued'[k]
  <2> SUFFICES ASSUME NEW k \in Jobs, queued[k] PROVE queued'[k]
    BY Zenon
  <2> QED BY Zenon
<1> QED BY <1>1, <1>2, <1>3, <1>4, <1>5, InvFrame

\* An attempt that only goes on with another step.
LEMMA AttemptGoesOn ==
  ASSUME RoutingInv, IInv, NEW w \in Workers, phase[w] = "executing",
         UNCHANGED <<vars, routing>>, AttemptOK(w)',
         run' \in [Workers -> Attempt], run'[w].step \in Steps,
         \A v \in Workers \ {w} : run'[v] = run[v]
  PROVE  RoutingInv'
<1>1. PICK j \in Jobs : lease[w].job = j
  BY ExecutingLease DEF IInv
<1>2. \A v \in Workers : phase'[v] = "executing" <=> run'[v].step # "none"
  BY DEF RoutingInv, RoutingTypeOK, Steps, vars
<1>3. RoutingTypeOK'
  BY <1>2, Zenon DEF RoutingInv, RoutingTypeOK, routing
<1>4. \A k \in Jobs : /\ decision'[k] = decision[k] /\ event'[k] = event[k]
                      /\ applied'[k] = applied[k] /\ complete'[k] = complete[k]
                      /\ queued'[k] = queued[k]
  BY DEF routing
<1>5. /\ decision[j].value = event[j]
      /\ CheckOnRecord(decision[j])
      /\ applied[j] \subseteq {event[j]}
      /\ complete[j] \subseteq applied[j]
  BY DEF RoutingInv, PublishedInv
<1>6. decision[j].status = "succeeded" =>
        /\ decision[j].value \in complete[j]
        /\ decision[j].checkRun # 0
        /\ RouteOf[decision[j].value] = "human_review" => queued[j]
  BY Zenon DEF RoutingInv, SuccessMeansDone
<1>7. queued[j] => queued'[j]
  BY <1>4, Zenon
<1>8. decision'[j].status = "succeeded" =>
        /\ decision'[j].value \in complete'[j]
        /\ decision'[j].checkRun # 0
        /\ RouteOf[decision'[j].value] = "human_review" => queued'[j]
  BY <1>4, <1>6, Zenon
<1>9. /\ decision'[j].value = event'[j] /\ applied'[j] \subseteq {event'[j]}
      /\ complete'[j] \subseteq applied'[j] /\ event'[j] = event[j]
      /\ complete[j] \subseteq complete'[j]
      /\ decision'[j].checkRun = decision[j].checkRun /\ CheckOnRecord(decision'[j])
  BY <1>4, <1>5
<1>10. UNCHANGED vars
  OBVIOUS
<1> QED BY <1>1, <1>3, <1>4, <1>7, <1>8, <1>9, <1>10, AttemptWrites

-----------------------------------------------------------------------------
(* Steps that only read *)

\* The newest check run exists when there is one.
LEMMA NewestCheck ==
  ASSUME NEW runs \in Seq(CheckState), Len(runs) # 0
  PROVE  Len(runs) \in Nat \ {0} /\ runs[Len(runs)] \in CheckState
<1>1. Len(runs) \in Nat /\ Len(runs) \in 1 .. Len(runs)
  OBVIOUS
<1>2. \A i \in 1 .. Len(runs) : runs[i] \in CheckState
  OBVIOUS
<1> QED BY <1>1, <1>2

\* Concluding a run leaves a sequence of runs.
LEMMA FailedRuns ==
  ASSUME NEW runs \in Seq(CheckState), NEW c \in Nat
  PROVE  [runs EXCEPT ![c] = "failure"] \in Seq(CheckState)
<1> DEFINE failed == [runs EXCEPT ![c] = "failure"]
<1>1. "failure" \in CheckState
  BY DEF CheckState
<1>2. runs \in [1 .. Len(runs) -> CheckState] /\ Len(runs) \in Nat
  OBVIOUS
<1>3. failed \in [1 .. Len(runs) -> CheckState]
  BY <1>1, <1>2
<1> HIDE DEF failed
<1>4. \E n \in Nat : failed \in [1 .. n -> CheckState]
  BY <1>2, <1>3
<1>5. failed \in Seq(CheckState)
  BY <1>4
<1> QED BY <1>5 DEF failed

\* Recording a run leaves a row with a run: this one, or that of its failure.
LEMMA RecordedRun ==
  ASSUME NEW row \in Decision, NEW c \in Nat \ {0}, NEW s \in CheckState,
         CheckOnRecord(row)
  PROVE  WithCheck(row, c, s).checkRun # 0 /\ CheckOnRecord(WithCheck(row, c, s))
BY DEF WithCheck, Decision, CheckOnRecord

\* An attempt that goes on with a step of which nothing is asked.
LEMMA FreeStepKeepsInv ==
  ASSUME RoutingInv, IInv, NEW w \in Workers, phase[w] = "executing",
         UNCHANGED <<vars, routing>>, NEW s \in FreeSteps,
         \/ Goto(w, s)
         \/ \E e \in {"transient", "permanent"} : Raise(w, s, e)
  PROVE  RoutingInv'
<1>1. run \in [Workers -> Attempt]
  BY DEF RoutingInv, RoutingTypeOK
<1>2. s \in Steps
  BY DEF FreeSteps, Steps
<1>3. /\ run' \in [Workers -> Attempt] /\ run'[w].step = s
      /\ \A v \in Workers \ {w} : run'[v] = run[v]
  BY <1>1, <1>2, GotoFacts, RaiseFacts
<1>4. AttemptOK(w)'
  BY <1>3, FreeStepIsOK
<1> QED BY <1>2, <1>3, <1>4, AttemptGoesOn

\* An attempt that goes on towards its actions with the published decision.
LEMMA ActionStepKeepsInv ==
  ASSUME RoutingInv, IInv, NEW w \in Workers, At(w, "preflight") \/ At(w, "find check"),
         UNCHANGED <<vars, routing>>,
         \/ Goto(w, "find check") \/ Goto(w, "create check")
         \/ Take(w, "act", decision[JobOf(w)].checkRun, run[w].found)
            /\ decision[JobOf(w)].checkRun # 0
         \/ \E c \in Nat \ {0}, f \in CheckState : Take(w, "record check", c, f)
  PROVE  RoutingInv'
<1>1. run \in [Workers -> Attempt] /\ run[w].found \in CheckState
  BY DEF RoutingInv, RoutingTypeOK, Attempt
<1>2. PICK j \in Jobs : lease[w].job = j
  BY ExecutingLease DEF IInv, At
<1>3. decision[j] \in Decision /\ decision[j].checkRun \in Nat
  BY DEF RoutingInv, RoutingTypeOK, Decision
<1>4. PICK s \in {"find check", "create check", "act", "record check"} :
        /\ run' \in [Workers -> Attempt] /\ run'[w].step = s
        /\ run'[w].decision = run[w].decision
        /\ s = "act" => decision[j].checkRun # 0
        /\ s \in {"act", "record check"} => run'[w].checkRun # 0
        /\ \A v \in Workers \ {w} : run'[v] = run[v]
  <2>1. CASE \E s \in {"find check", "create check"} : Goto(w, s)
    BY <1>1, <2>1, GotoFacts DEF Steps
  <2>2. CASE Take(w, "act", decision[j].checkRun, run[w].found) /\ decision[j].checkRun # 0
    <3>1. "act" \in Steps
      BY DEF Steps
    <3>2. /\ run' \in [Workers -> Attempt] /\ run'[w].step = "act"
          /\ run'[w].decision = run[w].decision
          /\ run'[w].checkRun = decision[j].checkRun
          /\ \A v \in Workers \ {w} : run'[v] = run[v]
      <4>1. PICK c \in Nat : c = decision[j].checkRun
        BY <1>3
      <4>2. Take(w, "act", c, run[w].found)
        BY <2>2, <4>1
      <4>3. /\ run' \in [Workers -> Attempt] /\ run'[w].step = "act"
            /\ run'[w].decision = run[w].decision /\ run'[w].checkRun = c
            /\ \A v \in Workers \ {w} : run'[v] = run[v]
        BY <1>1, <3>1, <4>2, TakeFacts
      <4> QED BY <4>1, <4>3
    <3>3. run'[w].checkRun # 0 /\ decision[j].checkRun # 0
      BY <2>2, <3>2
    <3> QED BY <3>2, <3>3
  <2>3. CASE \E c \in Nat \ {0}, f \in CheckState : Take(w, "record check", c, f)
    BY <1>1, <2>3, TakeFacts DEF Steps
  <2> QED BY <1>2, <2>1, <2>2, <2>3 DEF JobOf
<1>5. /\ run[w].decision \in Decisions /\ run[w].decision = event[j]
      /\ phase[w] = "executing"
  BY <1>2, AttemptOKBefore DEF RoutingInv, At, ActionSteps
<1>6. event'[j] = event[j] /\ decision'[j] = decision[j] /\ lease'[w].job = j
  BY <1>2 DEF routing, vars
<1>7. AttemptOK(w)'
  BY <1>4, <1>5, <1>6, AttemptOKAfter DEF ActionSteps
<1>8. run'[w].step \in Steps
  BY <1>4 DEF Steps
<1> QED BY <1>4, <1>5, <1>7, <1>8, AttemptGoesOn

LEMMA ReadingStepKeepsInv ==
  ASSUME RoutingInv, IInv, NEW w \in Workers,
         \/ Begin(w) \/ Skip(w) \/ \E d \in Decisions : Compute(w, d)
         \/ PersistRefused(w) \/ Preflight(w) \/ FindCheck(w) \/ FindFailedCheck(w)
         \/ RecoveryUnsettled(w) \/ Throw(w)
  PROVE  RoutingInv'
<1>1. CASE Begin(w)
  <2>1. \E s \in FreeSteps : Goto(w, s)
    BY <1>1 DEF Begin, FreeSteps
  <2> QED BY <1>1, <2>1, FreeStepKeepsInv DEF Begin, At
<1>2. CASE Skip(w)
  <2>1. "finish" \in FreeSteps
    BY DEF FreeSteps
  <2> QED BY <1>2, <2>1, FreeStepKeepsInv DEF Skip, At
<1>3. ASSUME NEW d \in Decisions, Compute(w, d) PROVE RoutingInv'
  <2>1. run \in [Workers -> Attempt]
    BY DEF RoutingInv, RoutingTypeOK
  <2>2. /\ run' \in [Workers -> Attempt] /\ run'[w].step = "persist"
        /\ run'[w].decision = d /\ \A v \in Workers \ {w} : run'[v] = run[v]
    BY <1>3, <2>1 DEF Compute, Attempt, Steps
  <2>3. AttemptOK(w)'
    BY <2>2 DEF AttemptOK, ActionSteps
  <2> QED BY <1>3, <2>2, <2>3, AttemptGoesOn DEF Compute, At, Steps
<1>4. CASE PersistRefused(w)
  <2>1. "caught" \in FreeSteps
    BY DEF FreeSteps
  <2> QED BY <1>4, <2>1, FreeStepKeepsInv DEF PersistRefused, At
<1>5. CASE Preflight(w)
  <2>1. CASE Goto(w, "find check")
    BY <1>5, <2>1, ActionStepKeepsInv DEF Preflight
  <2>2. CASE Raise(w, "action failed", "permanent")
    <3>1. "action failed" \in FreeSteps
      BY DEF FreeSteps
    <3> QED BY <1>5, <2>2, <3>1, FreeStepKeepsInv DEF Preflight, At
  <2> QED BY <1>5, <2>1, <2>2 DEF Preflight
<1>6. CASE FindCheck(w)
  <2>1. lease[w].job \in Jobs
    BY <1>6, ExecutingLease DEF FindCheck, At, IInv
  <2>2. PICK runs \in Seq(CheckState) : checks[lease[w].job] = runs
    BY <2>1 DEF RoutingInv, RoutingTypeOK
  <2>3. CASE Len(runs) # 0 /\ Take(w, "record check", Len(runs), runs[Len(runs)])
    <3>1. Len(runs) \in Nat \ {0} /\ runs[Len(runs)] \in CheckState
      BY <2>3, NewestCheck
    <3>2. \E c \in Nat \ {0}, f \in CheckState : Take(w, "record check", c, f)
      BY <2>3, <3>1, Zenon
    <3> QED BY <1>6, <3>2, ActionStepKeepsInv DEF FindCheck
  <2> QED BY <1>6, <2>2, <2>3, ActionStepKeepsInv DEF FindCheck, JobOf
<1>7. CASE FindFailedCheck(w)
  <2>0. /\ run \in [Workers -> Attempt] /\ run[w].found \in CheckState
        /\ phase[w] = "executing"
    BY <1>7 DEF RoutingInv, RoutingTypeOK, Attempt, FindFailedCheck, At
  <2>1. PICK j \in Jobs : lease[w].job = j
    BY <2>0, ExecutingLease DEF IInv
  <2>2. /\ checks[j] \in Seq(CheckState) /\ Len(checks[j]) \in Nat
        /\ decision[j].checkRun \in Nat
    BY DEF RoutingInv, RoutingTypeOK, Decision
  <2>3. CASE Goto(w, "finalized")
    <3>1. "finalized" \in FreeSteps
      BY DEF FreeSteps
    <3> QED BY <1>7, <2>0, <2>3, <3>1, FreeStepKeepsInv DEF FindFailedCheck
  <2>4. ASSUME NEW c \in Nat \ {0}, Take(w, "fail check", c, run[w].found)
        PROVE  RoutingInv'
    <3>1. /\ run' \in [Workers -> Attempt] /\ run'[w].step = "fail check"
          /\ run'[w].checkRun = c /\ \A v \in Workers \ {w} : run'[v] = run[v]
      <4>1. "fail check" \in Steps
        BY DEF Steps
      <4> QED BY <2>0, <2>4, <4>1, TakeFacts
    <3>2. AttemptOK(w)'
      BY <3>1 DEF AttemptOK, ActionSteps
    <3> QED BY <1>7, <2>0, <3>1, <3>2, AttemptGoesOn DEF FindFailedCheck, Steps
  <2> QED BY <1>7, <2>1, <2>2, <2>3, <2>4 DEF FindFailedCheck, JobOf
<1>8. CASE RecoveryUnsettled(w)
  <2>1. "caught" \in FreeSteps
    BY DEF FreeSteps
  <2> QED BY <1>8, <2>1, FreeStepKeepsInv DEF RecoveryUnsettled
<1>9. CASE Throw(w)
  <2>1. Handler(run[w].step) \in FreeSteps
    BY DEF Handler, FreeSteps
  <2>2. \E e \in {"transient", "permanent"} : Raise(w, Handler(run[w].step), e)
    BY <1>9 DEF Throw
  <2> QED BY <1>9, <2>1, <2>2, FreeStepKeepsInv DEF Throw
<1> QED BY <1>1, <1>2, <1>3, <1>4, <1>5, <1>6, <1>7, <1>8, <1>9

-----------------------------------------------------------------------------
(* Steps that write *)

\* What holds before any step of an attempt, at its job.
LEMMA JobFacts ==
  ASSUME RoutingInv, IInv, NEW w \in Workers, phase[w] = "executing"
  PROVE  \E j \in Jobs :
           /\ lease[w].job = j
           /\ decision \in [Jobs -> Decision] /\ decision[j] \in Decision
           /\ decision[j].value = event[j] /\ CheckOnRecord(decision[j])
           /\ applied[j] \subseteq {event[j]} /\ complete[j] \subseteq applied[j]
           /\ decision[j].status = "succeeded" =>
                /\ decision[j].value \in complete[j]
                /\ decision[j].checkRun # 0
                /\ RouteOf[decision[j].value] = "human_review" => queued[j]
<1>1. PICK j \in Jobs : lease[w].job = j
  BY ExecutingLease DEF IInv
<1>2. /\ decision \in [Jobs -> Decision] /\ decision[j] \in Decision
      /\ decision[j].value = event[j] /\ CheckOnRecord(decision[j])
      /\ applied[j] \subseteq {event[j]} /\ complete[j] \subseteq applied[j]
  BY DEF RoutingInv, RoutingTypeOK, PublishedInv
<1>3. decision[j].status = "succeeded" =>
        /\ decision[j].value \in complete[j]
        /\ decision[j].checkRun # 0
        /\ RouteOf[decision[j].value] = "human_review" => queued[j]
  BY Zenon DEF RoutingInv, SuccessMeansDone
<1> QED BY <1>1, <1>2, <1>3, Zenon

\* Types survive a step that keeps the queue and goes on to another step.
LEMMA WritingTypes ==
  ASSUME RoutingInv, UNCHANGED <<vars, payload, head>>,
         NEW w \in Workers, phase[w] = "executing",
         run' \in [Workers -> Attempt], run'[w].step \in Steps,
         \A v \in Workers \ {w} : run'[v] = run[v],
         decision' \in [Jobs -> Decision],
         event' \in [Jobs -> Decisions \cup {NoDecision}],
         checks' \in [Jobs -> Seq(CheckState)],
         applied' \in [Jobs -> SUBSET Decisions],
         complete' \in [Jobs -> SUBSET Decisions],
         queued' \in [Jobs -> BOOLEAN]
  PROVE  RoutingTypeOK'
<1>1. \A v \in Workers : phase'[v] = "executing" <=> run'[v].step # "none"
  BY DEF RoutingInv, RoutingTypeOK, Steps, vars
<1> QED BY <1>1, Zenon DEF RoutingInv, RoutingTypeOK

LEMMA PersistKeepsInv ==
  ASSUME RoutingInv, IInv, NEW w \in Workers, Persist(w)
  PROVE  RoutingInv'
<1>1. phase[w] = "executing" /\ run[w].step = "persist" /\ RoutingTypeOK
  BY DEF Persist, At, RoutingInv
<1>2. PICK j \in Jobs :
        /\ lease[w].job = j
        /\ decision \in [Jobs -> Decision] /\ decision[j] \in Decision
        /\ decision[j].value = event[j] /\ CheckOnRecord(decision[j])
        /\ applied[j] \subseteq {event[j]} /\ complete[j] \subseteq applied[j]
        /\ decision[j].status = "succeeded" =>
             /\ decision[j].value \in complete[j]
             /\ decision[j].checkRun # 0
             /\ RouteOf[decision[j].value] = "human_review" => queued[j]
  BY <1>1, JobFacts
<1>3. PICK d \in Decisions : run[w].decision = d
  BY <1>1, <1>2, AttemptOKBefore DEF RoutingInv
<1>4. PICK row \in Decision : row = Refreshed(decision[j], d)
  BY <1>2, RowFacts
<1>5. /\ row.checkRun = decision[j].checkRun
      /\ CheckOnRecord(row)
      /\ row.status = "succeeded" => row = decision[j]
  BY <1>2, <1>4, RowFacts DEF CheckOnRecord
<1>6. /\ row.value = d /\ event[j] \in {NoDecision, d}
      /\ decision' = [decision EXCEPT ![j] = row]
      /\ event' = [event EXCEPT ![j] = d]
      /\ UNCHANGED <<vars, payload, checks, applied, complete, queued, head>>
      /\ \E s \in {"finish", "preflight"} : Goto(w, s)
  BY <1>2, <1>3, <1>4 DEF Persist, EventAccepted, JobOf
<1>7. PICK s \in {"finish", "preflight"} : Goto(w, s)
  BY <1>6
<1>8. /\ run' \in [Workers -> Attempt] /\ run'[w].step = s /\ run'[w].decision = d
      /\ \A v \in Workers \ {w} : run'[v] = run[v]
  BY <1>1, <1>3, <1>7, GotoFacts DEF RoutingTypeOK, Steps
<1>9. /\ decision' \in [Jobs -> Decision] /\ decision'[j] = row
      /\ event' \in [Jobs -> Decisions \cup {NoDecision}] /\ event'[j] = d
      /\ \A k \in Jobs \ {j} : decision'[k] = decision[k] /\ event'[k] = event[k]
  BY <1>1, <1>2, <1>6 DEF RoutingTypeOK
<1>10. RoutingTypeOK'
  <2>1. run'[w].step \in Steps
    BY <1>8 DEF Steps
  <2>2. /\ checks' \in [Jobs -> Seq(CheckState)] /\ applied' \in [Jobs -> SUBSET Decisions]
        /\ complete' \in [Jobs -> SUBSET Decisions] /\ queued' \in [Jobs -> BOOLEAN]
    BY <1>1, <1>6 DEF RoutingTypeOK
  <2> QED BY <1>1, <1>6, <1>8, <1>9, <2>1, <2>2, WritingTypes
<1>11. AttemptOK(w)'
  BY <1>2, <1>6, <1>8, <1>9, AttemptOKAfter DEF ActionSteps, vars
<1>12. row.status = "succeeded" =>
         /\ row.value \in complete'[j]
         /\ row.checkRun # 0
         /\ RouteOf[row.value] = "human_review" => queued'[j]
  BY <1>2, <1>5, <1>6, Zenon
<1>13. /\ applied'[j] \subseteq {d} /\ complete'[j] \subseteq applied'[j]
       /\ complete[j] \subseteq complete'[j]
       /\ \A k \in Jobs \ {j} : applied'[k] = applied[k] /\ complete'[k] = complete[k]
  BY <1>2, <1>6, <1>1, RoutingAssumption DEF RoutingTypeOK
<1>14. queued[j] => queued'[j]
  BY <1>6, Zenon
<1>15. \A k \in Jobs \ {j} : queued'[k] = queued[k]
  BY <1>6
<1> QED
  BY <1>1, <1>2, <1>5, <1>6, <1>8, <1>9, <1>10, <1>11, <1>12, <1>13, <1>14, <1>15,
     AttemptWrites

\* Steps that write check runs on GitHub only.
LEMMA ChecksKeepInv ==
  ASSUME RoutingInv, IInv, NEW w \in Workers, phase[w] = "executing",
         UNCHANGED <<vars, payload, decision, event, applied, complete, queued, head>>,
         checks' \in [Jobs -> Seq(CheckState)], AttemptOK(w)',
         run' \in [Workers -> Attempt], run'[w].step \in Steps,
         \A v \in Workers \ {w} : run'[v] = run[v]
  PROVE  RoutingInv'
<1>1. PICK j \in Jobs :
        /\ lease[w].job = j
        /\ decision[j].value = event[j] /\ CheckOnRecord(decision[j])
        /\ applied[j] \subseteq {event[j]} /\ complete[j] \subseteq applied[j]
        /\ decision[j].status = "succeeded" =>
             /\ decision[j].value \in complete[j]
             /\ decision[j].checkRun # 0
             /\ RouteOf[decision[j].value] = "human_review" => queued[j]
  BY JobFacts
<1>2. RoutingTypeOK'
  <2>1. /\ decision' \in [Jobs -> Decision] /\ event' \in [Jobs -> Decisions \cup {NoDecision}]
        /\ applied' \in [Jobs -> SUBSET Decisions]
        /\ complete' \in [Jobs -> SUBSET Decisions] /\ queued' \in [Jobs -> BOOLEAN]
    BY DEF RoutingInv, RoutingTypeOK
  <2> QED BY <2>1, WritingTypes
<1>3. /\ decision'[j].value = event'[j] /\ applied'[j] \subseteq {event'[j]}
      /\ complete'[j] \subseteq applied'[j] /\ event'[j] = event[j]
      /\ complete[j] \subseteq complete'[j]
      /\ decision'[j].checkRun = decision[j].checkRun /\ CheckOnRecord(decision'[j])
  BY <1>1
<1>4. decision'[j].status = "succeeded" =>
        /\ decision'[j].value \in complete'[j]
        /\ decision'[j].checkRun # 0
        /\ RouteOf[decision'[j].value] = "human_review" => queued'[j]
  BY <1>1, Zenon
<1>5. queued[j] => queued'[j]
  BY Zenon
<1> QED BY <1>1, <1>2, <1>3, <1>4, <1>5, AttemptWrites

\* Steps that write the decision row only, with the value it has.
LEMMA RowKeepsInv ==
  ASSUME RoutingInv, IInv, NEW w \in Workers, phase[w] = "executing",
         NEW row \in Decision, NEW j \in Jobs, lease[w].job = j,
         UNCHANGED <<vars, payload, event, checks, applied, complete, queued, head>>,
         decision' = [decision EXCEPT ![j] = row],
         row.value = decision[j].value, CheckOnRecord(row),
         decision[j].checkRun # 0 => row.checkRun # 0,
         row.status = "succeeded" =>
           /\ row.value \in complete[j]
           /\ row.checkRun # 0
           /\ RouteOf[row.value] = "human_review" => queued[j],
         AttemptOK(w)',
         run' \in [Workers -> Attempt], run'[w].step \in Steps,
         \A v \in Workers \ {w} : run'[v] = run[v]
  PROVE  RoutingInv'
<1>1. /\ decision \in [Jobs -> Decision]
      /\ decision[j].value = event[j] /\ CheckOnRecord(decision[j])
      /\ applied[j] \subseteq {event[j]} /\ complete[j] \subseteq applied[j]
  BY DEF RoutingInv, RoutingTypeOK, PublishedInv
<1>2. /\ decision' \in [Jobs -> Decision] /\ decision'[j] = row
      /\ \A k \in Jobs \ {j} : decision'[k] = decision[k]
  BY <1>1
<1>3. RoutingTypeOK'
  <2>1. /\ event' \in [Jobs -> Decisions \cup {NoDecision}]
        /\ checks' \in [Jobs -> Seq(CheckState)]
        /\ applied' \in [Jobs -> SUBSET Decisions]
        /\ complete' \in [Jobs -> SUBSET Decisions] /\ queued' \in [Jobs -> BOOLEAN]
    BY DEF RoutingInv, RoutingTypeOK
  <2> QED BY <1>2, <2>1, WritingTypes
<1>4. /\ decision'[j].value = event'[j] /\ applied'[j] \subseteq {event'[j]}
      /\ complete'[j] \subseteq applied'[j] /\ event'[j] = event[j]
      /\ complete[j] \subseteq complete'[j]
      /\ decision[j].checkRun # 0 => decision'[j].checkRun # 0
  BY <1>1, <1>2
<1>5. decision'[j].status = "succeeded" =>
        /\ decision'[j].value \in complete'[j]
        /\ decision'[j].checkRun # 0
        /\ RouteOf[decision'[j].value] = "human_review" => queued'[j]
  BY <1>2, Zenon
<1>6. queued[j] => queued'[j]
  BY Zenon
<1> QED BY <1>2, <1>3, <1>4, <1>5, <1>6, AttemptWrites

LEMMA ChecksWritersKeepInv ==
  ASSUME RoutingInv, IInv, NEW w \in Workers,
         CreateCheck(w) \/ ConcludeCheck(w) \/ FailCheck(w)
  PROVE  RoutingInv'
<1>0. /\ phase[w] = "executing" /\ RoutingTypeOK
      /\ run \in [Workers -> Attempt] /\ run[w].checkRun \in Nat
      /\ checks \in [Jobs -> Seq(CheckState)]
  BY DEF RoutingInv, RoutingTypeOK, CreateCheck, ConcludeCheck, FailCheck, At, Attempt
<1>1. PICK j \in Jobs : lease[w].job = j
  BY <1>0, ExecutingLease DEF IInv
<1>2. PICK runs \in Seq(CheckState) : checks[j] = runs
  BY <1>0
<1>3. CASE CreateCheck(w)
  <2>1. InitialCheck(run[w].decision) \in CheckState
    BY DEF InitialCheck, CheckState
  <2>2. PICK state \in CheckState : state = InitialCheck(run[w].decision)
    BY <2>1
  <2>3. /\ checks' = [checks EXCEPT ![j] = Append(runs, state)]
        /\ Take(w, "record check", Len(runs) + 1, state)
        /\ UNCHANGED <<vars, payload, decision, event, applied, complete, queued, head>>
        /\ run[w].step = "create check"
    BY <1>1, <1>2, <1>3, <2>2 DEF CreateCheck, JobOf, At
  <2>4. Append(runs, state) \in Seq(CheckState) /\ Len(runs) + 1 \in Nat \ {0}
    OBVIOUS
  <2>5. checks' \in [Jobs -> Seq(CheckState)]
    BY <1>0, <2>3, <2>4
  <2>6. "record check" \in Steps
    BY DEF Steps
  <2>7. /\ run' \in [Workers -> Attempt] /\ run'[w].step = "record check"
        /\ run'[w].decision = run[w].decision /\ run'[w].checkRun = Len(runs) + 1
        /\ \A v \in Workers \ {w} : run'[v] = run[v]
    BY <1>0, <2>3, <2>4, <2>6, TakeFacts
  <2>8. run[w].decision \in Decisions /\ run[w].decision = event[j]
    BY <1>0, <1>1, <2>3, AttemptOKBefore DEF RoutingInv, ActionSteps
  <2>9. lease'[w].job = j /\ event'[j] = event[j]
    BY <1>1, <2>3 DEF vars
  <2>10. AttemptOK(w)'
    BY <2>4, <2>7, <2>8, <2>9, AttemptOKAfter DEF ActionSteps
  <2> QED BY <1>0, <2>3, <2>5, <2>6, <2>7, <2>10, ChecksKeepInv
<1>4. CASE ConcludeCheck(w) \/ FailCheck(w)
  <2>1. PICK c \in Nat, s \in {"conclude row", "fail row"} :
          /\ run[w].checkRun = c
          /\ checks' = [checks EXCEPT ![j] = [runs EXCEPT ![c] = "failure"]]
          /\ Goto(w, s)
          /\ UNCHANGED <<vars, payload, decision, event, applied, complete, queued, head>>
          /\ s = "conclude row" => run[w].step = "conclude check"
          /\ s = "fail row" => run[w].step = "fail check"
    BY <1>0, <1>1, <1>2, <1>4 DEF ConcludeCheck, FailCheck, JobOf, At
  <2>2. [runs EXCEPT ![c] = "failure"] \in Seq(CheckState)
    BY FailedRuns
  <2>3. checks' \in [Jobs -> Seq(CheckState)]
    BY <1>0, <2>1, <2>2
  <2>4. s \in Steps
    BY DEF Steps
  <2>5. /\ run' \in [Workers -> Attempt] /\ run'[w].step = s
        /\ run'[w].decision = run[w].decision /\ run'[w].checkRun = c
        /\ \A v \in Workers \ {w} : run'[v] = run[v]
    BY <1>0, <2>1, <2>4, GotoFacts
  <2>6. /\ c # 0
        /\ s = "conclude row" => /\ run[w].decision \in Decisions
                                 /\ run[w].decision = event[j]
                                 /\ decision[j].checkRun # 0
    BY <1>0, <1>1, <2>1, AttemptOKBefore DEF RoutingInv, ActionSteps
  <2>7. lease'[w].job = j /\ event'[j] = event[j] /\ decision'[j] = decision[j]
    BY <1>1, <2>1 DEF vars
  <2>8. AttemptOK(w)'
    BY <2>5, <2>6, <2>7, AttemptOKAfter DEF ActionSteps
  <2> QED BY <1>0, <2>1, <2>3, <2>4, <2>5, <2>8, ChecksKeepInv
<1> QED BY <1>3, <1>4

LEMMA RowWritersKeepInv ==
  ASSUME RoutingInv, IInv, NEW w \in Workers,
         RecordCheck(w) \/ ConcludeRow(w) \/ FailRow(w) \/ ActionDone(w) \/ ActionFailed(w)
  PROVE  RoutingInv'
<1>0. /\ phase[w] = "executing" /\ RoutingTypeOK
      /\ run \in [Workers -> Attempt] /\ run[w].checkRun \in Nat
      /\ run[w].found \in CheckState
  BY DEF RoutingInv, RoutingTypeOK, RecordCheck, ConcludeRow, FailRow, ActionDone,
         ActionFailed, At, Attempt
<1>1. PICK j \in Jobs :
        /\ lease[w].job = j
        /\ decision \in [Jobs -> Decision] /\ decision[j] \in Decision
        /\ CheckOnRecord(decision[j])
        /\ decision[j].status = "succeeded" =>
             /\ decision[j].value \in complete[j]
             /\ decision[j].checkRun # 0
             /\ RouteOf[decision[j].value] = "human_review" => queued[j]
  BY <1>0, JobFacts
<1>2. "failure" \in CheckState /\ decision[j].checkRun \in Nat
  BY <1>1 DEF CheckState, Decision
<1>3. ASSUME NEW c \in Nat, NEW f \in CheckState, NEW s \in Steps, Goto(w, s),
             decision' = [decision EXCEPT ![j] = WithCheck(@, c, f)],
             UNCHANGED <<vars, payload, event, checks, applied, complete, queued, head>>,
             c # 0, AttemptOK(w)'
      PROVE  RoutingInv'
  <2>1. PICK row \in Decision : row = WithCheck(decision[j], c, f)
    BY <1>1, RowFacts
  <2>2. /\ row.value = decision[j].value /\ row.status = decision[j].status
        /\ row.checkRun \in {c, decision[j].checkRun}
    BY <1>1, <2>1, RowFacts
  <2>3. decision' = [decision EXCEPT ![j] = row]
    BY <1>1, <1>3, <2>1
  <2>4. row.status = "succeeded" =>
          /\ row.value \in complete[j]
          /\ row.checkRun # 0
          /\ RouteOf[row.value] = "human_review" => queued[j]
    <3>1. decision[j].checkRun # 0 => row.checkRun # 0
      BY <1>3, <2>2
    <3> QED BY <1>1, <2>2, <3>1, Zenon
  <2>5. /\ run' \in [Workers -> Attempt] /\ run'[w].step = s
        /\ \A v \in Workers \ {w} : run'[v] = run[v]
    BY <1>0, <1>3, GotoFacts
  <2>6. decision[j].checkRun # 0 => row.checkRun # 0
    BY <1>3, <2>2
  <2>7. CheckOnRecord(row)
    BY <1>1, <1>3, <2>1, RecordedRun
  <2> QED BY <1>0, <1>1, <1>3, <2>2, <2>3, <2>4, <2>5, <2>6, <2>7, RowKeepsInv
<1>4. ASSUME NEW status \in ActionStatus, NEW s \in FreeSteps, Goto(w, s),
             decision' = [decision EXCEPT ![j] = WithStatus(@, status)],
             UNCHANGED <<vars, payload, event, checks, applied, complete, queued, head>>,
             status = "succeeded" =>
               /\ decision[j].value \in complete[j]
               /\ decision[j].checkRun # 0
               /\ RouteOf[decision[j].value] = "human_review" => queued[j]
      PROVE  RoutingInv'
  <2>1. PICK row \in Decision : row = WithStatus(decision[j], status)
    BY <1>1, RowFacts
  <2>2. /\ row.value = decision[j].value /\ row.checkRun = decision[j].checkRun
        /\ row.status = decision[j].status \/ row.status = status
        /\ CheckOnRecord(row)
    BY <1>1, <2>1, RowFacts DEF CheckOnRecord
  <2>3. decision' = [decision EXCEPT ![j] = row]
    BY <1>1, <1>4, <2>1
  <2>4. row.status = "succeeded" =>
          /\ row.value \in complete[j]
          /\ row.checkRun # 0
          /\ RouteOf[row.value] = "human_review" => queued[j]
    BY <1>1, <1>4, <2>2, Zenon
  <2>5. s \in Steps
    BY DEF FreeSteps, Steps
  <2>6. /\ run' \in [Workers -> Attempt] /\ run'[w].step = s
        /\ \A v \in Workers \ {w} : run'[v] = run[v]
    BY <1>0, <1>4, <2>5, GotoFacts
  <2>7. AttemptOK(w)'
    BY <2>6, FreeStepIsOK
  <2> QED BY <1>0, <1>1, <1>4, <2>2, <2>3, <2>4, <2>5, <2>6, <2>7, RowKeepsInv
<1>5. CASE RecordCheck(w)
  <2>1. run[w].step = "record check" /\ Goto(w, "act")
    BY <1>5 DEF RecordCheck, At
  <2>2. decision' = [decision EXCEPT ![j] = WithCheck(@, run[w].checkRun, run[w].found)]
    BY <1>1, <1>5 DEF RecordCheck, JobOf
  <2>3. UNCHANGED <<vars, payload, event, checks, applied, complete, queued, head>>
    BY <1>5 DEF RecordCheck
  <2>4. /\ run[w].checkRun # 0
        /\ run[w].decision \in Decisions /\ run[w].decision = event[j]
    BY <1>0, <1>1, <2>1, AttemptOKBefore DEF RoutingInv, ActionSteps
  <2>5. /\ run'[w].step = "act" /\ run'[w].decision = run[w].decision
        /\ run'[w].checkRun = run[w].checkRun
    BY <1>0, <2>1, GotoFacts DEF Steps
  <2>6. lease'[w].job = j /\ event'[j] = event[j] /\ decision'[j].checkRun # 0
    <3>1. WithCheck(decision[j], run[w].checkRun, run[w].found).checkRun # 0
      BY <1>0, <1>1, <2>4, RecordedRun
    <3> QED BY <1>1, <2>2, <2>3, <3>1 DEF vars
  <2>7. AttemptOK(w)'
    BY <2>4, <2>5, <2>6, AttemptOKAfter DEF ActionSteps
  <2> QED BY <1>0, <1>3, <2>1, <2>2, <2>3, <2>4, <2>7 DEF Steps
<1>6. CASE ConcludeRow(w)
  <2>1. /\ decision' = [decision EXCEPT ![j] = WithCheck(@, decision[j].checkRun, "failure")]
        /\ Goto(w, "action failed") /\ run[w].step = "conclude row"
    BY <1>1, <1>6 DEF ConcludeRow, JobOf, At
  <2>2. run'[w].step \in FreeSteps
    BY <1>0, <2>1, GotoFacts DEF Steps, FreeSteps
  <2>3. decision[j].checkRun # 0
    BY <1>0, <1>1, <2>1, AttemptOKBefore DEF RoutingInv
  <2>4. AttemptOK(w)'
    BY <2>2, FreeStepIsOK
  <2>5. UNCHANGED <<vars, payload, event, checks, applied, complete, queued, head>>
    BY <1>6 DEF ConcludeRow
  <2>6. "action failed" \in Steps
    BY DEF Steps
  <2> QED BY <1>2, <1>3, <2>1, <2>3, <2>4, <2>5, <2>6
<1>7. CASE FailRow(w)
  <2>1. /\ decision' = [decision EXCEPT ![j] = WithCheck(@, run[w].checkRun, "failure")]
        /\ Goto(w, "finalized") /\ run[w].step = "fail row"
    BY <1>1, <1>7 DEF FailRow, JobOf, At
  <2>2. run'[w].step \in FreeSteps
    BY <1>0, <2>1, GotoFacts DEF Steps, FreeSteps
  <2>3. run[w].checkRun # 0
    BY <1>0, <1>1, <2>1, AttemptOKBefore DEF RoutingInv
  <2>4. AttemptOK(w)'
    BY <2>2, FreeStepIsOK
  <2> QED BY <1>0, <1>2, <1>3, <1>7, <2>1, <2>3, <2>4 DEF FailRow, Steps
<1>8. CASE ActionDone(w)
  <2>1. /\ decision' = [decision EXCEPT ![j] = WithStatus(@, "succeeded")]
        /\ Goto(w, "finish") /\ run[w].step = "action done"
    BY <1>1, <1>8 DEF ActionDone, JobOf, At
  <2>2. /\ run[w].decision = event[j] /\ decision[j].checkRun # 0
        /\ run[w].decision \in complete[j]
        /\ RouteOf[run[w].decision] = "human_review" => queued[j]
    BY <1>0, <1>1, <2>1, AttemptOKBefore, Zenon DEF RoutingInv, ActionSteps
  <2>3. decision[j].value = event[j]
    BY DEF RoutingInv, PublishedInv
  <2>4. "succeeded" \in ActionStatus /\ "finish" \in FreeSteps
    BY DEF ActionStatus, FreeSteps
  <2>5. UNCHANGED <<vars, payload, event, checks, applied, complete, queued, head>>
    BY <1>8 DEF ActionDone
  <2>6. RouteOf[decision[j].value] = "human_review" => queued[j]
    BY <2>2, <2>3, Zenon
  <2> QED BY <1>4, <2>1, <2>2, <2>3, <2>4, <2>5, <2>6
<1>9. CASE ActionFailed(w)
  <2>1. /\ decision' = [decision EXCEPT ![j] = WithStatus(@, "failed")]
        /\ Goto(w, "caught")
    BY <1>1, <1>9 DEF ActionFailed, JobOf
  <2>2. "failed" \in ActionStatus \ {"succeeded"} /\ "caught" \in FreeSteps
    BY DEF ActionStatus, FreeSteps
  <2> QED BY <1>4, <1>9, <2>1, <2>2 DEF ActionFailed
<1> QED BY <1>5, <1>6, <1>7, <1>8, <1>9

LEMMA ActKeepsInv ==
  ASSUME RoutingInv, IInv, NEW w \in Workers,
         Act(w) \/ \E error \in {"transient", "permanent"} : ActFails(w, error)
  PROVE  RoutingInv'
<1>0. /\ phase[w] = "executing" /\ RoutingTypeOK /\ run[w].step = "act"
      /\ run \in [Workers -> Attempt]
  BY DEF RoutingInv, RoutingTypeOK, Act, ActFails, At
<1>1. PICK j \in Jobs :
        /\ lease[w].job = j
        /\ decision \in [Jobs -> Decision] /\ decision[j] \in Decision
        /\ decision[j].value = event[j] /\ CheckOnRecord(decision[j])
        /\ applied[j] \subseteq {event[j]} /\ complete[j] \subseteq applied[j]
        /\ decision[j].status = "succeeded" =>
             /\ decision[j].value \in complete[j]
             /\ decision[j].checkRun # 0
             /\ RouteOf[decision[j].value] = "human_review" => queued[j]
  BY <1>0, JobFacts
<1>2. PICK d \in Decisions :
        run[w].decision = d /\ d = event[j] /\ decision[j].checkRun # 0
  BY <1>0, <1>1, AttemptOKBefore DEF RoutingInv, ActionSteps
<1>3. UNCHANGED <<vars, payload, decision, event, checks, queued, head>>
  BY DEF Act, ActFails
<1>4. applied' = [applied EXCEPT ![j] = @ \cup {d}]
  BY <1>1, <1>2 DEF Act, ActFails, JobOf
<1>5. \/ complete' = [complete EXCEPT ![j] = @ \cup {d}]
      \/ complete' = complete
  BY <1>1, <1>2 DEF Act, ActFails, JobOf
<1>6. PICK s \in Steps :
        /\ \/ Goto(w, s)
           \/ \E e \in {"transient", "permanent"} : Raise(w, s, e)
        /\ s \in {"enqueue policy", "action done", "finish", "conclude check", "action failed"}
        /\ s \in {"enqueue policy", "action done"} => d \in complete'[j]
        /\ s = "action done" => RouteOf[d] # "human_review"
        /\ s = "conclude check" => run[w].checkRun # 0
  <2>1. CASE Act(w)
    <3>1. complete' = [complete EXCEPT ![j] = @ \cup {d}] /\ Goto(w, AfterActions(d))
      BY <1>1, <1>2, <2>1 DEF Act, JobOf
    <3>2. d \in complete'[j]
      BY <1>0, <3>1 DEF RoutingTypeOK
    <3>3. /\ AfterActions(d) \in {"enqueue policy", "action done", "finish"}
          /\ AfterActions(d) = "action done" => RouteOf[d] # "human_review"
      BY DEF AfterActions
    <3> QED BY <3>1, <3>2, <3>3 DEF Steps
  <2>2. CASE \E error \in {"transient", "permanent"} : ActFails(w, error)
    <3>1. run[w].checkRun # 0
      BY <1>0, <1>1, AttemptOKBefore DEF RoutingInv
    <3>2. \E s \in {"conclude check", "action failed"}, e \in {"transient", "permanent"} :
            Raise(w, s, e)
      BY <2>2 DEF ActFails
    <3>3. PICK s \in {"conclude check", "action failed"} :
            \E e \in {"transient", "permanent"} : Raise(w, s, e)
      BY <3>2
    <3>4. s \in Steps
      BY DEF Steps
    <3> QED BY <3>1, <3>3, <3>4
  <2> QED BY <2>1, <2>2
<1>7. /\ run' \in [Workers -> Attempt] /\ run'[w].step = s /\ run'[w].decision = d
      /\ run'[w].checkRun = run[w].checkRun
      /\ \A v \in Workers \ {w} : run'[v] = run[v]
  <2>1. CASE Goto(w, s)
    BY <1>0, <1>2, <2>1, GotoFacts
  <2>2. ASSUME NEW e \in {"transient", "permanent"}, Raise(w, s, e)
        PROVE  /\ run' \in [Workers -> Attempt] /\ run'[w].step = s
               /\ run'[w].decision = d /\ run'[w].checkRun = run[w].checkRun
               /\ \A v \in Workers \ {w} : run'[v] = run[v]
    BY <1>0, <1>2, <2>2, RaiseFacts
  <2> QED BY <1>6, <2>1, <2>2
<1>8. /\ applied' \in [Jobs -> SUBSET Decisions] /\ applied'[j] = applied[j] \cup {d}
      /\ complete' \in [Jobs -> SUBSET Decisions]
      /\ complete'[j] \in {complete[j], complete[j] \cup {d}}
      /\ \A k \in Jobs \ {j} : applied'[k] = applied[k] /\ complete'[k] = complete[k]
  <2>0. applied \in [Jobs -> SUBSET Decisions] /\ complete \in [Jobs -> SUBSET Decisions]
    BY <1>0 DEF RoutingTypeOK
  <2>1. /\ applied' \in [Jobs -> SUBSET Decisions] /\ applied'[j] = applied[j] \cup {d}
        /\ \A k \in Jobs \ {j} : applied'[k] = applied[k]
    BY <1>4, <2>0
  <2>2. CASE complete' = [complete EXCEPT ![j] = @ \cup {d}]
    BY <2>0, <2>1, <2>2
  <2>3. CASE complete' = complete
    BY <2>0, <2>1, <2>3
  <2> QED BY <1>5, <2>2, <2>3
<1>9. RoutingTypeOK'
  <2>1. /\ decision' \in [Jobs -> Decision] /\ event' \in [Jobs -> Decisions \cup {NoDecision}]
        /\ checks' \in [Jobs -> Seq(CheckState)] /\ queued' \in [Jobs -> BOOLEAN]
    BY <1>0, <1>3 DEF RoutingTypeOK
  <2>2. UNCHANGED <<vars, payload, head>> /\ run'[w].step \in Steps
    BY <1>3, <1>7
  <2>3. \A v \in Workers \ {w} : run'[v] = run[v]
    BY <1>7
  <2> QED BY <1>0, <1>7, <1>8, <2>1, <2>2, <2>3, WritingTypes
<1>10. lease'[w].job = j /\ event'[j] = event[j] /\ decision'[j] = decision[j]
  BY <1>1, <1>3 DEF vars
<1>11. AttemptOK(w)'
  BY <1>2, <1>6, <1>7, <1>10, AttemptOKAfter DEF ActionSteps
<1>12. /\ applied'[j] \subseteq {event'[j]} /\ complete'[j] \subseteq applied'[j]
       /\ complete[j] \subseteq complete'[j]
  BY <1>1, <1>2, <1>8, <1>10
<1>13. decision'[j].status = "succeeded" =>
         /\ decision'[j].value \in complete'[j]
         /\ decision'[j].checkRun # 0
         /\ RouteOf[decision'[j].value] = "human_review" => queued'[j]
  <2>1. decision'[j] = decision[j] /\ queued' = queued
    BY <1>3
  <2> QED BY <1>1, <1>12, <2>1, Zenon
<1>14. queued[j] => queued'[j]
  BY <1>3, Zenon
<1>15. \A k \in Jobs \ {j} : /\ decision'[k] = decision[k] /\ event'[k] = event[k]
                             /\ queued'[k] = queued[k]
  BY <1>3
<1>16. UNCHANGED vars /\ CheckOnRecord(decision'[j]) /\ decision'[j].value = event'[j]
  BY <1>1, <1>3, <1>10
<1> QED
  BY <1>0, <1>1, <1>7, <1>8, <1>9, <1>10, <1>11, <1>12, <1>13, <1>14, <1>15, <1>16,
     AttemptWrites

LEMMA EnqueuePolicyKeepsInv ==
  ASSUME RoutingInv, IInv, NEW w \in Workers, EnqueuePolicy(w)
  PROVE  RoutingInv'
<1>0. /\ phase[w] = "executing" /\ RoutingTypeOK /\ run[w].step = "enqueue policy"
      /\ run \in [Workers -> Attempt]
  BY DEF RoutingInv, RoutingTypeOK, EnqueuePolicy, At
<1>1. PICK j \in Jobs :
        /\ lease[w].job = j
        /\ decision \in [Jobs -> Decision] /\ decision[j] \in Decision
        /\ decision[j].value = event[j] /\ CheckOnRecord(decision[j])
        /\ applied[j] \subseteq {event[j]} /\ complete[j] \subseteq applied[j]
        /\ decision[j].status = "succeeded" =>
             /\ decision[j].value \in complete[j]
             /\ decision[j].checkRun # 0
             /\ RouteOf[decision[j].value] = "human_review" => queued[j]
  BY <1>0, JobFacts
<1>2. /\ queued' = [queued EXCEPT ![j] = TRUE] /\ Goto(w, "action done")
      /\ UNCHANGED <<vars, payload, decision, event, checks, applied, complete, head>>
  BY <1>1 DEF EnqueuePolicy, JobOf
<1>3. /\ queued' \in [Jobs -> BOOLEAN] /\ queued'[j] = TRUE
      /\ \A k \in Jobs \ {j} : queued'[k] = queued[k]
  BY <1>0, <1>2 DEF RoutingTypeOK
<1>4. "action done" \in Steps
  BY DEF Steps
<1>5. /\ run' \in [Workers -> Attempt] /\ run'[w].step = "action done"
      /\ run'[w].decision = run[w].decision
      /\ \A v \in Workers \ {w} : run'[v] = run[v]
  BY <1>0, <1>2, <1>4, GotoFacts
<1>6. RoutingTypeOK'
  <2>1. /\ event' \in [Jobs -> Decisions \cup {NoDecision}]
        /\ checks' \in [Jobs -> Seq(CheckState)] /\ decision' \in [Jobs -> Decision]
        /\ applied' \in [Jobs -> SUBSET Decisions]
        /\ complete' \in [Jobs -> SUBSET Decisions]
    BY <1>0, <1>2 DEF RoutingTypeOK
  <2> QED BY <1>0, <1>2, <1>3, <1>4, <1>5, <2>1, WritingTypes
<1>7. /\ run[w].decision \in Decisions /\ run[w].decision = event[j]
      /\ run[w].decision \in complete[j] /\ decision[j].checkRun # 0
  BY <1>0, <1>1, AttemptOKBefore DEF RoutingInv, ActionSteps
<1>8. /\ lease'[w].job = j /\ event'[j] = event[j] /\ decision'[j] = decision[j]
      /\ complete'[j] = complete[j] /\ applied'[j] = applied[j]
  BY <1>1, <1>2 DEF vars
<1>9. queued'[j]
  BY <1>3
<1>10. AttemptOK(w)'
  BY <1>5, <1>7, <1>8, <1>9, AttemptOKAfter
<1>11. decision'[j].status = "succeeded" =>
         /\ decision'[j].value \in complete'[j]
         /\ decision'[j].checkRun # 0
         /\ RouteOf[decision'[j].value] = "human_review" => queued'[j]
  BY <1>1, <1>8, <1>9, Zenon
<1>12. UNCHANGED vars /\ CheckOnRecord(decision'[j]) /\ decision'[j].value = event'[j]
  BY <1>1, <1>2, <1>8
<1>13. \A k \in Jobs \ {j} : /\ decision'[k] = decision[k] /\ event'[k] = event[k]
                             /\ applied'[k] = applied[k] /\ complete'[k] = complete[k]
  BY <1>2
<1>14. applied'[j] \subseteq {event'[j]} /\ complete'[j] \subseteq applied'[j]
  BY <1>1, <1>8
<1> QED
  BY <1>0, <1>1, <1>3, <1>5, <1>6, <1>8, <1>9, <1>10, <1>11, <1>12, <1>13, <1>14,
     AttemptWrites

-----------------------------------------------------------------------------
(* Steps that start and end attempts, and the queue's own *)

\* A step that writes nothing of a decision and starts an attempt afresh, ends
\* one, or does neither.
LEMMA QuietStepKeepsRoutingInv ==
  ASSUME RoutingInv, IInv,
         UNCHANGED <<decision, event, checks, applied, complete, queued>>,
         payload' \in [Jobs -> {"routing", "failure"}],
         head' \in [Jobs -> {"current", "moved"}],
         run' \in [Workers -> Attempt],
         \A v \in Workers : phase'[v] = "executing" <=> run'[v].step # "none",
         \A v \in Workers :
           phase'[v] = "executing" =>
             \/ run'[v].step \in FreeSteps
             \/ phase[v] = "executing" /\ run'[v] = run[v] /\ lease'[v] = lease[v]
  PROVE  RoutingInv'
<1>1. RoutingTypeOK'
  BY Zenon DEF RoutingInv, RoutingTypeOK
<1>2. PublishedInv'
  <2>1. \A k \in Jobs : /\ decision'[k] = decision[k] /\ event'[k] = event[k]
                        /\ applied'[k] = applied[k] /\ complete'[k] = complete[k]
    OBVIOUS
  <2> QED BY <2>1 DEF RoutingInv, PublishedInv, CheckOnRecord
<1>3. SuccessMeansDone'
  <2> SUFFICES ASSUME NEW k \in Jobs, decision'[k].status = "succeeded"
               PROVE  /\ decision'[k].value \in complete'[k]
                      /\ decision'[k].checkRun # 0
                      /\ RouteOf[decision'[k].value] = "human_review" => queued'[k]
    BY Zenon DEF SuccessMeansDone
  <2> QED BY Zenon DEF RoutingInv, SuccessMeansDone
<1>4. \A v \in Workers :
        phase'[v] = "executing" =>
          \/ AttemptOK(v)'
          \/ phase[v] = "executing" /\ run'[v] = run[v] /\ lease'[v] = lease[v]
             /\ lease[v].job \in Jobs
  <2> SUFFICES ASSUME NEW v \in Workers, phase'[v] = "executing"
               PROVE  \/ AttemptOK(v)'
                      \/ phase[v] = "executing" /\ run'[v] = run[v]
                         /\ lease'[v] = lease[v] /\ lease[v].job \in Jobs
    OBVIOUS
  <2>1. CASE run'[v].step \in FreeSteps
    BY <2>1, FreeStepIsOK
  <2>2. CASE phase[v] = "executing" /\ run'[v] = run[v] /\ lease'[v] = lease[v]
    BY <2>2, ExecutingLease DEF IInv
  <2> QED BY <2>1, <2>2
<1>5. \A k \in Jobs :
        /\ event[k] # NoDecision => event'[k] = event[k]
        /\ complete[k] \subseteq complete'[k]
        /\ decision[k].checkRun # 0 => decision'[k].checkRun # 0
  OBVIOUS
<1>6. \A k \in Jobs : queued[k] => queued'[k]
  BY Zenon
<1> QED BY <1>1, <1>2, <1>3, <1>4, <1>5, <1>6, InvFrame

LEMMA EndedAttemptKeepsInv ==
  ASSUME RoutingInv, IInv, NEW w \in Workers, Done(w),
         phase' = [phase EXCEPT ![w] = "idle"], lease' = [lease EXCEPT ![w] = NoLease],
         payload' \in [Jobs -> {"routing", "failure"}],
         UNCHANGED <<decision, event, checks, applied, complete, queued, head>>
  PROVE  RoutingInv'
<1>1. /\ run \in [Workers -> Attempt] /\ head \in [Jobs -> {"current", "moved"}]
      /\ \A v \in Workers : phase[v] = "executing" <=> run[v].step # "none"
      /\ phase \in [Workers -> {"idle", "sweeping", "polling", "executing"}]
      /\ lease \in [Workers -> Lease \cup {NoLease}]
  BY DEF RoutingInv, RoutingTypeOK, IInv, TypeOK
<1>2. NoAttempt \in Attempt /\ NoAttempt.step = "none"
  BY DEF NoAttempt, Attempt, CheckState
<1>3. /\ run' \in [Workers -> Attempt] /\ run'[w].step = "none"
      /\ \A v \in Workers \ {w} : run'[v] = run[v]
  BY <1>1, <1>2 DEF Done
<1>4. /\ phase'[w] = "idle"
      /\ \A v \in Workers \ {w} : phase'[v] = phase[v] /\ lease'[v] = lease[v]
  BY <1>1
<1>5. \A v \in Workers : phase'[v] = "executing" <=> run'[v].step # "none"
  BY <1>1, <1>3, <1>4
<1>6. \A v \in Workers :
        phase'[v] = "executing" =>
          phase[v] = "executing" /\ run'[v] = run[v] /\ lease'[v] = lease[v]
  BY <1>3, <1>4
<1>7. head' \in [Jobs -> {"current", "moved"}]
  BY <1>1
<1> QED BY <1>3, <1>5, <1>6, <1>7, QuietStepKeepsRoutingInv

LEMMA SettlingKeepsInv ==
  ASSUME RoutingInv, IInv, NEW w \in Workers, SettleAttempt(w) \/ Crash(w)
  PROVE  RoutingInv'
<1>1. payload \in [Jobs -> {"routing", "failure"}]
  BY DEF RoutingInv, RoutingTypeOK
<1>2. /\ Done(w)
      /\ phase' = [phase EXCEPT ![w] = "idle"] /\ lease' = [lease EXCEPT ![w] = NoLease]
      /\ payload' \in [Jobs -> {"routing", "failure"}]
      /\ UNCHANGED <<decision, event, checks, applied, complete, queued, head>>
  <2>1. CASE Finish(w)
    BY <1>1, <2>1 DEF Finish, MarkSucceeded, Settle, routing
  <2>2. CASE CatchAndFinalize(w)
    BY <1>1, <2>2 DEF CatchAndFinalize, MarkFailedWithRecovery, Settle
  <2>3. CASE CatchAndRetry(w) \/ Finalized(w) \/ RecoveryFailed(w)
    BY <1>1, <2>3 DEF CatchAndRetry, Finalized, RecoveryFailed, MarkFailed, Settle, routing
  <2>4. CASE SettleStale(w)
    BY <1>1, <2>4 DEF SettleStale, AbandonStaleLease, Settle, routing
  <2>5. CASE Crash(w)
    BY <1>1, <2>5 DEF Crash, AbandonCycle, routing
  <2> QED BY <2>1, <2>2, <2>3, <2>4, <2>5 DEF SettleAttempt
<1> QED BY <1>2, EndedAttemptKeepsInv

LEMMA StartingKeepsInv ==
  ASSUME RoutingInv, IInv, NEW w \in Workers, NEW j \in Jobs, Claim(w, j)
  PROVE  RoutingInv'
<1>1. /\ run \in [Workers -> Attempt] /\ UNCHANGED routing
      /\ payload \in [Jobs -> {"routing", "failure"}]
      /\ head \in [Jobs -> {"current", "moved"}]
      /\ \A v \in Workers : phase[v] = "executing" <=> run[v].step # "none"
      /\ phase \in [Workers -> {"idle", "sweeping", "polling", "executing"}]
      /\ lease \in [Workers -> Lease \cup {NoLease}]
  BY DEF RoutingInv, RoutingTypeOK, IInv, TypeOK, Claim
<1>2. PICK s \in {"begin", "find failed check"} : FirstStep(j) = s
  BY DEF FirstStep
<1>3. run' = [run EXCEPT ![w] = [NoAttempt EXCEPT !.step = s]]
  BY <1>2 DEF Claim
<1>4. /\ [NoAttempt EXCEPT !.step = s] \in Attempt
      /\ [NoAttempt EXCEPT !.step = s].step = s
  BY DEF NoAttempt, Attempt, CheckState, Steps
<1>5. /\ run' \in [Workers -> Attempt] /\ run'[w].step = s
      /\ \A v \in Workers \ {w} : run'[v] = run[v]
  BY <1>1, <1>3, <1>4
<1>6. /\ phase'[w] = "executing"
      /\ \A v \in Workers \ {w} : phase'[v] = phase[v] /\ lease'[v] = lease[v]
  BY <1>1 DEF Claim, ClaimNext
<1>7. \A v \in Workers : phase'[v] = "executing" <=> run'[v].step # "none"
  BY <1>1, <1>5, <1>6
<1>8. \A v \in Workers :
        phase'[v] = "executing" =>
          \/ run'[v].step \in FreeSteps
          \/ phase[v] = "executing" /\ run'[v] = run[v] /\ lease'[v] = lease[v]
  BY <1>5, <1>6 DEF FreeSteps
<1>9. UNCHANGED <<payload, decision, event, checks, applied, complete, queued, head>>
  BY <1>1 DEF routing
<1> QED BY <1>1, <1>5, <1>7, <1>8, <1>9, QuietStepKeepsRoutingInv

LEMMA QueueStepKeepsInv ==
  ASSUME RoutingInv, IInv, QueueStep \/ (\E j \in Jobs : HeadMoves(j))
  PROVE  RoutingInv'
<1>1. /\ run \in [Workers -> Attempt] /\ run' = run
      /\ payload' \in [Jobs -> {"routing", "failure"}]
      /\ head' \in [Jobs -> {"current", "moved"}]
      /\ UNCHANGED <<decision, event, checks, applied, complete, queued>>
  BY DEF RoutingInv, RoutingTypeOK, QueueStep, HeadMoves, routing
<1>2. \A v \in Workers :
        /\ phase'[v] = "executing" <=> phase[v] = "executing"
        /\ lease'[v] = lease[v]
  <2>0. phase \in [Workers -> {"idle", "sweeping", "polling", "executing"}]
    BY DEF IInv, TypeOK
  <2>1. ASSUME NEW j \in Jobs, Enqueue(j) \/ BecomeDue(j) \/ BecomeStale(j) \/ HeadMoves(j)
        PROVE  UNCHANGED <<phase, lease>>
    BY <2>1 DEF Enqueue, BecomeDue, BecomeStale, HeadMoves, vars
  <2>2. ASSUME NEW w \in Workers, SweepStep(w) \/ NoJobClaimed(w)
        PROVE  /\ lease' = lease /\ phase[w] # "executing"
               /\ \/ phase' = phase
                  \/ \E p \in {"idle", "sweeping", "polling"} :
                       phase' = [phase EXCEPT ![w] = p]
    BY <2>2 DEF SweepStep, BeginSweep, SweepExhaust, SweepError, SweepRequeue, NoJobClaimed
  <2> QED BY <2>0, <2>1, <2>2 DEF QueueStep
<1>3. \A v \in Workers : phase'[v] = "executing" <=> run'[v].step # "none"
  BY <1>1, <1>2 DEF RoutingInv, RoutingTypeOK
<1>4. \A v \in Workers :
        phase'[v] = "executing" =>
          phase[v] = "executing" /\ run'[v] = run[v] /\ lease'[v] = lease[v]
  BY <1>1, <1>2
<1> QED BY <1>1, <1>3, <1>4, QuietStepKeepsRoutingInv

-----------------------------------------------------------------------------
(* The theorems *)

LEMMA RoutingInvInit == RoutingInit => RoutingInv
<1> SUFFICES ASSUME RoutingInit PROVE RoutingInv
  OBVIOUS
<1>1. RoutingTypeOK
  BY RoutingAssumption
     DEF RoutingInit, Init, RoutingTypeOK, Decision, Attempt, NoAttempt, CheckState
<1>2. PublishedInv
  BY DEF RoutingInit, PublishedInv, CheckOnRecord
<1>3. AttemptInv
  BY DEF RoutingInit, Init, AttemptInv
<1>4. SuccessMeansDone
  BY DEF RoutingInit, SuccessMeansDone
<1> QED BY <1>1, <1>2, <1>3, <1>4 DEF RoutingInv

LEMMA RoutingInvStep ==
  RoutingInv /\ IInv /\ [RoutingNext]_routingVars => RoutingInv'
<1> SUFFICES ASSUME RoutingInv, IInv, [RoutingNext]_routingVars PROVE RoutingInv'
  OBVIOUS
<1>1. CASE QueueStep \/ \E j \in Jobs : HeadMoves(j)
  BY <1>1, QueueStepKeepsInv
<1>2. ASSUME NEW w \in Workers, NEW j \in Jobs, Claim(w, j) PROVE RoutingInv'
  BY <1>2, StartingKeepsInv
<1>3. ASSUME NEW w \in Workers, AttemptStep(w) \/ Throw(w) PROVE RoutingInv'
  <2>1. CASE \/ Begin(w) \/ Skip(w) \/ \E d \in Decisions : Compute(w, d)
             \/ PersistRefused(w) \/ Preflight(w) \/ FindCheck(w) \/ FindFailedCheck(w)
             \/ RecoveryUnsettled(w) \/ Throw(w)
    BY <2>1, ReadingStepKeepsInv
  <2>2. CASE Persist(w)
    BY <2>2, PersistKeepsInv
  <2>3. CASE CreateCheck(w) \/ ConcludeCheck(w) \/ FailCheck(w)
    BY <2>3, ChecksWritersKeepInv
  <2>4. CASE RecordCheck(w) \/ ConcludeRow(w) \/ FailRow(w) \/ ActionDone(w) \/ ActionFailed(w)
    BY <2>4, RowWritersKeepInv
  <2>5. CASE Act(w) \/ \E error \in {"transient", "permanent"} : ActFails(w, error)
    BY <2>5, ActKeepsInv
  <2>6. CASE EnqueuePolicy(w)
    BY <2>6, EnqueuePolicyKeepsInv
  <2> QED BY <1>3, <2>1, <2>2, <2>3, <2>4, <2>5, <2>6, Zenon DEF AttemptStep
<1>4. ASSUME NEW w \in Workers, SettleAttempt(w) \/ Crash(w) PROVE RoutingInv'
  BY <1>4, SettlingKeepsInv
<1>5. CASE UNCHANGED routingVars
  <2>1. /\ UNCHANGED <<payload, decision, event, checks, applied, complete, queued, head>>
        /\ run' = run /\ phase' = phase /\ lease' = lease
    BY <1>5 DEF routingVars, routing, vars
  <2>2. /\ payload \in [Jobs -> {"routing", "failure"}] /\ run \in [Workers -> Attempt]
        /\ head \in [Jobs -> {"current", "moved"}]
        /\ \A v \in Workers : phase[v] = "executing" <=> run[v].step # "none"
    BY DEF RoutingInv, RoutingTypeOK
  <2> QED BY <2>1, <2>2, QuietStepKeepsRoutingInv
<1> QED BY <1>1, <1>2, <1>3, <1>4, <1>5 DEF RoutingNext

\* The runner's invariant holds for any number of jobs, workers, decisions and
\* finalization attempts.
THEOREM RunnerInvariant == RoutingSpec => []RoutingInv
<1>1. RoutingInit => RoutingInv
  BY RoutingInvInit
<1>2. RoutingInv /\ IInv /\ [RoutingNext]_routingVars => RoutingInv'
  BY RoutingInvStep
<1> QED BY <1>1, <1>2, RunnerKeepsQueueInvariant, PTL DEF RoutingSpec

\* GitHub only ever sees the published decision.
THEOREM RunnerAppliesAsPublished == RoutingSpec => []AppliedAsPublished
<1>1. RoutingInv => AppliedAsPublished
  BY DEF RoutingInv, PublishedInv, AppliedAsPublished
<1> QED BY <1>1, RunnerInvariant, PTL

\* A succeeded decision has been applied, checked and handed to evaluation.
THEOREM RunnerSuccessMeansDone == RoutingSpec => []SuccessMeansDone
<1>1. RoutingInv => SuccessMeansDone
  BY DEF RoutingInv
<1> QED BY <1>1, RunnerInvariant, PTL

\* A decision row only changes by the three statements that write it.
LEMMA RowSteps ==
  ASSUME RoutingInv, [RoutingNext]_routingVars, NEW k \in Jobs
  PROVE  \/ decision'[k] = decision[k]
         \/ \E d : decision'[k] = Refreshed(decision[k], d)
         \/ \E c, s : decision'[k] = WithCheck(decision[k], c, s)
         \/ \E s : decision'[k] = WithStatus(decision[k], s)
<1>0. decision \in [Jobs -> Decision]
  BY DEF RoutingInv, RoutingTypeOK
<1>1. ASSUME NEW w \in Workers, Persist(w)
      PROVE  \E d : decision'[k] = Refreshed(decision[k], d) \/ decision'[k] = decision[k]
  <2>1. decision' = [decision EXCEPT ![lease[w].job] =
                       Refreshed(decision[lease[w].job], run[w].decision)]
    BY <1>1 DEF Persist, JobOf
  <2>2. CASE lease[w].job = k
    BY <1>0, <2>1, <2>2
  <2>3. CASE lease[w].job # k
    BY <1>0, <2>1, <2>3
  <2> QED BY <2>2, <2>3
<1>2. ASSUME NEW w \in Workers, RecordCheck(w) \/ ConcludeRow(w) \/ FailRow(w)
      PROVE  \E c, s : decision'[k] = WithCheck(decision[k], c, s) \/ decision'[k] = decision[k]
  <2>1. PICK c, s : decision' = [decision EXCEPT ![lease[w].job] =
                                   WithCheck(decision[lease[w].job], c, s)]
    BY <1>0, <1>2 DEF RecordCheck, ConcludeRow, FailRow, JobOf
  <2>2. CASE lease[w].job = k
    BY <1>0, <2>1, <2>2
  <2>3. CASE lease[w].job # k
    BY <1>0, <2>1, <2>3
  <2> QED BY <2>2, <2>3
<1>3. ASSUME NEW w \in Workers, ActionDone(w) \/ ActionFailed(w)
      PROVE  \E s : decision'[k] = WithStatus(decision[k], s) \/ decision'[k] = decision[k]
  <2>1. PICK s : decision' = [decision EXCEPT ![lease[w].job] =
                                WithStatus(decision[lease[w].job], s)]
    BY <1>0, <1>3 DEF ActionDone, ActionFailed, JobOf
  <2>2. CASE lease[w].job = k
    BY <1>0, <2>1, <2>2
  <2>3. CASE lease[w].job # k
    BY <1>0, <2>1, <2>3
  <2> QED BY <2>2, <2>3
<1>4. CASE UNCHANGED decision
  BY <1>4
<1>5. ASSUME NEW w \in Workers, AttemptStep(w) \/ Throw(w)
      PROVE  \/ UNCHANGED decision \/ Persist(w)
             \/ RecordCheck(w) \/ ConcludeRow(w) \/ FailRow(w)
             \/ ActionDone(w) \/ ActionFailed(w)
  BY <1>5 DEF AttemptStep, Throw, Begin, Skip, Compute, PersistRefused, Preflight,
       FindCheck, CreateCheck, Act, ActFails, ConcludeCheck, EnqueuePolicy,
       FindFailedCheck, FailCheck, RecoveryUnsettled, routing
<1>6. ASSUME NEW w \in Workers, SettleAttempt(w) \/ Crash(w) \/ \E j \in Jobs : Claim(w, j)
      PROVE  UNCHANGED decision
  BY <1>6 DEF SettleAttempt, Finish, CatchAndFinalize, CatchAndRetry, Finalized,
       RecoveryFailed, SettleStale, Crash, Claim, routing
<1>7. CASE QueueStep \/ (\E j \in Jobs : HeadMoves(j)) \/ UNCHANGED routingVars
  <2>1. UNCHANGED decision
    BY <1>7 DEF QueueStep, HeadMoves, routingVars, routing
  <2> QED BY <2>1
<1> QED BY <1>1, <1>2, <1>3, <1>4, <1>5, <1>6, <1>7 DEF RoutingNext

\* Neither a retry nor an attempt that lost its lease takes a success back.
THEOREM RunnerSuccessIsFinal == RoutingSpec => SuccessIsFinal
<1>1. RoutingInv /\ [RoutingNext]_routingVars =>
        [\A j \in Jobs :
           decision[j].status = "succeeded"
             => /\ decision'[j].status = "succeeded"
                /\ decision'[j].value = decision[j].value]_routingVars
  <2> SUFFICES ASSUME RoutingInv, [RoutingNext]_routingVars,
                      NEW j \in Jobs, decision[j].status = "succeeded"
               PROVE  /\ decision'[j].status = "succeeded"
                      /\ decision'[j].value = decision[j].value
    OBVIOUS
  <2>1. decision[j] \in Decision
    BY DEF RoutingInv, RoutingTypeOK
  <2> QED BY <2>1, RowSteps DEF Refreshed, WithCheck, WithStatus, Decision
<1> QED BY <1>1, RunnerInvariant, PTL DEF RoutingSpec, SuccessIsFinal

\* A failed policy check stays failed on record.
THEOREM RunnerCheckFailureIsFinal == RoutingSpec => CheckFailureIsFinal
<1>1. RoutingInv /\ [RoutingNext]_routingVars =>
        [\A j \in Jobs :
           decision[j].checkState = "failure" => decision'[j].checkState = "failure"]_routingVars
  <2> SUFFICES ASSUME RoutingInv, [RoutingNext]_routingVars,
                      NEW j \in Jobs, decision[j].checkState = "failure"
               PROVE  decision'[j].checkState = "failure"
    OBVIOUS
  <2>1. decision[j] \in Decision
    BY DEF RoutingInv, RoutingTypeOK
  <2> QED BY <2>1, RowSteps DEF Refreshed, WithCheck, WithStatus, Decision
<1> QED BY <1>1, RunnerInvariant, PTL DEF RoutingSpec, CheckFailureIsFinal

-----------------------------------------------------------------------------
(* An owner that gives up over transient errors has tried to fail the check *)

\* The steps of a claim that only fails the policy check.
Recovering == RecoverySteps \cup {"finalized", "recovery failed"}

\* A recovery is executed for a payload that asks for one, also by a worker
\* that has lost its lease meanwhile: a payload is never reset.
RecoveryIntended ==
  \A w \in Workers :
    phase[w] = "executing" /\ run[w].step \in Recovering => payload[JobOf(w)] = "failure"

\* The step an attempt goes on with.
LEMMA StepTaken ==
  ASSUME run \in [Workers -> Attempt], NEW w \in Workers, NEW s,
         Goto(w, s) \/ (\E e : Raise(w, s, e)) \/ (\E c, f : Take(w, s, c, f))
  PROVE  run'[w].step = s
<1>1. CASE Goto(w, s)
  BY <1>1 DEF Goto, Attempt
<1>2. ASSUME NEW e, Raise(w, s, e) PROVE run'[w].step = s
  BY <1>2 DEF Raise, Attempt
<1>3. ASSUME NEW c, NEW f, Take(w, s, c, f) PROVE run'[w].step = s
  BY <1>3 DEF Take, Attempt
<1> QED BY <1>1, <1>2, <1>3

\* No step on the way of routing leads into a recovery.
LEMMA RecoveryIsEntered ==
  ASSUME run \in [Workers -> Attempt], NEW w \in Workers, AttemptStep(w) \/ Throw(w),
         run'[w].step \in Recovering
  PROVE  run[w].step \in Recovering
<1>1. ASSUME Throw(w) PROVE run[w].step \in Recovering
  <2>1. run'[w].step = Handler(run[w].step)
    BY <1>1, StepTaken DEF Throw
  <2>2. CASE run[w].step \in RecoverySteps
    BY <2>2 DEF Recovering
  <2>3. CASE run[w].step \notin RecoverySteps
    <3>1. Handler(run[w].step) \in {"action failed", "caught"}
      BY <2>3 DEF Handler
    <3> QED BY <2>1, <3>1 DEF Recovering, RecoverySteps
  <2> QED BY <2>2, <2>3
<1>2. CASE FindFailedCheck(w) \/ FailCheck(w) \/ FailRow(w) \/ RecoveryUnsettled(w)
  BY <1>2 DEF FindFailedCheck, FailCheck, FailRow, RecoveryUnsettled, At, Recovering,
       RecoverySteps
<1>3. /\ Begin(w) => \E s \in {"finish", "compute"} : Goto(w, s)
      /\ Skip(w) => Goto(w, "finish")
      /\ PersistRefused(w) => Raise(w, "caught", "transient")
      /\ Persist(w) => \E s \in {"finish", "preflight"} : Goto(w, s)
      /\ Preflight(w) => Goto(w, "find check") \/ Raise(w, "action failed", "permanent")
      /\ RecordCheck(w) => Goto(w, "act")
      /\ ConcludeCheck(w) => Goto(w, "conclude row")
      /\ ConcludeRow(w) => Goto(w, "action failed")
      /\ EnqueuePolicy(w) => Goto(w, "action done")
      /\ ActionDone(w) => Goto(w, "finish")
      /\ ActionFailed(w) => Goto(w, "caught")
  BY DEF Begin, Skip, PersistRefused, Persist, Preflight, RecordCheck, ConcludeCheck,
     ConcludeRow, EnqueuePolicy, ActionDone, ActionFailed
<1>4. \A d \in Decisions : Compute(w, d) => run'[w].step = "persist"
  BY DEF Compute, Attempt
<1>5. /\ FindCheck(w) => \/ \E s \in {"act", "record check"} : \E c, f : Take(w, s, c, f)
                         \/ Goto(w, "create check")
      /\ CreateCheck(w) => \E c, f : Take(w, "record check", c, f)
  BY Zenon DEF FindCheck, CreateCheck
<1>6. /\ AfterActions(run[w].decision) \in {"enqueue policy", "action done", "finish"}
      /\ Act(w) => Goto(w, AfterActions(run[w].decision))
      /\ \A e \in {"transient", "permanent"} : ActFails(w, e) =>
           \E s \in {"conclude check", "action failed"} : Raise(w, s, e)
  BY DEF AfterActions, Act, ActFails
<1>7. {"finish", "compute", "preflight", "caught", "find check", "action failed", "act",
       "conclude row", "action done", "persist", "record check", "create check",
       "enqueue policy", "conclude check"} \cap Recovering = {}
  BY DEF Recovering, RecoverySteps
<1>8. CASE Begin(w) \/ Skip(w) \/ (\E d \in Decisions : Compute(w, d))
           \/ Persist(w) \/ PersistRefused(w) \/ Preflight(w)
  BY <1>3, <1>4, <1>7, <1>8, StepTaken
<1>9. CASE FindCheck(w) \/ CreateCheck(w) \/ RecordCheck(w)
           \/ Act(w) \/ (\E e \in {"transient", "permanent"} : ActFails(w, e))
  BY <1>3, <1>5, <1>6, <1>7, <1>9, StepTaken
<1>10. CASE ConcludeCheck(w) \/ ConcludeRow(w) \/ EnqueuePolicy(w) \/ ActionDone(w)
           \/ ActionFailed(w)
  BY <1>3, <1>7, <1>10, StepTaken
<1> QED BY <1>1, <1>2, <1>8, <1>9, <1>10 DEF AttemptStep

\* An attempt leaves the queue and the other workers alone.
LEMMA AttemptIsLocal ==
  ASSUME run \in [Workers -> Attempt], NEW w \in Workers, AttemptStep(w) \/ Throw(w)
  PROVE  /\ UNCHANGED <<vars, payload, head>> /\ phase[w] = "executing"
         /\ \A v \in Workers \ {w} : run'[v] = run[v]
<1>1. CASE Throw(w)
  BY <1>1 DEF Throw, Raise, routing
<1>2. CASE Begin(w) \/ Skip(w) \/ (\E d \in Decisions : Compute(w, d))
           \/ Persist(w) \/ PersistRefused(w) \/ Preflight(w)
  BY <1>2 DEF Begin, Skip, Compute, Persist, PersistRefused, Preflight, At, Goto, Raise,
       routing
<1>3. CASE FindCheck(w) \/ CreateCheck(w) \/ RecordCheck(w) \/ Act(w)
           \/ (\E e \in {"transient", "permanent"} : ActFails(w, e))
  BY <1>3 DEF FindCheck, CreateCheck, RecordCheck, Act, ActFails, At, Goto, Raise, Take,
       routing
<1>4. CASE ConcludeCheck(w) \/ ConcludeRow(w) \/ EnqueuePolicy(w) \/ ActionDone(w)
           \/ ActionFailed(w)
  BY <1>4 DEF ConcludeCheck, ConcludeRow, EnqueuePolicy, ActionDone, ActionFailed, At, Goto
<1>5. CASE FindFailedCheck(w) \/ FailCheck(w) \/ FailRow(w) \/ RecoveryUnsettled(w)
  BY <1>5 DEF FindFailedCheck, FailCheck, FailRow, RecoveryUnsettled, At, Goto, Raise, Take,
       routing
<1> QED BY <1>1, <1>2, <1>3, <1>4, <1>5 DEF AttemptStep

\* The end of an attempt forgets it and leaves the other workers alone.
LEMMA SettlingIsLocal ==
  ASSUME RoutingTypeOK, IInv, NEW w \in Workers, SettleAttempt(w) \/ Crash(w)
  PROVE  /\ run' = [run EXCEPT ![w] = NoAttempt] /\ run'[w].step = "none"
         /\ lease' = [lease EXCEPT ![w] = NoLease] /\ phase' = [phase EXCEPT ![w] = "idle"]
         /\ UNCHANGED <<decision, event, checks, applied, complete, queued, head>>
         /\ payload' = payload \/ payload' = [payload EXCEPT ![lease[w].job] = "failure"]
<1>1. /\ Done(w)
      /\ UNCHANGED <<decision, event, checks, applied, complete, queued, head>>
      /\ lease' = [lease EXCEPT ![w] = NoLease] /\ phase' = [phase EXCEPT ![w] = "idle"]
      /\ payload' = payload \/ payload' = [payload EXCEPT ![lease[w].job] = "failure"]
  BY DEF SettleAttempt, Finish, CatchAndFinalize, CatchAndRetry, Finalized, RecoveryFailed,
     SettleStale, Crash, MarkSucceeded, MarkFailedWithRecovery, MarkFailed,
     AbandonStaleLease, AbandonCycle, Settle, JobOf, routing
<1>2. run' = [run EXCEPT ![w] = NoAttempt] /\ run'[w].step = "none"
  BY <1>1 DEF Done, NoAttempt, RoutingTypeOK
<1> QED BY <1>1, <1>2

\* A payload that asks for a recovery is never reset, and whoever executes one
\* has found such a payload.
LEMMA RecoveryStep ==
  ASSUME RoutingTypeOK, IInv, RecoveryIntended, [RoutingNext]_routingVars
  PROVE  RecoveryIntended'
<1> SUFFICES ASSUME NEW v \in Workers, phase'[v] = "executing", run'[v].step \in Recovering
             PROVE  payload'[lease'[v].job] = "failure"
  BY DEF RecoveryIntended, JobOf
<1>0. /\ payload \in [Jobs -> {"routing", "failure"}] /\ run \in [Workers -> Attempt]
      /\ lease \in [Workers -> Lease \cup {NoLease}]
      /\ phase \in [Workers -> {"idle", "sweeping", "polling", "executing"}]
  BY DEF RoutingTypeOK, IInv, TypeOK
<1>1. ASSUME phase[v] = "executing", run[v].step \in Recovering, lease'[v] = lease[v],
             payload' = payload \/ \E j : payload' = [payload EXCEPT ![j] = "failure"]
      PROVE  payload'[lease'[v].job] = "failure"
  <2>1. payload[lease[v].job] = "failure" /\ lease[v].job \in Jobs
    BY <1>1, ExecutingLease DEF RecoveryIntended, JobOf, IInv
  <2> QED BY <1>0, <1>1, <2>1
<1>2. ASSUME NEW w \in Workers, AttemptStep(w) \/ Throw(w)
      PROVE  payload'[lease'[v].job] = "failure"
  <2>1. /\ UNCHANGED <<vars, payload>> /\ phase[w] = "executing"
        /\ \A u \in Workers \ {w} : run'[u] = run[u]
    BY <1>0, <1>2, AttemptIsLocal
  <2>2. run[v].step \in Recovering
    BY <1>0, <1>2, <2>1, RecoveryIsEntered
  <2> QED BY <1>1, <2>1, <2>2 DEF vars
<1>3. ASSUME NEW w \in Workers, SettleAttempt(w) \/ Crash(w)
      PROVE  payload'[lease'[v].job] = "failure"
  <2>1. /\ run' = [run EXCEPT ![w] = NoAttempt] /\ run'[w].step = "none"
        /\ lease' = [lease EXCEPT ![w] = NoLease] /\ phase' = [phase EXCEPT ![w] = "idle"]
        /\ payload' = payload \/ payload' = [payload EXCEPT ![lease[w].job] = "failure"]
    BY <1>3, SettlingIsLocal
  <2>2. v # w
    BY <2>1 DEF Recovering, RecoverySteps
  <2> QED BY <1>0, <1>1, <2>1, <2>2
<1>4. ASSUME NEW w \in Workers, NEW j \in Jobs, Claim(w, j)
      PROVE  payload'[lease'[v].job] = "failure"
  <2>1. /\ run' = [run EXCEPT ![w] = [NoAttempt EXCEPT !.step = FirstStep(j)]]
        /\ payload' = payload
        /\ lease' = [lease EXCEPT ![w] = [job |-> j, lockedBy |-> WorkerId[w],
                                          attempt |-> jobs[j].attempt + 1,
                                          max |-> jobs[j].max]]
        /\ phase' = [phase EXCEPT ![w] = "executing"]
    BY <1>4 DEF Claim, ClaimNext, routing
  <2>2. CASE v = w
    <3>1. run'[v].step = FirstStep(j) /\ lease'[v].job = j
      BY <1>0, <2>1, <2>2 DEF NoAttempt
    <3>2. payload[j] = "failure"
      BY <1>0, <3>1 DEF FirstStep, Recovering, RecoverySteps
    <3> QED BY <2>1, <3>1, <3>2
  <2>3. CASE v # w
    BY <1>0, <1>1, <2>1, <2>3
  <2> QED BY <2>2, <2>3
<1>5. CASE QueueStep \/ (\E j \in Jobs : HeadMoves(j)) \/ UNCHANGED routingVars
  <2>1. run' = run /\ payload' = payload /\ lease' = lease
    BY <1>5 DEF QueueStep, HeadMoves, Enqueue, BecomeDue, BecomeStale, SweepStep, BeginSweep,
       SweepExhaust, SweepError, SweepRequeue, NoJobClaimed, vars, routingVars, routing
  <2>2. phase[v] = "executing"
    <3>1. run[v].step # "none"
      BY <2>1 DEF Recovering, RecoverySteps
    <3> QED BY <3>1 DEF RoutingTypeOK
  <2> QED BY <1>1, <2>1, <2>2
<1> QED BY <1>2, <1>3, <1>4, <1>5 DEF RoutingNext

\* Whoever executes a recovery found a payload that asks for it, with any number
\* of workers.
THEOREM RecoveriesAreIntended == RoutingSpec => []RecoveryIntended
<1>1. RoutingInit => RecoveryIntended
  BY DEF RoutingInit, Init, RecoveryIntended
<1>2. RoutingInv /\ IInv /\ RecoveryIntended /\ [RoutingNext]_routingVars => RecoveryIntended'
  BY RecoveryStep DEF RoutingInv
<1> QED BY <1>1, <1>2, RunnerInvariant, RunnerKeepsQueueInvariant, PTL DEF RoutingSpec

\* Whoever owns a job that is to be finalized is in its recovery, or on the way
\* out of it; nobody who still routes it can own it again.
OwnersRecover ==
  \A w \in Workers :
    lease[w] # NoLease /\ LeaseMatches(lease[w]) /\ payload[JobOf(w)] = "failure"
      => run[w].step \in Recovering \cup {"caught"}

\* No step of a recovery leads back onto the way of routing.
LEMMA RecoveryGoesOn ==
  ASSUME run \in [Workers -> Attempt], NEW w \in Workers, AttemptStep(w) \/ Throw(w),
         run[w].step \in Recovering \cup {"caught"}
  PROVE  run'[w].step \in Recovering \cup {"caught"}
<1>1. CASE Throw(w)
  <2>1. /\ run'[w].step = Handler(run[w].step)
        /\ run[w].step \in DatabaseSteps \cup ProviderSteps
    BY <1>1, StepTaken DEF Throw
  <2>2. run[w].step \in RecoverySteps
    BY <2>1 DEF Recovering, RecoverySteps, DatabaseSteps, ProviderSteps
  <2>3. Handler(run[w].step) = "recovery failed"
    BY <2>2 DEF Handler, RecoverySteps, ActionSteps
  <2> QED BY <2>1, <2>3 DEF Recovering
<1>2. CASE FindFailedCheck(w)
  <2>1. Goto(w, "finalized") \/ \E c, f : Take(w, "fail check", c, f)
    BY <1>2, Zenon DEF FindFailedCheck
  <2> QED BY <2>1, StepTaken DEF Recovering, RecoverySteps
<1>3. CASE FailCheck(w) \/ FailRow(w) \/ RecoveryUnsettled(w)
  BY <1>3, StepTaken DEF FailCheck, FailRow, RecoveryUnsettled, Recovering, RecoverySteps
<1>4. CASE Begin(w) \/ Skip(w) \/ (\E d \in Decisions : Compute(w, d))
           \/ Persist(w) \/ PersistRefused(w) \/ Preflight(w)
  BY <1>4 DEF Begin, Skip, Compute, Persist, PersistRefused, Preflight, At, Recovering,
     RecoverySteps
<1>5. CASE FindCheck(w) \/ CreateCheck(w) \/ RecordCheck(w) \/ Act(w)
           \/ (\E e \in {"transient", "permanent"} : ActFails(w, e))
  BY <1>5 DEF FindCheck, CreateCheck, RecordCheck, Act, ActFails, At, Recovering,
     RecoverySteps
<1>6. CASE ConcludeCheck(w) \/ ConcludeRow(w) \/ EnqueuePolicy(w) \/ ActionDone(w)
           \/ ActionFailed(w)
  BY <1>6 DEF ConcludeCheck, ConcludeRow, EnqueuePolicy, ActionDone, ActionFailed, At,
     Recovering, RecoverySteps
<1> QED BY <1>1, <1>2, <1>3, <1>4, <1>5, <1>6 DEF AttemptStep

\* A settled job is not running any more; an abandoned one is left alone.
LEMMA SettlingEndsTheJob ==
  ASSUME RoutingTypeOK, IInv, NEW w \in Workers, SettleAttempt(w) \/ Crash(w)
  PROVE  \/ jobs' = jobs /\ payload' = payload
         \/ \E row : row.status # "running" /\ jobs' = [jobs EXCEPT ![lease[w].job] = row]
<1>1. CASE Crash(w) \/ SettleStale(w)
  BY <1>1 DEF Crash, AbandonCycle, SettleStale, AbandonStaleLease, routing
<1>2. CASE Finish(w) \/ CatchAndFinalize(w) \/ CatchAndRetry(w) \/ Finalized(w)
           \/ RecoveryFailed(w)
  <2>1. phase[w] = "executing"
    BY <1>2 DEF Finish, CatchAndFinalize, CatchAndRetry, Finalized, RecoveryFailed, At
  <2>2. lease[w].job \in Jobs /\ jobs[lease[w].job] \in Job
    BY <2>1, ExecutingLease DEF IInv, TypeOK
  <2> DEFINE R == jobs[lease[w].job]
  <2>3. /\ Unlocked(R, "succeeded").status # "running" /\ Unlocked(R, "failed").status # "running"
        /\ \A m : Delayed(R, m).status # "running"
    BY <2>2 DEF Unlocked, Delayed, Job
  <2>4. \/ jobs' = [jobs EXCEPT ![lease[w].job] = Unlocked(R, "succeeded")]
        \/ jobs' = [jobs EXCEPT ![lease[w].job] = Unlocked(R, "failed")]
        \/ \E m : jobs' = [jobs EXCEPT ![lease[w].job] = Delayed(R, m)]
    BY <1>2 DEF Finish, CatchAndFinalize, CatchAndRetry, Finalized, RecoveryFailed,
       MarkSucceeded, MarkFailed, MarkFailedWithRecovery
  <2> QED BY <2>3, <2>4
<1> QED BY <1>1, <1>2 DEF SettleAttempt

\* Neither producers nor the clock nor sweeps give a job to anybody.
LEMMA QueueStepGivesNoJob ==
  ASSUME RoutingTypeOK, IInv, QueueStep \/ (\E j \in Jobs : HeadMoves(j)) \/ UNCHANGED routingVars,
         NEW k \in Jobs, jobs'[k].status = "running"
  PROVE  /\ UNCHANGED <<lease, payload, run>>
         /\ jobs[k].status = "running" /\ jobs'[k].lockedBy = jobs[k].lockedBy
         /\ jobs'[k].attempt = jobs[k].attempt
<1>0. jobs \in [Jobs -> Job] /\ jobs[k] \in Job
  BY DEF IInv, TypeOK
<1>1. UNCHANGED <<lease, payload, run>>
  BY DEF QueueStep, HeadMoves, Enqueue, BecomeDue, BecomeStale, SweepStep, BeginSweep,
     SweepExhaust, SweepError, SweepRequeue, NoJobClaimed, vars, routingVars, routing
<1>2. ASSUME NEW j \in Jobs, Enqueue(j) \/ BecomeDue(j) \/ BecomeStale(j)
      PROVE  /\ jobs[k].status = "running" /\ jobs'[k].lockedBy = jobs[k].lockedBy
             /\ jobs'[k].attempt = jobs[k].attempt
  BY <1>0, <1>2 DEF Enqueue, BecomeDue, BecomeStale, Job
<1>3. ASSUME NEW w \in Workers, NEW l \in sweep[w], SweepExhaust(w, l)
      PROVE  jobs[k].status = "running" /\ jobs'[k] = jobs[k]
  <2>1. jobs' = jobs \/ jobs' = [jobs EXCEPT ![l.job] = Unlocked(jobs[l.job], "failed")]
    BY <1>3 DEF SweepExhaust
  <2> QED BY <1>0, <2>1 DEF Unlocked, Job
<1>4. ASSUME NEW w \in Workers, SweepRequeue(w)
      PROVE  jobs[k].status = "running" /\ jobs'[k] = jobs[k]
  BY <1>0, <1>4 DEF SweepRequeue, Unlocked, Job
<1>5. ASSUME NEW w \in Workers,
             BeginSweep(w) \/ (\E l \in sweep[w] : SweepError(w, l)) \/ NoJobClaimed(w)
      PROVE  jobs' = jobs
  BY <1>5 DEF BeginSweep, SweepError, NoJobClaimed
<1>6. CASE (\E j \in Jobs : HeadMoves(j)) \/ UNCHANGED routingVars
  BY <1>1, <1>6 DEF HeadMoves, vars, routingVars
<1> QED BY <1>1, <1>2, <1>3, <1>4, <1>5, <1>6 DEF QueueStep, SweepStep

\* Ownership is not given back, and a recovery does not turn into routing.
LEMMA OwnersStep ==
  ASSUME RoutingTypeOK, IInv, OwnersRecover, [RoutingNext]_routingVars
  PROVE  OwnersRecover'
<1> SUFFICES ASSUME NEW v \in Workers, lease'[v] # NoLease,
                    jobs'[lease'[v].job].status = "running",
                    jobs'[lease'[v].job].lockedBy = lease'[v].lockedBy,
                    jobs'[lease'[v].job].attempt = lease'[v].attempt,
                    payload'[lease'[v].job] = "failure"
             PROVE  run'[v].step \in Recovering \cup {"caught"}
  BY DEF OwnersRecover, LeaseMatches, JobOf
<1>0. /\ payload \in [Jobs -> {"routing", "failure"}] /\ run \in [Workers -> Attempt]
      /\ lease \in [Workers -> Lease \cup {NoLease}] /\ jobs \in [Jobs -> Job]
      /\ \A w \in Workers : lease[w] # NoLease => lease[w] \in Lease /\ lease[w].job \in Jobs
  BY DEF RoutingTypeOK, IInv, TypeOK, Lease
<1>1. ASSUME lease'[v] = lease[v],
             jobs[lease[v].job].status = "running",
             jobs'[lease[v].job].lockedBy = jobs[lease[v].job].lockedBy,
             jobs'[lease[v].job].attempt = jobs[lease[v].job].attempt,
             payload'[lease[v].job] = payload[lease[v].job]
      PROVE  run[v].step \in Recovering \cup {"caught"}
  BY <1>1 DEF OwnersRecover, LeaseMatches, JobOf
<1>2. ASSUME NEW w \in Workers, AttemptStep(w) \/ Throw(w)
      PROVE  run'[v].step \in Recovering \cup {"caught"}
  <2>1. UNCHANGED <<jobs, lease, payload>> /\ \A u \in Workers \ {w} : run'[u] = run[u]
    BY <1>0, <1>2, AttemptIsLocal DEF vars
  <2>2. run[v].step \in Recovering \cup {"caught"}
    BY <1>1, <2>1
  <2> QED BY <1>0, <1>2, <2>1, <2>2, RecoveryGoesOn
<1>3. ASSUME NEW w \in Workers, SettleAttempt(w) \/ Crash(w)
      PROVE  run'[v].step \in Recovering \cup {"caught"}
  <2>1. /\ run' = [run EXCEPT ![w] = NoAttempt]
        /\ lease' = [lease EXCEPT ![w] = NoLease]
        /\ payload' = payload \/ payload' = [payload EXCEPT ![lease[w].job] = "failure"]
    BY <1>3, SettlingIsLocal
  <2>2. v # w /\ lease'[v] = lease[v] /\ lease[v].job \in Jobs /\ run'[v] = run[v]
    BY <1>0, <2>1
  <2>3. CASE jobs' = jobs /\ payload' = payload
    BY <1>1, <2>2, <2>3
  <2>4. ASSUME NEW row, row.status # "running", jobs' = [jobs EXCEPT ![lease[w].job] = row]
        PROVE  run'[v].step \in Recovering \cup {"caught"}
    <3>1. lease[v].job # lease[w].job
      BY <1>0, <2>2, <2>4
    <3>2. /\ jobs'[lease[v].job] = jobs[lease[v].job]
          /\ payload'[lease[v].job] = payload[lease[v].job]
      BY <1>0, <2>1, <2>2, <2>4, <3>1
    <3> QED BY <1>1, <2>2, <3>2
  <2> QED BY <1>3, <2>3, <2>4, SettlingEndsTheJob
<1>4. ASSUME NEW w \in Workers, NEW j \in Jobs, Claim(w, j)
      PROVE  run'[v].step \in Recovering \cup {"caught"}
  <2>1. /\ run' = [run EXCEPT ![w] = [NoAttempt EXCEPT !.step = FirstStep(j)]]
        /\ payload' = payload
        /\ jobs' = [jobs EXCEPT ![j].status = "running", ![j].lockedBy = WorkerId[w],
                                ![j].attempt = @ + 1, ![j].stale = FALSE]
        /\ lease' = [lease EXCEPT ![w] = [job |-> j, lockedBy |-> WorkerId[w],
                                          attempt |-> jobs[j].attempt + 1,
                                          max |-> jobs[j].max]]
    BY <1>4 DEF Claim, ClaimNext, routing
  <2>2. CASE v = w
    <3>1. run'[v].step = FirstStep(j) /\ lease'[v].job = j
      BY <1>0, <2>1, <2>2 DEF NoAttempt
    <3>2. FirstStep(j) = "find failed check"
      BY <2>1, <3>1 DEF FirstStep
    <3> QED BY <3>1, <3>2 DEF Recovering, RecoverySteps
  <2>3. CASE v # w
    <3>1. lease'[v] = lease[v] /\ run'[v] = run[v] /\ lease[v] \in Lease /\ lease[v].job \in Jobs
      BY <1>0, <2>1, <2>3
    <3>2. lease[v].job # j
      <4>1. lease[v].attempt <= jobs[lease[v].job].attempt
        BY <3>1 DEF IInv, LeaseInv
      <4>2. /\ jobs'[j].attempt = jobs[j].attempt + 1
            /\ jobs[j].attempt \in Nat /\ lease[v].attempt \in Nat
        BY <1>0, <2>1, <3>1 DEF Job, Lease
      <4> QED BY <3>1, <4>1, <4>2
    <3>3. jobs'[lease[v].job] = jobs[lease[v].job]
      BY <1>0, <2>1, <3>1, <3>2
    <3> QED BY <1>1, <2>1, <3>1, <3>3
  <2> QED BY <2>2, <2>3
<1>5. CASE QueueStep \/ (\E j \in Jobs : HeadMoves(j)) \/ UNCHANGED routingVars
  <2>1. lease' = lease
    BY <1>5 DEF QueueStep, HeadMoves, Enqueue, BecomeDue, BecomeStale, SweepStep,
       BeginSweep, SweepExhaust, SweepError, SweepRequeue, NoJobClaimed, vars, routingVars
  <2>2. lease'[v] = lease[v] /\ lease[v].job \in Jobs
    BY <1>0, <2>1
  <2> QED BY <1>1, <1>5, <2>2, QueueStepGivesNoJob
<1> QED BY <1>2, <1>3, <1>4, <1>5 DEF RoutingNext

\* Whoever owns a job that is to be finalized does nothing else with it.
THEOREM RecoveriesAreExclusive == RoutingSpec => []OwnersRecover
<1>1. RoutingInit => OwnersRecover
  BY DEF RoutingInit, Init, OwnersRecover
<1>2. RoutingInv /\ IInv /\ OwnersRecover /\ [RoutingNext]_routingVars => OwnersRecover'
  BY OwnersStep DEF RoutingInv
<1> QED BY <1>1, <1>2, RunnerInvariant, RunnerKeepsQueueInvariant, PTL DEF RoutingSpec

\* How a job comes to be failed: by its owner, or by a sweep over a last attempt
\* that expired.
LEMMA FailingSteps ==
  ASSUME RoutingTypeOK, IInv, RoutingNext, NEW j \in Jobs,
         jobs[j].status # "failed", jobs'[j].status = "failed"
  PROVE  \/ lease' = lease /\ ExpiredOut(j)
         \/ \E w \in Workers : /\ FailedBy(w, j) /\ phase[w] = "executing"
                               /\ SettleAttempt(w)
<1>0. jobs \in [Jobs -> Job] /\ jobs[j] \in Job
      /\ lease \in [Workers -> Lease \cup {NoLease}]
  BY DEF IInv, TypeOK
<1>1. ASSUME NEW w \in Workers, AttemptStep(w) \/ Throw(w) PROVE FALSE
  BY <1>1, AttemptIsLocal DEF vars, RoutingTypeOK
<1>2. ASSUME NEW w \in Workers, NEW k \in Jobs, Claim(w, k) PROVE FALSE
  BY <1>0, <1>2 DEF Claim, ClaimNext, Job
<1>3. ASSUME NEW w \in Workers, Crash(w) PROVE FALSE
  BY <1>3 DEF Crash, AbandonCycle
<1>4. ASSUME NEW w \in Workers, SettleAttempt(w)
      PROVE  FailedBy(w, j) /\ phase[w] = "executing"
  <2>1. CASE SettleStale(w)
    BY <2>1 DEF SettleStale, AbandonStaleLease
  <2>2. CASE Finish(w) \/ CatchAndFinalize(w) \/ CatchAndRetry(w) \/ Finalized(w)
             \/ RecoveryFailed(w)
    <3>1. /\ phase[w] = "executing" /\ LeaseMatches(lease[w])
          /\ lease' = [lease EXCEPT ![w] = NoLease]
          /\ \E row : jobs' = [jobs EXCEPT ![lease[w].job] = row]
      BY <2>2 DEF Finish, CatchAndFinalize, CatchAndRetry, Finalized, RecoveryFailed,
         MarkSucceeded, MarkFailed, MarkFailedWithRecovery, Executing, Settle
    <3>2. lease[w] # NoLease /\ lease'[w] = NoLease
      BY <1>0, <3>1, NoLeaseAssumption DEF IInv, TypeOK
    <3>3. lease[w].job = j
      BY <1>0, <3>1
    <3> QED BY <3>1, <3>2, <3>3 DEF FailedBy, Owns
  <2> QED BY <1>4, <2>1, <2>2 DEF SettleAttempt
<1>5. CASE QueueStep \/ \E k \in Jobs : HeadMoves(k)
  <2>1. lease' = lease
    BY <1>5 DEF QueueStep, HeadMoves, Enqueue, BecomeDue, BecomeStale, SweepStep,
       BeginSweep, SweepExhaust, SweepError, SweepRequeue, NoJobClaimed, vars
  <2>2. ASSUME NEW w \in Workers, NEW l \in sweep[w], SweepExhaust(w, l)
        PROVE  ExpiredOut(j)
    <3>1. /\ LeaseMatches(l)
          /\ jobs' = [jobs EXCEPT ![l.job] = Unlocked(jobs[l.job], "failed")]
      BY <2>2 DEF SweepExhaust
    <3>2. l.job = j
      BY <1>0, <3>1
    <3> QED BY <2>2, <3>1, <3>2 DEF IInv, SweepInv
  <2>3. ASSUME NEW w \in Workers, SweepRequeue(w) PROVE FALSE
    BY <1>0, <2>3 DEF SweepRequeue, Unlocked, Job
  <2>4. ASSUME NEW k \in Jobs, Enqueue(k) \/ BecomeDue(k) \/ BecomeStale(k) PROVE FALSE
    BY <1>0, <2>4 DEF Enqueue, BecomeDue, BecomeStale, Job
  <2>5. ASSUME NEW w \in Workers,
               BeginSweep(w) \/ (\E l \in sweep[w] : SweepError(w, l)) \/ NoJobClaimed(w)
        PROVE  FALSE
    BY <2>5 DEF BeginSweep, SweepError, NoJobClaimed
  <2>6. ASSUME NEW k \in Jobs, HeadMoves(k) PROVE FALSE
    BY <2>6 DEF HeadMoves, vars
  <2> QED BY <1>5, <2>1, <2>2, <2>3, <2>4, <2>5, <2>6 DEF QueueStep, SweepStep
<1> QED BY <1>1, <1>2, <1>3, <1>4, <1>5 DEF RoutingNext

\* A job that is to be finalized is never found succeeded.
NeverSucceeds ==
  \A j \in Jobs : payload[j] = "failure" => jobs[j].status # "succeeded"

\* No step succeeds with a job that is to be finalized or forgets that it is.
LEMMA NeverSucceedsStep ==
  ASSUME RoutingTypeOK, IInv, OwnersRecover, NeverSucceeds, [RoutingNext]_routingVars
  PROVE  /\ NeverSucceeds'
         /\ \A j \in Jobs : payload[j] = "failure" => payload'[j] = "failure"
<1>0. /\ jobs \in [Jobs -> Job] /\ payload \in [Jobs -> {"routing", "failure"}]
      /\ lease \in [Workers -> Lease \cup {NoLease}]
  BY DEF RoutingTypeOK, IInv, TypeOK
<1> SUFFICES ASSUME NEW j \in Jobs
             PROVE  /\ payload[j] = "failure" => payload'[j] = "failure"
                    /\ payload'[j] = "failure" => jobs'[j].status # "succeeded"
  BY DEF NeverSucceeds
<1>1. ASSUME payload' = payload, jobs'[j].status = "succeeded" => jobs[j].status = "succeeded"
      PROVE  /\ payload[j] = "failure" => payload'[j] = "failure"
             /\ payload'[j] = "failure" => jobs'[j].status # "succeeded"
  BY <1>1 DEF NeverSucceeds
<1>2. ASSUME NEW w \in Workers, AttemptStep(w) \/ Throw(w)
      PROVE  UNCHANGED <<jobs, payload>>
  BY <1>2, AttemptIsLocal DEF vars, RoutingTypeOK
<1>3. ASSUME NEW w \in Workers, NEW k \in Jobs, Claim(w, k)
      PROVE  payload' = payload /\ (jobs'[j].status = "succeeded" => jobs[j].status = "succeeded")
  BY <1>0, <1>3 DEF Claim, ClaimNext, routing, Job
<1>4. CASE QueueStep \/ (\E k \in Jobs : HeadMoves(k)) \/ UNCHANGED routingVars
  <2>1. payload' = payload
    BY <1>4 DEF QueueStep, HeadMoves, routing, routingVars
  <2>2. ASSUME NEW w \in Workers, SweepStep(w) \/ NoJobClaimed(w)
        PROVE  jobs'[j].status = "succeeded" => jobs[j].status = "succeeded"
    <3>1. CASE SweepRequeue(w)
      BY <1>0, <3>1 DEF SweepRequeue, Unlocked, Job
    <3>2. ASSUME NEW l \in sweep[w], SweepExhaust(w, l)
          PROVE  jobs'[j].status = "succeeded" => jobs[j].status = "succeeded"
      <4>1. jobs' = jobs \/ jobs' = [jobs EXCEPT ![l.job] = Unlocked(jobs[l.job], "failed")]
        BY <3>2 DEF SweepExhaust
      <4> QED BY <1>0, <4>1 DEF Unlocked, Job
    <3>3. CASE BeginSweep(w) \/ (\E l \in sweep[w] : SweepError(w, l)) \/ NoJobClaimed(w)
      BY <3>3 DEF BeginSweep, SweepError, NoJobClaimed
    <3> QED BY <2>2, <3>1, <3>2, <3>3 DEF SweepStep
  <2>3. ASSUME NEW k \in Jobs, Enqueue(k) \/ BecomeDue(k) \/ BecomeStale(k)
        PROVE  jobs'[j].status = "succeeded" => jobs[j].status = "succeeded"
    BY <1>0, <2>3 DEF Enqueue, BecomeDue, BecomeStale, Job
  <2>4. ASSUME (\E k \in Jobs : HeadMoves(k)) \/ UNCHANGED routingVars
        PROVE  jobs'[j].status = "succeeded" => jobs[j].status = "succeeded"
    BY <2>4 DEF HeadMoves, vars, routingVars
  <2>5. jobs'[j].status = "succeeded" => jobs[j].status = "succeeded"
    BY <1>4, <2>2, <2>3, <2>4 DEF QueueStep
  <2> QED BY <1>1, <2>1, <2>5
<1>5. ASSUME NEW w \in Workers, SettleAttempt(w) \/ Crash(w)
      PROVE  /\ payload[j] = "failure" => payload'[j] = "failure"
             /\ payload'[j] = "failure" => jobs'[j].status # "succeeded"
  <2>1. CASE Crash(w) \/ SettleStale(w)
    <3>1. jobs' = jobs /\ payload' = payload
      BY <2>1 DEF Crash, AbandonCycle, SettleStale, AbandonStaleLease, routing
    <3> QED BY <1>1, <3>1
  <2>2. CASE Finish(w)
    <3>1. /\ phase[w] = "executing" /\ run[w].step = "finish" /\ LeaseMatches(lease[w])
          /\ payload' = payload
          /\ jobs' = [jobs EXCEPT ![lease[w].job] = Unlocked(@, "succeeded")]
      BY <2>2 DEF Finish, At, MarkSucceeded, Executing, routing
    <3>2. lease[w] # NoLease
      BY <3>1, ExecutingLease DEF IInv
    <3>3. payload[lease[w].job] # "failure"
      BY <3>1, <3>2 DEF OwnersRecover, JobOf, Recovering, RecoverySteps
    <3>4. CASE j = lease[w].job
      BY <3>1, <3>3, <3>4
    <3>5. CASE j # lease[w].job
      BY <1>0, <1>1, <3>1, <3>5
    <3> QED BY <3>4, <3>5
  <2>3. CASE CatchAndFinalize(w) \/ CatchAndRetry(w) \/ Finalized(w) \/ RecoveryFailed(w)
    <3>1. phase[w] = "executing"
      BY <2>3 DEF CatchAndFinalize, CatchAndRetry, Finalized, RecoveryFailed, At
    <3>2. lease[w].job \in Jobs /\ jobs[lease[w].job] \in Job
      BY <1>0, <3>1, ExecutingLease DEF IInv
    <3>3. \/ jobs' = [jobs EXCEPT ![lease[w].job] = Unlocked(@, "failed")]
          \/ \E m : jobs' = [jobs EXCEPT ![lease[w].job] = Delayed(@, m)]
      BY <2>3 DEF CatchAndFinalize, CatchAndRetry, Finalized, RecoveryFailed, MarkFailed,
         MarkFailedWithRecovery
    <3>4. /\ j = lease[w].job => jobs'[j].status # "succeeded"
          /\ j # lease[w].job => jobs'[j] = jobs[j]
      <4>1. /\ Unlocked(jobs[lease[w].job], "failed").status # "succeeded"
            /\ \A m : Delayed(jobs[lease[w].job], m).status # "succeeded"
        BY <3>2 DEF Unlocked, Delayed, Job
      <4>2. PICK row : row.status # "succeeded" /\ jobs' = [jobs EXCEPT ![lease[w].job] = row]
        BY <3>3, <4>1
      <4> QED BY <1>0, <3>2, <4>2
    <3>5. payload' = payload \/ payload' = [payload EXCEPT ![lease[w].job] = "failure"]
      BY <1>5, SettlingIsLocal
    <3> QED BY <1>0, <3>2, <3>4, <3>5 DEF NeverSucceeds
  <2> QED BY <1>5, <2>1, <2>2, <2>3 DEF SettleAttempt
<1> QED BY <1>1, <1>2, <1>3, <1>4, <1>5 DEF RoutingNext

\* A job that is to be finalized is in no state succeeded, with any number of
\* workers: only its owner could settle it so, and the owner recovers.
THEOREM FinalizedNeverSucceeds == RoutingSpec => []NeverSucceeds
<1>1. RoutingInit => NeverSucceeds
  BY DEF RoutingInit, Init, NeverSucceeds
<1>2. RoutingInv /\ IInv /\ OwnersRecover /\ NeverSucceeds /\ [RoutingNext]_routingVars
        => NeverSucceeds'
  BY NeverSucceedsStep DEF RoutingInv
<1> QED
  BY <1>1, <1>2, RunnerInvariant, RunnerKeepsQueueInvariant, RecoveriesAreExclusive, PTL
     DEF RoutingSpec

\* The steps on which an attempt handles an error of its routing.
Handling == {"conclude check", "conclude row", "action failed", "caught"}

\* Whoever handles an error knows which.
ErrorsKnown ==
  \A w \in Workers : run[w].step \in Handling => run[w].error \in {"transient", "permanent"}

LEMMA ErrorIsKept ==
  ASSUME run \in [Workers -> Attempt], NEW w \in Workers, AttemptStep(w) \/ Throw(w),
         run[w].step \in Handling => run[w].error \in {"transient", "permanent"},
         run'[w].step \in Handling
  PROVE  run'[w].error \in {"transient", "permanent"}
<1>1. ASSUME NEW s, NEW e \in {"transient", "permanent"}, Raise(w, s, e)
      PROVE  run'[w].error \in {"transient", "permanent"}
  BY <1>1 DEF Raise, Attempt
<1>2. ASSUME NEW s, Goto(w, s) PROVE run'[w].error = run[w].error
  BY <1>2 DEF Goto, Attempt
<1>3. CASE Throw(w)
  BY <1>1, <1>3 DEF Throw
<1>4. CASE PersistRefused(w) \/ RecoveryUnsettled(w)
           \/ (\E e \in {"transient", "permanent"} : ActFails(w, e))
  BY <1>1, <1>4 DEF PersistRefused, RecoveryUnsettled, ActFails
<1>5. CASE Preflight(w)
  <2>1. Goto(w, "find check") \/ Raise(w, "action failed", "permanent")
    BY <1>5 DEF Preflight
  <2>2. CASE Goto(w, "find check")
    BY <2>2, StepTaken DEF Handling
  <2> QED BY <1>1, <2>1, <2>2
<1>6. CASE ConcludeCheck(w) \/ ConcludeRow(w) \/ ActionFailed(w)
  <2>1. run[w].step \in Handling /\ \E s : Goto(w, s)
    BY <1>6 DEF ConcludeCheck, ConcludeRow, ActionFailed, At, Handling
  <2> QED BY <1>2, <2>1
<1>7. /\ Begin(w) => \E s \in {"finish", "compute"} : Goto(w, s)
      /\ Skip(w) => Goto(w, "finish")
      /\ Persist(w) => \E s \in {"finish", "preflight"} : Goto(w, s)
      /\ RecordCheck(w) => Goto(w, "act")
      /\ EnqueuePolicy(w) => Goto(w, "action done")
      /\ ActionDone(w) => Goto(w, "finish")
      /\ FailCheck(w) => Goto(w, "fail row")
      /\ FailRow(w) => Goto(w, "finalized")
  BY DEF Begin, Skip, Persist, RecordCheck, EnqueuePolicy, ActionDone, FailCheck, FailRow
<1>8. \A d \in Decisions : Compute(w, d) => run'[w].step = "persist"
  BY DEF Compute, Attempt
<1>9. /\ FindCheck(w) => \/ \E s \in {"act", "record check"} : \E c, f : Take(w, s, c, f)
                         \/ Goto(w, "create check")
      /\ CreateCheck(w) => \E c, f : Take(w, "record check", c, f)
      /\ FindFailedCheck(w) => Goto(w, "finalized") \/ \E c, f : Take(w, "fail check", c, f)
  BY Zenon DEF FindCheck, CreateCheck, FindFailedCheck
<1>10. /\ AfterActions(run[w].decision) \in {"enqueue policy", "action done", "finish"}
       /\ Act(w) => Goto(w, AfterActions(run[w].decision))
  BY DEF AfterActions, Act
<1>11. {"finish", "compute", "preflight", "act", "action done", "fail row", "finalized",
        "persist", "record check", "create check", "fail check", "enqueue policy"}
         \cap Handling = {}
  BY DEF Handling
<1>12. CASE Begin(w) \/ Skip(w) \/ (\E d \in Decisions : Compute(w, d)) \/ Persist(w)
            \/ RecordCheck(w) \/ EnqueuePolicy(w) \/ ActionDone(w) \/ FailCheck(w)
            \/ FailRow(w)
  BY <1>7, <1>8, <1>11, <1>12, StepTaken
<1>13. CASE FindCheck(w) \/ CreateCheck(w) \/ FindFailedCheck(w) \/ Act(w)
  BY <1>9, <1>10, <1>11, <1>13, StepTaken
<1> QED BY <1>3, <1>4, <1>5, <1>6, <1>12, <1>13 DEF AttemptStep

\* An attempt that handles an error of its routing knows whether it is transient.
THEOREM ErrorsAreKnown == RoutingSpec => []ErrorsKnown
<1>1. RoutingInit => ErrorsKnown
  <2>1. NoAttempt.step \notin Handling
    BY DEF NoAttempt, Handling
  <2>2. RoutingInit => \A w \in Workers : run[w] = NoAttempt
    BY DEF RoutingInit
  <2> QED BY <2>1, <2>2 DEF ErrorsKnown
<1>2. RoutingInv /\ IInv /\ ErrorsKnown /\ [RoutingNext]_routingVars => ErrorsKnown'
  <2> SUFFICES ASSUME RoutingTypeOK, IInv, ErrorsKnown, [RoutingNext]_routingVars,
                      NEW v \in Workers, run'[v].step \in Handling
               PROVE  run'[v].error \in {"transient", "permanent"}
    BY DEF ErrorsKnown, RoutingInv
  <2>0. /\ run \in [Workers -> Attempt]
        /\ run'[v] = run[v] => run'[v].error \in {"transient", "permanent"}
    BY DEF RoutingTypeOK, ErrorsKnown
  <2>1. ASSUME NEW w \in Workers, AttemptStep(w) \/ Throw(w)
        PROVE  run'[v].error \in {"transient", "permanent"}
    <3>1. v # w => run'[v] = run[v]
      BY <2>0, <2>1, AttemptIsLocal
    <3> QED BY <2>0, <2>1, <3>1, ErrorIsKept DEF ErrorsKnown
  <2>2. ASSUME NEW w \in Workers, SettleAttempt(w) \/ Crash(w)
        PROVE  run'[v].error \in {"transient", "permanent"}
    <3>1. run' = [run EXCEPT ![w] = NoAttempt] /\ run'[w].step = "none"
      BY <2>2, SettlingIsLocal
    <3> QED BY <2>0, <3>1 DEF Handling
  <2>3. ASSUME NEW w \in Workers, NEW j \in Jobs, Claim(w, j)
        PROVE  run'[v].error \in {"transient", "permanent"}
    <3>1. run' = [run EXCEPT ![w] = [NoAttempt EXCEPT !.step = FirstStep(j)]]
      BY <2>3 DEF Claim
    <3>2. v = w => run'[v].step = FirstStep(j)
      BY <2>0, <3>1 DEF NoAttempt
    <3>3. FirstStep(j) \notin Handling
      BY DEF FirstStep, Handling
    <3> QED BY <2>0, <3>1, <3>2, <3>3
  <2>4. CASE QueueStep \/ (\E j \in Jobs : HeadMoves(j)) \/ UNCHANGED routingVars
    BY <2>0, <2>4 DEF QueueStep, HeadMoves, routingVars
  <2> QED BY <2>1, <2>2, <2>3, <2>4 DEF RoutingNext
<1> QED BY <1>1, <1>2, RunnerInvariant, RunnerKeepsQueueInvariant, PTL DEF RoutingSpec

\* The owner's settlement that fails a job: with a permanent error, or in a
\* recovery.
LEMMA OwnerFails ==
  ASSUME RoutingTypeOK, IInv, RecoveryIntended, ErrorsKnown,
         NEW w \in Workers, NEW j \in Jobs, SettleAttempt(w), FailedBy(w, j)
  PROVE  payload[j] = "failure" \/ run[w].error = "permanent"
<1>0. /\ lease[w] # NoLease /\ lease[w].job = j /\ phase[w] = "executing"
      /\ jobs[j].status = "running" /\ jobs'[j].status = "failed"
      /\ jobs \in [Jobs -> Job] /\ run \in [Workers -> Attempt] /\ lease[w] \in Lease
  BY DEF FailedBy, Owns, LeaseMatches, RoutingTypeOK, IInv, TypeOK
<1>1. CASE Finish(w)
  BY <1>0, <1>1 DEF Finish, MarkSucceeded, Unlocked, Job
<1>2. CASE SettleStale(w)
  BY <1>0, <1>2 DEF SettleStale, AbandonStaleLease
<1>3. CASE CatchAndFinalize(w)
  <2>1. \E m : jobs' = [jobs EXCEPT ![j] = Delayed(@, m)]
    BY <1>0, <1>3 DEF CatchAndFinalize, MarkFailedWithRecovery
  <2> QED BY <1>0, <2>1 DEF Delayed, Unlocked, Job
<1>4. CASE CatchAndRetry(w)
  <2>1. CASE run[w].error = "transient"
    <3>1. ~Exhausted(lease[w], run[w].error = "transient")
      BY <1>0, <1>4, <2>1 DEF CatchAndRetry, ShouldFinalize, Exhausted, Lease
    <3>2. jobs' = [jobs EXCEPT ![j] = Delayed(@, @.max)]
      BY <1>0, <1>4, <3>1 DEF CatchAndRetry, MarkFailed
    <3> QED BY <1>0, <3>2 DEF Delayed, Unlocked, Job
  <2>2. run[w].error \in {"transient", "permanent"}
    BY <1>4 DEF CatchAndRetry, At, ErrorsKnown, Handling
  <2> QED BY <2>1, <2>2
<1>5. CASE Finalized(w) \/ RecoveryFailed(w)
  <2>1. run[w].step \in Recovering
    BY <1>5 DEF Finalized, RecoveryFailed, At, Recovering
  <2> QED BY <1>0, <2>1 DEF RecoveryIntended, JobOf
<1> QED BY <1>1, <1>2, <1>3, <1>4, <1>5 DEF SettleAttempt

\* A job that is to be finalized never succeeds, whoever is late; and a job
\* fails in its finalization, by a permanent error of its owner, or because a
\* sweep found its last attempt expired: never because transient errors used up
\* its attempts (apps/worker/src/runner.ts:156).
THEOREM RunnerFinalizesExhaustion == RoutingSpec => ExhaustionIsFinalized
<1>1. RoutingInv /\ IInv /\ RecoveryIntended /\ OwnersRecover /\ NeverSucceeds
      /\ ErrorsKnown /\ [RoutingNext]_routingVars =>
        [\A j \in Jobs :
           /\ payload[j] = "failure" => jobs'[j].status # "succeeded"
           /\ jobs[j].status # "failed" /\ jobs'[j].status = "failed" =>
                \/ payload[j] = "failure"
                \/ \E w \in Workers : FailedBy(w, j) /\ run[w].error = "permanent"
                \/ lease' = lease /\ ExpiredOut(j)]_routingVars
  <2> SUFFICES ASSUME RoutingInv, IInv, RecoveryIntended, OwnersRecover, NeverSucceeds,
                      ErrorsKnown, RoutingNext, NEW j \in Jobs
               PROVE  /\ payload[j] = "failure" => jobs'[j].status # "succeeded"
                      /\ jobs[j].status # "failed" /\ jobs'[j].status = "failed" =>
                           \/ payload[j] = "failure"
                           \/ \E w \in Workers : FailedBy(w, j) /\ run[w].error = "permanent"
                           \/ lease' = lease /\ ExpiredOut(j)
    OBVIOUS
  <2>0. RoutingTypeOK
    BY DEF RoutingInv
  <2>1. payload[j] = "failure" => jobs'[j].status # "succeeded"
    <3>1. NeverSucceeds' /\ (payload[j] = "failure" => payload'[j] = "failure")
      BY <2>0, NeverSucceedsStep
    <3> QED BY <3>1 DEF NeverSucceeds
  <2>2. ASSUME jobs[j].status # "failed", jobs'[j].status = "failed",
               NEW w \in Workers, FailedBy(w, j), SettleAttempt(w)
        PROVE  payload[j] = "failure" \/ run[w].error = "permanent"
    BY <2>0, <2>2, OwnerFails
  <2> QED BY <2>0, <2>1, <2>2, FailingSteps
<1> QED
  BY <1>1, RunnerInvariant, RunnerKeepsQueueInvariant, RecoveriesAreIntended,
     RecoveriesAreExclusive, FinalizedNeverSucceeds, ErrorsAreKnown, PTL
     DEF RoutingSpec, ExhaustionIsFinalized

-----------------------------------------------------------------------------
(* The check runs of a single worker *)

OneWorker == \A v, w \in Workers : v = w

\* A row knows only a run that exists, and a run exists only for a row.
ChecksKnown(row, runs) ==
  /\ Len(runs) <= 1 /\ row.checkRun <= Len(runs)
  /\ Len(runs) # 0 => row.status # "none"

AllFailed(runs) == \A i \in 1 .. Len(runs) : runs[i] = "failure"

\* What an attempt has found of the row and the runs is still so, since nobody
\* else writes them: none is there when it creates one, the one it works on
\* exists, and a finalization that has come to its end has failed all there is.
ChecksSeen(a, row, runs) ==
  /\ a.step \in ActionSteps => row.status # "none"
  /\ a.step = "create check" => Len(runs) = 0
  /\ a.step \in {"record check", "fail check", "fail row"} =>
       a.checkRun \in 1 .. Len(runs)
  /\ a.step = "fail row" => AllFailed(runs)
  /\ a.step = "finalized" =>
       AllFailed(runs) /\ (Len(runs) # 0 => row.checkState = "failure")

ChecksInv ==
  /\ \A j \in Jobs : ChecksKnown(decision[j], checks[j])
  /\ \A w \in Workers :
       phase[w] = "executing" => ChecksSeen(run[w], decision[JobOf(w)], checks[JobOf(w)])

\* What an attempt works with.
LEMMA ChecksFacts ==
  ASSUME RoutingTypeOK, IInv, ChecksInv, NEW w \in Workers, phase[w] = "executing"
  PROVE  \E j \in Jobs :
           /\ lease[w].job = j /\ run[w] \in Attempt
           /\ decision[j] \in Decision /\ checks[j] \in Seq(CheckState)
           /\ ChecksKnown(decision[j], checks[j])
           /\ ChecksSeen(run[w], decision[j], checks[j])
<1>1. lease[w].job \in Jobs
  BY ExecutingLease DEF IInv
<1> QED BY <1>1 DEF RoutingTypeOK, ChecksInv, JobOf

\* With one worker, a step preserves the invariant if it does for its own job.
LEMMA ChecksFrame ==
  ASSUME OneWorker, ChecksInv, NEW w \in Workers, NEW j \in Jobs,
         lease'[w].job = j,
         \A k \in Jobs \ {j} : decision'[k] = decision[k] /\ checks'[k] = checks[k],
         ChecksKnown(decision'[j], checks'[j]),
         ChecksSeen(run'[w], decision'[j], checks'[j])
  PROVE  ChecksInv'
<1>1. ASSUME NEW k \in Jobs PROVE ChecksKnown(decision'[k], checks'[k])
  BY Zenon DEF ChecksInv
<1>2. ASSUME NEW v \in Workers
      PROVE  ChecksSeen(run'[v], decision'[lease'[v].job], checks'[lease'[v].job])
  <2>1. v = w
    BY DEF OneWorker
  <2> QED BY <2>1
<1> QED BY <1>1, <1>2 DEF ChecksInv, JobOf

\* Steps of which nothing is asked here.
Unrelated == {"begin", "compute", "persist", "action done", "action failed", "finish",
              "caught", "find failed check", "recovery failed"}

LEMMA UnrelatedIsSeen ==
  ASSUME NEW a \in Attempt, a.step \in Unrelated, NEW row, NEW runs
  PROVE  ChecksSeen(a, row, runs)
BY DEF ChecksSeen, Unrelated, ActionSteps

\* Nor of the other steps of the actions, once there is a row.
LEMMA ActionIsSeen ==
  ASSUME NEW a \in Attempt, NEW row, NEW runs, row.status # "none",
         a.step \in {"preflight", "find check", "act", "conclude check", "conclude row",
                     "enqueue policy"}
  PROVE  ChecksSeen(a, row, runs)
BY DEF ChecksSeen, ActionSteps

\* An attempt that only reads.
LEMMA ReadersKeepChecks ==
  ASSUME OneWorker, RoutingTypeOK, IInv, ChecksInv, NEW w \in Workers, phase[w] = "executing",
         UNCHANGED <<vars, routing>>,
         \E j \in Jobs : lease[w].job = j /\ ChecksSeen(run'[w], decision[j], checks[j])
  PROVE  ChecksInv'
<1>1. PICK j \in Jobs : lease[w].job = j /\ ChecksSeen(run'[w], decision[j], checks[j])
  OBVIOUS
<1>2. decision' = decision /\ checks' = checks /\ lease' = lease
  BY DEF routing, vars
<1>3. ChecksKnown(decision[j], checks[j])
  BY DEF ChecksInv
<1> QED BY <1>1, <1>2, <1>3, ChecksFrame

\* Reading never finds two runs, nor one without a row; what is created was not
\* there.
LEMMA ReadingKeepsChecks ==
  ASSUME OneWorker, RoutingTypeOK, IInv, ChecksInv, NEW w \in Workers,
         \/ Begin(w) \/ Skip(w) \/ (\E d \in Decisions : Compute(w, d))
         \/ PersistRefused(w) \/ Preflight(w) \/ FindCheck(w)
         \/ FindFailedCheck(w) \/ RecoveryUnsettled(w) \/ Throw(w)
  PROVE  ChecksInv'
<1>0. phase[w] = "executing" /\ UNCHANGED <<vars, routing>>
  BY DEF Begin, Skip, Compute, PersistRefused, Preflight, FindCheck, FindFailedCheck,
     RecoveryUnsettled, Throw, At
<1>1. PICK j \in Jobs :
        /\ lease[w].job = j /\ run[w] \in Attempt
        /\ decision[j] \in Decision /\ checks[j] \in Seq(CheckState)
        /\ ChecksKnown(decision[j], checks[j])
        /\ ChecksSeen(run[w], decision[j], checks[j])
  BY <1>0, ChecksFacts
<1>2. run \in [Workers -> Attempt] /\ run[w].found \in CheckState
  BY <1>1 DEF RoutingTypeOK, Attempt
<1> SUFFICES ChecksSeen(run'[w], decision[j], checks[j])
  BY <1>0, <1>1, ReadersKeepChecks
<1>3. \A s \in Unrelated \cap Steps :
        Goto(w, s) \/ (\E e \in {"transient", "permanent"} : Raise(w, s, e))
          => ChecksSeen(run'[w], decision[j], checks[j])
  BY <1>2, GotoFacts, RaiseFacts, UnrelatedIsSeen
<1>4. {"finish", "compute", "caught", "action failed", "recovery failed", "persist"}
        \subseteq Unrelated \cap Steps
  BY DEF Unrelated, Steps
<1>5. CASE Begin(w) \/ Skip(w) \/ PersistRefused(w) \/ RecoveryUnsettled(w)
  <2>1. \E s \in {"finish", "compute", "caught"} :
          Goto(w, s) \/ (\E e \in {"transient", "permanent"} : Raise(w, s, e))
    BY <1>5 DEF Begin, Skip, PersistRefused, RecoveryUnsettled
  <2> QED BY <1>3, <1>4, <2>1
<1>6. ASSUME NEW d \in Decisions, Compute(w, d)
      PROVE  ChecksSeen(run'[w], decision[j], checks[j])
  <2>1. run'[w] \in Attempt /\ run'[w].step = "persist"
    BY <1>2, <1>6 DEF Compute, Attempt, Steps
  <2> QED BY <1>4, <2>1, UnrelatedIsSeen
<1>7. CASE Throw(w)
  <2>1. \E e \in {"transient", "permanent"} : Raise(w, Handler(run[w].step), e)
    BY <1>7 DEF Throw
  <2>2. Handler(run[w].step) \in {"action failed", "recovery failed", "caught"}
    BY DEF Handler
  <2> QED BY <1>3, <1>4, <2>1, <2>2
<1>8. CASE Preflight(w)
  <2>1. decision[j].status # "none"
    BY <1>1, <1>8 DEF Preflight, At, ChecksSeen, ActionSteps
  <2>2. CASE Goto(w, "find check")
    <3>1. run'[w] \in Attempt /\ run'[w].step = "find check"
      BY <1>2, <2>2, GotoFacts DEF Steps
    <3> QED BY <2>1, <3>1, ActionIsSeen
  <2>3. CASE Raise(w, "action failed", "permanent")
    BY <1>3, <1>4, <2>3
  <2> QED BY <1>8, <2>2, <2>3 DEF Preflight
<1>9. CASE FindCheck(w)
  <2>1. decision[j].status # "none"
    BY <1>1, <1>9 DEF FindCheck, At, ChecksSeen, ActionSteps
  <2>2. Len(checks[j]) \in Nat /\ decision[j].checkRun \in Nat
    BY <1>1 DEF Decision
  <2>3. CASE Take(w, "act", decision[j].checkRun, run[w].found)
    <3>1. "act" \in Steps
      BY DEF Steps
    <3>2. run'[w] \in Attempt /\ run'[w].step = "act"
      BY <1>2, <2>2, <2>3, <3>1, TakeFacts, Zenon
    <3> QED BY <2>1, <3>2, ActionIsSeen
  <2>4. CASE /\ Len(checks[j]) # 0
             /\ Take(w, "record check", Len(checks[j]), checks[j][Len(checks[j])])
    <3>1. checks[j][Len(checks[j])] \in CheckState
      BY <1>1, <2>4, NewestCheck
    <3>2. PICK n \in Nat, f \in CheckState :
            n = Len(checks[j]) /\ n # 0 /\ Take(w, "record check", n, f)
      BY <2>2, <2>4, <3>1
    <3>3. "record check" \in Steps
      BY DEF Steps
    <3>4. run'[w].step = "record check" /\ run'[w].checkRun = n
      BY <1>2, <3>2, <3>3, TakeFacts, Zenon
    <3>5. n # 0 => n \in 1 .. n
      OBVIOUS
    <3>6. run'[w].checkRun \in 1 .. Len(checks[j])
      BY <3>2, <3>4, <3>5, Zenon
    <3> QED BY <2>1, <3>4, <3>6, Zenon DEF ChecksSeen
  <2>5. CASE Len(checks[j]) = 0 /\ Goto(w, "create check")
    <3>1. run'[w].step = "create check"
      BY <1>2, <2>5, GotoFacts DEF Steps
    <3> QED BY <2>1, <2>5, <3>1 DEF ChecksSeen
  <2> QED BY <1>1, <1>9, <2>3, <2>4, <2>5, Zenon DEF FindCheck, JobOf
<1>10. CASE FindFailedCheck(w)
  <2>1. Len(checks[j]) \in Nat /\ decision[j].checkRun \in Nat
    BY <1>1 DEF Decision
  <2> DEFINE c == IF decision[j].checkRun # 0 THEN decision[j].checkRun
                                              ELSE Len(checks[j])
  <2>2. c \in Nat /\ (c # 0 => c \in 1 .. Len(checks[j]))
    BY <1>1, <2>1 DEF ChecksKnown
  <2>3. IF decision[j].status = "none" \/ c = 0
        THEN Goto(w, "finalized") ELSE Take(w, "fail check", c, run[w].found)
    BY <1>1, <1>10, Zenon DEF FindFailedCheck, JobOf
  <2>4. CASE decision[j].status = "none" \/ c = 0
    <3>1. run'[w].step = "finalized"
      BY <1>2, <2>3, <2>4, GotoFacts DEF Steps
    <3>2. Len(checks[j]) = 0
      BY <1>1, <2>1, <2>4 DEF ChecksKnown
    <3> QED BY <3>1, <3>2 DEF ChecksSeen, AllFailed, ActionSteps
  <2>5. CASE ~(decision[j].status = "none" \/ c = 0)
    <3> HIDE DEF c
    <3>1. "fail check" \in Steps
      BY DEF Steps
    <3>2. run'[w].step = "fail check" /\ run'[w].checkRun = c
      BY <1>2, <2>2, <2>3, <2>5, <3>1, TakeFacts, Zenon
    <3>3. c \in 1 .. Len(checks[j])
      BY <2>2, <2>5
    <3> QED BY <3>2, <3>3 DEF ChecksSeen, ActionSteps
  <2> QED BY <2>4, <2>5
<1> QED BY <1>5, <1>6, <1>7, <1>8, <1>9, <1>10

\* Failing the only run fails all of them.
LEMMA OnlyRunFails ==
  ASSUME NEW runs \in Seq(CheckState), NEW c \in Nat
  PROVE  /\ Len([runs EXCEPT ![c] = "failure"]) = Len(runs)
         /\ Len(runs) <= 1 /\ c \in 1 .. Len(runs) =>
              AllFailed([runs EXCEPT ![c] = "failure"])
<1>1. runs \in [1 .. Len(runs) -> CheckState] /\ Len(runs) \in Nat
  OBVIOUS
<1> DEFINE failed == [runs EXCEPT ![c] = "failure"]
<1>2. failed \in Seq(CheckState) /\ DOMAIN failed = 1 .. Len(runs)
  BY <1>1, FailedRuns
<1> HIDE DEF failed
<1>3. Len(failed) = Len(runs)
  <2>1. DOMAIN failed = 1 .. Len(failed) /\ Len(failed) \in Nat
    BY <1>2
  <2> QED BY <1>1, <1>2, <2>1
<1>4. ASSUME Len(runs) <= 1, c \in 1 .. Len(runs) PROVE AllFailed(failed)
  <2> SUFFICES ASSUME NEW i \in 1 .. Len(runs) PROVE failed[i] = "failure"
    BY <1>3 DEF AllFailed
  <2>1. i = c
    BY <1>1, <1>4
  <2> QED BY <1>1, <2>1 DEF failed
<1> QED BY <1>3, <1>4 DEF failed

\* What an attempt writes to its row: a run that exists, and a status.
LEMMA WritersKeepChecks ==
  ASSUME OneWorker, RoutingInv, RoutingTypeOK', IInv, ChecksInv, NEW w \in Workers,
         phase[w] = "executing", UNCHANGED vars, NEW j \in Jobs, lease[w].job = j,
         \A k \in Jobs \ {j} : decision'[k] = decision[k] /\ checks'[k] = checks[k],
         NEW row \in Decision, decision'[j] = row,
         NEW runs \in Seq(CheckState), checks'[j] = runs,
         Len(runs) <= 1, row.checkRun <= Len(runs), Len(runs) # 0 => row.status # "none",
         \/ run'[w].step \in Unrelated
         \/ /\ row.status # "none"
            /\ run'[w].step \in {"preflight", "find check", "act", "conclude check",
                                 "conclude row", "enqueue policy"}
         \/ ChecksSeen(run'[w], row, runs)
  PROVE  ChecksInv'
<1>1. run'[w] \in Attempt
  BY DEF RoutingTypeOK
<1>2. ChecksSeen(run'[w], row, runs)
  BY <1>1, UnrelatedIsSeen, ActionIsSeen
<1>3. ChecksKnown(row, runs)
  BY DEF ChecksKnown
<1>4. lease'[w].job = j
  BY DEF vars
<1> QED BY <1>2, <1>3, <1>4, ChecksFrame

LEMMA RowWritersKeepChecks ==
  ASSUME OneWorker, RoutingInv, RoutingTypeOK', IInv, ChecksInv, NEW w \in Workers,
         \/ Persist(w) \/ RecordCheck(w) \/ ConcludeRow(w)
         \/ ActionDone(w) \/ ActionFailed(w) \/ FailRow(w)
  PROVE  ChecksInv'
<1>0. /\ phase[w] = "executing" /\ UNCHANGED <<vars, checks>> /\ RoutingTypeOK
      /\ run \in [Workers -> Attempt]
  BY DEF Persist, RecordCheck, ConcludeRow, ActionDone, ActionFailed, FailRow, At,
     RoutingInv, RoutingTypeOK
<1>1. PICK j \in Jobs :
        /\ lease[w].job = j /\ run[w] \in Attempt
        /\ decision[j] \in Decision /\ checks[j] \in Seq(CheckState)
        /\ ChecksKnown(decision[j], checks[j])
        /\ ChecksSeen(run[w], decision[j], checks[j])
  BY <1>0, ChecksFacts
<1>2. /\ run[w].checkRun \in Nat /\ run[w].found \in CheckState
      /\ decision[j].checkRun \in Nat /\ "failure" \in CheckState
      /\ Len(checks[j]) \in Nat /\ Len(checks[j]) <= 1
      /\ decision[j].checkRun <= Len(checks[j])
      /\ Len(checks[j]) # 0 => decision[j].status # "none"
  BY <1>1 DEF Attempt, Decision, CheckState, ChecksKnown
<1>3. checks'[j] = checks[j] /\ \A k \in Jobs \ {j} : checks'[k] = checks[k]
  BY <1>0
<1> DEFINE Writes(row) ==
      decision'[j] = row /\ \A k \in Jobs \ {j} : decision'[k] = decision[k]
<1>4. ASSUME NEW row \in Decision, decision' = [decision EXCEPT ![j] = row]
      PROVE  Writes(row)
  BY <1>0, <1>4 DEF RoutingTypeOK
<1>5. ASSUME NEW row \in Decision, Writes(row),
             row.checkRun <= Len(checks[j]), Len(checks[j]) # 0 => row.status # "none",
             \/ run'[w].step \in Unrelated
             \/ row.status # "none" /\ run'[w].step \in {"preflight", "act"}
             \/ ChecksSeen(run'[w], row, checks[j])
      PROVE  ChecksInv'
  BY <1>0, <1>1, <1>2, <1>3, <1>5, WritersKeepChecks
<1> HIDE DEF Writes
<1>6. CASE Persist(w)
  <2>1. run[w].decision \in Decisions
    <3>1. run[w].step = "persist"
      BY <1>6 DEF Persist, At
    <3> QED BY <1>0, <1>1, <3>1, AttemptOKBefore DEF RoutingInv
  <2>2. PICK row : row = Refreshed(decision[j], run[w].decision)
    OBVIOUS
  <2>3. row \in Decision /\ row.checkRun = decision[j].checkRun
    BY <1>1, <2>1, <2>2, RowFacts
  <2>4. row.status # "none"
    BY <1>1, <2>2 DEF Refreshed, InitialStatus, Decision
  <2>5. decision' = [decision EXCEPT ![j] = row]
    BY <1>1, <1>6, <2>2 DEF Persist, JobOf
  <2>6. \E s \in {"finish", "preflight"} : Goto(w, s)
    BY <1>6 DEF Persist
  <2>7. run'[w].step \in {"finish", "preflight"}
    BY <1>0, <2>6, StepTaken
  <2> QED BY <1>2, <1>4, <1>5, <2>3, <2>4, <2>5, <2>7 DEF Unrelated
<1>7. ASSUME NEW c \in Nat, NEW s \in CheckState, c <= Len(checks[j]),
             decision' = [decision EXCEPT ![j] = WithCheck(decision[j], c, s)],
             \/ run'[w].step \in Unrelated
             \/ decision[j].status # "none" /\ run'[w].step \in {"preflight", "act"}
             \/ ChecksSeen(run'[w], WithCheck(decision[j], c, s), checks[j])
      PROVE  ChecksInv'
  <2>1. PICK row : row = WithCheck(decision[j], c, s)
    OBVIOUS
  <2>2. row \in Decision /\ row.status = decision[j].status
        /\ row.checkRun \in {c, decision[j].checkRun}
    BY <1>1, <1>7, <2>1, RowFacts
  <2>3. Writes(row)
    BY <1>4, <1>7, <2>1, <2>2
  <2>4. row.checkRun <= Len(checks[j])
    BY <1>2, <1>7, <2>2
  <2> QED BY <1>2, <1>5, <1>7, <2>1, <2>2, <2>3, <2>4
<1>8. CASE RecordCheck(w)
  <2>1. /\ run[w].step = "record check" /\ Goto(w, "act")
        /\ decision' = [decision EXCEPT ![j] =
                          WithCheck(decision[j], run[w].checkRun, run[w].found)]
    BY <1>0, <1>1, <1>8 DEF RecordCheck, At, JobOf, RoutingTypeOK
  <2>2. decision[j].status # "none" /\ run[w].checkRun <= Len(checks[j])
    <3>1. decision[j].status # "none" /\ run[w].checkRun \in 1 .. Len(checks[j])
      BY <1>1, <2>1, Zenon DEF ChecksSeen, ActionSteps
    <3> QED BY <1>2, <3>1
  <2>3. run'[w].step = "act"
    BY <1>0, <2>1, StepTaken
  <2> QED BY <1>2, <1>7, <2>1, <2>2, <2>3
<1>9. CASE ConcludeRow(w)
  <2>1. /\ Goto(w, "action failed")
        /\ decision' = [decision EXCEPT ![j] =
                          WithCheck(decision[j], decision[j].checkRun, "failure")]
    BY <1>0, <1>1, <1>9 DEF ConcludeRow, At, JobOf, RoutingTypeOK
  <2>2. run'[w].step \in Unrelated
    BY <1>0, <2>1, StepTaken DEF Unrelated
  <2> QED BY <1>2, <1>7, <2>1, <2>2
<1>10. CASE FailRow(w)
  <2>1. /\ run[w].step = "fail row" /\ Goto(w, "finalized")
        /\ decision' = [decision EXCEPT ![j] =
                          WithCheck(decision[j], run[w].checkRun, "failure")]
    BY <1>0, <1>1, <1>10 DEF FailRow, At, JobOf, RoutingTypeOK
  <2>2. AllFailed(checks[j]) /\ run[w].checkRun <= Len(checks[j])
    <3>1. AllFailed(checks[j]) /\ run[w].checkRun \in 1 .. Len(checks[j])
      BY <1>1, <2>1, Zenon DEF ChecksSeen
    <3> QED BY <1>2, <3>1
  <2>3. run'[w].step = "finalized"
    BY <1>0, <2>1, StepTaken
  <2>4. WithCheck(decision[j], run[w].checkRun, "failure").checkState = "failure"
    BY <1>1 DEF WithCheck, Decision
  <2>5. ChecksSeen(run'[w], WithCheck(decision[j], run[w].checkRun, "failure"), checks[j])
    BY <2>2, <2>3, <2>4 DEF ChecksSeen, ActionSteps
  <2> QED BY <1>2, <1>7, <2>1, <2>2, <2>5
<1>11. CASE ActionDone(w) \/ ActionFailed(w)
  <2>1. PICK s \in {"succeeded", "failed"} :
          decision' = [decision EXCEPT ![j] = WithStatus(decision[j], s)]
    BY <1>0, <1>1, <1>11 DEF ActionDone, ActionFailed, JobOf, RoutingTypeOK
  <2>2. PICK row : row = WithStatus(decision[j], s)
    OBVIOUS
  <2>3. row \in Decision /\ row.checkRun = decision[j].checkRun
        /\ row.status \in {s, "succeeded"}
    BY <1>1, <2>2, RowFacts DEF ActionStatus
  <2>4. Goto(w, "finish") \/ Goto(w, "caught")
    BY <1>11 DEF ActionDone, ActionFailed
  <2>5. run'[w].step \in Unrelated
    BY <1>0, <2>4, StepTaken DEF Unrelated
  <2>6. Writes(row)
    BY <1>4, <2>1, <2>2, <2>3
  <2> QED BY <1>2, <1>5, <2>3, <2>5, <2>6
<1> QED BY <1>6, <1>8, <1>9, <1>10, <1>11

\* The first run.
LEMMA FirstRun ==
  ASSUME NEW runs \in Seq(CheckState), NEW state \in CheckState, Len(runs) = 0
  PROVE  Append(runs, state) \in Seq(CheckState) /\ Len(Append(runs, state)) = 1
OBVIOUS

LEMMA RunWritersKeepChecks ==
  ASSUME OneWorker, RoutingInv, RoutingTypeOK', IInv, ChecksInv, NEW w \in Workers,
         \/ CreateCheck(w) \/ ConcludeCheck(w) \/ FailCheck(w) \/ EnqueuePolicy(w)
         \/ Act(w) \/ (\E e \in {"transient", "permanent"} : ActFails(w, e))
  PROVE  ChecksInv'
<1>0. /\ phase[w] = "executing" /\ UNCHANGED <<vars, decision>> /\ RoutingTypeOK
      /\ run \in [Workers -> Attempt]
  BY DEF CreateCheck, ConcludeCheck, FailCheck, EnqueuePolicy, Act, ActFails, At,
     RoutingInv, RoutingTypeOK
<1>1. PICK j \in Jobs :
        /\ lease[w].job = j /\ run[w] \in Attempt
        /\ decision[j] \in Decision /\ checks[j] \in Seq(CheckState)
        /\ ChecksKnown(decision[j], checks[j])
        /\ ChecksSeen(run[w], decision[j], checks[j])
  BY <1>0, ChecksFacts
<1>2. /\ run[w].checkRun \in Nat /\ decision[j].checkRun \in Nat
      /\ Len(checks[j]) \in Nat /\ Len(checks[j]) <= 1
      /\ decision[j].checkRun <= Len(checks[j])
      /\ Len(checks[j]) # 0 => decision[j].status # "none"
  BY <1>1 DEF Attempt, Decision, ChecksKnown
<1>3. decision'[j] = decision[j] /\ \A k \in Jobs \ {j} : decision'[k] = decision[k]
  BY <1>0
<1>4. ASSUME NEW runs \in Seq(CheckState), checks' = [checks EXCEPT ![j] = runs],
             Len(runs) <= 1, decision[j].checkRun <= Len(runs),
             Len(runs) # 0 => decision[j].status # "none",
             \/ run'[w].step \in Unrelated
             \/ /\ decision[j].status # "none"
                /\ run'[w].step \in {"conclude check", "conclude row", "enqueue policy"}
             \/ ChecksSeen(run'[w], decision[j], runs)
      PROVE  ChecksInv'
  <2>1. checks'[j] = runs /\ \A k \in Jobs \ {j} : checks'[k] = checks[k]
    BY <1>0, <1>4 DEF RoutingTypeOK
  <2> QED BY <1>0, <1>1, <1>3, <1>4, <2>1, WritersKeepChecks
<1>5. CASE CreateCheck(w)
  <2>1. PICK state \in CheckState : state = InitialCheck(run[w].decision)
    BY DEF InitialCheck, CheckState
  <2>2. /\ run[w].step = "create check"
        /\ checks' = [checks EXCEPT ![j] = Append(checks[j], state)]
        /\ Take(w, "record check", Len(checks[j]) + 1, state)
    BY <1>0, <1>1, <1>5, <2>1 DEF CreateCheck, At, JobOf, RoutingTypeOK
  <2>3. Len(checks[j]) = 0 /\ decision[j].status # "none"
    BY <1>1, <2>2, Zenon DEF ChecksSeen, ActionSteps
  <2>4. PICK runs \in Seq(CheckState) : runs = Append(checks[j], state) /\ Len(runs) = 1
    BY <1>1, <2>3, FirstRun, Zenon
  <2>5. "record check" \in Steps /\ Take(w, "record check", 1, state)
    <3>1. Len(checks[j]) + 1 = 1 /\ "record check" \in Steps
      BY <2>3 DEF Steps
    <3> QED BY <2>2, <3>1, Zenon
  <2>6. run'[w].step = "record check" /\ run'[w].checkRun = 1
    BY <1>0, <2>5, TakeFacts, Zenon
  <2>7. run'[w].checkRun \in 1 .. Len(runs)
    <3>1. 1 \in 1 .. 1
      OBVIOUS
    <3> QED BY <2>4, <2>6, <3>1, Zenon
  <2>8. ChecksSeen(run'[w], decision[j], runs)
    BY <2>3, <2>6, <2>7, Zenon DEF ChecksSeen
  <2>9. decision[j].checkRun <= Len(runs) /\ Len(runs) <= 1
    BY <1>2, <2>3, <2>4
  <2> QED BY <1>4, <2>2, <2>3, <2>4, <2>8, <2>9
<1>6. CASE ConcludeCheck(w) \/ FailCheck(w)
  <2>1. PICK c \in Nat : c = run[w].checkRun
    BY <1>2
  <2>2. PICK runs : runs = [checks[j] EXCEPT ![c] = "failure"]
    OBVIOUS
  <2>3. /\ runs \in Seq(CheckState) /\ Len(runs) = Len(checks[j])
        /\ c \in 1 .. Len(checks[j]) => AllFailed(runs)
    BY <1>1, <1>2, <2>2, FailedRuns, OnlyRunFails
  <2>4. checks' = [checks EXCEPT ![j] = runs]
    BY <1>0, <1>1, <1>6, <2>1, <2>2 DEF ConcludeCheck, FailCheck, JobOf, RoutingTypeOK
  <2>5. CASE ConcludeCheck(w)
    <3>1. run[w].step = "conclude check" /\ Goto(w, "conclude row")
      BY <2>5 DEF ConcludeCheck, At
    <3>2. decision[j].status # "none"
      BY <1>1, <3>1 DEF ChecksSeen, ActionSteps
    <3>3. run'[w].step = "conclude row"
      BY <1>0, <3>1, StepTaken
    <3> QED BY <1>2, <1>4, <2>3, <2>4, <3>2, <3>3
  <2>6. CASE FailCheck(w)
    <3>1. run[w].step = "fail check" /\ Goto(w, "fail row")
      BY <2>6 DEF FailCheck, At
    <3>2. c \in 1 .. Len(checks[j])
      BY <1>1, <2>1, <3>1 DEF ChecksSeen
    <3>3. "fail row" \in Steps
      BY DEF Steps
    <3>4. run'[w].step = "fail row" /\ run'[w].checkRun = c
      BY <1>0, <2>1, <3>1, <3>3, GotoFacts
    <3>5. ChecksSeen(run'[w], decision[j], runs)
      BY <2>3, <3>2, <3>4 DEF ChecksSeen, ActionSteps
    <3> QED BY <1>2, <1>4, <2>3, <2>4, <3>5
  <2> QED BY <1>6, <2>5, <2>6
<1>7. CASE EnqueuePolicy(w) \/ Act(w) \/ (\E e \in {"transient", "permanent"} : ActFails(w, e))
  <2>1. decision[j].status # "none"
    BY <1>1, <1>7 DEF EnqueuePolicy, Act, ActFails, At, ChecksSeen, ActionSteps
  <2>2. checks' = checks
    BY <1>7 DEF EnqueuePolicy, Act, ActFails
  <2>3. checks' = [checks EXCEPT ![j] = checks[j]]
    BY <1>0, <2>2 DEF RoutingTypeOK
  <2>4. AfterActions(run[w].decision) \in {"enqueue policy", "action done", "finish"}
    BY DEF AfterActions
  <2>5. \E s \in {"enqueue policy", "action done", "finish", "conclude check",
                  "action failed"} : Goto(w, s) \/ \E e : Raise(w, s, e)
    BY <1>7, <2>4 DEF EnqueuePolicy, Act, ActFails
  <2>6. run'[w].step \in {"enqueue policy", "action done", "finish", "conclude check",
                          "action failed"}
    BY <1>0, <2>5, StepTaken
  <2> QED BY <1>1, <1>2, <1>4, <2>1, <2>3, <2>6 DEF Unrelated
<1> QED BY <1>5, <1>6, <1>7

LEMMA ChecksStep ==
  ASSUME OneWorker, RoutingInv, RoutingInv', IInv, ChecksInv, [RoutingNext]_routingVars
  PROVE  ChecksInv'
<1>0. RoutingTypeOK /\ RoutingTypeOK'
  BY DEF RoutingInv
<1>1. ASSUME NEW w \in Workers, AttemptStep(w) \/ Throw(w) PROVE ChecksInv'
  BY <1>0, <1>1, ReadingKeepsChecks, RowWritersKeepChecks, RunWritersKeepChecks
     DEF AttemptStep
<1>2. ASSUME UNCHANGED <<decision, checks>>,
             \A w \in Workers : phase'[w] = "executing" =>
               \/ phase[w] = "executing" /\ run'[w] = run[w] /\ lease'[w] = lease[w]
               \/ run'[w] \in Attempt /\ run'[w].step \in Unrelated
      PROVE  ChecksInv'
  <2>1. ASSUME NEW w \in Workers, phase'[w] = "executing"
        PROVE  ChecksSeen(run'[w], decision'[lease'[w].job], checks'[lease'[w].job])
    <3>1. CASE phase[w] = "executing" /\ run'[w] = run[w] /\ lease'[w] = lease[w]
      BY <1>2, <3>1 DEF ChecksInv, JobOf
    <3>2. CASE run'[w] \in Attempt /\ run'[w].step \in Unrelated
      BY <3>2, UnrelatedIsSeen
    <3> QED BY <1>2, <2>1, <3>1, <3>2
  <2>2. \A j \in Jobs : ChecksKnown(decision'[j], checks'[j])
    BY <1>2 DEF ChecksInv
  <2> QED BY <2>1, <2>2 DEF ChecksInv, JobOf
<1>3. ASSUME NEW w \in Workers, SettleAttempt(w) \/ Crash(w) PROVE ChecksInv'
  <2>1. /\ UNCHANGED <<decision, checks>> /\ phase' = [phase EXCEPT ![w] = "idle"]
        /\ \A v \in Workers : v = w
    BY <1>0, <1>3, SettlingIsLocal DEF OneWorker
  <2>2. \A v \in Workers : phase'[v] # "executing"
    BY <2>1 DEF IInv, TypeOK
  <2> QED BY <1>2, <2>1, <2>2
<1>4. ASSUME NEW w \in Workers, NEW j \in Jobs, Claim(w, j) PROVE ChecksInv'
  <2>1. /\ run' = [run EXCEPT ![w] = [NoAttempt EXCEPT !.step = FirstStep(j)]]
        /\ UNCHANGED <<decision, checks>> /\ \A v \in Workers : v = w
    BY <1>4 DEF Claim, routing, OneWorker
  <2>2. run'[w].step \in Unrelated
    <3>1. run'[w].step = FirstStep(j)
      BY <1>0, <2>1 DEF RoutingTypeOK, NoAttempt
    <3> QED BY <3>1 DEF FirstStep, Unrelated
  <2>3. run'[w] \in Attempt
    BY <1>0 DEF RoutingTypeOK
  <2> QED BY <1>2, <2>1, <2>2, <2>3
<1>5. CASE QueueStep \/ (\E j \in Jobs : HeadMoves(j)) \/ UNCHANGED routingVars
  <2>1. run' = run /\ lease' = lease /\ UNCHANGED <<decision, checks>>
    BY <1>5 DEF QueueStep, HeadMoves, Enqueue, BecomeDue, BecomeStale, SweepStep, BeginSweep,
       SweepExhaust, SweepError, SweepRequeue, NoJobClaimed, vars, routingVars, routing
  <2>2. \A w \in Workers : phase'[w] = "executing" => phase[w] = "executing"
    BY <1>0, <2>1 DEF RoutingTypeOK
  <2> QED BY <1>2, <2>1, <2>2
<1> QED BY <1>1, <1>3, <1>4, <1>5 DEF RoutingNext

\* With one worker: what an attempt has found of its check runs is still so when
\* it uses it.
THEOREM ChecksInvariant == OneWorker => (RoutingSpec => []ChecksInv)
<1> SUFFICES ASSUME OneWorker PROVE RoutingSpec => []ChecksInv
  OBVIOUS
<1>1. RoutingInit => ChecksInv
  BY DEF RoutingInit, Init, ChecksInv, ChecksKnown
<1>2. RoutingInv /\ RoutingInv' /\ IInv /\ ChecksInv /\ [RoutingNext]_routingVars => ChecksInv'
  BY ChecksStep
<1> QED BY <1>1, <1>2, RunnerInvariant, RunnerKeepsQueueInvariant, PTL DEF RoutingSpec

\* A crash between the creation of a run and its recording leads to no second run.
THEOREM RunnerOpensOneCheck == OneWorker => (RoutingSpec => []OneCheckRun)
<1>1. ChecksInv => OneCheckRun
  BY DEF ChecksInv, ChecksKnown, OneCheckRun
<1> QED BY <1>1, ChecksInvariant, PTL

\* A finalization that ends a job has failed its check, on GitHub and on record.
THEOREM RunnerFailsFinalizedChecks == OneWorker => (RoutingSpec => FinalizedChecksFailed)
<1> SUFFICES ASSUME OneWorker PROVE RoutingSpec => FinalizedChecksFailed
  OBVIOUS
<1>1. RoutingInv /\ IInv /\ ChecksInv /\ [RoutingNext]_routingVars =>
        [\A j \in Jobs : \A w \in Workers :
           FailedBy(w, j) /\ run[w].step = "finalized"
             => \A i \in 1 .. Len(checks[j]) :
                  checks[j][i] = "failure" /\ decision[j].checkState = "failure"]_routingVars
  <2> SUFFICES ASSUME RoutingInv, IInv, ChecksInv, NEW j \in Jobs, NEW w \in Workers,
                      FailedBy(w, j), run[w].step = "finalized"
               PROVE  \A i \in 1 .. Len(checks[j]) :
                        checks[j][i] = "failure" /\ decision[j].checkState = "failure"
    OBVIOUS
  <2>1. phase[w] = "executing" /\ lease[w].job = j
    BY DEF RoutingInv, RoutingTypeOK, FailedBy, Owns
  <2>2. ChecksSeen(run[w], decision[j], checks[j])
    BY <2>1 DEF ChecksInv, JobOf
  <2>3. checks[j] \in Seq(CheckState)
    BY DEF RoutingInv, RoutingTypeOK
  <2> QED BY <2>2, <2>3 DEF ChecksSeen, AllFailed
<1> QED
  BY <1>1, ChecksInvariant, RunnerInvariant, RunnerKeepsQueueInvariant, PTL
     DEF RoutingSpec, FinalizedChecksFailed
=============================================================================
