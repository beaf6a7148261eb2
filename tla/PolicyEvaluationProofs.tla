----------------------- MODULE PolicyEvaluationProofs -----------------------
(***************************************************************************)
(* What the policy keeps with any number of workers, heads and reviews:    *)
(* its types, the finality of a recorded failure, and the job queue's      *)
(* promises.  An attempt writes a row only for a decision it has found.    *)
(*                                                                         *)
(* Then what it keeps with a single worker, which is what the deployment   *)
(* runs: no replaced run is left open, a failure that GitHub shows stays,  *)
(* and the check of a pull request that moves forward is what its reviews  *)
(* say once they are all evaluated.                                        *)
(***************************************************************************)
EXTENDS PolicyEvaluation, SequenceTheorems, TLAPS

\* Steps of a routing job before it has a decision.
Undecided == {"read head", "persist decision"}

\* Steps of an attempt that works on a decision.
Deciding ==
  {"preflight", "ensure check", "record opened check", "act", "conclude check", "conclude row",
   "enqueue evaluation", "mark succeeded", "mark failed",
   "fetch state", "fetch reviews", "fetch state again", "find check",
   "create check", "update check", "record check", "record failure", "persist state",
   "find failed check", "fail check", "record failed check"}

AttemptOK(a) ==
  /\ a \in Attempt
  /\ a.step = "none" <=> a.job = NoJob
  /\ a.step \in Undecided => \E h \in Heads : a.job = RoutingJob(h)
  /\ a.step \in Deciding \/ a.chosen => a.decision \in Heads

AttemptsOK ==
  /\ attempt \in [Workers -> Attempt]
  /\ \A w \in Workers : AttemptOK(attempt[w])

DataOK ==
  /\ pr \in [open : BOOLEAN, head : Heads, approved : BOOLEAN]
  /\ decided \in Seq(Heads)
  /\ succeeded \in SUBSET Heads
  /\ row \in [Heads -> Row]
  /\ checks \in [Heads -> Seq(CheckState)]
  /\ recovery \in [Jobs -> Recovery]

JobRow ==
  [status : {"absent", "queued", "running", "succeeded", "failed"},
   attempt : Nat, max : 1 .. AttemptCap, holder : Workers \cup {Nobody}]

JobOK == job \in [Jobs -> JobRow]

PolicyInv == JobOK /\ DataOK /\ AttemptsOK

FailuresStay == \A h \in Heads : row[h].state = "failure" => row'[h].state = "failure"

\* What every step does.
StepOK == [Next]_job /\ DataOK' /\ AttemptsOK' /\ FailuresStay

-----------------------------------------------------------------------------
(* The ways an attempt changes.                                            *)

\* One attempt gets another value.
LEMMA AttemptChange ==
  ASSUME AttemptsOK, NEW w \in Workers, NEW a, AttemptOK(a),
         attempt' = [attempt EXCEPT ![w] = a]
  PROVE  AttemptsOK'
<1>1. a \in Attempt
  BY DEF AttemptOK
<1>2. attempt' \in [Workers -> Attempt]
  BY <1>1 DEF AttemptsOK
<1>3. \A v \in Workers : AttemptOK(attempt'[v])
  BY DEF AttemptsOK
<1>4. \A v \in Workers : AttemptOK(attempt[v])'
  BY <1>3 DEF AttemptOK
<1> QED
  BY <1>2, <1>4 DEF AttemptsOK

\* The attempt of a worker that is executing a job.
LEMMA Executing ==
  ASSUME AttemptsOK, NEW w \in Workers, attempt[w].step # "none"
  PROVE  /\ attempt[w] \in Attempt /\ AttemptOK(attempt[w])
         /\ JobOf(w) \in Jobs /\ JobOf(w) # NoJob
         /\ attempt[w].step \in Deciding => HeadOf(w) \in Heads
         /\ attempt[w].chosen => HeadOf(w) \in Heads
BY DEF AttemptsOK, AttemptOK, Attempt, JobOf, HeadOf

\* An idle worker.
LEMMA NoAttemptOK == AttemptOK(NoAttempt)
<1>1. NoAttempt \in Attempt
  BY DEF NoAttempt, Attempt, CheckState, Unread, Row
<1> QED
  BY <1>1 DEF NoAttempt, AttemptOK, Undecided, Deciding

\* A record of an attempt with another step.
LEMMA StepChange ==
  ASSUME NEW a \in Attempt, NEW step \in Steps \cup {"none"}
  PROVE  LET b == [a EXCEPT !.step = step] IN
         /\ b \in Attempt /\ b.step = step /\ b.job = a.job /\ b.decision = a.decision
         /\ b.chosen = a.chosen /\ b.seen = a.seen /\ b.verdict = a.verdict
         /\ b.run = a.run /\ b.error = a.error
BY DEF Attempt

\* ... and with another run and verdict.
LEMMA RunChange ==
  ASSUME NEW a \in Attempt, NEW run \in Nat, NEW verdict \in CheckState
  PROVE  LET b == [[a EXCEPT !.run = run] EXCEPT !.verdict = verdict] IN
         /\ b \in Attempt /\ b.step = a.step /\ b.job = a.job /\ b.decision = a.decision
         /\ b.chosen = a.chosen
BY DEF Attempt

\* Goto: a decided step needs a decision, an undecided one comes after another.
LEMMA GotoOK ==
  ASSUME AttemptsOK, NEW w \in Workers, attempt[w].step # "none", NEW step \in Steps,
         step \in Undecided => attempt[w].step \in Undecided,
         step \in Deciding => HeadOf(w) \in Heads, Goto(w, step)
  PROVE  AttemptsOK'
<1> DEFINE a == attempt[w]
           b == [a EXCEPT !.step = step]
<1>1. a \in Attempt /\ AttemptOK(a) /\ a.job # NoJob
  BY Executing DEF JobOf
<1>2. b \in Attempt /\ b.step = step /\ b.job = a.job /\ b.decision = a.decision
      /\ b.chosen = a.chosen
  BY <1>1, StepChange
<1>3. attempt' = [attempt EXCEPT ![w] = b]
  BY DEF Goto, AttemptsOK
<1>4. a.decision = HeadOf(w) /\ step # "none"
  BY DEF HeadOf, Steps
<1> HIDE DEF b
<1>5. AttemptOK(b)
  <2> HIDE DEF a
  <2>1. a.chosen => a.decision \in Heads
    BY <1>1 DEF AttemptOK
  <2>2. step \in Undecided => \E h \in Heads : a.job = RoutingJob(h)
    BY <1>1 DEF AttemptOK, a
  <2> QED
    BY <1>1, <1>2, <1>4, <2>1, <2>2 DEF AttemptOK
<1> QED
  BY <1>3, <1>5, AttemptChange

\* Take: the same with a check run.
LEMMA TakeOK ==
  ASSUME AttemptsOK, NEW w \in Workers, attempt[w].step \in Deciding,
         NEW step \in Steps \ Undecided, NEW run \in Nat, NEW verdict \in CheckState,
         attempt' = [attempt EXCEPT ![w] = [@ EXCEPT !.step = step, !.run = run,
                                                     !.verdict = verdict]]
  PROVE  AttemptsOK'
<1> DEFINE a == attempt[w]
           b == [a EXCEPT !.step = step]
           c == [[b EXCEPT !.run = run] EXCEPT !.verdict = verdict]
<1>0. attempt[w].step # "none"
  BY DEF Deciding
<1>1. a \in Attempt /\ AttemptOK(a) /\ a.job # NoJob /\ a.decision \in Heads /\ step # "none"
  BY <1>0, Executing DEF JobOf, HeadOf, Steps
<1>2. b \in Attempt /\ b.step = step /\ b.job = a.job /\ b.decision = a.decision
  BY <1>1, StepChange
<1>3. attempt' = [attempt EXCEPT ![w] = c]
  BY DEF AttemptsOK
<1> HIDE DEF a, b
<1>4. c \in Attempt /\ c.step = b.step /\ c.job = b.job /\ c.decision = b.decision
  BY <1>2, RunChange
<1> HIDE DEF c
<1>5. AttemptOK(c)
  BY <1>1, <1>2, <1>4 DEF AttemptOK
<1> QED
  BY <1>3, <1>5, AttemptChange

\* Take as it is written: the verdict stays.
LEMMA TakeRunOK ==
  ASSUME AttemptsOK, NEW w \in Workers, attempt[w].step \in Deciding,
         NEW step \in Steps \ Undecided, NEW run \in Nat, Take(w, step, run)
  PROVE  AttemptsOK'
<1> DEFINE a == attempt[w]
           b == [a EXCEPT !.step = step]
           c == [b EXCEPT !.run = run]
<1>0. attempt[w].step # "none"
  BY DEF Deciding
<1>1. a \in Attempt /\ AttemptOK(a) /\ a.job # NoJob /\ a.decision \in Heads /\ step # "none"
  BY <1>0, Executing DEF JobOf, HeadOf, Steps
<1>2. b \in Attempt /\ b.step = step /\ b.job = a.job /\ b.decision = a.decision
  BY <1>1, StepChange
<1>3. attempt' = [attempt EXCEPT ![w] = c]
  BY DEF AttemptsOK, Take
<1> HIDE DEF a, b
<1>4. c \in Attempt /\ c.step = b.step /\ c.job = b.job /\ c.decision = b.decision
  BY <1>2 DEF Attempt
<1> HIDE DEF c
<1>5. AttemptOK(c)
  BY <1>1, <1>2, <1>4 DEF AttemptOK
<1> QED
  BY <1>3, <1>5, AttemptChange

\* Leave: only the job, the decision and its choice are remembered.
LEMMA LeaveOK ==
  ASSUME AttemptsOK, NEW w \in Workers, attempt[w].step # "none",
         NEW step \in {"caught", "recovery failed"}, NEW error \in {"transient", "permanent"},
         Leave(w, step, error)
  PROVE  AttemptsOK'
<1> DEFINE a == attempt[w]
           b1 == [NoAttempt EXCEPT !.step = step]
           b2 == [b1 EXCEPT !.error = error]
           b3 == [b2 EXCEPT !.job = JobOf(w)]
           b4 == [b3 EXCEPT !.decision = HeadOf(w)]
           b == [b4 EXCEPT !.chosen = attempt[w].chosen]
<1>1. a \in Attempt /\ AttemptOK(a) /\ JobOf(w) \in Jobs /\ JobOf(w) # NoJob
      /\ HeadOf(w) \in Heads \cup {NoHead} /\ a.chosen \in BOOLEAN
      /\ (a.chosen => HeadOf(w) \in Heads)
  BY Executing DEF Attempt, HeadOf
<1>2. attempt' = [attempt EXCEPT ![w] = b]
  BY DEF Leave
<1> HIDE DEF b
<1>3. b \in Attempt /\ b.step = step /\ b.job = JobOf(w) /\ b.decision = HeadOf(w)
      /\ b.chosen = a.chosen
  <2> HIDE DEF b1, b2, b3, b4
  <2>1. NoAttempt \in Attempt /\ step \in Steps
    BY NoAttemptOK DEF AttemptOK, Steps
  <2>2. b1 \in Attempt /\ b1.step = step
    BY <2>1 DEF b1, Attempt
  <2>3. b2 \in Attempt /\ b2.step = step
    BY <2>2 DEF b2, Attempt
  <2>4. b3 \in Attempt /\ b3.step = step /\ b3.job = JobOf(w)
    BY <1>1, <2>3 DEF b3, Attempt
  <2>5. b4 \in Attempt /\ b4.step = step /\ b4.job = JobOf(w) /\ b4.decision = HeadOf(w)
    BY <1>1, <2>4 DEF b4, Attempt
  <2> QED
    BY <1>1, <2>5 DEF b, Attempt
<1> HIDE DEF a
<1>4. AttemptOK(b)
  BY <1>1, <1>3 DEF AttemptOK, Undecided, Deciding
<1> QED
  BY <1>2, <1>4, AttemptChange

\* An attempt that ends.
LEMMA DoneOK ==
  ASSUME AttemptsOK, NEW w \in Workers, Done(w)
  PROVE  AttemptsOK'
BY NoAttemptOK, AttemptChange DEF Done

\* A decision that an attempt begins to work on.
LEMMA DecideOK ==
  ASSUME AttemptsOK, NEW w \in Workers, attempt[w].step # "none", NEW step \in Steps \ Undecided,
         NEW h \in Heads, NEW seen \in Row, NEW chosen \in BOOLEAN,
         attempt' = [attempt EXCEPT ![w] = [@ EXCEPT !.step = step, !.decision = h,
                                                     !.seen = seen, !.chosen = chosen]]
  PROVE  AttemptsOK'
<1> DEFINE a == attempt[w]
           b == [a EXCEPT !.step = step]
           c == [[[b EXCEPT !.decision = h] EXCEPT !.seen = seen] EXCEPT !.chosen = chosen]
<1>1. a \in Attempt /\ AttemptOK(a) /\ a.job # NoJob /\ step # "none"
  BY Executing DEF JobOf, Steps
<1>2. b \in Attempt /\ b.step = step /\ b.job = a.job
  BY <1>1, StepChange
<1>3. attempt' = [attempt EXCEPT ![w] = c]
  BY DEF AttemptsOK
<1> HIDE DEF a, b
<1>4. c \in Attempt /\ c.step = b.step /\ c.job = b.job /\ c.decision = h
  BY <1>2 DEF Attempt
<1> HIDE DEF c
<1>5. AttemptOK(c)
  BY <1>1, <1>2, <1>4 DEF AttemptOK
<1> QED
  BY <1>3, <1>5, AttemptChange

\* Attempts that work on a decision, and take a step that does.
LEMMA WorkOK ==
  ASSUME AttemptsOK, NEW w \in Workers, attempt[w].step # "none", NEW b \in Attempt,
         b.job = JobOf(w), b.step \in Steps \ Undecided, b.decision \in Heads,
         attempt' = [attempt EXCEPT ![w] = b]
  PROVE  AttemptsOK'
<1>1. b.job # NoJob /\ b.step # "none"
  BY Executing DEF Steps
<1>2. AttemptOK(b)
  BY <1>1 DEF AttemptOK
<1> QED
  BY <1>2, AttemptChange

\* Goto between two steps that need a decision, or to one that needs none.
LEMMA ProceedOK ==
  ASSUME AttemptsOK, NEW w \in Workers, attempt[w].step \in Deciding,
         NEW step \in Steps \ Undecided, Goto(w, step)
  PROVE  AttemptsOK'
<1>1. attempt[w].step # "none"
  BY DEF Deciding
<1>2. HeadOf(w) \in Heads
  BY <1>1, Executing
<1> QED
  BY <1>1, <1>2, GotoOK

\* The decision of a routing job.
LEMMA PersistOK ==
  ASSUME AttemptsOK, NEW w \in Workers, attempt[w].step # "none",
         NEW step \in Steps \ Undecided, NEW h \in Heads,
         attempt' = [attempt EXCEPT ![w] = [@ EXCEPT !.step = step, !.decision = h]]
  PROVE  AttemptsOK'
<1> DEFINE a == attempt[w]
           b == [a EXCEPT !.step = step]
           c == [b EXCEPT !.decision = h]
<1>1. a \in Attempt /\ a.job = JobOf(w)
  BY Executing DEF JobOf
<1>2. b \in Attempt /\ b.step = step /\ b.job = a.job
  BY <1>1, StepChange
<1>3. attempt' = [attempt EXCEPT ![w] = c]
  BY DEF AttemptsOK
<1> HIDE DEF a, b
<1>4. c \in Attempt /\ c.step = step /\ c.job = b.job /\ c.decision = h
  BY <1>2 DEF Attempt
<1> HIDE DEF c
<1> QED
  BY <1>1, <1>2, <1>3, <1>4, WorkOK

\* The verdict of an evaluation.
LEMMA VerdictOK ==
  ASSUME AttemptsOK, NEW w \in Workers, attempt[w].step \in Deciding,
         NEW step \in Steps \ Undecided, NEW verdict \in CheckState,
         attempt' = [attempt EXCEPT ![w] = [@ EXCEPT !.verdict = verdict, !.step = step]]
  PROVE  AttemptsOK'
<1> DEFINE a == attempt[w]
           b == [a EXCEPT !.verdict = verdict]
           c == [b EXCEPT !.step = step]
<1>0. a.step # "none"
  BY DEF Deciding
<1>1. a \in Attempt /\ a.job = JobOf(w) /\ a.decision \in Heads
  BY <1>0, Executing DEF JobOf, HeadOf
<1>3. attempt' = [attempt EXCEPT ![w] = c]
  BY DEF AttemptsOK
<1> HIDE DEF b
<1>2. b \in Attempt /\ b.job = a.job /\ b.decision = a.decision
  <2> HIDE DEF a
  <2> QED
    BY <1>1 DEF b, Attempt
<1>4. c \in Attempt /\ c.step = step /\ c.job = b.job /\ c.decision = b.decision
  BY <1>2 DEF Attempt
<1> HIDE DEF a, c
<1>5. c.job = JobOf(w) /\ c.decision \in Heads /\ c.step \in Steps \ Undecided
  BY <1>1, <1>2, <1>4, Zenon
<1>6. attempt[w].step # "none"
  BY DEF Deciding
<1> QED
  BY <1>3, <1>4, <1>5, <1>6, WorkOK, Zenon

\* An action on the pull request that fails for good.
LEMMA ActionFailsOK ==
  ASSUME AttemptsOK, NEW w \in Workers, attempt[w].step \in Deciding,
         NEW step \in Steps \ Undecided,
         attempt' = [attempt EXCEPT ![w] = [@ EXCEPT !.step = step, !.error = "permanent"]]
  PROVE  AttemptsOK'
<1> DEFINE a == attempt[w]
           b == [a EXCEPT !.step = step]
           c == [b EXCEPT !.error = "permanent"]
<1>0. a.step # "none"
  BY DEF Deciding
<1>1. a \in Attempt /\ a.job = JobOf(w) /\ a.decision \in Heads
  BY <1>0, Executing DEF JobOf, HeadOf
<1>2. b \in Attempt /\ b.step = step /\ b.job = a.job /\ b.decision = a.decision
  BY <1>1, StepChange
<1>3. attempt' = [attempt EXCEPT ![w] = c]
  BY DEF AttemptsOK
<1> HIDE DEF b
<1>4. c \in Attempt /\ c.step = b.step /\ c.job = b.job /\ c.decision = b.decision
  BY <1>2 DEF Attempt
<1> HIDE DEF c
<1> QED
  BY <1>0, <1>1, <1>2, <1>3, <1>4, WorkOK

-----------------------------------------------------------------------------
(* The ways the rows and the jobs change.                                  *)

\* A row that is written keeps its type, and its failure.
LEMMA WriteOK ==
  ASSUME DataOK, NEW h \in Heads, NEW run \in Nat, NEW state \in CheckState,
         row' = [row EXCEPT ![h] = WithCheck(row[h], run, state)]
  PROVE  row' \in [Heads -> Row] /\ FailuresStay
<1>1. row[h] \in Row /\ [run |-> run, state |-> state] \in Row
  BY DEF DataOK, Row
<1>2. WithCheck(row[h], run, state) \in Row
      /\ (row[h].state = "failure" => WithCheck(row[h], run, state) = row[h])
  BY <1>1 DEF WithCheck
<1> HIDE DEF WithCheck
<1> QED
  BY <1>2 DEF DataOK, FailuresStay

\* A check run that is completed.
LEMMA CompleteOK ==
  ASSUME DataOK, NEW h \in Heads, NEW run, NEW state \in CheckState,
         checks' = [checks EXCEPT ![h][run] = state]
  PROVE  checks' \in [Heads -> Seq(CheckState)]
<1>1. checks[h] \in Seq(CheckState)
  BY DEF DataOK
<1> DEFINE old == checks[h]
           new == [old EXCEPT ![run] = state]
<1>2. checks' = [checks EXCEPT ![h] = new]
  BY DEF DataOK
<1> HIDE DEF old
<1>3. new \in Seq(CheckState)
  <2>1. old \in [1 .. Len(old) -> CheckState] /\ Len(old) \in Nat
    BY <1>1, LenProperties DEF old
  <2>2. new \in [1 .. Len(old) -> CheckState]
    BY <2>1
  <2> HIDE DEF new
  <2> QED
    BY <2>1, <2>2, SeqDef
<1> HIDE DEF new
<1> QED
  BY <1>2, <1>3 DEF DataOK

\* The newest run of a decision.
LEMMA NewestIs ==
  ASSUME DataOK, NEW h \in Heads
  PROVE  /\ Newest(h) \in Nat
         /\ checks[h] # <<>> => NewestState(h) \in CheckState
         /\ Newest(h) # 0 => checks[h] # <<>>
<1>1. checks[h] \in Seq(CheckState)
  BY DEF DataOK
<1> QED
  BY <1>1 DEF Newest, NewestState

\* A job that an event or a routing inserts.
LEMMA AcceptOK ==
  ASSUME NEW j \in Jobs, Accept(j) \/ Submit(j)
  PROVE  [Next]_job
BY DEF Accept, Next

\* A job that its holder settles.
LEMMA SettleOK ==
  ASSUME JobOK, NEW w \in Workers, NEW j \in Jobs, NEW retryable \in BOOLEAN,
         MarkFailed(w, retryable), JobOf(w) = j
  PROVE  [Next]_job
<1>1. CASE Conclude(w, j, "failed")
  BY <1>1 DEF Next
<1>2. CASE GiveBack(w, j, job[j].max)
  <2>1. job[j].max \in 1 .. AttemptCap
    BY DEF JobOK, JobRow
  <2> QED
    BY <1>2, <2>1 DEF Next
<1> QED
  BY <1>1, <1>2 DEF MarkFailed

\* The queue's steps keep its types.
LEMMA JobOKKept ==
  ASSUME JobOK, [Next]_job
  PROVE  JobOK'
<1>1. ASSUME NEW j \in Jobs, Submit(j) PROVE JobOK'
  <2>1. [job[j] EXCEPT !.status = "queued"] \in JobRow
    BY DEF JobOK, JobRow
  <2> QED
    BY <1>1, <2>1 DEF Submit, JobOK
<1>2. ASSUME NEW j \in Jobs, Vanish(j) PROVE JobOK'
  <2>1. [job[j] EXCEPT !.holder = Nobody] \in JobRow
    BY DEF JobOK, JobRow
  <2> QED
    BY <1>2, <2>1 DEF Vanish, JobOK
<1>3. ASSUME NEW j \in Jobs, NEW w \in Workers, Acquire(w, j) PROVE JobOK'
  <2> DEFINE r == [job[j] EXCEPT !.status = "running", !.holder = w, !.attempt = @ + 1]
  <2>1. r \in JobRow
    <3> DEFINE old == job[j]
               r1 == [old EXCEPT !.status = "running"]
               r2 == [r1 EXCEPT !.holder = w]
    <3>1. old \in JobRow
      BY DEF JobOK
    <3>2. r = [r2 EXCEPT !.attempt = old.attempt + 1]
      BY <3>1 DEF JobRow
    <3> HIDE DEF old, r1, r2, r
    <3>3. r1 \in JobRow
      BY <3>1 DEF r1, JobRow
    <3>4. r2 \in JobRow
      BY <3>3 DEF r2, JobRow
    <3>5. old.attempt + 1 \in Nat
      BY <3>1 DEF JobRow
    <3> QED
      BY <3>2, <3>4, <3>5 DEF JobRow
  <2>2. job' = [job EXCEPT ![j] = r]
    BY <1>3 DEF Acquire, JobOK
  <2> HIDE DEF r
  <2> QED
    BY <2>1, <2>2 DEF JobOK
<1>4. ASSUME NEW j \in Jobs, NEW w \in Workers, NEW outcome \in {"succeeded", "failed"},
             Conclude(w, j, outcome)
      PROVE  JobOK'
  <2> DEFINE r == [job[j] EXCEPT !.status = outcome, !.holder = Nobody]
  <2>1. r \in JobRow
    BY DEF JobOK, JobRow
  <2>2. job' = [job EXCEPT ![j] = r]
    BY <1>4 DEF Conclude, JobOK
  <2> HIDE DEF r
  <2> QED
    BY <2>1, <2>2 DEF JobOK
<1>5. ASSUME NEW j \in Jobs, NEW w \in Workers, NEW max \in 1 .. AttemptCap, GiveBack(w, j, max)
      PROVE  JobOK'
  <2> DEFINE r == [job[j] EXCEPT !.status = "queued", !.holder = Nobody, !.max = max]
  <2>1. r \in JobRow
    BY DEF JobOK, JobRow
  <2>2. job' = [job EXCEPT ![j] = r]
    BY <1>5 DEF GiveBack, JobOK
  <2> HIDE DEF r
  <2> QED
    BY <2>1, <2>2 DEF JobOK
<1>6. ASSUME NEW S \in SUBSET Jobs, Expire(S) PROVE JobOK'
  <2> DEFINE r(j) == [job[j] EXCEPT !.holder = Nobody,
                        !.status = IF job[j].attempt < job[j].max THEN "queued" ELSE "failed"]
  <2>1. \A j \in Jobs : r(j) \in JobRow
    BY DEF JobOK, JobRow
  <2>2. job' = [j \in Jobs |-> IF j \in S THEN r(j) ELSE job[j]]
    BY <1>6 DEF Expire
  <2> HIDE DEF r
  <2> QED
    BY <2>1, <2>2 DEF JobOK
<1>7. CASE UNCHANGED job
  BY <1>7 DEF JobOK
<1> QED
  BY <1>1, <1>2, <1>3, <1>4, <1>5, <1>6, <1>7 DEF Next

\* What is written when nothing is.
LEMMA SameData ==
  ASSUME DataOK, UNCHANGED <<github, database>>
  PROVE  DataOK' /\ FailuresStay
BY DEF DataOK, FailuresStay, github, database

\* A row is written and nothing else.
LEMMA RowChange ==
  ASSUME DataOK, NEW h \in Heads, NEW run \in Nat, NEW state \in CheckState,
         row' = [row EXCEPT ![h] = WithCheck(@, run, state)],
         UNCHANGED <<github, decided, succeeded, recovery>>
  PROVE  DataOK' /\ FailuresStay
<1>1. row' = [row EXCEPT ![h] = WithCheck(row[h], run, state)]
  BY DEF DataOK
<1>2. row' \in [Heads -> Row] /\ FailuresStay
  BY <1>1, WriteOK
<1> QED
  BY <1>2 DEF DataOK, github

\* A row is written with the run on record.
LEMMA RowStateChange ==
  ASSUME DataOK, NEW h \in Heads, NEW state \in CheckState,
         row' = [row EXCEPT ![h] = WithCheck(@, @.run, state)],
         UNCHANGED <<github, decided, succeeded, recovery>>
  PROVE  DataOK' /\ FailuresStay
<1>1. row[h].run \in Nat
  BY DEF DataOK, Row
<1>2. row' = [row EXCEPT ![h] = WithCheck(row[h], row[h].run, state)]
  BY DEF DataOK
<1>3. row' \in [Heads -> Row] /\ FailuresStay
  BY <1>1, <1>2, WriteOK
<1> QED
  BY <1>3 DEF DataOK, github

\* The check runs change and nothing else.
LEMMA ChecksChange ==
  ASSUME DataOK, checks' \in [Heads -> Seq(CheckState)], UNCHANGED <<pr, database>>
  PROVE  DataOK' /\ FailuresStay
BY DEF DataOK, FailuresStay, database

-----------------------------------------------------------------------------
(* Every step                                                              *)

\* Pushes and reviews insert jobs.
LEMMA GitHubStepOK ==
  ASSUME PolicyInv, GitHubStep
  PROVE  StepOK
<1>1. AttemptsOK'
  BY DEF PolicyInv, GitHubStep, Opened, Close, Reopen, Push, Review, AttemptsOK, AttemptOK
<1>2. DataOK' /\ FailuresStay
  BY DEF PolicyInv, DataOK, FailuresStay, GitHubStep, Opened, Close, Reopen, Push, Review,
         github, database
<1>3. \A h \in Heads : RoutingJob(h) \in Jobs
  BY PolicyAssumption
<1>4. \A r \in Reviews : EvaluationJob(r) \in Jobs
  BY PolicyAssumption
<1>5. [Next]_job
  <2>1. pr.head \in Heads
    BY DEF PolicyInv, DataOK
  <2>2. CASE Opened
    BY <1>3, <2>1, <2>2, AcceptOK DEF Opened
  <2>3. CASE Close
    BY <2>3 DEF Close
  <2>4. CASE Reopen
    BY <1>3, <2>1, <2>4, AcceptOK DEF Reopen
  <2>5. ASSUME NEW h \in Heads, Push(h) PROVE [Next]_job
    BY <1>3, <2>5, AcceptOK DEF Push
  <2>6. ASSUME NEW r \in Reviews, NEW approved \in BOOLEAN, Review(r, approved) PROVE [Next]_job
    BY <1>4, <2>6, AcceptOK DEF Review
  <2> QED
    BY <2>2, <2>3, <2>4, <2>5, <2>6 DEF GitHubStep
<1> QED
  BY <1>1, <1>2, <1>5 DEF StepOK

\* A routing job writes the row of its own decision.
LEMMA RoutingStepOK ==
  ASSUME PolicyInv, NEW w \in Workers, RoutingStep(w)
  PROVE  StepOK
<1> USE DEF PolicyInv
<1>1. CASE ReadHead(w)
  <2>1. AttemptsOK'
    <3> DEFINE step == IF JobOf(w).key \notin succeeded /\ pr.head = JobOf(w).key
                       THEN "persist decision" ELSE "finish"
    <3>1. Goto(w, step) /\ step \in Steps /\ step \notin Deciding
      BY <1>1 DEF ReadHead, Steps, Deciding
    <3>2. attempt[w].step # "none" /\ attempt[w].step \in Undecided
      BY <1>1 DEF ReadHead, At, Undecided
    <3> QED
      BY <3>1, <3>2, GotoOK
  <2> QED
    BY <1>1, <2>1, SameData DEF StepOK, ReadHead
<1>2. CASE PersistDecision(w)
  <2>1. PICK h \in Heads : JobOf(w) = RoutingJob(h)
    BY <1>2 DEF PersistDecision, At, AttemptsOK, AttemptOK, Undecided, JobOf
  <2>2. JobOf(w).key = h
    BY <2>1 DEF RoutingJob
  <2>3. decided' \in Seq(Heads)
    <3>1. decided' = decided \/ decided' = Append(decided, h)
      BY <1>2, <2>2 DEF PersistDecision
    <3>2. decided \in Seq(Heads)
      BY DEF DataOK
    <3>3. Append(decided, h) \in Seq(Heads)
      BY <3>2
    <3> QED
      BY <3>1, <3>2, <3>3
  <2>4. DataOK' /\ FailuresStay
    BY <1>2, <2>3 DEF PersistDecision, DataOK, FailuresStay, github
  <2>5. AttemptsOK'
    <3> DEFINE step == IF RouteOf[h] = "shadow" \/ h \in succeeded THEN "finish" ELSE "preflight"
    <3>1. attempt' = [attempt EXCEPT ![w] = [@ EXCEPT !.step = step, !.decision = h]]
      BY <1>2, <2>2 DEF PersistDecision
    <3>2. step \in Steps \ Undecided
      BY DEF Steps, Undecided
    <3>3. attempt[w].step # "none"
      BY <1>2 DEF PersistDecision, At
    <3> HIDE DEF step
    <3> QED
      BY <3>1, <3>2, <3>3, PersistOK
  <2> QED
    BY <1>2, <2>4, <2>5 DEF StepOK, PersistDecision
<1>3. CASE Preflight(w)
  <2>1. attempt[w].step \in Deciding /\ attempt[w].step # "none"
    BY <1>3 DEF Preflight, At, Deciding
  <2>2. AttemptsOK'
    BY <1>3, <2>1, ProceedOK, LeaveOK DEF Preflight, Steps, Undecided
  <2> QED
    BY <1>3, <2>2, SameData DEF StepOK, Preflight
<1>4. CASE EnsureCheck(w)
  <2> DEFINE h == HeadOf(w)
             initial == Evaluate(h, FALSE)
  <2>1. attempt[w].step \in Deciding /\ attempt[w].step # "none"
    BY <1>4 DEF EnsureCheck, At, Deciding
  <2>2. h \in Heads
    BY <2>1, Executing
  <2>3. initial \in CheckState
    BY DEF Evaluate, CheckState
  <2>4. {"act", "record opened check"} \subseteq Steps \ Undecided
    BY DEF Steps, Undecided
  <2> HIDE DEF h, initial
  <2>5. CASE row[h].run # 0
    <3>1. Take(w, "act", row[h].run) /\ UNCHANGED checks
      BY <1>4, <2>5 DEF EnsureCheck, h
    <3>2. row[h].run \in Nat
      BY <2>2 DEF DataOK, Row
    <3>3. AttemptsOK'
      BY <2>1, <2>4, <3>1, <3>2, TakeRunOK
    <3> QED
      BY <1>4, <3>1, <3>3, SameData DEF StepOK, EnsureCheck, github
  <2>6. CASE row[h].run = 0 /\ Newest(h) # 0
    <3>1. /\ attempt' = [attempt EXCEPT ![w] =
               [@ EXCEPT !.step = "record opened check", !.run = Newest(h),
                         !.verdict = NewestState(h)]]
          /\ UNCHANGED checks
      BY <1>4, <2>6 DEF EnsureCheck, h
    <3>2. Newest(h) \in Nat /\ NewestState(h) \in CheckState
      BY <2>2, <2>6, NewestIs
    <3>3. AttemptsOK'
      BY <2>1, <2>4, <3>1, <3>2, TakeOK
    <3> QED
      BY <1>4, <3>1, <3>3, SameData DEF StepOK, EnsureCheck, github
  <2>7. CASE row[h].run = 0 /\ Newest(h) = 0
    <3>1. /\ checks' = [checks EXCEPT ![h] = <<initial>>]
          /\ attempt' = [attempt EXCEPT ![w] =
               [@ EXCEPT !.step = "record opened check", !.run = 1, !.verdict = initial]]
      BY <1>4, <2>7 DEF EnsureCheck, h, initial
    <3>2. checks' \in [Heads -> Seq(CheckState)]
      BY <2>2, <2>3, <3>1 DEF DataOK
    <3>3. AttemptsOK'
      BY <2>1, <2>3, <2>4, <3>1, TakeOK
    <3> QED
      BY <1>4, <3>2, <3>3, ChecksChange DEF StepOK, EnsureCheck
  <2> QED
    BY <2>5, <2>6, <2>7
<1>5. CASE RecordOpenedCheck(w)
  <2>1. attempt[w].step \in Deciding /\ attempt[w].step # "none"
    BY <1>5 DEF RecordOpenedCheck, At, Deciding
  <2>2. HeadOf(w) \in Heads /\ attempt[w].run \in Nat /\ attempt[w].verdict \in CheckState
    BY <2>1, Executing DEF Attempt
  <2>3. DataOK' /\ FailuresStay
    BY <1>5, <2>2, RowChange DEF RecordOpenedCheck
  <2>4. AttemptsOK'
    BY <1>5, <2>1, ProceedOK DEF RecordOpenedCheck, Steps, Undecided
  <2> QED
    BY <1>5, <2>3, <2>4 DEF StepOK, RecordOpenedCheck
<1>6. CASE Act(w)
  <2>1. attempt[w].step \in Deciding /\ attempt[w].step # "none"
    BY <1>6 DEF Act, At, Deciding
  <2>2. AfterActions(RouteOf[HeadOf(w)]) \in Steps \ Undecided /\ "conclude check" \in Steps \ Undecided
    BY DEF AfterActions, Steps, Undecided
  <2>3. AttemptsOK'
    BY <1>6, <2>1, <2>2, ProceedOK, ActionFailsOK DEF Act
  <2> QED
    BY <1>6, <2>3, SameData DEF StepOK, Act
<1>7. CASE ConcludeCheck(w)
  <2>1. attempt[w].step \in Deciding /\ attempt[w].step # "none"
    BY <1>7 DEF ConcludeCheck, At, Deciding
  <2>2. HeadOf(w) \in Heads
    BY <2>1, Executing
  <2>3. checks' \in [Heads -> Seq(CheckState)]
    BY <1>7, <2>2, CompleteOK DEF ConcludeCheck, CheckState
  <2>4. AttemptsOK'
    BY <1>7, <2>1, ProceedOK DEF ConcludeCheck, Steps, Undecided
  <2> QED
    BY <1>7, <2>3, <2>4, ChecksChange DEF StepOK, ConcludeCheck
<1>8. CASE ConcludeRow(w)
  <2>1. attempt[w].step \in Deciding /\ attempt[w].step # "none"
    BY <1>8 DEF ConcludeRow, At, Deciding
  <2>2. HeadOf(w) \in Heads /\ "failure" \in CheckState
    BY <2>1, Executing DEF CheckState
  <2>3. DataOK' /\ FailuresStay
    BY <1>8, <2>2, RowStateChange DEF ConcludeRow
  <2>4. AttemptsOK'
    BY <1>8, <2>1, ProceedOK DEF ConcludeRow, Steps, Undecided
  <2> QED
    BY <1>8, <2>3, <2>4 DEF StepOK, ConcludeRow
<1>9. CASE MarkActionFailed(w)
  <2>1. attempt[w].step \in Deciding
    BY <1>9 DEF MarkActionFailed, At, Deciding
  <2>2. AttemptsOK'
    BY <1>9, <2>1, ProceedOK DEF MarkActionFailed, Steps, Undecided
  <2> QED
    BY <1>9, <2>2, SameData DEF StepOK, MarkActionFailed
<1>10. CASE EnqueueEvaluation(w)
  <2>1. attempt[w].step \in Deciding /\ attempt[w].step # "none"
    BY <1>10 DEF EnqueueEvaluation, At, Deciding
  <2>2. EvaluationJob(HeadOf(w)) \in Jobs
    BY <2>1, Executing, PolicyAssumption
  <2>3. [Next]_job
    BY <1>10, <2>2, AcceptOK DEF EnqueueEvaluation
  <2>4. AttemptsOK'
    BY <1>10, <2>1, ProceedOK DEF EnqueueEvaluation, Steps, Undecided
  <2> QED
    BY <1>10, <2>3, <2>4, SameData DEF StepOK, EnqueueEvaluation
<1>11. CASE MarkActionSucceeded(w)
  <2>1. attempt[w].step \in Deciding /\ attempt[w].step # "none"
    BY <1>11 DEF MarkActionSucceeded, At, Deciding
  <2>2. HeadOf(w) \in Heads
    BY <2>1, Executing
  <2>3. DataOK' /\ FailuresStay
    BY <1>11, <2>2 DEF MarkActionSucceeded, DataOK, FailuresStay, github
  <2>4. AttemptsOK'
    BY <1>11, <2>1, ProceedOK DEF MarkActionSucceeded, Steps, Undecided
  <2> QED
    BY <1>11, <2>3, <2>4 DEF StepOK, MarkActionSucceeded
<1> QED
  BY <1>1, <1>2, <1>3, <1>4, <1>5, <1>6, <1>7, <1>8, <1>9, <1>10, <1>11 DEF RoutingStep

\* An evaluation writes the row of the decision it chose.
LEMMA EvaluationStepOK ==
  ASSUME PolicyInv, NEW w \in Workers, EvaluationStep(w)
  PROVE  StepOK
<1> USE DEF PolicyInv
<1>0. {"finish", "fetch state", "fetch reviews", "fetch state again", "find check",
       "record failure", "persist state", "create check", "record check", "update check"}
        \subseteq Steps \ Undecided
  BY DEF Steps, Undecided
<1>1. CASE FindDecision(w)
  <2>1. attempt[w].step # "none"
    BY <1>1 DEF FindDecision, At
  <2>2. AttemptsOK'
    <3>1. CASE Latest = NoHead \/ row[Latest].state = "failure"
      <4>1. Goto(w, "finish")
        BY <1>1, <3>1 DEF FindDecision
      <4> QED
        BY <1>0, <2>1, <4>1, GotoOK DEF Undecided, Deciding
    <3>2. CASE ~(Latest = NoHead \/ row[Latest].state = "failure")
      <4>1. Choose(w, "fetch state")
        BY <1>1, <3>2 DEF FindDecision
      <4>2. Latest \in Heads
        BY <3>2 DEF Latest, DataOK
      <4>3. row[Latest] \in Row
        BY <4>2 DEF DataOK
      <4> HIDE DEF Latest
      <4> QED
        BY <1>0, <2>1, <4>1, <4>2, <4>3, DecideOK DEF Choose
    <3> QED
      BY <3>1, <3>2
  <2> QED
    BY <1>1, <2>2, SameData DEF StepOK, FindDecision
<1>2. CASE FetchState(w) \/ FetchStateAgain(w)
  <2>1. attempt[w].step \in Deciding
    BY <1>2 DEF FetchState, FetchStateAgain, At, Deciding
  <2>2. AttemptsOK'
    BY <1>0, <1>2, <2>1, ProceedOK DEF FetchState, FetchStateAgain
  <2> QED
    BY <1>2, <2>2, SameData DEF StepOK, FetchState, FetchStateAgain
<1>3. CASE FetchReviews(w)
  <2> DEFINE verdict == Evaluate(HeadOf(w), pr.approved)
             step == IF verdict = "success" THEN "fetch state again" ELSE "find check"
  <2>1. attempt[w].step \in Deciding
    BY <1>3 DEF FetchReviews, At, Deciding
  <2>2. verdict \in CheckState
    BY DEF Evaluate, CheckState
  <2>3. step \in Steps \ Undecided
    BY <1>0
  <2>4. attempt' = [attempt EXCEPT ![w] = [@ EXCEPT !.verdict = verdict, !.step = step]]
    BY <1>3 DEF FetchReviews
  <2> HIDE DEF verdict, step
  <2>5. AttemptsOK'
    BY <2>1, <2>2, <2>3, <2>4, VerdictOK
  <2> QED
    BY <1>3, <2>5, SameData DEF StepOK, FetchReviews
<1>4. CASE FindCheckToKeepOpen(w)
  <2>1. attempt[w].step \in Deciding /\ attempt[w].step # "none"
    BY <1>4 DEF FindCheckToKeepOpen, At, Deciding
  <2>2. HeadOf(w) \in Heads
    BY <2>1, Executing
  <2>3. Newest(HeadOf(w)) \in Nat
    BY <2>2, NewestIs
  <2>4. \/ \E step \in Steps \ Undecided : Goto(w, step)
        \/ Take(w, "record check", Newest(HeadOf(w)))
    <3>1. \/ Goto(w, "record failure") \/ Goto(w, "persist state") \/ Goto(w, "create check")
          \/ Take(w, "record check", Newest(HeadOf(w)))
      BY <1>4 DEF FindCheckToKeepOpen
    <3> QED
      BY <1>0, <3>1
  <2>5. AttemptsOK'
    BY <1>0, <2>1, <2>3, <2>4, ProceedOK, TakeRunOK
  <2> QED
    BY <1>4, <2>5, SameData DEF StepOK, FindCheckToKeepOpen
<1>5. CASE FindCheckToComplete(w)
  <2> DEFINE h == HeadOf(w)
             run == IF Newest(h) # 0 THEN Newest(h) ELSE attempt[w].seen.run
  <2>1. attempt[w].step \in Deciding /\ attempt[w].step # "none"
    BY <1>5 DEF FindCheckToComplete, At, Deciding
  <2>2. HeadOf(w) \in Heads /\ attempt[w].seen.run \in Nat
    BY <2>1, Executing DEF Attempt, Row
  <2>3. Newest(h) \in Nat /\ run \in Nat
    BY <2>2, NewestIs
  <2>4. \/ Take(w, "record failure", Newest(h))
        \/ Leave(w, "caught", "transient")
        \/ Take(w, "update check", run)
    BY <1>5 DEF FindCheckToComplete
  <2> HIDE DEF run
  <2>5. AttemptsOK'
    BY <1>0, <2>1, <2>3, <2>4, TakeRunOK, LeaveOK
  <2> QED
    BY <1>5, <2>5, SameData DEF StepOK, FindCheckToComplete
<1>6. CASE CreateCheck(w)
  <2>1. attempt[w].step \in Deciding /\ attempt[w].step # "none"
    BY <1>6 DEF CreateCheck, At, Deciding
  <2>2. HeadOf(w) \in Heads /\ "in_progress" \in CheckState
    BY <2>1, Executing DEF CheckState
  <2>3. Newest(HeadOf(w)) + 1 \in Nat
    BY <2>2, NewestIs
  <2>4. Append(checks[HeadOf(w)], "in_progress") \in Seq(CheckState)
    BY <2>2, AppendProperties DEF DataOK
  <2>5. checks' \in [Heads -> Seq(CheckState)]
    BY <1>6, <2>4 DEF CreateCheck, DataOK
  <2>6. AttemptsOK'
    BY <1>0, <1>6, <2>1, <2>3, TakeRunOK DEF CreateCheck
  <2> QED
    BY <1>6, <2>5, <2>6, ChecksChange DEF StepOK, CreateCheck
<1>7. CASE UpdateCheck(w)
  <2>1. attempt[w].step \in Deciding /\ attempt[w].step # "none"
    BY <1>7 DEF UpdateCheck, At, Deciding
  <2>2. HeadOf(w) \in Heads /\ attempt[w].verdict \in CheckState
    BY <2>1, Executing DEF Attempt
  <2>3. checks' \in [Heads -> Seq(CheckState)]
    BY <1>7, <2>2, CompleteOK DEF UpdateCheck
  <2>4. AttemptsOK'
    BY <1>0, <1>7, <2>1, ProceedOK DEF UpdateCheck
  <2> QED
    BY <1>7, <2>3, <2>4, ChecksChange DEF StepOK, UpdateCheck
<1>8. CASE RecordCheck(w)
  <2>1. attempt[w].step \in Deciding /\ attempt[w].step # "none"
    BY <1>8 DEF RecordCheck, At, Deciding
  <2>2. HeadOf(w) \in Heads /\ attempt[w].run \in Nat /\ attempt[w].verdict \in CheckState
    BY <2>1, Executing DEF Attempt
  <2>3. DataOK' /\ FailuresStay
    BY <1>8, <2>2, RowChange DEF RecordCheck
  <2>4. AttemptsOK'
    BY <1>0, <1>8, <2>1, ProceedOK DEF RecordCheck
  <2> QED
    BY <1>8, <2>3, <2>4 DEF StepOK, RecordCheck
<1>9. CASE RecordFailure(w)
  <2>1. attempt[w].step \in Deciding /\ attempt[w].step # "none"
    BY <1>9 DEF RecordFailure, At, Deciding
  <2>2. HeadOf(w) \in Heads /\ attempt[w].run \in Nat /\ "failure" \in CheckState
    BY <2>1, Executing DEF Attempt, CheckState
  <2>3. DataOK' /\ FailuresStay
    <3>1. CASE attempt[w].verdict = "in_progress"
      <4>1. row' = [row EXCEPT ![HeadOf(w)] = WithCheck(@, @.run, "failure")]
        BY <1>9, <3>1 DEF RecordFailure
      <4> QED
        BY <1>9, <2>2, <4>1, RowStateChange DEF RecordFailure
    <3>2. CASE attempt[w].verdict # "in_progress"
      <4>1. row' = [row EXCEPT ![HeadOf(w)] = WithCheck(@, attempt[w].run, "failure")]
        BY <1>9, <3>2 DEF RecordFailure
      <4> QED
        BY <1>9, <2>2, <4>1, RowChange DEF RecordFailure
    <3> QED
      BY <3>1, <3>2
  <2>4. AttemptsOK'
    BY <1>0, <1>9, <2>1, ProceedOK, LeaveOK DEF RecordFailure
  <2> QED
    BY <1>9, <2>3, <2>4 DEF StepOK, RecordFailure
<1>10. CASE PersistState(w)
  <2>1. attempt[w].step \in Deciding /\ attempt[w].step # "none"
    BY <1>10 DEF PersistState, At, Deciding
  <2>2. HeadOf(w) \in Heads /\ attempt[w].verdict \in CheckState
    BY <2>1, Executing DEF Attempt
  <2>3. DataOK' /\ FailuresStay
    BY <1>10, <2>2, RowStateChange DEF PersistState
  <2>4. AttemptsOK'
    BY <1>0, <1>10, <2>1, ProceedOK DEF PersistState
  <2> QED
    BY <1>10, <2>3, <2>4 DEF StepOK, PersistState
<1> QED
  BY <1>1, <1>2, <1>3, <1>4, <1>5, <1>6, <1>7, <1>8, <1>9, <1>10 DEF EvaluationStep

\* A recovery writes the row of the decision it found.
LEMMA FailureStepOK ==
  ASSUME PolicyInv, NEW w \in Workers, FailureStep(w)
  PROVE  StepOK
<1> USE DEF PolicyInv
<1>0. {"finalized", "find failed check", "record failed check", "fail check"}
        \subseteq Steps \ Undecided
  BY DEF Steps, Undecided
<1>1. CASE FindFailedDecision(w)
  <2> DEFINE j == JobOf(w)
             h == IF ~IsEvaluation(j) THEN (IF Persisted(j.key) THEN j.key ELSE NoHead)
                  ELSE IF recovery[j] \in Heads THEN recovery[j] ELSE Latest
             step == IF IsEvaluation(j) /\ row[h].state = "failure"
                       THEN "finalized" ELSE "find failed check"
             chosen == IsEvaluation(j) /\ recovery[j] = "unnamed"
  <2>1. attempt[w].step # "none"
    BY <1>1 DEF FindFailedDecision, At
  <2>2. \/ h = NoHead /\ Goto(w, "finalized")
        \/ /\ h # NoHead
           /\ attempt' = [attempt EXCEPT ![w] =
                [@ EXCEPT !.step = step, !.decision = h, !.seen = row[h], !.chosen = chosen]]
    BY <1>1 DEF FindFailedDecision
  <2>3. h \in Heads \cup {NoHead}
    BY DEF Latest, Persisted, DataOK
  <2>4. step \in Steps \ Undecided /\ chosen \in BOOLEAN
    BY <1>0
  <2>5. h # NoHead => row[h] \in Row
    BY <2>3 DEF DataOK
  <2> HIDE DEF h, step, chosen
  <2>6. AttemptsOK'
    <3>1. CASE h = NoHead /\ Goto(w, "finalized")
      BY <1>0, <2>1, <3>1, GotoOK DEF Undecided, Deciding
    <3>2. CASE h # NoHead
      <4>1. h \in Heads /\ row[h] \in Row
        BY <2>3, <2>5, <3>2
      <4>2. attempt' = [attempt EXCEPT ![w] =
              [@ EXCEPT !.step = step, !.decision = h, !.seen = row[h], !.chosen = chosen]]
        BY <2>2, <3>2
      <4> QED
        BY <2>1, <2>4, <4>1, <4>2, DecideOK
    <3> QED
      BY <2>2, <3>1, <3>2
  <2> QED
    BY <1>1, <2>6, SameData DEF StepOK, FindFailedDecision
<1>2. CASE FindFailedCheck(w)
  <2> DEFINE h == HeadOf(w)
             recorded == attempt[w].seen.run
             preferred == IF IsEvaluation(JobOf(w)) THEN Newest(h) ELSE recorded
             run == IF preferred # 0 THEN preferred
                    ELSE IF IsEvaluation(JobOf(w)) THEN recorded ELSE Newest(h)
  <2>1. attempt[w].step \in Deciding /\ attempt[w].step # "none"
    BY <1>2 DEF FindFailedCheck, At, Deciding
  <2>2. HeadOf(w) \in Heads /\ recorded \in Nat
    BY <2>1, Executing DEF Attempt, Row
  <2>3. run \in Nat
    BY <2>2, NewestIs
  <2>4. \/ Take(w, "record failed check", run)
        \/ Goto(w, "finalized")
        \/ Take(w, "fail check", run)
    BY <1>2 DEF FindFailedCheck
  <2> HIDE DEF run
  <2>5. AttemptsOK'
    BY <1>0, <2>1, <2>3, <2>4, TakeRunOK, ProceedOK
  <2> QED
    BY <1>2, <2>5, SameData DEF StepOK, FindFailedCheck
<1>3. CASE FailCheck(w)
  <2>1. attempt[w].step \in Deciding /\ attempt[w].step # "none"
    BY <1>3 DEF FailCheck, At, Deciding
  <2>2. HeadOf(w) \in Heads
    BY <2>1, Executing
  <2>3. checks' \in [Heads -> Seq(CheckState)]
    BY <1>3, <2>2, CompleteOK DEF FailCheck, CheckState
  <2>4. AttemptsOK'
    BY <1>0, <1>3, <2>1, ProceedOK DEF FailCheck
  <2> QED
    BY <1>3, <2>3, <2>4, ChecksChange DEF StepOK, FailCheck
<1>4. CASE RecordFailedCheck(w)
  <2>1. attempt[w].step \in Deciding /\ attempt[w].step # "none"
    BY <1>4 DEF RecordFailedCheck, At, Deciding
  <2>2. HeadOf(w) \in Heads /\ attempt[w].run \in Nat /\ "failure" \in CheckState
    BY <2>1, Executing DEF Attempt, CheckState
  <2>3. DataOK' /\ FailuresStay
    BY <1>4, <2>2, RowChange DEF RecordFailedCheck
  <2>4. AttemptsOK'
    BY <1>0, <1>4, <2>1, ProceedOK DEF RecordFailedCheck
  <2> QED
    BY <1>4, <2>3, <2>4 DEF StepOK, RecordFailedCheck
<1> QED
  BY <1>1, <1>2, <1>3, <1>4 DEF FailureStep

\* A job is settled by its holder, or not at all.
LEMMA SettleStepOK ==
  ASSUME PolicyInv, NEW w \in Workers, SettleStep(w)
  PROVE  StepOK
<1> USE DEF PolicyInv
<1> DEFINE j == JobOf(w)
<1>0. j \in Jobs
  <2>1. attempt[w].step # "none"
    BY DEF SettleStep, Finish, CatchAndFinalize, CatchAndRetry, Finalized, RecoveryFailed,
           SettleStale, At, Settling
  <2> QED
    BY <2>1, Executing
<1>1. Done(w)
  BY DEF SettleStep, Finish, CatchAndFinalize, CatchAndRetry, Finalized, RecoveryFailed, SettleStale
<1>2. AttemptsOK'
  BY <1>1, DoneOK
<1>3. CASE Finish(w)
  <2>1. [Next]_job
    BY <1>0, <1>3 DEF Finish, Next
  <2> QED
    BY <1>2, <1>3, <2>1, SameData DEF StepOK, Finish
<1>4. CASE CatchAndFinalize(w)
  <2> DEFINE max == job[j].attempt + FinalizationAttempts
  <2>1. max <= AttemptCap /\ GiveBack(w, j, max) /\ recovery' = [recovery EXCEPT ![j] = RecoveryOf(w)]
    BY <1>4 DEF CatchAndFinalize
  <2>2. job[j].attempt \in Nat
    BY <1>0 DEF JobOK, JobRow
  <2>3. max \in 1 .. AttemptCap
    BY <2>1, <2>2, PolicyAssumption
  <2> HIDE DEF max
  <2>4. [Next]_job
    BY <1>0, <2>1, <2>3 DEF Next
  <2>5. RecoveryOf(w) \in Recovery
    <3>1. attempt[w].step # "none"
      BY <1>4 DEF CatchAndFinalize, At
    <3> QED
      BY <3>1, Executing DEF RecoveryOf, Recovery
  <2>6. DataOK' /\ FailuresStay
    BY <1>4, <2>1, <2>5 DEF CatchAndFinalize, DataOK, FailuresStay, github
  <2> QED
    BY <1>2, <2>4, <2>6 DEF StepOK
<1>5. CASE CatchAndRetry(w)
  <2>1. [Next]_job
    BY <1>0, <1>5, SettleOK DEF CatchAndRetry
  <2> QED
    BY <1>2, <1>5, <2>1, SameData DEF StepOK, CatchAndRetry
<1>6. CASE Finalized(w)
  <2>1. [Next]_job
    BY <1>0, <1>6, SettleOK DEF Finalized
  <2> QED
    BY <1>2, <1>6, <2>1, SameData DEF StepOK, Finalized
<1>7. CASE RecoveryFailed(w)
  <2>1. [Next]_job
    BY <1>0, <1>7, SettleOK DEF RecoveryFailed
  <2> QED
    BY <1>2, <1>7, <2>1, SameData DEF StepOK, RecoveryFailed
<1>8. CASE SettleStale(w)
  BY <1>2, <1>8, SameData DEF StepOK, SettleStale
<1> QED
  BY <1>3, <1>4, <1>5, <1>6, <1>7, <1>8 DEF SettleStep

\* Claims, sweeps and deaths.
LEMMA QueueStepOK ==
  ASSUME PolicyInv, NEW w \in Workers,
         \/ \E j \in Jobs : Claim(w, j) \/ Sweep(w, j)
         \/ Fault(w)
  PROVE  StepOK
<1> USE DEF PolicyInv
<1>1. ASSUME NEW j \in Jobs, Claim(w, j) PROVE StepOK
  <2>1. [Next]_job
    BY <1>1 DEF Claim, Next
  <2> DEFINE b1 == [NoAttempt EXCEPT !.step = FirstStep(j)]
             b == [b1 EXCEPT !.job = j]
  <2>2. attempt' = [attempt EXCEPT ![w] = b]
    BY <1>1 DEF Claim
  <2>3. /\ FirstStep(j) \in Steps \ Deciding /\ FirstStep(j) # "none"
        /\ FirstStep(j) \in Undecided => \E h \in Heads : j = RoutingJob(h)
    <3>1. ~IsEvaluation(j) => \E h \in Heads : j = RoutingJob(h)
      BY PolicyAssumption DEF IsEvaluation, RoutingJob, EvaluationJob
    <3> QED
      BY <3>1 DEF FirstStep, Steps, Deciding, Undecided
  <2> HIDE DEF b
  <2>4. b1 \in Attempt /\ b1.step = FirstStep(j) /\ b1.chosen = FALSE
    <3>1. NoAttempt \in Attempt /\ NoAttempt.chosen = FALSE
      BY NoAttemptOK DEF AttemptOK, NoAttempt
    <3> QED
      BY <2>3, <3>1 DEF Attempt
  <2> HIDE DEF b1
  <2>5. b \in Attempt /\ b.step = FirstStep(j) /\ b.job = j /\ b.chosen = FALSE
    BY <2>4 DEF b, Attempt
  <2>6. AttemptOK(b)
    BY <2>3, <2>5, PolicyAssumption DEF AttemptOK
  <2> QED
    BY <1>1, <2>1, <2>2, <2>6, AttemptChange, SameData DEF StepOK, Claim
<1>2. ASSUME NEW j \in Jobs, Sweep(w, j) PROVE StepOK
  <2>1. [Next]_job
    BY <1>2 DEF Sweep, Next
  <2>2. AttemptsOK'
    BY <1>2 DEF Sweep, AttemptsOK, AttemptOK
  <2> QED
    BY <1>2, <2>1, <2>2, SameData DEF StepOK, Sweep
<1>3. ASSUME NEW error \in {"transient", "permanent"}, Throw(w, error) PROVE StepOK
  <2>1. attempt[w].step # "none"
    BY <1>3 DEF Throw, Steps
  <2>2. AttemptsOK'
    BY <1>3, <2>1, LeaveOK DEF Throw
  <2> QED
    BY <1>3, <2>2, SameData DEF StepOK, Throw
<1>4. CASE RecoveryUnsettled(w)
  <2>1. attempt[w].step # "none"
    BY <1>4 DEF RecoveryUnsettled
  <2>2. AttemptsOK'
    BY <1>4, <2>1, LeaveOK DEF RecoveryUnsettled
  <2> QED
    BY <1>4, <2>2, SameData DEF StepOK, RecoveryUnsettled
<1>5. CASE Crash(w)
  <2>1. JobOf(w) \in Jobs
    BY <1>5, Executing DEF Crash
  <2>2. [Next]_job
    BY <1>5, <2>1 DEF Crash, Next
  <2> QED
    BY <1>5, <2>2, DoneOK, SameData DEF StepOK, Crash
<1> QED
  BY <1>1, <1>2, <1>3, <1>4, <1>5 DEF Fault

\* The inductive invariant, and what it says of each step.
LEMMA PolicyStep ==
  ASSUME PolicyInv, [PolicyNext]_policyVars
  PROVE  StepOK /\ PolicyInv'
<1>1. StepOK
  <2>1. CASE UNCHANGED policyVars
    BY <2>1, SameData DEF StepOK, policyVars, PolicyInv, AttemptsOK, AttemptOK
  <2>2. CASE PolicyNext
    BY <2>2, GitHubStepOK, RoutingStepOK, EvaluationStepOK, FailureStepOK, SettleStepOK, QueueStepOK
       DEF PolicyNext, Regular, Advance
  <2> QED
    BY <2>1, <2>2
<1>2. JobOK'
  BY <1>1, JobOKKept DEF PolicyInv, StepOK
<1> QED
  BY <1>1, <1>2 DEF PolicyInv, StepOK

\* The initial states satisfy it.
LEMMA PolicyStart == PolicyInit => PolicyInv
<1> SUFFICES ASSUME PolicyInit PROVE PolicyInv
  OBVIOUS
<1>1. JobOK
  BY PolicyAssumption DEF PolicyInit, Init, JobOK, JobRow
<1>2. DataOK
  <2>1. pr \in [open : BOOLEAN, head : Heads, approved : BOOLEAN]
    BY DEF PolicyInit
  <2>2. decided \in Seq(Heads) /\ succeeded \in SUBSET Heads
    BY DEF PolicyInit
  <2>3. row \in [Heads -> Row] /\ recovery \in [Jobs -> Recovery]
    BY DEF PolicyInit, Unread, Row, Recovery
  <2>4. checks \in [Heads -> Seq(CheckState)]
    BY DEF PolicyInit
  <2> QED
    BY <2>1, <2>2, <2>3, <2>4 DEF DataOK
<1>3. AttemptsOK
  BY NoAttemptOK DEF PolicyInit, AttemptsOK, AttemptOK
<1> QED
  BY <1>1, <1>2, <1>3 DEF PolicyInv

-----------------------------------------------------------------------------
(* Theorems                                                                *)

\* Every row, check, payload and attempt is what its reader takes it for; an
\* attempt writes only with a decision in hand (runtime-services.ts).
THEOREM PolicyInvariant == PolicySpec => []PolicyInv
<1>1. PolicyInv /\ [PolicyNext]_policyVars => PolicyInv'
  BY PolicyStep
<1> QED
  BY PolicyStart, <1>1, PTL DEF PolicySpec

\* The type invariant of the module.
THEOREM PolicyTypeCorrect == PolicySpec => []PolicyTypeOK
<1>1. PolicyInv => PolicyTypeOK
  BY DEF PolicyInv, DataOK, AttemptsOK, AttemptOK, PolicyTypeOK
<1> QED
  BY PolicyInvariant, <1>1, PTL

\* A policy check recorded as failed stays failed, with any number of workers,
\* heads, reviews and faults (recordPolicyCheck, updatePolicyCheckState).
THEOREM PolicyFailureIsFinal == PolicySpec => RecordedFailureIsFinal
<1>1. PolicyInv /\ [PolicyNext]_policyVars =>
        [\A h \in Heads : row[h].state = "failure" => row'[h].state = "failure"]_policyVars
  BY PolicyStep DEF StepOK, FailuresStay
<1> QED
  BY PolicyInvariant, <1>1, PTL DEF PolicySpec, RecordedFailureIsFinal

\* What the workers do to the jobs is what JobLifecycle allows, which JobQueue
\* implements (packages/db/src/jobs.ts).
THEOREM PolicyImplementsLifecycle == PolicySpec => RunsTheLifecycle
<1>1. PolicyInv /\ [PolicyNext]_policyVars => [Next]_job
  BY PolicyStep DEF StepOK
<1>2. PolicyInit => Init
  BY DEF PolicyInit
<1> QED
  BY PolicyInvariant, <1>1, <1>2, PTL DEF PolicySpec, RunsTheLifecycle, Spec

-----------------------------------------------------------------------------
(* A single worker and the runs on GitHub.                                 *)

OneWorker == \A v, w \in Workers : v = w

\* What an attempt knows of the newest run when it is about to write one.
CheckFits(w) ==
  LET a == attempt[w] IN
  /\ a.step = "create check" =>
       a.verdict = "in_progress" /\ NewestState(a.decision) \notin {"failure", "in_progress"}
  /\ a.step = "update check" =>
       a.verdict # "in_progress" /\ NewestState(a.decision) # "failure"

ShownInv == ReplacedRunsAreCompleted /\ \A w \in Workers : CheckFits(w)

ShownFailuresStay ==
  \A h \in Heads : NewestState(h) = "failure" => NewestState(h)' = "failure"

RunsKept == ReplacedRunsAreCompleted' /\ ShownFailuresStay

\* The fields after Goto, Take and Leave, and after an attempt that ends.
LEMMA AfterGoto ==
  ASSUME AttemptsOK, NEW w \in Workers, NEW step \in Steps, Goto(w, step)
  PROVE  /\ attempt'[w].step = step /\ attempt'[w].job = attempt[w].job
         /\ attempt'[w].decision = attempt[w].decision /\ attempt'[w].seen = attempt[w].seen
         /\ attempt'[w].verdict = attempt[w].verdict /\ attempt'[w].run = attempt[w].run
<1>1. attempt[w] \in Attempt
  BY DEF AttemptsOK
<1>2. attempt'[w] = [attempt[w] EXCEPT !.step = step]
  BY DEF Goto, AttemptsOK
<1> QED
  BY <1>1, <1>2 DEF Attempt

LEMMA AfterTake ==
  ASSUME AttemptsOK, NEW w \in Workers, NEW step \in Steps, NEW run \in Nat, Take(w, step, run)
  PROVE  /\ attempt'[w].step = step /\ attempt'[w].job = attempt[w].job
         /\ attempt'[w].decision = attempt[w].decision /\ attempt'[w].seen = attempt[w].seen
         /\ attempt'[w].verdict = attempt[w].verdict /\ attempt'[w].run = run
<1>1. attempt[w] \in Attempt
  BY DEF AttemptsOK
<1>2. attempt'[w] = [attempt[w] EXCEPT !.step = step, !.run = run]
  BY DEF Take, AttemptsOK
<1> QED
  BY <1>1, <1>2 DEF Attempt

LEMMA AfterLeave ==
  ASSUME AttemptsOK, NEW w \in Workers, NEW step \in Steps,
         NEW error \in {"transient", "permanent"}, Leave(w, step, error)
  PROVE  /\ attempt'[w].step = step /\ attempt'[w].job = attempt[w].job
         /\ attempt'[w].decision = attempt[w].decision
<1>1. attempt'[w] = [NoAttempt EXCEPT !.step = step, !.error = error, !.job = JobOf(w),
                       !.decision = HeadOf(w), !.chosen = attempt[w].chosen]
  BY DEF Leave, AttemptsOK
<1> QED
  BY <1>1 DEF NoAttempt, JobOf, HeadOf

LEMMA AfterDone ==
  ASSUME AttemptsOK, NEW w \in Workers, Done(w)
  PROVE  attempt'[w].step = "none"
BY DEF Done, AttemptsOK, NoAttempt

\* A run is added where there is none, or after one that is completed.
LEMMA RunAdded ==
  ASSUME DataOK, ReplacedRunsAreCompleted, NEW h \in Heads, NEW state \in CheckState,
         NewestState(h) \notin {"failure", "in_progress"},
         checks' = [checks EXCEPT ![h] = Append(checks[h], state)]
  PROVE  RunsKept
<1> DEFINE old == checks[h]
           new == Append(old, state)
<1>1. old \in Seq(CheckState)
  BY DEF DataOK
<1>2. checks'[h] = new /\ \A g \in Heads : g # h => checks'[g] = checks[g]
  BY DEF DataOK
<1>3. \A i \in 1 .. Len(old) - 1 : old[i] # "in_progress"
  BY DEF ReplacedRunsAreCompleted, Newest
<1>4. old = <<>> \/ old[Len(old)] # "in_progress"
  BY DEF NewestState, Newest
<1> HIDE DEF old
<1>5. Len(old) \in Nat /\ Len(new) = Len(old) + 1 /\ \A i \in 1 .. Len(old) : new[i] = old[i]
  BY <1>1
<1> HIDE DEF new
<1>6. \A i \in 1 .. Len(new) - 1 : new[i] # "in_progress"
  <2> SUFFICES ASSUME NEW i \in 1 .. Len(new) - 1 PROVE new[i] # "in_progress"
    OBVIOUS
  <2>1. i \in 1 .. Len(old)
    BY <1>5
  <2>2. CASE i = Len(old)
    <3>1. old # <<>>
      BY <2>1, <2>2
    <3> QED
      BY <1>4, <1>5, <2>1, <2>2, <3>1
  <2>3. CASE i # Len(old)
    BY <1>3, <1>5, <2>1, <2>3
  <2> QED
    BY <2>2, <2>3
<1>7. ReplacedRunsAreCompleted'
  BY <1>2, <1>6 DEF ReplacedRunsAreCompleted, Newest
<1>8. ShownFailuresStay
  BY <1>2 DEF ShownFailuresStay, NewestState, Newest
<1> QED
  BY <1>7, <1>8 DEF RunsKept

\* A run gets a final state, and the newest one keeps its failure.
LEMMA RunCompleted ==
  ASSUME DataOK, ReplacedRunsAreCompleted, NEW h \in Heads, NEW run, NEW state \in CheckState,
         state # "in_progress", NewestState(h) = "failure" => state = "failure",
         checks' = [checks EXCEPT ![h][run] = state]
  PROVE  RunsKept
<1> DEFINE old == checks[h]
           new == [old EXCEPT ![run] = state]
<1>1. old \in Seq(CheckState)
  BY DEF DataOK
<1>2. checks' = [checks EXCEPT ![h] = new]
  BY DEF DataOK
<1>3. \A i \in 1 .. Len(old) - 1 : old[i] # "in_progress"
  BY DEF ReplacedRunsAreCompleted, Newest
<1>4. NewestState(h) = IF old = <<>> THEN "not_started" ELSE old[Len(old)]
  BY DEF NewestState, Newest
<1> HIDE DEF old
<1>5. Len(new) = Len(old) /\ \A i \in 1 .. Len(old) : new[i] \in {old[i], state}
  <2>1. old \in [1 .. Len(old) -> CheckState] /\ Len(old) \in Nat
    BY <1>1, LenProperties
  <2>2. new \in [1 .. Len(old) -> CheckState]
    BY <2>1
  <2>3. new \in Seq(CheckState) /\ DOMAIN new = 1 .. Len(old)
    BY <2>1, <2>2, SeqDef
  <2>4. Len(new) \in Nat /\ DOMAIN new = 1 .. Len(new)
    BY <2>3, LenProperties
  <2>5. Len(new) = Len(old)
    BY <2>1, <2>3, <2>4
  <2> QED
    BY <2>1, <2>5
<1>6. Len(old) # 0 => old # <<>> /\ new # <<>> /\ new[Len(new)] \in {old[Len(old)], state}
  BY <1>1, <1>5
<1>7. Len(old) = 0 => old = <<>>
  BY <1>1
<1>8. checks'[h] = new /\ \A g \in Heads : g # h => checks'[g] = checks[g]
  BY <1>2 DEF DataOK
<1> HIDE DEF new
<1>9. \A i \in 1 .. Len(new) - 1 : new[i] # "in_progress"
  BY <1>1, <1>3, <1>5
<1>10. ReplacedRunsAreCompleted'
  BY <1>8, <1>9 DEF ReplacedRunsAreCompleted, Newest
<1>11. ASSUME NEW g \in Heads, NewestState(g) = "failure" PROVE NewestState(g)' = "failure"
  <2>1. CASE g = h
    <3>1. old # <<>> /\ old[Len(old)] = "failure" /\ state = "failure"
      BY <1>4, <1>11, <2>1
    <3>2. Len(old) # 0
      BY <1>7, <3>1
    <3>3. new # <<>> /\ new[Len(new)] = "failure"
      BY <1>6, <3>1, <3>2
    <3> QED
      BY <1>8, <2>1, <3>3 DEF NewestState, Newest
  <2>2. CASE g # h
    BY <1>8, <1>11, <2>2 DEF NewestState, Newest
  <2> QED
    BY <2>1, <2>2
<1> QED
  BY <1>10, <1>11 DEF RunsKept, ShownFailuresStay

\* No run changes.
LEMMA SameRuns ==
  ASSUME ReplacedRunsAreCompleted, UNCHANGED checks
  PROVE  RunsKept
BY DEF RunsKept, ReplacedRunsAreCompleted, ShownFailuresStay, NewestState, Newest

\* The steps at which CheckFits asks nothing.
Elsewhere(w) == attempt[w].step \notin {"create check", "update check"}

LEMMA RoutingKeepsRuns ==
  ASSUME PolicyInv, ReplacedRunsAreCompleted, NEW w \in Workers, RoutingStep(w)
  PROVE  Elsewhere(w)' /\ RunsKept
<1> USE DEF PolicyInv
<1>1. CASE ReadHead(w) \/ Preflight(w) \/ Act(w) \/ RecordOpenedCheck(w) \/ ConcludeRow(w)
           \/ MarkActionFailed(w) \/ EnqueueEvaluation(w) \/ MarkActionSucceeded(w)
           \/ PersistDecision(w)
  <2>1. UNCHANGED checks
    BY <1>1 DEF ReadHead, Preflight, Act, RecordOpenedCheck, ConcludeRow, MarkActionFailed,
         EnqueueEvaluation, MarkActionSucceeded, PersistDecision, github
  <2>2. Elsewhere(w)'
    <3>1. \/ \E step \in {"persist decision", "finish", "ensure check", "act", "mark failed",
                          "caught", "mark succeeded", "enqueue evaluation"} : Goto(w, step)
          \/ Leave(w, "caught", "permanent")
          \/ attempt' = [attempt EXCEPT ![w] =
               [@ EXCEPT !.step = "conclude check", !.error = "permanent"]]
          \/ \E step \in {"finish", "preflight"}, h \in {JobOf(w).key} :
               attempt' = [attempt EXCEPT ![w] = [@ EXCEPT !.step = step, !.decision = h]]
      BY <1>1 DEF ReadHead, Preflight, Act, RecordOpenedCheck, ConcludeRow, MarkActionFailed,
         EnqueueEvaluation, MarkActionSucceeded, PersistDecision, AfterActions
    <3>2. ASSUME NEW step \in {"persist decision", "finish", "ensure check", "act", "mark failed",
                          "caught", "mark succeeded", "enqueue evaluation"}, Goto(w, step)
          PROVE  Elsewhere(w)'
      BY <3>2, AfterGoto DEF Elsewhere, Steps
    <3>3. CASE Leave(w, "caught", "permanent")
      BY <3>3, AfterLeave DEF Elsewhere, Steps
    <3>4. CASE attempt' = [attempt EXCEPT ![w] =
               [@ EXCEPT !.step = "conclude check", !.error = "permanent"]]
      BY <3>4 DEF Elsewhere, AttemptsOK, Attempt
    <3>5. ASSUME NEW step \in {"finish", "preflight"}, NEW h,
                 attempt' = [attempt EXCEPT ![w] = [@ EXCEPT !.step = step, !.decision = h]]
          PROVE  Elsewhere(w)'
      BY <3>5 DEF Elsewhere, AttemptsOK, Attempt
    <3> QED
      BY <3>1, <3>2, <3>3, <3>4, <3>5
  <2> QED
    BY <2>1, <2>2, SameRuns
<1>2. CASE EnsureCheck(w)
  <2> DEFINE h == HeadOf(w)
             initial == Evaluate(h, FALSE)
  <2>1. attempt[w] \in Attempt /\ h \in Heads
    <3>1. attempt[w].step \in Deciding /\ attempt[w].step # "none"
      BY <1>2 DEF EnsureCheck, At, Deciding
    <3> QED
      BY <3>1, Executing
  <2>2. initial \in CheckState
    BY DEF Evaluate, CheckState
  <2> HIDE DEF h, initial
  <2>3. CASE row[h].run # 0
    <3>1. Take(w, "act", row[h].run) /\ UNCHANGED checks
      BY <1>2, <2>3 DEF EnsureCheck, h
    <3>2. row[h].run \in Nat
      BY <2>1 DEF DataOK, Row
    <3> QED
      BY <3>1, <3>2, AfterTake, SameRuns DEF Elsewhere, Steps
  <2>4. CASE row[h].run = 0 /\ Newest(h) # 0
    <3>1. attempt' = [attempt EXCEPT ![w] =
               [@ EXCEPT !.step = "record opened check", !.run = Newest(h),
                         !.verdict = NewestState(h)]] /\ UNCHANGED checks
      BY <1>2, <2>4 DEF EnsureCheck, h
    <3>2. Elsewhere(w)'
      BY <2>1, <3>1 DEF Elsewhere, AttemptsOK, Attempt
    <3> QED
      BY <3>1, <3>2, SameRuns
  <2>5. CASE row[h].run = 0 /\ Newest(h) = 0
    <3>1. /\ checks' = [checks EXCEPT ![h] = <<initial>>]
          /\ attempt' = [attempt EXCEPT ![w] =
               [@ EXCEPT !.step = "record opened check", !.run = 1, !.verdict = initial]]
      BY <1>2, <2>5 DEF EnsureCheck, h, initial
    <3>2. Elsewhere(w)'
      BY <2>1, <3>1 DEF Elsewhere, AttemptsOK, Attempt
    <3>3. checks[h] = <<>>
      BY <2>1, <2>5 DEF DataOK, Newest
    <3>4. Append(checks[h], initial) = <<initial>> /\ NewestState(h) = "not_started"
      BY <3>3 DEF NewestState
    <3>5. RunsKept
      BY <2>1, <2>2, <3>1, <3>4, RunAdded
    <3> QED
      BY <3>2, <3>5
  <2> QED
    BY <2>3, <2>4, <2>5
<1>3. CASE ConcludeCheck(w)
  <2>1. HeadOf(w) \in Heads
    <3>1. attempt[w].step \in Deciding /\ attempt[w].step # "none"
      BY <1>3 DEF ConcludeCheck, At, Deciding
    <3> QED
      BY <3>1, Executing
  <2>2. checks' = [checks EXCEPT ![HeadOf(w)][attempt[w].run] = "failure"] /\ Goto(w, "conclude row")
    BY <1>3 DEF ConcludeCheck
  <2>3. RunsKept
    BY <2>1, <2>2, RunCompleted DEF CheckState
  <2> QED
    BY <2>2, <2>3, AfterGoto DEF Elsewhere, Steps
<1> QED
  BY <1>1, <1>2, <1>3 DEF RoutingStep

LEMMA EvaluationKeepsRuns ==
  ASSUME PolicyInv, ReplacedRunsAreCompleted, NEW w \in Workers, CheckFits(w), EvaluationStep(w)
  PROVE  CheckFits(w)' /\ RunsKept
<1> USE DEF PolicyInv
<1>0. Elsewhere(w)' => CheckFits(w)'
  BY DEF Elsewhere, CheckFits
<1>1. CASE FindDecision(w) \/ FetchState(w) \/ FetchReviews(w) \/ FetchStateAgain(w)
           \/ RecordCheck(w) \/ RecordFailure(w) \/ PersistState(w)
  <2>1. UNCHANGED checks
    BY <1>1 DEF FindDecision, FetchState, FetchReviews, FetchStateAgain, RecordCheck, RecordFailure,
         PersistState, github
  <2>2. Elsewhere(w)'
    <3>1. \/ \E step \in {"finish", "fetch reviews", "find check", "persist state"} : Goto(w, step)
          \/ Leave(w, "caught", "permanent")
          \/ Choose(w, "fetch state")
          \/ \E step \in {"fetch state again", "find check"},
                verdict \in {Evaluate(HeadOf(w), pr.approved)} :
               attempt' = [attempt EXCEPT ![w] = [@ EXCEPT !.verdict = verdict, !.step = step]]
      BY <1>1 DEF FindDecision, FetchState, FetchReviews, FetchStateAgain, RecordCheck, RecordFailure,
         PersistState
    <3>2. ASSUME NEW step \in {"finish", "fetch reviews", "find check", "persist state"}, Goto(w, step)
          PROVE  Elsewhere(w)'
      BY <3>2, AfterGoto DEF Elsewhere, Steps
    <3>3. CASE Leave(w, "caught", "permanent")
      BY <3>3, AfterLeave DEF Elsewhere, Steps
    <3>4. CASE Choose(w, "fetch state")
      BY <3>4 DEF Choose, Elsewhere, AttemptsOK, Attempt
    <3>5. ASSUME NEW step \in {"fetch state again", "find check"}, NEW verdict,
                 attempt' = [attempt EXCEPT ![w] = [@ EXCEPT !.verdict = verdict, !.step = step]]
          PROVE  Elsewhere(w)'
      BY <3>5 DEF Elsewhere, AttemptsOK, Attempt
    <3> QED
      BY <3>1, <3>2, <3>3, <3>4, <3>5
  <2> QED
    BY <1>0, <2>1, <2>2, SameRuns
<1>2. CASE FindCheckToKeepOpen(w)
  <2> DEFINE h == HeadOf(w)
  <2>0. h \in Heads /\ Newest(h) \in Nat
    <3>1. attempt[w].step \in Deciding /\ attempt[w].step # "none"
      BY <1>2 DEF FindCheckToKeepOpen, At, Deciding
    <3> QED
      BY <3>1, Executing, NewestIs
  <2>1. UNCHANGED checks /\ attempt[w].verdict = "in_progress"
    BY <1>2 DEF FindCheckToKeepOpen, github
  <2>2. \/ Goto(w, "record failure") \/ Goto(w, "persist state") \/ Take(w, "record check", Newest(h))
        \/ Goto(w, "create check") /\ NewestState(h) \notin {"failure", "in_progress"}
    BY <1>2 DEF FindCheckToKeepOpen
  <2>3. CASE Goto(w, "create check") /\ NewestState(h) \notin {"failure", "in_progress"}
    <3>1. /\ attempt'[w].step = "create check" /\ attempt'[w].verdict = "in_progress"
          /\ attempt'[w].decision = h
      BY <2>1, <2>3, AfterGoto DEF HeadOf, Steps
    <3>2. CheckFits(w)'
      BY <2>1, <2>3, <3>1 DEF CheckFits, NewestState, Newest
    <3> QED
      BY <2>1, <3>2, SameRuns
  <2>4. CASE \/ Goto(w, "record failure") \/ Goto(w, "persist state")
             \/ Take(w, "record check", Newest(h))
    BY <1>0, <2>0, <2>1, <2>4, AfterGoto, AfterTake, SameRuns DEF Elsewhere, Steps
  <2> QED
    BY <2>2, <2>3, <2>4
<1>3. CASE FindCheckToComplete(w)
  <2> DEFINE h == HeadOf(w)
             run == IF Newest(h) # 0 THEN Newest(h) ELSE attempt[w].seen.run
  <2>0. h \in Heads /\ Newest(h) \in Nat /\ run \in Nat
    <3>1. attempt[w].step \in Deciding /\ attempt[w].step # "none"
      BY <1>3 DEF FindCheckToComplete, At, Deciding
    <3> QED
      BY <3>1, Executing, NewestIs DEF Attempt, Row
  <2>1. UNCHANGED checks /\ attempt[w].verdict # "in_progress"
    BY <1>3 DEF FindCheckToComplete, github
  <2>2. \/ Take(w, "record failure", Newest(h)) \/ Leave(w, "caught", "transient")
        \/ Take(w, "update check", run) /\ NewestState(h) # "failure"
    BY <1>3 DEF FindCheckToComplete
  <2>3. CASE Take(w, "update check", run) /\ NewestState(h) # "failure"
    <3> HIDE DEF run
    <3>1. /\ attempt'[w].step = "update check" /\ attempt'[w].verdict # "in_progress"
          /\ attempt'[w].decision = h
      BY <2>0, <2>1, <2>3, AfterTake DEF HeadOf, Steps
    <3>2. CheckFits(w)'
      BY <2>1, <2>3, <3>1 DEF CheckFits, NewestState, Newest
    <3> QED
      BY <2>1, <3>2, SameRuns
  <2>4. CASE Take(w, "record failure", Newest(h)) \/ Leave(w, "caught", "transient")
    BY <1>0, <2>0, <2>1, <2>4, AfterLeave, AfterTake, SameRuns DEF Elsewhere, Steps
  <2> QED
    BY <2>2, <2>3, <2>4
<1>4. CASE CreateCheck(w)
  <2>1. HeadOf(w) \in Heads
    <3>1. attempt[w].step \in Deciding /\ attempt[w].step # "none"
      BY <1>4 DEF CreateCheck, At, Deciding
    <3> QED
      BY <3>1, Executing
  <2>2. /\ checks' = [checks EXCEPT ![HeadOf(w)] = Append(checks[HeadOf(w)], "in_progress")]
        /\ Take(w, "record check", Newest(HeadOf(w)) + 1)
    BY <1>4, <2>1 DEF CreateCheck, DataOK
  <2>3. NewestState(HeadOf(w)) \notin {"failure", "in_progress"}
    BY <1>4 DEF CreateCheck, CheckFits, At, HeadOf
  <2>4. RunsKept
    BY <2>1, <2>2, <2>3, RunAdded DEF CheckState
  <2>5. Newest(HeadOf(w)) + 1 \in Nat
    BY <2>1, NewestIs
  <2> QED
    BY <1>0, <2>2, <2>4, <2>5, AfterTake DEF Elsewhere, Steps
<1>5. CASE UpdateCheck(w)
  <2>1. HeadOf(w) \in Heads /\ attempt[w].verdict \in CheckState
    <3>1. attempt[w].step \in Deciding /\ attempt[w].step # "none"
      BY <1>5 DEF UpdateCheck, At, Deciding
    <3> QED
      BY <3>1, Executing DEF Attempt
  <2>2. /\ checks' = [checks EXCEPT ![HeadOf(w)][attempt[w].run] = attempt[w].verdict]
        /\ Goto(w, "record check") \/ Goto(w, "persist state")
    BY <1>5 DEF UpdateCheck
  <2>3. attempt[w].verdict # "in_progress" /\ NewestState(HeadOf(w)) # "failure"
    BY <1>5 DEF UpdateCheck, CheckFits, At, HeadOf
  <2>4. RunsKept
    BY <2>1, <2>2, <2>3, RunCompleted
  <2> QED
    BY <1>0, <2>2, <2>4, AfterGoto DEF Elsewhere, Steps
<1> QED
  BY <1>1, <1>2, <1>3, <1>4, <1>5 DEF EvaluationStep

LEMMA FailureKeepsRuns ==
  ASSUME PolicyInv, ReplacedRunsAreCompleted, NEW w \in Workers, FailureStep(w)
  PROVE  Elsewhere(w)' /\ RunsKept
<1> USE DEF PolicyInv
<1>1. CASE FindFailedDecision(w)
  <2>1. UNCHANGED checks
    BY <1>1 DEF FindFailedDecision, github
  <2> DEFINE j == JobOf(w)
             h == IF ~IsEvaluation(j) THEN (IF Persisted(j.key) THEN j.key ELSE NoHead)
                  ELSE IF recovery[j] \in Heads THEN recovery[j] ELSE Latest
             step == IF IsEvaluation(j) /\ row[h].state = "failure"
                     THEN "finalized" ELSE "find failed check"
             chosen == IsEvaluation(j) /\ recovery[j] = "unnamed"
  <2>2. ASSUME h = NoHead PROVE Elsewhere(w)'
    <3>1. Goto(w, "finalized") /\ "finalized" \in Steps
      BY <1>1, <2>2 DEF FindFailedDecision, Steps
    <3>2. attempt'[w].step = "finalized"
      BY <3>1, AfterGoto, Zenon
    <3> QED
      BY <3>2 DEF Elsewhere
  <2>3. ASSUME h # NoHead PROVE Elsewhere(w)'
    <3>1. attempt' = [attempt EXCEPT ![w] = [@ EXCEPT !.step = step, !.decision = h,
                                                      !.seen = row[h], !.chosen = chosen]]
      BY <1>1, <2>3 DEF FindFailedDecision
    <3>2. step \notin {"create check", "update check"}
      OBVIOUS
    <3> HIDE DEF h, step, chosen
    <3> QED
      BY <3>1, <3>2 DEF Elsewhere, AttemptsOK, Attempt
  <2>4. Elsewhere(w)'
    BY <2>2, <2>3
  <2> QED
    BY <2>1, <2>4, SameRuns
<1>2. CASE FindFailedCheck(w)
  <2>1. UNCHANGED checks
    BY <1>2 DEF FindFailedCheck, github
  <2>2. HeadOf(w) \in Heads /\ attempt[w].seen.run \in Nat
    <3>1. attempt[w].step \in Deciding /\ attempt[w].step # "none"
      BY <1>2 DEF FindFailedCheck, At, Deciding
    <3> QED
      BY <3>1, Executing DEF Attempt, Row
  <2>3. Newest(HeadOf(w)) \in Nat
    BY <2>2, NewestIs
  <2>4. \/ Goto(w, "finalized")
        \/ \E run \in Nat : Take(w, "record failed check", run) \/ Take(w, "fail check", run)
    BY <1>2, <2>2, <2>3 DEF FindFailedCheck
  <2>5. Elsewhere(w)'
    BY <2>4, AfterGoto, AfterTake DEF Elsewhere, Steps
  <2> QED
    BY <2>1, <2>5, SameRuns
<1>3. CASE FailCheck(w)
  <2>1. HeadOf(w) \in Heads
    <3>1. attempt[w].step \in Deciding /\ attempt[w].step # "none"
      BY <1>3 DEF FailCheck, At, Deciding
    <3> QED
      BY <3>1, Executing
  <2>2. /\ checks' = [checks EXCEPT ![HeadOf(w)][attempt[w].run] = "failure"]
        /\ Goto(w, "record failed check")
    BY <1>3 DEF FailCheck
  <2>3. RunsKept
    BY <2>1, <2>2, RunCompleted DEF CheckState
  <2> QED
    BY <2>2, <2>3, AfterGoto DEF Elsewhere, Steps
<1>4. CASE RecordFailedCheck(w)
  BY <1>4, AfterGoto, SameRuns DEF RecordFailedCheck, github, Elsewhere, Steps
<1> QED
  BY <1>1, <1>2, <1>3, <1>4 DEF FailureStep

\* Claims, errors, deaths and settlements.
LEMMA OthersKeepRuns ==
  ASSUME PolicyInv, ReplacedRunsAreCompleted, NEW w \in Workers,
         \/ SettleStep(w) \/ Fault(w)
         \/ \E j \in Jobs : Claim(w, j)
  PROVE  Elsewhere(w)' /\ RunsKept
<1> USE DEF PolicyInv
<1>1. UNCHANGED checks
  BY DEF SettleStep, Finish, CatchAndFinalize, CatchAndRetry, Finalized, RecoveryFailed, SettleStale,
         Fault, Throw, RecoveryUnsettled, Crash, Claim, github
<1>2. \/ Done(w)
      \/ \E error \in {"transient", "permanent"} :
            Leave(w, "caught", error) \/ Leave(w, "recovery failed", error)
      \/ \E j \in Jobs : Claim(w, j)
  BY DEF SettleStep, Finish, CatchAndFinalize, CatchAndRetry, Finalized, RecoveryFailed, SettleStale,
         Fault, Throw, RecoveryUnsettled, Crash
<1>3. CASE Done(w)
  BY <1>1, <1>3, AfterDone, SameRuns DEF Elsewhere
<1>4. CASE \E error \in {"transient", "permanent"} :
             Leave(w, "caught", error) \/ Leave(w, "recovery failed", error)
  BY <1>1, <1>4, AfterLeave, SameRuns DEF Elsewhere, Steps
<1>5. ASSUME NEW j \in Jobs, Claim(w, j) PROVE Elsewhere(w)' /\ RunsKept
  <2>1. attempt'[w].step = FirstStep(j)
    BY <1>5 DEF Claim, AttemptsOK, NoAttempt
  <2>2. FirstStep(j) \in {"find failed decision", "find decision", "read head"}
    BY DEF FirstStep
  <2> QED
    BY <1>1, <2>1, <2>2, SameRuns DEF Elsewhere
<1> QED
  BY <1>2, <1>3, <1>4, <1>5

LEMMA ShownStep ==
  ASSUME OneWorker, PolicyInv, ShownInv, [PolicyNext]_policyVars
  PROVE  ShownInv' /\ RunsKept
<1> USE DEF PolicyInv, ShownInv
<1>1. ASSUME NEW w \in Workers, CheckFits(w)' PROVE \A v \in Workers : CheckFits(v)'
  BY <1>1 DEF OneWorker
<1>2. CASE UNCHANGED <<attempt, checks>>
  BY <1>2, SameRuns DEF CheckFits, NewestState, Newest, RunsKept
<1>3. ASSUME NEW w \in Workers, Advance(w) \/ (\E j \in Jobs : Claim(w, j)) \/ Fault(w)
      PROVE  ShownInv' /\ RunsKept
  <2>1. Elsewhere(w)' => CheckFits(w)'
    BY DEF Elsewhere, CheckFits
  <2>2. CheckFits(w)' /\ RunsKept
    BY <1>3, <2>1, RoutingKeepsRuns, EvaluationKeepsRuns, FailureKeepsRuns, OthersKeepRuns DEF Advance
  <2> QED
    BY <1>1, <2>2 DEF RunsKept
<1>4. GitHubStep \/ (\E w \in Workers : \E j \in Jobs : Sweep(w, j)) \/ UNCHANGED policyVars
        => UNCHANGED <<attempt, checks>>
  BY DEF GitHubStep, Opened, Close, Reopen, Push, Review, Sweep, policyVars, github
<1> QED
  BY <1>2, <1>3, <1>4 DEF PolicyNext, Regular

\* With one worker, what it is about to write agrees with the newest run.
THEOREM ShownInvariant == OneWorker => (PolicySpec => []ShownInv)
<1> SUFFICES ASSUME OneWorker PROVE PolicySpec => []ShownInv
  OBVIOUS
<1>1. PolicyInit => ShownInv
  <2> SUFFICES ASSUME PolicyInit PROVE ShownInv
    OBVIOUS
  <2>1. \A h \in Heads : Newest(h) = 0
    BY DEF PolicyInit, Newest
  <2>2. ReplacedRunsAreCompleted
    BY <2>1 DEF ReplacedRunsAreCompleted
  <2>3. \A w \in Workers : attempt[w].step = "none"
    BY DEF PolicyInit, NoAttempt
  <2> QED
    BY <2>2, <2>3 DEF ShownInv, CheckFits
<1>2. PolicyInv /\ ShownInv /\ [PolicyNext]_policyVars => ShownInv'
  BY ShownStep
<1> QED
  BY <1>1, <1>2, PolicyInvariant, PTL DEF PolicySpec

\* However often attempts die between creating a run and recording it, none is
\* left in progress behind another one (updatePolicyCheck).
THEOREM PolicyReplacesCompletedRuns == OneWorker => (PolicySpec => []ReplacedRunsAreCompleted)
BY ShownInvariant, PTL DEF ShownInv

\* No evaluation reopens or replaces a failure that GitHub shows, also before
\* the row has it (updatePolicyCheck, failPolicyCheck).
THEOREM PolicyKeepsShownFailures == OneWorker => (PolicySpec => ShownFailureIsFinal)
<1> SUFFICES ASSUME OneWorker PROVE PolicySpec => ShownFailureIsFinal
  OBVIOUS
<1>1. PolicyInv /\ ShownInv /\ [PolicyNext]_policyVars =>
        [\A h \in Heads : NewestState(h) = "failure" => NewestState(h)' = "failure"]_policyVars
  BY ShownStep DEF RunsKept, ShownFailuresStay
<1> QED
  BY <1>1, ShownInvariant, PolicyInvariant, PTL DEF PolicySpec, ShownFailureIsFinal

-----------------------------------------------------------------------------
(* A single worker, and a pull request that stays open and never returns   *)
(* to an earlier head: the check agrees with the reviews once they are     *)
(* all evaluated.                                                          *)

SingleStory == OneWorker /\ ~MayReturn /\ ~MayReopen

Evaluations == {j \in Jobs : IsEvaluation(j)}
Over(j) == job[j].status \in {"absent", "succeeded"}
Routed(h) == job[RoutingJob(h)].status # "absent"
Asked(h) == job[EvaluationJob(h)].status # "absent"
Human(h) == RouteOf[h] = "human_review"
Unfailed(h) == row[h].state # "failure" /\ NewestState(h) # "failure"

Agreed(h) ==
  /\ row[h] = [run |-> Newest(h), state |-> Evaluate(h, pr.approved)]
  /\ NewestState(h) = row[h].state

\* The newest decision is the one for the head, once it is routed; a first
\* evaluation is asked for before its decision counts as carried out.
HeadsInv ==
  /\ pr.open
  /\ \A h \in Heads : ~Routed(h) => ~Persisted(h) /\ h \notin succeeded
  /\ \A h \in Heads : Asked(h) => Persisted(h)
  /\ Persisted(pr.head) => decided[Len(decided)] = pr.head
  /\ \A h \in succeeded : Human(h) => Asked(h)
  /\ Human(pr.head) /\ job[RoutingJob(pr.head)].status = "succeeded" => Asked(pr.head)

RunsExist == \A h \in Heads : row[h].run <= Newest(h)

\* While no evaluation waits, runs or has failed, the last one is up to date.
EvaluatedInv ==
  Human(pr.head) /\ Asked(pr.head) /\ (\A j \in Evaluations : Over(j)) /\ Unfailed(pr.head)
  => Agreed(pr.head)

RoutingWork ==
  {"preflight", "ensure check", "record opened check", "act", "conclude check",
   "conclude row", "enqueue evaluation", "mark succeeded", "mark failed"}
Evaluating ==
  {"find decision", "fetch state", "fetch reviews", "fetch state again", "find check",
   "create check", "update check", "record check", "record failure", "persist state"}

\* What an attempt knows of its job, of the row and of the head.
KindFits(w) ==
  LET a == attempt[w] IN
  /\ a.step \in RoutingWork => a.job = RoutingJob(a.decision) /\ Persisted(a.decision)
  /\ a.step \in Evaluating => IsEvaluation(a.job)

RowFits(w) ==
  LET a == attempt[w]  h == a.decision IN
  /\ a.step = "record opened check" => row[h].run = 0
  /\ a.step \in {"act", "conclude check"} => row[h].state = "failure" \/ a.run = row[h].run
  /\ a.step \in {"fetch state", "fetch reviews", "fetch state again", "find check",
                 "update check", "find failed check"} => a.seen = row[h]
  /\ a.step = "fail check" /\ ~IsEvaluation(a.job) /\ row[h].run # 0 => a.run = row[h].run
  /\ a.step \in {"record opened check", "update check", "record check",
                 "fail check", "record failed check"} => a.run <= Newest(h)
  /\ a.step = "record failure" /\ a.verdict # "in_progress" => a.run <= Newest(h)

RouteFits(w) ==
  LET a == attempt[w]  key == a.job.key IN
  /\ a.step = "persist decision" => key = pr.head \/ ~Persisted(pr.head)
  /\ a.step = "mark succeeded" /\ Human(a.decision) => Asked(a.decision)
  /\ a.step = "finish" /\ ~IsEvaluation(a.job) /\ Human(key) => key # pr.head \/ Asked(key)

\* No other evaluation waits, runs or has failed.
Alone(w) ==
  /\ IsEvaluation(JobOf(w)) /\ Human(pr.head) /\ Asked(pr.head)
  /\ \A i \in Evaluations : i = JobOf(w) \/ Over(i)

\* What such an evaluation knows: nothing moves under it.
VerdictFits(w) ==
  LET a == attempt[w]  h == pr.head IN
  /\ a.step \in Evaluating \ {"find decision"} => a.decision = h
  /\ a.step \in Evaluating \ {"find decision", "fetch state", "fetch reviews"} =>
       a.verdict = Evaluate(h, pr.approved)
  /\ a.step = "update check" => a.run = Newest(h) /\ a.run # 0
  /\ a.step \in {"record check", "persist state"} => NewestState(h) = a.verdict
  /\ a.step = "record check" => a.run = Newest(h)
  /\ a.step = "persist state" => row[h].state = "failure" \/ row[h].run = Newest(h)
  /\ a.step = "finish" => (Unfailed(h) => Agreed(h))

AttemptFits(w) ==
  attempt[w].step # "none" =>
    /\ job[JobOf(w)].status = "running" /\ job[JobOf(w)].holder = w
    /\ KindFits(w) /\ RowFits(w) /\ RouteFits(w)
    /\ Alone(w) => VerdictFits(w)

CurrentInv ==
  /\ HeadsInv /\ RunsExist /\ EvaluatedInv
  /\ \A w \in Workers : AttemptFits(w)

\* Jobs are told apart by kind and key.
LEMMA JobNames ==
  /\ \A h \in Heads : /\ RoutingJob(h) \in Jobs /\ ~IsEvaluation(RoutingJob(h))
                      /\ RoutingJob(h).key = h
  /\ \A k \in Heads \cup Reviews : EvaluationJob(k) \in Jobs /\ IsEvaluation(EvaluationJob(k))
  /\ \A g, h \in Heads : RoutingJob(g) = RoutingJob(h) => g = h
  /\ \A k, l \in Heads \cup Reviews : EvaluationJob(k) = EvaluationJob(l) => k = l
  /\ \A j \in Jobs : ~IsEvaluation(j) => j.key \in Heads /\ j = RoutingJob(j.key)
<1>1. \A h \in Heads : /\ RoutingJob(h) \in Jobs /\ ~IsEvaluation(RoutingJob(h))
                        /\ RoutingJob(h).key = h
  <2> TAKE h \in Heads
  <2>1. RoutingJob(h) \in Jobs
    BY PolicyAssumption
  <2> QED
    BY <2>1 DEF RoutingJob, IsEvaluation
<1>2. \A k \in Heads \cup Reviews : /\ EvaluationJob(k) \in Jobs /\ IsEvaluation(EvaluationJob(k))
                                     /\ EvaluationJob(k).key = k
  <2> TAKE k \in Heads \cup Reviews
  <2>1. EvaluationJob(k) \in Jobs
    BY PolicyAssumption
  <2> QED
    BY <2>1 DEF EvaluationJob, IsEvaluation
<1>3. \A g, h \in Heads : RoutingJob(g) = RoutingJob(h) => g = h
  BY <1>1
<1>4. \A k, l \in Heads \cup Reviews : EvaluationJob(k) = EvaluationJob(l) => k = l
  BY <1>2
<1>5. ASSUME NEW j \in Jobs, ~IsEvaluation(j) PROVE j.key \in Heads /\ j = RoutingJob(j.key)
  <2>1. PICK h \in Heads : j = RoutingJob(h)
    BY <1>2, <1>5, PolicyAssumption
  <2> QED
    BY <1>1, <2>1
<1> QED
  BY <1>1, <1>2, <1>3, <1>4, <1>5

\* What a working attempt may rely on.
LEMMA Working ==
  ASSUME PolicyInv, CurrentInv, NEW w \in Workers, attempt[w].step # "none"
  PROVE  /\ job[JobOf(w)].status = "running" /\ job[JobOf(w)].holder = w
         /\ KindFits(w) /\ RowFits(w) /\ RouteFits(w) /\ (Alone(w) => VerdictFits(w))
         /\ JobOf(w) \in Jobs /\ attempt[w] \in Attempt
BY Executing DEF PolicyInv, CurrentInv, AttemptFits

\* The verdict on a decision that asks for human review.
LEMMA EvaluateIs ==
  ASSUME NEW h, NEW approved
  PROVE  /\ Evaluate(h, approved) \in CheckState
         /\ Human(h) => Evaluate(h, approved) \in {"success", "in_progress"}
BY DEF Evaluate, CheckState, Human

\* A row that agrees has a run.
LEMMA AgreedHasRun ==
  ASSUME PolicyInv, Agreed(pr.head)
  PROVE  row[pr.head].run # 0 /\ Newest(pr.head) # 0
<1> DEFINE h == pr.head
<1>1. h \in Heads
  BY DEF PolicyInv, DataOK
<1>2. row[h].run = Newest(h) /\ row[h].state = Evaluate(h, pr.approved) /\ NewestState(h) = row[h].state
  BY DEF Agreed
<1>3. NewestState(h) \in CheckState
  BY <1>2, EvaluateIs
<1>4. checks[h] # <<>>
  BY <1>3 DEF NewestState, CheckState
<1>5. Newest(h) # 0
  BY <1>1, <1>4 DEF PolicyInv, DataOK, Newest
<1> QED
  BY <1>2, <1>5

\* The newest decision is that of a head whose evaluation was asked for.
LEMMA LatestIs ==
  ASSUME PolicyInv, HeadsInv, Human(pr.head), Asked(pr.head)
  PROVE  Latest = pr.head /\ pr.head # NoHead
<1>1. pr.head \in Heads /\ pr.head # NoHead
  BY PolicyAssumption DEF PolicyInv, DataOK
<1>2. Persisted(pr.head) /\ decided[Len(decided)] = pr.head
  BY <1>1 DEF HeadsInv
<1>3. decided # <<>>
  BY <1>2 DEF Persisted
<1>4. RouteOf[decided[Len(decided)]] # "shadow"
  BY <1>2 DEF Human
<1> QED
  BY <1>1, <1>2, <1>3, <1>4 DEF Latest

-----------------------------------------------------------------------------
(* How the invariant survives a change of the jobs, of a row, of a run.    *)

JobMoves(j, status) == job'[j].status = status /\ \A i \in Jobs \ {j} : job'[i] = job[i]

LEMMA JobRows == ASSUME PolicyInv, NEW j \in Jobs PROVE job \in [Jobs -> JobRow] /\ job[j] \in JobRow
BY DEF PolicyInv, JobOK

LEMMA Moves ==
  ASSUME PolicyInv, NEW j \in Jobs
  PROVE  /\ Submit(j) => JobMoves(j, "queued") /\ job[j].status = "absent"
         /\ \A w \in Workers : Acquire(w, j) =>
              JobMoves(j, "running") /\ job'[j].holder = w /\ job[j].status = "queued"
         /\ \A w \in Workers, outcome \in {"succeeded", "failed"} :
              Conclude(w, j, outcome) => JobMoves(j, outcome)
         /\ \A w \in Workers, max \in Nat : GiveBack(w, j, max) => JobMoves(j, "queued")
         /\ Vanish(j) => JobMoves(j, job[j].status)
         /\ Expire({j}) => JobMoves(j, "queued") \/ JobMoves(j, "failed")
<1> USE JobRows DEF JobMoves, JobRow
<1>1. Submit(j) => JobMoves(j, "queued") /\ job[j].status = "absent"
  BY DEF Submit
<1>2. ASSUME NEW w \in Workers, Acquire(w, j)
      PROVE  JobMoves(j, "running") /\ job'[j].holder = w /\ job[j].status = "queued"
  BY <1>2 DEF Acquire
<1>3. ASSUME NEW w \in Workers, NEW outcome \in {"succeeded", "failed"}, Conclude(w, j, outcome)
      PROVE  JobMoves(j, outcome)
  BY <1>3 DEF Conclude
<1>4. ASSUME NEW w \in Workers, NEW max \in Nat, GiveBack(w, j, max) PROVE JobMoves(j, "queued")
  BY <1>4 DEF GiveBack
<1>5. Vanish(j) => JobMoves(j, job[j].status)
  BY DEF Vanish
<1>6. Expire({j}) => JobMoves(j, "queued") \/ JobMoves(j, "failed")
  BY DEF Expire
<1> QED
  BY <1>1, <1>2, <1>3, <1>4, <1>5, <1>6

\* A job leaves "absent" only for a decision, and succeeds only when its
\* evaluation was asked for.
LEMMA HeadsMove ==
  ASSUME PolicyInv, HeadsInv, NEW j \in Jobs, NEW status, JobMoves(j, status), status # "absent",
         job[j].status = "absent" => \A h \in Heads : j = EvaluationJob(h) => Persisted(h),
         status = "succeeded" /\ j = RoutingJob(pr.head) /\ Human(pr.head) => Asked(pr.head),
         pr'.open = pr.open, pr'.head = pr.head, UNCHANGED <<decided, succeeded>>
  PROVE  HeadsInv'
<1>1. pr.head \in Heads /\ succeeded \subseteq Heads
  BY DEF PolicyInv, DataOK
<1>2. \A i \in Jobs : job[i].status # "absent" => job'[i].status # "absent"
  BY DEF JobMoves
<1>3. \A h \in Heads : RoutingJob(h) \in Jobs /\ EvaluationJob(h) \in Jobs
  BY JobNames
<1>4. \A h \in Heads : (Routed(h) => Routed(h)') /\ (Asked(h) => Asked(h)')
  BY <1>2, <1>3 DEF Routed, Asked
<1>5. ASSUME NEW h \in Heads PROVE Persisted(h)' <=> Persisted(h)
  BY DEF Persisted
<1>6. ASSUME NEW h \in Heads, Asked(h)' PROVE Persisted(h)
  <2>1. CASE Asked(h)
    BY <2>1 DEF HeadsInv
  <2>2. CASE ~Asked(h)
    <3>1. j = EvaluationJob(h)
      BY <1>3, <1>6, <2>2 DEF JobMoves, Asked
    <3> QED
      BY <2>2, <3>1 DEF Asked
  <2> QED
    BY <2>1, <2>2
<1>7. ASSUME Human(pr.head), job'[RoutingJob(pr.head)].status = "succeeded" PROVE Asked(pr.head)
  <2>1. CASE j = RoutingJob(pr.head)
    BY <1>7, <2>1 DEF JobMoves
  <2>2. CASE j # RoutingJob(pr.head)
    BY <1>1, <1>3, <1>7, <2>2 DEF JobMoves, HeadsInv
  <2> QED
    BY <2>1, <2>2
<1>8. \A h \in Heads : ~Routed(h)' => ~Persisted(h)' /\ h \notin succeeded'
  BY <1>4, <1>5 DEF HeadsInv
<1>9. \A h \in Heads : Asked(h)' => Persisted(h)'
  BY <1>5, <1>6
<1>10. pr'.open /\ (Persisted(pr.head)' => decided'[Len(decided')] = pr'.head)
  BY <1>1, <1>5 DEF HeadsInv
<1>11. \A h \in succeeded' : Human(h) => Asked(h)'
  BY <1>1, <1>4 DEF HeadsInv
<1>12. Human(pr.head) /\ job'[RoutingJob(pr.head)].status = "succeeded" => Asked(pr.head)'
  BY <1>1, <1>4, <1>7
<1> QED
  BY <1>8, <1>9, <1>10, <1>11, <1>12 DEF HeadsInv, Human, Persisted, Asked

\* The jobs and decisions stay.
LEMMA HeadsSame ==
  ASSUME HeadsInv, UNCHANGED <<job, pr, decided, succeeded>>
  PROVE  HeadsInv'
BY DEF HeadsInv, Persisted, Human, Asked, Routed

LEMMA RunsSame ==
  ASSUME RunsExist, UNCHANGED <<row, checks>>
  PROVE  RunsExist'
BY DEF RunsExist, Newest

LEMMA EvaluatedSame ==
  ASSUME EvaluatedInv, UNCHANGED <<job, pr, row, checks>>
  PROVE  EvaluatedInv'
BY DEF EvaluatedInv, Human, Asked, Over, Unfailed, Agreed, NewestState, Newest

\* The job of a routing attempt moves.
LEMMA EvaluatedRoutes ==
  ASSUME PolicyInv, EvaluatedInv, NEW j \in Jobs, ~IsEvaluation(j), NEW status, JobMoves(j, status),
         UNCHANGED <<pr, row, checks>>
  PROVE  EvaluatedInv'
<1>1. \A i \in Evaluations : job'[i] = job[i]
  BY DEF JobMoves, Evaluations
<1>2. EvaluationJob(pr.head) \in Evaluations
  BY JobNames DEF Evaluations, PolicyInv, DataOK
<1>3. Asked(pr.head)' <=> Asked(pr.head)
  BY <1>1, <1>2 DEF Asked
<1>4. (\A i \in Evaluations : Over(i))' <=> (\A i \in Evaluations : Over(i))
  BY <1>1 DEF Over, Evaluations
<1>5. (Unfailed(pr.head)' <=> Unfailed(pr.head)) /\ (Agreed(pr.head)' <=> Agreed(pr.head))
      /\ (Human(pr.head)' <=> Human(pr.head))
  BY DEF Unfailed, Agreed, Human, NewestState, Newest
<1> QED
  BY <1>3, <1>4, <1>5 DEF EvaluatedInv

\* An evaluation waits, runs or has failed.
LEMMA EvaluationWaits ==
  ASSUME NEW j \in Evaluations, job'[j].status \notin {"absent", "succeeded"}
  PROVE  EvaluatedInv'
BY DEF EvaluatedInv, Over, Evaluations

\* The attempt of the one worker.
LEMMA FitsAll ==
  ASSUME OneWorker, NEW w \in Workers, AttemptFits(w)'
  PROVE  (\A v \in Workers : AttemptFits(v))'
BY DEF OneWorker

\* An attempt proceeds while nothing else changes.
LEMMA QuietStep ==
  ASSUME OneWorker, PolicyInv, CurrentInv, NEW w \in Workers, attempt[w].step # "none",
         UNCHANGED <<job, github, database>>, attempt'[w].job = attempt[w].job,
         KindFits(w)', RowFits(w)', RouteFits(w)', Alone(w) => VerdictFits(w)'
  PROVE  CurrentInv'
<1>1. HeadsInv' /\ RunsExist' /\ EvaluatedInv'
  BY HeadsSame, RunsSame, EvaluatedSame DEF CurrentInv, github, database
<1>2. JobOf(w)' = JobOf(w)
  BY DEF JobOf
<1>3. Alone(w)' <=> Alone(w)
  BY <1>2 DEF Alone, Human, Asked, Over, github, database
<1>4. job'[JobOf(w)'].status = "running" /\ job'[JobOf(w)'].holder = w
  BY <1>2, Working
<1>5. AttemptFits(w)'
  BY <1>3, <1>4 DEF AttemptFits
<1> QED
  BY <1>1, <1>5, FitsAll DEF CurrentInv

\* A step at which an attempt needs to know nothing.
Careless == {"caught", "recovery failed", "finalized"}

LEMMA CarelessOK ==
  ASSUME NEW w \in Workers, attempt'[w].step \in Careless
  PROVE  KindFits(w)' /\ RowFits(w)' /\ RouteFits(w)' /\ VerdictFits(w)'
BY DEF Careless, KindFits, RowFits, RouteFits, VerdictFits, RoutingWork, Evaluating

\* An attempt leaves, or proceeds to such a step.
LEMMA CarelessStep ==
  ASSUME OneWorker, PolicyInv, CurrentInv, NEW w \in Workers, attempt[w].step # "none",
         UNCHANGED <<job, github, database>>,
         \/ \E step \in Careless : Goto(w, step)
         \/ \E step \in Careless, error \in {"transient", "permanent"} : Leave(w, step, error)
  PROVE  CurrentInv'
<1>1. attempt'[w].step \in Careless /\ attempt'[w].job = attempt[w].job
  BY AfterGoto, AfterLeave DEF PolicyInv, Careless, Steps
<1> QED
  BY <1>1, CarelessOK, QuietStep

-----------------------------------------------------------------------------
(* The steps of a routing job.                                             *)

\* A routing job is no evaluation.
LEMMA RoutingIsNotAlone ==
  ASSUME PolicyInv, CurrentInv, NEW w \in Workers,
         attempt[w].step \in RoutingWork \cup Undecided
  PROVE  /\ attempt[w].step # "none" /\ ~Alone(w) /\ ~IsEvaluation(JobOf(w))
         /\ JobOf(w).key \in Heads /\ JobOf(w) = RoutingJob(JobOf(w).key)
         /\ attempt[w].step \in RoutingWork =>
              HeadOf(w) \in Heads /\ JobOf(w).key = HeadOf(w) /\ Persisted(HeadOf(w))
<1>1. attempt[w].step # "none"
  BY DEF RoutingWork, Undecided
<1>2. /\ KindFits(w) /\ JobOf(w) \in Jobs
      /\ attempt[w].step \in Undecided => \E h \in Heads : JobOf(w) = RoutingJob(h)
  BY <1>1, Working, Executing DEF AttemptOK, PolicyInv, JobOf
<1>3. attempt[w].step \in RoutingWork => HeadOf(w) \in Heads
  <2>1. RoutingWork \subseteq Deciding
    BY DEF RoutingWork, Deciding
  <2> QED
    BY <1>1, <2>1, Executing DEF PolicyInv
<1>4. attempt[w].step \in RoutingWork => JobOf(w) = RoutingJob(HeadOf(w)) /\ Persisted(HeadOf(w))
  BY <1>2 DEF KindFits, JobOf, HeadOf
<1>5. \E h \in Heads : JobOf(w) = RoutingJob(h)
  BY <1>2, <1>3, <1>4
<1> QED
  BY <1>1, <1>3, <1>4, <1>5, JobNames DEF Alone

LEMMA ReadHeadFits ==
  ASSUME OneWorker, PolicyInv, CurrentInv, NEW w \in Workers, ReadHead(w)
  PROVE  CurrentInv'
<1> DEFINE key == JobOf(w).key
           step == IF key \notin succeeded /\ pr.head = key THEN "persist decision" ELSE "finish"
<1>1. Goto(w, step) /\ UNCHANGED <<job, github, database>> /\ attempt[w].step = "read head"
  BY DEF ReadHead, At
<1>2. attempt[w].step # "none" /\ ~Alone(w) /\ ~IsEvaluation(JobOf(w)) /\ key \in Heads
  BY <1>1, RoutingIsNotAlone DEF Undecided
<1>3. step \in {"persist decision", "finish"} /\ step \in Steps
  BY DEF Steps
<1>4. /\ step = "persist decision" => key = pr.head
      /\ step = "finish" => key \in succeeded \/ key # pr.head
  OBVIOUS
<1> HIDE DEF step
<1>5. attempt'[w].step = step /\ attempt'[w].job = attempt[w].job
  BY <1>1, <1>3, AfterGoto DEF PolicyInv
<1>6. KindFits(w)' /\ RowFits(w)'
  BY <1>3, <1>5 DEF KindFits, RowFits, RoutingWork, Evaluating
<1>7. attempt'[w].job.key = key
  BY <1>5 DEF JobOf
<1>8. key \in succeeded /\ Human(key) => Asked(key)
  BY DEF CurrentInv, HeadsInv
<1>9. RouteFits(w)'
  BY <1>1, <1>3, <1>4, <1>5, <1>7, <1>8 DEF RouteFits, Human, Asked, github
<1> QED
  BY <1>1, <1>2, <1>5, <1>6, <1>9, QuietStep

LEMMA PreflightFits ==
  ASSUME OneWorker, PolicyInv, CurrentInv, NEW w \in Workers, Preflight(w)
  PROVE  CurrentInv'
<1>1. UNCHANGED <<job, github, database>> /\ attempt[w].step = "preflight"
      /\ (Goto(w, "ensure check") \/ Leave(w, "caught", "permanent"))
  BY DEF Preflight, At
<1>2. attempt[w].step # "none" /\ ~Alone(w) /\ KindFits(w)
  BY <1>1, RoutingIsNotAlone, Working DEF RoutingWork
<1>3. CASE Leave(w, "caught", "permanent")
  BY <1>1, <1>2, <1>3, CarelessStep DEF Careless
<1>4. CASE Goto(w, "ensure check")
  <2>1. attempt'[w].step = "ensure check" /\ attempt'[w].job = attempt[w].job
        /\ attempt'[w].decision = attempt[w].decision
    BY <1>4, AfterGoto DEF PolicyInv, Steps
  <2>2. KindFits(w)'
    BY <1>1, <1>2, <2>1 DEF KindFits, RoutingWork, Evaluating, Persisted, database
  <2>3. RowFits(w)' /\ RouteFits(w)'
    BY <2>1 DEF RowFits, RouteFits
  <2> QED
    BY <1>1, <1>2, <2>1, <2>2, <2>3, QuietStep
<1> QED
  BY <1>1, <1>3, <1>4

LEMMA ActFits ==
  ASSUME OneWorker, PolicyInv, CurrentInv, NEW w \in Workers, Act(w)
  PROVE  CurrentInv'
<1> DEFINE after == AfterActions(RouteOf[HeadOf(w)])
<1>1. UNCHANGED <<job, github, database>> /\ attempt[w].step = "act"
      /\ \/ Goto(w, after)
         \/ attempt' = [attempt EXCEPT ![w] = [@ EXCEPT !.step = "conclude check", !.error = "permanent"]]
  BY DEF Act, At
<1>2. attempt[w].step # "none" /\ ~Alone(w) /\ KindFits(w) /\ RowFits(w) /\ ~IsEvaluation(JobOf(w))
      /\ JobOf(w).key = HeadOf(w)
  BY <1>1, RoutingIsNotAlone, Working DEF RoutingWork
<1>3. CASE Goto(w, after)
  <2>1. /\ after \in {"enqueue evaluation", "mark succeeded", "finish"} /\ after \in Steps
        /\ after # "enqueue evaluation" => ~Human(HeadOf(w))
    BY DEF AfterActions, Steps, Human
  <2> HIDE DEF after
  <2>2. attempt'[w].step = after /\ attempt'[w].job = attempt[w].job
        /\ attempt'[w].decision = attempt[w].decision
    BY <1>3, <2>1, AfterGoto DEF PolicyInv
  <2>3. KindFits(w)'
    BY <1>1, <1>2, <2>1, <2>2 DEF KindFits, RoutingWork, Evaluating, Persisted, database
  <2>4. RowFits(w)'
    BY <2>1, <2>2 DEF RowFits
  <2>5. RouteFits(w)'
    <3>1. attempt'[w].job.key = HeadOf(w) /\ attempt'[w].decision = HeadOf(w)
      BY <1>2, <2>2 DEF JobOf, HeadOf
    <3> QED
      BY <2>1, <2>2, <3>1 DEF RouteFits, Human
  <2> QED
    BY <1>1, <1>2, <2>2, <2>3, <2>4, <2>5, QuietStep
<1>4. CASE attempt' = [attempt EXCEPT ![w] =
             [@ EXCEPT !.step = "conclude check", !.error = "permanent"]]
  <2>1. /\ attempt'[w].step = "conclude check" /\ attempt'[w].job = attempt[w].job
        /\ attempt'[w].decision = attempt[w].decision /\ attempt'[w].run = attempt[w].run
    BY <1>4 DEF PolicyInv, AttemptsOK, Attempt
  <2>2. KindFits(w)'
    BY <1>1, <1>2, <2>1 DEF KindFits, RoutingWork, Evaluating, Persisted, database
  <2>3. RowFits(w)'
    BY <1>1, <1>2, <2>1 DEF RowFits, database
  <2>4. RouteFits(w)'
    BY <2>1 DEF RouteFits
  <2> QED
    BY <1>1, <1>2, <2>1, <2>2, <2>3, <2>4, QuietStep
<1> QED
  BY <1>1, <1>3, <1>4

LEMMA MarkActionFailedFits ==
  ASSUME OneWorker, PolicyInv, CurrentInv, NEW w \in Workers, MarkActionFailed(w)
  PROVE  CurrentInv'
<1>1. UNCHANGED <<job, github, database>> /\ attempt[w].step # "none" /\ Goto(w, "caught")
  BY DEF MarkActionFailed, At
<1> QED
  BY <1>1, CarelessStep DEF Careless

\* A decision is added behind the others, or is there already.
LEMMA PersistDecisionFits ==
  ASSUME OneWorker, PolicyInv, CurrentInv, NEW w \in Workers, PersistDecision(w)
  PROVE  CurrentInv'
<1> DEFINE h == JobOf(w).key
           step == IF RouteOf[h] = "shadow" \/ h \in succeeded THEN "finish" ELSE "preflight"
<1>1. /\ attempt[w].step = "persist decision" /\ UNCHANGED <<job, github, succeeded, row, recovery>>
      /\ attempt' = [attempt EXCEPT ![w] = [@ EXCEPT !.step = step, !.decision = h]]
      /\ decided' = IF Persisted(h) THEN decided ELSE Append(decided, h)
  BY DEF PersistDecision, At, Persisted
<1>2. /\ attempt[w].step # "none" /\ ~Alone(w) /\ ~IsEvaluation(JobOf(w)) /\ h \in Heads
      /\ JobOf(w) = RoutingJob(h) /\ RouteFits(w)
      /\ job[JobOf(w)].status = "running" /\ job[JobOf(w)].holder = w
  BY <1>1, RoutingIsNotAlone, Working DEF Undecided
<1>3. /\ step \in {"finish", "preflight"}
      /\ step = "finish" => RouteOf[h] = "shadow" \/ h \in succeeded
  OBVIOUS
<1> HIDE DEF step, h
<1>4. attempt'[w].step = step /\ attempt'[w].job = JobOf(w) /\ attempt'[w].decision = h
  BY <1>1 DEF PolicyInv, AttemptsOK, Attempt, JobOf
<1>5. decided \in Seq(Heads)
  BY DEF PolicyInv, DataOK
<1>6. /\ \A g \in Heads : Persisted(g)' <=> Persisted(g) \/ g = h
      /\ ~Persisted(h) => decided'[Len(decided')] = h
      /\ Persisted(h) => decided' = decided
  <2>1. CASE Persisted(h)
    BY <1>1, <2>1 DEF Persisted
  <2>2. CASE ~Persisted(h)
    <3>1. decided' = Append(decided, h)
      BY <1>1, <2>2
    <3>2. /\ Len(decided') = Len(decided) + 1 /\ decided'[Len(decided) + 1] = h
          /\ DOMAIN decided' = 1 .. Len(decided) + 1 /\ DOMAIN decided = 1 .. Len(decided)
          /\ Len(decided) \in Nat /\ \A i \in 1 .. Len(decided) : decided'[i] = decided[i]
      BY <1>2, <1>5, <3>1
    <3>3. \A i \in DOMAIN decided' : i \in DOMAIN decided \/ i = Len(decided) + 1
      BY <3>2
    <3>4. DOMAIN decided \subseteq DOMAIN decided' /\ Len(decided) + 1 \in DOMAIN decided'
      BY <3>2
    <3>5. \A g \in Heads : Persisted(g)' <=> Persisted(g) \/ g = h
      BY <3>2, <3>3, <3>4 DEF Persisted
    <3> QED
      BY <2>2, <3>2, <3>5
  <2> QED
    BY <2>1, <2>2
<1>7. HeadsInv'
  <2>1. HeadsInv /\ pr.head \in Heads /\ succeeded \subseteq Heads
    BY DEF CurrentInv, PolicyInv, DataOK
  <2>2. UNCHANGED <<job, pr, succeeded>>
    BY <1>1 DEF github
  <2>3. \A g \in Heads : ~Routed(g)' => ~Persisted(g)' /\ g \notin succeeded'
    <3>1. Routed(h)
      BY <1>2 DEF Routed
    <3> QED
      BY <1>6, <2>1, <2>2, <3>1 DEF HeadsInv, Routed
  <2>4. \A g \in Heads : Asked(g)' => Persisted(g)'
    BY <1>6, <2>1, <2>2 DEF HeadsInv, Asked
  <2>5. Persisted(pr.head)' => decided'[Len(decided')] = pr.head
    <3>1. h = pr.head \/ ~Persisted(pr.head)
      BY <1>1, <1>2 DEF RouteFits, h, JobOf
    <3> QED
      BY <1>6, <2>1, <2>2, <3>1 DEF HeadsInv
  <2>6. \A g \in succeeded' : Human(g) => Asked(g)'
    BY <2>1, <2>2 DEF HeadsInv, Asked
  <2>7. Human(pr.head) /\ job'[RoutingJob(pr.head)].status = "succeeded" => Asked(pr.head)'
    BY <2>1, <2>2 DEF HeadsInv, Asked
  <2>8. pr'.open /\ pr'.head = pr.head
    BY <2>1, <2>2 DEF HeadsInv
  <2> QED
    BY <2>2, <2>3, <2>4, <2>5, <2>6, <2>7, <2>8 DEF HeadsInv, Persisted, Asked, Human
<1>8. RunsExist' /\ EvaluatedInv'
  BY <1>1, RunsSame, EvaluatedSame DEF CurrentInv, github
<1>9. AttemptFits(w)'
  <2>1. KindFits(w)'
    BY <1>2, <1>3, <1>4, <1>6 DEF KindFits, RoutingWork, Evaluating, Persisted
  <2>2. RowFits(w)'
    BY <1>3, <1>4 DEF RowFits
  <2>3. Human(h) /\ step = "finish" => Asked(h)
    BY <1>3 DEF CurrentInv, HeadsInv, Human
  <2>4. RouteFits(w)'
    <3>1. attempt'[w].job.key = h
      BY <1>4 DEF h
    <3> QED
      BY <1>1, <1>3, <1>4, <2>3, <3>1 DEF RouteFits, Human, Asked
  <2>5. ~Alone(w)'
    BY <1>2, <1>4 DEF Alone, JobOf
  <2> QED
    BY <1>1, <1>2, <1>4, <2>1, <2>2, <2>4, <2>5 DEF AttemptFits, JobOf
<1> QED
  BY <1>7, <1>8, <1>9, FitsAll DEF CurrentInv

\* An attempt proceeds while the row or the runs change and the jobs do not.
LEMMA WritingStep ==
  ASSUME OneWorker, PolicyInv, CurrentInv, NEW w \in Workers, attempt[w].step # "none",
         UNCHANGED <<job, pr>>, HeadsInv', RunsExist', EvaluatedInv',
         attempt'[w].job = attempt[w].job,
         KindFits(w)', RowFits(w)', RouteFits(w)', Alone(w) => VerdictFits(w)'
  PROVE  CurrentInv'
<1>1. JobOf(w)' = JobOf(w)
  BY DEF JobOf
<1>2. Alone(w)' <=> Alone(w)
  BY <1>1 DEF Alone, Human, Asked, Over
<1>3. job'[JobOf(w)'].status = "running" /\ job'[JobOf(w)'].holder = w
  BY <1>1, Working
<1>4. AttemptFits(w)'
  BY <1>2, <1>3 DEF AttemptFits
<1> QED
  BY <1>4, FitsAll DEF CurrentInv

\* A row that is written.
LEMMA RowWritten ==
  ASSUME DataOK, NEW h \in Heads, NEW run \in Nat, NEW state \in CheckState,
         row' = [row EXCEPT ![h] = WithCheck(@, run, state)]
  PROVE  /\ row[h].state = "failure" => row' = row
         /\ row[h].state # "failure" => row'[h].run = run /\ row'[h].state = state
         /\ row'[h].run \in {row[h].run, run}
         /\ row'[h].state = "failure" <=> (row[h].state = "failure" \/ state = "failure")
         /\ \A g \in Heads \ {h} : row'[g] = row[g]
<1>1. row \in [Heads -> Row]
  BY DEF DataOK
<1>2. row'[h] = WithCheck(row[h], run, state) /\ \A g \in Heads \ {h} : row'[g] = row[g]
  BY <1>1
<1>3. CASE row[h].state = "failure"
  <2>1. row' = row
    BY <1>1, <1>3 DEF WithCheck
  <2> QED
    BY <1>2, <1>3, <2>1
<1>4. CASE row[h].state # "failure"
  <2>1. row'[h] = [run |-> run, state |-> state]
    BY <1>2, <1>4 DEF WithCheck
  <2> QED
    BY <1>2, <1>4, <2>1
<1> QED
  BY <1>3, <1>4

LEMMA RowStateWritten ==
  ASSUME DataOK, NEW h \in Heads, NEW state \in CheckState,
         row' = [row EXCEPT ![h] = WithCheck(@, @.run, state)]
  PROVE  /\ row[h].state # "failure" => row'[h].state = state
         /\ row'[h].run = row[h].run
         /\ row'[h].state = "failure" <=> (row[h].state = "failure" \/ state = "failure")
         /\ \A g \in Heads \ {h} : row'[g] = row[g]
<1>1. row \in [Heads -> Row]
  BY DEF DataOK
<1>2. row'[h] = WithCheck(row[h], row[h].run, state) /\ \A g \in Heads \ {h} : row'[g] = row[g]
  BY <1>1
<1> QED
  BY <1>2 DEF WithCheck

\* A run that is completed.
LEMMA RunWritten ==
  ASSUME DataOK, NEW h \in Heads, NEW run \in Nat, NEW state \in CheckState,
         checks' = [checks EXCEPT ![h][run] = state]
  PROVE  /\ \A g \in Heads : Newest(g)' = Newest(g)
         /\ \A g \in Heads \ {h} : NewestState(g)' = NewestState(g)
         /\ run = Newest(h) /\ run # 0 => NewestState(h)' = state
         /\ run # Newest(h) => NewestState(h)' = NewestState(h)
<1> DEFINE old == checks[h]
           new == [old EXCEPT ![run] = state]
<1>1. old \in Seq(CheckState)
  BY DEF DataOK
<1>2. checks' = [checks EXCEPT ![h] = new]
  BY DEF DataOK
<1>3. checks'[h] = new /\ \A g \in Heads \ {h} : checks'[g] = checks[g]
  BY <1>2 DEF DataOK
<1> HIDE DEF old
<1>4. Len(new) = Len(old) /\ Len(old) \in Nat
  <2>1. old \in [1 .. Len(old) -> CheckState] /\ Len(old) \in Nat
    BY <1>1, LenProperties
  <2>2. new \in [1 .. Len(old) -> CheckState]
    BY <2>1
  <2>3. new \in Seq(CheckState) /\ DOMAIN new = 1 .. Len(old)
    BY <2>1, <2>2, SeqDef
  <2>4. Len(new) \in Nat /\ DOMAIN new = 1 .. Len(new)
    BY <2>3, LenProperties
  <2> QED
    BY <2>1, <2>3, <2>4
<1>5. Len(old) # 0 => old # <<>> /\ new # <<>> /\ Len(old) \in DOMAIN old
  BY <1>1, <1>4
<1>6. Len(old) = 0 => old = <<>> /\ new = <<>>
  BY <1>1, <1>4
<1>7. \A g \in Heads : Newest(g)' = Newest(g)
  BY <1>3, <1>4 DEF Newest, old
<1>8. \A g \in Heads \ {h} : NewestState(g)' = NewestState(g)
  BY <1>3 DEF NewestState, Newest
<1>9. Newest(h) = Len(old)
  BY DEF Newest, old
<1>10. NewestState(h) = IF old = <<>> THEN "not_started" ELSE old[Len(old)]
  BY DEF NewestState, Newest, old
<1>11. NewestState(h)' = IF new = <<>> THEN "not_started" ELSE new[Len(old)]
  BY <1>3, <1>4 DEF NewestState, Newest
<1>12. ASSUME run = Len(old), run # 0 PROVE NewestState(h)' = state
  <2>1. new[Len(old)] = state
    BY <1>5, <1>12
  <2> QED
    BY <1>5, <1>11, <1>12, <2>1
<1>13. ASSUME run # Len(old) PROVE NewestState(h)' = NewestState(h)
  <2>1. CASE Len(old) = 0
    BY <1>6, <1>10, <1>11, <2>1
  <2>2. CASE Len(old) # 0
    <3>1. new[Len(old)] = old[Len(old)]
      BY <1>5, <1>13, <2>2
    <3> QED
      BY <1>5, <1>10, <1>11, <2>2, <3>1
  <2> QED
    BY <2>1, <2>2
<1> QED
  BY <1>7, <1>8, <1>9, <1>12, <1>13

\* What EvaluatedInv says of the head when only rows and runs change.
LEMMA EvaluatedWrites ==
  ASSUME PolicyInv, EvaluatedInv, UNCHANGED <<job, pr>>, NEW h \in Heads,
         \A g \in Heads \ {h} : row'[g] = row[g] /\ Newest(g)' = Newest(g)
                                /\ NewestState(g)' = NewestState(g),
         h = pr.head /\ Unfailed(h)' => Unfailed(h) /\ ~Agreed(h)
  PROVE  EvaluatedInv'
<1>1. pr.head \in Heads /\ pr' = pr
  BY DEF PolicyInv, DataOK
<1>2. /\ (\A j \in Evaluations : Over(j))' <=> (\A j \in Evaluations : Over(j))
      /\ Asked(pr.head)' <=> Asked(pr.head)
      /\ Human(pr.head)' <=> Human(pr.head)
  BY DEF Over, Evaluations, Asked, Human
<1>3. CASE pr.head = h
  BY <1>1, <1>2, <1>3 DEF EvaluatedInv
<1>4. CASE pr.head # h
  <2>1. (Unfailed(pr.head)' <=> Unfailed(pr.head)) /\ (Agreed(pr.head)' <=> Agreed(pr.head))
    BY <1>1, <1>4 DEF Unfailed, Agreed
  <2> QED
    BY <1>2, <2>1 DEF EvaluatedInv
<1> QED
  BY <1>3, <1>4

\* An evaluation is running: the invariant says nothing of the row.
LEMMA EvaluatedBusy ==
  ASSUME PolicyInv, CurrentInv, NEW w \in Workers, attempt[w].step # "none",
         IsEvaluation(JobOf(w)), UNCHANGED job
  PROVE  EvaluatedInv'
<1>1. JobOf(w) \in Evaluations /\ job[JobOf(w)].status = "running"
  BY Working DEF Evaluations
<1>2. job'[JobOf(w)].status \notin {"absent", "succeeded"}
  BY <1>1
<1> HIDE DEF JobOf
<1> QED
  BY <1>1, <1>2, EvaluationWaits

\* The fields an attempt has while it works on a decision.
LEMMA WorkingOn ==
  ASSUME PolicyInv, NEW w \in Workers, attempt[w].step \in Deciding
  PROVE  /\ attempt[w].step # "none" /\ HeadOf(w) \in Heads /\ attempt[w].run \in Nat
         /\ attempt[w].verdict \in CheckState /\ attempt[w].seen \in Row
<1>1. attempt[w].step # "none"
  BY DEF Deciding
<1> QED
  BY <1>1, Executing DEF PolicyInv, Attempt

LEMMA EnsureCheckFits ==
  ASSUME OneWorker, PolicyInv, CurrentInv, NEW w \in Workers, EnsureCheck(w)
  PROVE  CurrentInv'
<1>1. attempt[w].step = "ensure check" /\ UNCHANGED <<job, pr, database>>
  BY DEF EnsureCheck, At
<1>h. PICK h \in Heads : h = HeadOf(w)
  BY <1>1, RoutingIsNotAlone DEF RoutingWork
<1> DEFINE initial == Evaluate(h, FALSE)
<1>2. /\ attempt[w].step # "none" /\ ~Alone(w) /\ KindFits(w) /\ DataOK
      /\ initial \in CheckState /\ attempt[w] \in Attempt /\ attempt[w].decision = h
  BY <1>1, <1>h, RoutingIsNotAlone, Working, EvaluateIs DEF RoutingWork, PolicyInv, HeadOf
<1>3. Newest(h) \in Nat /\ row[h].run \in Nat
  BY <1>2, NewestIs DEF DataOK, Row
<1> HIDE DEF initial
<1>4. HeadsInv'
  BY <1>1, HeadsSame DEF CurrentInv, database
<1>5. CASE row[h].run # 0
  <2>1. Take(w, "act", row[h].run) /\ UNCHANGED checks
    BY <1>h, <1>5 DEF EnsureCheck
  <2>2. /\ attempt'[w].step = "act" /\ attempt'[w].job = attempt[w].job
        /\ attempt'[w].decision = attempt[w].decision /\ attempt'[w].run = row[h].run
    <3>1. AttemptsOK /\ "act" \in Steps
      BY DEF PolicyInv, Steps
    <3> QED
      BY <1>3, <2>1, <3>1, AfterTake, Zenon
  <2>3. KindFits(w)'
    BY <1>1, <1>2, <2>2 DEF KindFits, RoutingWork, Evaluating, Persisted, database
  <2>4. RowFits(w)'
    BY <1>1, <1>2, <2>2 DEF RowFits, database
  <2>5. RouteFits(w)'
    BY <2>2 DEF RouteFits
  <2>6. RunsExist' /\ EvaluatedInv'
    BY <1>1, <2>1, RunsSame, EvaluatedSame DEF CurrentInv, database
  <2> QED
    BY <1>1, <1>2, <1>4, <2>2, <2>3, <2>4, <2>5, <2>6, WritingStep
<1>6. ASSUME NEW run \in Nat, row[h].run = 0, run <= Newest(h)',
             attempt'[w].step = "record opened check", attempt'[w].job = attempt[w].job,
             attempt'[w].decision = attempt[w].decision, attempt'[w].run = run
      PROVE  KindFits(w)' /\ RowFits(w)' /\ RouteFits(w)'
  <2>1. KindFits(w)'
    BY <1>1, <1>2, <1>6 DEF KindFits, RoutingWork, Evaluating, Persisted, database
  <2>2. attempt'[w].decision = h /\ row' = row
    BY <1>1, <1>2, <1>6 DEF database
  <2>3. RowFits(w)'
    BY <1>6, <2>2 DEF RowFits, Newest
  <2>4. RouteFits(w)'
    BY <1>6 DEF RouteFits
  <2> QED
    BY <2>1, <2>3, <2>4
<1>7. CASE row[h].run = 0 /\ Newest(h) # 0
  <2>1. /\ attempt' = [attempt EXCEPT ![w] =
             [@ EXCEPT !.step = "record opened check", !.run = Newest(h),
                       !.verdict = NewestState(h)]]
        /\ UNCHANGED checks
    BY <1>h, <1>7 DEF EnsureCheck
  <2>2. /\ attempt'[w].step = "record opened check" /\ attempt'[w].job = attempt[w].job
        /\ attempt'[w].decision = attempt[w].decision /\ attempt'[w].run = Newest(h)
    BY <1>2, <2>1 DEF PolicyInv, AttemptsOK, Attempt
  <2>3. Newest(h)' = Newest(h)
    BY <2>1 DEF Newest
  <2>4. KindFits(w)' /\ RowFits(w)' /\ RouteFits(w)'
    <3>1. Newest(h) <= Newest(h)' /\ row[h].run = 0
      BY <1>3, <1>7, <2>3
    <3> QED
      BY <1>3, <1>6, <2>2, <3>1
  <2>5. RunsExist' /\ EvaluatedInv'
    BY <1>1, <2>1, RunsSame, EvaluatedSame DEF CurrentInv, database
  <2> QED
    BY <1>1, <1>2, <1>4, <2>2, <2>4, <2>5, WritingStep
<1>8. CASE row[h].run = 0 /\ Newest(h) = 0
  <2>1. /\ checks' = [checks EXCEPT ![h] = <<initial>>]
        /\ attempt' = [attempt EXCEPT ![w] =
             [@ EXCEPT !.step = "record opened check", !.run = 1, !.verdict = initial]]
    BY <1>h, <1>8 DEF EnsureCheck, initial
  <2>2. /\ attempt'[w].step = "record opened check" /\ attempt'[w].job = attempt[w].job
        /\ attempt'[w].decision = attempt[w].decision /\ attempt'[w].run = 1
    BY <1>2, <2>1 DEF PolicyInv, AttemptsOK, Attempt
  <2>3. checks'[h] = <<initial>> /\ \A g \in Heads \ {h} : checks'[g] = checks[g]
    BY <1>2, <2>1 DEF DataOK
  <2>4. Len(checks'[h]) = 1
    BY <2>3
  <2>5. /\ Newest(h)' = 1
        /\ \A g \in Heads \ {h} : Newest(g)' = Newest(g) /\ NewestState(g)' = NewestState(g)
    BY <2>3, <2>4 DEF Newest, NewestState
  <2>6. KindFits(w)' /\ RowFits(w)' /\ RouteFits(w)'
    <3>1. PICK first \in Nat : first = 1
      OBVIOUS
    <3>2. first <= first
      OBVIOUS
    <3>3. Newest(h)' = first
      BY <2>5, <3>1, Zenon
    <3>4. attempt'[w].run = first
      BY <2>2, <3>1, Zenon
    <3>5. first <= Newest(h)'
      BY <3>2, <3>3, Zenon
    <3>6. row[h].run = 0
      BY <1>8
    <3> QED
      BY <1>6, <2>2, <3>4, <3>5, <3>6, Zenon
  <2>7. RunsExist'
    <3>1. row' = row /\ \A g \in Heads : row[g].run <= Newest(g)
      BY <1>1 DEF CurrentInv, RunsExist, database
    <3>2. row'[h].run = 0 /\ 0 <= 1
      BY <1>8, <3>1
    <3>3. row'[h].run <= Newest(h)'
      BY <2>5, <3>2, Zenon
    <3>4. ASSUME NEW g \in Heads \ {h} PROVE row'[g].run <= Newest(g)'
      BY <2>5, <3>1, Zenon
    <3> QED
      BY <3>3, <3>4 DEF RunsExist
  <2>8. EvaluatedInv'
    <3>1. NewestState(h) = "not_started"
      BY <1>2, <1>8 DEF DataOK, Newest, NewestState
    <3>2. h = pr.head /\ Unfailed(h)' => Unfailed(h) /\ ~Agreed(h)
      BY <1>1, <1>8, <3>1, AgreedHasRun DEF Unfailed, database
    <3> QED
      BY <1>1, <1>2, <2>5, <3>2, EvaluatedWrites DEF CurrentInv, database
  <2> QED
    BY <1>1, <1>2, <1>4, <2>2, <2>6, <2>7, <2>8, WritingStep
<1> QED
  BY <1>5, <1>7, <1>8

LEMMA RecordOpenedCheckFits ==
  ASSUME OneWorker, PolicyInv, CurrentInv, NEW w \in Workers, RecordOpenedCheck(w)
  PROVE  CurrentInv'
<1>0. attempt[w].step = "record opened check"
  BY DEF RecordOpenedCheck, At
<1>h. PICK h \in Heads, run \in Nat, state \in CheckState :
        h = HeadOf(w) /\ run = attempt[w].run /\ state = attempt[w].verdict
  BY <1>0, WorkingOn DEF Deciding
<1>1. /\ attempt[w].step = "record opened check" /\ Goto(w, "act")
      /\ UNCHANGED <<job, github, decided, succeeded, recovery>>
      /\ row' = [row EXCEPT ![h] = WithCheck(@, run, state)]
  BY <1>0, <1>h DEF RecordOpenedCheck
<1>2. attempt[w].step # "none" /\ ~Alone(w) /\ KindFits(w) /\ RowFits(w)
  BY <1>1, RoutingIsNotAlone, Working DEF RoutingWork
<1>3. h \in Heads /\ run \in Nat /\ state \in CheckState /\ DataOK
  BY DEF PolicyInv
<1>4. row[h].run = 0 /\ run <= Newest(h)
  BY <1>1, <1>2, <1>h DEF RowFits, HeadOf
<1>5. /\ attempt'[w].step = "act" /\ attempt'[w].job = attempt[w].job
      /\ attempt'[w].decision = h /\ attempt'[w].run = run
  BY <1>1, <1>h, AfterGoto DEF PolicyInv, Steps, HeadOf
<1>6. KindFits(w)'
  BY <1>1, <1>2, <1>5, <1>h DEF KindFits, RoutingWork, Evaluating, Persisted, HeadOf
<1>7. /\ row[h].state = "failure" => row' = row
      /\ row[h].state # "failure" => row'[h].run = run /\ row'[h].state = state
      /\ row'[h].run \in {row[h].run, run}
      /\ row'[h].state = "failure" <=> (row[h].state = "failure" \/ state = "failure")
      /\ \A g \in Heads \ {h} : row'[g] = row[g]
  BY <1>1, <1>3, RowWritten
<1>8. RowFits(w)'
  BY <1>5, <1>7 DEF RowFits
<1>9. RouteFits(w)'
  BY <1>5 DEF RouteFits
<1>10. \A g \in Heads : Newest(g)' = Newest(g) /\ NewestState(g)' = NewestState(g)
  BY <1>1 DEF github, Newest, NewestState
<1>11. RunsExist'
  BY <1>4, <1>7, <1>10 DEF CurrentInv, RunsExist
<1>12. EvaluatedInv'
  <2>1. h = pr.head /\ Unfailed(h)' => Unfailed(h) /\ ~Agreed(h)
    <3>1. Unfailed(h)' => Unfailed(h)
      BY <1>3, <1>7, <1>10 DEF Unfailed
    <3> QED
      BY <1>4, <3>1, AgreedHasRun
  <2> QED
    BY <1>1, <1>3, <1>7, <1>10, <2>1, EvaluatedWrites DEF CurrentInv, github
<1>13. HeadsInv'
  BY <1>1, HeadsSame DEF CurrentInv, github
<1> QED
  BY <1>1, <1>2, <1>5, <1>6, <1>8, <1>9, <1>11, <1>12, <1>13, WritingStep DEF github

\* A run of the head is failed, the one on record unless the row has failed:
\* whoever it was that agreed, no longer counts as not failed.
LEMMA EvaluatedFails ==
  ASSUME PolicyInv, EvaluatedInv, UNCHANGED <<job, pr, row>>,
         NEW h \in Heads, NEW run \in Nat, checks' = [checks EXCEPT ![h][run] = "failure"],
         row[h].run # 0 /\ row[h].state # "failure" => run = row[h].run
  PROVE  RunsExist => RunsExist' /\ EvaluatedInv'
<1> SUFFICES ASSUME RunsExist PROVE RunsExist' /\ EvaluatedInv'
  OBVIOUS
<1>1. /\ \A g \in Heads : Newest(g)' = Newest(g)
      /\ \A g \in Heads \ {h} : NewestState(g)' = NewestState(g)
      /\ run = Newest(h) /\ run # 0 => NewestState(h)' = "failure"
      /\ run # Newest(h) => NewestState(h)' = NewestState(h)
  BY RunWritten DEF PolicyInv, CheckState
<1>2. RunsExist'
  BY <1>1, Zenon DEF RunsExist
<1>3. h = pr.head /\ Unfailed(h)' => Unfailed(h) /\ ~Agreed(h)
  <2> SUFFICES ASSUME h = pr.head, Unfailed(h)' PROVE Unfailed(h) /\ ~Agreed(h)
    OBVIOUS
  <2>1. row[h].state # "failure" /\ NewestState(h)' # "failure"
    BY DEF Unfailed
  <2>2. ~(run = Newest(h) /\ run # 0)
    BY <1>1, <2>1
  <2>3. ASSUME Agreed(h) PROVE FALSE
    <3>1. row[h].run # 0 /\ row[h].run = Newest(h)
      BY <2>3, AgreedHasRun DEF Agreed
    <3> QED
      BY <2>1, <2>2, <3>1
  <2>4. NewestState(h) # "failure"
    <3>1. CASE run # Newest(h)
      BY <1>1, <2>1, <3>1
    <3>2. CASE run = Newest(h)
      <4>1. Newest(h) = 0
        BY <2>2, <3>2
      <4>2. checks[h] = <<>>
        BY <4>1 DEF PolicyInv, DataOK, Newest
      <4> QED
        BY <4>2 DEF NewestState
    <3> QED
      BY <3>1, <3>2
  <2> QED
    BY <2>1, <2>3, <2>4 DEF Unfailed
<1>4. EvaluatedInv'
  BY <1>1, <1>3, EvaluatedWrites
<1> QED
  BY <1>2, <1>4

\* A row that fails says nothing any more.
LEMMA EvaluatedRowFails ==
  ASSUME PolicyInv, EvaluatedInv, UNCHANGED <<job, pr, checks>>, NEW h \in Heads,
         row'[h].state = "failure", \A g \in Heads \ {h} : row'[g] = row[g]
  PROVE  EvaluatedInv'
<1>1. \A g \in Heads : Newest(g)' = Newest(g) /\ NewestState(g)' = NewestState(g)
  BY DEF Newest, NewestState
<1>2. ~Unfailed(h)'
  BY DEF Unfailed
<1> QED
  BY <1>1, <1>2, EvaluatedWrites

LEMMA ConcludeCheckFits ==
  ASSUME OneWorker, PolicyInv, CurrentInv, NEW w \in Workers, ConcludeCheck(w)
  PROVE  CurrentInv'
<1>0. attempt[w].step = "conclude check"
  BY DEF ConcludeCheck, At
<1>h. PICK h \in Heads, run \in Nat : h = HeadOf(w) /\ run = attempt[w].run
  BY <1>0, WorkingOn DEF Deciding
<1>1. /\ checks' = [checks EXCEPT ![h][run] = "failure"] /\ Goto(w, "conclude row")
      /\ UNCHANGED <<job, pr, database>>
  BY <1>h DEF ConcludeCheck
<1>2. attempt[w].step # "none" /\ ~Alone(w) /\ KindFits(w) /\ RowFits(w)
  BY <1>0, RoutingIsNotAlone, Working DEF RoutingWork
<1>3. /\ attempt'[w].step = "conclude row" /\ attempt'[w].job = attempt[w].job
      /\ attempt'[w].decision = attempt[w].decision
  BY <1>1, AfterGoto DEF PolicyInv, Steps
<1>4. row[h].state = "failure" \/ run = row[h].run
  BY <1>0, <1>2, <1>h DEF RowFits, HeadOf
<1>5. KindFits(w)'
  BY <1>0, <1>1, <1>2, <1>3 DEF KindFits, RoutingWork, Evaluating, Persisted, database
<1>6. RowFits(w)' /\ RouteFits(w)'
  BY <1>3 DEF RowFits, RouteFits
<1>7. HeadsInv'
  BY <1>1, HeadsSame DEF CurrentInv, database
<1>8. RunsExist' /\ EvaluatedInv'
  BY <1>1, <1>4, EvaluatedFails DEF CurrentInv, database
<1> QED
  BY <1>1, <1>2, <1>3, <1>5, <1>6, <1>7, <1>8, WritingStep

LEMMA ConcludeRowFits ==
  ASSUME OneWorker, PolicyInv, CurrentInv, NEW w \in Workers, ConcludeRow(w)
  PROVE  CurrentInv'
<1>0. attempt[w].step = "conclude row"
  BY DEF ConcludeRow, At
<1>h. PICK h \in Heads : h = HeadOf(w)
  BY <1>0, WorkingOn DEF Deciding
<1>1. /\ row' = [row EXCEPT ![h] = WithCheck(@, @.run, "failure")] /\ Goto(w, "mark failed")
      /\ UNCHANGED <<job, github, decided, succeeded, recovery>>
  BY <1>h DEF ConcludeRow
<1>2. attempt[w].step # "none" /\ ~Alone(w) /\ KindFits(w)
  BY <1>0, RoutingIsNotAlone, Working DEF RoutingWork
<1>3. /\ attempt'[w].step = "mark failed" /\ attempt'[w].job = attempt[w].job
      /\ attempt'[w].decision = attempt[w].decision
  BY <1>1, AfterGoto DEF PolicyInv, Steps
<1>4. /\ row'[h].state = "failure" /\ row'[h].run = row[h].run
      /\ \A g \in Heads \ {h} : row'[g] = row[g]
  BY <1>1, RowStateWritten DEF PolicyInv, CheckState
<1>5. KindFits(w)'
  BY <1>0, <1>1, <1>2, <1>3 DEF KindFits, RoutingWork, Evaluating, Persisted
<1>6. RowFits(w)' /\ RouteFits(w)'
  BY <1>3 DEF RowFits, RouteFits
<1>7. HeadsInv'
  BY <1>1, HeadsSame DEF CurrentInv, github
<1>8. RunsExist'
  BY <1>1, <1>4 DEF CurrentInv, RunsExist, Newest, github
<1>9. EvaluatedInv'
  BY <1>1, <1>4, EvaluatedRowFails DEF CurrentInv, github
<1> QED
  BY <1>1, <1>2, <1>3, <1>5, <1>6, <1>7, <1>8, <1>9, WritingStep DEF github

\* A first evaluation waits before the decision counts as carried out.
LEMMA EnqueueEvaluationFits ==
  ASSUME OneWorker, PolicyInv, CurrentInv, NEW w \in Workers, EnqueueEvaluation(w)
  PROVE  CurrentInv'
<1>0. attempt[w].step = "enqueue evaluation"
  BY DEF EnqueueEvaluation, At
<1>h. PICK h \in Heads : h = HeadOf(w)
  BY <1>0, WorkingOn DEF Deciding
<1> DEFINE j == EvaluationJob(h)
<1>1. Accept(j) /\ Goto(w, "mark succeeded") /\ UNCHANGED <<github, database>>
  BY <1>h DEF EnqueueEvaluation
<1>2. /\ attempt[w].step # "none" /\ ~Alone(w) /\ KindFits(w) /\ ~IsEvaluation(JobOf(w))
      /\ JobOf(w) = RoutingJob(h) /\ Persisted(h)
      /\ job[JobOf(w)].status = "running" /\ job[JobOf(w)].holder = w /\ JobOf(w) \in Jobs
  BY <1>0, <1>h, RoutingIsNotAlone, Working DEF RoutingWork
<1>3. /\ attempt'[w].step = "mark succeeded" /\ attempt'[w].job = attempt[w].job
      /\ attempt'[w].decision = attempt[w].decision
  BY <1>1, AfterGoto DEF PolicyInv, Steps
<1>4. j \in Jobs /\ IsEvaluation(j) /\ j # JobOf(w)
      /\ \A g \in Heads : j = EvaluationJob(g) => g = h
  BY <1>2, JobNames
<1> HIDE DEF j
<1>5. CASE job[j].status # "absent"
  <2>1. UNCHANGED job
    BY <1>1, <1>5 DEF Accept
  <2>2. KindFits(w)'
    BY <1>0, <1>1, <1>2, <1>3 DEF KindFits, RoutingWork, Evaluating, Persisted, database
  <2>3. RowFits(w)'
    BY <1>3 DEF RowFits
  <2>4. attempt'[w].decision = h
    BY <1>3, <1>h DEF HeadOf
  <2>5. RouteFits(w)'
    BY <1>3, <1>5, <2>1, <2>4 DEF RouteFits, Asked, j
  <2> QED
    BY <1>1, <1>2, <1>3, <2>1, <2>2, <2>3, <2>5, QuietStep
<1>6. CASE job[j].status = "absent"
  <2>1. JobMoves(j, "queued")
    BY <1>1, <1>4, <1>6, Moves DEF Accept
  <2>2. HeadsInv'
    <3>1. /\ job[j].status = "absent" => \A g \in Heads : j = EvaluationJob(g) => Persisted(g)
          /\ "queued" = "succeeded" /\ j = RoutingJob(pr.head) /\ Human(pr.head) => Asked(pr.head)
      BY <1>2, <1>4
    <3> QED
      BY <1>1, <1>4, <2>1, <3>1, HeadsMove DEF CurrentInv, github, database
  <2>3. RunsExist'
    BY <1>1, RunsSame DEF CurrentInv, github, database
  <2>4. EvaluatedInv'
    BY <1>4, <2>1, EvaluationWaits DEF Evaluations, JobMoves
  <2>5. AttemptFits(w)'
    <3>1. KindFits(w)'
      BY <1>0, <1>1, <1>2, <1>3 DEF KindFits, RoutingWork, Evaluating, Persisted, database
    <3>2. RowFits(w)'
      BY <1>3 DEF RowFits
    <3>3. attempt'[w].decision = h
      BY <1>3, <1>h DEF HeadOf
    <3>4. Asked(h)'
      BY <2>1 DEF JobMoves, Asked, j
    <3>5. RouteFits(w)'
      BY <1>3, <3>3, <3>4 DEF RouteFits, Asked
    <3>6. JobOf(w)' = JobOf(w) /\ job'[JobOf(w)] = job[JobOf(w)]
      BY <1>2, <1>3, <1>4, <2>1 DEF JobMoves, JobOf
    <3>7. ~Alone(w)'
      BY <1>2, <3>6 DEF Alone
    <3> QED
      BY <1>2, <3>1, <3>2, <3>5, <3>6, <3>7 DEF AttemptFits
  <2> QED
    BY <2>2, <2>3, <2>4, <2>5, FitsAll DEF CurrentInv
<1> QED
  BY <1>5, <1>6

LEMMA MarkActionSucceededFits ==
  ASSUME OneWorker, PolicyInv, CurrentInv, NEW w \in Workers, MarkActionSucceeded(w)
  PROVE  CurrentInv'
<1>0. attempt[w].step = "mark succeeded"
  BY DEF MarkActionSucceeded, At
<1>h. PICK h \in Heads : h = HeadOf(w)
  BY <1>0, WorkingOn DEF Deciding
<1>1. /\ succeeded' = succeeded \cup {h} /\ Goto(w, "finish")
      /\ UNCHANGED <<job, github, decided, row, recovery>>
  BY <1>h DEF MarkActionSucceeded
<1>2. /\ attempt[w].step # "none" /\ ~Alone(w) /\ RouteFits(w) /\ JobOf(w) = RoutingJob(h)
      /\ JobOf(w).key = h /\ job[JobOf(w)].status = "running" /\ Persisted(h)
  BY <1>0, <1>h, RoutingIsNotAlone, Working DEF RoutingWork
<1>3. Human(h) => Asked(h)
  BY <1>0, <1>2, <1>h DEF RouteFits, HeadOf
<1>4. attempt'[w].step = "finish" /\ attempt'[w].job = attempt[w].job
  BY <1>1, AfterGoto DEF PolicyInv, Steps
<1>5. KindFits(w)' /\ RowFits(w)'
  BY <1>4 DEF KindFits, RowFits, RoutingWork, Evaluating
<1>6. RouteFits(w)'
  <2>1. attempt'[w].job.key = h
    BY <1>2, <1>4 DEF JobOf
  <2> QED
    BY <1>1, <1>3, <1>4, <2>1 DEF RouteFits, Human, Asked
<1>7. HeadsInv'
  <2>1. HeadsInv /\ Routed(h)
    BY <1>2 DEF CurrentInv, Routed
  <2>2. UNCHANGED <<job, pr, decided>>
    BY <1>1 DEF github
  <2>3. \A g \in Heads : ~Routed(g)' => ~Persisted(g)' /\ g \notin succeeded'
    BY <1>1, <2>1, <2>2 DEF HeadsInv, Routed, Persisted
  <2>4. \A g \in succeeded' : Human(g) => Asked(g)'
    BY <1>1, <1>3, <2>1, <2>2 DEF HeadsInv, Asked
  <2> QED
    BY <2>1, <2>2, <2>3, <2>4 DEF HeadsInv, Persisted, Asked, Human
<1>8. RunsExist' /\ EvaluatedInv'
  BY <1>1, RunsSame, EvaluatedSame DEF CurrentInv, github
<1> QED
  BY <1>1, <1>2, <1>4, <1>5, <1>6, <1>7, <1>8, WritingStep DEF github

LEMMA RoutingStepFits ==
  ASSUME OneWorker, PolicyInv, CurrentInv, NEW w \in Workers, RoutingStep(w)
  PROVE  CurrentInv'
BY ReadHeadFits, PersistDecisionFits, PreflightFits, EnsureCheckFits, RecordOpenedCheckFits, ActFits,
   ConcludeCheckFits, ConcludeRowFits, MarkActionFailedFits, EnqueueEvaluationFits,
   MarkActionSucceededFits
   DEF RoutingStep

-----------------------------------------------------------------------------
(* The steps of an evaluation.                                             *)

LEMMA EvaluationProceeds ==
  ASSUME OneWorker, PolicyInv, CurrentInv, NEW w \in Workers, attempt[w].step \in Evaluating,
         UNCHANGED <<job, pr, decided, succeeded>>, RunsExist',
         attempt'[w].job = attempt[w].job, attempt'[w].step \in Evaluating \cup {"finish"},
         RowFits(w)', Alone(w) => VerdictFits(w)'
  PROVE  CurrentInv'
<1>1. attempt[w].step # "none"
  BY DEF Evaluating
<1>2. IsEvaluation(JobOf(w))
  BY <1>1, Working DEF KindFits, JobOf
<1>3. HeadsInv' /\ EvaluatedInv'
  BY <1>1, <1>2, HeadsSame, EvaluatedBusy DEF CurrentInv
<1>4. IsEvaluation(attempt'[w].job)
  BY <1>2 DEF JobOf
<1>5. KindFits(w)' /\ RouteFits(w)'
  BY <1>4 DEF KindFits, RouteFits, RoutingWork, Evaluating, IsEvaluation
<1> QED
  BY <1>1, <1>3, <1>5, WritingStep

\* What an evaluating attempt may rely on.
LEMMA EvaluatingFacts ==
  ASSUME PolicyInv, CurrentInv, NEW w \in Workers, attempt[w].step \in Evaluating
  PROVE  /\ attempt[w].step # "none" /\ IsEvaluation(JobOf(w)) /\ RowFits(w)
         /\ Alone(w) => VerdictFits(w)
         /\ Alone(w) => Latest = pr.head /\ pr.head # NoHead /\ pr.open /\ Human(pr.head)
<1>1. attempt[w].step # "none"
  BY DEF Evaluating
<1>2. IsEvaluation(JobOf(w)) /\ RowFits(w) /\ (Alone(w) => VerdictFits(w))
  BY <1>1, Working DEF KindFits, JobOf
<1>3. Alone(w) => Latest = pr.head /\ pr.head # NoHead /\ pr.open /\ Human(pr.head)
  BY LatestIs DEF Alone, CurrentInv, HeadsInv
<1> QED
  BY <1>1, <1>2, <1>3

LEMMA FindDecisionFits ==
  ASSUME OneWorker, PolicyInv, CurrentInv, NEW w \in Workers, FindDecision(w)
  PROVE  CurrentInv'
<1>1. attempt[w].step = "find decision" /\ UNCHANGED <<job, github, database>>
  BY DEF FindDecision, At
<1>2. attempt[w].step \in Evaluating
  BY <1>1 DEF Evaluating
<1>3. RunsExist' /\ UNCHANGED <<job, pr, decided, succeeded, row, checks>>
  BY <1>1, RunsSame DEF CurrentInv, github, database
<1>4. CASE Latest = NoHead \/ row[Latest].state = "failure"
  <2>1. Goto(w, "finish")
    BY <1>4 DEF FindDecision
  <2>2. attempt'[w].step = "finish" /\ attempt'[w].job = attempt[w].job
    BY <2>1, AfterGoto DEF PolicyInv, Steps
  <2>3. RowFits(w)'
    BY <2>2 DEF RowFits
  <2>4. ASSUME Alone(w) PROVE VerdictFits(w)'
    <3>1. row[pr.head].state = "failure"
      BY <1>2, <1>4, <2>4, EvaluatingFacts
    <3>2. ~Unfailed(pr.head)'
      BY <1>3, <3>1 DEF Unfailed
    <3> QED
      BY <1>3, <2>2, <3>2 DEF VerdictFits, Evaluating
  <2> QED
    BY <1>2, <1>3, <2>2, <2>3, <2>4, EvaluationProceeds
<1>5. CASE ~(Latest = NoHead \/ row[Latest].state = "failure")
  <2>1. Choose(w, "fetch state")
    BY <1>5 DEF FindDecision
  <2>2. PICK h : h = Latest
    OBVIOUS
  <2>3. /\ attempt'[w].step = "fetch state" /\ attempt'[w].job = attempt[w].job
        /\ attempt'[w].decision = h /\ attempt'[w].seen = row[h]
    BY <2>1, <2>2 DEF Choose, PolicyInv, AttemptsOK, Attempt
  <2>4. RowFits(w)'
    BY <1>3, <2>3 DEF RowFits
  <2>5. ASSUME Alone(w) PROVE VerdictFits(w)'
    <3>1. h = pr'.head
      BY <1>2, <1>3, <2>2, <2>5, EvaluatingFacts
    <3> QED
      BY <2>3, <3>1 DEF VerdictFits
  <2>6. attempt'[w].step \in Evaluating
    BY <2>3 DEF Evaluating
  <2> QED
    BY <1>2, <1>3, <2>3, <2>4, <2>5, <2>6, EvaluationProceeds
<1> QED
  BY <1>4, <1>5

\* The state of the pull request, read once or twice.
LEMMA FetchStateFits ==
  ASSUME OneWorker, PolicyInv, CurrentInv, NEW w \in Workers, FetchState(w) \/ FetchStateAgain(w)
  PROVE  CurrentInv'
<1>1. /\ UNCHANGED <<job, github, database>>
      /\ \/ /\ attempt[w].step = "fetch state"
            /\ Goto(w, IF Current(w) THEN "fetch reviews" ELSE "finish")
         \/ /\ attempt[w].step = "fetch state again"
            /\ Goto(w, IF Current(w) THEN "find check" ELSE "finish")
  BY DEF FetchState, FetchStateAgain, At
<1>2. attempt[w].step \in Evaluating
  BY <1>1 DEF Evaluating
<1>3. RunsExist' /\ UNCHANGED <<job, pr, decided, succeeded, row, checks>>
  BY <1>1, RunsSame DEF CurrentInv, github, database
<1>4. CASE ~Current(w)
  <2>1. Goto(w, "finish")
    BY <1>1, <1>4
  <2>2. attempt'[w].step = "finish" /\ attempt'[w].job = attempt[w].job
    BY <2>1, AfterGoto DEF PolicyInv, Steps
  <2>3. RowFits(w)'
    BY <2>2 DEF RowFits
  <2>4. ~Alone(w)
    <3>1. Alone(w) => VerdictFits(w) /\ pr.open
      BY <1>2, EvaluatingFacts
    <3> QED
      BY <1>1, <1>2, <1>4, <3>1 DEF VerdictFits, Current, HeadOf
  <2> QED
    BY <1>2, <1>3, <2>2, <2>3, <2>4, EvaluationProceeds
<1>5. CASE Current(w)
  <2>1. \/ attempt[w].step = "fetch state" /\ Goto(w, "fetch reviews")
        \/ attempt[w].step = "fetch state again" /\ Goto(w, "find check")
    BY <1>1, <1>5
  <2>2. /\ \/ attempt[w].step = "fetch state" /\ attempt'[w].step = "fetch reviews"
           \/ attempt[w].step = "fetch state again" /\ attempt'[w].step = "find check"
        /\ attempt'[w].job = attempt[w].job /\ attempt'[w].decision = attempt[w].decision
        /\ attempt'[w].seen = attempt[w].seen /\ attempt'[w].verdict = attempt[w].verdict
    BY <2>1, AfterGoto DEF PolicyInv, Steps
  <2>3. RowFits(w) /\ (Alone(w) => VerdictFits(w))
    BY <1>2, EvaluatingFacts
  <2>4. RowFits(w)'
    BY <1>3, <2>2, <2>3 DEF RowFits
  <2>5. ASSUME Alone(w) PROVE VerdictFits(w)'
    BY <1>3, <2>2, <2>3, <2>5 DEF VerdictFits, Evaluating
  <2>6. attempt'[w].step \in Evaluating
    BY <2>2 DEF Evaluating
  <2> QED
    BY <1>2, <1>3, <2>2, <2>4, <2>5, <2>6, EvaluationProceeds
<1> QED
  BY <1>4, <1>5

LEMMA FetchReviewsFits ==
  ASSUME OneWorker, PolicyInv, CurrentInv, NEW w \in Workers, FetchReviews(w)
  PROVE  CurrentInv'
<1>0. attempt[w].step = "fetch reviews" /\ UNCHANGED <<job, github, database>>
  BY DEF FetchReviews, At
<1>h. PICK verdict, step :
        /\ verdict = Evaluate(HeadOf(w), pr.approved)
        /\ step = IF verdict = "success" THEN "fetch state again" ELSE "find check"
  OBVIOUS
<1>1. attempt' = [attempt EXCEPT ![w] = [@ EXCEPT !.verdict = verdict, !.step = step]]
  BY <1>h DEF FetchReviews
<1>2. attempt[w].step \in Evaluating
  BY <1>0 DEF Evaluating
<1>3. RunsExist' /\ UNCHANGED <<job, pr, decided, succeeded, row, checks>>
  BY <1>0, RunsSame DEF CurrentInv, github, database
<1>4. /\ attempt'[w].step = step /\ attempt'[w].job = attempt[w].job
      /\ attempt'[w].decision = attempt[w].decision /\ attempt'[w].seen = attempt[w].seen
      /\ attempt'[w].verdict = verdict
  BY <1>1 DEF PolicyInv, AttemptsOK, Attempt
<1>5. step = "fetch state again" \/ step = "find check"
  BY <1>h
<1>6. RowFits(w) /\ (Alone(w) => VerdictFits(w))
  BY <1>2, EvaluatingFacts
<1>7. RowFits(w)'
  BY <1>0, <1>3, <1>4, <1>5, <1>6 DEF RowFits
<1>8. ASSUME Alone(w) PROVE VerdictFits(w)'
  <2>1. attempt[w].decision = pr.head
    BY <1>0, <1>2, <1>6, <1>8 DEF VerdictFits
  <2>2. verdict = Evaluate(pr.head, pr.approved)
    BY <1>h, <2>1 DEF HeadOf
  <2>3. Evaluate(pr.head, pr.approved)' = Evaluate(pr.head, pr.approved)
    BY <1>3 DEF Evaluate
  <2> QED
    BY <1>3, <1>4, <1>5, <2>1, <2>2, <2>3 DEF VerdictFits
<1>9. attempt'[w].step \in Evaluating
  BY <1>4, <1>5 DEF Evaluating
<1> QED
  BY <1>2, <1>3, <1>4, <1>7, <1>8, <1>9, EvaluationProceeds

LEMMA FindCheckToKeepOpenFits ==
  ASSUME OneWorker, PolicyInv, CurrentInv, NEW w \in Workers, FindCheckToKeepOpen(w)
  PROVE  CurrentInv'
<1>0. /\ attempt[w].step = "find check" /\ attempt[w].verdict = "in_progress"
      /\ UNCHANGED <<job, github, database>>
  BY DEF FindCheckToKeepOpen, At
<1>1. attempt[w].step \in Evaluating /\ attempt[w].step \in Deciding
  BY <1>0 DEF Evaluating, Deciding
<1>h. PICK h \in Heads : h = HeadOf(w)
  BY <1>1, WorkingOn
<1>2. RunsExist' /\ UNCHANGED <<job, pr, decided, succeeded, row, checks>>
  BY <1>0, RunsSame DEF CurrentInv, github, database
<1>3. RowFits(w) /\ (Alone(w) => VerdictFits(w))
  BY <1>1, EvaluatingFacts
<1>4. attempt[w].decision = h /\ attempt[w].seen = row[h] /\ Newest(h) \in Nat /\ row[h].run <= Newest(h)
  BY <1>0, <1>3, <1>h, NewestIs DEF RowFits, HeadOf, PolicyInv, CurrentInv, RunsExist
<1>5. \/ Goto(w, "record failure")
      \/ NewestState(h) = "in_progress" /\ row[h].run = Newest(h) /\ Goto(w, "persist state")
      \/ NewestState(h) = "in_progress" /\ Take(w, "record check", Newest(h))
      \/ Goto(w, "create check")
  <2>1. CASE NewestState(h) = "failure"
    BY <1>h, <2>1 DEF FindCheckToKeepOpen
  <2>2. CASE NewestState(h) = "in_progress"
    <3>1. IF attempt[w].seen = [run |-> Newest(h), state |-> "in_progress"]
          THEN Goto(w, "persist state") ELSE Take(w, "record check", Newest(h))
      BY <1>h, <2>2 DEF FindCheckToKeepOpen
    <3>2. CASE attempt[w].seen = [run |-> Newest(h), state |-> "in_progress"]
      <4>1. row[h].run = Newest(h)
        BY <1>4, <3>2
      <4>2. Goto(w, "persist state")
        BY <3>1, <3>2
      <4> QED
        BY <2>2, <4>1, <4>2
    <3>3. CASE attempt[w].seen # [run |-> Newest(h), state |-> "in_progress"]
      BY <2>2, <3>1, <3>3
    <3> QED
      BY <3>2, <3>3
  <2>3. CASE NewestState(h) \notin {"failure", "in_progress"}
    BY <1>h, <2>3 DEF FindCheckToKeepOpen
  <2> QED
    BY <2>1, <2>2, <2>3
<1>6. CASE Goto(w, "create check")
  <2>1. /\ attempt'[w].step = "create check" /\ attempt'[w].job = attempt[w].job
        /\ attempt'[w].decision = attempt[w].decision /\ attempt'[w].verdict = attempt[w].verdict
    BY <1>6, AfterGoto DEF PolicyInv, Steps
  <2>2. RowFits(w)' /\ attempt'[w].step \in Evaluating
    BY <2>1 DEF RowFits, Evaluating
  <2>3. ASSUME Alone(w) PROVE VerdictFits(w)'
    BY <1>0, <1>2, <1>3, <2>1, <2>3 DEF VerdictFits, Evaluating, Evaluate
  <2> QED
    BY <1>1, <1>2, <2>1, <2>2, <2>3, EvaluationProceeds
<1>7. CASE Goto(w, "record failure")
  <2>1. /\ attempt'[w].step = "record failure" /\ attempt'[w].job = attempt[w].job
        /\ attempt'[w].decision = attempt[w].decision /\ attempt'[w].verdict = attempt[w].verdict
        /\ attempt'[w].run = attempt[w].run
    BY <1>7, AfterGoto DEF PolicyInv, Steps
  <2>2. attempt'[w].step \in Evaluating
    BY <2>1 DEF Evaluating
  <2>3. RowFits(w)'
    BY <1>0, <2>1 DEF RowFits
  <2>4. ASSUME Alone(w) PROVE VerdictFits(w)'
    BY <1>0, <1>2, <1>3, <2>1, <2>4 DEF VerdictFits, Evaluating, Evaluate
  <2> QED
    BY <1>1, <1>2, <2>1, <2>2, <2>3, <2>4, EvaluationProceeds
<1>8. CASE NewestState(h) = "in_progress" /\ row[h].run = Newest(h) /\ Goto(w, "persist state")
  <2>1. /\ attempt'[w].step = "persist state" /\ attempt'[w].job = attempt[w].job
        /\ attempt'[w].decision = h /\ attempt'[w].verdict = "in_progress"
    BY <1>0, <1>4, <1>8, AfterGoto DEF PolicyInv, Steps
  <2>2. RowFits(w)' /\ attempt'[w].step \in Evaluating
    BY <2>1 DEF RowFits, Evaluating
  <2>3. ASSUME Alone(w) PROVE VerdictFits(w)'
    <3>1. h = pr.head /\ "in_progress" = Evaluate(pr.head, pr.approved)
      BY <1>0, <1>3, <1>4, <2>3 DEF VerdictFits, Evaluating
    <3>2. /\ NewestState(h)' = "in_progress" /\ Newest(h)' = Newest(h)
          /\ Evaluate(h, pr.approved)' = Evaluate(h, pr.approved)
      BY <1>2, <1>8 DEF NewestState, Newest, Evaluate
    <3>3. row'[h].run = Newest(h)'
      BY <1>2, <1>8, <3>2
    <3>4. pr'.head = h
      BY <1>2, <3>1
    <3> QED
      BY <2>1, <3>1, <3>2, <3>3, <3>4 DEF VerdictFits
  <2> QED
    BY <1>1, <1>2, <2>1, <2>2, <2>3, EvaluationProceeds
<1>9. CASE NewestState(h) = "in_progress" /\ Take(w, "record check", Newest(h))
  <2>1. /\ attempt'[w].step = "record check" /\ attempt'[w].job = attempt[w].job
        /\ attempt'[w].decision = h /\ attempt'[w].verdict = "in_progress"
        /\ attempt'[w].run = Newest(h)
    BY <1>0, <1>4, <1>9, AfterTake DEF PolicyInv, Steps
  <2>2. attempt'[w].step \in Evaluating /\ Newest(h)' = Newest(h)
    BY <1>2, <2>1 DEF Evaluating, Newest
  <2>3. RowFits(w)'
    <3>1. attempt'[w].run <= Newest(h)'
      <4>1. Newest(h) <= Newest(h)
        BY <1>4
      <4> QED
        BY <2>1, <2>2, <4>1, Zenon
    <3> QED
      BY <2>1, <3>1 DEF RowFits, Newest
  <2>4. ASSUME Alone(w) PROVE VerdictFits(w)'
    <3>1. h = pr.head /\ "in_progress" = Evaluate(pr.head, pr.approved)
      BY <1>0, <1>3, <1>4, <2>4 DEF VerdictFits, Evaluating
    <3>2. /\ NewestState(h)' = "in_progress"
          /\ Evaluate(h, pr.approved)' = Evaluate(h, pr.approved)
      BY <1>2, <1>9 DEF NewestState, Newest, Evaluate
    <3>3. pr'.head = h
      BY <1>2, <3>1
    <3> QED
      BY <2>1, <2>2, <3>1, <3>2, <3>3 DEF VerdictFits
  <2> QED
    BY <1>1, <1>2, <2>1, <2>2, <2>3, <2>4, EvaluationProceeds
<1> QED
  BY <1>5, <1>6, <1>7, <1>8, <1>9

LEMMA FindCheckToCompleteFits ==
  ASSUME OneWorker, PolicyInv, CurrentInv, NEW w \in Workers, FindCheckToComplete(w)
  PROVE  CurrentInv'
<1>0. /\ attempt[w].step = "find check" /\ attempt[w].verdict # "in_progress"
      /\ UNCHANGED <<job, github, database>>
  BY DEF FindCheckToComplete, At
<1>1. attempt[w].step \in Evaluating /\ attempt[w].step \in Deciding /\ attempt[w].step # "none"
  BY <1>0 DEF Evaluating, Deciding
<1>h. PICK h \in Heads : h = HeadOf(w)
  BY <1>1, WorkingOn
<1>2. RunsExist' /\ UNCHANGED <<job, pr, decided, succeeded, row, checks>>
  BY <1>0, RunsSame DEF CurrentInv, github, database
<1>3. RowFits(w) /\ (Alone(w) => VerdictFits(w))
  BY <1>1, EvaluatingFacts
<1>4. /\ attempt[w].decision = h /\ attempt[w].seen = row[h] /\ Newest(h) \in Nat
      /\ row[h].run <= Newest(h) /\ row[h].run \in Nat
  BY <1>0, <1>3, <1>h, NewestIs DEF RowFits, HeadOf, PolicyInv, CurrentInv, RunsExist, DataOK, Row
<1>5. Newest(h) <= Newest(h)
  BY <1>4
<1>6. \/ Take(w, "record failure", Newest(h))
      \/ Leave(w, "caught", "transient")
      \/ Newest(h) # 0 /\ Take(w, "update check", Newest(h))
  <2> DEFINE run == IF Newest(h) # 0 THEN Newest(h) ELSE row[h].run
  <2>1. IF NewestState(h) = "failure" THEN Take(w, "record failure", Newest(h))
        ELSE IF run = 0 THEN Leave(w, "caught", "transient") ELSE Take(w, "update check", run)
    BY <1>h, <1>4 DEF FindCheckToComplete
  <2>2. Newest(h) = 0 => run = 0
    BY <1>4
  <2>3. Newest(h) # 0 => run = Newest(h)
    OBVIOUS
  <2> HIDE DEF run
  <2>4. CASE Newest(h) = 0
    BY <2>1, <2>2, <2>4
  <2>5. CASE Newest(h) # 0
    BY <2>1, <2>3, <2>5
  <2> QED
    BY <2>4, <2>5
<1>7. CASE Leave(w, "caught", "transient")
  BY <1>0, <1>1, <1>7, CarelessStep DEF Careless
<1>8. ASSUME NEW step \in {"record failure", "update check"}, Take(w, step, Newest(h)),
             step = "update check" => Newest(h) # 0
      PROVE  CurrentInv'
  <2>0. step \in Steps /\ AttemptsOK
    BY DEF Steps, PolicyInv
  <2>1. /\ attempt'[w].step = step /\ attempt'[w].job = attempt[w].job
        /\ attempt'[w].decision = h /\ attempt'[w].verdict = attempt[w].verdict
        /\ attempt'[w].run = Newest(h) /\ attempt'[w].seen = row[h]
    BY <1>4, <1>8, <2>0, AfterTake
  <2>2. attempt'[w].step \in Evaluating /\ Newest(h)' = Newest(h)
    BY <1>2, <2>1 DEF Evaluating, Newest
  <2>3. RowFits(w)'
    <3>1. attempt'[w].run <= Newest(h)'
      BY <1>5, <2>1, <2>2, Zenon
    <3>2. attempt'[w].seen = row'[h]
      BY <1>2, <2>1
    <3> QED
      BY <2>1, <3>1, <3>2 DEF RowFits, Newest
  <2>4. ASSUME Alone(w) PROVE VerdictFits(w)'
    <3>1. h = pr.head /\ attempt[w].verdict = Evaluate(pr.head, pr.approved)
      BY <1>0, <1>3, <1>4, <2>4 DEF VerdictFits, Evaluating
    <3>2. Evaluate(h, pr.approved)' = Evaluate(h, pr.approved)
      BY <1>2 DEF Evaluate
    <3>3. pr'.head = h
      BY <1>2, <3>1
    <3>4. step = "update check" => attempt'[w].run # 0
      BY <1>8, <2>1
    <3> QED
      BY <2>1, <2>2, <3>1, <3>2, <3>3, <3>4 DEF VerdictFits
  <2> QED
    BY <1>1, <1>2, <2>1, <2>2, <2>3, <2>4, EvaluationProceeds
<1> QED
  BY <1>6, <1>7, <1>8

\* A new run is the newest one.
LEMMA RunCreated ==
  ASSUME DataOK, NEW h \in Heads, NEW state \in CheckState,
         checks' = [checks EXCEPT ![h] = Append(@, state)]
  PROVE  /\ Newest(h)' = Newest(h) + 1 /\ NewestState(h)' = state
         /\ \A g \in Heads \ {h} : Newest(g)' = Newest(g) /\ NewestState(g)' = NewestState(g)
<1>1. checks[h] \in Seq(CheckState)
  BY DEF DataOK
<1>2. checks'[h] = Append(checks[h], state) /\ \A g \in Heads \ {h} : checks'[g] = checks[g]
  BY DEF DataOK
<1>3. /\ Len(checks'[h]) = Len(checks[h]) + 1 /\ checks'[h] # <<>>
      /\ checks'[h][Len(checks[h]) + 1] = state
  BY <1>1, <1>2
<1> QED
  BY <1>2, <1>3 DEF Newest, NewestState

LEMMA CreateCheckFits ==
  ASSUME OneWorker, PolicyInv, CurrentInv, NEW w \in Workers, CheckFits(w), CreateCheck(w)
  PROVE  CurrentInv'
<1>0. attempt[w].step = "create check"
  BY DEF CreateCheck, At
<1>1. attempt[w].step \in Evaluating /\ attempt[w].step \in Deciding
  BY <1>0 DEF Evaluating, Deciding
<1>h. PICK h \in Heads : h = HeadOf(w)
  BY <1>1, WorkingOn
<1>2. /\ checks' = [checks EXCEPT ![h] = Append(@, "in_progress")]
      /\ Take(w, "record check", Newest(h) + 1) /\ UNCHANGED <<job, pr, database>>
  BY <1>h DEF CreateCheck
<1>3. Alone(w) => VerdictFits(w)
  BY <1>1, EvaluatingFacts
<1>4. attempt[w].decision = h /\ Newest(h) \in Nat /\ attempt[w].verdict = "in_progress"
  BY <1>0, <1>h, NewestIs DEF HeadOf, PolicyInv, CheckFits
<1>5. /\ Newest(h)' = Newest(h) + 1 /\ NewestState(h)' = "in_progress"
      /\ \A g \in Heads \ {h} : Newest(g)' = Newest(g) /\ NewestState(g)' = NewestState(g)
  BY <1>2, RunCreated DEF PolicyInv, CheckState
<1>6. PICK run \in Nat : run = Newest(h) + 1
  BY <1>4
<1>7. Newest(h)' = run /\ Take(w, "record check", run)
  BY <1>2, <1>5, <1>6, Zenon
<1>8. /\ attempt'[w].step = "record check" /\ attempt'[w].job = attempt[w].job
      /\ attempt'[w].decision = h /\ attempt'[w].verdict = "in_progress"
      /\ attempt'[w].run = run
  BY <1>4, <1>7, AfterTake DEF PolicyInv, Steps
<1>9. attempt'[w].step \in Evaluating
  BY <1>8 DEF Evaluating
<1>10. RunsExist'
  <2>1. row' = row /\ \A g \in Heads : row[g].run <= Newest(g) /\ row[g].run \in Nat
    BY <1>2 DEF CurrentInv, RunsExist, database, PolicyInv, DataOK, Row
  <2>2. row[h].run <= run
    BY <1>4, <1>6, <2>1
  <2>3. row'[h].run <= Newest(h)'
    BY <1>7, <2>1, <2>2, Zenon
  <2>4. ASSUME NEW g \in Heads \ {h} PROVE row'[g].run <= Newest(g)'
    BY <1>5, <2>1, Zenon
  <2> QED
    BY <2>3, <2>4 DEF RunsExist
<1>11. RowFits(w)'
  <2>1. run <= run
    BY <1>6
  <2>2. attempt'[w].run <= Newest(h)'
    BY <1>7, <1>8, <2>1, Zenon
  <2> QED
    BY <1>8, <2>2 DEF RowFits, Newest
<1>12. ASSUME Alone(w) PROVE VerdictFits(w)'
  <2>1. h = pr.head /\ "in_progress" = Evaluate(pr.head, pr.approved)
    BY <1>0, <1>3, <1>4, <1>12 DEF VerdictFits, Evaluating
  <2>2. Evaluate(h, pr.approved)' = Evaluate(h, pr.approved)
    BY <1>2 DEF Evaluate
  <2>3. pr'.head = h
    BY <1>2, <2>1
  <2> QED
    BY <1>5, <1>7, <1>8, <2>1, <2>2, <2>3 DEF VerdictFits
<1>13. UNCHANGED <<job, pr, decided, succeeded>>
  BY <1>2 DEF database
<1> QED
  BY <1>1, <1>8, <1>9, <1>10, <1>11, <1>12, <1>13, EvaluationProceeds

LEMMA UpdateCheckFits ==
  ASSUME OneWorker, PolicyInv, CurrentInv, NEW w \in Workers, UpdateCheck(w)
  PROVE  CurrentInv'
<1>0. attempt[w].step = "update check"
  BY DEF UpdateCheck, At
<1>1. attempt[w].step \in Evaluating /\ attempt[w].step \in Deciding
  BY <1>0 DEF Evaluating, Deciding
<1>h. PICK h \in Heads, run \in Nat, verdict \in CheckState :
        h = HeadOf(w) /\ run = attempt[w].run /\ verdict = attempt[w].verdict
  BY <1>1, WorkingOn
<1>2. /\ checks' = [checks EXCEPT ![h][run] = verdict]
      /\ Goto(w, IF run # attempt[w].seen.run THEN "record check" ELSE "persist state")
      /\ UNCHANGED <<job, pr, database>>
  BY <1>h DEF UpdateCheck
<1>3. RowFits(w) /\ (Alone(w) => VerdictFits(w))
  BY <1>1, EvaluatingFacts
<1>4. attempt[w].decision = h /\ run <= Newest(h) /\ attempt[w].seen = row[h]
  BY <1>0, <1>3, <1>h DEF RowFits, HeadOf
<1>5. /\ \A g \in Heads : Newest(g)' = Newest(g)
      /\ run = Newest(h) /\ run # 0 => NewestState(h)' = verdict
  BY <1>2, RunWritten DEF PolicyInv
<1>6. \/ Goto(w, "record check")
      \/ run = row[h].run /\ Goto(w, "persist state")
  BY <1>2, <1>4
<1>7. /\ \/ attempt'[w].step = "record check"
         \/ attempt'[w].step = "persist state" /\ run = row[h].run
      /\ attempt'[w].job = attempt[w].job /\ attempt'[w].decision = h
      /\ attempt'[w].run = run /\ attempt'[w].verdict = verdict
  BY <1>4, <1>6, <1>h, AfterGoto DEF PolicyInv, Steps
<1>8. attempt'[w].step \in Evaluating
  BY <1>7 DEF Evaluating
<1>9. RunsExist'
  <2>1. row' = row /\ \A g \in Heads : row[g].run <= Newest(g)
    BY <1>2 DEF CurrentInv, RunsExist, database
  <2> QED
    BY <1>5, <2>1, Zenon DEF RunsExist
<1>10. RowFits(w)'
  <2>1. attempt'[w].run <= Newest(h)'
    BY <1>4, <1>5, <1>7, Zenon
  <2> QED
    BY <1>7, <2>1 DEF RowFits, Newest
<1>11. ASSUME Alone(w) PROVE VerdictFits(w)'
  <2>1. h = pr.head /\ verdict = Evaluate(pr.head, pr.approved) /\ run = Newest(pr.head) /\ run # 0
    BY <1>0, <1>3, <1>4, <1>h, <1>11 DEF VerdictFits, Evaluating
  <2>2. Evaluate(h, pr.approved)' = Evaluate(h, pr.approved) /\ pr'.head = h /\ row' = row
    BY <1>2, <2>1 DEF Evaluate, database
  <2>3. NewestState(h)' = verdict /\ Newest(h)' = run
    BY <1>5, <2>1
  <2> QED
    BY <1>7, <2>1, <2>2, <2>3 DEF VerdictFits
<1>12. UNCHANGED <<job, pr, decided, succeeded>>
  BY <1>2 DEF database
<1> QED
  BY <1>1, <1>7, <1>8, <1>9, <1>10, <1>11, <1>12, EvaluationProceeds

LEMMA RecordCheckFits ==
  ASSUME OneWorker, PolicyInv, CurrentInv, NEW w \in Workers, RecordCheck(w)
  PROVE  CurrentInv'
<1>0. attempt[w].step = "record check"
  BY DEF RecordCheck, At
<1>1. attempt[w].step \in Evaluating /\ attempt[w].step \in Deciding
  BY <1>0 DEF Evaluating, Deciding
<1>h. PICK h \in Heads, run \in Nat, verdict \in CheckState :
        h = HeadOf(w) /\ run = attempt[w].run /\ verdict = attempt[w].verdict
  BY <1>1, WorkingOn
<1>2. /\ row' = [row EXCEPT ![h] = WithCheck(@, run, verdict)] /\ Goto(w, "persist state")
      /\ UNCHANGED <<job, github, decided, succeeded, recovery>>
  BY <1>h DEF RecordCheck
<1>3. RowFits(w) /\ (Alone(w) => VerdictFits(w))
  BY <1>1, EvaluatingFacts
<1>4. attempt[w].decision = h /\ run <= Newest(h)
  BY <1>0, <1>3, <1>h DEF RowFits, HeadOf
<1>5. /\ row[h].state # "failure" => row'[h].run = run
      /\ row'[h].run \in {row[h].run, run}
      /\ row'[h].state = "failure" <=> (row[h].state = "failure" \/ verdict = "failure")
      /\ \A g \in Heads \ {h} : row'[g] = row[g]
  BY <1>2, RowWritten DEF PolicyInv
<1>6. \A g \in Heads : Newest(g)' = Newest(g) /\ NewestState(g)' = NewestState(g)
  BY <1>2 DEF github, Newest, NewestState
<1>7. /\ attempt'[w].step = "persist state" /\ attempt'[w].job = attempt[w].job
      /\ attempt'[w].decision = h /\ attempt'[w].verdict = verdict
  BY <1>2, <1>4, <1>h, AfterGoto DEF PolicyInv, Steps
<1>8. attempt'[w].step \in Evaluating /\ RowFits(w)'
  BY <1>7 DEF Evaluating, RowFits
<1>9. RunsExist'
  BY <1>4, <1>5, <1>6 DEF CurrentInv, RunsExist
<1>10. ASSUME Alone(w) PROVE VerdictFits(w)'
  <2>1. /\ h = pr.head /\ verdict = Evaluate(pr.head, pr.approved) /\ run = Newest(pr.head)
        /\ NewestState(pr.head) = verdict
    BY <1>0, <1>3, <1>4, <1>h, <1>10 DEF VerdictFits, Evaluating
  <2>2. Evaluate(h, pr.approved)' = Evaluate(h, pr.approved) /\ pr'.head = h
    BY <1>2, <2>1 DEF Evaluate, github
  <2>3. NewestState(h)' = verdict /\ Newest(h)' = run
    BY <1>6, <2>1
  <2>4. row'[h].state = "failure" \/ row'[h].run = run
    BY <1>5
  <2> QED
    BY <1>7, <2>1, <2>2, <2>3, <2>4 DEF VerdictFits
<1>11. UNCHANGED <<job, pr, decided, succeeded>>
  BY <1>2 DEF github
<1> QED
  BY <1>1, <1>7, <1>8, <1>9, <1>10, <1>11, EvaluationProceeds

LEMMA RecordFailureFits ==
  ASSUME OneWorker, PolicyInv, CurrentInv, NEW w \in Workers, RecordFailure(w)
  PROVE  CurrentInv'
<1>0. attempt[w].step = "record failure"
  BY DEF RecordFailure, At
<1>1. attempt[w].step \in Evaluating /\ attempt[w].step \in Deciding /\ attempt[w].step # "none"
  BY <1>0 DEF Evaluating, Deciding
<1>h. PICK h \in Heads, run \in Nat, recorded \in Nat :
        /\ h = HeadOf(w) /\ recorded = row[h].run
        /\ run = IF attempt[w].verdict = "in_progress" THEN recorded ELSE attempt[w].run
  BY <1>1, WorkingOn DEF PolicyInv, DataOK, Row
<1>2. UNCHANGED <<job, github, decided, succeeded, recovery>>
  BY DEF RecordFailure
<1>3. row' = [row EXCEPT ![h] = WithCheck(@, run, "failure")]
  <2>1. CASE attempt[w].verdict = "in_progress"
    <3>1. row' = [row EXCEPT ![h] = WithCheck(@, @.run, "failure")]
      BY <1>h, <2>1 DEF RecordFailure
    <3>2. row \in [Heads -> Row]
      BY DEF PolicyInv, DataOK
    <3> HIDE DEF WithCheck
    <3> QED
      BY <1>h, <2>1, <3>1, <3>2
  <2>2. CASE attempt[w].verdict # "in_progress"
    BY <1>h, <2>2 DEF RecordFailure
  <2> QED
    BY <2>1, <2>2
<1>4. RowFits(w) /\ (Alone(w) => VerdictFits(w) /\ Human(pr.head)) /\ IsEvaluation(JobOf(w))
  BY <1>1, EvaluatingFacts
<1>5. attempt[w].decision = h /\ run <= Newest(h)
  <2>1. attempt[w].verdict # "in_progress" => attempt[w].run <= Newest(h)
    BY <1>0, <1>4, <1>h DEF RowFits, HeadOf
  <2>2. recorded <= Newest(h)
    BY <1>h DEF CurrentInv, RunsExist
  <2> QED
    BY <1>h, <2>1, <2>2 DEF HeadOf
<1>6. /\ row'[h].run \in {row[h].run, run} /\ row'[h].state = "failure"
      /\ \A g \in Heads \ {h} : row'[g] = row[g]
  BY <1>3, RowWritten DEF PolicyInv, CheckState
<1>7. \A g \in Heads : Newest(g)' = Newest(g) /\ NewestState(g)' = NewestState(g)
  BY <1>2 DEF github, Newest, NewestState
<1>8. RunsExist'
  BY <1>5, <1>6, <1>7 DEF CurrentInv, RunsExist
<1>9. UNCHANGED <<job, pr, decided, succeeded>>
  BY <1>2 DEF github
<1>10. CASE attempt[w].verdict = "failure"
  <2>1. Goto(w, "persist state")
    BY <1>10 DEF RecordFailure
  <2>2. attempt'[w].step = "persist state" /\ attempt'[w].job = attempt[w].job
    BY <2>1, AfterGoto DEF PolicyInv, Steps
  <2>3. attempt'[w].step \in Evaluating /\ RowFits(w)'
    BY <2>2 DEF Evaluating, RowFits
  <2>4. ~Alone(w)
    <3>1. Human(pr.head) => Evaluate(pr.head, pr.approved) # "failure"
      BY EvaluateIs
    <3>2. Alone(w) => attempt[w].verdict = Evaluate(pr.head, pr.approved) /\ Human(pr.head)
      BY <1>0, <1>4 DEF VerdictFits, Evaluating
    <3> QED
      BY <1>10, <3>1, <3>2
  <2> QED
    BY <1>1, <1>8, <1>9, <2>2, <2>3, <2>4, EvaluationProceeds
<1>11. CASE attempt[w].verdict # "failure"
  <2>1. Leave(w, "caught", "permanent")
    BY <1>11 DEF RecordFailure
  <2>2. attempt'[w].step = "caught" /\ attempt'[w].job = attempt[w].job
    BY <2>1, AfterLeave DEF PolicyInv, Steps
  <2>3. KindFits(w)' /\ RowFits(w)' /\ RouteFits(w)' /\ VerdictFits(w)'
    BY <2>2, CarelessOK DEF Careless
  <2>4. HeadsInv' /\ EvaluatedInv'
    BY <1>1, <1>4, <1>9, HeadsSame, EvaluatedBusy DEF CurrentInv
  <2> QED
    BY <1>1, <1>8, <1>9, <2>2, <2>3, <2>4, WritingStep
<1> QED
  BY <1>10, <1>11

LEMMA PersistStateFits ==
  ASSUME OneWorker, PolicyInv, CurrentInv, NEW w \in Workers, PersistState(w)
  PROVE  CurrentInv'
<1>0. attempt[w].step = "persist state"
  BY DEF PersistState, At
<1>1. attempt[w].step \in Evaluating /\ attempt[w].step \in Deciding
  BY <1>0 DEF Evaluating, Deciding
<1>h. PICK h \in Heads, verdict \in CheckState : h = HeadOf(w) /\ verdict = attempt[w].verdict
  BY <1>1, WorkingOn
<1>2. /\ row' = [row EXCEPT ![h] = WithCheck(@, @.run, verdict)] /\ Goto(w, "finish")
      /\ UNCHANGED <<job, github, decided, succeeded, recovery>>
  BY <1>h DEF PersistState
<1>3. Alone(w) => VerdictFits(w)
  BY <1>1, EvaluatingFacts
<1>4. /\ row[h].state # "failure" => row'[h] = [run |-> row[h].run, state |-> verdict]
      /\ row'[h].run = row[h].run
      /\ row[h].state = "failure" => row'[h].state = "failure"
      /\ \A g \in Heads \ {h} : row'[g] = row[g]
  <2>1. row \in [Heads -> Row]
    BY DEF PolicyInv, DataOK
  <2>2. row'[h] = WithCheck(row[h], row[h].run, verdict) /\ \A g \in Heads \ {h} : row'[g] = row[g]
    BY <1>2, <2>1
  <2> QED
    BY <2>2 DEF WithCheck
<1>5. \A g \in Heads : Newest(g)' = Newest(g) /\ NewestState(g)' = NewestState(g)
  BY <1>2 DEF github, Newest, NewestState
<1>6. attempt'[w].step = "finish" /\ attempt'[w].job = attempt[w].job
  BY <1>2, AfterGoto DEF PolicyInv, Steps
<1>7. RowFits(w)'
  BY <1>6 DEF RowFits
<1>8. RunsExist'
  BY <1>4, <1>5 DEF CurrentInv, RunsExist
<1>9. ASSUME Alone(w) PROVE VerdictFits(w)'
  <2>1. /\ h = pr.head /\ verdict = Evaluate(h, pr.approved) /\ NewestState(h) = verdict
        /\ row[h].state = "failure" \/ row[h].run = Newest(h)
    BY <1>0, <1>1, <1>3, <1>9, <1>h DEF VerdictFits, Evaluating, HeadOf
  <2>2. Evaluate(h, pr.approved)' = Evaluate(h, pr.approved) /\ pr'.head = h
    BY <1>2, <2>1 DEF Evaluate, github
  <2>3. Unfailed(h)' => Agreed(h)'
    <3> SUFFICES ASSUME row'[h].state # "failure" PROVE Agreed(h)'
      BY DEF Unfailed
    <3>1. row'[h] = [run |-> row[h].run, state |-> verdict] /\ row[h].run = Newest(h)
      BY <1>4, <2>1
    <3>2. row'[h].state = verdict
      BY <3>1
    <3> QED
      BY <1>5, <2>1, <2>2, <3>1, <3>2, Zenon DEF Agreed
  <2> QED
    BY <1>6, <2>2, <2>3 DEF VerdictFits, Evaluating, Unfailed, Agreed
<1>10. UNCHANGED <<job, pr, decided, succeeded>>
  BY <1>2 DEF github
<1> QED
  BY <1>1, <1>6, <1>7, <1>8, <1>9, <1>10, EvaluationProceeds

LEMMA EvaluationStepFits ==
  ASSUME OneWorker, PolicyInv, CurrentInv, NEW w \in Workers, CheckFits(w), EvaluationStep(w)
  PROVE  CurrentInv'
BY FindDecisionFits, FetchStateFits, FetchReviewsFits, FindCheckToKeepOpenFits,
   FindCheckToCompleteFits, CreateCheckFits, UpdateCheckFits, RecordCheckFits, RecordFailureFits,
   PersistStateFits
   DEF EvaluationStep

-----------------------------------------------------------------------------
(* The steps of a recovery.                                                *)

LEMMA FindFailedDecisionFits ==
  ASSUME OneWorker, PolicyInv, CurrentInv, NEW w \in Workers, FindFailedDecision(w)
  PROVE  CurrentInv'
<1>h. PICK h : h = IF ~IsEvaluation(JobOf(w))
                   THEN (IF Persisted(JobOf(w).key) THEN JobOf(w).key ELSE NoHead)
                   ELSE IF recovery[JobOf(w)] \in Heads THEN recovery[JobOf(w)] ELSE Latest
  OBVIOUS
<1>1. /\ UNCHANGED <<job, github, database>>
      /\ attempt[w].step = "find failed decision" /\ attempt[w].step # "none"
  BY DEF FindFailedDecision, At
<1>2. CASE h = NoHead
  <2>1. Goto(w, "finalized")
    BY <1>h, <1>2 DEF FindFailedDecision
  <2> QED
    BY <1>1, <2>1, CarelessStep DEF Careless
<1>3. CASE h # NoHead
  <2>s. PICK step : step = IF IsEvaluation(JobOf(w)) /\ row[h].state = "failure"
                           THEN "finalized" ELSE "find failed check"
    OBVIOUS
  <2>c. PICK chosen : chosen = (IsEvaluation(JobOf(w)) /\ recovery[JobOf(w)] = "unnamed")
    OBVIOUS
  <2>1. attempt' = [attempt EXCEPT ![w] = [@ EXCEPT !.step = step, !.decision = h,
                                                    !.seen = row[h], !.chosen = chosen]]
    BY <1>h, <1>3, <2>s, <2>c DEF FindFailedDecision
  <2>2. /\ attempt'[w].step = step /\ attempt'[w].job = attempt[w].job
        /\ attempt'[w].decision = h /\ attempt'[w].seen = row[h]
    BY <2>1 DEF PolicyInv, AttemptsOK, Attempt
  <2>3. step = "finalized" \/ step = "find failed check"
    BY <2>s
  <2>4. KindFits(w)' /\ RouteFits(w)' /\ VerdictFits(w)'
    BY <2>2, <2>3 DEF KindFits, RouteFits, VerdictFits, RoutingWork, Evaluating
  <2>5. RowFits(w)'
    BY <1>1, <2>2, <2>3 DEF RowFits, database
  <2> QED
    BY <1>1, <2>2, <2>4, <2>5, QuietStep
<1> QED
  BY <1>2, <1>3

LEMMA FindFailedCheckFits ==
  ASSUME OneWorker, PolicyInv, CurrentInv, NEW w \in Workers, FindFailedCheck(w)
  PROVE  CurrentInv'
<1>0. /\ UNCHANGED <<job, github, database>>
      /\ attempt[w].step = "find failed check" /\ attempt[w].step # "none"
  BY DEF FindFailedCheck, At
<1>1. attempt[w].step \in Deciding
  BY <1>0 DEF Deciding
<1>h. PICK h \in Heads, newest \in Nat, recorded \in Nat, run \in Nat :
        /\ h = HeadOf(w) /\ newest = Newest(h) /\ recorded = attempt[w].seen.run
        /\ run = IF IsEvaluation(JobOf(w)) THEN (IF newest # 0 THEN newest ELSE recorded)
                                           ELSE (IF recorded # 0 THEN recorded ELSE newest)
  <2>1. HeadOf(w) \in Heads /\ attempt[w].seen.run \in Nat
    BY <1>1, WorkingOn DEF Row
  <2>2. Newest(HeadOf(w)) \in Nat
    BY <2>1, NewestIs DEF PolicyInv
  <2> QED
    BY <2>1, <2>2
<1>2. \/ Goto(w, "finalized")
      \/ Take(w, "record failed check", run) \/ Take(w, "fail check", run)
  BY <1>h DEF FindFailedCheck
<1>3. attempt[w].decision = h /\ attempt[w].seen = row[h] /\ row[h].run = recorded
  <2>1. RowFits(w)
    BY <1>0, Working
  <2> QED
    BY <1>0, <1>h, <2>1 DEF RowFits, HeadOf
<1>4. recorded <= newest
  BY <1>3, <1>h DEF CurrentInv, RunsExist
<1>5. run <= newest
  BY <1>4, <1>h
<1>6. ~IsEvaluation(JobOf(w)) /\ recorded # 0 => run = recorded
  BY <1>h
<1>7. CASE Goto(w, "finalized")
  BY <1>0, <1>7, CarelessStep DEF Careless
<1>8. CASE Take(w, "record failed check", run) \/ Take(w, "fail check", run)
  <2>1. /\ attempt'[w].step = "record failed check" \/ attempt'[w].step = "fail check"
        /\ attempt'[w].job = attempt[w].job
        /\ attempt'[w].decision = h /\ attempt'[w].run = run
    BY <1>3, <1>8, AfterTake DEF PolicyInv, Steps
  <2>2. KindFits(w)' /\ RouteFits(w)' /\ VerdictFits(w)'
    BY <2>1 DEF KindFits, RouteFits, VerdictFits, RoutingWork, Evaluating
  <2>3. RowFits(w)'
    <3>1. attempt'[w].run <= Newest(h)'
      BY <1>0, <1>5, <1>h, <2>1, Zenon DEF github, Newest
    <3>2. ~IsEvaluation(attempt'[w].job) /\ row'[h].run # 0 => attempt'[w].run = row'[h].run
      BY <1>0, <1>3, <1>6, <2>1 DEF database, JobOf
    <3> QED
      BY <2>1, <3>1, <3>2 DEF RowFits, Newest, IsEvaluation
  <2> QED
    BY <1>0, <2>1, <2>2, <2>3, QuietStep
<1> QED
  BY <1>2, <1>7, <1>8

LEMMA FailCheckFits ==
  ASSUME OneWorker, PolicyInv, CurrentInv, NEW w \in Workers, FailCheck(w)
  PROVE  CurrentInv'
<1>0. attempt[w].step = "fail check" /\ attempt[w].step # "none"
  BY DEF FailCheck, At
<1>1. attempt[w].step \in Deciding
  BY <1>0 DEF Deciding
<1>h. PICK h \in Heads, run \in Nat : h = HeadOf(w) /\ run = attempt[w].run
  BY <1>1, WorkingOn
<1>2. /\ checks' = [checks EXCEPT ![h][run] = "failure"] /\ Goto(w, "record failed check")
      /\ UNCHANGED <<job, pr, database>>
  BY <1>h DEF FailCheck
<1>3. /\ run <= Newest(h) /\ attempt[w].decision = h
      /\ ~IsEvaluation(JobOf(w)) /\ row[h].run # 0 => run = row[h].run
  <2>1. RowFits(w)
    BY <1>0, Working
  <2> QED
    BY <1>0, <1>h, <2>1 DEF RowFits, HeadOf, JobOf
<1>4. /\ attempt'[w].step = "record failed check" /\ attempt'[w].job = attempt[w].job
      /\ attempt'[w].decision = h /\ attempt'[w].run = run
  BY <1>2, <1>3, <1>h, AfterGoto DEF PolicyInv, Steps
<1>5. \A g \in Heads : Newest(g)' = Newest(g)
  BY <1>2, RunWritten DEF PolicyInv, CheckState
<1>6. RunsExist'
  <2>1. row' = row /\ \A g \in Heads : row[g].run <= Newest(g)
    BY <1>2 DEF CurrentInv, RunsExist, database
  <2> QED
    BY <1>5, <2>1, Zenon DEF RunsExist
<1>7. EvaluatedInv'
  <2>1. CASE IsEvaluation(JobOf(w))
    BY <1>0, <1>2, <2>1, EvaluatedBusy
  <2>2. CASE ~IsEvaluation(JobOf(w))
    BY <1>2, <1>3, <2>2, EvaluatedFails DEF CurrentInv, database
  <2> QED
    BY <2>1, <2>2
<1>8. HeadsInv'
  BY <1>2, HeadsSame DEF CurrentInv, database
<1>9. KindFits(w)' /\ RouteFits(w)' /\ VerdictFits(w)'
  BY <1>4 DEF KindFits, RouteFits, VerdictFits, RoutingWork, Evaluating
<1>10. RowFits(w)'
  <2>1. attempt'[w].run <= Newest(h)'
    BY <1>3, <1>4, <1>5, Zenon
  <2> QED
    BY <1>4, <2>1 DEF RowFits, Newest
<1> QED
  BY <1>0, <1>2, <1>4, <1>6, <1>7, <1>8, <1>9, <1>10, WritingStep

LEMMA RecordFailedCheckFits ==
  ASSUME OneWorker, PolicyInv, CurrentInv, NEW w \in Workers, RecordFailedCheck(w)
  PROVE  CurrentInv'
<1>0. attempt[w].step = "record failed check" /\ attempt[w].step # "none"
  BY DEF RecordFailedCheck, At
<1>1. attempt[w].step \in Deciding
  BY <1>0 DEF Deciding
<1>h. PICK h \in Heads, run \in Nat : h = HeadOf(w) /\ run = attempt[w].run
  BY <1>1, WorkingOn
<1>2. /\ row' = [row EXCEPT ![h] = WithCheck(@, run, "failure")] /\ Goto(w, "finalized")
      /\ UNCHANGED <<job, github, decided, succeeded, recovery>>
  BY <1>h DEF RecordFailedCheck
<1>3. run <= Newest(h)
  <2>1. RowFits(w)
    BY <1>0, Working
  <2> QED
    BY <1>0, <1>h, <2>1 DEF RowFits, HeadOf
<1>4. attempt'[w].step = "finalized" /\ attempt'[w].job = attempt[w].job
  BY <1>2, AfterGoto DEF PolicyInv, Steps
<1>5. KindFits(w)' /\ RowFits(w)' /\ RouteFits(w)' /\ VerdictFits(w)'
  BY <1>4, CarelessOK DEF Careless
<1>6. /\ row'[h].run \in {row[h].run, run} /\ row'[h].state = "failure"
      /\ \A g \in Heads \ {h} : row'[g] = row[g]
  BY <1>2, RowWritten DEF PolicyInv, CheckState
<1>7. UNCHANGED <<job, pr, decided, succeeded, checks>>
  BY <1>2 DEF github
<1>8. RunsExist'
  <2>1. \A g \in Heads : Newest(g)' = Newest(g)
    BY <1>7 DEF Newest
  <2> QED
    BY <1>3, <1>6, <2>1 DEF CurrentInv, RunsExist
<1>9. HeadsInv' /\ EvaluatedInv'
  BY <1>6, <1>7, HeadsSame, EvaluatedRowFails DEF CurrentInv
<1> QED
  BY <1>0, <1>4, <1>5, <1>7, <1>8, <1>9, WritingStep

LEMMA FailureStepFits ==
  ASSUME OneWorker, PolicyInv, CurrentInv, NEW w \in Workers, FailureStep(w)
  PROVE  CurrentInv'
BY FindFailedDecisionFits, FindFailedCheckFits, FailCheckFits, RecordFailedCheckFits
   DEF FailureStep

-----------------------------------------------------------------------------
(* Jobs are settled, lost, claimed and swept.                              *)

\* The worker becomes idle.
LEMMA IdleFits ==
  ASSUME OneWorker, NEW w \in Workers, attempt'[w].step = "none",
         HeadsInv', RunsExist', EvaluatedInv'
  PROVE  CurrentInv'
<1>1. AttemptFits(w)'
  BY DEF AttemptFits
<1> QED
  BY <1>1, FitsAll DEF CurrentInv

\* A job that moves without having succeeded.
LEMMA UnfinishedFits ==
  ASSUME PolicyInv, CurrentInv, NEW j \in Jobs, job[j].status # "absent",
         NEW status, status \in {"queued", "running", "failed"}, JobMoves(j, status),
         UNCHANGED <<pr, checks, decided, succeeded, row>>
  PROVE  HeadsInv' /\ RunsExist' /\ EvaluatedInv'
<1>1. status # "absent" /\ status # "succeeded"
  OBVIOUS
<1>2. HeadsInv'
  BY <1>1, HeadsMove DEF CurrentInv
<1>3. RunsExist'
  BY RunsSame DEF CurrentInv
<1>4. EvaluatedInv'
  <2>1. CASE IsEvaluation(j)
    BY <1>1, <2>1, EvaluationWaits DEF Evaluations, JobMoves
  <2>2. CASE ~IsEvaluation(j)
    BY <2>2, EvaluatedRoutes DEF CurrentInv
  <2> QED
    BY <2>1, <2>2
<1> QED
  BY <1>2, <1>3, <1>4

\* A job that its worker leaves unfinished.
LEMMA LeavesFits ==
  ASSUME OneWorker, PolicyInv, CurrentInv, NEW w \in Workers, attempt[w].step # "none",
         \/ JobMoves(JobOf(w), "queued") \/ JobMoves(JobOf(w), "running")
         \/ JobMoves(JobOf(w), "failed"),
         UNCHANGED <<github, decided, succeeded, row>>, Done(w)
  PROVE  CurrentInv'
<1>1. JobOf(w) \in Jobs /\ job[JobOf(w)].status # "absent"
  BY Working
<1>2. UNCHANGED <<pr, checks, decided, succeeded, row>>
  BY DEF github
<1>3. PICK status : status \in {"queued", "running", "failed"} /\ JobMoves(JobOf(w), status)
  OBVIOUS
<1>4. HeadsInv' /\ RunsExist' /\ EvaluatedInv'
  BY <1>1, <1>2, <1>3, UnfinishedFits
<1>5. attempt'[w].step = "none"
  BY AfterDone DEF PolicyInv
<1> QED
  BY <1>4, <1>5, IdleFits

LEMMA MarkFailedMoves ==
  ASSUME PolicyInv, NEW w \in Workers, JobOf(w) \in Jobs, NEW retryable, MarkFailed(w, retryable)
  PROVE  JobMoves(JobOf(w), "queued") \/ JobMoves(JobOf(w), "failed")
<1> DEFINE j == JobOf(w)
<1>1. job[j].max \in Nat
  <2>1. job[j] \in JobRow
    BY JobRows
  <2>2. job[j].max \in 1 .. AttemptCap
    BY <2>1 DEF JobRow
  <2> QED
    BY <2>2
<1>2. GiveBack(w, j, job[j].max) \/ Conclude(w, j, "failed")
  BY DEF MarkFailed
<1> HIDE DEF j
<1> QED
  BY <1>1, <1>2, Moves DEF j

LEMMA CatchAndFinalizeFits ==
  ASSUME OneWorker, PolicyInv, CurrentInv, NEW w \in Workers, CatchAndFinalize(w)
  PROVE  CurrentInv'
<1>1. attempt[w].step # "none" /\ Done(w) /\ UNCHANGED <<github, decided, succeeded, row>>
  BY DEF CatchAndFinalize, At
<1>2. JobOf(w) \in Jobs
  BY <1>1, Working
<1>3. PICK max : GiveBack(w, JobOf(w), max) /\ max = job[JobOf(w)].attempt + FinalizationAttempts
  BY DEF CatchAndFinalize
<1>4. max \in Nat
  <2>1. job[JobOf(w)] \in JobRow
    BY <1>2, JobRows
  <2>2. job[JobOf(w)].attempt \in Nat
    BY <2>1 DEF JobRow
  <2>3. FinalizationAttempts \in Nat
    BY PolicyAssumption
  <2> QED
    BY <1>3, <2>2, <2>3
<1>5. JobMoves(JobOf(w), "queued")
  BY <1>2, <1>3, <1>4, Moves
<1> QED
  BY <1>1, <1>5, LeavesFits

\* The head's evaluations are over when the last one succeeds.
LEMMA FinishFits ==
  ASSUME OneWorker, PolicyInv, CurrentInv, NEW w \in Workers, Finish(w)
  PROVE  CurrentInv'
<1> DEFINE j == JobOf(w)
<1>1. /\ attempt[w].step = "finish" /\ attempt[w].step # "none"
      /\ Conclude(w, j, "succeeded") /\ Done(w) /\ UNCHANGED <<github, database>>
  BY DEF Finish, At
<1>2. /\ j \in Jobs /\ job[j].status = "running" /\ RouteFits(w)
      /\ Alone(w) => VerdictFits(w)
  BY <1>1, Working
<1>3. JobMoves(j, "succeeded")
  BY <1>1, <1>2, Moves
<1>4. UNCHANGED <<pr, checks, decided, succeeded, row>>
  BY <1>1 DEF github, database
<1>5. pr.head \in Heads
  BY DEF PolicyInv, DataOK
<1>6. j = RoutingJob(pr.head) /\ Human(pr.head) => Asked(pr.head)
  <2> SUFFICES ASSUME j = RoutingJob(pr.head), Human(pr.head) PROVE Asked(pr.head)
    OBVIOUS
  <2>1. ~IsEvaluation(j) /\ j.key = pr.head
    BY <1>5, JobNames
  <2> QED
    BY <1>1, <1>2, <2>1 DEF RouteFits, JobOf
<1>7. HeadsInv'
  BY <1>2, <1>3, <1>4, <1>6, HeadsMove DEF CurrentInv
<1>8. RunsExist'
  BY <1>4, RunsSame DEF CurrentInv
<1>9. EvaluatedInv'
  <2>1. CASE ~IsEvaluation(j)
    BY <1>2, <1>3, <1>4, <2>1, EvaluatedRoutes DEF CurrentInv
  <2>2. CASE IsEvaluation(j)
    <3>1. \A i \in Evaluations : i = j \/ job'[i] = job[i]
      BY <1>3 DEF JobMoves, Evaluations
    <3> SUFFICES ASSUME Human(pr.head), Asked(pr.head)', \A i \in Evaluations : Over(i)',
                        Unfailed(pr.head)
                 PROVE  Agreed(pr.head)
      <4>1. /\ Human(pr.head)' <=> Human(pr.head)
            /\ Unfailed(pr.head)' <=> Unfailed(pr.head)
            /\ Agreed(pr.head)' <=> Agreed(pr.head)
            /\ Asked(pr.head)' <=> job'[EvaluationJob(pr.head)].status # "absent"
        BY <1>4 DEF Human, Unfailed, Agreed, NewestState, Newest, Asked
      <4>2. (\A i \in Evaluations : Over(i))' <=> (\A i \in Evaluations : Over(i)')
        BY DEF Evaluations
      <4> QED
        BY <4>1, <4>2 DEF EvaluatedInv
    <3>2. EvaluationJob(pr.head) \in Evaluations
      BY <1>5, JobNames DEF Evaluations
    <3>3. Asked(pr.head)
      <4>1. CASE EvaluationJob(pr.head) = j
        BY <1>2, <4>1 DEF Asked
      <4>2. CASE EvaluationJob(pr.head) # j
        BY <1>4, <3>1, <3>2, <4>2 DEF Asked
      <4> QED
        BY <4>1, <4>2
    <3>4. \A i \in Evaluations : i = j \/ Over(i)
      BY <3>1 DEF Over
    <3>5. Alone(w)
      BY <2>2, <3>3, <3>4 DEF Alone
    <3> QED
      BY <1>1, <1>2, <3>5 DEF VerdictFits
  <2> QED
    BY <2>1, <2>2
<1>10. attempt'[w].step = "none"
  BY <1>1, AfterDone DEF PolicyInv
<1> QED
  BY <1>7, <1>8, <1>9, <1>10, IdleFits

LEMMA SettleStepFits ==
  ASSUME OneWorker, PolicyInv, CurrentInv, NEW w \in Workers, SettleStep(w)
  PROVE  CurrentInv'
<1>1. attempt[w].step # "none"
  BY DEF SettleStep, Finish, CatchAndFinalize, CatchAndRetry, Finalized, RecoveryFailed, SettleStale,
         At, Settling
<1>2. JobOf(w) \in Jobs /\ job[JobOf(w)].holder = w
  BY <1>1, Working
<1>3. CASE CatchAndRetry(w) \/ Finalized(w) \/ RecoveryFailed(w)
  <2>1. Done(w) /\ UNCHANGED <<github, decided, succeeded, row>>
    BY <1>3 DEF CatchAndRetry, Finalized, RecoveryFailed, database
  <2>2. PICK retryable : MarkFailed(w, retryable)
    BY <1>3 DEF CatchAndRetry, Finalized, RecoveryFailed
  <2>3. JobMoves(JobOf(w), "queued") \/ JobMoves(JobOf(w), "failed")
    BY <1>2, <2>2, MarkFailedMoves
  <2> QED
    BY <1>1, <2>1, <2>3, LeavesFits
<1>4. ~SettleStale(w)
  BY <1>2 DEF SettleStale
<1> QED
  BY <1>3, <1>4, FinishFits, CatchAndFinalizeFits DEF SettleStep

LEMMA FaultFits ==
  ASSUME OneWorker, PolicyInv, CurrentInv, NEW w \in Workers, Fault(w)
  PROVE  CurrentInv'
<1>1. attempt[w].step # "none"
  BY DEF Fault, Throw, RecoveryUnsettled, Crash, Steps
<1>2. JobOf(w) \in Jobs /\ job[JobOf(w)].holder = w /\ job[JobOf(w)].status = "running"
  BY <1>1, Working
<1>3. CASE (\E error \in {"transient", "permanent"} : Throw(w, error)) \/ RecoveryUnsettled(w)
  <2>1. \E step \in Careless, error \in {"transient", "permanent"} : Leave(w, step, error)
    BY <1>3 DEF Throw, RecoveryUnsettled, Careless
  <2>2. UNCHANGED <<job, github, database>>
    BY <1>3 DEF Throw, RecoveryUnsettled
  <2> QED
    BY <1>1, <2>1, <2>2, CarelessStep
<1>4. CASE Crash(w)
  <2>1. Vanish(JobOf(w)) /\ Done(w) /\ UNCHANGED <<github, decided, succeeded, row>>
    BY <1>2, <1>4 DEF Crash, database
  <2>2. JobMoves(JobOf(w), "running")
    BY <1>2, <2>1, Moves
  <2> QED
    BY <1>1, <2>1, <2>2, LeavesFits
<1> QED
  BY <1>3, <1>4 DEF Fault

LEMMA ClaimFits ==
  ASSUME OneWorker, PolicyInv, CurrentInv, NEW w \in Workers, NEW j \in Jobs, Claim(w, j)
  PROVE  CurrentInv'
<1>s. PICK step : step = FirstStep(j)
  OBVIOUS
<1>1. /\ Acquire(w, j) /\ UNCHANGED <<github, database>>
      /\ attempt' = [attempt EXCEPT ![w] = [NoAttempt EXCEPT !.step = step, !.job = j]]
  BY <1>s DEF Claim
<1>2. /\ step \in {"find failed decision", "find decision", "read head"}
      /\ step = "find decision" => IsEvaluation(j)
  <2>1. CASE recovery[j] # "none"
    BY <1>s, <2>1 DEF FirstStep
  <2>2. CASE recovery[j] = "none" /\ IsEvaluation(j)
    BY <1>s, <2>2 DEF FirstStep
  <2>3. CASE recovery[j] = "none" /\ ~IsEvaluation(j)
    BY <1>s, <2>3 DEF FirstStep
  <2> QED
    BY <2>1, <2>2, <2>3
<1>3. attempt'[w].step = step /\ attempt'[w].job = j
  BY <1>1 DEF PolicyInv, AttemptsOK, NoAttempt
<1>4. JobMoves(j, "running") /\ job'[j].holder = w /\ job[j].status = "queued"
  BY <1>1, Moves
<1>5. UNCHANGED <<pr, checks, decided, succeeded, row>>
  BY <1>1 DEF github, database
<1>6. HeadsInv' /\ RunsExist' /\ EvaluatedInv'
  BY <1>4, <1>5, UnfinishedFits
<1>7. JobOf(w)' = j
  BY <1>3 DEF JobOf
<1>8. job'[JobOf(w)'].status = "running" /\ job'[JobOf(w)'].holder = w
  BY <1>4, <1>7 DEF JobMoves
<1>9. KindFits(w)'
  BY <1>2, <1>3 DEF KindFits, RoutingWork, Evaluating, IsEvaluation
<1>10. RowFits(w)' /\ RouteFits(w)' /\ VerdictFits(w)'
  BY <1>2, <1>3 DEF RowFits, RouteFits, VerdictFits, Evaluating
<1>11. AttemptFits(w)'
  BY <1>8, <1>9, <1>10 DEF AttemptFits
<1> QED
  BY <1>6, <1>11, FitsAll DEF CurrentInv

LEMMA SweepFits ==
  ASSUME OneWorker, PolicyInv, CurrentInv, NEW w \in Workers, NEW j \in Jobs, Sweep(w, j)
  PROVE  CurrentInv'
<1>1. /\ attempt'[w].step = "none" /\ job[j].status = "running" /\ Expire({j})
      /\ UNCHANGED <<pr, checks, decided, succeeded, row>>
  BY DEF Sweep, At, github, database
<1>2. PICK status : status \in {"queued", "running", "failed"} /\ JobMoves(j, status)
  BY <1>1, Moves
<1>3. HeadsInv' /\ RunsExist' /\ EvaluatedInv'
  BY <1>1, <1>2, UnfinishedFits
<1> QED
  BY <1>1, <1>3, IdleFits

-----------------------------------------------------------------------------
(* Pushes and reviews.                                                     *)

\* A job is inserted while an attempt runs.
LEMMA InsertionFits ==
  ASSUME PolicyInv, CurrentInv, NEW w \in Workers, attempt[w].step # "none",
         NEW j \in Jobs, job[j].status = "absent", JobMoves(j, "queued"),
         UNCHANGED <<checks, row, decided, succeeded, attempt>>,
         RouteFits(w)', Alone(w)' => VerdictFits(w)'
  PROVE  AttemptFits(w)'
<1>1. /\ job[JobOf(w)].status = "running" /\ job[JobOf(w)].holder = w
      /\ KindFits(w) /\ RowFits(w) /\ JobOf(w) \in Jobs
  BY Working
<1>2. JobOf(w)' = JobOf(w) /\ job'[JobOf(w)] = job[JobOf(w)]
  BY <1>1 DEF JobOf, JobMoves
<1>3. KindFits(w)' /\ RowFits(w)'
  BY <1>1 DEF KindFits, RowFits, Persisted, Newest
<1> QED
  BY <1>1, <1>2, <1>3 DEF AttemptFits

\* What has been asked for stays asked for.
LEMMA StaysAsked ==
  ASSUME NEW j \in Jobs, JobMoves(j, "queued")
  PROVE  \A h \in Heads : Asked(h) => Asked(h)'
<1> TAKE h \in Heads
<1>1. EvaluationJob(h) \in Jobs
  BY JobNames
<1> QED
  BY <1>1 DEF Asked, JobMoves

\* The attempt at work, if there is one.
LEMMA GitHubStepFits ==
  ASSUME OneWorker, HeadsInv', RunsExist', EvaluatedInv', UNCHANGED attempt,
         \A w \in Workers : attempt[w].step # "none" => AttemptFits(w)'
  PROVE  CurrentInv'
BY DEF CurrentInv, AttemptFits

LEMMA OpenedFits ==
  ASSUME OneWorker, PolicyInv, CurrentInv, Opened
  PROVE  CurrentInv'
<1>1. pr.head \in Heads
  BY DEF PolicyInv, DataOK
<1>2. PICK j \in Jobs : j = RoutingJob(pr.head) /\ ~IsEvaluation(j)
  BY <1>1, JobNames
<1>3. JobMoves(j, "queued") /\ job[j].status = "absent"
  BY <1>2, Moves DEF Opened
<1>4. UNCHANGED <<pr, checks, row, decided, succeeded, attempt>>
  BY DEF Opened, github, database
<1>5. HeadsInv'
  <2>1. \A h \in Heads : j # EvaluationJob(h)
    BY <1>2, JobNames
  <2> QED
    BY <1>3, <1>4, <2>1, HeadsMove DEF CurrentInv
<1>6. RunsExist' /\ EvaluatedInv'
  BY <1>2, <1>3, <1>4, RunsSame, EvaluatedRoutes DEF CurrentInv
<1>7. ASSUME NEW w \in Workers, attempt[w].step # "none" PROVE AttemptFits(w)'
  <2>1. RouteFits(w) /\ (Alone(w) => VerdictFits(w)) /\ JobOf(w) \in Jobs
    BY <1>7, Working
  <2>2. \A k \in Heads : EvaluationJob(k) \in Jobs /\ EvaluationJob(k) # j
    BY <1>2, JobNames
  <2>3. \A k \in Heads : Asked(k)' <=> Asked(k)
    BY <1>3, <2>2 DEF Asked, JobMoves
  <2>4. \A i \in Evaluations : Over(i)' <=> Over(i)
    BY <1>2, <1>3 DEF Over, JobMoves, Evaluations
  <2>5. Alone(w)' => Alone(w)
    <3>1. JobOf(w)' = JobOf(w) /\ pr' = pr
      BY <1>4 DEF JobOf
    <3> QED
      BY <1>1, <2>3, <2>4, <3>1 DEF Alone, Human, Evaluations
  <2>6. Alone(w)' => VerdictFits(w)'
    BY <1>4, <2>1, <2>5 DEF VerdictFits, Unfailed, Agreed, NewestState, Newest, Evaluate
  <2>7. RouteFits(w)'
    <3>1. RoutingWork \subseteq Deciding
      BY DEF RoutingWork, Deciding
    <3>2. attempt[w].step = "mark succeeded" => attempt[w].decision \in Heads
      BY <3>1, <1>7, Executing DEF PolicyInv, RoutingWork, HeadOf
    <3>3. attempt[w].step = "finish" /\ ~IsEvaluation(attempt[w].job) => attempt[w].job.key \in Heads
      BY <2>1, JobNames DEF JobOf
    <3> QED
      BY <1>4, <2>1, <2>3, <3>2, <3>3 DEF RouteFits, Human, Persisted
  <2> QED
    BY <1>3, <1>4, <1>7, <2>6, <2>7, InsertionFits
<1> QED
  BY <1>4, <1>5, <1>6, <1>7, GitHubStepFits

\* A push makes a head of its own: nothing is decided or asked for it.
LEMMA PushFits ==
  ASSUME SingleStory, PolicyInv, CurrentInv, NEW h \in Heads, Push(h)
  PROVE  CurrentInv'
<1>1. PICK j \in Jobs : j = RoutingJob(h) /\ ~IsEvaluation(j)
  BY JobNames
<1>2. job[j].status = "absent" /\ Submit(j)
  BY <1>1 DEF Push, Accept, SingleStory
<1>3. JobMoves(j, "queued")
  BY <1>2, Moves
<1>4. UNCHANGED <<checks, row, decided, succeeded, attempt>> /\ pr'.head = h /\ pr'.open = pr.open
  BY DEF Push, database, PolicyInv, DataOK
<1>5. ~Persisted(h) /\ h \notin succeeded /\ ~Asked(h)
  BY <1>1, <1>2 DEF CurrentInv, HeadsInv, Routed
<1>6. \A k \in Heads : EvaluationJob(k) \in Jobs /\ EvaluationJob(k) # j /\ RoutingJob(k) \in Jobs
  BY <1>1, JobNames
<1>7. \A k \in Heads : Asked(k)' <=> Asked(k)
  BY <1>3, <1>6 DEF Asked, JobMoves
<1>8. \A k \in Heads : Persisted(k)' <=> Persisted(k)
  BY <1>4 DEF Persisted
<1>9. ~Persisted(h)' /\ ~Asked(h)'
  BY <1>5, <1>7, <1>8
<1>10. HeadsInv'
  <2>1. \A k \in Heads : ~Routed(k)' => ~Persisted(k)' /\ k \notin succeeded'
    <3> TAKE k \in Heads
    <3>1. Routed(k) => Routed(k)'
      BY <1>3, <1>6 DEF Routed, JobMoves
    <3> QED
      BY <1>4, <1>8, <3>1 DEF CurrentInv, HeadsInv
  <2>2. pr'.open /\ (\A k \in Heads : Asked(k)' => Persisted(k)')
    BY <1>4, <1>7, <1>8 DEF CurrentInv, HeadsInv
  <2>3. \A k \in succeeded' : Human(k) => Asked(k)'
    BY <1>4, <1>7 DEF CurrentInv, HeadsInv, PolicyInv, DataOK
  <2>4. job'[RoutingJob(h)].status # "succeeded"
    BY <1>1, <1>3 DEF JobMoves
  <2> QED
    BY <1>4, <1>9, <2>1, <2>2, <2>3, <2>4 DEF HeadsInv, Persisted, Human, Asked, Routed
<1>11. RunsExist'
  BY <1>4, RunsSame DEF CurrentInv
<1>12. ~Asked(pr.head)'
  BY <1>4, <1>9 DEF Asked
<1>13. EvaluatedInv'
  BY <1>12 DEF EvaluatedInv, Asked
<1>14. ASSUME NEW w \in Workers, attempt[w].step # "none" PROVE AttemptFits(w)'
  <2>1. /\ RouteFits(w) /\ JobOf(w) \in Jobs /\ job[JobOf(w)].status = "running"
    BY <1>14, Working
  <2>2. ~Alone(w)'
    BY <1>12 DEF Alone, Asked
  <2>3. attempt[w].step = "mark succeeded" => attempt[w].decision \in Heads
    <3>1. attempt[w].step = "mark succeeded" => attempt[w].step \in Deciding
      BY DEF Deciding
    <3> QED
      BY <1>14, <3>1, Executing DEF PolicyInv, HeadOf
  <2>4. ~IsEvaluation(attempt[w].job) => attempt[w].job.key \in Heads /\ attempt[w].job.key # h
    BY <1>1, <1>2, <2>1, JobNames DEF JobOf
  <2>5. RouteFits(w)'
    <3>1. attempt'[w].step = "persist decision" => ~Persisted(pr.head)'
      BY <1>4, <1>9 DEF Persisted
    <3>2. attempt'[w].step = "mark succeeded" /\ Human(attempt'[w].decision)
            => Asked(attempt[w].decision)'
      BY <1>4, <1>7, <2>1, <2>3 DEF RouteFits, Human
    <3>3. attempt'[w].step = "finish" /\ ~IsEvaluation(attempt'[w].job) => attempt'[w].job.key # pr'.head
      BY <1>4, <2>4
    <3> QED
      BY <1>4, <3>1, <3>2, <3>3 DEF RouteFits, Human, Persisted, Asked, IsEvaluation
  <2> QED
    BY <1>2, <1>3, <1>4, <1>14, <2>2, <2>5, InsertionFits
<1> QED
  BY <1>4, <1>10, <1>11, <1>13, <1>14, GitHubStepFits DEF SingleStory

\* A review is evaluated by a job that nobody has begun.
LEMMA ReviewFits ==
  ASSUME OneWorker, PolicyInv, CurrentInv, NEW r \in Reviews, NEW approved \in BOOLEAN,
         Review(r, approved)
  PROVE  CurrentInv'
<1>1. PICK j \in Jobs : j = EvaluationJob(r) /\ IsEvaluation(j)
  BY JobNames
<1>2. JobMoves(j, "queued") /\ job[j].status = "absent"
  BY <1>1, Moves DEF Review
<1>3. /\ UNCHANGED <<checks, row, decided, succeeded, attempt>>
      /\ pr'.head = pr.head /\ pr'.open = pr.open
  BY DEF Review, database, PolicyInv, DataOK
<1>4. \A h \in Heads : j # EvaluationJob(h)
  BY <1>1, JobNames, PolicyAssumption
<1>5. HeadsInv'
  BY <1>2, <1>3, <1>4, HeadsMove DEF CurrentInv
<1>6. RunsExist'
  BY <1>3, RunsSame DEF CurrentInv
<1>7. EvaluatedInv'
  BY <1>1, <1>2, EvaluationWaits DEF Evaluations, JobMoves
<1>8. ASSUME NEW w \in Workers, attempt[w].step # "none" PROVE AttemptFits(w)'
  <2>1. RouteFits(w) /\ JobOf(w) \in Jobs /\ job[JobOf(w)].status = "running"
    BY <1>8, Working
  <2>2. ~Alone(w)'
    <3>1. JobOf(w)' # j /\ job'[j].status = "queued"
      BY <1>2, <1>3, <2>1 DEF JobMoves, JobOf
    <3> QED
      BY <1>1, <3>1 DEF Alone, Evaluations, Over
  <2>3. RouteFits(w)'
    <3>1. attempt[w].step = "mark succeeded" => attempt[w].decision \in Heads
      <4>1. attempt[w].step = "mark succeeded" => attempt[w].step \in Deciding
        BY DEF Deciding
      <4> QED
        BY <1>8, <4>1, Executing DEF PolicyInv, HeadOf
    <3>2. attempt[w].step = "finish" /\ ~IsEvaluation(attempt[w].job) => attempt[w].job.key \in Heads
      BY <2>1, JobNames DEF JobOf
    <3>3. \A h \in Heads : Asked(h) => Asked(h)'
      BY <1>2, StaysAsked
    <3> QED
      BY <1>3, <2>1, <3>1, <3>2, <3>3 DEF RouteFits, Human, Persisted
  <2> QED
    BY <1>2, <1>3, <1>8, <2>2, <2>3, InsertionFits
<1> QED
  BY <1>3, <1>5, <1>6, <1>7, <1>8, GitHubStepFits

LEMMA CurrentStep ==
  ASSUME SingleStory, PolicyInv, ShownInv, CurrentInv, [PolicyNext]_policyVars
  PROVE  CurrentInv'
<1>1. OneWorker /\ pr.open /\ \A w \in Workers : CheckFits(w)
  BY DEF SingleStory, ShownInv, CurrentInv, HeadsInv
<1>2. CASE GitHubStep
  <2>1. ~Close /\ ~Reopen
    BY <1>1 DEF SingleStory, Close, Reopen
  <2> QED
    BY <1>1, <1>2, <2>1, OpenedFits, PushFits, ReviewFits DEF GitHubStep
<1>3. ASSUME NEW w \in Workers, Advance(w) PROVE CurrentInv'
  BY <1>1, <1>3, RoutingStepFits, EvaluationStepFits, FailureStepFits, SettleStepFits DEF Advance
<1>4. ASSUME NEW w \in Workers, NEW j \in Jobs, Claim(w, j) \/ Sweep(w, j) PROVE CurrentInv'
  BY <1>1, <1>4, ClaimFits, SweepFits
<1>5. ASSUME NEW w \in Workers, Fault(w) PROVE CurrentInv'
  BY <1>1, <1>5, FaultFits
<1>6. CASE UNCHANGED policyVars
  <2>1. UNCHANGED <<job, pr, checks, decided, succeeded, row, recovery, attempt>>
    BY <1>6 DEF policyVars, github, database
  <2>2. HeadsInv' /\ RunsExist' /\ EvaluatedInv'
    BY <2>1, HeadsSame, RunsSame, EvaluatedSame DEF CurrentInv
  <2>3. ASSUME NEW w \in Workers PROVE AttemptFits(w)'
    BY <2>1 DEF CurrentInv, AttemptFits, KindFits, RowFits, RouteFits, Alone, VerdictFits, JobOf,
                Persisted, Newest, NewestState, Asked, Over, Human, Unfailed, Agreed, Evaluate
  <2> QED
    BY <2>2, <2>3 DEF CurrentInv
<1> QED
  BY <1>2, <1>3, <1>4, <1>5, <1>6 DEF PolicyNext, Regular

\* At rest, the invariant is about the check.
LEMMA CurrentAtRest ==
  ASSUME PolicyInv, CurrentInv
  PROVE  CheckIsCurrent
<1> DEFINE h == pr.head
<1> SUFFICES ASSUME Quiet, RouteOf[h] = "human_review", row[h].state # "failure",
                    NewestState(h) # "failure"
             PROVE  Agreed(h)
  BY DEF CheckIsCurrent, Agreed
<1>1. Human(h) /\ Unfailed(h)
  BY DEF Human, Unfailed
<1>2. Asked(h)
  BY <1>1 DEF CurrentInv, HeadsInv, Quiet
<1>3. \A j \in Evaluations : Over(j)
  BY DEF Quiet, Over, Evaluations
<1> QED
  BY <1>1, <1>2, <1>3 DEF CurrentInv, EvaluatedInv

\* With one worker and a pull request that stays open and moves forward, what
\* an attempt knows is up to date while no other evaluation waits.
THEOREM CurrentInvariant == SingleStory => (PolicySpec => []CurrentInv)
<1> SUFFICES ASSUME SingleStory PROVE PolicySpec => []CurrentInv
  OBVIOUS
<1>1. PolicyInit => CurrentInv
  <2> SUFFICES ASSUME PolicyInit PROVE CurrentInv
    OBVIOUS
  <2>1. \A h \in Heads : row[h].run = 0 /\ Newest(h) = 0 /\ ~Persisted(h)
    BY DEF PolicyInit, Unread, Newest, Persisted
  <2>2. \A j \in Jobs : job[j].status = "absent"
    BY DEF PolicyInit, Init
  <2>3. pr.head \in Heads /\ pr.open /\ succeeded = {}
    BY DEF PolicyInit
  <2>4. \A h \in Heads : ~Routed(h) /\ ~Asked(h) /\ job[RoutingJob(h)].status # "succeeded"
    BY <2>2, JobNames DEF Routed, Asked
  <2>5. HeadsInv
    BY <2>1, <2>3, <2>4 DEF HeadsInv
  <2>6. RunsExist /\ EvaluatedInv
    BY <2>1, <2>3, <2>4 DEF RunsExist, EvaluatedInv
  <2>7. \A w \in Workers : attempt[w].step = "none"
    BY DEF PolicyInit, NoAttempt
  <2> QED
    BY <2>5, <2>6, <2>7 DEF CurrentInv, AttemptFits
<1>2. OneWorker
  BY DEF SingleStory
<1>3. PolicyInv /\ ShownInv /\ CurrentInv /\ [PolicyNext]_policyVars => CurrentInv'
  BY CurrentStep
<1> QED
  BY <1>1, <1>2, <1>3, PolicyInvariant, ShownInvariant, PTL DEF PolicySpec

\* When every review has been evaluated, the check of a head that asks for
\* human review is what the approvals say, unless it failed: for any number of
\* heads and reviews, whatever is retried, recovered, or created twice by an
\* attempt that died (evaluateReviewPolicy and the first evaluation's enqueueing).
THEOREM PolicyCheckIsCurrent ==
  OneWorker /\ ~MayReturn /\ ~MayReopen => (PolicySpec => []CheckIsCurrent)
<1> SUFFICES ASSUME SingleStory PROVE PolicySpec => []CheckIsCurrent
  BY DEF SingleStory
<1>1. PolicyInv /\ CurrentInv => CheckIsCurrent
  BY CurrentAtRest
<1> QED
  BY <1>1, CurrentInvariant, PolicyInvariant, PTL
=============================================================================
