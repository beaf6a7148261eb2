---------------------------- MODULE JobLifecycle ----------------------------
(***************************************************************************)
(* What the job queue promises, with no lease, clock or sweep in sight: a  *)
(* running job has at most one holder; only the holder ends an attempt;    *)
(* a job nobody ends is taken back as a whole, to be retried while it has  *)
(* an attempt left and to fail otherwise; an outcome is final.             *)
(* JobQueue is shown to implement this module.                             *)
(***************************************************************************)
EXTENDS Naturals

CONSTANTS Jobs, Workers, DefaultMaxAttempts, AttemptCap, Nobody

VARIABLE job  \* for each job: status, attempts made, attempt limit, holder

Init == job = [j \in Jobs |-> [status |-> "absent", attempt |-> 0,
                               max |-> DefaultMaxAttempts, holder |-> Nobody]]

Submit(j) ==
  /\ job[j].status = "absent"
  /\ job' = [job EXCEPT ![j].status = "queued"]

Acquire(w, j) ==
  /\ job[j].status = "queued"
  /\ job[j].attempt < job[j].max
  /\ job' = [job EXCEPT ![j].status = "running", ![j].holder = w,
                        ![j].attempt = @ + 1]

\* The holder settles the job for good ...
Conclude(w, j, outcome) ==
  /\ job[j].holder = w
  /\ job' = [job EXCEPT ![j].status = outcome, ![j].holder = Nobody]

\* ... or gives it back, possibly with another attempt limit.
GiveBack(w, j, max) ==
  /\ job[j].holder = w
  /\ job[j].attempt < max
  /\ job' = [job EXCEPT ![j].status = "queued", ![j].holder = Nobody, ![j].max = max]

\* A holder that dies leaves its job running and held by nobody.
Vanish(j) ==
  /\ job[j].holder # Nobody
  /\ job' = [job EXCEPT ![j].holder = Nobody]

\* Running jobs that took too long are taken back, their holders or not.
Expire(S) ==
  /\ \A j \in S : job[j].status = "running"
  /\ job' = [j \in Jobs |->
               IF j \in S
               THEN [job[j] EXCEPT !.holder = Nobody,
                       !.status = IF job[j].attempt < job[j].max THEN "queued"
                                                                 ELSE "failed"]
               ELSE job[j]]

Next ==
  \/ \E j \in Jobs :
       \/ Submit(j)
       \/ Vanish(j)
       \/ \E w \in Workers :
            \/ Acquire(w, j)
            \/ \E outcome \in {"succeeded", "failed"} : Conclude(w, j, outcome)
            \/ \E max \in 1 .. AttemptCap : GiveBack(w, j, max)
  \/ \E S \in SUBSET Jobs : Expire(S)

Spec == Init /\ [][Next]_job
=============================================================================
