------------------------- MODULE MCPolicyEvaluation -------------------------
(* Small instances of PolicyEvaluation, with a bound on the errors and     *)
(* deaths of one behaviour.                                                *)
EXTENDS PolicyEvaluation

CONSTANTS h1, h2, MaxFaults, Stories

\* The faults that happened, and what the behaviour is about: "pushes" move the
\* head once there is one review at most, in "reviews" the head stays.
VARIABLES faults, story

MCJobs == [kind : {"process_pull_request"}, key : Heads]
          \cup [kind : {"evaluate_human_review_policy"}, key : Heads \cup Reviews]

HumanRoutes == [h \in Heads |-> "human_review"]

\* The second head, if it is another one, finds nobody to ask.
MixedRoutes == [h \in Heads |-> IF h = h1 THEN "human_review" ELSE "no_eligible_reviewer"]

BoundedInit ==
  /\ PolicyInit
  /\ faults = 0
  /\ story \in Stories
  /\ story = "reviews" => pr.head = h1

Told ==
  /\ story = "pushes" => \E r \in Reviews : job'[EvaluationJob(r)].status = "absent"
  /\ story = "reviews" => pr'.head = pr.head

\* A bound: one fault less where the head moves.
MayFail == faults < MaxFaults - (IF story = "pushes" THEN 1 ELSE 0)

BoundedNext ==
  \/ Regular /\ Told /\ UNCHANGED <<faults, story>>
  \/ /\ MayFail
     /\ \E w \in Workers : Fault(w)
     /\ faults' = faults + 1 /\ UNCHANGED story

BoundedSpec == BoundedInit /\ [][BoundedNext]_<<policyVars, faults, story>>

BoundedFairSpec == BoundedSpec /\ PolicyFairness
=============================================================================
