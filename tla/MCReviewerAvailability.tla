----------------------- MODULE MCReviewerAvailability -----------------------
(* Small instances of ReviewerAvailability, with a bound on the faults and *)
(* on the changes around the activation.                                   *)
EXTENDS ReviewerAvailability, TLC

CONSTANTS MaxFaults, MaxChanges

\* The first decision enforces, a second one is a shadow.
MCMode == [d \in Decisions |-> IF d = 1 THEN "enforce" ELSE "shadow"]

\* Only for the instance without liveness.
WorkerSymmetry == Permutations(Workers)

VARIABLES faults, changes

bounds == <<faults, changes>>

BoundedInit == AvailabilityInit /\ faults = 0 /\ changes = 0

\* The first revision is scheduled for a later start.
Free == \/ \E w \in Workers : Step(w)
        \/ Queue
        \/ Schedule("upcoming")
        \/ MoveWindow("active")

Counted == \/ Environment
           \/ MoveWindow("ended")

Broken == \/ \E w \in Workers : Fault(w)
          \/ \E r \in Jobs : Sweep(r, FALSE)

BoundedNext ==
  \/ Free /\ UNCHANGED bounds
  \/ changes < MaxChanges /\ Counted /\ changes' = changes + 1 /\ UNCHANGED faults
  \/ faults < MaxFaults /\ Broken /\ faults' = faults + 1 /\ UNCHANGED changes
  \/ (\E q \in late : Land(q)) /\ UNCHANGED bounds

BoundedSpec == BoundedInit /\ [][BoundedNext]_<<availabilityVars, bounds>>

BoundedFairSpec == BoundedSpec /\ AvailabilityFairness
=============================================================================
