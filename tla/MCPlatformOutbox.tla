-------------------------- MODULE MCPlatformOutbox --------------------------
(* Small instances of PlatformOutbox, with a bound on the failures of one  *)
(* behaviour; a lease that ends while its claim is at work is one of them. *)
EXTENDS PlatformOutbox

CONSTANT MaxFaults

VARIABLE faults

AtWork(e) == \E p \in Publishers : Owns(p, e)

Regular ==
  \/ \E e \in Events : Stage(e) \/ (~AtWork(e) /\ BecomeDue(e))
  \/ \E p \in Publishers : Claim(p) \/ Advance(p)

Failing ==
  \/ \E e \in Events : AtWork(e) /\ BecomeDue(e)
  \/ \E p \in Publishers : Fault(p)

BoundedInit == Init /\ faults = 0

BoundedNext ==
  \/ Regular /\ UNCHANGED faults
  \/ faults < MaxFaults /\ Failing /\ faults' = faults + 1

BoundedSpec == BoundedInit /\ [][BoundedNext]_<<vars, faults>>

BoundedFairSpec == BoundedSpec /\ Fairness
=============================================================================
