------------------------ MODULE MCProviderConnections ------------------------
(* Small instances of ProviderConnections, with a bound on the errors of   *)
(* cleanups and on the webhooks of one behaviour.                          *)
EXTENDS ProviderConnections

CONSTANTS i1, i2, i3, c1, c2, c3, r1, d1, d2, d3, k1, MaxEvents, MaxFaults

VARIABLES events, faults

\* d1 and d2 route the same state of a pull request, seen by two
\* installations; d3 is a review seen by the first.
MCWebhook ==
  [d \in Deliveries |->
     CASE d = d1 -> [installation |-> i1, repository |-> r1, key |-> k1]
       [] d = d2 -> [installation |-> i2, repository |-> r1, key |-> k1]
       [] OTHER -> [installation |-> i1, repository |-> r1, key |-> d]]

\* New rows take the ids in this order, since ids are interchangeable.
Ids == <<c1, c2, c3>>

TakenInOrder ==
  \A n \in 2 .. 3 : connection[Ids[n]].status # "unused" => connection[Ids[n - 1]].status # "unused"

BoundedInit == Init /\ events = 0 /\ faults = 0

Event == (\E i \in Installations : InstallationEvent(i)) \/ (\E d \in Deliveries : Accept(d))

Work ==
  \/ \E j \in Jobs : Attempt(j) \/ Refuse(j) \/ Complete(j) \/ Retry(j) \/ FollowUp(j)
  \/ \E w \in Workers : Cleanup(w)

BoundedNext ==
  \/ /\ events < MaxEvents
     /\ Event /\ TakenInOrder'
     /\ events' = events + 1 /\ UNCHANGED faults
  \/ Work /\ UNCHANGED <<events, faults>>
  \/ /\ faults < MaxFaults
     /\ \E w \in Workers : CleanupFails(w)
     /\ faults' = faults + 1 /\ UNCHANGED events

BoundedSpec == BoundedInit /\ [][BoundedNext]_<<vars, events, faults>>

BoundedFairSpec == BoundedSpec /\ Fairness
=============================================================================
