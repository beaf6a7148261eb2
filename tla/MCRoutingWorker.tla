-------------------------- MODULE MCRoutingWorker --------------------------
(* Small instances of RoutingWorker. *)
EXTENDS RoutingWorker

CONSTANTS human, human2, auto, none, shadow

SharedWorkerId == [w \in Workers |-> CHOOSE i \in WorkerIds : TRUE]

Route == [d \in Decisions |->
            CASE d \in {human, human2} -> "human_review"
              [] d = auto -> "no_human"
              [] d = none -> "no_eligible_reviewer"
              [] d = shadow -> "shadow"]
=============================================================================
