----------------------------- MODULE MCJobQueue -----------------------------
(* Small instances of JobQueue: the workers w1 and w2 share one WORKER_ID. *)
EXTENDS JobQueue

SharedWorkerId == [w \in Workers |-> CHOOSE i \in WorkerIds : TRUE]
=============================================================================
