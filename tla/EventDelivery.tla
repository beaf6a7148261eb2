---------------------------- MODULE EventDelivery ----------------------------
(***************************************************************************)
(* What the platform-event outbox promises a sink: at-least-once delivery  *)
(* (docs/architecture.md:46).  An event is delivered once it is staged, an *)
(* event that counts as published has been delivered, and neither is taken *)
(* back; a published event may be delivered again.                         *)
(* PlatformOutbox is shown to implement this module.                       *)
(***************************************************************************)

CONSTANT Events

VARIABLES
  staged,     \* events that were staged
  delivered,  \* events that reached the sink at least once
  published   \* events that need no further delivery

Init == staged = {} /\ delivered = {} /\ published = {}

Stage(e) ==
  /\ e \notin staged
  /\ staged' = staged \cup {e}
  /\ UNCHANGED <<delivered, published>>

Deliver(e) ==
  /\ e \in staged
  /\ delivered' = delivered \cup {e}
  /\ UNCHANGED <<staged, published>>

Acknowledge(e) ==
  /\ e \in delivered
  /\ published' = published \cup {e}
  /\ UNCHANGED <<staged, delivered>>

Next == \E e \in Events : Stage(e) \/ Deliver(e) \/ Acknowledge(e)

Spec == Init /\ [][Next]_<<staged, delivered, published>>
=============================================================================
