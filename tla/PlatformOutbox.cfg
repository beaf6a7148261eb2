CONSTANTS
  Events = {e1, e2}
  Publishers = {p1, p2}
  Limit = 2
  NoEvent = NoEvent
  MaxFaults = 4
SPECIFICATION BoundedFairSpec
INVARIANTS SingleClaim
PROPERTIES OwnerDecides ImplementsDelivery EveryEventIsPublished
CHECK_DEADLOCK FALSE
