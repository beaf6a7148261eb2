CONSTANTS
  c1 = c1
  c2 = c2
  c3 = c3
  i1 = i1
  i2 = i2
  i3 = i3
  r1 = r1
  d1 = d1
  d2 = d2
  d3 = d3
  k1 = k1
  Installations = {i1, i2, i3}
  Connections = {c1, c2, c3}
  Repositories = {r1}
  Deliveries = {d1, d2, d3}
  RoutingKeys = {k1}
  Webhook <- MCWebhook
  Workers = {w1, w2}
  Limit = 1
  MaxEvents = 4
  MaxFaults = 1
  NoConnection = NoConnection
  NoInstallation = NoInstallation
  NoDelivery = NoDelivery
  NoRepository = NoRepository
SPECIFICATION BoundedFairSpec
INVARIANTS TombstonesHold
PROPERTIES RevocationIsFinal UnfinishedJobsSurvive CleanupCompletes
CHECK_DEADLOCK FALSE
