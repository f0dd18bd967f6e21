CONSTANTS
  n = n bad = bad r1 = r1 r2 = r2 none = none invalid = invalid
  Prefix = {n, bad}
  Net = {n}
  Invalid <- invalid
  Classful <- MCClassful
  Hop = {r1, r2}
  Router = {r1, r2}
  Unspecified <- none
  MaxMetric = 4
  RouteTimeout = 0
  GarbageTimeout = 1
  RedistributeInSources = {"STATIC", "SLA"}
  InMetric <- MCInMetric
  RejectOwnMessages = FALSE
  Bodies <- MCBodies
  OnWire <- MCOnWire
  MaxFlight = 1
SPECIFICATION FairSpec
INVARIANTS TypeOK AtLeastDistance NearestOriginUndisturbed
PROPERTIES DeadRoutesDie RoutesComeBack
