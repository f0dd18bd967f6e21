CONSTANTS
  n1 = n1 n2 = n2 p1 = p1 p2 = p2 p3 = p3 pD = pD
  peer = peer gw = gw self = self none = none invalid = invalid
  Prefix <- MCPrefix
  Net <- MCNet
  Invalid <- invalid
  Classful <- MCClassful
  Hop <- MCHop
  Unspecified <- none
  LocalIp <- self
  MaxMetric = 3
  RouteTimeout = 1
  GarbageTimeout = 2
  RedistributeInSources = {"STATIC", "SLA"}
  InMetric <- MCInMetric
  RejectOwnMessages = FALSE
  TriggerRedistribution = TRUE
  Packet <- MCPlainPacket
  Offer <- MCInstallable
  CpAnswers = FALSE
  MaxTriggers = 1
SPECIFICATION Spec
INVARIANTS OffersOnlyGoodRoutes
