CONSTANTS
  n1 = n1 peer = peer self = self none = none invalid = invalid
  t1 = t1 t2 = t2 orphaned = orphaned
  Prefix <- MCNet
  Net <- MCNet
  Invalid <- invalid
  Classful <- MCClassful
  Hop = {peer, self}
  Unspecified <- none
  LocalIp <- self
  MaxMetric = 2
  RouteTimeout = 0
  GarbageTimeout = 1
  RedistributeInSources = {"STATIC", "SLA"}
  InMetric <- MCInMetric
  RejectOwnMessages = TRUE
  TriggerRedistribution = TRUE
  Packet <- MCPacket
  Thread = {t1}
  Orphaned <- orphaned
  Static <- MCStatic
  CallsFail = TRUE
  SlaOffers <- MCSlaOffers
  Operators = {t1}
  MaxTriggers = 2
SPECIFICATION FairSpec
INVARIANTS TypeOK
PROPERTIES RedistributionArrives DeadRoutesLeave GoodRoutesArrive RibForgetsLearned LoopEnds AnswersRip
