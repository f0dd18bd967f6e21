CONSTANTS
  t1 = t1 t2 = t2 p = p h1 = h1 h2 = h2 none = none
  Thread = {t1, t2}
  Configured <- MCConfigured
  Priority <- MCPriority
  Interval = 0
  NoRoute <- none
  Path <- MCPath
SPECIFICATION FairSpec
INVARIANTS TypeOK
PROPERTIES AllEvaluated OffersFollowPaths
