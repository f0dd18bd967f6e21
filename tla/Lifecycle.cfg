CONSTANTS
  t1 = t1 t2 = t2 c1 = c1 c2 = c2 none = none
  Thread = {t1, t2}
  Id = {c1, c2}
  None <- none
SPECIFICATION FairSpec
INVARIANTS TypeOK PartsStandBehind LatestResolves
PROPERTIES RunningFindsOwner
