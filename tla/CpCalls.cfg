CONSTANTS
  s1 = s1 a1 = a1 r1 = r1 orphaned = orphaned
  t1 = t1 t2 = t2
  Thread = {t1, t2}
  Route <- MCRoute
  Orphaned <- orphaned
  Static <- MCStatic
  Enabled = {"SLA", "RIP1"}
  Offers <- MCOffers
  Calls = {"redistribute", "refresh_rib"}
  CallsFail = TRUE
SPECIFICATION Spec
INVARIANTS TypeOK NothingOutdated
PROPERTIES AloneIsComplete
SYMMETRY Symmetry
