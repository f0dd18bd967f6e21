CONSTANTS
  p1 = p1 p2 = p2 h1 = h1 h2 = h2 any = any
  Entry <- MCEntry
  Any <- any
SPECIFICATION Spec
INVARIANTS IndexesAgree SearchAgrees
PROPERTIES SourceGone ImplementsRouteSet
