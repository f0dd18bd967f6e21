CONSTANTS
  none = none
  Width = 6
  LengthA = 3
  LengthB = 4
  LengthC = 5
  None <- none
SPECIFICATION Journey
INVARIANTS SubnetsCovered MergesWithinNetwork
PROPERTIES NetworksAgree
