SPECIFICATION Spec
CONSTANTS
  Clients = {c1, c2}
  N = 3
  Reuse = {1, 2}
  AllTraces = {1, 2}
  Hidden <- HiddenPairs
  Sources = {}
  Stored = {2}
  Requests <- Three
SYMMETRY Symmetry
INVARIANT AssumptionsAreCurrent
PROPERTY ImplementsVersions
CHECK_DEADLOCK FALSE
