SPECIFICATION FairSpec
CONSTANTS
  Provers = {p1, p2}
  Workers = {w1}
  Sessions = {main, second}
  Users <- AllUsers
  Session <- SessionOf
  Kind <- KindOf
  Parent <- ParentOf
  Ctx <- CtxOf
  Parts = {1, 2}
  MaxPanics = 1
  None = None
  main = main
  second = second
  goal = goal
  case = case
  page = page
  other = other
  typing = typing
PROPERTY AllEnd
INVARIANTS SingleFlight NoPartialRead SameAnswer NoLostWakeup
