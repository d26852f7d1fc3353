SPECIFICATION Spec
CONSTANTS
  StartSys <- Vars02
  Start = 3
  MaxArms = 2
  MaxDraws = 2
  MaxForks = 2
  MaxDepth = 3
CHECK_DEADLOCK FALSE
INVARIANTS DrawnOnce OwnDrawsOnly
