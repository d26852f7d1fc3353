SPECIFICATION Spec
CONSTANTS
  CaseNames = {1, 2}
  Leaves0 = {"Solved", "Contradictory"}
  Leaves1 = {"Solved", "Contradictory"}
  Leaves2 = {"Solved", "Contradictory", "stuck"}
  Leaves3 = {"Solved", "Contradictory"}
  WithSingles = FALSE
  Worlds <- Depth0
  Setups <- DfsSetups
  InitialDepth = 2
  FanOutDepth = 2
  DepthCap = 90
  Unlimited = 99
INVARIANT ShorterPathWins
