SPECIFICATION FairSpec
CONSTANTS
  CaseNames = {1, 2}
  Leaves0 = {"Solved", "Contradictory"}
  Leaves1 = {"Solved", "stuck", "error", "Unfinishable"}
  Leaves2 = {"Solved", "Contradictory", "error"}
  Leaves3 = {"Solved"}
  WithSingles = FALSE
  Worlds <- Depth0
  Setups <- AllSetups
  InitialDepth = 2
  FanOutDepth = 2
  DepthCap = 90
  Unlimited = 99
INVARIANTS NoFalseProof ShallowestAttacks NothingAfterSorry VerdictMatchesRoot
PROPERTY SearchEnds
