SPECIFICATION Spec
CONSTANTS
  CaseNames = {1, 2}
  Leaves0 = {"Solved", "Contradictory"}
  Leaves1 = {"Solved", "Contradictory", "Unfinishable", "quit"}
  Leaves2 = {"Solved", "Contradictory", "stuck"}
  Leaves3 = {"Solved", "Contradictory"}
  WithSingles = TRUE
  Worlds <- Both
  Setups <- DfsSetups
  InitialDepth = 2
  FanOutDepth = 2
  DepthCap = 6
  Unlimited = 99
INVARIANTS AttackIsFound FirstAttack NoStubIsLeft SystemsAreThere
PROPERTY EvaluatedOnce
