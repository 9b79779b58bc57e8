CONSTANTS
  Names = {x, y}
  Literals = {y}
  Ids = {i, j}
  MaxRuns = 2
  MaxVisits = 2
SPECIFICATION FairSpec
INVARIANTS
  ListsAgree
  HeldCellsAreTheirs
  FailsOnlyUnresolved
  EndsClean
PROPERTIES
  RunEnds
  ImplementsResolution
