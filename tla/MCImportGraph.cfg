CONSTANTS
  Modules = {1, 2, 3}
  MaxDeclared = 3
  MaxImports = 2
  Inputs <- AllInputs
SPECIFICATION FairSpec
INVARIANTS
  ListsAgree
  ImportsFirst
  EveryModuleOnce
  ComponentsUnlessStale
  BundlesAreBuilt
PROPERTY ComesToAnEnd
