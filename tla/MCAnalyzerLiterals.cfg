CONSTANTS
  Workers = {w1, w2}
  Modules = {1, 2, 3}
  Bundles = 3
  Makes = 1
  Instances <- LiteralInstances
SPECIFICATION Spec
INVARIANT SchedulersUnshared
