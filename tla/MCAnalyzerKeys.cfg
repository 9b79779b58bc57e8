CONSTANTS
  Workers = {w1, w2}
  Modules = {1, 2}
  Bundles = 1
  Makes = 1
  Instances <- CyclicInstances
SPECIFICATION UnlockedSpec
INVARIANT KeysFound
