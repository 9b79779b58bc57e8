CONSTANTS
  Workers = {w1, w2, w3}
  Modules = {1, 2, 3, 4}
  Bundles = 3
  Makes = 2
  Instances <- CleanInstances
SPECIFICATION FairSpec
INVARIANTS
  ViewsReady
  ExportsBound
PROPERTY AnalysisEnds
