CONSTANTS
  Workers = {w1, w2}
  Jobs <- SomeJobs
SPECIFICATION FairSpec
INVARIANTS
  IndexInJob
  NoTaskTwice
  ReturnIsComplete
  DoneCounts
PROPERTIES
  ImplementsParallelFor
  JobFinishes
  DestructorReturns
