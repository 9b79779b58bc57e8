CONSTANTS
  Workers = {w1}
  Jobs <- TwoJobs
SPECIFICATION Spec
INVARIANT DoneMeansCompleted
