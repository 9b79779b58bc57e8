CONSTANTS
  Workers = {w1, w2}
  Jobs <- OneJob
SPECIFICATION FairSpec
PROPERTY CallReturns
