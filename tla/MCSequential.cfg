SPECIFICATION MCSpec
CONSTANTS
    w1 = w1
    w2 = w2
    Jobs <- MCJobs
    Inputs <- MCInputs
    Depth = 3
INVARIANTS
    ReadsBack
    SizeIsMeasured
    RelocationsPatchCalls
    ObjectsKeepTheMeaning
    ArchiveIsFilled
    FindsWhatItHolds
PROPERTY CallsKeepTheirPromise
