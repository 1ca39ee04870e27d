\* Rank 0 and two workers, up to three batches and the exit; after it
\* every process has ended.
CONSTANTS
    NumWorkers = 2
    MaxCalls = 3
    RowlessSteps = FALSE
SPECIFICATION FairTPSpec
INVARIANTS
    TPTypeOK
    BufferExclusive
    RanksAgree
    SegmentIsOurs
PROPERTIES
    ImplementsBroadcast
    EveryCallReturns
CHECK_DEADLOCK FALSE
