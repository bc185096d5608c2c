CONSTANTS
    j1 = j1
    j2 = j2
    j3 = j3
    NoJob = NoJob
    Job = {j1, j2, j3}
    OpLists <- MCOpLists
    SwapCap = 2
SPECIFICATION FairSpec
INVARIANTS TransfersIntact RegionOutlivesTransfers
PROPERTIES TransferQueues FlushedJobsAreDone TransfersAreReported
CHECK_DEADLOCK FALSE
