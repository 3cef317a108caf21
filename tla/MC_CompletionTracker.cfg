CONSTANTS
    t1 = t1
    j1 = j1
    j2 = j2
    TxWaits <- MCTxWaits
    JobWaits <- MCJobWaits
    Timeout = 4
    PollInterval = 1
    RpcLatency = 1
    MaxElapsed = 6
SPECIFICATION Spec
SYMMETRY MCSymmetry
INVARIANT TypeOK
INVARIANT WaitBounded
