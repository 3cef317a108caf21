CONSTANTS
    t1 = t1
    j1 = j1
    j2 = j2
    TxWaits <- MCTxWaits
    JobWaits <- MCOneJobWait
    Timeout = 3
    PollInterval = 1
    RpcLatency = 1
    MaxElapsed = 6
SPECIFICATION Spec
PROPERTY EveryWaitEnds
PROPERTY ImplementsWaitSpec
