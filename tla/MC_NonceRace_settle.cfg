CONSTANTS
    N <- MCGatherN
    Gather = TRUE
    MaxStartNonce = 1
SPECIFICATION Spec
PROPERTY TxSettles
