CONSTANTS
    N <- MCSequentialN
    Gather = FALSE
    MaxStartNonce = 2
SPECIFICATION Spec
INVARIANT NoncesDistinct
PROPERTY AcceptedTxIncluded
PROPERTY IncludedInCallOrder
