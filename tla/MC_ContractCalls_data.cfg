CONSTANTS
    t1 = t1
    t2 = t2
    h1 = h1
    h2 = h2
    b1 = b1
    v1 = v1
    None = None
    k1 = k1
    k2 = k2
    Absent = None
    Tasks <- MCTasks
    Checks <- MCChecks
    Hashes <- MCHashes
    BadHex <- MCBadHex
    Blobs <- MCBlobs
    Ints <- MCInts
    Lengths <- MCLengths
    Addresses <- MCAddresses
    ProposalIds <- MCProposalIds
    ValueLimit <- MCValueLimit
SPECIFICATION Spec

INVARIANT CallDataDeterminesIntent
