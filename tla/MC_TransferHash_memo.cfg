CONSTANTS
    None = None
    Recipients <- MCRecipients
    PublicKeys <- MCPublicKeys
    Signatures <- MCSignatures
    Amounts <- MCAmounts
    Memos <- MCMemos
    Nonces <- MCNonces
    DefaultFee = 2
    DefaultGas = 2
    MaxBuilds = 2
    MaxJobBuilds = 1
    Endpoints <- MCEndpoints
    JobIds <- MCJobIds
    Hashes <- MCHashes
    Expiries <- MCExpiries
    Metadata = {m1}
    DefaultMaxFee = 3
    MaxTime = 2
SPECIFICATION Spec
INVARIANT AbsentMemoHashesAsEmpty
