CONSTANTS
    None = None
    ByteBase = 4
    AddrLen = 3
    ValueWidth = 2
    NonceWidth = 1
    Addresses <- MCAnyAddresses
    Amounts <- MCAmounts
    Payloads <- MCPayloads
    Nonces <- MCNonces
SPECIFICATION Spec
INVARIANT SignedBytesUnique
