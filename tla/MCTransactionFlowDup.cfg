CONSTANTS
    A1 = A1
    A2 = A2
    S1 = S1
    N1 = N1
    Addresses <- MCAddresses
    Seeds <- MCSeeds
    Nonces <- MCNonces
    OutputAmounts <- MCOutputAmounts
    Inputs <- MCInputs
    ChainKey <- MCChainKey
    Version = 1
    UnlockTime = 0
    MaxInputs = 3
    MaxOutputs = 2
    UsedLists <- MCUsedLists
    Answers <- MCDuplicateAnswers
    Anonymities <- MCAnonymities
    WalletAddresses <- MCWalletAddresses

SPECIFICATION FlowSpec

INVARIANT RingsCanonical

\* The handler ends when sign returns or an exception is thrown.
CHECK_DEADLOCK FALSE
