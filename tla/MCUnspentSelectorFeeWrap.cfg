CONSTANTS
    MinimumFee <- MCMinimumFee
    DustThreshold <- MCDustThreshold
    FakeLarge <- MCFakeLarge
    TxSize <- MCTxSize
    SpendTimeUnlocked <- MCSpendTimeUnlocked
    Pools <- MCPools
    Requests <- MCWideFeeRequests
    WordModulus <- MCNarrowWord
    CallerResets = TRUE

SPECIFICATION Spec

INVARIANT CommittedFeeCoversSize
