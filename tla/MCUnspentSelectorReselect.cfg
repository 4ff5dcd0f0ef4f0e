CONSTANTS
    MinimumFee <- MCMinimumFee
    DustThreshold <- MCDustThreshold
    FakeLarge <- MCFakeLarge
    TxSize <- MCTxSize
    SpendTimeUnlocked <- MCSpendTimeUnlocked
    Pools <- MCPools
    Requests <- MCRepeatRequests
    WordModulus <- MCWordModulus
    CallerResets = FALSE

SPECIFICATION Spec

INVARIANT NoCoinSpentTwice
