CONSTANTS
    MinimumFee <- MCMinimumFee
    DustThreshold <- MCDustThreshold
    FakeLarge <- MCFakeLarge
    TxSize <- MCTxSize
    SpendTimeUnlocked <- MCSpendTimeUnlocked
    Pools <- MCPools
    Requests <- MCRequests
    WordModulus <- MCWordModulus
    CallerResets = TRUE
    NoValue = NoValue

SPECIFICATION Spec


PROPERTY SelectionRefinesCoinSelection
