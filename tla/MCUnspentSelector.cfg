CONSTANTS
    MinimumFee <- MCMinimumFee
    DustThreshold <- MCDustThreshold
    FakeLarge <- MCFakeLarge
    TxSize <- MCTxSize
    SpendTimeUnlocked <- MCSpendTimeUnlocked
    Pools <- MCPools
    Requests <- MCRequests
    WordModulus <- MCWordModulus
    CallerResets = TRUE

SPECIFICATION Spec

INVARIANT TypeOK
INVARIANT SelectionConsistent
INVARIANT NoPopFromEmptyStack
INVARIANT NoDustWhenMixing
INVARIANT SmallestSearchNeverFinds

PROPERTY SelectionTerminates
