CONSTANTS
    A1 = A1
    A2 = A2
    S1 = S1
    N1 = N1
    Addresses <- MCAddresses
    Seeds <- MCSeeds
    Nonces <- MCNonces
    OutputAmounts <- MCOutputAmounts
    Inputs <- MCInputs
    ChainKey <- MCChainKey
    Version = 1
    UnlockTime = 0
    MaxInputs = 3
    MaxOutputs = 3

SPECIFICATION Spec

INVARIANT TypeOK
 
INVARIANT OutputsRecoverable

\* A builder ends after sign returns or after an operation throws: the caller
\* takes the transaction or discards the builder, so those states are final.
CHECK_DEADLOCK FALSE
