\* Two processes share one database: every interleaving of their steps.
CONSTANTS
    c1 = c1
    c2 = c2
    n1 = n1
    n2 = n2
    n3 = n3
    p1 = p1
    p2 = p2
    r1 = r1
    Coins = {c1}
    Nonces = {n1, n2}
    Amounts = {1, 2}
    Auths = {TRUE, FALSE}
    FundingAmount = 2
    MaxEntries = 2
    MaxU64 = 3
    AcceptanceBlocks = 1
    FreezeBlocks = 1
    MaxHeight = 1
    MaxReorgs = 0
    Conns = {p1, p2}
    RequestIds = {r1}
    Confirmations = 1
    Faults = {}
SPECIFICATION Spec
SYMMETRY Symmetry
INVARIANT TypeOK
INVARIANT SignedStatesAreOneLedger
INVARIANT NoConflictingResults
INVARIANT AcceptedIsPaid
INVARIANT LedgerRecoverable
INVARIANT PreparedCanBeCompleted
INVARIANT Solvent
INVARIANT PromiseInv
PROPERTY KeepsLedgerPromise
