\* Two challenges and FINALIZE fit into the chain, and a reorganisation anywhere.
CONSTANTS
    FundingAmount = 2
    MaxEntries = 2
    CloseDelay = 1
    ChallengeBlocks = 2
    Claims <- MCClaims
    MaxHeight = 6
    MaxReorgs = 1
    Packages <- MCPackages
    MaxTransitions = 2
    MaxStaleness = 0
SPECIFICATION Spec
INVARIANT MonitorTypeOK
INVARIANT SettlementKeepsWindow
INVARIANT NoFalseCalm
INVARIANT PlannedIsAccepted
