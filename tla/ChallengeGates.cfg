\* A closed channel, one reorganisation, and everything that interleaves.
CONSTANTS
    a1 = a1
    b1 = b1
    FundingAmount = 2
    MaxEntries = 2
    CloseDelay = 1
    ChallengeBlocks = 1
    Claims <- MCClaims
    MaxHeight = 4
    MaxReorgs = 1
    Packages <- MCPackages
    MaxTransitions = 64
    FirstPackage <- MCFirstPackage
    Approvers = {a1, b1}
    DomainOf <- MCDomainOf
    Statements <- MCStatements
    SubmissionNonces = {"n1"}
    RecheckTTL = 2
    ManifestTTL = 2
    AuthTTL = 1
    MaxClock = 1
SPECIFICATION Spec
INVARIANT GatesTypeOK
INVARIANT SubmissionIsFresh
INVARIANT PreparedIsAccepted
PROPERTY OnlyCurrentSubmitted
CHECK_DEADLOCK FALSE
