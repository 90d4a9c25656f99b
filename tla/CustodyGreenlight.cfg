\* Three packages, of conflicting ledgers, at two towers.
CONSTANTS
    w1 = w1
    w2 = w2
    a = a
    b = b
    other = other
    a1 = a1
    a2 = a2
    a3 = a3
    d1 = d1
    d2 = d2
    k1 = k1
    m1 = m1
    m2 = m2
    Towers = {w1, w2}
    Entries = {a, b, other}
    Packages <- Conflicting
    Confirmers = {k1}
    Attesters = {a1, a2, a3}
    ReceiptKey <- MCReceiptKey
    ConfirmerKey <- MCConfirmerKey
    AttesterKey <- MCAttesterKey
    Domain <- MCDomain
    Custodian <- MCCustodian
SPECIFICATION Spec
INVARIANT CustodyTypeOK
INVARIANT HeldIsOneLedger
INVARIANT AnswersStand
INVARIANT GreenlightIsCustody
INVARIANT GreenlightsAreOneLedger
PROPERTY LatestOnlyGrows
PROPERTY GreenlightStands
