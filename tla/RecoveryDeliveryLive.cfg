\* Retried quorum calls for a state that a second one overtakes; the third tower's proxy turns calls away.
CONSTANTS
    w1 = w1
    w2 = w2
    w3 = w3
    a = a
    b = b
    c = c
    k1 = k1
    r1 = r1
    r2 = r2
    Towers = {w1, w2, w3}
    Entries = {a, b, c}
    Packages <- HubOnly
    Official <- TwoStates
    Foreign <- NoForeign
    Recipients <- ThreeRecipients
    Keys = {k1}
    Requests = {r1}
    Asked <- AskedAgain
    Denying = {w3}
SPECIFICATION FairSpec
PROPERTY SignedReachesQuorum
PROPERTY PendingCompletes
