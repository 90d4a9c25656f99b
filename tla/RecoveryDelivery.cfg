\* Two calls at once about one state; another ledger's package at one tower.
CONSTANTS
    w1 = w1
    w2 = w2
    w3 = w3
    a = a
    b = b
    c = c
    k1 = k1
    r1 = r1
    r2 = r2
    Towers = {w1, w2, w3}
    Entries = {a, b, c}
    Packages <- OneAndOther
    Official <- OneState
    Foreign <- OtherAtFirst
    Recipients <- ThreeRecipients
    Keys = {k1}
    Requests = {r1, r2}
    Asked <- AskedOnce
    Denying = {}
SPECIFICATION Spec
SYMMETRY Symmetry
INVARIANT DeliveryTypeOK
INVARIANT DeliveredIsHeld
INVARIANT FailedIsRefused
INVARIANT QuorumAnswersHold
PROPERTY CompletedStays
