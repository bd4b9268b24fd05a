SPECIFICATION SpecIdentity
CONSTANTS
    w1 = w1
    w2 = w2
    oldKey = oldKey
    newKey = newKey
    otherKey = otherKey
    c1 = c1
    v1 = v1
    None = None
    Wallets = {w1, w2}
    Keys = {oldKey, newKey, otherKey}
    Names = {"n"}
    Invites = {c1}
    Invoices = {v1}
    Ids = {1, 2}
    Slots = {q1, q2}
    MaxRequests = 3
    Owner <- MCOwner
    Inputs <- MixedInputs
    Policies <- AnyOrAll
    RequirePayment = TRUE
    Pow = "required"
    People = {"u1", "u2"}
    Registered = {"u1"}
    Npubs = {"n1"}
    LoginKeys = {"k1"}
    LegacyKeys = {"k1"}
    LoginIds = {1, 2, 3}
    Nonces = {"m1"}
    Requests = {q1, q2}
    Fingerprints = {"f1", "f2"}
    Known = {"f1"}
    Probes = {1, 2, 3}
    IpThreshold = 4
    FailThreshold = 2
    MaxLost = 1
SYMMETRY Alike
INVARIANTS
    
    
    TokensBuyOneAccount
    HonouredOnce
    RestoreBounded
PROPERTIES
    SignInsRefined
    
CHECK_DEADLOCK FALSE
