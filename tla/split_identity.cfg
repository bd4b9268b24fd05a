SPECIFICATION Spec
CONSTANTS
    w1 = w1
    w2 = w2
    oldKey = oldKey
    newKey = newKey
    otherKey = otherKey
    c1 = c1
    v1 = v1
    None = None
    Wallets = {w1}
    Keys = {oldKey}
    Names = {}
    Invites = {}
    Invoices = {}
    Ids = {1, 2}
    Slots = {1, 2}
    MaxRequests = 3
    Owner <- MCOwner
    Inputs <- OneWalletInputs
    Policies <- Open
    RequirePayment = FALSE
    Pow = "required"
INVARIANTS
    WalletNotSplit
CHECK_DEADLOCK FALSE
