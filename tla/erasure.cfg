SPECIFICATION SpecErasure
CONSTANTS
    NoUser = NoUser
    Users = {u1, u2}
    Ids = {1, 2}
    Replicas = {r1, r2}
    Batch = 2
    MaxTips = 1
    Payers = {"u1"}
    Invoices = {1, 2}
    Rails = {"btcpay", "xmrcheckout"}
    Primary = "btcpay"
    Plans = {1}
    Slots = {1, 2}
    MaxPending = 1
    MaxTime = 3
    MaxOutages = 1
INVARIANTS
    RequestsConsistent
    NothingLeftBehind
    PremiumIsPaidTime
PROPERTIES
    GraceRespected
    DeletableRequestExecuted
    PaidIsCredited
CHECK_DEADLOCK FALSE
