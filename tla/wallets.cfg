SPECIFICATION SpecWallets
CONSTANTS
    alice = alice
    bob = bob
    carol = carol
    t1 = t1
    NoUser = NoUser
    None = None
    NoTip = NoTip
    Tips <- MCTipIds
    Users = {alice, bob}
    Sender <- MCSender
    Recipient <- PublicTip
    Asset <- Monero
    Amount <- Two
    ConfsRequired <- Two
    SweepDepth <- Two
    Voucher <- FirstOutput
    Replicas = {r1, r2}
    FundTxs = {1, 2}
    SweepTxs = {3}
    Inputs <- Competing
    Worth <- MCWorth
    MaxAmount = 3
    MaxHeight = 4
    MaxReorgs = 1
    Wrap = 64
    LockLoss = FALSE
    Requests = {r1, r2}
    Paid <- MCPaid
    MaxMinors = 2
    MaxDepth = 1
    Capacities = {1, 2}
    MaxTip = 2
    MaxFaults = 1
    MaxCrashes = 1
    Ids = {1, 2}
    Slates = {"slate"}
    Accounts = {"u1", "u2", "u3"}
    Batch = 2
    Window = 2
    Fallbacks = {"f1"}
    Balances = {1, 3}
    MaxU64 = 4
    MaxChanges = 3
    MaxScans = 3
    MaxNonce = 4
    Margin = 1
    MaxRestarts = 1
    Nobody = 0
SYMMETRY Alike
INVARIANTS
    ClaimGate
    ScansWhatItPromises
    PrimaryServesAgain
    GrinScanSound
PROPERTIES
    LifecycleRefined
    RelayFollowsParties
    
CHECK_DEADLOCK FALSE
