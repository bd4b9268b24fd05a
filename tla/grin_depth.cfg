SPECIFICATION Spec
CONSTANTS
    alice = alice
    bob = bob
    carol = carol
    t1 = t1
    NoUser = NoUser
    NoTip = NoTip
    Tips <- MCTipIds
    Users = {alice, bob}
    Sender <- MCSender
    Recipient <- PublicTip
    Asset <- Grin
    Amount <- Two
    ConfsRequired <- One
    SweepDepth <- Two
    Voucher <- FirstOutput
    Replicas <- OneReplica
    FundTxs = {1}
    SweepTxs = {3}
    Inputs <- Competing
    Worth <- MCWorth
    MaxAmount = 2
    MaxHeight = 6
    MaxReorgs = 0
    Wrap = 64
    LockLoss = FALSE
INVARIANTS
    SettledDeep
CHECK_DEADLOCK FALSE
