SPECIFICATION Spec
CONSTANTS
    alice = alice
    bob = bob
    carol = carol
    t1 = t1
    NoUser = NoUser
    NoTip = NoTip
    Tips <- MCTipIds
    Users = {alice, bob, carol}
    Sender <- MCSender
    Recipient <- PublicTip
    Asset <- Bitcoin
    Amount <- Two
    ConfsRequired <- Zero
    SweepDepth <- Two
    Voucher <- FirstOutput
    Replicas <- TwoReplicas
    FundTxs = {1}
    SweepTxs = {3, 4}
    Inputs <- Competing
    Worth <- MCWorth
    MaxAmount = 2
    MaxHeight = 5
    MaxReorgs = 1
    Wrap = 64
    LockLoss = FALSE
INVARIANTS
    SettledIffClaimed
    SettledDeep
    SettledOnWinner
    RevertsWhatItProbed

    
CHECK_DEADLOCK FALSE
