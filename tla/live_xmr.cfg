SPECIFICATION FairSpec
CONSTANTS
    alice = alice
    bob = bob
    carol = carol
    t1 = t1
    NoUser = NoUser
    NoTip = NoTip
    Tips <- MCTipIds
    Users = {alice}
    Sender <- MCSender
    Recipient <- PublicTip
    Asset <- Monero
    Amount <- Two
    ConfsRequired <- Two
    SweepDepth <- Two
    Voucher <- FirstOutput
    Replicas <- OneReplica
    FundTxs = {1, 2}
    SweepTxs = {3, 4}
    Inputs <- Separate
    Worth <- MCWorth
    MaxAmount = 3
    MaxHeight = 5
    MaxReorgs = 1
    Wrap = 64
    LockLoss = FALSE

    
PROPERTIES
    VerdictOnHeldFunds
    FundedTipOffered
    
    OrphanedSettlementReverts
CHECK_DEADLOCK FALSE
