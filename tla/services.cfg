SPECIFICATION SpecOperator
CONSTANTS
    Unset = Unset
    None = None
    Focus = {"keys", "config", "relay", "audit"}
    Pubs = {ada, eve, bob}
    Slots = {1, 2}
    MaxKeyRows = 3
    MaxSessions = 2
    MaxKeys = 2
    MaxRequests = 3
    MaxCli = 2
    MaxMints = 1
    Operators = {op1, op2}
    Patches <- MCPatches
    Base <- MCBase
    Saved = {"premium", "registration"}
    MaxPuts = 3
    MaxBoots = 1
    Npubs = {"n1", "n2", "n3"}
    Subscribers = {"u1", "u2"}
    Allowed = {"n3"}
    Policies = {"open", "author-allowlist", "inbox-outbox", "premium-post"}
    PowBits = TRUE
    MaxChanges = 3
    Actions = {"a1", "a2", "a3"}
INVARIANTS
    BootstrapStaysLatched
    RunningSound
    
    ChainTellsEdits
PROPERTIES
    NetworkKeepsAKey
    RevokedForGood
    MintsForLiveKeys
    GuardedEditKeepsOthers
    
CHECK_DEADLOCK FALSE
