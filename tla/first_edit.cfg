SPECIFICATION SpecServices
CONSTANTS
    Unset = Unset
    None = None
    Focus = {"config"}
    Pubs = {ada, eve, bob}
    Slots = {1, 2}
    MaxKeyRows = 3
    MaxSessions = 2
    MaxKeys = 2
    MaxRequests = 3
    MaxCli = 2
    MaxMints = 1
    Operators = {op1, op2}
    Patches <- MCPatches
    Base <- MCBase
    Saved = {}
    MaxPuts = 3
    MaxBoots = 1
PROPERTIES
    EveryEditKeepsOthers
CHECK_DEADLOCK FALSE
