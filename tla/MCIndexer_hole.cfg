CONSTANTS
    alice = alice
    bob = bob
    w1 = w1
    w2 = w2
    ats = ats
    None = None
    MaxBlock = 3
    Accounts <- MCAccounts
    Touched <- MCTouched
    Endowed = {alice}
    Free <- MCFree
    Nonce <- MCNonce
    AtsIds = {}
    Created <- MCNoAts
    Updated <- MCNoAts
    Revoked <- MCNoAts
    ChunkSize = 2
    Workers = {w1, w2}
    FirstHead = 0
    FaultKinds = {"rpc"}
    MaxFaults = 2
SPECIFICATION Spec
SYMMETRY MCSymmetry
INVARIANTS
    NoHoleBelowCursor
CHECK_DEADLOCK FALSE
