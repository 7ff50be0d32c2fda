CONSTANTS
    alice = alice
    bob = bob
    w1 = w1
    w2 = w2
    ats = ats
    None = None
    MaxBlock = 2
    Accounts <- MCAccounts
    Touched <- MCTouched
    Endowed = {alice}
    Free <- MCFree
    Nonce <- MCNonce
    AtsIds = {ats}
    Created <- MCCreated
    Updated <- MCUpdated
    Revoked <- MCRevoked
    ChunkSize = 2
    Workers = {w1, w2}
    FirstHead = 0
    FaultKinds = {"rpc", "commit", "exit", "slow", "disconnect", "crash"}
    MaxFaults = 2
SPECIFICATION Spec
SYMMETRY MCSymmetry
INVARIANTS
    DoneChunksAreIndexed
    AccountsFollowBlocks
    PrefixBalancesAreExact
    SeedCoversHead
    VersionCountsAgree
PROPERTIES
    ImplementsPromise
    CursorNeverSkips
CHECK_DEADLOCK FALSE
