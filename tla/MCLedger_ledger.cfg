CONSTANTS
    None = None
    MaxBlock = 2
    Accounts = {1, 2}
    AtsIds = {}
    BatchSize = 1
    Wrong = 7
    TopCount = 1
    MaxScan = 2
    ReadyMaxLag = 0
    OfflineAge = 0
    HealthyLag = 0
    Precision = 3
    Touched <- MCTouched
    Endowed <- MCEndowed
    Free <- MCFree
    Nonce <- MCNonce
    Created <- MCNone
    Updated <- MCNone
    Revoked <- MCNone
SPECIFICATION FairSpec
INVARIANTS
    TypeOK
    SweepConverges
    RacesHeal
    ProvidersAgree
    HealthyBoundsTheHole
PROPERTIES
    NonceNeverFalls
    StuckWorkerIsNoticed
