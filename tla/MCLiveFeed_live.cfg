CONSTANTS
    s1 = s1
    e1 = e1
    e2 = e2
    e3 = e3
    f1 = f1
    f2 = f2
    None = None
    Sessions = {s1}
    Entries = {e1, e2, e3}
    Forwarders = {f1, f2}
    MaxBlock = 1
    Ring = 1
    SinkCapacity = 1
    HeartbeatDropLimit = 1
    MaxSubscribes = 2
    MaxFaults = 2
SPECIFICATION FairSpec
INVARIANTS
    TypeOK
    LeasesShareOneEncoder
PROPERTIES
    IdleCostsNothing
    SubscribersSeeTheNewest
    SessionsEnd
CHECK_DEADLOCK FALSE
