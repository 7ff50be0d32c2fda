CONSTANTS
    r1 = r1
    r2 = r2
    None = None
    Readers = {r1, r2}
    MaxHeight = 2
    MaxForks = 1
    MaxFaults = 1
    Ops = {"block", "page"}
    Asked = {2}
    PageCount = 1
SPECIFICATION FairSpec
INVARIANTS
    FinalizedRowsAreCanonical
PROPERTIES
    ReadsReturn
CHECK_DEADLOCK FALSE
