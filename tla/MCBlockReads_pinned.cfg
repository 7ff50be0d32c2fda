CONSTANTS
    r1 = r1
    r2 = r2
    None = None
    Readers = {r1, r2}
    MaxHeight = 2
    MaxForks = 1
    MaxFaults = 1
    Ops = {"block", "list", "one"}
    Asked = {1, 2}
    PageCount = 1
SPECIFICATION Spec
INVARIANTS
    PinnedBlocksAreFinal
CHECK_DEADLOCK FALSE
