SPECIFICATION FairSpec
CONSTANTS
    Procs = {p1, p2}
    Free = Free
    Absent = Absent
    Broken = Broken
    Kinds = {"crash", "network", "altered", "garbled", "torn"}
    Attempts = 2
    MaxRefresh = 1
    MaxFaults = 1
INVARIANTS SourceIsDescribed
PROPERTIES FittingTablesAreKept PassSawItsChain Heals
