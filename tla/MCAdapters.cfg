SPECIFICATION Spec
CONSTANTS
    Procs = {p1, p2}
    Mixes <- MCMixes
    Bytes = {b1, b2, b3}
    b1 = b1
    b2 = b2
    b3 = b3
    Close <- MCClose
    Free = Free
    Absent = Absent
    Broken = Broken
    None = None
    MaxFaults = 2
SYMMETRY AdapterSymmetry
INVARIANTS ModelUnderLock CertificatesHold PassIsOwn
PROPERTIES PayloadIsKept PassAfterCleanup
