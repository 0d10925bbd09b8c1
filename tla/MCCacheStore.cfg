SPECIFICATION Spec
CONSTANTS
    Procs = {p1, p2}
    Keys = {k1}
    Payloads = {a, b}
    NoDir = NoDir
    Missing = Missing
    Bad = Bad
    Free = Free
    MaxManifests = 2
SYMMETRY StoreSymmetry
INVARIANTS
    WorkOnlyOnMiss
    QuarantineOnlyInvalid
PROPERTIES
    ReadsAreGenuine
    ImplementsRegister
