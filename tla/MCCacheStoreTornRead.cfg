SPECIFICATION Spec
CONSTANTS
    Procs = {p1, p2}
    Keys = {k1}
    Payloads = {a}
    NoDir = NoDir
    Missing = Missing
    Bad = Bad
    Free = Free
    MaxManifests = 2
PROPERTIES
    ArtifactFromCertifiedManifest
