SPECIFICATION Spec
CONSTANTS
    f = f
    g = g
    Registry <- MCRegistry
    Anchor = 1464
    CohortSize = 4
    StageSize = 2
    Meta <- MCMeta
    Policy <- MCPolicy
    Views = {"V00", "V01"}
    Identity = "V00"
    Models = {"LR-1.9", "TICL2-2.2"}
    OnGpu = {"TICL2-2.2"}
    Seconds <- MCSeconds
    Weight <- MCWeight
    Bytes <- MCBytes
    Workers = 2
    Safety = 1
    Coordination = 1
    FrozenPasses = 9
    Freezers = {f, g}
    Validators = {v}
    Changing = {46}
    Disagreements = {"nothing", "split"}
    Units = {2}
    Applicabilities <- MCApplicabilities
    MaxEvents = 2
    Absent = Absent
INVARIANT ContractsAgree
PROPERTIES GreenIsOneMoment FrozenDataInPlace GreenIsOneTriple StagingLosesNothing
SYMMETRY FreezerSymmetry
CHECK_DEADLOCK FALSE
