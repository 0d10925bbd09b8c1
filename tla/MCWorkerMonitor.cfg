SPECIFICATION FairSpec
CONSTANTS
    GpuTask = TRUE
    MaxLooks = 3
INVARIANTS
    PassedIsSound
    RecordIsAccepted
PROPERTIES
    MonitorReturns
    WorkerGoes
CHECK_DEADLOCK FALSE
