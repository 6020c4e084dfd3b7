SPECIFICATION Spec
CONSTANTS
    MaxAttempts = 2
    Pids = {p1, p2, p3}
    NoPid = NoPid
    Tasks = {1, 2, 3}
    NoTask = 0
    QueueOf <- MCQueueOf
    EntryStage <- MCEntryStage
    LocalTasks = {2}
    PidReuse = TRUE
    LeaseExpiry = TRUE
    MaxCrashes = 2
SYMMETRY PidSymmetry
INVARIANTS
    TypeOK
    LeaseColumnsAgree
    OrdinaryWorkIsExclusive
    RetiredStageNeverExecutes
PROPERTIES
    FinishedStaysFinished
    RefusedStaysRefused
