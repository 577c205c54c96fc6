SPECIFICATION FairSpec
CONSTANTS
    MaxTasks = 4
INVARIANTS
    NoLostWakeUp
PROPERTIES
    RunsInOrder
    AcceptedIsRun
    IdleWorkerEnds
CHECK_DEADLOCK FALSE
