SPECIFICATION FairSpec
CONSTANTS
    MaxTasks = 1
PROPERTIES
    StopEndsThread
CHECK_DEADLOCK FALSE
