SPECIFICATION Spec
CONSTANTS
    BasicBlock = 1024
    FreeBlocks = 1
    MaxSize = 80000000
    Chunk = 2048
    MaxReply = 4096
INVARIANTS
    ReleaseAllocates
CHECK_DEADLOCK FALSE
