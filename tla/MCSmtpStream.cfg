SPECIFICATION Spec
CONSTANTS
    BasicBlock = 2
    FreeBlocks = 2
    MaxSize = 11
    Byte = {"D", "r", "n", "."}
    Stream <- SmallStreams
    MaxTokens = 4
    CmdChunk = 4
    DataChunk = 6
    KeepPercent = 40
INVARIANTS
    TypeOK
    LinesAreExact
    MessagesAreExact
    BuffersFit
    CommandsReduced
CHECK_DEADLOCK FALSE
