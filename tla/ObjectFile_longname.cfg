SPECIFICATION Spec
CONSTANTS
    SEG_ALLOC_INIT = 256
    SEC_ALIGN = 16
    EhdrSize = 64
    ShdrSize = 64
    SymSize = 24
    SecNames <- MCSecNames
    LibNames <- MCLibNames
    StartName = 7
    OutNames = {10, 241}
    Blobs = {24}
    MaxSize = 320
INVARIANT
    SymbolsNamed
