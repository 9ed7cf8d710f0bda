SPECIFICATION Spec
CONSTANTS
    Programs <- MCPrograms
    Parses <- MCParses
    Compiles <- MCAccepted
    Generates <- MCAccepted
    Prints <- MCParses
    HasMain <- MCHasMain
    Fills <- MCFills
INVARIANT NoStaleTree
