SPECIFICATION Spec
CONSTANTS
    NREG = 8
    IMM = 64
    Trees <- LibTrees
    Exprs <- LibExprs
    Stmts <- LibStmts
    Uses <- LibUses
    MaxNodes <- LibMax
INVARIANT
    SavedForLibrary
