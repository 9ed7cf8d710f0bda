SPECIFICATION Spec
CONSTANTS
    NREG = 3
    IMM = 64
    Trees <- MCTrees
    Exprs <- MCExprs
    Stmts <- MCStmts
    Uses <- MCUses
    MaxNodes <- MCMax
INVARIANTS
    TypeOK
    CompilerInv
    MachineStackBalanced
    PendingValuesSurvive
    Balanced
    CallsResolved
    SecondPassNeverFails
    StartInitialisesGlobals
    NoShadowing
    JumpsOwed
    LoopsClosed
    FrameHoldsLocals
    StorageDisjoint
    RelocationsMatch
PROPERTY
    SecondPassMovesNothing
