SPECIFICATION Spec
CONSTANTS
  Trees <- MCTrees
  Exprs <- MCExprs
  Stmts <- MCStmts
  Uses <- MCUses
  MaxNodes <- MCMax
INVARIANTS BlocksClosed InstructionsAtHome VariablesAllocated
