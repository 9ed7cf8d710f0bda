SPECIFICATION Spec
CONSTANTS
  Trees <- CallTrees
  Exprs <- MCExprs
  Stmts <- MCStmts
  Uses <- CallUses
  MaxNodes <- CallMax
INVARIANTS ParametersMutable
