SPECIFICATION Spec
CONSTANTS
  Null = Null
  None = None
  Samples <- MCSamples
  Budget <- MCBudget
INVARIANTS
  SchemaAsDeclared
  DeletesAllowed
PROPERTIES
  RowsKept
  RightsKept
