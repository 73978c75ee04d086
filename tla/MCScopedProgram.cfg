CONSTANTS
  Families <- AllFamilies
  MaxNesting = 3
  Programs <- MCPrograms
  MaxObjects = 5
  MaxVectors = 5
  MaxDepth = 5
SPECIFICATION Spec
INVARIANTS ReferencesCounted UsingDisposed NoDanglingVector ScopesMatched
CHECK_DEADLOCK FALSE
