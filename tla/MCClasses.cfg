CONSTANTS
  None = None
  NoClass = None
  ClassNames <- MCClassNames
  CocoaClasses <- MCCocoaClasses
  WordBytes = 8
  Scenarios <- MCScenarios
SPECIFICATION Spec
INVARIANTS AccessReachesOwner LayoutsExtend MethodsFound AheadOfTimeTheSame
CHECK_DEADLOCK FALSE
