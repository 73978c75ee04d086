CONSTANTS
  WordBits = 16
  Programs <- SwapPrograms
SPECIFICATION Spec
INVARIANT AssignmentIsParallel
CHECK_DEADLOCK FALSE
