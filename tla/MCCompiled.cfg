CONSTANTS
  WordBits = 16
  Programs <- MCPrograms
SPECIFICATION Spec
INVARIANTS RunsAsWritten EmitterNeverPanics MemoryHandedBack
PROPERTY ProgramEnds
CHECK_DEADLOCK FALSE
