CONSTANTS
  Region = {r1, r2}
  NoRegion = NoRegion
  Pointer = {p1, p2, p3, p4}
  FIRST_CHUNK = 64
  DEFAULT_CHUNK = 96
  Payload = {0, 24}
  MaxArenas = 2
SYMMETRY Symmetry
SPECIFICATION Spec
INVARIANTS TypeOK LiveBlocksDisjoint LiveBlocksBacked TagsTellProvenance NothingUnaccounted
PROPERTIES StoreSpec
