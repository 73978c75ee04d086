SPECIFICATION Spec
CONSTANTS
    LeafMax = 2
    MaxLen = 9
    Pieces <- SomePieces
INVARIANTS
    TextKept
    TreeSound
    LinesAgree
