SPECIFICATION Spec
CONSTANTS
    Typed = {"x"}
    Clips <- SomeClips
    Files <- SomeFiles
    Widths <- SomeWidths
    LowerCase <- SomeLowerCase
    Spots <- SomeSpots
    Patterns <- SomePatterns
    Replacements <- SomeReplacements
    VisibleRows = 2
    TabWidth = 1
    UndoCap = 2
    MaxSize = 4
INVARIANTS
    HistoryFits
    CursorInText
    SearchRight
CHECK_DEADLOCK FALSE
