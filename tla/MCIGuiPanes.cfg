SPECIFICATION Spec
CONSTANTS
    Graphics <- OneGraphics
    TextPanes <- OneText
    MaxCmds = 2
    MaxBatches = 1
    MaxRequests = 1
    MaxText = 2
INVARIANTS
    NoQuestionForgotten
    GuiNeverBlocks
    LastBatchPainted
PROPERTIES
    TextArrives
CHECK_DEADLOCK FALSE
