SPECIFICATION Spec
CONSTANTS
    Capacity = 2
    MaxChildren = 1
    MaxEvents = 5
INVARIANTS
    WaitingIsOwed
PROPERTIES
    InOrderPerWindow
    ArrivedEventWakes
CHECK_DEADLOCK FALSE
