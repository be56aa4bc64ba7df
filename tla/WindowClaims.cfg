CONSTANTS
    SinkMessages = 1
    WindowMessages = 1
    Budget = 6
    Overhead = 1
    MaxMessages = 5
    MaxSize = 2
SPECIFICATION Spec
INVARIANT WindowAsDocumented
CHECK_DEADLOCK FALSE
