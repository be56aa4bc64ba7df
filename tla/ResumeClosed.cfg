\* Enough records for a chain of three segments, which is resumed on any of them.
CONSTANTS
    p1 = p1
    p2 = p2
    s1 = s1
    Null = Null
    Proc = {p1, p2}
    Span = {s1}
    ResumeAny = TRUE
    FreshAnyTime = FALSE
    PendingLimit = 2
    MaxRecords = 5
    MaxOpens = 2
SPECIFICATION PalaSpec
PROPERTY ClosedStaysClosed
CHECK_DEADLOCK FALSE
