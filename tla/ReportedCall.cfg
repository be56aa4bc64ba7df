\* One id that an event client makes up, and no failing record.
CONSTANTS
    t1 = t1
    t2 = t2
    e1 = e1
    claude = claude
    None = None
    Thread = {t1, t2}
    WireId = {}
    EventId = {e1}
    Client = {claude}
    HookId = {}
    Span = {}
    ClosedMemory = 1
    SeenMemory = 1
    MaxItems = 4
    MaxFailures = 0
    Careless = {}
SPECIFICATION ServeSpec
INVARIANT ReportedCallsCancelled
CHECK_DEADLOCK FALSE
