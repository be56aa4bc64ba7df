\* Every fault of the log once: anchor_every = 2 leaves an unanchored tail.
CONSTANTS
    t1 = t1
    t2 = t2
    w1 = w1
    w2 = w2
    e1 = e1
    h1 = h1
    h2 = h2
    s1 = s1
    s2 = s2
    claude = claude
    None = None
    Nobody = Nobody
    Thread = {t1, t2}
    WireId = {w1, w2}
    EventId = {e1}
    Client = {claude}
    HookId = {h1, h2}
    Span = {s1, s2}
    ClosedMemory = 1
    SeenMemory = 1
    MaxItems = 4
    MaxFailures = 1
    Careless = {}
    Proc = {t1, t2}
    AnchorEvery = 2
    MaxRows = 4
    MaxOpens = 3
    MaxCrashes = 1
    MaxOutages = 1
    MaxCommitFailures = 1
SPECIFICATION MCSpec
SYMMETRY Symmetry
INVARIANTS
    BoundToItsCall
    EveryCallClosed
    OnePairPerDelivery
    ChainLinear
    OkIsDurable
    UnanchoredTail
PROPERTIES
    ImplementsCallLedger
    ImplementsAppendOnlyLog
\* Serving ends, and every handle may be closed for good.
CHECK_DEADLOCK FALSE
