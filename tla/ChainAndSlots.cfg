\* A sequence more than slots, so that a holder may stand beside them.
CONSTANTS
    p1 = p1
    p2 = p2
    p3 = p3
    s1 = s1
    None = None
    Null = Null
    Proc = {p1, p2}
    Span = {s1}
    ResumeAny = FALSE
    FreshAnyTime = FALSE
    PendingLimit = 2
    MaxRecords = 6
    MaxOpens = 3
    Job = {p1, p2, p3}
    NSeq = 3
    MaxActive = 2
    MaxTokens = 2
    MaxInput = 2
    NCtx = 2
SPECIFICATION MCSpec
SYMMETRY Symmetry
INVARIANTS
    OneChain
    ManifestIsTrue
    SetIsJudged
    RootCoversChain
    OneOwner
    PositionIsKV
PROPERTY ImplementsAppendOnlyLog
CHECK_DEADLOCK FALSE
