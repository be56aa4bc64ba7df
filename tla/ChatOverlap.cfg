\* One session without a prefix, and a chat while it is open.
CONSTANTS
    c1 = c1
    c2 = c2
    r1 = r1
    k1 = k1
    i1 = i1
    None = None
    Session = {c1}
    Job = {c1, r1}
    Prompt = {k1}
    CallId = {i1}
    PrefixLen = 1
    MaxHops = 0
    Careless = {"overlap"}
    NSeq = 2
    MaxActive = 1
    MaxTokens = 2
    MaxInput = 1
    NCtx = 3
    Saved = {}
    MaxCalls = 0
    MaxFaults = 0
SPECIFICATION Spec
INVARIANT NeverContends
CHECK_DEADLOCK FALSE
