\* Two sessions may share a prefix and a batch; nobody is careless.
CONSTANTS
    c1 = c1
    c2 = c2
    r1 = r1
    k1 = k1
    i1 = i1
    None = None
    Session = {c1, c2}
    Job = {c1, c2, r1}
    Prompt = {k1}
    CallId = {i1}
    PrefixLen = 1
    MaxHops = 1
    Careless = {}
    NSeq = 3
    MaxActive = 2
    MaxTokens = 2
    MaxInput = 1
    NCtx = 3
    Saved = {1}
    MaxCalls = 1
    MaxFaults = 1
SPECIFICATION FairSpec
INVARIANTS
    SequencesSound
    HoldersAccounted
    EveryCallEndsOnce
    OwnTokens
PROPERTY LoopsEnd
CHECK_DEADLOCK FALSE
