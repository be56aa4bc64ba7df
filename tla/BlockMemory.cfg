SPECIFICATION Spec
CONSTANTS
    serve = serve
    command = command
    s1 = s1
    s2 = s2
    c1 = c1
    None = None
    Sessions = {serve, command}
    Calls = {s1, s2, c1}
    Session <- MCSession
    Talks <- MCTalks
    Conversations <- MCConversations
    MaxBlocks = 2
    SinkMessages = 1
    WindowMessages = 1
    Budget = 6
    Overhead = 1
INVARIANTS
    FitIsSound
    StoredIsThere
    LockOnlyFromFault
PROPERTY CallsEnd
