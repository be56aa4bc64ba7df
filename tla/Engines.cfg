\* A rotten byte counts for two faults.
CONSTANTS
    serve = serve
    use1 = use1
    s1 = s1
    s2 = s2
    c1 = c1
    t1 = t1
    t2 = t2
    Null = Null
    Sessions = {serve, use1}
    Calls = {s1, s2, c1}
    Process <- MCProcess
    Hosts <- MCHosts
    Thread = {t1, t2}
    Main = Main
    Nobody = Nobody
    GuardThreshold = 2
    GuardWindow = 0
    AnchorThreshold = 2
    MaxStall = 1
    MaxClock = 2
    MaxRecords = 6
    MaxFaults = 2
SPECIFICATION MCSpec
SYMMETRY Symmetry
INVARIANTS
    ChoiceHolds
    ServerIsOwned
    ChainSound
    EscalationTrue
    ChecksAreTrue
    LossShows
