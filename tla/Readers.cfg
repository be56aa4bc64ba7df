CONSTANTS
    Units = 3
    Grace = 1
    MaxRecords = 4
    MaxBoots = 3
    MaxChain = 9
    MaxSegments = 3
    MaxStated = 5
SPECIFICATION MCSpec
INVARIANTS
    EmittedIsWritten
    RootsAgree
    ProofsSound
    ReadersAgree
    RootIsHistory
PROPERTY TailIsTold
