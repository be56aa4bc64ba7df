CONSTANTS
    Scripts <- MCScripts
    Anchors <- MCAnchors
    Manifests <- MCManifests
    Edits = {"seq", "prev", "type", "ver", "tlv", "time", "key", "mono"}
    MaxChanges = 3
SPECIFICATION Spec
INVARIANTS
    VerifiersAgree
    ColdIsWarm
    SoundIsGenuine
    LoopsAgree
CHECK_DEADLOCK FALSE
