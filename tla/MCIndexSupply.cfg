\* Two builds, one crash.
SPECIFICATION MCSpec
CONSTANTS
    none = none
    intro = intro
    setup = setup
    NoTitle = no_title
    NoPin = no_pin
    NoFile = no_file
    Skipped = skipped
    Documents <- MCDocuments
    TargetChars = 9
    MinChars = 2
    EmbedBatch = 2
    MaxBuilds = 2
    MaxCrashes = 1
INVARIANTS
    SupplyTypeOK
    ChunksFaithful
    ServedTrusted
PROPERTY
    BootEnds
CHECK_DEADLOCK FALSE
