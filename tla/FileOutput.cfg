SPECIFICATION FairSpec
CONSTANTS
    Records = 4
    Size <- MCSize
    YamlFiles = 2
    ROTATE_SIZE = 1
    ROTATE_COUNT = 1
    Others <- MCOthers
    FirstSecond = 2
    LastSecond = 4
    MaxStarts = 2
    MaxFaults = 1
INVARIANTS
    NothingLost
    SizeBounded
PROPERTIES
    RotationRemovesOldest
    Drains
CHECK_DEADLOCK FALSE
