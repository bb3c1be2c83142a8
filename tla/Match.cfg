CONSTANTS
    NumberValues = {0, 1, 2}
    Chars <- MCChars
    Lower <- MCLower
    ByteBits = 2
    Width = 2
    Numbers = {0, 1, 2, 3}
    Strings <- MCStrings
    DosDeviceLetters <- MCLetters
    DosDeviceMap <- MCDevices
    GlobalRoot <- MCGlobalRoot
    Ipv4Addresses <- MCAddresses
    Ipv6Addresses <- MCAddresses
    NULL = NULL
    Families <- MCFamilies
    MemoryFails = TRUE
SPECIFICATION MatchSpec
INVARIANTS
    MatchesDocs
    CountedOnce
    MissesOnly
    FaultsOnlyInTarget
CHECK_DEADLOCK FALSE
