\* Three callouts, an engine that runs or not when the driver is loaded and
\* starts up to three times afterwards, two processes that open the device.
\* At the end the driver is gone.
CONSTANTS
    callout_count = 3
    ULONGs = 8
    MaxStarts = 3
    Clients = {p1, p2}
    NoClient = noclient
    MaxFiles = 2
SPECIFICATION FairSpec
INVARIANTS
    OneSetup
    FilterHasFunctions
    CleanUnload
    ClientHasDevice
PROPERTIES
    EntryEnds
CHECK_DEADLOCK FALSE
