\* Two runs of the agent, each with any of eight configurations and broken off
\* anywhere; the driver is loaded by the agent or at boot and can fail to read
\* any value.  The limit cuts off what two runs leave behind.
CONSTANTS
    block = block
    include = include
    keep = keep
    process = process
    c1 = c1
    c2 = c2
    untyped = untyped
    invalid = invalid
    b1 = b1
    b2 = b2
    Lists = {block, include}
    ListOrder <- BlockThenInclude
    Ids = {1, 2}
    Bits = {b1, b2}
    Conditions = {c1, c2, untyped, invalid}
    WithMessage = {c1, c2, untyped}
    Validated = {c1, c2, untyped, invalid}
    Typed = {c1, c2, invalid}
    Flags = {keep, process}
    FlagOrder <- KeepThenProcess
    DefaultOn = {process}
    BadAction = badaction
    Configs <- AllCases
    BLOCKLIST_MAX = 5
    MaxRuns = 2
SPECIFICATION FairSpec
INVARIANTS
    RegistryAsWanted
    GivenOnly
    LoadedOnce
PROPERTIES
    LoadEnds
