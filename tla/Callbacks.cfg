\* One call of every kind of callback, with every way to fail; exceptions end
\* in a bug check (the debug build) or in a handler.  The call returns.
CONSTANTS
    Rights <- MCRights
    Modes <- MCModes
SPECIFICATION Spec
INVARIANTS
    Balanced
    HeldWhenRead
    WellFramed
    DenialLogged
    AccessShrinks
CHECK_DEADLOCK FALSE
