\* The exit callback releases what another callback is using.
CONSTANTS
    Pids = {p1, p2}
    NoPid = nopid
    NoInfo = noinfo
    Callbacks = {c1, c2}
    Running = {p1, p2}
    Blocked = {}
    NEW_PROCS_MAX = 4
    MaxIncarnations = 1
SPECIFICATION Spec
INVARIANT InfoOutlivesUse
CHECK_DEADLOCK FALSE
