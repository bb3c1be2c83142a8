\* Two slots for two pids that are used twice each: the index passes the end
\* of the array and wraps.  Two callbacks run at the same time.
CONSTANTS
    Pids = {p1, p2}
    NoPid = nopid
    NoInfo = noinfo
    Callbacks = {c1, c2}
    Running = {p1}
    Blocked = {}
    NEW_PROCS_MAX = 2
    MaxIncarnations = 3
SPECIFICATION Spec
SYMMETRY Symmetry
INVARIANTS
    CacheSound
    PinsReleased
    NewStatusOnce
\* The run ends when every pid has been used MaxIncarnations times.
CHECK_DEADLOCK FALSE
