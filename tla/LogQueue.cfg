\* Two callback threads and the agent.  A list that two large entries fill:
\* a purge removes one or two and could remove all.  The largest entry just
\* fills the client's buffer, and does not fit after another one.  No symmetry: the run
\* checks liveness too.
CONSTANTS
    Threads = {t1, t2}
    Client = client
    Free = free
    MAX_ENTRY = 3
    Sizes = {1, 3}
    LIST_SIZE_MAX_BYTES = 6
    LIST_KEEP_MAX = 3
    LIST_PURGE_CONGRUENT = 2
    BufLen = 3
    MaxCalls = 2
    MaxBadBuffers = 1
SPECIFICATION FairSpec
INVARIANTS
    TypeOK
    Accounting
    LoopHasEntry
    SizeBound
    PurgeWindow
PROPERTIES
    ImplementsChannel
    NoEntryStuck
