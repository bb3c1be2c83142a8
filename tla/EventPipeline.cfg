\* Two workers.  Either two interleaved events of two fields, or three short
\* ones of which the second is ended twice; read in every way, so that both
\* buffers are used up to three times.
CONSTANTS
    a = a
    b = b
    end = end
    Ids = {1, 2, 3}
    FieldNames = {a, b}
    EVENT_END = end
    worker_count = 2
    Streams <- AllStreams
SPECIFICATION FairSpec
INVARIANTS
    BarrierSafe
    EndsConserved
    UnsplitWhole
PROPERTIES
    AllWritten
\* The driver has nothing more to deliver.
CHECK_DEADLOCK FALSE
