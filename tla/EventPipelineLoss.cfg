\* The comment in Luna about events that span several reads.
CONSTANTS
    a = a
    b = b
    end = end
    Ids = {1, 2}
    FieldNames = {a, b}
    EVENT_END = end
    worker_count = 2
    Streams <- TwoEvents
SPECIFICATION Spec
INVARIANT NoDataLoss
CHECK_DEADLOCK FALSE
