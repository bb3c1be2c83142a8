\* Every kind of event, up to two rules per list, every value of two fields.
CONSTANTS
    f1 = f1
    f2 = f2
    u = u
    v = v
    fail = fail
    pending = pending
    Fields = {f1, f2}
    Values = {u, v}
    Absent = absent
    RuleIds = {11, 12, 21, 22, 31, 32}
    Zero = zero
    ACCESS_DENIED = denied
    NO_ACCESS = noaccess
    Failures = {fail}
    Successes = {pending}
    Configs <- AllConfigs
SPECIFICATION Spec
INVARIANTS
    Precedence
    DroppedOnlyByExclude
    DeniedIsReported
    BlockDenies
