\* A block rule with an action for an object access.
CONSTANTS
    f1 = f1
    f2 = f2
    u = u
    v = v
    fail = fail
    pending = pending
    Fields = {f1, f2}
    Values = {u, v}
    Absent = absent
    RuleIds = {11, 12, 21, 22, 31, 32}
    Zero = zero
    ACCESS_DENIED = denied
    NO_ACCESS = noaccess
    Failures = {fail}
    Successes = {pending}
    Configs <- BlockingConfigs
SPECIFICATION Spec
INVARIANT ObjectBlockDenies
