\* Two managers approve the same request.
CONSTANTS
    t1 = t1
    t2 = t2
    Tasks <- TwoTasks
    Builds = {TRUE}
    Capabilities = {"provision", "revoke"}
    MayFail = {}
    MaxId = 1
    MaxRestarts = 0
SPECIFICATION Spec
INVARIANT NoDuplicateAccount
CHECK_DEADLOCK FALSE
