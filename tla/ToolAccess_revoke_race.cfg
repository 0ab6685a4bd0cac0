\* A revocation that meets a running provisioning job.
CONSTANTS
    t1 = t1
    t2 = t2
    Tasks <- TwoTasks
    Builds = {TRUE}
    Capabilities = {"provision", "revoke"}
    MayFail = {}
    MaxId = 1
    MaxRestarts = 0
SPECIFICATION Spec
INVARIANT RevokedIsNotActive
CHECK_DEADLOCK FALSE
