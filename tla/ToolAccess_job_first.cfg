\* The job of a grant runs before the grant is committed.
CONSTANTS
    t1 = t1
    t2 = t2
    Tasks <- TwoTasks
    Builds = {FALSE}
    Capabilities = {"provision", "revoke"}
    MayFail = {}
    MaxId = 1
    MaxRestarts = 0
SPECIFICATION FairSpec
PROPERTY GrantIsServed
CHECK_DEADLOCK FALSE
