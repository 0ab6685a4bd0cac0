\* Two concurrent requests of any kind, in the build that commits a request
\* before its job and in the one that commits after it; two rows, a connector
\* that may refuse, two restarts.
CONSTANTS
    t1 = t1
    t2 = t2
    Tasks <- TwoTasks
    Builds = {TRUE, FALSE}
    Capabilities = {"provision", "revoke"}
    MayFail = {"provision"}
    MaxId = 2
    MaxRestarts = 2
SPECIFICATION FairSpec
INVARIANTS
    TypeOK
    GrantedBeforeUse
    NothingAbandoned
    AccountsMatchRow
    RevocationHolds
    NeverServed
PROPERTIES
    FollowsLifecycle
    Settles
    EveryTaskEnds
CHECK_DEADLOCK FALSE
