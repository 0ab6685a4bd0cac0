\* Jobs are lost by restarts and late commits and started again by listings.
CONSTANTS
    t1 = t1
    t2 = t2
    t3 = t3
    Tasks <- ThreeTasks
    Builds <- BothBuilds
    MaxPosts = 2
    MaxRestarts = 1
SPECIFICATION FairSpec
INVARIANTS
    TypeOK
    MessagesKept
    ReadyWhenActive
    NothingAbandoned
PROPERTIES
    ActiveStays
    ActiveInTheEnd
CHECK_DEADLOCK FALSE
