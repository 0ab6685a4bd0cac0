\* Steps, completions and other people's decisions race for the same rows.
CONSTANTS
    t1 = t1
    t2 = t2
    cvat = cvat
    isaac_sim = isaac_sim
    Tasks <- TwoTasks
    Tools <- TwoTools
    Builds <- BothBuilds
    MaxRestarts = 1
SPECIFICATION FairSpec
INVARIANTS
    TypeOK
    Unlocks
    NothingAbandoned
    NoDeadlock
PROPERTIES
    StepByStep
    UnlockedAtomically
    Served
    EveryTaskEnds
CHECK_DEADLOCK FALSE
