\* A request that read a valid invitation accepts it after it has expired.
CONSTANTS
    t1 = t1
    t2 = t2
    i1 = i1
    i2 = i2
    Tasks <- TwoTasks
    Invitations <- TwoInvitations
SPECIFICATION Spec
SYMMETRY Interchangeable
PROPERTY
    NotAcceptedExpired
CHECK_DEADLOCK FALSE
