\* Invitations, admins and restarts race for the memberships of one person.
CONSTANTS
    t1 = t1
    t2 = t2
    i1 = i1
    i2 = i2
    Tasks <- TwoTasks
    Invitations <- TwoInvitations
SPECIFICATION Spec
SYMMETRY Interchangeable
INVARIANTS
    TypeOK
    UsedOnce
    AcceptedInFull
    LabWithinOrg
    NoDeadlock
PROPERTIES
    NoWayBackIn
    AdmittedAtomically
CHECK_DEADLOCK FALSE
