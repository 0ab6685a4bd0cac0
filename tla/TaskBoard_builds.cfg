\* Two editors, in the build that commits a request before it answers and in
\* the one that answers first.
CONSTANTS
    c1 = c1
    c2 = c2
    u1 = u1
    Nobody = Nobody
    Named <- SomeStatuses
    Clients <- TwoClients
    People <- OneUser
    Builds = {TRUE, FALSE}
    MaxVersion <- VersionBound
    MaxRestarts = 1
SPECIFICATION Spec
SYMMETRY EditorSymmetry
INVARIANTS
    TypeOK
    SameVersionSameTask
    AssigneeWasMember
    ConflictIsReal
    ChildrenKeepTask
PROPERTY SerialEdits
CHECK_DEADLOCK FALSE
