\* Two PATCHes of the same version.
CONSTANTS
    c1 = c1
    c2 = c2
    u1 = u1
    Nobody = Nobody
    Named <- AllStatuses
    Clients <- TwoClients
    People <- OneUser
    Builds = {TRUE}
    MaxVersion <- VersionBound
    MaxRestarts = 0
SPECIFICATION Spec
PROPERTY VersionAdvances
CHECK_DEADLOCK FALSE
