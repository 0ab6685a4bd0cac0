\* Two people govern an organization with one lab, two requests at a time.
CONSTANTS
    t1 = t1
    t2 = t2
    p1 = p1
    p2 = p2
    l1 = l1
    Nobody = Nobody
    NoLab = NoLab
    Tasks <- TwoTasks
    People <- TwoPeople
    Outsiders <- TwoPeople
    Labs <- OneLab
    LabRoles <- Managers
SPECIFICATION Spec
SYMMETRY Interchangeable
INVARIANT TypeOK
PROPERTIES
    SerialAuthority
    LastAdminResigns
    UngovernedForGood
CHECK_DEADLOCK FALSE
