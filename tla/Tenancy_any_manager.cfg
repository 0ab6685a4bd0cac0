\* A manager of one lab works in another: one request at a time.
CONSTANTS
    t1 = t1
    t2 = t2
    p1 = p1
    p2 = p2
    l1 = l1
    Nobody = Nobody
    NoLab = NoLab
    Tasks <- OneTask
    People <- TwoPeople
    Outsiders <- TwoPeople
    Labs <- OneLab
    LabRoles <- BothRoles
SPECIFICATION Spec
SYMMETRY Alike
INVARIANT AnyManagerDecides
CHECK_DEADLOCK FALSE
