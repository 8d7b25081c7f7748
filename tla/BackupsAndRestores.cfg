SPECIFICATION Spec
CONSTANTS
    f1 = f1
    f2 = f2
    f3 = f3
    j1 = j1
    j2 = j2
    Files = {f1, f2, f3}
    FirstFiles = {f1}
    Jobs = {j1, j2}
    Settings <- RemovalsOrDeletions
    q1 = q1
    q2 = q2
    q3 = q3
    d1 = d1
    d2 = d2
    a = a
    b = b
    c = c
    d = d
    Requests = {q1, q2, q3}
    Objects = {a, b, c, d}
    Targets = {active, t1, t2}
    Archive <- TwoSets
    Active = active
    Live = live
    FirstObjects = {b, c}
    Uploads = {d}
    RestoreSettings <- OneKindOrBoth
SYMMETRY Symmetry
CHECK_DEADLOCK FALSE
INVARIANTS
    SetsRestorable
    
    RestoreWhole
PROPERTIES
    RestoredIsArchive
