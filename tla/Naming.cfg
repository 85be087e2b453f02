SPECIFICATION Spec
CONSTANTS
    Clients = {c1, c2, c3}
    MaxId = 6
    MaxRequests = 4
    MaxSuffix = 4
    mt = mt
    Words = {mt}
    plain = plain
    dashed = dashed
    Spellings = {plain, dashed}
    e1 = e1
    e2 = e2
    Engines = {e1, e2}
    m1 = m1
    m2 = m2
    Dimensions = {m1, m2}
    x1 = x1
    NoExtras = none
    Extras = {none, x1}
    Absent = Absent
    Untouched = Untouched
    Seeded <- NamingSeeds
    Requests <- NamingRequests
INVARIANTS SlugsUnique SlugFitsIdentity
PROPERTIES ConflictNeedsTwoRivals LinksSurviveEdits
SYMMETRY Threads
