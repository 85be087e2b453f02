SPECIFICATION FairSpec
CONSTANTS
    Clients = {c1, c2}
    MaxId = 5
    MaxRequests = 3
    MaxSuffix = 4
    mt = mt
    Words = {mt}
    plain = plain
    dashed = dashed
    Spellings = {plain, dashed}
    e1 = e1
    e2 = e2
    Engines = {e1, e2}
    m1 = m1
    m2 = m2
    Dimensions = {m1, m2}
    x1 = x1
    NoExtras = none
    Extras = {none, x1}
    Absent = Absent
    Untouched = Untouched
    Seeded <- EditSeeds
    Requests <- EditRequests
INVARIANTS TypeOK NoOrphanRows DeadlockNeedsRemoval
PROPERTIES RootEditsDetected NoResurrection RequestsAreAtomic EveryRequestAnswered
