SPECIFICATION Spec
CONSTANTS
    cb500 = cb500
    cb650 = cb650
    z900 = z900
    odd = odd
    long = long
    Slugs = {cb500, cb650, z900}
    Odd = {odd}
    Long = {long}
    BrandOf <- SlugBrand
    Batches <- Passes
    NULL = NULL
    Absent = Absent
    MaxFiles = 3
    MaxEntries = 3
    MaxWrites = 1
INVARIANT AppliedTyresKept
CHECK_DEADLOCK FALSE
