SPECIFICATION Spec
CONSTANTS
    cb500 = cb500
    cb650 = cb650
    z900 = z900
    odd = odd
    long = long
    Slugs = {cb500, cb650, z900}
    Odd = {odd}
    Long = {long}
    BrandOf <- SlugBrand
    Batches <- Passes
    NULL = NULL
    Absent = Absent
    MaxFiles = 2
    MaxEntries = 3
    MaxWrites = 1
INVARIANTS TypeOK AppliedRowsKept OnlyFlawsStopBoots StaleListsDoNotStopImports
PROPERTIES OnlyGapsFilled
CHECK_DEADLOCK FALSE
