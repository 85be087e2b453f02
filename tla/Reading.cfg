SPECIFICATION Spec
CONSTANTS
    Ids = {1, 2, 3, 4}
    steel = steel
    full = full
    modes = modes
    ListPrice = list
    NULL = NULL
    Absent = Absent
    Specs <- Registry
    Contents <- Bodies
    Seeds <- Catalogues
    Asked <- Lists
    MinItems = 2
    MaxItems = 3
    MaxCompareIds = 4
    Queries <- Pages
    Sortable = {"id", "brand", "price"}
    BatchSize = 2
    MaxWrites = 2
    MaxRequests = 1
INVARIANTS TypeOK WinnersAreBest ColumnsAreOfOneInstant ReadsAreOfTheirInstants FailsOnlyRacingRemovals FiguresDriftOnlyByWrites
