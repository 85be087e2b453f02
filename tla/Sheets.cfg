SPECIFICATION Spec
CONSTANTS
    NULL = NULL
    Snapshots <- MCSnapshots
    Paths = {"notes", "front", "side"}
    ExtOf <- MCExtOf
    Sizes = {1, 2}
    Researched <- MCResearched
    Errata <- MCErrata
    MaxScrapes = 2
    MaxDownloads = 2
    MaxRuns = 2
INVARIANTS TypeOK RowsPassTheChecks EngineTextAgrees NeverAWrongFigure PublishedWins CopiesAreOwned CopiesPrecedeRows
CHECK_DEADLOCK FALSE
