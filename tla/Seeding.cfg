SPECIFICATION FairSpec
CONSTANTS
    demo = demo
    street = street
    euro = euro
    Names = {demo, street, euro}
    ninja = ninja
    bonneville = bonneville
    quad = quad
    Triumphs = {}
    Quads = {}
    a = a
    b = b
    Specs = {a, b}
    NULL = NULL
    Missing = Missing
    Scripts <- ImportEdits
    Bodies <- AdminBodies
    MaxWrites = 2
    MaxCrashes = 1
INVARIANTS TypeOK BrazilIsNotEurope RerunAddsOnlyWeights
PROPERTY BootCompletes
