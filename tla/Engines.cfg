SPECIFICATION Spec
CONSTANTS
    demo = demo
    street = street
    euro = euro
    Names = {ninja, bonneville, quad}
    ninja = ninja
    bonneville = bonneville
    quad = quad
    Triumphs = {bonneville}
    Quads = {quad}
    a = a
    b = b
    Specs = {a, b}
    NULL = NULL
    Missing = Missing
    Scripts <- EngineEdits
    Bodies <- EngineBodies
    MaxWrites = 2
    MaxCrashes = 1
INVARIANTS RerunIsAccepted FirstSourceWins
PROPERTY TakesOnlyContradictions
