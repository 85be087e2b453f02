SPECIFICATION Spec
CONSTANTS
    demo = demo
    street = street
    euro = euro
    Names = {demo, street, euro}
    ninja = ninja
    bonneville = bonneville
    quad = quad
    Triumphs = {}
    Quads = {}
    a = a
    b = b
    Specs = {a, b}
    NULL = NULL
    Missing = Missing
    Scripts <- WeightEdits
    Bodies <- AdminBodies
    MaxWrites = 1
    MaxCrashes = 0
INVARIANTS NeverStoppedByWeights
