SPECIFICATION Spec
CONSTANTS
    Clients = {c1, c2}
    b1 = b1
    b2 = b2
    Bikes = {b1, b2}
    f1 = f1
    f2 = f2
    f3 = f3
    Files = {f1, f2, f3}
    hosted = hosted
    Hosted = {hosted}
    NoImage = NoImage
    NoRow = NoRow
    SeedImage <- OnePicture
    PostImages = {NoImage, hosted}
    MaxRequests = 4
SYMMETRY Threads
INVARIANTS TypeOK BrokenOnlyByFailure StrandedOnlyByFailure
PROPERTIES PutKeepsImage
