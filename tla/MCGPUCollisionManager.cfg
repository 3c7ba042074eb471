SPECIFICATION Spec
CONSTANTS
    a = a
    b = b
    v = v
    w = w
    Objects = {a, b}
    Visitors = {v, w}
    Others <- MCOthers
    Places <- MCPlaces
    Gap = 1
    MaxQueue = 1
    Far = 9
SYMMETRY Swaps
INVARIANTS
    TypeOK
    BuffersFit
    FreshResults
    NoKernelOnMapped
    CollideComplete
    PruningIsSound
