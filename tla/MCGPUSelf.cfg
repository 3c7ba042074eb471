SPECIFICATION Spec
CONSTANTS
    a = a
    b = b
    v = v
    w = w
    Objects = {a, b, c}
    Visitors = {}
    Others <- NoOthers
    Places <- MCPlaces
    Gap = 0
    MaxQueue = 1
    Far = 9
INVARIANTS
    SelfPairsCovered
