CONSTANTS
    Elem = {a, b, c, d}
    None = None
    Key <- MCKey
    BucketSize = 2
SYMMETRY Symmetry
SPECIFICATION Spec
INVARIANTS TypeOK WellFormed
PROPERTY IsKeyedQueue
