SPECIFICATION Spec
CONSTANTS
    Key = {k1, k2}
    Sequence <- ThreeSequences
    Operation = {put, delete}
    Null = Null
    MaxRows = 4
INVARIANTS
    LatestPerKey
CHECK_DEADLOCK FALSE
