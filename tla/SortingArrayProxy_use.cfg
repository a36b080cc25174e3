SPECIFICATION Spec
CONSTANTS
    Items = {a, b, c}
    Keys = {1, 2}
    Environments = {{"missingKeys"}, {"setKey"}, {"setSource"}}
    MaxAdd = 2
SYMMETRY ItemSymmetry
INVARIANTS
    SortedCopy
PROPERTY
    ImplementsSortedView
