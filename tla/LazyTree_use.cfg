SPECIFICATION Spec
CONSTANTS
    a = a
    b = b
    c = c
    d = d
    e = e
    Items = {a, b, c, d, e}
    Root = Root
    None = None
    Expandable = {a, b}
    MaxShift = 1
    MaxViews = 5
    Setups <- MCSetups
INVARIANTS
    EachRowOneView
    
    NothingLost
PROPERTY
    DropWhereShown
