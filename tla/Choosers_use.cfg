SPECIFICATION ChooserSpec
CONSTANTS
    a = a
    b = b
    c = c
    d = d
    e = e
    f = f
    Items = {a, b, c, d, e, f}
    Disabled = {f}
    Top = Top
    MenuItems <- NestedItems
    None = None
    Other = Other
    Environments = {{}, {"margin", "back"}, {"items", "margin"}, {"multi"}, {"multi", "items"}, {"tabs"}, {"tabs", "again"}}
    Up = Up
    Down = Down
    WindowHeight = 92
    MaxStray = 1
    MultiItems = {1, 2, 3, 4}
    ItemValues <- MultiValues
    NoItem = NoItem
    TabValues = {"x", "y", "z"}
    NoTab = "none"
    NoTabs = NoTabs
INVARIANTS
    OpenMenusAreAPath
    DeepestSelectableChosen
    ArrowsTellTheTruth
    ShownIsChosen
PROPERTY
    ScrollingEnds
