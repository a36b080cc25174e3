SPECIFICATION Spec
CONSTANTS
    Windows <- MCWindows
    PanelSize <- MCPanelSize
    Anchors <- MCAnchors
    MinFirst = 40
    MinSecond = 60
    Children <- MCChildren
    Margins <- MCMargins
    Padding <- MCPadding
    MaxHeights <- MCMaxHeights
    Fluid = {"list"}
    Trees <- MCTrees
    Scrolls = {0, 100, 200}
    AutoWidths = {10}
    Tables = {t1, t2}
    Objects = {o1, o2}
    Properties = {"h", "p", "q"}
    Values = {1, 2}
    Rows = 2
    HeaderProperty = "h"
    ColumnSets <- MCColumnSets
    Pages <- MCPages
    Points <- MCPoints
INVARIANTS
    DraggedWhileHeld
    GrabbedPointStays
    ReopensWhereLeft
    PopoverBesideAnchor
    StackIsTight
    PanesFillView
    HeadersMatchData
    CellsShowObjects
