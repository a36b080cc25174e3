SPECIFICATION ListSpec
CONSTANTS
    ListItems = {"f", "g", "x", "y"}
    Root = "root"
    Folders = {"f", "g"}
    FirstContent <- Tree
    Fixed = {"x"}
    None = None
    MaxLevels = 1
    Setups <- MCSetups
INVARIANTS
    ViewsAndItemsFormATree
    DragsThePressed
PROPERTIES
    DragsMoveTheItem
