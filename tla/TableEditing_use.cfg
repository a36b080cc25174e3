SPECIFICATION Spec
CONSTANTS
    Rows = 2
    Columns = 3
    Kind <- SixKinds
    Values = {x, y, bad}
    Bad = {bad}
    x = x
    y = y
    bad = bad
    Clipboard <- SomeTexts
    Options = {x}
    Empty = Empty
    None = None
    Environments = {{}, {"hurry"}, {"render", "optionKeys"}, {"rangePaste", "optionKeys"}}
INVARIANTS
    EditorAndSelectionMatchState
    OnlyValidEdits
PROPERTY PasteLandsWhereMade
