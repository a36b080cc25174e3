SPECIFICATION FairSpec
CONSTANTS
    p = p
    q = q
    a = a
    i1 = i1
    i2 = i2
    j = j
    Panels = {p, q}
    Fields = {a, i1, i2, j}
    NoView = NoView
    Page = Page
    Home <- MCHome
    FormOrder <- MCFormOrder
    KeyPanels = {p, q}
    CloseByCancel = {q}
    CloseOutside = {p}
    Modal = {p, q}
    DestroyOnClose = {q}
    DefaultFocus <- MCDefaultFocusP
    Environments = {{}, {"anyClose", "tab", "refocus"}, {"anyClose", "hurry", "tab", "refocus"}}
    MaxTicks = 2
INVARIANTS
    CounterAccountsForShown
    StackBounded
    FocusedOnStack
    LaterPanelsOnTop
PROPERTIES
    RestoresResponder
    DefaultInputGetsFocus
