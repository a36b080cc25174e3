SPECIFICATION FairSpec
CONSTANTS
    p = p
    q = q
    a = a
    i1 = i1
    i2 = i2
    j = j
    Panels = {p, q}
    Fields = {a, i1, i2, j}
    NoView = NoView
    Page = Page
    Home <- MCHome
    FormOrder <- MCFormOrder
    KeyPanels = {p, q}
    CloseByCancel = {q}
    CloseOutside = {p, q}
    Modal = {p, q}
    DestroyOnClose = {}
    DefaultFocus <- MCDefaultFocusP
    Environments = {{}}
    MaxTicks = 1
PROPERTY
    FocusFollowsResponder
