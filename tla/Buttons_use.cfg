SPECIFICATION FairSpec
CONSTANTS
    Buttons = {b1, b2}
    Nowhere = Nowhere
    MaxHeld = 1
    MaxTimers = 1
    Environments = {{"disable"}, {"simulate", "disable"}, {"simulate", "touch"}, {"simulate", "remove", "destroy"}, {"touch", "remove", "destroy"}}
INVARIANTS
    PressesAccountedFor
PROPERTY
    PressEnds
