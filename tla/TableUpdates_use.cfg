SPECIFICATION FairSpec
CONSTANTS
    Tables <- DisjointTables
    Values = {1, 2}
    BatchSize = 1
    MaxPush = 3
    MaxMarks = 2
    MaxDirty = 3
    Environments = {{"remove"}, {"mark"}, {"impatient", "remove"}}
INVARIANTS
    NoCellForgotten
PROPERTIES
    AlwaysDisplayedAgain
