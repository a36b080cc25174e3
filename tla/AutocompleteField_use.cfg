SPECIFICATION FieldFairSpec
CONSTANTS
    Queries = {q1, q2, q3}
    Empty = Empty
    None = None
    MaxKeys = 5
    FieldEnvironments = {{"eachKeyUp", "refuse"}, {"clear", "set", "refuse", "destroy"}, {"clear", "control", "set", "refuse", "destroy"}}
CHECK_DEADLOCK FALSE
INVARIANTS
    AnswersMatchText
PROPERTY
    Settles
