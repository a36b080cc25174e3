SPECIFICATION Spec
CONSTANTS
    Props <- MCProps
    Values <- MCValues
    Rules = {"a", "b"}
    Outside <- MCOutside
    Classes = {{}, {"check", "password"}}
    Rank <- CheckFirst
    Deps <- MCDeps
    Coupled <- MCCoupled
    Accepts <- MCAccepts
    FirstRule = "a"
    Environments = {{}, {"early"}, {"association"}, {"direct"}}
INVARIANTS
    ValidityIsFresh
    IsValidCorrect
