---------------------------- MODULE MCChoosers ----------------------------
(* Instances of Choosers for TLC. *)
EXTENDS Choosers

CONSTANTS a, b, c, d, e, f

\* a can be selected; b opens c and d, of which d opens e; f is disabled.
NestedItems == [m \in {Top, b, d} |->
    CASE m = Top -> <<a, b, f>> [] m = b -> <<c, d>> [] m = d -> <<e>>]

\* Three items stand for a value each, one for two of them.
MultiValues == [i \in 1..4 |-> IF i = 4 THEN {1, 3} ELSE {i}]
=============================================================================
