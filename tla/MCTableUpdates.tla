--------------------------- MODULE MCTableUpdates ---------------------------
(* An instance of TableUpdates for TLC. *)
EXTENDS TableUpdates

\* Two tables without a common row.
DisjointTables ==
    {[rows |-> <<1, 2>>, cols |-> <<1>>], [rows |-> <<3>>, cols |-> <<1, 2>>]}
=============================================================================
