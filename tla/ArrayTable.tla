---------------------------- MODULE ArrayTable ----------------------------
(***************************************************************************)
(* controllers/array_table_controller.js: tables whose rows are the        *)
(* objects of an array and whose columns are properties of those objects.  *)
(* Every object gets an observer for each property shown, in a slot of the *)
(* object named after the property, so an object has one observer for a    *)
(* property however many tables and cells show it.  The observer knows the *)
(* row and the column it writes to by number.                              *)
(*                                                                         *)
(* Ember runs observers synchronously: an action is a change with all that *)
(* it sets off in the controllers.  The dirty cells and how they reach the *)
(* screen are in TableUpdates.                                             *)
(***************************************************************************)
EXTENDS Integers, Sequences, FiniteSets, SequencesExt

CONSTANTS
    Tables,     \* the controllers
    Objects,    \* the objects shown in rows
    Properties, \* their properties
    Values,     \* values of properties
    Rows,       \* most rows of a table
    HeaderProperty,     \* headerProperty of all tables
    ColumnSets          \* the values of columns: sequences of properties

Missing == -1       \* undefined, which Ember.compare puts before numbers

ASSUME ArrayTableAssumption ==
    /\ Rows \in Nat
    /\ Values \subseteq Nat /\ Values # {}
    /\ HeaderProperty \in Properties
    /\ ColumnSets \subseteq Seq(Properties)
    /\ \E cols \in ColumnSets : HeaderProperty \notin Range(cols) /\ IsInjective(cols)

VARIABLES
    content,    \* the array of each table
    columns,    \* the columns of each table
    value,      \* the properties of each object
    observer,   \* the observer in each slot: {} or a singleton
    data,       \* _data of each table: rows of cell values
    labels      \* the row headers of each table

tableVars == <<content, columns, value, observer, data, labels>>

\* The contents a table can have.
Arrays == UNION {[1..n -> Objects] : n \in 0..Rows}

-----------------------------------------------------------------------------
\* The observers that the function headers puts into slots: one that refreshes
\* the headers, unless there was no label.  (An observer is passed no value,
\* so this is what comparing the value with the original one comes to.)
HeaderObserver(t, o) == [table |-> t, cell |-> <<>>, refresh |-> value'[o][HeaderProperty] # Missing]

CellObserver(t, i, j) == [table |-> t, cell |-> <<i, j>>, refresh |-> FALSE]

\* The cells of object o and property p in table t, in the order in which the
\* function data goes through them.
CellsOf(t, o, p) ==
    {c \in (DOMAIN content'[t]) \X (DOMAIN columns'[t]) :
        content'[t][c[1]] = o /\ columns'[t][c[2]] = p}

LastCell(S) == CHOOSE c \in S : \A d \in S : d[1] < c[1] \/ (d[1] = c[1] /\ d[2] <= c[2])

\* Mutant of Observe: an object that has observers keeps them.
ObserveOnce(t, obs) ==
    [o \in Objects |-> [p \in Properties |->
        IF obs[o][p] # {} THEN obs[o][p]
        ELSE IF CellsOf(t, o, p) # {}
        THEN LET c == LastCell(CellsOf(t, o, p)) IN {CellObserver(t, c[1], c[2])}
        ELSE IF p = HeaderProperty /\ o \in Range(content'[t]) THEN {HeaderObserver(t, o)}
        ELSE obs[o][p]]]

\* The observers after headers and then data were computed for table t, each
\* replacing what is in the slot: _setPropertyObserver
Observe(t, obs) ==
    [o \in Objects |-> [p \in Properties |->
        IF CellsOf(t, o, p) # {}
        THEN LET c == LastCell(CellsOf(t, o, p)) IN {CellObserver(t, c[1], c[2])}
        ELSE IF p = HeaderProperty /\ o \in Range(content'[t]) THEN {HeaderObserver(t, o)}
        ELSE obs[o][p]]]

\* headers change: _headersDidChange of DataTableController computes headers
\* and data, empties the table and pushes all the data.
Recompute(t, obs) ==
    /\ observer' = Observe(t, obs)
    /\ labels' = [labels EXCEPT ![t] = [i \in DOMAIN content'[t] |->
                                            value'[content'[t][i]][HeaderProperty]]]
    /\ data' = [data EXCEPT ![t] = [i \in DOMAIN content'[t] |-> [j \in DOMAIN columns'[t] |->
                                        value'[content'[t][i]][columns'[t][j]]]]]

\* _removePropertyObservers for the objects of S, whose slots are emptied
\* whoever filled them
Unobserve(S, obs) == [o \in Objects |-> IF o \in S THEN [p \in Properties |-> {}] ELSE obs[o]]

\* content.replace(start, n, added): _contentArrayWillChange, and the headers,
\* which depend on content.[]
ReplaceRows(t, start, n, added) ==
    LET c == content[t]
        new == SubSeq(c, 1, start) \o added \o SubSeq(c, start + n + 1, Len(c))
    IN  /\ start + n <= Len(c) /\ Len(new) <= Rows
        /\ n + Len(added) > 0
        /\ content' = [content EXCEPT ![t] = new]
        /\ UNCHANGED <<columns, value>>
        /\ Recompute(t, Unobserve(Range(SubSeq(c, start + 1, start + n)), observer))

\* set('content'): _removeContentObserver before, the headers after
SetContent(t, array) ==
    /\ content' = [content EXCEPT ![t] = array]
    /\ UNCHANGED <<columns, value>>
    /\ Recompute(t, Unobserve(Range(content[t]), observer))

\* sortContent: a sorted copy of the content is set.  The sort of the browser
\* need not be stable.
SortContent(t, p, desc) ==
    /\ p \in Range(columns[t])
    /\ \E sorted \in [DOMAIN content[t] -> Range(content[t])] :
          /\ \A o \in Objects : Cardinality({i \in DOMAIN sorted : sorted[i] = o})
                                = Cardinality({i \in DOMAIN sorted : content[t][i] = o})
          /\ \A i, j \in DOMAIN sorted :
                i < j => IF desc THEN value[sorted[i]][p] >= value[sorted[j]][p]
                                 ELSE value[sorted[i]][p] <= value[sorted[j]][p]
          /\ SetContent(t, sorted)

\* set('columns'): no observer is removed.
SetColumns(t, cols) ==
    /\ cols # columns[t]
    /\ columns' = [columns EXCEPT ![t] = cols]
    /\ UNCHANGED <<content, value>>
    /\ Recompute(t, observer)

-----------------------------------------------------------------------------
\* pushDataBatch with one cell.  A row that does not exist is ignored; a column
\* that does not exist is an error, after which nothing has changed either.
PushCell(t, i, j, v) ==
    data' = IF i \in DOMAIN data[t] /\ j \in DOMAIN data[t][i]
            THEN [data EXCEPT ![t][i][j] = v] ELSE data

\* A property of an object changes, and the observer in its slot is called.
SetProperty(o, p, v) ==
    /\ value[o][p] # v
    /\ value' = [value EXCEPT ![o][p] = v]
    /\ UNCHANGED <<content, columns>>
    /\ IF observer[o][p] = {}
       THEN UNCHANGED <<observer, data, labels>>
       ELSE LET ob == CHOOSE ob \in observer[o][p] : TRUE
            IN  IF ob.cell # <<>>
                THEN PushCell(ob.table, ob.cell[1], ob.cell[2], v) /\ UNCHANGED <<observer, labels>>
                ELSE IF ob.refresh
                THEN Recompute(ob.table, observer)      \* refreshHeaders
                ELSE UNCHANGED <<observer, data, labels>>

\* The controllers have empty arrays at first.
ArrayTableInit ==
    /\ content = [t \in Tables |-> <<>>]
    /\ observer = [o \in Objects |-> [p \in Properties |-> {}]]
    /\ data = [t \in Tables |-> <<>>]
    /\ labels = [t \in Tables |-> <<>>]
=============================================================================
