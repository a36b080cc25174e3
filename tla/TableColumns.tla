--------------------------- MODULE TableColumns ---------------------------
(***************************************************************************)
(* The headers of a table view (views/table_view.js): the statechart with  *)
(* which columns and row headers are resized, the widths of the columns in *)
(* the header table and in the data table, which are two tables, and the   *)
(* scrolling, after which an animation frame moves the headers.  A change  *)
(* of the headers renders the whole view again, with new elements; the     *)
(* statechart and the noted scroll positions live on.                      *)
(*                                                                         *)
(* A header is a leaf or a group of leaves, that is, there are at most two *)
(* levels, although _processHeader takes any; the tree of column headers   *)
(* is given as the number of children of each header.  The cells, and      *)
(* editing them, are in TableEditing and TableUpdates.                     *)
(***************************************************************************)
EXTENDS Integers, Sequences, FiniteSets, FiniteSetsExt, SequencesExt

CONSTANTS
    Trees,      \* trees of column headers: sequences of numbers, 0 for a leaf
    Scrolls,    \* the positions the table can be scrolled to
    AutoWidths  \* the widths that contents can have

ASSUME ColumnsAssumption ==
    /\ Trees \subseteq Seq(Nat) /\ <<>> \notin Trees
    /\ 0 \in Scrolls /\ Scrolls \subseteq Nat
    /\ AutoWidths \subseteq Nat

VARIABLES
    tree,           \* the column headers
    table,          \* the statechart: state, type, index, dragStartX, startX, offset
    attached,       \* whether the header cell being resized is still the one shown
    headerWidth,    \* the widths of the columns of the header table
    dataWidth,      \* the widths of the columns of the data table
    rowHeaderWidth, \* the width of the column of row headers
    cornerWidth,    \* of the corner, where the data and the column headers begin
    scroll,         \* scrollTop of the data
    headerAt,       \* how far the headers are moved
    scrolling       \* isScrolling, lastScrollTop, lastSetScrollTop

columnVars == <<tree, table, attached, headerWidth, dataWidth, rowHeaderWidth, cornerWidth,
                scroll, headerAt, scrolling>>

MIN_COLUMN_WIDTH == 30
DefaultColumnWidth == 88

-----------------------------------------------------------------------------
(* The tree of headers *)

\* _getLeafs: how many columns the first n headers have.
LeafsBefore(t, n) ==
    LET leafs[i \in 0..Len(t)] == IF i = 0 THEN 0 ELSE leafs[i - 1] + Max({1, t[i]})
    IN  leafs[n]

Leafs(t) == LeafsBefore(t, Len(t))

Columns == 1..Leafs(tree)

MaxDepth(t) == IF \E i \in DOMAIN t : t[i] > 0 THEN 2 ELSE 1

\* columnHeaderRows and _processHeader: the cells of the header table, each
\* with its row, its first column, its rowspan and its colspan.
HeaderCells(t) ==
    UNION {{[level |-> 1, column |-> LeafsBefore(t, i - 1) + 1,
             rowspan |-> IF t[i] > 0 THEN 1 ELSE MaxDepth(t), colspan |-> Max({1, t[i]})]}
           \cup {[level |-> 2, column |-> LeafsBefore(t, i - 1) + j, rowspan |-> 1, colspan |-> 1] :
                    j \in 1..t[i]} : i \in DOMAIN t}

-----------------------------------------------------------------------------
(* Rendering *)

\* render and _renderHeader of the table view, _renderTable of the data view.
RenderedWidths(t) == [c \in 1..Leafs(t) |-> DefaultColumnWidth]

\* The view is rendered with the headers t; new elements replace the old ones,
\* and the new data is scrolled to its top.
Render(t) ==
    /\ tree' = t
    /\ headerWidth' = RenderedWidths(t)
    /\ dataWidth' = RenderedWidths(t)
    /\ rowHeaderWidth' = DefaultColumnWidth
    /\ cornerWidth' = DefaultColumnWidth + 1
    /\ attached' = FALSE
    /\ scroll' = 0 /\ headerAt' = 0
    /\ UNCHANGED <<table, scrolling>>

-----------------------------------------------------------------------------
(* Resizing *)

FreshTable == [state |-> "idle", type |-> "column", index |-> 1,
               dragStartX |-> 0, startX |-> 0, offset |-> 0]

\* mouseDown of idle on the resize handle of column c, through clickInProgress
\* to resizing, whose enterState finds the column.  (An edit of a cell is given
\* up, see TableEditing.)
HandleMouseDown(c, x) ==
    /\ c \in Columns
    /\ table' = [state |-> "resizing", type |-> "column", index |-> c, dragStartX |-> x,
                 startX |-> headerWidth[c], offset |-> cornerWidth]
    /\ attached' = TRUE
    /\ UNCHANGED <<tree, headerWidth, dataWidth, rowHeaderWidth, cornerWidth,
                   scroll, headerAt, scrolling>>

\* ... on the handle of the row headers
RowHandleMouseDown(x) ==
    /\ table' = [state |-> "resizing", type |-> "row", index |-> 1, dragStartX |-> x,
                 startX |-> rowHeaderWidth, offset |-> cornerWidth]
    /\ attached' = TRUE
    /\ UNCHANGED <<tree, headerWidth, dataWidth, rowHeaderWidth, cornerWidth,
                   scroll, headerAt, scrolling>>

\* ... on a header
HeaderMouseDown ==
    /\ table' = [table EXCEPT !.state = "clickInProgress"]
    /\ UNCHANGED <<tree, attached, headerWidth, dataWidth, rowHeaderWidth, cornerWidth,
                   scroll, headerAt, scrolling>>

CellWidth(x) == Max({MIN_COLUMN_WIDTH, table.startX + (x - table.dragStartX)})

\* mouseMove of resizing: the column of the header table, if that is still
\* there, and the one with its index in the data table.
ResizeColumn(x) ==
    /\ headerWidth' = IF attached THEN [headerWidth EXCEPT ![table.index] = CellWidth(x)]
                                  ELSE headerWidth
    /\ dataWidth' = IF table.index \in Columns
                    THEN [dataWidth EXCEPT ![table.index] = CellWidth(x)] ELSE dataWidth
    /\ UNCHANGED <<rowHeaderWidth, cornerWidth>>

\* ... or of the row headers, with all that begins to the right of them
ResizeRowHeader(x) ==
    /\ rowHeaderWidth' = IF attached THEN CellWidth(x) ELSE rowHeaderWidth
    /\ cornerWidth' = table.offset + CellWidth(x) - table.startX
    /\ UNCHANGED <<headerWidth, dataWidth>>

TableMouseMove(x) ==
    /\ IF table.type = "column" THEN ResizeColumn(x) ELSE ResizeRowHeader(x)
    /\ UNCHANGED <<tree, table, attached, scroll, headerAt, scrolling>>

\* mouseUp of clickInProgress, which reports the click to the delegate, and of
\* resizing, which reports the widths.  What was noted is not read again.
ClickMouseUp == table.state = "clickInProgress" /\ table' = FreshTable
ResizeMouseUp == table.state = "resizing" /\ table' = FreshTable

TableMouseUp ==
    /\ ClickMouseUp \/ ResizeMouseUp
    /\ attached' = FALSE
    /\ UNCHANGED <<tree, headerWidth, dataWidth, rowHeaderWidth, cornerWidth,
                   scroll, headerAt, scrolling>>

\* doubleClick of idle, with useAutoWidth: setColumnWidth for the widest of the
\* contents, or the minimum
AutoWidth(c, width) ==
    /\ c \in Columns
    /\ table.state = "idle"
    /\ LET w == Max({MIN_COLUMN_WIDTH, width + 40}) + 3
       IN  headerWidth' = [headerWidth EXCEPT ![c] = w] /\ dataWidth' = [dataWidth EXCEPT ![c] = w]
    /\ UNCHANGED <<tree, table, attached, rowHeaderWidth, cornerWidth, scroll, headerAt, scrolling>>

-----------------------------------------------------------------------------
(* Scrolling *)

\* Mutant of DidScroll: the position is noted only when a frame is requested.
DidScrollOnce(to) ==
    /\ to # scroll
    /\ scroll' = to
    /\ scrolling' = IF scrolling.is THEN scrolling ELSE [scrolling EXCEPT !.is = TRUE, !.last = to]
    /\ UNCHANGED <<tree, table, attached, headerWidth, dataWidth, rowHeaderWidth, cornerWidth,
                   headerAt>>

\* The user scrolls; didScroll requests an animation frame if there is none.
DidScroll(to) ==
    /\ to # scroll
    /\ scroll' = to
    /\ scrolling' = [scrolling EXCEPT !.is = TRUE, !.last = to]
    /\ UNCHANGED <<tree, table, attached, headerWidth, dataWidth, rowHeaderWidth, cornerWidth,
                   headerAt>>

\* The animation frame: _updateHeaderPositions
UpdateHeaderPositions ==
    /\ scrolling.is
    /\ headerAt' = IF scrolling.last # scrolling.lastSet THEN scrolling.last ELSE headerAt
    /\ scrolling' = [scrolling EXCEPT !.is = FALSE, !.lastSet = scrolling.last]
    /\ UNCHANGED <<tree, table, attached, headerWidth, dataWidth, rowHeaderWidth, cornerWidth,
                   scroll>>

ColumnsInit ==
    /\ table = FreshTable
    /\ attached = FALSE
    /\ headerWidth = RenderedWidths(tree) /\ dataWidth = RenderedWidths(tree)
    /\ rowHeaderWidth = DefaultColumnWidth /\ cornerWidth = DefaultColumnWidth + 1
    /\ scroll = 0 /\ headerAt = 0
    /\ scrolling = [is |-> FALSE, last |-> 0, lastSet |-> -1]
=============================================================================
