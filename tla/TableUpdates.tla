---------------------------- MODULE TableUpdates ----------------------------
(***************************************************************************)
(* How cell data reach the screen: TableController collects pushed batches *)
(* of cells (controllers/table_controller.js), TableDataView draws the     *)
(* dirty ones in chunks, one chunk per run loop, and marks cells that are  *)
(* being updated (views/table_data_view.js, _cellsDidChange and below).    *)
(*                                                                         *)
(* Chunks left for later hold references: to the data and to the td        *)
(* elements of the time they were scheduled.  Of data of an earlier table  *)
(* nothing can be seen any more, so what is left to do to them is dropped  *)
(* when the headers change; elements of an earlier rendering are told      *)
(* apart by the field dom.  A batch of dirty cells that was superseded     *)
(* (its updateCounter is not the current one) does nothing when its turn   *)
(* comes, and is dropped too.                                              *)
(***************************************************************************)
EXTENDS Integers, Sequences, FiniteSets, SequencesExt

CONSTANTS
    Tables,     \* the headers: records of row paths and column paths
    Values,     \* values of cells
    BatchSize,  \* updateBatchSize, 500 in the code
    MaxPush,    \* most cells in one pushed batch
    MaxMarks,   \* most unfinished batches of marks
    MaxDirty,   \* most dirty cells collected while the view is not shown
    Environments \* what else may happen, see env

None == 0

ASSUME TableAssumption ==
    /\ Tables # {}
    /\ \A t \in Tables :
          /\ t.rows \in Seq(Range(t.rows)) /\ t.rows # <<>> /\ IsInjective(t.rows)
          /\ t.cols \in Seq(Range(t.cols)) /\ t.cols # <<>> /\ IsInjective(t.cols)
    /\ None \notin Values
    /\ BatchSize \in Nat \ {0} /\ MaxPush \in Nat \ {0} /\ MaxMarks \in Nat /\ MaxDirty \in Nat
    /\ Environments \subseteq SUBSET {"impatient", "mark", "remove"}

VARIABLES
    table,      \* the controller's _headers
    data,       \* its _data: for each cell null, a cell or a placeholder
    dirty,      \* its dirtyCells
    inDOM,      \* the data view is in the document
    rerender,   \* a rerender is scheduled for the end of this run loop
    drawn,      \* the table the td elements were made for
    shown,      \* what the td of each cell of the table shows
    update,     \* the current batch of dirty cells: what is left to draw
    marks,      \* batches of marks: what is left to mark
    error,      \* an exception was thrown
    env         \* what else may happen, one of Environments for good: "impatient"
                \* (cells change before the last batch is drawn), "mark" (cells
                \* are marked), "remove" (the view leaves the document)

vars == <<table, data, dirty, inDOM, rerender, drawn, shown, update, marks, error, env>>

Cells(t) == Range(t.rows) \X Range(t.cols)

Cell(v, u) == [is |-> "cell", value |-> v, updating |-> u]
Null == [is |-> "null", value |-> None, updating |-> FALSE]
Placeholder(u) == [is |-> "pending", value |-> None, updating |-> u]

\* What a td shows for an entry of the data, "..." for one without a value.
Display(d) ==
    [value |-> d.value, updating |-> d.is = "cell" /\ d.updating]

NoUpdate == [refs |-> <<>>, dom |-> FALSE]

Chunk(refs) == IF Len(refs) <= BatchSize THEN refs ELSE SubSeq(refs, 1, BatchSize)
Rest(refs) == SubSeq(refs, BatchSize + 1, Len(refs))

\* The position in the list of td elements, x * columnLength + y.
Position(t, c) ==
    (CHOOSE i \in DOMAIN t.rows : t.rows[i] = c[1]) * Len(t.cols)
        + (CHOOSE j \in DOMAIN t.cols : t.cols[j] = c[2]) - Len(t.cols)

\* There is an element at the position of c, of this table or the one before.
HasElement(c) == Position(table, c) <= Len(drawn.rows) * Len(drawn.cols)

Init ==
    /\ table \in Tables
    /\ data = [c \in Cells(table) |-> Null]
    /\ dirty = <<>>
    /\ inDOM = TRUE
    /\ rerender = FALSE
    /\ drawn = table
    /\ shown = [c \in Cells(table) |-> Display(Null)]
    /\ update = NoUpdate
    /\ marks = <<>>
    /\ error = FALSE
    /\ env \in Environments

-----------------------------------------------------------------------------
(* Drawing *)

\* The data view's td elements after those of the cells in refs are redrawn
\* from d.  Before a scheduled rerender the elements are the old table's.
Redrawn(refs, dom, d) ==
    [c \in DOMAIN shown |->
        IF dom /\ c \in Range(refs) THEN Display(d[c]) ELSE shown[c]]

\* Mutant of CellsDidChange: what is left of the first chunk is forgotten.
CellsDidChangeOnce(refs, d) ==
    IF inDOM
    THEN /\ dirty' = <<>>
         /\ shown' = Redrawn(Chunk(refs), ~rerender, d)
         /\ update' = NoUpdate
    ELSE /\ dirty' = refs
         /\ update' = NoUpdate
         /\ UNCHANGED shown

\* _cellsDidChange, after dirtyCells was set to refs, with data d: a new
\* updateCounter, and the first chunk is drawn at once.  manipulateCells takes
\* the references out of dirtyCells, but not if the view is not in the
\* document.
CellsDidChange(refs, d) ==
    IF inDOM
    THEN /\ dirty' = <<>>
         /\ shown' = Redrawn(Chunk(refs), ~rerender, d)
         /\ update' = [refs |-> Rest(refs), dom |-> ~rerender]
    ELSE /\ dirty' = refs
         /\ update' = NoUpdate
         /\ UNCHANGED shown

\* _batchUpdate of the current batch of dirty cells, in a later run loop.
NextUpdate ==
    /\ update.refs # <<>>
    /\ ~rerender
    /\ shown' = Redrawn(Chunk(update.refs), update.dom, data)
    /\ update' = [update EXCEPT !.refs = Rest(@)]
    /\ UNCHANGED <<table, data, dirty, inDOM, rerender, drawn, marks, error, env>>

-----------------------------------------------------------------------------
(* The controller *)

\* Setting the headers: _headersDidChange, and the rerender scheduled by
\* displayProperties of the table view.
SetHeaders(t) ==
    /\ table' = t
    /\ data' = [c \in Cells(t) |-> Null]
    /\ dirty' = <<>>
    /\ update' = NoUpdate
    /\ marks' = <<>>
    /\ rerender' = inDOM
    /\ shown' = [c \in Cells(t) |-> Display(Null)]
    /\ UNCHANGED <<inDOM, drawn, error, env>>

\* Mutant of IsForCurrentTable: any batch is accepted.
IsForAnyTable(refs) == TRUE

\* _dataBatchIsForCurrentTable: looks at the first and the last row path.
IsForCurrentTable(refs) ==
    /\ refs[1][1] \in Range(table.rows)
    /\ refs[Len(refs)][1] \in Range(table.rows)

\* The cell that replaces entry d: it takes over the pending attributes.
Loaded(d, v) == Cell(v, d.is = "pending" /\ d.updating)

\* pushDataBatch: each cell of the batch is put in its place and into
\* dirtyCells.  A cell that is not in the table makes the loop throw, after
\* the cells before it were put in place.
PushDataBatch(refs, v) ==
    LET known == {i \in DOMAIN refs : \A j \in 1..i : refs[j] \in Cells(table)}
        new == [c \in Cells(table) |->
                  IF \E i \in known : refs[i] = c THEN Loaded(data[c], v) ELSE data[c]]
    IN  /\ "impatient" \in env \/ update.refs = <<>>
        /\ inDOM \/ Len(dirty) + Len(refs) <= MaxDirty
        /\ IsForCurrentTable(refs)
        /\ data' = new
        /\ IF known = DOMAIN refs
           THEN /\ CellsDidChange(dirty \o refs, new)
                /\ UNCHANGED error
           ELSE /\ error' = TRUE
                /\ UNCHANGED <<dirty, shown, update>>
        /\ UNCHANGED <<table, inDOM, rerender, drawn, marks, env>>

\* DataTableController: the headers are set and all the data pushed in one
\* batch.
SetHeadersAndData(t, v) ==
    LET refs == SetToSeq(Cells(t))
    IN  /\ table' = t
        /\ data' = [c \in Cells(t) |-> Cell(v, FALSE)]
        /\ rerender' = inDOM
        /\ shown' = [c \in Cells(t) |-> Display(Null)]
        /\ dirty' = IF inDOM THEN <<>> ELSE refs
        /\ update' = IF inDOM THEN [refs |-> Rest(refs), dom |-> FALSE] ELSE NoUpdate
        /\ marks' = <<>>
        /\ UNCHANGED <<inDOM, drawn, error, env>>

-----------------------------------------------------------------------------
(* The data view *)

\* _validateAndSet of an edited cell whose new value the delegate accepts: the
\* delegate changes the cell, the view adds it to dirtyCells.
Edit(c, v) ==
    LET new == [data EXCEPT ![c].value = v]
    IN  /\ inDOM /\ ~rerender
        /\ "impatient" \in env \/ update.refs = <<>>
        /\ data[c].is = "cell"
        /\ data[c].value # v
        /\ data' = new
        /\ CellsDidChange(Append(dirty, c), new)
        /\ UNCHANGED <<table, inDOM, rerender, drawn, marks, error, env>>

\* A chunk of marks: a cell not loaded yet gets a placeholder, and the
\* callback marks the cell or the placeholder if there is an element for it.
Marked(refs) ==
    [c \in DOMAIN data |->
        IF c \notin Range(refs) THEN data[c]
        ELSE IF data[c].is = "null" THEN Placeholder(HasElement(c))
        ELSE [data[c] EXCEPT !.updating = @ \/ HasElement(c)]]

\* The class of an element shows the mark; a placeholder's is not shown.
ShownMarked(refs, dom) ==
    [c \in DOMAIN shown |->
        IF dom /\ c \in Range(refs) /\ data[c].is = "cell"
        THEN [shown[c] EXCEPT !.updating = TRUE] ELSE shown[c]]

\* cellsMarkedForUpdate is set: _updatingCellsDidChange.  Marks have no
\* updateCounter, so nothing supersedes them.  The application is taken to wait
\* until a new table is rendered: render cannot draw a placeholder.
MarkForUpdate(refs) ==
    /\ "mark" \in env
    /\ inDOM /\ ~rerender
    /\ Len(marks) < MaxMarks
    /\ data' = Marked(Chunk(refs))
    /\ shown' = ShownMarked(Chunk(refs), TRUE)
    /\ marks' = IF Rest(refs) = <<>> THEN marks
                ELSE Append(marks, [refs |-> Rest(refs), dom |-> TRUE])
    /\ UNCHANGED <<table, dirty, inDOM, rerender, drawn, update, error, env>>

\* _batchUpdate of the first of the batches of marks, in a later run loop.
NextMarks ==
    /\ marks # <<>>
    /\ ~rerender
    /\ LET b == Head(marks)
       IN  /\ data' = Marked(Chunk(b.refs))
           /\ shown' = ShownMarked(Chunk(b.refs), b.dom)
           /\ marks' = IF Rest(b.refs) = <<>> THEN Tail(marks)
                       ELSE Append(Tail(marks), [b EXCEPT !.refs = Rest(@)])
    /\ UNCHANGED <<table, dirty, inDOM, rerender, drawn, update, error, env>>

\* Batches scheduled so far hold the elements of an earlier rendering.
Detached(b) == [b EXCEPT !.dom = FALSE]

\* render, _renderTable: new elements, drawn from the data.  A placeholder has
\* no content() and makes it throw.
Render ==
    /\ inDOM' = TRUE
    /\ rerender' = FALSE
    /\ drawn' = table
    /\ shown' = [c \in Cells(table) |-> Display(data[c])]
    /\ update' = Detached(update)
    /\ marks' = [i \in DOMAIN marks |-> Detached(marks[i])]
    /\ error' = (\E c \in Cells(table) : data[c].is = "pending")
    /\ UNCHANGED <<table, data, dirty, env>>

Rerender == rerender /\ Render

\* The table is removed from the document, and inserted again.
RemoveView ==
    /\ "remove" \in env
    /\ inDOM /\ ~rerender
    /\ inDOM' = FALSE
    /\ update' = Detached(update)
    /\ marks' = [i \in DOMAIN marks |-> Detached(marks[i])]
    /\ UNCHANGED <<table, data, dirty, rerender, drawn, shown, error, env>>

InsertView == ~inDOM /\ Render

-----------------------------------------------------------------------------

\* The batches a server may send: cells of one table, not always this one.
Batches(n) == UNION {[1..k -> Cells(t)] : k \in 1..n, t \in Tables}

Next ==
    /\ ~error
    /\ \/ NextUpdate
       \/ NextMarks
       \/ Rerender
       \/ InsertView
       \/ RemoveView
       \/ \E t \in Tables : SetHeaders(t)
       \/ \E t \in Tables, v \in Values : SetHeadersAndData(t, v)
       \/ \E refs \in Batches(MaxPush), v \in Values : PushDataBatch(refs, v)
       \/ \E c \in Cells(table), v \in Values : Edit(c, v)
       \/ \E refs \in {r \in Batches(MaxPush) : Range(r) \subseteq Cells(table)} :
             MarkForUpdate(refs)

Spec == Init /\ [][Next]_vars

\* Ember runs what was scheduled: the end of the run loop, and the next one.
FairSpec == Spec /\ WF_vars(NextUpdate) /\ WF_vars(NextMarks) /\ WF_vars(Rerender)

-----------------------------------------------------------------------------
(* Properties *)

\* Type correctness.
TypeOK ==
    /\ table \in Tables /\ drawn \in Tables
    /\ data \in [Cells(table) -> [is : {"null", "pending", "cell"},
                                  value : Values \cup {None}, updating : BOOLEAN]]
    /\ shown \in [Cells(table) -> [value : Values \cup {None}, updating : BOOLEAN]]
    /\ dirty \in Seq(Cells(table))
    /\ update \in [refs : Seq(Cells(table)), dom : BOOLEAN]
    /\ marks \in Seq([refs : Seq(Cells(table)), dom : BOOLEAN])
    /\ inDOM \in BOOLEAN /\ rerender \in BOOLEAN /\ error \in BOOLEAN

\* The td elements are the ones of this table and show its data.
Displayed == \A c \in Cells(table) : shown[c] = Display(data[c])

\* No batch is superseded before it is drawn, and no marks are left for elements
\* that a rerender replaces: what the next properties depend on.
Patient == "impatient" \notin env /\ ~({"mark", "remove"} \subseteq env)

\* An element that does not show its cell's data is one of those that the
\* current batch has yet to draw: no changed cell is forgotten, unless an
\* exception was thrown before the cells of a batch were made dirty.
StaleIsScheduled ==
    Patient /\ inDOM /\ ~rerender /\ ~error =>
        \A c \in Cells(table) :
            shown[c] # Display(data[c]) => update.dom /\ c \in Range(update.refs)

\* No exception is thrown: batches of another table are refused before they
\* do harm, and what is rendered can be rendered.  This takes tables with no row
\* in common, as a batch is judged by its first and last row only.  Variables
\* have their types.
NoError ==
    /\ TypeOK
    /\ (/\ ~({"mark", "remove"} \subseteq env)
        /\ \A t, u \in Tables : t # u => Range(t.rows) \cap Range(u.rows) = {})
       => ~error

\* Together: a late or superseded batch neither breaks the table nor makes the
\* view forget a cell.
NoCellForgotten == NoError /\ StaleIsScheduled

\* Whatever is pushed gets displayed: again and again the view is up to date.
AlwaysDisplayedAgain == []<>(Patient /\ inDOM => Displayed)
=============================================================================
