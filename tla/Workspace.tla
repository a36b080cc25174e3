----------------------------- MODULE Workspace -----------------------------
(***************************************************************************)
(* The views of a page that are dragged with the mouse, together: a panel  *)
(* or popover with its title and its resize thumb (PanelFrame), whose      *)
(* content is a stack of views (StackLayout) or a split view (SplitView),  *)
(* and a table view (TableColumns) that shows the objects of an array      *)
(* (ArrayTable).  They share the mouse: the view that handled the          *)
(* mouseDown, mouseResponder.current of mixins/event_manager.js, gets the  *)
(* mouseMoves and the mouseUp wherever the pointer is.                     *)
(*                                                                         *)
(* A page has some of these views, and some things happen to it: env.      *)
(***************************************************************************)
EXTENDS PanelFrame, SplitView, StackLayout, TableColumns, ArrayTable

CONSTANTS
    Pages,      \* the pages, sets of the names below
    Points      \* where the pointer can be: records of x and y

VARIABLES
    env,        \* one of Pages, for good
    held,       \* whether the mouse button is held
    responder,  \* mouseResponder.current, "none" or a view; "gone" for a view of
                \* a panel that was destroyed
    pointer,    \* where the pointer is while the button is held
    asked,      \* the anchor and the side a popover was asked for
    leftAt,     \* where the user has put a panel with a persistence key, {} at first
    grab        \* at the last mouseDown, how far what is dragged was from the pointer

mouseVars == <<env, held, responder, pointer, asked, leftAt, grab>>

vars == <<frameVars, splitVars, stackVars, columnVars, tableVars, mouseVars>>

\* The views and what they are: a panel that is centred, beside an anchor, or a
\* popover, with a thumb, a persistence key, or reused; its content.
PageViews == {"centered", "panel", "popover", "thumb", "keyed", "reused",
              "stack", "split", "table", "rows"}

\* What happens: the window is resized; the title is pressed and not moved; the
\* panel is closed while it is dragged; the application sets sizes while the
\* user drags; columns or row headers are resized, or the table is scrolled;
\* headers change meanwhile; row headers, the corner of the table or cells that
\* cannot be selected, whose presses come to the table view as well, are pressed.
Happenings == {"window", "click", "closeDragging", "sizes", "resize", "resizeRows", "scroll", "refresh", "rowHeader"}

ASSUME WorkspaceAssumption ==
    /\ Pages \subseteq SUBSET (PageViews \cup Happenings)
    /\ Points \subseteq [x : Nat, y : Nat]

HasPanel == env \cap {"centered", "panel", "popover"} # {}

\* The width of the split view: it fills the panel, or the page.
Total == IF HasPanel THEN style.width ELSE window.width

HasSplit == "split" \in env /\ (HasPanel => shown)

\* No synchronous cascade of layout changes is going on.
Quiet == calls = <<>>

NoFrame == UNCHANGED frameVars
NoSplit == UNCHANGED splitVars
NoStack == UNCHANGED stackVars
NoTable == UNCHANGED <<columnVars, tableVars>>

NoGrab == [x |-> 0, y |-> 0, moved |-> FALSE]
NoPoint == [x |-> 0, y |-> 0]

\* The innermost views with a layout manager are set up when they are created, in
\* some order.
Innermost == {v \in Stacks : Range(Children[v]) \cap Stacks = {}}

Init ==
    /\ env \in Pages
    /\ kind = IF HasPanel THEN CHOOSE k \in {"centered", "panel", "popover"} : k \in env
                          ELSE "panel"
    /\ keyed = ("keyed" \in env) /\ reused = ("reused" \in env)
    /\ window \in IF env \cap {"window", "popover"} # {} THEN Windows ELSE {CHOOSE w \in Windows : TRUE}
    /\ FrameInit
    /\ flex \in IF "split" \in env THEN {"first", "second"} ELSE {"first"}
    /\ SplitInit(Total)
    /\ tree \in IF "table" \in env THEN Trees ELSE {<<0>>}
    /\ ColumnsInit
    /\ columns = [t \in Tables |-> CHOOSE cols \in ColumnSets :
                                    HeaderProperty \notin Range(cols) /\ IsInjective(cols)]
    /\ value = [o \in Objects |-> [p \in Properties |-> CHOOSE v \in Values : TRUE]]
    /\ ArrayTableInit
    /\ box = [v \in Stacks \cup Stacked |->
                [top |-> 0, height |-> IF v \in Leaves THEN 30 ELSE 0, isVisible |-> TRUE]]
    /\ \E order \in SetToSeqs(Innermost) :
          calls = IF "stack" \in env THEN [i \in DOMAIN order |-> SetupCall(order[i])] ELSE <<>>
    /\ held = FALSE /\ responder = "none"
    /\ pointer = NoPoint
    /\ asked = {} /\ leftAt = {}
    /\ grab = NoGrab

-----------------------------------------------------------------------------
(* The panel *)

\* A split view in the panel is inserted with it.
InsertContent == IF "split" \in env THEN SplitInserted(PanelSize.width, ~reused) ELSE NoSplit

OpenPanel ==
    /\ HasPanel /\ Quiet /\ ~held
    /\ Popup
    /\ InsertContent
    /\ UNCHANGED mouseVars
    /\ NoStack /\ NoTable

\* The anchor is an element in the window.
OpenBeside(a, side) ==
    /\ HasPanel /\ Quiet /\ ~held
    /\ a.left + a.width <= window.width /\ a.top + a.height <= window.height
    /\ PopupBeside(a, side)
    /\ asked' = IF kind = "popover" THEN {[anchor |-> a, side |-> side]} ELSE {}
    /\ InsertContent
    /\ UNCHANGED <<env, held, responder, pointer, leftAt, grab>>
    /\ NoStack /\ NoTable

\* Nobody tells the mouse responder that a view of the panel is no more.
ClosePanel ==
    /\ Quiet
    /\ held => "closeDragging" \in env
    /\ Close
    /\ responder' = IF responder \in {"title", "thumb", "divider"} /\ ~reused
                    THEN "gone" ELSE responder
    /\ UNCHANGED <<env, held, pointer, asked, leftAt, grab>>
    /\ NoSplit /\ NoStack /\ NoTable

\* The page is loaded again.  (Not a page with more than a panel, whose other views
\* would be new as well.)
ReloadPage ==
    /\ Quiet /\ keyed /\ env \cap {"stack", "split", "table", "rows"} = {}
    /\ Reload
    /\ held' = FALSE /\ responder' = "none"
    /\ grab' = NoGrab /\ pointer' = NoPoint
    /\ UNCHANGED <<env, asked, leftAt>>
    /\ NoSplit /\ NoStack /\ NoTable

WindowResized(w) ==
    /\ Quiet
    /\ "window" \in env
    /\ ResizeWindow(w)
    /\ UNCHANGED mouseVars
    /\ NoSplit /\ NoStack /\ NoTable

-----------------------------------------------------------------------------
(* Layout changes made by the application *)

MaySize == Quiet /\ (held => "sizes" \in env)

ContentHeight(v, h) ==
    /\ "stack" \in env /\ MaySize
    /\ SetHeight(v, h)
    /\ UNCHANGED mouseVars
    /\ NoFrame /\ NoSplit /\ NoTable

ContentVisible(v) ==
    /\ "stack" \in env /\ MaySize
    /\ SetVisible(v, ~box[v].isVisible)
    /\ UNCHANGED mouseVars
    /\ NoFrame /\ NoSplit /\ NoTable

\* The cascade goes on, and reaches the panel when it sets the panel's height.
LayoutStep ==
    /\ SetupStep
    /\ AdjustHeight(IF "frame" \in Stacks THEN box'["frame"].height ELSE layout.height)
    /\ UNCHANGED <<kind, keyed, reused, window, shown, title, thumb, stored>>
    /\ UNCHANGED mouseVars
    /\ NoSplit /\ NoTable

PaneSize(size) ==
    /\ HasSplit /\ MaySize
    /\ SplitSetSize(Total, size)
    /\ UNCHANGED mouseVars
    /\ NoFrame /\ NoStack /\ NoTable

-----------------------------------------------------------------------------
(* The mouse *)

\* mouseDown at a point of a view; the view that handles it becomes the mouse
\* responder.  The statecharts handle it in idle only.
Press(handler, x, y) ==
    /\ Quiet /\ ~held
    /\ held' = TRUE
    /\ responder' = handler
    /\ pointer' = [x |-> x, y |-> y]
    /\ UNCHANGED <<env, asked, leftAt>>

\* What was grabbed, relative to the pointer.
Grab(x, y) == grab' = [x |-> x - pointer'.x, y |-> y - pointer'.y, moved |-> FALSE]

PanelAt == Offset(style, layout)

\* Some point of the title.
PressTitle ==
    /\ HasPanel /\ kind # "popover" /\ shown
    /\ LET x == PanelAt.left + 10
           y == PanelAt.top + 10
       IN  IF title.state = "idle"
           THEN Press("title", x, y) /\ TitleMouseDown(x, y)
           ELSE Press("none", x, y) /\ NoFrame
    /\ Grab(PanelAt.left, PanelAt.top)
    /\ NoSplit /\ NoStack /\ NoTable

\* The thumb is in the corner.
PressThumb ==
    /\ "thumb" \in env /\ shown
    /\ LET x == PanelAt.left + style.width
           y == PanelAt.top + style.height
       IN  IF thumb.state = "idle"
           THEN Press("thumb", x, y) /\ ThumbMouseDown(x, y)
           ELSE Press("none", x, y) /\ NoFrame
    /\ Grab(style.width, style.height)
    /\ NoSplit /\ NoStack /\ NoTable

PressDivider ==
    /\ HasSplit
    /\ LET x == DividerAt(Total) + (IF HasPanel THEN PanelAt.left ELSE 0)
       IN  IF divider.state = "idle"
           THEN Press("divider", x, 0) /\ DividerMouseDown(x)
           ELSE Press("none", x, 0) /\ NoSplit
    /\ Grab(DividerAt(Total), 0)
    /\ NoFrame /\ NoStack /\ NoTable

\* The handle is at the right end of the column header; how wide the columns before
\* it are, and where on the page the table begins, is left open.
PressHandle(c, x) ==
    /\ {"table", "resize"} \subseteq env /\ c \in Columns
    /\ x >= cornerWidth + headerWidth[c]
    /\ IF table.state = "idle"
       THEN Press("table", x, 0) /\ HandleMouseDown(c, x)
       ELSE Press("none", x, 0) /\ UNCHANGED columnVars
    /\ Grab(headerWidth[c], 0)
    /\ NoFrame /\ NoSplit /\ NoStack /\ UNCHANGED tableVars

PressRowHandle ==
    /\ {"table", "resizeRows"} \subseteq env
    /\ IF table.state = "idle"
       THEN Press("table", cornerWidth, 0) /\ RowHandleMouseDown(cornerWidth)
       ELSE Press("none", cornerWidth, 0) /\ UNCHANGED columnVars
    /\ Grab(rowHeaderWidth, 0)
    /\ NoFrame /\ NoSplit /\ NoStack /\ UNCHANGED tableVars

\* A column header handles the mouseDown; a row header, the corner and a cell that
\* cannot be selected ("row") do not, but the statechart has left idle.
PressHeader(type) ==
    /\ "table" \in env
    /\ type = "row" => "rowHeader" \in env
    /\ IF table.state = "idle"
       THEN Press(IF type = "column" THEN "table" ELSE "none", 0, 0) /\ HeaderMouseDown
       ELSE Press("none", 0, 0) /\ UNCHANGED columnVars
    /\ UNCHANGED grab
    /\ NoFrame /\ NoSplit /\ NoStack /\ UNCHANGED tableVars

PressElsewhere ==
    /\ Press("none", 0, 0)
    /\ UNCHANGED grab
    /\ NoFrame /\ NoSplit /\ NoStack /\ NoTable

InDOM(v) ==
    CASE v \in {"title", "thumb"} -> shown
      [] v = "divider" -> HasSplit
      [] v = "table" -> "table" \in env
      [] OTHER -> FALSE

\* Mutant of Receivers: the event goes to what is under the pointer.
ReceiversUnderPointer == {v \in {"title", "thumb", "divider", "table"} : InDOM(v)} \cup {"elsewhere"}

\* The views that a mouseMove or mouseUp may be sent to: the mouse responder, if
\* there is one, or the view under the pointer.
Receivers ==
    IF responder # "none" THEN {responder}
    ELSE {v \in {"title", "thumb", "divider", "table"} : InDOM(v)} \cup {"elsewhere"}

\* The view is in the document and in the state of its statechart that handles
\* mouseMove and mouseUp.
InDrag(v) ==
    /\ InDOM(v)
    /\ CASE v = "title" -> title.state = "moving"
         [] v = "thumb" -> thumb.state = "resizing"
         [] v = "divider" -> divider.state = "resizing"
         [] v = "table" -> table.state = "resizing"

\* mouseMove, if anybody handles it: nothing happens if the mouse responder is not
\* in the document.
MovePointer(p) ==
    /\ Quiet
    /\ held \/ \E v \in Receivers : InDrag(v)
    /\ pointer' = IF held THEN p ELSE pointer
    /\ \E v \in Receivers :
          /\ CASE v = "title" /\ InDrag(v) -> TitleMouseMove(p.x, p.y)
               [] v = "thumb" /\ InDrag(v) -> ThumbMouseMove(p.x, p.y)
               [] OTHER -> NoFrame
          /\ IF v = "divider" /\ InDrag(v) THEN DividerMouseMove(Total, p.x) ELSE NoSplit
          /\ IF v = "table" /\ InDrag(v) THEN TableMouseMove(p.x) ELSE UNCHANGED columnVars
    /\ grab' = [grab EXCEPT !.moved = held]
    /\ UNCHANGED <<env, held, responder, asked, leftAt, tableVars>>
    /\ NoStack

\* mouseUp, in a view or outside of the window.  A mouse responder that is not
\* in the document stays the mouse responder.
Release ==
    /\ Quiet /\ held
    /\ responder = "title" /\ ~grab.moved => "click" \in env
    /\ held' = FALSE
    /\ responder' = IF responder # "none" /\ ~InDOM(responder) THEN responder ELSE "none"
    /\ \E v \in Receivers :
          /\ CASE v = "title" /\ InDrag(v) -> TitleMouseUp /\ leftAt' = (IF keyed THEN {Offset(style, layout)} ELSE {})
               [] v = "thumb" /\ InDrag(v) -> ThumbMouseUp /\ UNCHANGED leftAt
               [] OTHER -> NoFrame /\ UNCHANGED leftAt
          /\ IF v = "divider" /\ InDrag(v) THEN DividerMouseUp ELSE NoSplit
          /\ IF v = "table" /\ table.state # "idle" THEN TableMouseUp ELSE UNCHANGED columnVars
    /\ grab' = NoGrab /\ pointer' = NoPoint
    /\ UNCHANGED <<env, asked, tableVars>>
    /\ NoStack

\* The clicks before it have left no mouse responder.
DoubleClick ==
    /\ Quiet /\ ~held /\ responder = "none"
    /\ \/ /\ HasSplit
          /\ ToggleCollapse(Total)
          /\ UNCHANGED columnVars
       \/ /\ {"table", "resize"} \subseteq env
          /\ \E c \in Columns, w \in AutoWidths : AutoWidth(c, w)
          /\ NoSplit
    /\ UNCHANGED mouseVars
    /\ NoFrame /\ NoStack /\ UNCHANGED tableVars

-----------------------------------------------------------------------------
(* The table *)

NoMouse == UNCHANGED mouseVars /\ NoFrame /\ NoSplit /\ NoStack

\* Headers change only while nobody uses the table, or at any time.
MayRefresh ==
    \/ "refresh" \in env
    \/ table.state = "idle" /\ scroll = 0 /\ ~scrolling.is

SetHeaders(t) ==
    /\ Quiet /\ "table" \in env
    /\ MayRefresh
    /\ Render(t)
    /\ NoMouse /\ UNCHANGED tableVars

Scroll(to) ==
    /\ Quiet /\ {"table", "scroll"} \subseteq env
    /\ DidScroll(to)
    /\ NoMouse /\ UNCHANGED tableVars

AnimationFrame ==
    /\ Quiet
    /\ UpdateHeaderPositions
    /\ NoMouse /\ UNCHANGED tableVars

\* How an application must use the tables: an object is in one row of one table, a
\* property in one column of it, which is not the row header, and the columns only
\* get more.
OnePlace ==
    /\ \A t \in Tables : /\ HeaderProperty \notin Range(columns'[t])
                         /\ Range(columns[t]) \subseteq Range(columns'[t])
                         /\ IsInjective(columns'[t]) /\ IsInjective(content'[t])
    /\ \A t, u \in Tables : t # u => Range(content'[t]) \cap Range(content'[u]) = {}

ChangeRows(t) ==
    /\ Quiet /\ "rows" \in env
    /\ \/ \E start \in 0..Rows, n \in 0..Rows, added \in {<<>>} \cup {<<o>> : o \in Objects} :
             ReplaceRows(t, start, n, added)
       \/ \E array \in Arrays : SetContent(t, array)
       \/ \E p \in Properties, desc \in BOOLEAN : SortContent(t, p, desc)
       \/ \E cols \in ColumnSets : SetColumns(t, cols)
    /\ OnePlace
    /\ NoMouse /\ UNCHANGED columnVars

ChangeObject(o, p, v) ==
    /\ Quiet /\ "rows" \in env
    /\ SetProperty(o, p, v)
    /\ NoMouse /\ UNCHANGED columnVars

Next ==
    \/ OpenPanel \/ ClosePanel \/ ReloadPage
    \/ \E a \in Anchors, side \in Sides : OpenBeside(a, side)
    \/ \E w \in Windows : WindowResized(w)
    \/ LayoutStep
    \/ \E v \in Leaves : (\E h \in {30, 50} : ContentHeight(v, h)) \/ ContentVisible(v)
    \/ \E size \in {100, 150} : PaneSize(size)
    \/ PressTitle \/ PressThumb \/ PressDivider \/ PressRowHandle \/ PressElsewhere
    \/ \E c \in Columns, p \in Points : PressHandle(c, p.x)
    \/ \E type \in {"row", "column"} : PressHeader(type)
    \/ \E p \in Points : MovePointer(p)
    \/ Release \/ DoubleClick
    \/ \E t \in Trees : SetHeaders(t)
    \/ \E to \in Scrolls : Scroll(to)
    \/ AnimationFrame
    \/ \E t \in Tables : ChangeRows(t)
    \/ \E o \in Objects, p \in Properties, v \in Values : ChangeObject(o, p, v)

Spec == Init /\ [][Next]_vars

-----------------------------------------------------------------------------
(* Properties *)

\* Type correctness.
TypeOK ==
    /\ env \in Pages /\ held \in BOOLEAN /\ pointer \in [x : Int, y : Int]
    /\ responder \in {"none", "gone", "title", "thumb", "divider", "table"}
    /\ window \in Windows /\ kind \in {"centered", "panel", "popover"}
    /\ {keyed, reused, shown, attached, scrolling.is} \subseteq BOOLEAN
    /\ title.state \in {"idle", "moving"}
    /\ {thumb.state, divider.state} \subseteq {"idle", "resizing"}
    /\ table.state \in {"idle", "clickInProgress", "resizing"}
    /\ Cardinality(stored) <= 1 /\ Cardinality(unCollapsed) <= 1
    /\ DOMAIN headerWidth = Columns /\ DOMAIN dataWidth = Columns
    /\ content \in [Tables -> Arrays]

\* A view is dragged, or a header clicked, only while the mouse button is held, and
\* then it is the mouse responder: two views never move at once, and nothing follows
\* a pointer that was let go.  (Two exceptions: a panel that is closed while it is
\* dragged and then used again, and a press beside the column headers, after which
\* the table is not the mouse responder.)  Variables have their types.
DraggedWhileHeld ==
    /\ TypeOK
    /\ \/ "closeDragging" \in env /\ reused
       \/ \A v \in {"title", "thumb", "divider", "table"} : InDrag(v) => held /\ responder = v
    /\ table.state # "idle" /\ "rowHeader" \notin env => held /\ responder = "table"

\* What the user drags stays under the pointer, as far away from it as it was when
\* it was pressed, unless it is stopped by a limit; so it is back when the
\* pointer is.  (Not if something else changes its size while it is dragged.)
GrabbedPointStays ==
    held /\ "stack" \notin env /\ "sizes" \notin env /\ "refresh" \notin env
         /\ "window" \notin env =>
      /\ InDrag("title") /\ responder = "title" =>
            LET at == Offset(style, layout)
            IN  /\ at.left - pointer.x = grab.x \/ at.left \in {5, title.limitX}
                /\ at.top - pointer.y = grab.y \/ at.top \in {5, title.limitY}
      /\ InDrag("thumb") /\ responder = "thumb" =>
            /\ style.width - pointer.x = grab.x \/ style.width = MinSize.width
            /\ style.height - pointer.y = grab.y \/ style.height = MinSize.height
      /\ InDrag("divider") /\ responder = "divider" =>
            DividerAt(Total) - pointer.x = grab.x \/ first = MinFirst \/ second = MinSecond
      /\ InDrag("table") /\ responder = "table" =>
            LET width == IF table.type = "column" THEN headerWidth[table.index] ELSE rowHeaderWidth
            IN  width - pointer.x = grab.x \/ width = MIN_COLUMN_WIDTH

Inside(s, l) ==
    LET at == Offset(s, l)
    IN  /\ at.left >= 5 /\ at.left + s.width <= window.width - 5
        /\ at.top >= 5 /\ at.top + s.height <= window.height - 5

\* A panel with a layoutPersistenceKey is where the user has put it last, and
\* that is inside the window, through closing and opening it, a new panel or the
\* same one, and loading the page again.  (Not if its title was pressed and not
\* moved, or its content was changed, which put it back; nor if it was closed while
\* it was dragged and then used again.  It can be outside of the window if the
\* window or the panel was smaller when it was moved.)
ReopensWhereLeft ==
    keyed /\ shown /\ title.state = "idle" /\ leftAt # {}
          /\ "click" \notin env /\ "stack" \notin env /\ ~("closeDragging" \in env /\ reused) =>
      /\ leftAt = {Offset(style, layout)}
      /\ env \cap {"window", "thumb"} = {} => Inside(style, layout)

\* There is room for the popover on that side of the anchor.
Fits(a, side) ==
    CASE side = "below" -> a.top + a.height + PanelSize.height <= window.height - 10
      [] side = "above" -> a.top - PanelSize.height >= 0
      [] side = "right" -> a.left + a.width + PanelSize.width <= window.width - 10
      [] side = "left" -> a.left - PanelSize.width >= 0

\* The popover is next to the anchor on that side, with its arrow between them.
Beside(a, side) ==
    CASE side = "below" -> style.top = a.top + a.height + 15
      [] side = "above" -> style.top + style.height + 15 = a.top
      [] side = "right" -> style.left = a.left + a.width + 15
      [] side = "left" -> style.left + style.width + 15 = a.left

\* A popover is beside its anchor on the side asked for if there is room, else on
\* the other side if there is room there.  (Not if it is used again: it remembers
\* that it did not fit the last time.  On the left it is never found not to fit.
\* Nor if its size, or the window's, changes afterwards.)
PopoverBesideAnchor ==
    kind = "popover" /\ HasPanel /\ shown /\ ~reused
            /\ env \cap {"window", "thumb", "stack"} = {} =>
        \A r \in asked :
            /\ Fits(r.anchor, r.side) => Beside(r.anchor, r.side)
            /\ r.side # "left" /\ ~Fits(r.anchor, r.side) /\ Fits(r.anchor, Opposite(r.side))
                  => Beside(r.anchor, Opposite(r.side))

\* The views of a stack follow each other without gap or overlap and the stack
\* ends where they do, at every level, whenever a height or a visibility was
\* changed at the innermost; and setting up a view never sets up a view that is
\* being set up.
StackIsTight ==
    /\ Len(calls) <= Cardinality(Stacks)
    /\ Quiet /\ "stack" \in env =>
         \A v \in Stacks :
            LET a == Affected(v)
                end(c) == box[c].top + Padding[c] + box[c].height
            IN  a # <<>> =>
                /\ box[a[1]].top = Margins[v].top
                /\ \A i \in 2..Len(a) : box[a[i]].top = end(a[i - 1]) + Margins[v].spacing
                /\ Last(a) \notin Fluid =>
                     LET bottom == end(Last(a)) + Margins[v].bottom
                     IN  IF v \in DOMAIN MaxHeights
                         THEN box[v].height = Min({bottom, MaxHeights[v]})
                         ELSE box[v].height = bottom

\* The panes and the divider fill the split view, and no pane is smaller than its
\* minimum while there is room for both, whatever dragged, collapsed or set
\* their sizes.  (Not if the size of the view changes: it does not notice.)
PanesFillView ==
    HasSplit /\ (IF HasPanel THEN "thumb" \notin env ELSE "window" \notin env) =>
        /\ first + Thickness + second = Total
        /\ second >= MinSecond
        /\ MinFirst + Thickness + MinSecond <= Total => first >= MinFirst

\* The cells at a row and a column of the header table.
CellsAt(t, level, column) ==
    {c \in HeaderCells(t) : /\ c.level <= level /\ level < c.level + c.rowspan
                            /\ c.column <= column /\ column < c.column + c.colspan}

\* The headers belong to the data below and beside them: each place in the
\* header table is taken by one cell, the columns of both tables have the same
\* widths, the data begins where the row headers end, and when no animation
\* frame is due the headers are scrolled as far as the data.  (Not if the headers
\* change while a column is resized or the table is scrolled.)
HeadersMatchData ==
    "table" \in env =>
        /\ \A level \in 1..MaxDepth(tree), c \in Columns : Cardinality(CellsAt(tree, level, c)) = 1
        /\ "refresh" \notin env =>
              /\ headerWidth = dataWidth
              /\ cornerWidth = rowHeaderWidth + 1
              /\ ~scrolling.is => headerAt = scroll

\* Every cell shows the property of its column of the object of its row, and every
\* row header the header property, whatever rows are inserted, removed, sorted or
\* replaced and whatever properties change.  (Not if an object is shown twice:
\* it has one observer for a property.  Nor if columns are dropped, whose
\* observers stay, or show the header property.)
CellsShowObjects ==
    "rows" \in env =>
        \A t \in Tables :
            /\ data[t] = [i \in DOMAIN content[t] |-> [j \in DOMAIN columns[t] |->
                              value[content[t][i]][columns[t][j]]]]
            /\ labels[t] = [i \in DOMAIN content[t] |-> value[content[t][i]][HeaderProperty]]
=============================================================================
