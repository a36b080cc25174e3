-------------------------- MODULE WorkspaceProofs --------------------------
(***************************************************************************)
(* Invariance proofs for Workspace, for every page, window, panel, anchor, *)
(* split view and table.                                                   *)
(***************************************************************************)
EXTENDS Workspace, FiniteSetTheorems, TLAPS

-----------------------------------------------------------------------------
(* Maximum and minimum *)

\* The larger of two numbers.
LEMMA MaxOfTwo ==
    ASSUME NEW a \in Int, NEW b \in Int
    PROVE  /\ Max({a, b}) \in Int
           /\ Max({a, b}) = IF a >= b THEN a ELSE b
  BY DEF Max

\* The smaller of two numbers.
LEMMA MinOfTwo ==
    ASSUME NEW a \in Int, NEW b \in Int
    PROVE  /\ Min({a, b}) \in Int
           /\ Min({a, b}) = IF a <= b THEN a ELSE b
  BY DEF Min

-----------------------------------------------------------------------------
(* The types of the panel's frame *)

PanelLayout == [left : Int, top : Int, centered : BOOLEAN, width : Int, height : Int,
                movedX : BOOLEAN, movedY : BOOLEAN]

PanelStyle == [left : Int, top : Int, centered : BOOLEAN, width : Int, height : Int]

TitleView == [state : {"idle", "moving"}, pageX : Int, pageY : Int, panelX : Int, panelY : Int,
              limitX : Int, limitY : Int, newX : Int, newY : Int]

ThumbView == [state : {"idle", "resizing"}, pageX : Int, pageY : Int, startW : Int, startH : Int]

Position == [left : Int, top : Int]

FrameTypes ==
    /\ kind \in {"centered", "panel", "popover"}
    /\ keyed \in BOOLEAN /\ reused \in BOOLEAN /\ shown \in BOOLEAN
    /\ window \in Windows
    /\ layout \in PanelLayout /\ style \in PanelStyle
    /\ title \in TitleView /\ thumb \in ThumbView
    /\ stored = {} \/ \E p \in Position : stored = {p}

\* A new panel, title and thumb have their types.
LEMMA FreshTypes ==
    FreshLayout \in PanelLayout /\ FreshTitle \in TitleView /\ FreshThumb \in ThumbView
  <1>1. FreshTitle \in TitleView /\ FreshThumb \in ThumbView
    BY DEF FreshTitle, TitleView, FreshThumb, ThumbView, Undefined
  <1>2. ASSUME NEW a \in BOOLEAN, NEW b \in BOOLEAN
        PROVE  [left |-> Undefined, top |-> Undefined, centered |-> a,
                width |-> PanelSize.width, height |-> PanelSize.height,
                movedX |-> b, movedY |-> b] \in PanelLayout
    BY FrameAssumption DEF PanelLayout, Undefined
  <1>3. (kind = "centered") \in BOOLEAN /\ FALSE \in BOOLEAN
    BY Zenon
  <1>4. FreshLayout \in PanelLayout
    BY <1>2, <1>3, Zenon DEF FreshLayout
  <1> QED
    BY <1>1, <1>4

\* The style for a layout has its type, and the numbers of the layout.
LEMMA TranslateType ==
    ASSUME NEW l \in PanelLayout
    PROVE  /\ TranslateLayout(l) \in PanelStyle
           /\ TranslateLayout(l).left = l.left /\ TranslateLayout(l).top = l.top
           /\ TranslateLayout(l).width = l.width /\ TranslateLayout(l).height = l.height
           /\ TranslateLayout(l).centered = l.centered
  BY DEF TranslateLayout, PanelLayout, PanelStyle

\* An element is somewhere on the page.
LEMMA OffsetType ==
    ASSUME FrameTypes PROVE Offset(style, layout) \in Position
  BY FrameAssumption DEF Offset, Position, FrameTypes, PanelLayout, PanelStyle, Undefined

\* The window's and the anchors' sizes.
LEMMA SizeTypes ==
    /\ FrameTypes => window.width \in Int /\ window.height \in Int
    /\ \A a \in Anchors : a.left \in Int /\ a.top \in Int /\ a.width \in Int /\ a.height \in Int
  BY FrameAssumption DEF FrameTypes

\* A mouseDown on the title or the thumb keeps the types.
LEMMA MouseDownTypes ==
    ASSUME FrameTypes, NEW x \in Int, NEW y \in Int, TitleMouseDown(x, y) \/ ThumbMouseDown(x, y)
    PROVE  FrameTypes'
  <1>1. UNCHANGED <<kind, keyed, reused, window, layout, style, shown, stored>>
    BY DEF TitleMouseDown, ThumbMouseDown
  <1>2. title' \in TitleView
    <2> DEFINE offset == Offset(style, layout)
               limX == window.width - style.width - 5
               limY == window.height - style.height - 5
    <2>1. offset.left \in Int /\ offset.top \in Int /\ limX \in Int /\ limY \in Int
      BY OffsetType, SizeTypes DEF FrameTypes, Position, PanelStyle
    <2>2. \/ title' = title
          \/ title' = [title EXCEPT !.state = "moving", !.pageX = x, !.pageY = y,
                        !.panelX = offset.left, !.panelY = offset.top, !.limitX = limX, !.limitY = limY]
      BY DEF TitleMouseDown, ThumbMouseDown
    <2> HIDE DEF offset, limX, limY
    <2>3. CASE title' = title
      BY <2>3 DEF FrameTypes
    <2>4. CASE title' # title
      <3>1. title \in TitleView
        BY DEF FrameTypes
      <3> QED
        BY <2>1, <2>2, <2>4, <3>1 DEF TitleView
    <2> QED
      BY <2>3, <2>4
  <1>3. thumb' \in ThumbView
    BY DEF TitleMouseDown, ThumbMouseDown, FrameTypes, PanelStyle, ThumbView
  <1> QED
    BY <1>1, <1>2, <1>3 DEF FrameTypes

\* A layout beside an anchor is a layout of the same size.
LEMMA LayoutRelativeType ==
    ASSUME FrameTypes, NEW l \in PanelLayout, NEW a \in Anchors, NEW side \in Sides, NEW middle \in BOOLEAN
    PROVE  /\ LayoutRelativeTo(l, a, side, middle) \in PanelLayout
           /\ LayoutRelativeTo(l, a, side, middle).width = l.width
           /\ LayoutRelativeTo(l, a, side, middle).height = l.height
  <1> DEFINE placed == BesideAnchor(l, a, side, middle)
             tooFar == placed.left + l.width > window.width - 10
             tooHigh == side = "above" /\ placed.top < 0
             tooLow == /\ side = "below"
                       /\ placed.top + l.height > window.height - 10
                       /\ a.top - l.height >= 0
             X == placed.movedX \/ tooFar
             Y == placed.movedY \/ tooLow \/ tooHigh
             left == IF tooFar THEN window.width - l.width - 10 ELSE placed.left
             top == IF ~tooLow /\ ~tooHigh /\ placed.top < 0 THEN 10 ELSE placed.top
  <1>1. placed \in PanelLayout /\ placed.width = l.width /\ placed.height = l.height
    <2> DEFINE atX == IF side \in Vertical
                      THEN a.left + (IF middle THEN a.width \div 2 - l.width \div 2 ELSE 0)
                      ELSE a.left + (IF side = "right" THEN a.width ELSE -l.width)
               atY == IF side \in Vertical
                      THEN a.top + (IF side = "below" THEN a.height ELSE -l.height)
                      ELSE a.top + (IF middle THEN a.height \div 2 - l.height \div 2 ELSE 0)
    <2>0. /\ a.left \in Int /\ a.top \in Int /\ a.width \in Int /\ a.height \in Int
          /\ l.width \in Int /\ l.height \in Int
      BY SizeTypes DEF PanelLayout
    <2>1. atX \in Int /\ atY \in Int
      BY <2>0
    <2>2. placed = [l EXCEPT !.left = atX, !.top = atY]
      BY DEF BesideAnchor
    <2> HIDE DEF atX, atY
    <2> QED
      BY <2>1, <2>2 DEF PanelLayout
  <1> HIDE DEF placed
  <1>2. left \in Int /\ top \in Int
    BY <1>1, SizeTypes DEF PanelLayout
  <1>3. X \in BOOLEAN /\ Y \in BOOLEAN
    BY Zenon
  <1>4. LayoutRelativeTo(l, a, side, middle) = [placed EXCEPT !.left = left, !.movedX = X, !.movedY = Y, !.top = top]
    BY DEF LayoutRelativeTo, placed
  <1> HIDE DEF X, Y, left, top
  <1> QED
    BY <1>1, <1>2, <1>3, <1>4 DEF PanelLayout

\* A layout from localStorage is a layout of the same size, at the stored position.
LEMMA RestoredType ==
    ASSUME FrameTypes, NEW l \in PanelLayout
    PROVE  /\ Restored(l) \in PanelLayout
           /\ Restored(l).width = l.width /\ Restored(l).height = l.height
           /\ keyed = FALSE \/ stored = {} => Restored(l) = l
           /\ keyed /\ stored # {} =>
                \A p \in stored : Restored(l).left = p.left /\ Restored(l).top = p.top
                                  /\ Restored(l).centered = FALSE
  <1>1. CASE keyed /\ stored # {}
    <2>1. PICK p \in Position : stored = {p}
      BY <1>1 DEF FrameTypes
    <2>2. (CHOOSE q \in stored : TRUE) = p
      BY <2>1
    <2>3. Restored(l) = [l EXCEPT !.left = p.left, !.top = p.top, !.centered = FALSE]
      BY <1>1, <2>2 DEF Restored
    <2>4. p.left \in Int /\ p.top \in Int
      BY DEF Position
    <2> DEFINE R(b) == [l EXCEPT !.left = p.left, !.top = p.top, !.centered = b]
    <2>5. ASSUME NEW b \in BOOLEAN
          PROVE  /\ R(b) \in PanelLayout
                 /\ R(b).left = p.left /\ R(b).top = p.top /\ R(b).centered = b
                 /\ R(b).width = l.width /\ R(b).height = l.height
      BY <2>4 DEF PanelLayout
    <2>6. Restored(l) = R(FALSE)
      BY <2>3
    <2> HIDE DEF R
    <2> QED
      BY <1>1, <2>1, <2>5, <2>6, Zenon
  <1>2. CASE ~(keyed /\ stored # {})
    BY <1>2 DEF Restored
  <1> QED
    BY <1>1, <1>2

\* The opposite of a side is a side.
LEMMA OppositeType == \A side \in Sides : Opposite(side) \in Sides
  BY DEF Sides, Opposite

\* The popover's layout is a layout of the same size.
LEMMA PopoverType ==
    ASSUME FrameTypes, NEW a \in Anchors, NEW side \in Sides
    PROVE  /\ PopoverLayout(layout, a, side) \in PanelLayout
           /\ PopoverLayout(layout, a, side).width = layout.width
           /\ PopoverLayout(layout, a, side).height = layout.height
  <1> DEFINE one == LayoutRelativeTo(layout, a, side, TRUE)
             final == FinalSide(one, side)
             two == LayoutRelativeTo(one, a, final, TRUE)
             placed == IF one.movedX \/ one.movedY THEN two ELSE one
  <1>1. layout \in PanelLayout /\ TRUE \in BOOLEAN
    BY Zenon DEF FrameTypes
  <1>2. one \in PanelLayout /\ one.width = layout.width /\ one.height = layout.height
    BY <1>1, LayoutRelativeType, Zenon
  <1>3. final \in Sides
    BY OppositeType DEF FinalSide
  <1> HIDE DEF one, final
  <1>4. two \in PanelLayout /\ two.width = layout.width /\ two.height = layout.height
    BY <1>1, <1>2, <1>3, LayoutRelativeType, Zenon
  <1> HIDE DEF two
  <1>5. placed \in PanelLayout /\ placed.width = layout.width /\ placed.height = layout.height
    BY <1>2, <1>4
  <1> HIDE DEF placed
  <1>6. PopoverLayout(layout, a, side) =
          CASE final = "above" -> [placed EXCEPT !.top = @ - 15]
            [] final = "below" -> [placed EXCEPT !.top = @ + 15]
            [] final = "left" -> [placed EXCEPT !.left = @ - 15]
            [] final = "right" -> [placed EXCEPT !.left = @ + 15]
    BY Zenon DEF PopoverLayout, placed, two, final, one
  <1> QED
    BY <1>3, <1>5, <1>6 DEF PanelLayout, Sides

\* popup keeps the types ...
LEMMA PopupTypes ==
    ASSUME FrameTypes, NEW l \in PanelLayout, PopupWith(l)
    PROVE  FrameTypes'
  <1>1. UNCHANGED <<kind, keyed, reused, window, title, thumb, stored>>
    BY DEF PopupWith
  <1>2. layout' \in PanelLayout
    BY RestoredType DEF PopupWith
  <1>3. style' \in PanelStyle
    BY <1>2, TranslateType DEF PopupWith
  <1>4. shown' \in BOOLEAN
    BY Zenon DEF PopupWith
  <1> QED
    BY <1>1, <1>2, <1>3, <1>4 DEF FrameTypes

\* ... in the middle of the window or beside an anchor.
LEMMA OpenTypes ==
    ASSUME FrameTypes,
           Popup \/ \E a \in Anchors, side \in Sides : PopupBeside(a, side)
    PROVE  FrameTypes'
  <1>1. layout \in PanelLayout /\ FALSE \in BOOLEAN
    BY Zenon DEF FrameTypes
  <1>2. CASE Popup
    BY <1>1, <1>2, PopupTypes DEF Popup
  <1>3. ASSUME NEW a \in Anchors, NEW side \in Sides, PopupBeside(a, side)
        PROVE  FrameTypes'
    <2>1. LayoutRelativeTo(layout, a, side, FALSE) \in PanelLayout
      BY <1>1, LayoutRelativeType, Zenon
    <2>2. PopoverLayout(layout, a, side) \in PanelLayout
      BY PopoverType
    <2> QED
      BY <1>3, <2>1, <2>2, PopupTypes DEF PopupBeside
  <1> QED
    BY <1>2, <1>3

\* Closing the panel and loading the page keep the types.
LEMMA CloseTypes == FrameTypes /\ (Close \/ Reload) => FrameTypes'
  <1> SUFFICES ASSUME FrameTypes, Close \/ Reload PROVE FrameTypes'
    OBVIOUS
  <1>1. UNCHANGED <<kind, keyed, reused, window, style, stored>>
    BY DEF Close, Reload
  <1>2. layout' \in PanelLayout /\ title' \in TitleView /\ thumb' \in ThumbView
    BY FreshTypes DEF Close, Reload, FrameTypes
  <1>3. shown' \in BOOLEAN
    BY Zenon DEF Close, Reload
  <1> QED
    BY <1>1, <1>2, <1>3 DEF FrameTypes

\* What the title does with a new position.
LEMMA ConstrainType ==
    ASSUME NEW new \in Int, NEW limit \in Int
    PROVE  /\ Constrain(new, limit) \in Int
           /\ Constrain(new, limit) >= 5
           /\ Constrain(new, limit) = new \/ Constrain(new, limit) \in {5, limit}
           /\ limit >= 5 => Constrain(new, limit) <= limit
  BY MaxOfTwo, MinOfTwo DEF Constrain

\* A mouseMove of the title.
LEMMA TitleMoveTypes ==
    ASSUME FrameTypes, NEW x \in Int, NEW y \in Int, TitleMouseMove(x, y)
    PROVE  FrameTypes'
  <1> DEFINE newX == Constrain(title.panelX + (x - title.pageX), title.limitX)
             newY == Constrain(title.panelY + (y - title.pageY), title.limitY)
  <1>1. UNCHANGED <<kind, keyed, reused, window, layout, shown, thumb, stored>>
    BY DEF TitleMouseMove
  <1>2. newX \in Int /\ newY \in Int
    <2>1. /\ title.panelX + (x - title.pageX) \in Int /\ title.limitX \in Int
          /\ title.panelY + (y - title.pageY) \in Int /\ title.limitY \in Int
      BY DEF FrameTypes, TitleView
    <2> QED
      BY <2>1, ConstrainType
  <1>3. /\ title' = [title EXCEPT !.newX = newX, !.newY = newY]
        /\ style' = [style EXCEPT !.left = newX, !.top = newY, !.centered = FALSE]
    BY DEF TitleMouseMove
  <1> HIDE DEF newX, newY
  <1>4. title' \in TitleView
    BY <1>2, <1>3 DEF TitleView, FrameTypes
  <1>5. ASSUME NEW b \in BOOLEAN PROVE [style EXCEPT !.left = newX, !.top = newY, !.centered = b] \in PanelStyle
    BY <1>2 DEF PanelStyle, FrameTypes
  <1>6. FALSE \in BOOLEAN
    BY Zenon
  <1>7. style' \in PanelStyle
    BY <1>3, <1>5, <1>6, Zenon
  <1> QED
    BY <1>1, <1>4, <1>7 DEF FrameTypes

\* A mouseMove of the thumb.
LEMMA ThumbMoveTypes ==
    ASSUME FrameTypes, NEW x \in Int, NEW y \in Int, ThumbMouseMove(x, y)
    PROVE  FrameTypes'
  <1> DEFINE w == Max({MinSize.width, thumb.startW + (x - thumb.pageX)})
             h == Max({MinSize.height, thumb.startH + (y - thumb.pageY)})
  <1>1. UNCHANGED <<kind, keyed, reused, window, layout, shown, title, thumb, stored>>
    BY DEF ThumbMouseMove
  <1>2. w \in Int /\ h \in Int
    BY MaxOfTwo DEF FrameTypes, ThumbView, MinSize
  <1>3. style' = [style EXCEPT !.width = w, !.height = h]
    BY DEF ThumbMouseMove
  <1> HIDE DEF w, h
  <1>4. style' \in PanelStyle
    BY <1>2, <1>3 DEF PanelStyle, FrameTypes
  <1> QED
    BY <1>1, <1>4 DEF FrameTypes

\* A mouseUp of the title or the thumb keeps the types.
LEMMA MouseUpTypes == FrameTypes /\ (TitleMouseUp \/ ThumbMouseUp) => FrameTypes'
  <1> SUFFICES ASSUME FrameTypes, TitleMouseUp \/ ThumbMouseUp PROVE FrameTypes'
    OBVIOUS
  <1>1. UNCHANGED <<kind, keyed, reused, window, layout, style, shown>>
    BY DEF TitleMouseUp, ThumbMouseUp
  <1>2. thumb' \in ThumbView
    BY FreshTypes DEF TitleMouseUp, ThumbMouseUp, FrameTypes
  <1>3. title' \in TitleView
    BY FreshTypes DEF TitleMouseUp, ThumbMouseUp, FrameTypes, TitleView
  <1>4. stored' = {} \/ \E p \in Position : stored' = {p}
    <2>1. SavedPosition \in Position
      BY DEF SavedPosition, Position, FrameTypes, TitleView
    <2> QED
      BY <2>1 DEF TitleMouseUp, ThumbMouseUp, FrameTypes
  <1> QED
    BY <1>1, <1>2, <1>3, <1>4 DEF FrameTypes

\* A new height of the layout keeps the types.
LEMMA HeightTypes ==
    ASSUME FrameTypes, NEW h \in Int, AdjustHeight(h),
           UNCHANGED <<kind, keyed, reused, window, shown, title, thumb, stored>>
    PROVE  FrameTypes'
  <1>1. layout' \in PanelLayout
    BY DEF AdjustHeight, FrameTypes, PanelLayout
  <1>2. style' \in PanelStyle
    BY <1>1, TranslateType DEF AdjustHeight, FrameTypes
  <1> QED
    BY <1>1, <1>2 DEF FrameTypes

-----------------------------------------------------------------------------
(* The split view *)

DividerView == [state : {"idle", "resizing"}, page : Int, startFirst : Int, startSecond : Int]

SplitTypes ==
    /\ flex \in {"first", "second"}
    /\ first \in Int /\ second \in Int
    /\ unCollapsed = {} \/ \E s \in Int : unCollapsed = {s}
    /\ divider \in DividerView

\* What _updateLayout makes of a size: the panes fill the view, the second one has
\* its minimum and the first one has if there is room; and unless one of them is at
\* its minimum the size is what was asked for.
LEMMA DividedFacts ==
    ASSUME NEW total \in Int, NEW size \in Int
    PROVE  LET d == Divided(total, size)
           IN  /\ d.first \in Int /\ d.second \in Int
               /\ d.first + Thickness + d.second = total
               /\ d.second >= MinSecond
               /\ MinFirst + Thickness + MinSecond <= total => d.first >= MinFirst
               /\ \/ d.first = MinFirst \/ d.second = MinSecond
                  \/ IF flex = "second" THEN d.first = size ELSE d.second = size
  BY SplitAssumption DEF Divided, Thickness

\* Every operation of the split view keeps the types.
LEMMA SplitStepTypes ==
    ASSUME SplitTypes, NEW total \in Int, NEW size \in Int, NEW new \in BOOLEAN,
           \/ SplitSetSize(total, size) \/ ToggleCollapse(total) \/ DividerMouseDown(size)
           \/ DividerMouseMove(total, size) \/ DividerMouseUp \/ SplitInserted(total, new)
    PROVE  SplitTypes'
  <1>0. ASSUME NEW n \in Int, SetSize(total, n)
        PROVE  first' \in Int /\ second' \in Int
    BY <1>0, DividedFacts DEF SetSize
  <1>1. CASE SplitSetSize(total, size)
    BY <1>0, <1>1 DEF SplitSetSize, SplitTypes
  <1>2. CASE ToggleCollapse(total)
    <2>1. OwnSize \in Int /\ OwnMin \in Int
      BY SplitAssumption DEF OwnSize, OwnMin, SplitTypes
    <2>2. unCollapsed # {} => (CHOOSE s \in unCollapsed : TRUE) \in Int
      BY DEF SplitTypes
    <2>3. first' \in Int /\ second' \in Int
      BY <1>0, <1>2, <2>1, <2>2 DEF ToggleCollapse
    <2>4. unCollapsed' = {} \/ \E s \in Int : unCollapsed' = {s}
      BY <1>2, <2>1 DEF ToggleCollapse, SplitTypes
    <2> QED
      BY <1>2, <2>3, <2>4 DEF ToggleCollapse, SplitTypes
  <1>3. CASE DividerMouseDown(size)
    BY <1>3 DEF DividerMouseDown, SplitTypes, DividerView
  <1>4. CASE DividerMouseMove(total, size)
    <2>1. (IF flex = "second" THEN divider.startFirst + (size - divider.page)
                              ELSE divider.startSecond - (size - divider.page)) \in Int
      BY DEF SplitTypes, DividerView
    <2>2. first' \in Int /\ second' \in Int
      BY <1>0, <1>4, <2>1 DEF DividerMouseMove
    <2> QED
      BY <1>4, <2>2 DEF DividerMouseMove, SplitTypes
  <1>5. CASE DividerMouseUp
    BY <1>5 DEF DividerMouseUp, SplitTypes, DividerView, FreshDivider
  <1>6. CASE SplitInserted(total, new)
    <2>1. (IF new THEN DefaultSize ELSE OwnSize) \in Int
      BY DEF DefaultSize, OwnSize, SplitTypes
    <2>2. first' \in Int /\ second' \in Int
      BY <1>0, <1>6, <2>1 DEF SplitInserted
    <2> QED
      BY <1>6, <2>2 DEF SplitInserted, SplitTypes, DividerView, FreshDivider
  <1> QED
    BY <1>1, <1>2, <1>3, <1>4, <1>5, <1>6

-----------------------------------------------------------------------------
(* The table view *)

TableChart == [state : {"idle", "clickInProgress", "resizing"}, type : {"column", "row"},
               index : Int, dragStartX : Int, startX : Int, offset : Int]

ScrollState == [is : BOOLEAN, last : Int, lastSet : Int]

ColumnTypes ==
    /\ table \in TableChart
    /\ attached \in BOOLEAN
    /\ headerWidth \in [Columns -> Int] /\ dataWidth \in [Columns -> Int]
    /\ rowHeaderWidth \in Int /\ cornerWidth \in Int
    /\ scroll \in Int /\ headerAt \in Int
    /\ scrolling \in ScrollState

\* Rendering the table view keeps the types.
LEMMA RenderTypes ==
    ASSUME ColumnTypes, \E t \in Trees : Render(t)
    PROVE  ColumnTypes'
  <1>1. UNCHANGED <<table, scrolling>>
    BY DEF Render
  <1>2. headerWidth' \in [Columns' -> Int] /\ dataWidth' \in [Columns' -> Int]
    BY DEF Render, Columns, RenderedWidths, DefaultColumnWidth
  <1>3. rowHeaderWidth' \in Int /\ cornerWidth' \in Int /\ scroll' \in Int /\ headerAt' \in Int
    BY DEF Render, DefaultColumnWidth
  <1>4. attached' \in BOOLEAN
    BY Zenon DEF Render
  <1> QED
    BY <1>1, <1>2, <1>3, <1>4 DEF ColumnTypes

\* The mouse in the table view.
LEMMA TableMouseTypes ==
    ASSUME ColumnTypes, NEW x \in Int,
           \/ \E c \in Columns : HandleMouseDown(c, x)
           \/ RowHandleMouseDown(x) \/ HeaderMouseDown \/ TableMouseUp
    PROVE  ColumnTypes'
  <1>1. UNCHANGED <<tree, headerWidth, dataWidth, rowHeaderWidth, cornerWidth, scroll, headerAt, scrolling>>
    BY DEF HandleMouseDown, RowHandleMouseDown, HeaderMouseDown, TableMouseUp
  <1>2. Columns' = Columns
    BY <1>1 DEF Columns
  <1>3. attached' \in BOOLEAN
    BY Zenon DEF HandleMouseDown, RowHandleMouseDown, HeaderMouseDown, TableMouseUp, ColumnTypes
  <1>4. table' \in TableChart
    <2>1. \A c \in Columns : headerWidth[c] \in Int /\ c \in Int
      BY DEF ColumnTypes, Columns
    <2>2. CASE \E c \in Columns : HandleMouseDown(c, x)
      BY <2>1, <2>2 DEF HandleMouseDown, ColumnTypes, TableChart
    <2>3. CASE RowHandleMouseDown(x)
      BY <2>1, <2>3 DEF RowHandleMouseDown, ColumnTypes, TableChart
    <2>4. CASE HeaderMouseDown
      BY <2>1, <2>4 DEF HeaderMouseDown, ColumnTypes, TableChart
    <2>5. CASE TableMouseUp
      BY <2>5 DEF TableMouseUp, ClickMouseUp, ResizeMouseUp, FreshTable, TableChart
    <2> QED
      BY <2>2, <2>3, <2>4, <2>5
  <1> QED
    BY <1>1, <1>2, <1>3, <1>4 DEF ColumnTypes

\* The width that a cell is dragged to.
LEMMA CellWidthFacts ==
    ASSUME ColumnTypes, NEW x \in Int
    PROVE  /\ CellWidth(x) \in Int
           /\ CellWidth(x) = MIN_COLUMN_WIDTH \/ CellWidth(x) = table.startX + (x - table.dragStartX)
  <1>1. table.startX + (x - table.dragStartX) \in Int /\ MIN_COLUMN_WIDTH \in Int
    BY DEF ColumnTypes, TableChart, MIN_COLUMN_WIDTH
  <1> QED
    BY <1>1, MaxOfTwo DEF CellWidth

\* A mouseMove of the table view keeps the types.
LEMMA TableMoveTypes ==
    ASSUME ColumnTypes, NEW x \in Int, TableMouseMove(x)
    PROVE  ColumnTypes'
  <1>1. UNCHANGED <<tree, table, attached, scroll, headerAt, scrolling>>
    BY DEF TableMouseMove
  <1>2. Columns' = Columns
    BY <1>1 DEF Columns
  <1>3. headerWidth' \in [Columns -> Int] /\ dataWidth' \in [Columns -> Int]
    BY CellWidthFacts DEF TableMouseMove, ResizeColumn, ResizeRowHeader, ColumnTypes
  <1>4. rowHeaderWidth' \in Int /\ cornerWidth' \in Int
    BY CellWidthFacts DEF TableMouseMove, ResizeColumn, ResizeRowHeader, ColumnTypes, TableChart
  <1> QED
    BY <1>1, <1>2, <1>3, <1>4 DEF ColumnTypes

\* So does giving a column the width of its contents,
LEMMA AutoWidthTypes ==
    ASSUME ColumnTypes, NEW c \in Columns, NEW w \in AutoWidths, AutoWidth(c, w)
    PROVE  ColumnTypes'
  <1> DEFINE width == Max({MIN_COLUMN_WIDTH, w + 40}) + 3
  <1>1. UNCHANGED <<tree, table, attached, rowHeaderWidth, cornerWidth, scroll, headerAt, scrolling>>
    BY DEF AutoWidth
  <1>2. Columns' = Columns
    BY <1>1 DEF Columns
  <1>3. width \in Int
    BY MaxOfTwo, ColumnsAssumption DEF MIN_COLUMN_WIDTH
  <1>4. headerWidth' \in [Columns -> Int] /\ dataWidth' \in [Columns -> Int]
    BY <1>3 DEF AutoWidth, ColumnTypes
  <1> QED
    BY <1>1, <1>2, <1>4 DEF ColumnTypes

\* and scrolling and moving the headers.
LEMMA ScrollTypes ==
    ASSUME ColumnTypes, \/ \E to \in Scrolls : DidScroll(to)
                        \/ UpdateHeaderPositions
    PROVE  ColumnTypes'
  <1>1. UNCHANGED <<tree, table, attached, headerWidth, dataWidth, rowHeaderWidth, cornerWidth>>
    BY DEF DidScroll, UpdateHeaderPositions
  <1>2. Columns' = Columns
    BY <1>1 DEF Columns
  <1>0. scrolling.last \in Int /\ Scrolls \subseteq Int
    BY ColumnsAssumption DEF ColumnTypes, ScrollState
  <1>3. scroll' \in Int /\ headerAt' \in Int
    BY <1>0, Zenon DEF DidScroll, UpdateHeaderPositions, ColumnTypes
  <1>4. scrolling' \in ScrollState
    <2>1. ASSUME NEW b \in BOOLEAN, NEW n \in Int
          PROVE  /\ [scrolling EXCEPT !.is = b, !.last = n] \in ScrollState
                 /\ [scrolling EXCEPT !.is = b, !.lastSet = n] \in ScrollState
      BY DEF ColumnTypes, ScrollState
    <2>2. FALSE \in BOOLEAN /\ TRUE \in BOOLEAN
      BY Zenon
    <2> QED
      BY <1>0, <2>1, <2>2, Zenon DEF DidScroll, UpdateHeaderPositions
  <1> QED
    BY <1>1, <1>2, <1>3, <1>4 DEF ColumnTypes

-----------------------------------------------------------------------------
(* Stacks *)

Box == [top : Int, height : Int, isVisible : BOOLEAN]

SetupCalls == [view : Stacks, next : Int, top : Int]

StackTypes ==
    /\ box \in [Stacks \cup Stacked -> Box]
    /\ calls \in Seq(SetupCalls)

\* Telling the parent of a view adds at most a call.
LEMMA UpdateLayoutType ==
    ASSUME NEW v, NEW cs \in Seq(SetupCalls)
    PROVE  UpdateLayout(v, cs) \in Seq(SetupCalls)
  <1>1. ASSUME NEW p, p \in Stacks PROVE SetupCall(p) \in SetupCalls
    BY <1>1, StackAssumption DEF SetupCall, SetupCalls
  <1>2. ASSUME NEW p PROVE Consult(p, cs) \in Seq(SetupCalls)
    BY <1>1 DEF Consult
  <1> QED
    BY <1>2 DEF UpdateLayout

\* A change of the height or the top of a view.
LEMMA ChangeTypes ==
    ASSUME StackTypes, NEW v, NEW property \in {"top", "height"}, NEW n \in Int,
           NEW cs \in Seq(SetupCalls), Change(v, property, n, cs)
    PROVE  StackTypes'
  <1>1. calls' \in Seq(SetupCalls)
    BY UpdateLayoutType DEF Change
  <1>2. ASSUME NEW b \in Box PROVE [b EXCEPT ![property] = n] \in Box
    BY DEF Box
  <1>3. box' \in [Stacks \cup Stacked -> Box]
    BY <1>2 DEF Change, StackTypes
  <1> QED
    BY <1>1, <1>3 DEF StackTypes

\* ... or of its visibility.
LEMMA VisibleTypes ==
    ASSUME StackTypes, NEW v, NEW b \in BOOLEAN, SetVisible(v, b)
    PROVE  StackTypes'
  <1>1. calls' \in Seq(SetupCalls)
    BY UpdateLayoutType DEF SetVisible, Change, StackTypes
  <1>2. ASSUME NEW r \in Box PROVE [r EXCEPT !["isVisible"] = b] \in Box
    BY DEF Box
  <1>3. box' \in [Stacks \cup Stacked -> Box]
    BY <1>2 DEF SetVisible, Change, StackTypes
  <1> QED
    BY <1>1, <1>3 DEF StackTypes

\* The call in progress.
LEMMA CurrentType ==
    ASSUME StackTypes, calls # <<>>
    PROVE  /\ Current \in SetupCalls
           /\ Front(calls) \in Seq(SetupCalls)
           /\ \A c \in SetupCalls : WithCurrent(c) \in Seq(SetupCalls)
  <1>1. Len(calls) \in Nat /\ Len(calls) # 0
    BY DEF StackTypes
  <1>2. Current \in SetupCalls /\ Front(calls) \in Seq(SetupCalls)
    BY <1>1 DEF StackTypes, Current, Last, Front
  <1> QED
    BY <1>2 DEF WithCurrent

\* The call goes on to the next child, which begins at n.
LEMMA NextChildType ==
    ASSUME NEW c \in SetupCalls, NEW n \in Int
    PROVE  /\ [c EXCEPT !.next = @ + 1, !.top = n] \in SetupCalls
           /\ [c EXCEPT !.next = @ + 1] \in SetupCalls
  <1>1. ASSUME NEW m \in Int
        PROVE  [c EXCEPT !.next = m, !.top = n] \in SetupCalls /\ [c EXCEPT !.next = m] \in SetupCalls
    BY DEF SetupCalls
  <1>2. c.next + 1 \in Int
    BY DEF SetupCalls
  <1> QED
    BY <1>1, <1>2

\* A step of the cascade.
LEMMA SetupStepTypes ==
    ASSUME StackTypes, SetupStep
    PROVE  StackTypes'
  <1>1. calls # <<>>
    BY DEF SetupStep, PlaceChild, SetStackHeight, SetupReturns
  <1> DEFINE v == Current.view
  <1>2. /\ Current \in SetupCalls
        /\ v \in Stacks /\ Current.next \in Int /\ Current.top \in Int
        /\ Margins[v].spacing \in Int /\ Margins[v].bottom \in Int
    BY <1>1, CurrentType, StackAssumption DEF SetupCalls
  <1>3. CASE PlaceChild
    <2> DEFINE top == Current.top + (IF Current.next > 1 THEN Margins[v].spacing ELSE 0)
               Height(child) == IF child \in Fluid THEN 0 ELSE box[child].height
               End(child) == top + Padding[child] + Height(child)
               Next1(child) == [Current EXCEPT !.next = @ + 1, !.top = End(child)]
    <2>1. PICK child \in Range(Children[v]) : Change(child, "top", top, WithCurrent(Next1(child)))
      BY <1>3 DEF PlaceChild
    <2>2. child \in Stacked
      BY <1>2, <2>1 DEF Stacked
    <2>3. top \in Int /\ Padding[child] \in Int /\ Height(child) \in Int
      BY <1>2, <2>2, StackAssumption DEF StackTypes, Box
    <2>4. Next1(child) \in SetupCalls
      <3>1. End(child) \in Int
        BY <2>3
      <3> QED
        BY <1>2, <3>1, NextChildType
    <2> HIDE DEF top, Height, End
    <2> HIDE DEF Next1
    <2> QED
      BY <1>1, <2>1, <2>3, <2>4, CurrentType, ChangeTypes
  <1>4. CASE SetStackHeight
    <2> DEFINE h == StackHeight(v, Current.top)
               cs == WithCurrent([Current EXCEPT !.next = @ + 1])
    <2>1. cs \in Seq(SetupCalls)
      <3>1. [Current EXCEPT !.next = @ + 1] \in SetupCalls
        BY <1>2, NextChildType
      <3> QED
        BY <1>1, <3>1, CurrentType
    <2>2. h = {} \/ \E n \in Int : h = {n}
      BY SMTT(20), <1>2, StackAssumption DEF StackHeight
    <2>3. IF h = {} THEN box' = box /\ calls' = cs ELSE Change(v, "height", CHOOSE x \in h : TRUE, cs)
      BY <1>4 DEF SetStackHeight
    <2> HIDE DEF h, cs
    <2>4. CASE h = {}
      BY <2>1, <2>3, <2>4 DEF StackTypes
    <2>5. CASE h # {}
      <3>1. (CHOOSE x \in h : TRUE) \in Int
        BY <2>2, <2>5
      <3> QED
        BY <2>1, <2>3, <2>5, <3>1, ChangeTypes
    <2> QED
      BY <2>4, <2>5
  <1>5. CASE SetupReturns
    BY <1>1, <1>5, CurrentType DEF SetupReturns, StackTypes
  <1> QED
    BY <1>3, <1>4, <1>5 DEF SetupStep

-----------------------------------------------------------------------------
(* All types *)

Point == [x : Int, y : Int]

Grabbed == [x : Int, y : Int, moved : BOOLEAN]

MouseTypes ==
    /\ env \in Pages /\ held \in BOOLEAN
    /\ responder \in {"none", "gone", "title", "thumb", "divider", "table"}
    /\ pointer \in Point /\ grab \in Grabbed

Types ==
    /\ FrameTypes /\ SplitTypes /\ ColumnTypes /\ StackTypes /\ MouseTypes
    /\ content \in [Tables -> Arrays]

\* The numbers that a mouseDown is made of.
LEMMA PlaceTypes ==
    ASSUME Types
    PROVE  /\ PanelAt.left \in Int /\ PanelAt.top \in Int
           /\ style.width \in Int /\ style.height \in Int
           /\ Total \in Int /\ DividerAt(Total) \in Int
           /\ cornerWidth \in Int /\ rowHeaderWidth \in Int
           /\ \A c \in Columns : headerWidth[c] \in Int
           /\ \A p \in Points : p.x \in Int /\ p.y \in Int
  <1>1. PanelAt.left \in Int /\ PanelAt.top \in Int
    BY OffsetType DEF Types, PanelAt, Position
  <1>2. style.width \in Int /\ style.height \in Int
    BY DEF Types, FrameTypes, PanelStyle
  <1>3. Total \in Int
    BY <1>2, SizeTypes DEF Types, Total
  <1>4. DividerAt(Total) \in Int
    BY <1>3 DEF DividerAt, Types, SplitTypes, Thickness
  <1>5. /\ cornerWidth \in Int /\ rowHeaderWidth \in Int
        /\ \A c \in Columns : headerWidth[c] \in Int
    BY DEF Types, ColumnTypes
  <1>6. \A p \in Points : p.x \in Int /\ p.y \in Int
    BY WorkspaceAssumption
  <1> QED
    BY <1>1, <1>2, <1>3, <1>4, <1>5, <1>6

\* What happens to the panel's frame in a step.
FrameStep ==
    \/ UNCHANGED frameVars
    \/ Popup \/ \E a \in Anchors, side \in Sides : PopupBeside(a, side)
    \/ Close \/ Reload
    \/ \E w \in Windows : ResizeWindow(w) /\ "window" \in env
    \/ \E h \in Int : /\ AdjustHeight(h) /\ ~Quiet
                     /\ UNCHANGED <<kind, keyed, reused, window, shown, title, thumb, stored>>
    \/ \E x, y \in Int : \/ TitleMouseDown(x, y) /\ title.state = "idle" /\ kind # "popover" /\ shown
                         \/ ThumbMouseDown(x, y) /\ thumb.state = "idle" /\ "thumb" \in env
                         \/ TitleMouseMove(x, y) /\ InDrag("title") /\ "title" \in Receivers
                         \/ ThumbMouseMove(x, y) /\ InDrag("thumb") /\ "thumb" \in Receivers
    \/ TitleMouseUp /\ InDrag("title") /\ "title" \in Receivers
    \/ ThumbMouseUp /\ InDrag("thumb") /\ "thumb" \in Receivers

\* ... to the split view
SplitStep ==
    \/ UNCHANGED splitVars
    \/ \E size \in Int : \/ SplitSetSize(Total, size)
                         \/ DividerMouseDown(size)
                         \/ DividerMouseMove(Total, size) /\ InDrag("divider") /\ "divider" \in Receivers
    \/ ToggleCollapse(Total) \/ DividerMouseUp
    \/ HasPanel /\ SplitInserted(PanelSize.width, ~reused)

\* ... to the table view
ColumnStep ==
    \/ UNCHANGED columnVars
    \/ \E t \in Trees : Render(t) /\ MayRefresh
    \/ \E x \in Int : \/ \E c \in Columns : HandleMouseDown(c, x)
                      \/ RowHandleMouseDown(x)
                      \/ TableMouseMove(x) /\ table.state = "resizing"
    \/ HeaderMouseDown \/ TableMouseUp
    \/ \E c \in Columns, w \in AutoWidths : AutoWidth(c, w)
    \/ \E to \in Scrolls : DidScroll(to)
    \/ UpdateHeaderPositions

\* What a step does to the panel's frame keeps the types,
LEMMA FrameStepTypes == FrameTypes /\ FrameStep => FrameTypes'
  <1> SUFFICES ASSUME FrameTypes, FrameStep PROVE FrameTypes'
    OBVIOUS
  <1>1. CASE UNCHANGED frameVars
    BY <1>1 DEF frameVars, FrameTypes
  <1>2. CASE \E w \in Windows : ResizeWindow(w) /\ "window" \in env
    BY <1>2 DEF ResizeWindow, FrameTypes
  <1> QED
    BY <1>1, <1>2, OpenTypes, CloseTypes, HeightTypes, MouseDownTypes, TitleMoveTypes,
       ThumbMoveTypes, MouseUpTypes DEF FrameStep

\* and to the split view,
LEMMA SplitStepsTypes == Types /\ SplitStep => SplitTypes'
  <1> SUFFICES ASSUME Types, SplitStep PROVE SplitTypes'
    OBVIOUS
  <1>1. CASE UNCHANGED splitVars
    BY <1>1 DEF Types, SplitTypes, splitVars
  <1>2. Total \in Int /\ PanelSize.width \in Int /\ 0 \in Int
    BY PlaceTypes, FrameAssumption
  <1>3. (~reused) \in BOOLEAN
    BY Zenon
  <1> QED
    BY <1>1, <1>2, <1>3, SplitStepTypes, Zenon DEF SplitStep, Types

\* and to the table view.
LEMMA ColumnStepTypes == ColumnTypes /\ ColumnStep => ColumnTypes'
  <1> SUFFICES ASSUME ColumnTypes, ColumnStep PROVE ColumnTypes'
    OBVIOUS
  <1>1. CASE UNCHANGED columnVars
    <2>1. Columns' = Columns
      BY <1>1 DEF columnVars, Columns
    <2> QED
      BY <1>1, <2>1 DEF columnVars, ColumnTypes
  <1>2. CASE HeaderMouseDown \/ TableMouseUp
    <2>1. 0 \in Int
      OBVIOUS
    <2> QED
      BY <1>2, <2>1, TableMouseTypes
  <1> QED
    BY <1>1, <1>2, RenderTypes, TableMouseTypes, TableMoveTypes, AutoWidthTypes, ScrollTypes DEF ColumnStep

\* The actions of the mouse, and those of the application that leave the panel's
\* frame alone.
PressAction ==
    \/ PressTitle \/ PressThumb \/ PressDivider \/ PressRowHandle \/ PressElsewhere
    \/ \E c \in Columns, p \in Points : PressHandle(c, p.x)
    \/ \E type \in {"row", "column"} : PressHeader(type)

StackAction ==
    \E v \in Leaves : (\E h \in {30, 50} : ContentHeight(v, h)) \/ ContentVisible(v)

TableAction ==
    \/ \E t \in Trees : SetHeaders(t)
    \/ \E to \in Scrolls : Scroll(to)
    \/ AnimationFrame

RowsAction ==
    \/ \E t \in Tables : ChangeRows(t)
    \/ \E o \in Objects, p \in Properties, v \in Values : ChangeObject(o, p, v)

\* Each step of the page is one of these.
LEMMA NextCases ==
    ASSUME Next
    PROVE  \/ OpenPanel \/ ClosePanel \/ ReloadPage
           \/ \E a \in Anchors, side \in Sides : OpenBeside(a, side)
           \/ \E w \in Windows : WindowResized(w)
           \/ LayoutStep \/ StackAction
           \/ \E size \in {100, 150} : PaneSize(size)
           \/ PressAction
           \/ \E p \in Points : MovePointer(p)
           \/ Release \/ DoubleClick \/ TableAction \/ RowsAction
  BY Zenon DEF Next, PressAction, StackAction, TableAction, RowsAction

\* Every step does one thing to the panel's frame.
LEMMA FrameSteps == Types /\ [Next]_vars => FrameStep
  <1> SUFFICES ASSUME Types, [Next]_vars PROVE FrameStep
    OBVIOUS
  <1> USE DEF FrameStep
  <1>1. CASE UNCHANGED vars
    BY <1>1 DEF vars
  <1>2. CASE OpenPanel \/ ClosePanel \/ ReloadPage
    BY <1>2 DEF OpenPanel, ClosePanel, ReloadPage
  <1>3. CASE \E a \in Anchors, side \in Sides : OpenBeside(a, side)
    BY <1>3, Zenon DEF OpenBeside
  <1>4. CASE \E w \in Windows : WindowResized(w)
    BY <1>4, Zenon DEF WindowResized
  <1>5. CASE LayoutStep
    <2> DEFINE h == IF "frame" \in Stacks THEN box'["frame"].height ELSE layout.height
    <2>1. StackTypes'
      BY <1>5, SetupStepTypes DEF LayoutStep, Types
    <2>2. h \in Int
      BY <2>1 DEF StackTypes, Box, Types, FrameTypes, PanelLayout
    <2>3. AdjustHeight(h) /\ UNCHANGED <<kind, keyed, reused, window, shown, title, thumb, stored>>
      BY <1>5 DEF LayoutStep
    <2>4. ~Quiet
      BY <1>5, Zenon DEF LayoutStep, SetupStep, PlaceChild, SetStackHeight, SetupReturns, Quiet
    <2> HIDE DEF h
    <2> QED
      BY <2>2, <2>3, <2>4
  <1>6. CASE StackAction \/ (\E size \in {100, 150} : PaneSize(size)) \/ DoubleClick \/ TableAction \/ RowsAction
    <2>1. UNCHANGED frameVars
      BY <1>6, Zenon DEF StackAction, ContentHeight, ContentVisible, PaneSize, DoubleClick, TableAction,
         SetHeaders, Scroll, AnimationFrame, RowsAction, ChangeRows, ChangeObject, NoMouse, NoFrame
    <2> QED
      BY <2>1
  <1>7. CASE PressAction
    <2>1. CASE PressTitle
      <3>1. \/ UNCHANGED frameVars
            \/ /\ TitleMouseDown(PanelAt.left + 10, PanelAt.top + 10)
               /\ title.state = "idle" /\ kind # "popover" /\ shown
        BY <2>1, Zenon DEF PressTitle, NoFrame
      <3>2. PanelAt.left + 10 \in Int /\ PanelAt.top + 10 \in Int
        BY PlaceTypes
      <3> QED
        BY <3>1, <3>2, Zenon
    <2>2. CASE PressThumb
      <3>1. \/ UNCHANGED frameVars
            \/ /\ ThumbMouseDown(PanelAt.left + style.width, PanelAt.top + style.height)
               /\ thumb.state = "idle" /\ "thumb" \in env
        BY <2>2, Zenon DEF PressThumb, NoFrame
      <3>2. PanelAt.left + style.width \in Int /\ PanelAt.top + style.height \in Int
        BY PlaceTypes
      <3> QED
        BY <3>1, <3>2, Zenon
    <2>3. CASE \/ PressDivider \/ PressRowHandle \/ PressElsewhere
               \/ \E c \in Columns, p \in Points : PressHandle(c, p.x)
               \/ \E type \in {"row", "column"} : PressHeader(type)
      <3>1. UNCHANGED frameVars
        BY <2>3, Zenon DEF PressDivider, PressRowHandle, PressElsewhere, PressHandle, PressHeader, NoFrame
      <3> QED
        BY <3>1
    <2> QED
      BY <1>7, <2>1, <2>2, <2>3 DEF PressAction
  <1>8. CASE \E p \in Points : MovePointer(p)
    <2>1. PICK p \in Points : MovePointer(p)
      BY <1>8
    <2>2. \/ UNCHANGED frameVars
          \/ TitleMouseMove(p.x, p.y) /\ InDrag("title") /\ "title" \in Receivers
          \/ ThumbMouseMove(p.x, p.y) /\ InDrag("thumb") /\ "thumb" \in Receivers
      BY <2>1, Zenon DEF MovePointer, NoFrame
    <2> QED
      BY <2>2, PlaceTypes
  <1>9. CASE Release
    <2>1. \/ UNCHANGED frameVars
          \/ TitleMouseUp /\ InDrag("title") /\ "title" \in Receivers
          \/ ThumbMouseUp /\ InDrag("thumb") /\ "thumb" \in Receivers
      BY <1>9, Zenon DEF Release, NoFrame
    <2> QED
      BY <2>1
  <1> QED
    BY <1>1, <1>2, <1>3, <1>4, <1>5, <1>6, <1>7, <1>8, <1>9, NextCases

\* ... and to the split view.
LEMMA SplitSteps == Types /\ [Next]_vars => SplitStep
  <1> SUFFICES ASSUME Types, [Next]_vars PROVE SplitStep
    OBVIOUS
  <1> USE DEF SplitStep
  <1>1. CASE UNCHANGED splitVars
    BY <1>1
  <1>2. CASE HasPanel /\ InsertContent
    <2>1. UNCHANGED splitVars \/ SplitInserted(PanelSize.width, ~reused)
      BY <1>2, Zenon DEF InsertContent, NoSplit
    <2> QED
      BY <1>2, <2>1, Zenon
  <1>3. CASE \E size \in {100, 150} : PaneSize(size)
    <2>1. PICK size \in {100, 150} : SplitSetSize(Total, size)
      BY <1>3, Zenon DEF PaneSize
    <2>2. size \in Int
      BY <2>1
    <2> QED
      BY <2>1, <2>2, Zenon
  <1>4. CASE PressDivider
    <2> DEFINE x == DividerAt(Total) + (IF HasPanel THEN PanelAt.left ELSE 0)
    <2>1. UNCHANGED splitVars \/ DividerMouseDown(x)
      BY <1>4, Zenon DEF PressDivider, NoSplit
    <2>2. x \in Int
      BY PlaceTypes
    <2> HIDE DEF x
    <2> QED
      BY <2>1, <2>2, Zenon
  <1>5. CASE \E p \in Points : MovePointer(p)
    <2>1. PICK p \in Points : MovePointer(p)
      BY <1>5
    <2>2. UNCHANGED splitVars \/ (DividerMouseMove(Total, p.x) /\ InDrag("divider") /\ "divider" \in Receivers)
      BY <2>1, Zenon DEF MovePointer, NoSplit
    <2>3. p.x \in Int
      BY PlaceTypes
    <2> QED
      BY <2>2, <2>3, Zenon
  <1>6. CASE Release
    <2>1. UNCHANGED splitVars \/ DividerMouseUp
      BY <1>6, Zenon DEF Release, NoSplit
    <2> QED
      BY <2>1, Zenon
  <1>7. CASE DoubleClick
    <2>1. UNCHANGED splitVars \/ ToggleCollapse(Total)
      BY <1>7, Zenon DEF DoubleClick, NoSplit
    <2> QED
      BY <2>1, Zenon
  <1>8. \/ (HasPanel /\ InsertContent) \/ (\E size \in {100, 150} : PaneSize(size)) \/ PressDivider
        \/ (\E p \in Points : MovePointer(p)) \/ Release \/ DoubleClick
        \/ UNCHANGED splitVars
    <2>1. CASE Next
      <3>1. OpenPanel \/ (\E a \in Anchors, side \in Sides : OpenBeside(a, side)) => HasPanel /\ InsertContent
        BY Zenon DEF OpenPanel, OpenBeside
      <3>2. \/ ClosePanel \/ ReloadPage \/ (\E w \in Windows : WindowResized(w)) \/ LayoutStep \/ StackAction
            \/ TableAction \/ RowsAction
            => UNCHANGED splitVars
        BY Zenon DEF ClosePanel, ReloadPage, WindowResized, LayoutStep, StackAction, ContentHeight,
           ContentVisible, TableAction, SetHeaders, Scroll, AnimationFrame, RowsAction, ChangeRows,
           ChangeObject, NoMouse, NoSplit
      <3>3. PressAction => PressDivider \/ UNCHANGED splitVars
        BY Zenon DEF PressAction, PressTitle, PressThumb, PressRowHandle, PressElsewhere, PressHandle,
           PressHeader, NoSplit
      <3> QED
        BY <2>1, <3>1, <3>2, <3>3, NextCases
    <2>2. CASE UNCHANGED vars
      BY <2>2 DEF vars
    <2> QED
      BY <2>1, <2>2
  <1> QED
    BY <1>1, <1>2, <1>3, <1>4, <1>5, <1>6, <1>7, <1>8

\* ... and to the table view.
LEMMA ColumnSteps == Types /\ [Next]_vars => ColumnStep
  <1> SUFFICES ASSUME Types, [Next]_vars PROVE ColumnStep
    OBVIOUS
  <1> USE DEF ColumnStep
  <1>1. CASE UNCHANGED columnVars
    BY <1>1
  <1>2. CASE TableAction
    BY <1>2, Zenon DEF TableAction, SetHeaders, Scroll, AnimationFrame
  <1>3. CASE PressAction
    <2>1. CASE \E c \in Columns, p \in Points : PressHandle(c, p.x)
      <3>1. PICK c \in Columns, p \in Points : PressHandle(c, p.x)
        BY <2>1
      <3>2. UNCHANGED columnVars \/ HandleMouseDown(c, p.x)
        BY <3>1, Zenon DEF PressHandle
      <3>3. p.x \in Int
        BY PlaceTypes
      <3> QED
        BY <3>2, <3>3, Zenon
    <2>2. CASE PressRowHandle
      <3>1. UNCHANGED columnVars \/ RowHandleMouseDown(cornerWidth)
        BY <2>2, Zenon DEF PressRowHandle
      <3>2. cornerWidth \in Int
        BY PlaceTypes
      <3> QED
        BY <3>1, <3>2, Zenon
    <2>3. CASE \E type \in {"row", "column"} : PressHeader(type)
      BY <2>3, Zenon DEF PressHeader
    <2>4. CASE PressTitle \/ PressThumb \/ PressDivider \/ PressElsewhere
      <3>1. UNCHANGED columnVars
        BY <2>4, Zenon DEF PressTitle, PressThumb, PressDivider, PressElsewhere, NoTable
      <3> QED
        BY <3>1
    <2> QED
      BY <1>3, <2>1, <2>2, <2>3, <2>4 DEF PressAction
  <1>4. CASE \E p \in Points : MovePointer(p)
    <2>1. PICK p \in Points : MovePointer(p)
      BY <1>4
    <2>2. UNCHANGED columnVars \/ (TableMouseMove(p.x) /\ table.state = "resizing")
      <3>1. UNCHANGED columnVars \/ (TableMouseMove(p.x) /\ InDrag("table"))
        BY <2>1, Zenon DEF MovePointer
      <3>2. InDrag("table") => table.state = "resizing"
        BY DEF InDrag
      <3> QED
        BY <3>1, <3>2
    <2>3. p.x \in Int
      BY PlaceTypes
    <2> QED
      BY <2>2, <2>3, Zenon
  <1>5. CASE Release
    BY <1>5, Zenon DEF Release
  <1>6. CASE DoubleClick
    BY <1>6, Zenon DEF DoubleClick
  <1>7. TableAction \/ PressAction \/ (\E p \in Points : MovePointer(p)) \/ Release \/ DoubleClick
        \/ UNCHANGED columnVars
    <2>1. CASE Next
      <3>1. \/ OpenPanel \/ (\E a \in Anchors, side \in Sides : OpenBeside(a, side))
            \/ ClosePanel \/ ReloadPage \/ (\E w \in Windows : WindowResized(w)) \/ LayoutStep
            \/ StackAction \/ (\E size \in {100, 150} : PaneSize(size)) \/ RowsAction
            => UNCHANGED columnVars
        BY Zenon DEF OpenPanel, OpenBeside, ClosePanel, ReloadPage, WindowResized, LayoutStep,
           StackAction, ContentHeight, ContentVisible, PaneSize, RowsAction, ChangeRows, ChangeObject, NoTable
      <3> QED
        BY <2>1, <3>1, NextCases
    <2>2. CASE UNCHANGED vars
      BY <2>2 DEF vars
    <2> QED
      BY <2>1, <2>2
  <1> QED
    BY <1>1, <1>2, <1>3, <1>4, <1>5, <1>6, <1>7

\* Every step keeps the types of the stacks,
LEMMA StackSteps == Types /\ [Next]_vars => StackTypes'
  <1> SUFFICES ASSUME Types, [Next]_vars PROVE StackTypes'
    OBVIOUS
  <1>1. CASE UNCHANGED stackVars
    BY <1>1 DEF Types, StackTypes, stackVars
  <1>2. CASE LayoutStep
    BY <1>2, SetupStepTypes DEF LayoutStep, Types
  <1>3. CASE StackAction
    <2>1. PICK v \in Leaves : (\E h \in {30, 50} : SetHeight(v, h)) \/ SetVisible(v, ~box[v].isVisible)
      BY <1>3, Zenon DEF StackAction, ContentHeight, ContentVisible
    <2>2. (~box[v].isVisible) \in BOOLEAN
      BY Zenon
    <2>3. CASE SetVisible(v, ~box[v].isVisible)
      BY <2>2, <2>3, VisibleTypes, Zenon DEF Types
    <2>4. CASE \E h \in {30, 50} : SetHeight(v, h)
      <3>1. PICK h \in {30, 50} : Change(v, "height", h, calls)
        BY <2>4 DEF SetHeight
      <3>2. h \in Int /\ calls \in Seq(SetupCalls) /\ "height" \in {"top", "height"}
        BY <3>1 DEF Types, StackTypes
      <3> QED
        BY <3>1, <3>2, ChangeTypes, Zenon DEF Types
    <2> QED
      BY <2>1, <2>3, <2>4
  <1>4. LayoutStep \/ StackAction \/ UNCHANGED stackVars
    <2>1. CASE Next
      <3>1. \/ OpenPanel \/ (\E a \in Anchors, side \in Sides : OpenBeside(a, side))
            \/ ClosePanel \/ ReloadPage \/ (\E w \in Windows : WindowResized(w))
            \/ (\E size \in {100, 150} : PaneSize(size)) \/ PressAction
            \/ (\E p \in Points : MovePointer(p)) \/ Release \/ DoubleClick \/ TableAction \/ RowsAction
            => UNCHANGED stackVars
        BY Zenon DEF OpenPanel, OpenBeside, ClosePanel, ReloadPage, WindowResized, PaneSize, PressAction,
           PressTitle, PressThumb, PressDivider, PressRowHandle, PressElsewhere, PressHandle, PressHeader,
           MovePointer, Release, DoubleClick, TableAction, SetHeaders, Scroll, AnimationFrame, RowsAction,
           ChangeRows, ChangeObject, NoMouse, NoStack
      <3> QED
        BY <2>1, <3>1, NextCases
    <2>2. CASE UNCHANGED vars
      BY <2>2 DEF vars
    <2> QED
      BY <2>1, <2>2
  <1> QED
    BY <1>1, <1>2, <1>3, <1>4

\* The mouseDowns: where they are, and what becomes the mouse responder.
LEMMA PressSteps ==
    ASSUME Types, PressAction
    PROVE  /\ \E handler \in {"none", "title", "thumb", "divider", "table"}, x \in Int, y \in Int :
                 Press(handler, x, y)
           /\ grab' = grab \/ \E x, y \in Int : Grab(x, y)
  <1>1. CASE PressTitle
    <2>1. \E handler \in {"none", "title"} : Press(handler, PanelAt.left + 10, PanelAt.top + 10)
      BY <1>1 DEF PressTitle
    <2>2. Grab(PanelAt.left, PanelAt.top)
      BY <1>1, Zenon DEF PressTitle
    <2>3. PanelAt.left \in Int /\ PanelAt.top \in Int /\ PanelAt.left + 10 \in Int /\ PanelAt.top + 10 \in Int
      BY PlaceTypes
    <2> QED
      BY <2>1, <2>2, <2>3
  <1>2. CASE PressThumb
    <2>1. \E handler \in {"none", "thumb"} : Press(handler, PanelAt.left + style.width, PanelAt.top + style.height)
      BY <1>2 DEF PressThumb
    <2>2. Grab(style.width, style.height)
      BY <1>2, Zenon DEF PressThumb
    <2>3. /\ style.width \in Int /\ style.height \in Int
          /\ PanelAt.left + style.width \in Int /\ PanelAt.top + style.height \in Int
      BY PlaceTypes
    <2> QED
      BY <2>1, <2>2, <2>3
  <1>3. CASE PressDivider
    <2> DEFINE x == DividerAt(Total) + (IF HasPanel THEN PanelAt.left ELSE 0)
    <2>1. \E handler \in {"none", "divider"} : Press(handler, x, 0)
      BY <1>3 DEF PressDivider
    <2>2. Grab(DividerAt(Total), 0)
      BY <1>3, Zenon DEF PressDivider
    <2>3. x \in Int /\ DividerAt(Total) \in Int /\ 0 \in Int
      BY PlaceTypes
    <2> HIDE DEF x
    <2> QED
      BY <2>1, <2>2, <2>3
  <1>4. CASE PressRowHandle
    <2>1. \E handler \in {"none", "table"} : Press(handler, cornerWidth, 0)
      BY <1>4 DEF PressRowHandle
    <2>2. Grab(rowHeaderWidth, 0)
      BY <1>4, Zenon DEF PressRowHandle
    <2>3. cornerWidth \in Int /\ rowHeaderWidth \in Int /\ 0 \in Int
      BY PlaceTypes
    <2> QED
      BY <2>1, <2>2, <2>3
  <1>5. CASE \E c \in Columns, p \in Points : PressHandle(c, p.x)
    <2>0. PICK c \in Columns, p \in Points : PressHandle(c, p.x)
      BY <1>5
    <2>1. \E handler \in {"none", "table"} : Press(handler, p.x, 0)
      BY <2>0 DEF PressHandle
    <2>2. Grab(headerWidth[c], 0)
      BY <2>0, Zenon DEF PressHandle
    <2>3. p.x \in Int /\ headerWidth[c] \in Int /\ 0 \in Int
      BY PlaceTypes
    <2> QED
      BY <2>1, <2>2, <2>3
  <1>6. CASE PressElsewhere \/ \E type \in {"row", "column"} : PressHeader(type)
    <2>1. \E handler \in {"none", "table"} : Press(handler, 0, 0)
      BY <1>6 DEF PressElsewhere, PressHeader
    <2>2. grab' = grab
      BY <1>6, Zenon DEF PressElsewhere, PressHeader
    <2> QED
      BY <2>1, <2>2
  <1> QED
    BY <1>1, <1>2, <1>3, <1>4, <1>5, <1>6 DEF PressAction

\* and of the mouse.
LEMMA MouseSteps == Types /\ [Next]_vars => MouseTypes'
  <1> SUFFICES ASSUME Types, [Next]_vars PROVE MouseTypes'
    OBVIOUS
  <1>0. NoPoint \in Point /\ NoGrab \in Grabbed
    <2>1. ASSUME NEW b \in BOOLEAN PROVE [x |-> 0, y |-> 0, moved |-> b] \in Grabbed
      BY DEF Grabbed
    <2>2. FALSE \in BOOLEAN
      BY Zenon
    <2>3. NoGrab \in Grabbed
      BY <2>1, <2>2, Zenon DEF NoGrab
    <2> QED
      BY <2>3 DEF NoPoint, Point
  <1>1. CASE UNCHANGED mouseVars
    BY <1>1 DEF Types, MouseTypes, mouseVars
  <1>2. CASE PressAction
    <2>1. PICK handler \in {"none", "title", "thumb", "divider", "table"}, x \in Int, y \in Int :
             Press(handler, x, y)
      BY <1>2, PressSteps
    <2>2. env' = env /\ responder' = handler /\ pointer' = [x |-> x, y |-> y]
      BY <2>1, Zenon DEF Press
    <2>3. held' \in BOOLEAN
      BY <2>1, Zenon DEF Press
    <2>4. pointer' \in Point /\ pointer'.x \in Int /\ pointer'.y \in Int
      BY <2>2 DEF Point
    <2>5. grab' \in Grabbed
      <3>1. CASE grab' = grab
        BY <3>1 DEF Types, MouseTypes
      <3>2. ASSUME NEW a \in Int, NEW b \in Int, Grab(a, b)
            PROVE  grab' \in Grabbed
        <4>1. a - pointer'.x \in Int /\ b - pointer'.y \in Int
          BY <2>4
        <4>2. ASSUME NEW i \in Int, NEW j \in Int, NEW m \in BOOLEAN
              PROVE  [x |-> i, y |-> j, moved |-> m] \in Grabbed
          BY DEF Grabbed
        <4>3. FALSE \in BOOLEAN
          BY Zenon
        <4> QED
          BY <3>2, <4>1, <4>2, <4>3, Zenon DEF Grab
      <3> QED
        BY <1>2, <3>1, <3>2, PressSteps
    <2> QED
      BY <2>2, <2>3, <2>4, <2>5 DEF Types, MouseTypes
  <1>3. CASE \E a \in Anchors, side \in Sides : OpenBeside(a, side)
    BY <1>3 DEF OpenBeside, Types, MouseTypes
  <1>4. CASE ClosePanel
    BY <1>4 DEF ClosePanel, Types, MouseTypes
  <1>5. CASE ReloadPage
    <2>1. held' \in BOOLEAN
      BY <1>5, Zenon DEF ReloadPage
    <2> QED
      BY <1>0, <1>5, <2>1 DEF ReloadPage, Types, MouseTypes
  <1>6. CASE \E p \in Points : MovePointer(p)
    <2>1. PICK p \in Points : MovePointer(p)
      BY <1>6
    <2>2. env' = env /\ held' = held /\ responder' = responder
      BY <2>1, Zenon DEF MovePointer
    <2>3. grab' \in Grabbed
      BY <2>1 DEF MovePointer, Grabbed, Types, MouseTypes
    <2>4. pointer' \in Point
      <3>1. p \in Point
        BY WorkspaceAssumption DEF Point
      <3> QED
        BY <2>1, <3>1 DEF MovePointer, Types, MouseTypes
    <2> QED
      BY <2>2, <2>3, <2>4 DEF Types, MouseTypes
  <1>7. CASE Release
    <2>1. held' \in BOOLEAN
      BY <1>7, Zenon DEF Release
    <2>2. env' = env /\ pointer' = NoPoint /\ grab' = NoGrab /\ responder' \in {responder, "none"}
      BY <1>7 DEF Release
    <2> QED
      BY <1>0, <2>1, <2>2 DEF Types, MouseTypes
  <1>8. \/ PressAction \/ (\E a \in Anchors, side \in Sides : OpenBeside(a, side)) \/ ClosePanel \/ ReloadPage
        \/ (\E p \in Points : MovePointer(p)) \/ Release \/ UNCHANGED mouseVars
    <2>1. CASE Next
      <3>1. \/ OpenPanel \/ (\E w \in Windows : WindowResized(w)) \/ LayoutStep \/ StackAction
            \/ (\E size \in {100, 150} : PaneSize(size)) \/ DoubleClick \/ TableAction \/ RowsAction
            => UNCHANGED mouseVars
        BY Zenon DEF OpenPanel, WindowResized, LayoutStep, StackAction, ContentHeight, ContentVisible,
           PaneSize, DoubleClick, TableAction, SetHeaders, Scroll, AnimationFrame, RowsAction, ChangeRows,
           ChangeObject, NoMouse
      <3> QED
        BY <2>1, <3>1, NextCases
    <2>2. CASE UNCHANGED vars
      BY <2>2 DEF vars
    <2> QED
      BY <2>1, <2>2
  <1> QED
    BY <1>1, <1>2, <1>3, <1>4, <1>5, <1>6, <1>7, <1>8

\* Only changes of rows and objects change the tables.
LEMMA RowSteps == Types /\ [Next]_vars => RowsAction \/ UNCHANGED tableVars
  <1> SUFFICES ASSUME Types, [Next]_vars PROVE RowsAction \/ UNCHANGED tableVars
    OBVIOUS
  <1>1. CASE Next
    <2>1. \/ OpenPanel \/ (\E a \in Anchors, side \in Sides : OpenBeside(a, side))
          \/ ClosePanel \/ ReloadPage \/ (\E w \in Windows : WindowResized(w)) \/ LayoutStep \/ StackAction
          \/ (\E size \in {100, 150} : PaneSize(size)) \/ PressAction
          \/ (\E p \in Points : MovePointer(p)) \/ Release \/ DoubleClick \/ TableAction
          => UNCHANGED tableVars
      BY Zenon DEF OpenPanel, OpenBeside, ClosePanel, ReloadPage, WindowResized, LayoutStep, StackAction,
         ContentHeight, ContentVisible, PaneSize, PressAction,
         PressTitle, PressThumb, PressDivider, PressRowHandle, PressElsewhere, PressHandle, PressHeader,
         MovePointer, Release, DoubleClick, TableAction, SetHeaders, Scroll, AnimationFrame, NoTable
    <2> QED
      BY <1>1, <2>1, NextCases
  <1>2. CASE UNCHANGED vars
    BY <1>2 DEF vars
  <1> QED
    BY <1>1, <1>2

\* Rows are added, removed and replaced within the bound.
LEMMA ContentSteps == Types /\ [Next]_vars => content' \in [Tables -> Arrays]
  <1> SUFFICES ASSUME Types, [Next]_vars PROVE content' \in [Tables -> Arrays]
    OBVIOUS
  <1>0. content \in [Tables -> Arrays]
    BY DEF Types
  <1>1. CASE content' = content
    BY <1>0, <1>1
  <1>2. ASSUME NEW t \in Tables, NEW array \in Arrays, SetContent(t, array)
        PROVE  content' \in [Tables -> Arrays]
    BY <1>0, <1>2 DEF SetContent
  <1>3. ASSUME NEW t \in Tables, NEW start \in 0..Rows, NEW n \in 0..Rows,
               NEW added \in {<<>>} \cup {<<o>> : o \in Objects}, ReplaceRows(t, start, n, added)
        PROVE  content' \in [Tables -> Arrays]
    <2> DEFINE c == content[t]
               new == SubSeq(c, 1, start) \o added \o SubSeq(c, start + n + 1, Len(c))
    <2>1. c \in Seq(Objects)
      BY <1>0 DEF Arrays
    <2>2. added \in Seq(Objects)
      <3>1. ASSUME NEW o \in Objects PROVE <<o>> \in Seq(Objects)
        OBVIOUS
      <3>2. <<>> \in Seq(Objects)
        OBVIOUS
      <3> QED
        BY <3>1, <3>2, Zenon
    <2>3. start + n <= Len(c) /\ Len(new) <= Rows
      BY <1>3 DEF ReplaceRows
    <2>4. start \in Nat /\ n \in Nat /\ Len(c) \in Nat
      BY <2>1
    <2> HIDE DEF c
    <2>5. SubSeq(c, 1, start) \in Seq(Objects) /\ SubSeq(c, start + n + 1, Len(c)) \in Seq(Objects)
      BY <2>1, <2>3, <2>4
    <2>6. new \in Seq(Objects)
      BY <2>2, <2>5
    <2>7. content' = [content EXCEPT ![t] = new]
      BY <1>3 DEF ReplaceRows, c
    <2> HIDE DEF new
    <2>8. new \in [1..Len(new) -> Objects] /\ Len(new) \in 0..Rows
      BY <2>3, <2>6, ArrayTableAssumption
    <2>9. new \in Arrays
      BY <2>8 DEF Arrays
    <2> QED
      BY <1>0, <2>7, <2>9
  <1>4. ASSUME NEW t \in Tables, NEW p \in Properties, NEW desc \in BOOLEAN, SortContent(t, p, desc)
        PROVE  content' \in [Tables -> Arrays]
    <2>1. PICK sorted \in [DOMAIN content[t] -> Range(content[t])] : SetContent(t, sorted)
      BY <1>4, Zenon DEF SortContent
    <2>2. PICK n \in 0..Rows : content[t] \in [1..n -> Objects]
      BY <1>0 DEF Arrays
    <2>3. sorted \in [1..n -> Objects]
      BY <2>2 DEF Range
    <2>4. sorted \in Arrays
      BY <2>3 DEF Arrays
    <2> QED
      BY <1>2, <2>1, <2>4
  <1>5. CASE RowsAction
    <2>1. \/ content' = content
          \/ \E t \in Tables : \/ \E start \in 0..Rows, n \in 0..Rows, added \in {<<>>} \cup {<<o>> : o \in Objects} :
                                     ReplaceRows(t, start, n, added)
                               \/ \E array \in Arrays : SetContent(t, array)
                               \/ \E p \in Properties, desc \in BOOLEAN : SortContent(t, p, desc)
      BY <1>5, Zenon DEF RowsAction, ChangeRows, ChangeObject, SetProperty, SetColumns
    <2> QED
      BY <1>1, <1>2, <1>3, <1>4, <2>1, Zenon
  <1>6. RowsAction \/ content' = content
    BY RowSteps DEF tableVars
  <1> QED
    BY <1>1, <1>5, <1>6

\* Every step keeps all types.
LEMMA TypesStep == Types /\ [Next]_vars => Types'
  BY FrameSteps, FrameStepTypes, SplitSteps, SplitStepsTypes, ColumnSteps, ColumnStepTypes,
     StackSteps, MouseSteps, ContentSteps DEF Types

\* The types hold at first.
LEMMA TypesInit == Init => Types
  <1> SUFFICES ASSUME Init PROVE Types
    OBVIOUS
  <1>1. FrameTypes
    <2>1. layout \in PanelLayout /\ title \in TitleView /\ thumb \in ThumbView
      BY FreshTypes DEF Init, FrameInit
    <2>2. style \in PanelStyle
      BY FreshTypes, TranslateType DEF Init, FrameInit
    <2>3. keyed \in BOOLEAN /\ reused \in BOOLEAN /\ shown \in BOOLEAN
      <3>1. keyed = ("keyed" \in env) /\ reused = ("reused" \in env) /\ shown = FALSE
        BY Zenon DEF Init, FrameInit
      <3>2. ASSUME NEW e PROVE (e \in env) \in BOOLEAN
        <4>1. CASE e \in env
          BY <4>1
        <4>2. CASE ~(e \in env)
          BY <4>2
        <4> QED
          BY <4>1, <4>2
      <3> QED
        BY <3>1, <3>2, Zenon
    <2>4. kind \in {"centered", "panel", "popover"}
      BY DEF Init, HasPanel
    <2>5. window \in Windows
      BY FrameAssumption DEF Init
    <2>6. stored = {}
      BY DEF Init, FrameInit
    <2> QED
      BY <2>1, <2>2, <2>3, <2>4, <2>5, <2>6 DEF FrameTypes
  <1>2. SplitTypes
    <2>1. Total \in Int
      BY <1>1, SizeTypes DEF Total, FrameTypes, PanelStyle
    <2>2. first \in Int /\ second \in Int
      BY <2>1, DividedFacts DEF Init, SplitInit, DefaultSize
    <2>3. flex \in {"first", "second"}
      BY DEF Init
    <2> QED
      BY <2>2, <2>3 DEF Init, SplitInit, SplitTypes, FreshDivider, DividerView
  <1>3. ColumnTypes
    <2>1. table \in TableChart
      BY DEF Init, ColumnsInit, FreshTable, TableChart
    <2>2. attached \in BOOLEAN
      BY Zenon DEF Init, ColumnsInit
    <2>3. headerWidth \in [Columns -> Int] /\ dataWidth \in [Columns -> Int]
      BY DEF Init, ColumnsInit, RenderedWidths, Columns, DefaultColumnWidth
    <2>4. rowHeaderWidth \in Int /\ cornerWidth \in Int /\ scroll \in Int /\ headerAt \in Int
      BY DEF Init, ColumnsInit, DefaultColumnWidth
    <2>5. scrolling \in ScrollState
      <3>1. ASSUME NEW b \in BOOLEAN PROVE [is |-> b, last |-> 0, lastSet |-> -1] \in ScrollState
        BY DEF ScrollState
      <3>2. FALSE \in BOOLEAN /\ scrolling = [is |-> FALSE, last |-> 0, lastSet |-> -1]
        BY Zenon DEF Init, ColumnsInit
      <3> QED
        BY <3>1, <3>2, Zenon
    <2> QED
      BY <2>1, <2>2, <2>3, <2>4, <2>5 DEF ColumnTypes
  <1>4. StackTypes
    <2>1. box \in [Stacks \cup Stacked -> Box]
      <3>1. ASSUME NEW n \in Int, NEW b \in BOOLEAN PROVE [top |-> 0, height |-> n, isVisible |-> b] \in Box
        BY DEF Box
      <3>2. TRUE \in BOOLEAN
        BY Zenon
      <3> DEFINE B(n) == [top |-> 0, height |-> n, isVisible |-> TRUE]
      <3>3. ASSUME NEW n \in Int PROVE B(n) \in Box
        BY <3>1, <3>2, Zenon
      <3>4. box = [v \in Stacks \cup Stacked |-> B(IF v \in Leaves THEN 30 ELSE 0)]
        BY DEF Init
      <3> HIDE DEF B
      <3> QED
        BY <3>3, <3>4
    <2>2. calls \in Seq(SetupCalls)
      <3>1. PICK order \in SetToSeqs(Innermost) :
              calls = IF "stack" \in env THEN [i \in DOMAIN order |-> SetupCall(order[i])] ELSE <<>>
        BY DEF Init
      <3>2. IsFiniteSet(Innermost) /\ Innermost \subseteq Stacks
        BY StackAssumption, FS_Subset DEF Innermost
      <3>3. Cardinality(Innermost) \in Nat
        BY <3>2, FS_CardinalityType
      <3>4. DOMAIN order = 1..Cardinality(Innermost) /\ \A i \in DOMAIN order : order[i] \in Stacks
        BY <3>2 DEF SetToSeqs
      <3>5. \A v \in Stacks : SetupCall(v) \in SetupCalls
        BY StackAssumption DEF SetupCall, SetupCalls
      <3>6. <<>> \in Seq(SetupCalls)
        OBVIOUS
      <3>7. [i \in DOMAIN order |-> SetupCall(order[i])] \in Seq(SetupCalls)
        BY <3>3, <3>4, <3>5
      <3> QED
        BY <3>1, <3>6, <3>7
    <2> QED
      BY <2>1, <2>2 DEF StackTypes
  <1>5. MouseTypes
    <2>1. held \in BOOLEAN /\ FALSE \in BOOLEAN
      BY Zenon DEF Init
    <2>2. ASSUME NEW b \in BOOLEAN PROVE [x |-> 0, y |-> 0, moved |-> b] \in Grabbed
      BY DEF Grabbed
    <2>3. grab \in Grabbed
      BY <2>1, <2>2, Zenon DEF Init, NoGrab
    <2> QED
      BY <2>1, <2>3 DEF Init, MouseTypes, NoPoint, Point
  <1>6. content \in [Tables -> Arrays]
    <2>1. <<>> \in Arrays
      BY ArrayTableAssumption DEF Arrays
    <2> QED
      BY <2>1 DEF Init, ArrayTableInit
  <1> QED
    BY <1>1, <1>2, <1>3, <1>4, <1>5, <1>6 DEF Types

-----------------------------------------------------------------------------
(* Which view is dragged *)

\* A panel that may be closed while it is dragged and then used again.
Loose == "closeDragging" \in env /\ reused

TitleDrag == title.state = "moving" => Loose \/ (held /\ responder = "title" /\ shown)

ThumbDrag == thumb.state = "resizing" =>
    "thumb" \in env /\ (Loose \/ (held /\ responder = "thumb" /\ shown))

\* The divider of a panel that was closed stays in its state; there will be a new one.
DividerDrag == divider.state = "resizing" =>
    /\ "split" \in env
    /\ \/ Loose
       \/ held /\ responder = "divider" /\ (HasPanel => shown)
       \/ HasPanel /\ ~shown /\ ~reused

TableDrag ==
    /\ table.state # "idle" => "table" \in env
    /\ table.state = "resizing" \/ (table.state # "idle" /\ "rowHeader" \notin env)
          => held /\ responder = "table"

\* A view whose statechart is in a drag is the mouse responder, the button is held
\* and it is in the document, with these exceptions.
DragInv == (shown => HasPanel) /\ TitleDrag /\ ThumbDrag /\ DividerDrag /\ TableDrag

\* Nothing is dragged at first.
LEMMA DragInit == Init => DragInv
  <1> SUFFICES ASSUME Init PROVE DragInv
    OBVIOUS
  <1>1. title.state = "idle" /\ thumb.state = "idle" /\ divider.state = "idle" /\ table.state = "idle"
    BY DEF Init, FrameInit, SplitInit, ColumnsInit, FreshTitle, FreshThumb, FreshDivider, FreshTable
  <1>2. ~shown
    BY Zenon DEF Init, FrameInit
  <1> QED
    BY <1>1, <1>2 DEF DragInv, TitleDrag, ThumbDrag, DividerDrag, TableDrag

\* The page has the views it has, and the panel stays reused or not.
LEMMA EnvStays == Types /\ [Next]_vars => UNCHANGED <<env, keyed, reused, kind>>
  <1> SUFFICES ASSUME Types, [Next]_vars PROVE UNCHANGED <<env, keyed, reused, kind>>
    OBVIOUS
  <1>1. UNCHANGED env
    <2>1. CASE Next
      BY <2>1, NextCases, Zenon DEF OpenPanel, OpenBeside, ClosePanel, ReloadPage, WindowResized, LayoutStep, StackAction,
           ContentHeight, ContentVisible, PaneSize, PressAction,
           PressTitle, PressThumb, PressDivider, PressRowHandle, PressElsewhere, PressHandle, PressHeader, Press,
           MovePointer, Release, DoubleClick, TableAction, SetHeaders, Scroll, AnimationFrame, RowsAction,
           ChangeRows, ChangeObject, NoMouse, mouseVars
    <2>2. CASE UNCHANGED vars
      BY <2>2 DEF vars, mouseVars
    <2> QED
      BY <2>1, <2>2
  <1>2. UNCHANGED <<keyed, reused, kind>>
    <2>1. FrameStep
      BY FrameSteps
    <2> QED
      BY <2>1, Zenon DEF FrameStep, frameVars, Popup, PopupBeside, PopupWith, Close, Reload, ResizeWindow,
         TitleMouseDown, ThumbMouseDown, TitleMouseMove, ThumbMouseMove, TitleMouseUp, ThumbMouseUp
  <1> QED
    BY <1>1, <1>2

\* How the statecharts' states change: only by the mouse, by closing the panel and
\* by opening a new one.
LEMMA StatesStay ==
    ASSUME Types, Next, ~PressAction, ~ClosePanel, ~ReloadPage, ~Release
    PROVE  /\ title'.state = title.state /\ thumb'.state = thumb.state /\ table'.state = table.state
           /\ held' = held /\ responder' = responder
           /\ \/ divider'.state = divider.state /\ shown' = shown
              \/ /\ HasPanel /\ ~held /\ ~shown /\ shown'
                 /\ \/ divider'.state = divider.state /\ (reused \/ "split" \notin env)
                    \/ divider'.state = "idle"
  <1>1. CASE \E p \in Points : MovePointer(p)
    <2>1. PICK p \in Points : MovePointer(p)
      BY <1>1
    <2>2. held' = held /\ responder' = responder
      BY <2>1, Zenon DEF MovePointer
    <2>3. shown' = shown
      BY <2>1, Zenon DEF MovePointer, TitleMouseMove, ThumbMouseMove, NoFrame, frameVars
    <2>4. title'.state = title.state /\ thumb'.state = thumb.state
      BY <2>1 DEF MovePointer, TitleMouseMove, ThumbMouseMove, NoFrame, frameVars, Types, FrameTypes, TitleView
    <2>5. divider'.state = divider.state
      BY <2>1, Zenon DEF MovePointer, DividerMouseMove, NoSplit, splitVars
    <2>6. table'.state = table.state
      BY <2>1, Zenon DEF MovePointer, TableMouseMove, columnVars
    <2> QED
      BY <2>2, <2>3, <2>4, <2>5, <2>6, Zenon
  <1>2. CASE OpenPanel \/ \E a \in Anchors, side \in Sides : OpenBeside(a, side)
    <2>1. /\ UNCHANGED <<held, responder, title, thumb, table>>
          /\ HasPanel /\ ~held /\ ~shown /\ shown' /\ InsertContent
      BY <1>2, Zenon DEF OpenPanel, OpenBeside, Popup, PopupBeside, PopupWith, NoTable, columnVars, mouseVars
    <2>2. \/ divider'.state = divider.state /\ (reused \/ "split" \notin env)
          \/ divider'.state = "idle"
      BY <2>1 DEF InsertContent, SplitInserted, FreshDivider, NoSplit, splitVars
    <2> QED
      BY <2>1, <2>2, Zenon
  <1>3. CASE \/ (\E w \in Windows : WindowResized(w)) \/ LayoutStep \/ StackAction
             \/ (\E size \in {100, 150} : PaneSize(size)) \/ DoubleClick \/ TableAction \/ RowsAction
    <2>1. UNCHANGED <<held, responder, title, thumb, table, divider, shown>>
      BY <1>3, Zenon DEF WindowResized, ResizeWindow, LayoutStep, StackAction, ContentHeight, ContentVisible,
         PaneSize, SplitSetSize, DoubleClick, ToggleCollapse, AutoWidth, TableAction, SetHeaders, Render,
         Scroll, DidScroll, AnimationFrame, UpdateHeaderPositions, RowsAction, ChangeRows, ChangeObject,
         NoMouse, NoFrame, NoSplit, NoTable, mouseVars, frameVars, splitVars, columnVars
    <2> QED
      BY <2>1, Zenon
  <1> QED
    BY <1>1, <1>2, <1>3, NextCases

\* A mouseDown: the button was not held, and the view whose state changed is the mouse
\* responder.  (After a press of a row header it is not.)
LEMMA PressStates ==
    ASSUME Types, PressAction
    PROVE  /\ ~held /\ held' /\ shown' = shown
           /\ \/ title'.state = title.state
              \/ responder' = "title" /\ shown
           /\ \/ thumb'.state = thumb.state
              \/ responder' = "thumb" /\ shown /\ "thumb" \in env
           /\ \/ divider'.state = divider.state
              \/ responder' = "divider" /\ HasSplit
           /\ \/ table'.state = table.state
              \/ /\ "table" \in env
                 /\ responder' = "table" \/ (table'.state = "clickInProgress" /\ "rowHeader" \in env)
  <1>0. ~held /\ held'
    BY PressSteps, Zenon DEF Press
  <1>1. CASE PressTitle
    <2>1. UNCHANGED <<shown, thumb, divider, table>>
      BY <1>1, Zenon DEF PressTitle, TitleMouseDown, NoFrame, NoSplit, NoTable, frameVars, splitVars, columnVars
    <2>2. shown /\ (responder' = "title" \/ title'.state = title.state)
      BY <1>1, Zenon DEF PressTitle, Press, NoFrame, frameVars
    <2> QED
      BY <1>0, <2>1, <2>2, Zenon
  <1>2. CASE PressThumb
    <2>1. UNCHANGED <<shown, title, divider, table>>
      BY <1>2, Zenon DEF PressThumb, ThumbMouseDown, NoFrame, NoSplit, NoTable, frameVars, splitVars, columnVars
    <2>2. shown /\ "thumb" \in env /\ (responder' = "thumb" \/ thumb'.state = thumb.state)
      BY <1>2, Zenon DEF PressThumb, Press, NoFrame, frameVars
    <2> QED
      BY <1>0, <2>1, <2>2, Zenon
  <1>3. CASE PressDivider
    <2>1. UNCHANGED <<shown, title, thumb, table>>
      BY <1>3, Zenon DEF PressDivider, NoFrame, NoTable, frameVars, columnVars
    <2>2. HasSplit /\ (responder' = "divider" \/ divider'.state = divider.state)
      BY <1>3, Zenon DEF PressDivider, Press, NoSplit, splitVars
    <2> QED
      BY <1>0, <2>1, <2>2, Zenon
  <1>4. CASE PressRowHandle \/ \E c \in Columns, p \in Points : PressHandle(c, p.x)
    <2>1. UNCHANGED <<shown, title, thumb, divider>>
      BY <1>4, Zenon DEF PressRowHandle, PressHandle, NoFrame, NoSplit, frameVars, splitVars
    <2>2. "table" \in env /\ (responder' = "table" \/ table'.state = table.state)
      BY <1>4 DEF PressRowHandle, PressHandle, Press, columnVars
    <2> QED
      BY <1>0, <2>1, <2>2, Zenon
  <1>5. CASE PressElsewhere
    <2>1. UNCHANGED <<shown, title, thumb, divider, table>>
      BY <1>5, Zenon DEF PressElsewhere, NoFrame, NoSplit, NoTable, frameVars, splitVars, columnVars
    <2> QED
      BY <1>0, <2>1, Zenon
  <1>6. CASE \E type \in {"row", "column"} : PressHeader(type)
    <2>1. UNCHANGED <<shown, title, thumb, divider>>
      BY <1>6, Zenon DEF PressHeader, NoFrame, NoSplit, frameVars, splitVars
    <2>2. /\ "table" \in env
          /\ \/ responder' = "table" \/ table'.state = table.state
             \/ table'.state = "clickInProgress" /\ "rowHeader" \in env
      BY <1>6 DEF PressHeader, Press, HeaderMouseDown, columnVars, Types, ColumnTypes, TableChart
    <2> QED
      BY <1>0, <2>1, <2>2, Zenon
  <1> QED
    BY <1>1, <1>2, <1>3, <1>4, <1>5, <1>6 DEF PressAction

\* A mouseUp ends the drag of the mouse responder.
LEMMA ReleaseStates ==
    ASSUME Types, Release
    PROVE  /\ held /\ shown' = shown
           /\ title'.state \in {title.state, "idle"} /\ thumb'.state \in {thumb.state, "idle"}
           /\ divider'.state \in {divider.state, "idle"} /\ table'.state \in {table.state, "idle"}
           /\ responder = "title" /\ shown => title'.state = "idle"
           /\ responder = "thumb" /\ shown => thumb'.state = "idle"
           /\ responder = "divider" /\ HasSplit => divider'.state = "idle"
           /\ responder = "table" /\ "table" \in env => table'.state = "idle"
           /\ responder' = "table" => "table" \notin env
  <1>0. PICK v \in Receivers :
          /\ CASE v = "title" /\ InDrag(v) -> TitleMouseUp /\ leftAt' = (IF keyed THEN {Offset(style, layout)} ELSE {})
               [] v = "thumb" /\ InDrag(v) -> ThumbMouseUp /\ UNCHANGED leftAt
               [] OTHER -> NoFrame /\ UNCHANGED leftAt
          /\ IF v = "divider" /\ InDrag(v) THEN DividerMouseUp ELSE NoSplit
          /\ IF v = "table" /\ table.state # "idle" THEN TableMouseUp ELSE UNCHANGED columnVars
    BY Zenon DEF Release
  <1>1. responder # "none" => v = responder
    BY DEF Receivers
  <1>2. /\ title.state \in {"idle", "moving"} /\ thumb.state \in {"idle", "resizing"}
        /\ divider.state \in {"idle", "resizing"}
    BY DEF Types, FrameTypes, TitleView, ThumbView, SplitTypes, DividerView
  <1>3. /\ TitleMouseUp => title'.state = "idle" /\ shown' = shown /\ thumb' = thumb
        /\ ThumbMouseUp => thumb'.state = "idle" /\ shown' = shown /\ title' = title
        /\ NoFrame => shown' = shown /\ thumb' = thumb /\ title' = title
    <2>1. TitleMouseUp => title'.state = "idle"
      BY DEF TitleMouseUp, FreshTitle
    <2>2. ThumbMouseUp => thumb'.state = "idle"
      BY DEF ThumbMouseUp, FreshThumb
    <2> QED
      BY <2>1, <2>2, Zenon DEF TitleMouseUp, ThumbMouseUp, NoFrame, frameVars
  <1>4. DividerMouseUp => divider'.state = "idle"
    BY DEF DividerMouseUp, FreshDivider
  <1>5. TableMouseUp => table'.state = "idle"
    BY DEF TableMouseUp, ClickMouseUp, ResizeMouseUp, FreshTable
  <1>6. /\ InDrag("title") <=> shown /\ title.state = "moving"
        /\ InDrag("thumb") <=> shown /\ thumb.state = "resizing"
        /\ InDrag("divider") <=> HasSplit /\ divider.state = "resizing"
        /\ InDOM("table") <=> "table" \in env
    BY DEF InDrag, InDOM
  <1>7. \/ v = "title" /\ InDrag(v) /\ TitleMouseUp
        \/ v = "thumb" /\ InDrag(v) /\ ThumbMouseUp
        \/ ~(v = "title" /\ InDrag(v)) /\ ~(v = "thumb" /\ InDrag(v)) /\ NoFrame
    BY <1>0, Zenon
  <1>8. /\ shown' = shown
        /\ title'.state \in {title.state, "idle"} /\ thumb'.state \in {thumb.state, "idle"}
    BY <1>3, <1>7, Zenon
  <1>9. responder = "title" /\ shown => title'.state = "idle"
    BY <1>1, <1>2, <1>3, <1>6, <1>7
  <1>10. responder = "thumb" /\ shown => thumb'.state = "idle"
    BY <1>1, <1>2, <1>3, <1>6, <1>7
  <1>11. /\ divider'.state \in {divider.state, "idle"}
         /\ responder = "divider" /\ HasSplit => divider'.state = "idle"
    BY <1>0, <1>1, <1>2, <1>4, <1>6 DEF NoSplit, splitVars
  <1>12. /\ table'.state \in {table.state, "idle"}
         /\ responder = "table" /\ "table" \in env => table'.state = "idle"
    BY <1>0, <1>1, <1>5, <1>6 DEF columnVars
  <1>13. responder' = "table" => "table" \notin env
    BY <1>6 DEF Release
  <1>14. held
    BY Zenon DEF Release
  <1> QED
    BY <1>8, <1>9, <1>10, <1>11, <1>12, <1>13, <1>14

\* Closing the panel.
LEMMA CloseStates ==
    ASSUME Types, ClosePanel
    PROVE  /\ shown /\ ~shown' /\ held' = held /\ (held => "closeDragging" \in env)
           /\ divider'.state = divider.state /\ table'.state = table.state
           /\ ~reused => title'.state = "idle" /\ thumb'.state = "idle"
           /\ reused => title'.state = title.state /\ thumb'.state = thumb.state /\ responder' = responder
           /\ responder' = responder \/ responder \in {"title", "thumb", "divider"}
  <1>1. ~reused => title'.state = "idle" /\ thumb'.state = "idle"
    BY DEF ClosePanel, Close, FreshTitle, FreshThumb
  <1>2. divider' = divider /\ table' = table
    BY Zenon DEF ClosePanel, NoSplit, NoTable, splitVars, columnVars
  <1>3. /\ shown /\ ~shown' /\ held' = held /\ (held => "closeDragging" \in env)
        /\ reused => title' = title /\ thumb' = thumb /\ responder' = responder
        /\ responder' = responder \/ responder \in {"title", "thumb", "divider"}
    BY Zenon DEF ClosePanel, Close
  <1> QED
    BY <1>1, <1>2, <1>3, Zenon

\* Every step keeps it that only the mouse responder is dragged.
LEMMA DragStep == Types /\ DragInv /\ [Next]_vars => DragInv'
  <1> SUFFICES ASSUME Types, DragInv, [Next]_vars PROVE DragInv'
    OBVIOUS
  <1>0. env' = env /\ reused' = reused /\ (HasPanel' <=> HasPanel) /\ (Loose' <=> Loose)
    BY EnvStays DEF HasPanel, Loose
  <1>1. CASE PressAction
    <2> USE <1>0, <1>1, PressStates
    <2>1. TitleDrag' /\ (shown' => HasPanel')
      BY DEF DragInv, TitleDrag
    <2>2. ThumbDrag'
      BY DEF DragInv, ThumbDrag
    <2>3. DividerDrag'
      BY DEF DragInv, DividerDrag, HasSplit
    <2>4. TableDrag'
      BY DEF DragInv, TableDrag
    <2> QED
      BY <2>1, <2>2, <2>3, <2>4 DEF DragInv
  <1>2. CASE Release
    <2> USE <1>0, <1>2, ReleaseStates
    <2>1. TitleDrag' /\ (shown' => HasPanel')
      BY DEF DragInv, TitleDrag
    <2>2. ThumbDrag'
      BY DEF DragInv, ThumbDrag
    <2>3. DividerDrag'
      BY DEF DragInv, DividerDrag, HasSplit
    <2>4. TableDrag'
      BY DEF DragInv, TableDrag
    <2> QED
      BY <2>1, <2>2, <2>3, <2>4 DEF DragInv
  <1>3. CASE ClosePanel
    <2> USE <1>0, <1>3, CloseStates
    <2>1. TitleDrag' /\ (shown' => HasPanel')
      BY DEF DragInv, TitleDrag, Loose
    <2>2. ThumbDrag'
      BY DEF DragInv, ThumbDrag, Loose
    <2>3. DividerDrag'
      BY DEF DragInv, DividerDrag, Loose
    <2>4. TableDrag'
      BY DEF DragInv, TableDrag
    <2> QED
      BY <2>1, <2>2, <2>3, <2>4 DEF DragInv
  <1>4. CASE ReloadPage
    <2>1. title'.state = "idle" /\ thumb'.state = "idle"
      BY <1>4 DEF ReloadPage, Reload, FreshTitle, FreshThumb
    <2>2. divider' = divider /\ table' = table /\ ~shown' /\ env \cap {"stack", "split", "table", "rows"} = {}
      BY <1>4, Zenon DEF ReloadPage, Reload, NoSplit, NoTable, splitVars, columnVars
    <2>3. divider.state # "resizing" /\ table.state = "idle"
      BY <2>2 DEF DragInv, DividerDrag, TableDrag
    <2> QED
      BY <2>1, <2>2, <2>3 DEF DragInv, TitleDrag, ThumbDrag, DividerDrag, TableDrag
  <1>5. CASE Next /\ ~PressAction /\ ~ClosePanel /\ ~ReloadPage /\ ~Release
    <2> USE <1>0, <1>5, StatesStay
    <2>1. TitleDrag' /\ (shown' => HasPanel')
      BY DEF DragInv, TitleDrag
    <2>2. ThumbDrag'
      BY DEF DragInv, ThumbDrag
    <2>3. DividerDrag'
      BY DEF DragInv, DividerDrag
    <2>4. TableDrag'
      BY DEF DragInv, TableDrag
    <2> QED
      BY <2>1, <2>2, <2>3, <2>4 DEF DragInv
  <1>6. CASE UNCHANGED vars
    <2>1. UNCHANGED <<held, responder, shown, title, thumb, divider, table>>
      BY <1>6, Zenon DEF vars, frameVars, splitVars, columnVars, mouseVars
    <2> QED
      BY <1>0, <2>1 DEF DragInv, TitleDrag, ThumbDrag, DividerDrag, TableDrag
  <1> QED
    BY <1>1, <1>2, <1>3, <1>4, <1>5, <1>6

\* A view is dragged, or a header clicked, only while the mouse button is held, and
\* then it is the mouse responder; variables have their types: for every page, with
\* the exceptions that DraggedWhileHeld makes.
THEOREM DragsCorrect == Spec => []DraggedWhileHeld
  <1>1. Types /\ DragInv => DraggedWhileHeld
    <2> SUFFICES ASSUME Types, DragInv PROVE DraggedWhileHeld
      OBVIOUS
    <2>1. TypeOK
      <3>1. /\ env \in Pages /\ held \in BOOLEAN /\ pointer \in [x : Int, y : Int]
            /\ responder \in {"none", "gone", "title", "thumb", "divider", "table"}
            /\ window \in Windows /\ kind \in {"centered", "panel", "popover"}
            /\ content \in [Tables -> Arrays]
        BY DEF Types, MouseTypes, FrameTypes, Point
      <3>2. {keyed, reused, shown, attached, scrolling.is} \subseteq BOOLEAN
        <4>1. keyed \in BOOLEAN /\ reused \in BOOLEAN /\ shown \in BOOLEAN /\ attached \in BOOLEAN
              /\ scrolling.is \in BOOLEAN
          BY DEF Types, FrameTypes, ColumnTypes, ScrollState
        <4> QED
          BY <4>1, Zenon
      <3>3. /\ title.state \in {"idle", "moving"}
            /\ {thumb.state, divider.state} \subseteq {"idle", "resizing"}
            /\ table.state \in {"idle", "clickInProgress", "resizing"}
        BY DEF Types, FrameTypes, TitleView, ThumbView, SplitTypes, DividerView, ColumnTypes, TableChart
      <3>4. Cardinality(stored) <= 1 /\ Cardinality(unCollapsed) <= 1
        <4>1. ASSUME NEW S, S = {} \/ \E x : S = {x} PROVE Cardinality(S) <= 1
          <5>1. CASE S = {}
            BY <5>1, FS_EmptySet
          <5>2. ASSUME NEW x, S = {x} PROVE Cardinality(S) <= 1
            BY <5>2, FS_Singleton
          <5> QED
            BY <4>1, <5>1, <5>2
        <4>2. stored = {} \/ \E x : stored = {x}
          BY DEF Types, FrameTypes
        <4>3. unCollapsed = {} \/ \E x : unCollapsed = {x}
          BY DEF Types, SplitTypes
        <4> QED
          BY <4>1, <4>2, <4>3
      <3>5. DOMAIN headerWidth = Columns /\ DOMAIN dataWidth = Columns
        BY DEF Types, ColumnTypes
      <3> QED
        BY <3>1, <3>2, <3>3, <3>4, <3>5 DEF TypeOK
    <2>2. /\ InDrag("title") <=> shown /\ title.state = "moving"
          /\ InDrag("thumb") <=> shown /\ thumb.state = "resizing"
          /\ InDrag("divider") <=> HasSplit /\ divider.state = "resizing"
          /\ InDrag("table") <=> "table" \in env /\ table.state = "resizing"
      BY DEF InDrag, InDOM
    <2>3. ASSUME ~Loose, NEW v \in {"title", "thumb", "divider", "table"}, InDrag(v)
          PROVE  held /\ responder = v
      BY <2>2, <2>3 DEF DragInv, TitleDrag, ThumbDrag, DividerDrag, TableDrag, HasSplit
    <2>4. table.state # "idle" /\ "rowHeader" \notin env => held /\ responder = "table"
      BY DEF DragInv, TableDrag
    <2> QED
      BY <2>1, <2>3, <2>4 DEF DraggedWhileHeld, Loose
  <1> QED
    BY <1>1, TypesInit, TypesStep, DragInit, DragStep, PTL DEF Spec

-----------------------------------------------------------------------------
(* The panes of the split view *)

\* The panel keeps its width, unless it has a thumb.
WidthInv ==
    /\ layout.width = PanelSize.width
    /\ "thumb" \notin env => style.width = PanelSize.width

\* The panel has its width at first.
LEMMA WidthInit == Init => WidthInv
  BY FreshTypes, TranslateType DEF Init, FrameInit, WidthInv, FreshLayout

\* Opening a panel gives it a layout of its old size, where it was stored if it was.
LEMMA OpenLayout ==
    ASSUME FrameTypes, Popup \/ \E a \in Anchors, side \in Sides : PopupBeside(a, side)
    PROVE  /\ layout' \in PanelLayout /\ style' = TranslateLayout(layout')
           /\ layout'.width = layout.width /\ layout'.height = layout.height
           /\ keyed /\ stored # {} =>
                \A p \in stored : layout'.left = p.left /\ layout'.top = p.top /\ layout'.centered = FALSE
  <1>1. PICK l \in PanelLayout : PopupWith(l) /\ l.width = layout.width /\ l.height = layout.height
    <2>1. layout \in PanelLayout /\ FALSE \in BOOLEAN
      BY Zenon DEF FrameTypes
    <2>2. CASE Popup
      BY <2>1, <2>2 DEF Popup
    <2>3. ASSUME NEW a \in Anchors, NEW side \in Sides, PopupBeside(a, side)
          PROVE  \E l \in PanelLayout : PopupWith(l) /\ l.width = layout.width /\ l.height = layout.height
      <3> DEFINE l == IF kind = "panel" THEN LayoutRelativeTo(layout, a, side, FALSE)
                                        ELSE PopoverLayout(layout, a, side)
      <3>1. l \in PanelLayout /\ l.width = layout.width /\ l.height = layout.height
        BY <2>1, LayoutRelativeType, PopoverType, Zenon
      <3>2. PopupWith(l)
        BY <2>3 DEF PopupBeside
      <3> HIDE DEF l
      <3> QED
        BY <3>1, <3>2
    <2> QED
      BY <2>2, <2>3
  <1>2. layout' = Restored(l) /\ style' = TranslateLayout(layout')
    BY <1>1, Zenon DEF PopupWith
  <1> QED
    BY <1>1, <1>2, RestoredType

\* Every step keeps the width.
LEMMA WidthStep == Types /\ DragInv /\ WidthInv /\ [Next]_vars => WidthInv'
  <1> SUFFICES ASSUME Types, DragInv, WidthInv, [Next]_vars PROVE WidthInv'
    OBVIOUS
  <1>0. env' = env /\ kind' = kind /\ FrameStep /\ FrameTypes /\ FrameTypes'
    BY EnvStays, FrameSteps, FrameStepTypes DEF Types
  <1>1. CASE Popup \/ \E a \in Anchors, side \in Sides : PopupBeside(a, side)
    <2>1. style'.width = layout'.width /\ layout'.width = layout.width
      BY <1>0, <1>1, OpenLayout, TranslateType
    <2> QED
      BY <2>1 DEF WidthInv
  <1>2. CASE Close \/ Reload
    <2>1. style' = style /\ layout' \in {layout, FreshLayout}
      BY <1>2 DEF Close, Reload
    <2> QED
      BY <1>0, <2>1 DEF WidthInv, FreshLayout
  <1>3. CASE \E h \in Int : AdjustHeight(h)
    <2>1. layout'.width = layout.width
      BY <1>0, <1>3 DEF AdjustHeight, FrameTypes, PanelLayout
    <2>2. style' = style \/ style'.width = layout'.width
      BY <1>0, <1>3, TranslateType DEF AdjustHeight, FrameTypes
    <2> QED
      BY <1>0, <2>1, <2>2 DEF WidthInv
  <1>4. CASE \E x, y \in Int : TitleMouseMove(x, y)
    <2>1. layout' = layout /\ style'.width = style.width
      BY <1>0, <1>4 DEF TitleMouseMove, FrameTypes, PanelStyle
    <2> QED
      BY <1>0, <2>1 DEF WidthInv
  <1>5. CASE \E x, y \in Int : ThumbMouseMove(x, y) /\ InDrag("thumb")
    <2>1. "thumb" \in env
      BY <1>5 DEF InDrag, DragInv, ThumbDrag
    <2>2. layout' = layout
      BY <1>5 DEF ThumbMouseMove
    <2> QED
      BY <1>0, <2>1, <2>2 DEF WidthInv
  <1>6. CASE UNCHANGED <<layout, style>>
    BY <1>0, <1>6 DEF WidthInv
  <1>7. \/ Popup \/ (\E a \in Anchors, side \in Sides : PopupBeside(a, side)) \/ Close \/ Reload
        \/ (\E h \in Int : AdjustHeight(h)) \/ (\E x, y \in Int : TitleMouseMove(x, y))
        \/ (\E x, y \in Int : ThumbMouseMove(x, y) /\ InDrag("thumb")) \/ UNCHANGED <<layout, style>>
    BY <1>0, Zenon DEF FrameStep, ResizeWindow, TitleMouseDown, ThumbMouseDown, TitleMouseUp, ThumbMouseUp, frameVars
  <1> QED
    BY <1>1, <1>2, <1>3, <1>4, <1>5, <1>6, <1>7

\* The width of the split view does not change.
Steady == IF HasPanel THEN "thumb" \notin env ELSE "window" \notin env

Filled ==
    /\ first + Thickness + second = Total
    /\ second >= MinSecond
    /\ MinFirst + Thickness + MinSecond <= Total => first >= MinFirst

PanesInv == Steady => Filled

\* The panes fill the split view at first.
LEMMA PanesInit == Init => PanesInv
  <1> SUFFICES ASSUME Init PROVE Filled
    BY DEF PanesInv
  <1>1. Types
    BY TypesInit
  <1> QED
    BY <1>1, PlaceTypes, DividedFacts DEF Init, SplitInit, DefaultSize, Filled

\* Every step keeps the split view filled.
LEMMA PanesStep ==
    Types /\ WidthInv /\ PanesInv /\ [Next]_vars /\ WidthInv' => PanesInv'
  <1> SUFFICES ASSUME Types, WidthInv, PanesInv, [Next]_vars, WidthInv', Steady' PROVE Filled'
    BY DEF PanesInv
  <1>0. env' = env /\ (HasPanel' <=> HasPanel) /\ Steady
    BY EnvStays DEF HasPanel, Steady
  <1>1. Total' = Total /\ (HasPanel => Total = PanelSize.width)
    <2>1. CASE HasPanel
      BY <1>0, <2>1 DEF WidthInv, Total, Steady
    <2>2. CASE ~HasPanel
      <3>1. FrameStep /\ "window" \notin env
        BY <1>0, <2>2, FrameSteps DEF Steady
      <3>2. window' = window
        BY <3>1, Zenon DEF FrameStep, frameVars, Popup, PopupBeside, PopupWith, Close, Reload,
           TitleMouseDown, ThumbMouseDown, TitleMouseMove, ThumbMouseMove, TitleMouseUp, ThumbMouseUp
      <3> QED
        BY <1>0, <2>2, <3>2 DEF Total
    <2> QED
      BY <2>1, <2>2
  <1>2. Total \in Int
    BY PlaceTypes
  <1>3. ASSUME NEW n \in Int, SetSize(Total, n) PROVE Filled'
    BY <1>1, <1>2, <1>3, DividedFacts DEF SetSize, Filled
  <1>4. CASE UNCHANGED <<first, second>>
    BY <1>0, <1>1, <1>4 DEF PanesInv, Filled
  <1>5. /\ OwnSize \in Int /\ OwnMin \in Int /\ DefaultSize \in Int
        /\ unCollapsed # {} => (CHOOSE x \in unCollapsed : TRUE) \in Int
        /\ divider.startFirst \in Int /\ divider.startSecond \in Int /\ divider.page \in Int
    BY SplitAssumption DEF Types, SplitTypes, OwnSize, OwnMin, DefaultSize, DividerView
  <1>6. UNCHANGED <<first, second>> \/ \E n \in Int : SetSize(Total, n)
    <2>1. SplitStep
      BY SplitSteps
    <2>2. ASSUME NEW size \in Int, DividerMouseMove(Total, size) PROVE \E n \in Int : SetSize(Total, n)
      <3>1. divider.startFirst + (size - divider.page) \in Int /\ divider.startSecond - (size - divider.page) \in Int
        BY <1>5
      <3> QED
        BY <2>2, <3>1 DEF DividerMouseMove
    <2>3. CASE ToggleCollapse(Total)
      BY <1>5, <2>3, Zenon DEF ToggleCollapse
    <2>4. CASE HasPanel /\ SplitInserted(PanelSize.width, ~reused)
      <3>1. SetSize(Total, IF ~reused THEN DefaultSize ELSE OwnSize)
        BY <1>1, <2>4, Zenon DEF SplitInserted
      <3> QED
        BY <1>5, <3>1, Zenon
    <2> QED
      BY <2>1, <2>2, <2>3, <2>4, Zenon DEF SplitStep, splitVars, SplitSetSize, DividerMouseDown, DividerMouseUp
  <1> QED
    BY <1>3, <1>4, <1>6

\* The panes and the divider fill the split view and have their minimal sizes,
\* whatever dragged, collapsed or set them, for every size of the view and every
\* minimum.
THEOREM PanesCorrect == Spec => []PanesFillView
  <1>1. PanesInv => PanesFillView
    BY DEF PanesInv, Steady, Filled, PanesFillView
  <1> QED
    BY <1>1, TypesInit, TypesStep, DragInit, DragStep, WidthInit, WidthStep, PanesInit, PanesStep, PTL DEF Spec

-----------------------------------------------------------------------------
(* What is dragged, and the pointer *)

\* A page without a stack never has a cascade of layout changes.
QuietInv == "stack" \notin env => Quiet

\* Without stacks there is nothing to set up.
LEMMA QuietInit == Init => QuietInv
  BY DEF Init, QuietInv, Quiet

\* And there never will be.
LEMMA QuietStep == Types /\ QuietInv /\ [Next]_vars => QuietInv'
  <1> SUFFICES ASSUME Types, QuietInv, [Next]_vars, "stack" \notin env' PROVE Quiet'
    BY DEF QuietInv
  <1>1. "stack" \notin env /\ calls = <<>>
    BY EnvStays DEF QuietInv, Quiet
  <1>2. CASE Next
    <2>1. ~StackAction /\ ~LayoutStep
      BY <1>1, Zenon DEF StackAction, ContentHeight, ContentVisible, LayoutStep, SetupStep, PlaceChild,
         SetStackHeight, SetupReturns
    <2>2. UNCHANGED stackVars
      BY <1>2, <2>1, NextCases, Zenon DEF OpenPanel, OpenBeside, ClosePanel, ReloadPage, WindowResized, PaneSize,
         PressAction, PressTitle, PressThumb, PressDivider, PressRowHandle, PressElsewhere, PressHandle, PressHeader,
         MovePointer, Release, DoubleClick, TableAction, SetHeaders, Scroll, AnimationFrame, RowsAction,
         ChangeRows, ChangeObject, NoMouse, NoStack
    <2> QED
      BY <1>1, <2>2 DEF stackVars, Quiet
  <1>3. CASE UNCHANGED vars
    BY <1>1, <1>3 DEF vars, stackVars, Quiet
  <1> QED
    BY <1>2, <1>3

\* Nothing but the mouse changes sizes while the button is held.
Undisturbed == env \cap {"stack", "sizes", "refresh", "window"} = {}

tableDrag == <<tree, table, attached, headerWidth, dataWidth, rowHeaderWidth, cornerWidth>>

\* What can happen while the button is held on such a page.
LEMMA HeldSteps ==
    ASSUME Types, QuietInv, Undisturbed, held, held', [Next]_vars
    PROVE  \/ \E p \in Points : MovePointer(p)
           \/ ClosePanel
           \/ /\ UNCHANGED <<frameVars, splitVars, responder, pointer, grab>>
              /\ table.state = "resizing" => UNCHANGED tableDrag
  <1>1. env \cap {"stack", "sizes", "refresh", "window"} = {} /\ calls = <<>>
    BY DEF Undisturbed, QuietInv, Quiet
  <1>2. CASE UNCHANGED vars
    BY <1>2 DEF vars, mouseVars, columnVars, tableDrag
  <1>3. ~OpenPanel /\ ~(\E a \in Anchors, side \in Sides : OpenBeside(a, side)) /\ ~PressAction /\ ~DoubleClick
    <2>1. PressAction => ~held
      BY PressSteps, Zenon DEF Press
    <2> QED
      BY <2>1, Zenon DEF OpenPanel, OpenBeside, DoubleClick
  <1>4. ~ReloadPage /\ ~Release
    BY Zenon DEF ReloadPage, Release
  <1>5. ~StackAction /\ ~LayoutStep /\ ~(\E w \in Windows : WindowResized(w)) /\ ~(\E size \in {100, 150} : PaneSize(size))
    <2>1. "stack" \notin env /\ "sizes" \notin env /\ "window" \notin env
      BY <1>1
    <2> QED
      BY <1>1, <2>1, Zenon DEF StackAction, ContentHeight, ContentVisible, LayoutStep, SetupStep, PlaceChild,
         SetStackHeight, SetupReturns, WindowResized, PaneSize, MaySize
  <1>6. CASE RowsAction
    BY <1>6, Zenon DEF RowsAction, ChangeRows, ChangeObject, NoMouse, NoFrame, NoSplit, mouseVars, columnVars, tableDrag
  <1>7. CASE TableAction
    <2>1. UNCHANGED <<frameVars, splitVars, responder, pointer, grab>>
      BY <1>7, Zenon DEF TableAction, SetHeaders, Scroll, AnimationFrame, NoMouse, NoFrame, NoSplit, mouseVars
    <2>2. ASSUME table.state = "resizing" PROVE UNCHANGED tableDrag
      <3>1. "refresh" \notin env /\ table.state # "idle"
        BY <1>1, <2>2
      <3> QED
        BY <1>7, <3>1, Zenon DEF TableAction, SetHeaders, MayRefresh, Scroll, DidScroll, AnimationFrame,
           UpdateHeaderPositions, tableDrag
    <2> QED
      BY <2>1, <2>2
  <1> QED
    BY <1>2, <1>3, <1>4, <1>5, <1>6, <1>7, NextCases

\* The mouse responder alone gets the mouseMove.
LEMMA ResponderMoves ==
    ASSUME NEW p \in Points, MovePointer(p), held
    PROVE  /\ pointer' = p /\ responder' = responder /\ held' = held
           /\ responder = "title" /\ InDrag("title") => TitleMouseMove(p.x, p.y) /\ NoSplit
           /\ responder = "thumb" /\ InDrag("thumb") => ThumbMouseMove(p.x, p.y) /\ NoSplit
           /\ responder = "divider" /\ InDrag("divider") => DividerMouseMove(Total, p.x) /\ NoFrame
           /\ responder = "table" /\ InDrag("table") => TableMouseMove(p.x) /\ NoFrame
  <1>1. PICK v \in Receivers :
          /\ CASE v = "title" /\ InDrag(v) -> TitleMouseMove(p.x, p.y)
               [] v = "thumb" /\ InDrag(v) -> ThumbMouseMove(p.x, p.y)
               [] OTHER -> NoFrame
          /\ IF v = "divider" /\ InDrag(v) THEN DividerMouseMove(Total, p.x) ELSE NoSplit
          /\ IF v = "table" /\ InDrag(v) THEN TableMouseMove(p.x) ELSE UNCHANGED columnVars
    BY Zenon DEF MovePointer
  <1>2. responder # "none" => v = responder
    BY DEF Receivers
  <1>3. pointer' = p /\ responder' = responder /\ held' = held
    BY Zenon DEF MovePointer
  <1>4. CASE responder = "title"
    BY <1>1, <1>2, <1>3, <1>4
  <1>5. CASE responder = "thumb"
    BY <1>1, <1>2, <1>3, <1>5
  <1>6. CASE responder = "divider"
    BY <1>1, <1>2, <1>3, <1>6
  <1>7. CASE responder = "table"
    BY <1>1, <1>2, <1>3, <1>7
  <1> QED
    BY <1>3, <1>4, <1>5, <1>6, <1>7

TitleGrab ==
    held /\ responder = "title" /\ title.state = "moving" =>
        /\ title.panelX - title.pageX = grab.x /\ title.panelY - title.pageY = grab.y
        /\ shown =>
             /\ PanelAt.left - pointer.x = grab.x \/ PanelAt.left \in {5, title.limitX}
             /\ PanelAt.top - pointer.y = grab.y \/ PanelAt.top \in {5, title.limitY}

ThumbGrab ==
    held /\ responder = "thumb" /\ thumb.state = "resizing" =>
        /\ thumb.startW - thumb.pageX = grab.x /\ thumb.startH - thumb.pageY = grab.y
        /\ shown =>
             /\ style.width - pointer.x = grab.x \/ style.width = MinSize.width
             /\ style.height - pointer.y = grab.y \/ style.height = MinSize.height

\* (The pointer is on the page and the divider in its panel: grab is what the divider
\* had been from it.)
DividerGrab ==
    held /\ responder = "divider" /\ divider.state = "resizing" /\ (HasPanel => shown) =>
        /\ IF flex = "second" THEN divider.startFirst - divider.page = grab.x
                              ELSE Total - divider.startSecond - Thickness - divider.page = grab.x
        /\ DividerAt(Total) - pointer.x = grab.x \/ first = MinFirst \/ second = MinSecond

TableGrab ==
    table.state = "resizing" =>
        /\ attached /\ table.startX - table.dragStartX = grab.x
        /\ table.type = "column" =>
             /\ table.index \in Columns
             /\ \/ headerWidth[table.index] - pointer.x = grab.x
                \/ headerWidth[table.index] = MIN_COLUMN_WIDTH
        /\ table.type = "row" =>
             rowHeaderWidth - pointer.x = grab.x \/ rowHeaderWidth = MIN_COLUMN_WIDTH

GrabInv == Undisturbed => TitleGrab /\ ThumbGrab /\ DividerGrab /\ TableGrab

\* The button goes down by a mouseDown.
LEMMA HeldByPress == Types /\ [Next]_vars /\ ~held /\ held' => PressAction
  <1> SUFFICES ASSUME Types, [Next]_vars, ~held, held', ~PressAction PROVE FALSE
    OBVIOUS
  <1>1. Next
    BY Zenon DEF vars, mouseVars
  <1>2. ~ClosePanel /\ ~ReloadPage /\ ~Release
    BY Zenon DEF ClosePanel, ReloadPage, Release
  <1> QED
    BY <1>1, <1>2, StatesStay

\* A mouseDown grabs what it is on.
LEMMA PressGrabs ==
    ASSUME Types, PressAction
    PROVE  TitleGrab' /\ ThumbGrab' /\ DividerGrab'
  <1>0. /\ responder' = "title" => PressTitle /\ title.state = "idle"
        /\ responder' = "thumb" => PressThumb /\ thumb.state = "idle"
        /\ responder' = "divider" => PressDivider /\ divider.state = "idle"
    BY DEF PressAction, PressTitle, PressThumb, PressDivider, PressRowHandle, PressElsewhere, PressHandle,
       PressHeader, Press
  <1>1. ASSUME responder' = "title" PROVE TitleGrab'
    <2> DEFINE X == PanelAt.left
               Y == PanelAt.top
    <2>1. X \in Int /\ Y \in Int
      BY PlaceTypes
    <2>2. /\ pointer' = [x |-> X + 10, y |-> Y + 10]
          /\ TitleMouseDown(X + 10, Y + 10) /\ Grab(X, Y)
      BY <1>0, <1>1, Zenon DEF PressTitle, Press
    <2>3. title'.panelX = X /\ title'.panelY = Y /\ title'.pageX = X + 10 /\ title'.pageY = Y + 10
      BY <2>2 DEF TitleMouseDown, Types, FrameTypes, TitleView, PanelAt
    <2>4. PanelAt' = PanelAt
      BY <2>2 DEF TitleMouseDown, PanelAt, Offset
    <2>5. pointer'.x = X + 10 /\ pointer'.y = Y + 10
      BY <2>2
    <2>6. grab'.x = X - pointer'.x /\ grab'.y = Y - pointer'.y
      BY <2>2 DEF Grab
    <2> QED
      BY <2>1, <2>3, <2>4, <2>5, <2>6 DEF TitleGrab
  <1>2. ASSUME responder' = "thumb" PROVE ThumbGrab'
    <2> DEFINE X == PanelAt.left + style.width
               Y == PanelAt.top + style.height
    <2>1. X \in Int /\ Y \in Int /\ style.width \in Int /\ style.height \in Int
      BY PlaceTypes
    <2>2. /\ pointer' = [x |-> X, y |-> Y]
          /\ ThumbMouseDown(X, Y) /\ Grab(style.width, style.height)
      BY <1>0, <1>2, Zenon DEF PressThumb, Press
    <2> HIDE DEF X, Y
    <2>3. /\ thumb'.startW = style.width /\ thumb'.startH = style.height /\ thumb'.pageX = X /\ thumb'.pageY = Y
          /\ style' = style
      BY <2>2 DEF ThumbMouseDown
    <2>4. pointer'.x = X /\ pointer'.y = Y
      BY <2>2
    <2>5. grab'.x = style.width - pointer'.x /\ grab'.y = style.height - pointer'.y
      BY <2>2 DEF Grab
    <2> QED
      BY <2>1, <2>3, <2>4, <2>5 DEF ThumbGrab
  <1>3. ASSUME responder' = "divider" PROVE DividerGrab'
    <2> DEFINE X == DividerAt(Total) + (IF HasPanel THEN PanelAt.left ELSE 0)
    <2>1. X \in Int /\ DividerAt(Total) \in Int /\ Total \in Int /\ first \in Int /\ second \in Int
      BY PlaceTypes DEF Types, SplitTypes
    <2>2. /\ pointer' = [x |-> X, y |-> 0] /\ env' = env
          /\ DividerMouseDown(X) /\ Grab(DividerAt(Total), 0) /\ NoFrame
      BY <1>0, <1>3, Zenon DEF PressDivider, Press
    <2> HIDE DEF X
    <2>3. /\ divider'.startFirst = first /\ divider'.startSecond = second /\ divider'.page = X
          /\ flex' = flex /\ first' = first /\ second' = second
      BY <2>2 DEF DividerMouseDown
    <2>4. Total' = Total
      BY <2>2 DEF NoFrame, frameVars, Total, HasPanel
    <2>5. pointer'.x = X
      BY <2>2
    <2>6. grab'.x = DividerAt(Total) - pointer'.x
      BY <2>2 DEF Grab
    <2>7. DividerAt(Total)' = DividerAt(Total)
      BY <2>3, <2>4 DEF DividerAt
    <2> QED
      BY <2>1, <2>3, <2>4, <2>5, <2>6, <2>7 DEF DividerGrab, DividerAt, Thickness
  <1> QED
    BY <1>1, <1>2, <1>3 DEF TitleGrab, ThumbGrab, DividerGrab

\* ... in the table too.
LEMMA PressGrabsTable ==
    ASSUME Types, PressAction, table.state # "resizing"
    PROVE  TableGrab'
  <1> SUFFICES ASSUME table'.state = "resizing" PROVE TableGrab'
    BY DEF TableGrab
  <1>1. table' # table
    OBVIOUS
  <1>2. CASE PressRowHandle
    <2>1. /\ RowHandleMouseDown(cornerWidth) /\ pointer' = [x |-> cornerWidth, y |-> 0]
          /\ Grab(rowHeaderWidth, 0)
      BY <1>1, <1>2 DEF PressRowHandle, Press, columnVars
    <2>2. /\ table'.type = "row" /\ table'.startX = rowHeaderWidth /\ table'.dragStartX = cornerWidth
          /\ rowHeaderWidth' = rowHeaderWidth
      BY <2>1 DEF RowHandleMouseDown
    <2>3. attached'
      BY <2>1, Zenon DEF RowHandleMouseDown
    <2>4. pointer'.x = cornerWidth /\ grab'.x = rowHeaderWidth - pointer'.x
      BY <2>1 DEF Grab
    <2>5. rowHeaderWidth \in Int /\ cornerWidth \in Int
      BY PlaceTypes
    <2> QED
      BY <2>2, <2>3, <2>4, <2>5 DEF TableGrab
  <1>3. CASE \E c \in Columns, p \in Points : PressHandle(c, p.x)
    <2>0. PICK c \in Columns, p \in Points : PressHandle(c, p.x)
      BY <1>3
    <2>1. /\ HandleMouseDown(c, p.x) /\ pointer' = [x |-> p.x, y |-> 0]
          /\ Grab(headerWidth[c], 0)
      BY <1>1, <2>0 DEF PressHandle, Press, columnVars
    <2>2. /\ table'.type = "column" /\ table'.index = c
          /\ table'.startX = headerWidth[c] /\ table'.dragStartX = p.x
          /\ headerWidth' = headerWidth /\ tree' = tree
      BY <2>1 DEF HandleMouseDown
    <2>3. attached'
      BY <2>1, Zenon DEF HandleMouseDown
    <2>4. pointer'.x = p.x /\ grab'.x = headerWidth[c] - pointer'.x
      BY <2>1 DEF Grab
    <2>5. headerWidth[c] \in Int /\ p.x \in Int
      BY PlaceTypes
    <2>6. Columns' = Columns
      BY <2>2 DEF Columns
    <2> QED
      BY <2>2, <2>3, <2>4, <2>5, <2>6 DEF TableGrab
  <1>4. CASE PressTitle \/ PressThumb \/ PressDivider \/ PressElsewhere \/ \E type \in {"row", "column"} : PressHeader(type)
    <2>1. table' = table \/ HeaderMouseDown
      BY <1>4, Zenon DEF PressTitle, PressThumb, PressDivider, PressElsewhere, PressHeader, NoTable, columnVars
    <2>2. HeaderMouseDown => table'.state = "clickInProgress"
      BY DEF HeaderMouseDown, Types, ColumnTypes, TableChart
    <2> QED
      BY <1>1, <2>1, <2>2
  <1> QED
    BY <1>2, <1>3, <1>4 DEF PressAction

\* A mouseMove brings what is dragged to the pointer, or to its limit.
LEMMA MoveGrabs ==
    ASSUME Types, DragInv, held, NEW p \in Points, MovePointer(p),
           TitleGrab, ThumbGrab, DividerGrab, TableGrab
    PROVE  TitleGrab' /\ ThumbGrab' /\ DividerGrab' /\ TableGrab'
  <1>0. /\ pointer' = p /\ responder' = responder /\ env' = env
        /\ p.x \in Int /\ p.y \in Int
    BY ResponderMoves, PlaceTypes DEF MovePointer
  <1>1. grab'.x = grab.x /\ grab'.y = grab.y /\ grab.x \in Int /\ grab.y \in Int
    BY DEF MovePointer, Types, MouseTypes, Grabbed
  <1>2. /\ InDrag("title") <=> shown /\ title.state = "moving"
        /\ InDrag("thumb") <=> shown /\ thumb.state = "resizing"
        /\ InDrag("divider") <=> HasSplit /\ divider.state = "resizing"
        /\ InDrag("table") <=> "table" \in env /\ table.state = "resizing"
    BY DEF InDrag, InDOM
  <1>3. /\ title'.state = title.state /\ thumb'.state = thumb.state /\ shown' = shown
        /\ table'.state = table.state /\ divider'.state = divider.state
    <2>1. Next /\ ~PressAction /\ ~ClosePanel /\ ~ReloadPage /\ ~Release
      <3>1. Next
        BY Zenon DEF Next
      <3>2. held'
        BY Zenon DEF MovePointer
      <3>3. ~PressAction /\ ~ReloadPage /\ ~Release
        <4>1. PressAction => ~held
          BY PressSteps, Zenon DEF Press
        <4> QED
          BY <3>2, <4>1, Zenon DEF ReloadPage, Release
      <3>4. ~ClosePanel
        <4>1. shown' = shown
          BY Zenon DEF MovePointer, TitleMouseMove, ThumbMouseMove, NoFrame, frameVars
        <4> QED
          BY <4>1, Zenon DEF ClosePanel, Close
      <3> QED
        BY <3>1, <3>3, <3>4
    <2> QED
      BY <2>1, StatesStay
  <1>4. ASSUME responder = "title", title.state = "moving", shown PROVE TitleGrab'
    <2> DEFINE newX == Constrain(title.panelX + (p.x - title.pageX), title.limitX)
               newY == Constrain(title.panelY + (p.y - title.pageY), title.limitY)
    <2>1. /\ title.panelX - title.pageX = grab.x /\ title.panelY - title.pageY = grab.y
          /\ title.panelX \in Int /\ title.panelY \in Int /\ title.pageX \in Int /\ title.pageY \in Int
          /\ title.limitX \in Int /\ title.limitY \in Int
      BY <1>4 DEF TitleGrab, Types, FrameTypes, TitleView
    <2>2. TitleMouseMove(p.x, p.y)
      BY <1>2, <1>4, ResponderMoves
    <2>3. /\ newX \in Int /\ newX >= 5
          /\ newX = title.panelX + (p.x - title.pageX) \/ newX \in {5, title.limitX}
      <3>1. title.panelX + (p.x - title.pageX) \in Int
        BY <1>0, <2>1
      <3> QED
        BY <2>1, <3>1, ConstrainType
    <2>4. /\ newY \in Int /\ newY >= 5
          /\ newY = title.panelY + (p.y - title.pageY) \/ newY \in {5, title.limitY}
      <3>1. title.panelY + (p.y - title.pageY) \in Int
        BY <1>0, <2>1
      <3> QED
        BY <2>1, <3>1, ConstrainType
    <2>5. /\ title' = [title EXCEPT !.newX = newX, !.newY = newY]
          /\ style' = [style EXCEPT !.left = newX, !.top = newY, !.centered = FALSE]
      BY <2>2 DEF TitleMouseMove
    <2> HIDE DEF newX, newY
    <2>6. /\ title'.panelX = title.panelX /\ title'.panelY = title.panelY
          /\ title'.pageX = title.pageX /\ title'.pageY = title.pageY
          /\ title'.limitX = title.limitX /\ title'.limitY = title.limitY
      BY <2>5 DEF Types, FrameTypes, TitleView
    <2>7. style'.left = newX /\ style'.top = newY /\ ~style'.centered
      <3>1. style'.left = newX /\ style'.top = newY
        BY <2>5 DEF Types, FrameTypes, PanelStyle
      <3>2. style'.centered = FALSE
        BY <2>5, Zenon DEF Types, FrameTypes, PanelStyle
      <3> QED
        BY <3>1, <3>2
    <2>8. PanelAt'.left = newX /\ PanelAt'.top = newY
      BY <2>3, <2>4, <2>7 DEF PanelAt, Offset, Undefined
    <2> QED
      BY <1>0, <1>1, <2>1, <2>3, <2>4, <2>6, <2>8 DEF TitleGrab
  <1>5. ASSUME responder = "thumb", thumb.state = "resizing", shown PROVE ThumbGrab'
    <2> DEFINE w == Max({MinSize.width, thumb.startW + (p.x - thumb.pageX)})
               h == Max({MinSize.height, thumb.startH + (p.y - thumb.pageY)})
    <2>1. /\ thumb.startW - thumb.pageX = grab.x /\ thumb.startH - thumb.pageY = grab.y
          /\ thumb.startW \in Int /\ thumb.startH \in Int /\ thumb.pageX \in Int /\ thumb.pageY \in Int
          /\ MinSize.width \in Int /\ MinSize.height \in Int
      BY <1>5 DEF ThumbGrab, Types, FrameTypes, ThumbView, MinSize
    <2>2. ThumbMouseMove(p.x, p.y)
      BY <1>2, <1>5, ResponderMoves
    <2>3. thumb.startW + (p.x - thumb.pageX) \in Int /\ thumb.startH + (p.y - thumb.pageY) \in Int
      BY <1>0, <2>1
    <2>4. /\ w = MinSize.width \/ w = thumb.startW + (p.x - thumb.pageX)
          /\ h = MinSize.height \/ h = thumb.startH + (p.y - thumb.pageY)
      BY <2>1, <2>3, MaxOfTwo
    <2>5. style' = [style EXCEPT !.width = w, !.height = h] /\ thumb' = thumb
      BY <2>2 DEF ThumbMouseMove
    <2> HIDE DEF w, h
    <2>6. style'.width = w /\ style'.height = h
      BY <2>5 DEF Types, FrameTypes, PanelStyle
    <2>7. /\ w - p.x = grab.x \/ w = MinSize.width
          /\ h - p.y = grab.y \/ h = MinSize.height
      BY <1>0, <2>1, <2>4
    <2> QED
      BY <1>0, <1>1, <2>1, <2>5, <2>6, <2>7 DEF ThumbGrab, MinSize
  <1>6. ASSUME responder = "divider", divider.state = "resizing", HasPanel => shown PROVE DividerGrab'
    <2> DEFINE size == IF flex = "second" THEN divider.startFirst + (p.x - divider.page)
                                          ELSE divider.startSecond - (p.x - divider.page)
               D == Divided(Total, size)
    <2>1. /\ IF flex = "second" THEN divider.startFirst - divider.page = grab.x
                                ELSE Total - divider.startSecond - Thickness - divider.page = grab.x
          /\ divider.startFirst \in Int /\ divider.startSecond \in Int /\ divider.page \in Int
          /\ flex \in {"first", "second"}
      BY <1>6 DEF DividerGrab, Types, SplitTypes, DividerView
    <2>2. HasSplit
      BY <1>6 DEF DragInv, DividerDrag, HasSplit
    <2>3. DividerMouseMove(Total, p.x) /\ NoFrame
      BY <1>2, <1>6, <2>2, ResponderMoves
    <2>4. Total' = Total /\ Total \in Int
      BY <1>0, <2>3, PlaceTypes DEF NoFrame, frameVars, Total, HasPanel
    <2>5. size \in Int
      BY <1>0, <2>1
    <2>6. first' = D.first /\ second' = D.second /\ flex' = flex /\ divider' = divider
      BY <2>3 DEF DividerMouseMove, SetSize
    <2>7. /\ first' = MinFirst \/ second' = MinSecond
             \/ IF flex = "second" THEN first' = size ELSE second' = size
      BY <2>4, <2>5, <2>6, DividedFacts
    <2> HIDE DEF D
    <2>8. DividerAt(Total)' = IF flex = "second" THEN first' ELSE Total - second' - Thickness
      BY <2>4, <2>6 DEF DividerAt
    <2>9. \/ first' = MinFirst \/ second' = MinSecond
          \/ DividerAt(Total)' - p.x = grab.x
      BY <1>0, <1>1, <2>1, <2>4, <2>7, <2>8 DEF Thickness
    <2> QED
      BY <1>0, <1>1, <2>1, <2>4, <2>6, <2>9 DEF DividerGrab
  <1>7. ASSUME table.state = "resizing" PROVE TableGrab'
    <2>1. responder = "table" /\ "table" \in env
      BY <1>7 DEF DragInv, TableDrag
    <2>2. TableMouseMove(p.x)
      BY <1>2, <1>7, <2>1, ResponderMoves
    <2>3. UNCHANGED <<tree, table, attached>> /\ Columns' = Columns
      BY <2>2 DEF TableMouseMove, Columns
    <2>4. /\ attached /\ table.startX - table.dragStartX = grab.x
          /\ table.type = "column" => table.index \in Columns
          /\ table.startX \in Int /\ table.dragStartX \in Int
      BY <1>7 DEF TableGrab, Types, ColumnTypes, TableChart
    <2>5. CellWidth(p.x) \in Int /\ (CellWidth(p.x) = MIN_COLUMN_WIDTH \/ CellWidth(p.x) - p.x = grab.x)
      <3>1. \/ CellWidth(p.x) = MIN_COLUMN_WIDTH
            \/ CellWidth(p.x) = table.startX + (p.x - table.dragStartX)
        BY <1>0, CellWidthFacts DEF Types
      <3>2. CellWidth(p.x) \in Int
        BY <1>0, CellWidthFacts DEF Types
      <3> QED
        BY <1>0, <2>4, <3>1, <3>2
    <2>6. table.type = "column" => headerWidth'[table.index] = CellWidth(p.x)
      BY <2>2, <2>4 DEF TableMouseMove, ResizeColumn, Types, ColumnTypes
    <2>7. table.type = "row" => rowHeaderWidth' = CellWidth(p.x)
      BY <2>2, <2>4 DEF TableMouseMove, ResizeRowHeader
    <2> QED
      BY <1>0, <1>1, <2>3, <2>4, <2>5, <2>6, <2>7 DEF TableGrab
  <1>8. ASSUME responder = "title", title.state = "moving", ~shown PROVE TitleGrab'
    <2>1. PICK v \in Receivers :
          /\ CASE v = "title" /\ InDrag(v) -> TitleMouseMove(p.x, p.y)
               [] v = "thumb" /\ InDrag(v) -> ThumbMouseMove(p.x, p.y)
               [] OTHER -> NoFrame
      BY Zenon DEF MovePointer
    <2>2. v = "title"
      BY <1>8 DEF Receivers
    <2>3. NoFrame
      BY <1>2, <1>8, <2>1, <2>2
    <2> QED
      BY <1>0, <1>1, <1>3, <1>8, <2>3 DEF TitleGrab, NoFrame, frameVars
  <1>9. ASSUME responder = "thumb", thumb.state = "resizing", ~shown PROVE ThumbGrab'
    <2>1. thumb' = thumb
      BY Zenon DEF MovePointer, TitleMouseMove, ThumbMouseMove, NoFrame, frameVars
    <2> QED
      BY <1>0, <1>1, <1>3, <1>9, <2>1 DEF ThumbGrab
  <1>10. TitleGrab'
    BY <1>0, <1>3, <1>4, <1>8 DEF TitleGrab
  <1>11. ThumbGrab'
    BY <1>0, <1>3, <1>5, <1>9 DEF ThumbGrab
  <1>12. DividerGrab'
    BY <1>0, <1>3, <1>6 DEF DividerGrab, HasPanel
  <1>13. TableGrab'
    BY <1>3, <1>7 DEF TableGrab
  <1> QED
    BY <1>10, <1>11, <1>12, <1>13

\* Nothing is grabbed at first.
LEMMA GrabInit == Init => GrabInv
  <1> SUFFICES ASSUME Init PROVE GrabInv
    OBVIOUS
  <1>1. ~held
    BY Zenon DEF Init
  <1>2. table.state = "idle"
    BY DEF Init, ColumnsInit, FreshTable
  <1> QED
    BY <1>1, <1>2 DEF GrabInv, TitleGrab, ThumbGrab, DividerGrab, TableGrab

\* Every step keeps what is dragged at the pointer.
LEMMA GrabStep ==
    Types /\ DragInv /\ QuietInv /\ GrabInv /\ [Next]_vars /\ DragInv' => GrabInv'
  <1> SUFFICES ASSUME Types, DragInv, QuietInv, GrabInv, [Next]_vars, DragInv', Undisturbed'
               PROVE  TitleGrab' /\ ThumbGrab' /\ DividerGrab' /\ TableGrab'
    BY DEF GrabInv
  <1>0. env' = env /\ reused' = reused /\ Undisturbed
    BY EnvStays DEF Undisturbed
  <1>1. TitleGrab /\ ThumbGrab /\ DividerGrab /\ TableGrab
    BY <1>0 DEF GrabInv
  <1>2. CASE ~held'
    BY <1>2 DEF TitleGrab, ThumbGrab, DividerGrab, TableGrab, DragInv, TableDrag
  <1>3. CASE ~held /\ held'
    <2>1. PressAction
      BY <1>3, HeldByPress
    <2>2. table.state # "resizing"
      BY <1>3 DEF DragInv, TableDrag
    <2> QED
      BY <2>1, <2>2, PressGrabs, PressGrabsTable
  <1>4. CASE held /\ \E p \in Points : MovePointer(p)
    BY <1>1, <1>4, MoveGrabs
  <1>5. CASE held /\ ClosePanel
    <2>1. /\ shown /\ ~shown' /\ (~reused => title'.state = "idle" /\ thumb'.state = "idle")
      BY <1>5, CloseStates
    <2>2. UNCHANGED <<pointer, grab, splitVars, columnVars, held>>
      BY <1>5, Zenon DEF ClosePanel, NoSplit, NoTable
    <2>3. reused => UNCHANGED <<title, thumb, responder>>
      BY <1>5, Zenon DEF ClosePanel, Close
    <2>4. TitleGrab' /\ ThumbGrab'
      BY <1>1, <1>5, <2>1, <2>2, <2>3 DEF TitleGrab, ThumbGrab
    <2>5. DividerGrab'
      BY <1>0, <2>1 DEF DividerGrab, DragInv, HasPanel
    <2>6. TableGrab'
      BY <1>1, <2>2 DEF TableGrab, columnVars, Columns
    <2> QED
      BY <2>4, <2>5, <2>6
  <1>6. CASE /\ held /\ held'
             /\ UNCHANGED <<frameVars, splitVars, responder, pointer, grab>>
             /\ table.state = "resizing" => UNCHANGED tableDrag
    <2>1. TitleGrab'
      BY <1>1, <1>6 DEF TitleGrab, frameVars, PanelAt, Offset
    <2>2. ThumbGrab'
      BY <1>1, <1>6 DEF ThumbGrab, frameVars
    <2>3. Total' = Total /\ (HasPanel' <=> HasPanel)
      BY <1>0, <1>6 DEF Total, HasPanel, frameVars
    <2>4. DividerGrab'
      BY <1>1, <1>6, <2>3 DEF DividerGrab, DividerAt, frameVars, splitVars
    <2>5. TableGrab'
      <3>1. CASE table.state = "resizing"
        BY <1>1, <1>6, <3>1 DEF TableGrab, tableDrag, Columns
      <3>2. CASE table.state # "resizing"
        <4>1. table'.state = table.state
          <5>1. CASE Next
            <6>1. ~PressAction /\ ~ReloadPage /\ ~Release
              <7>1. PressAction => ~held
                BY PressSteps, Zenon DEF Press
              <7> QED
                BY <1>6, <7>1, Zenon DEF ReloadPage, Release
            <6>2. ClosePanel => table'.state = table.state
              BY CloseStates
            <6> QED
              BY <5>1, <6>1, <6>2, StatesStay
          <5>2. CASE UNCHANGED vars
            BY <5>2 DEF vars, columnVars
          <5> QED
            BY <5>1, <5>2
        <4> QED
          BY <3>2, <4>1 DEF TableGrab
      <3> QED
        BY <3>1, <3>2
    <2> QED
      BY <2>1, <2>2, <2>4, <2>5
  <1> QED
    BY <1>0, <1>2, <1>3, <1>4, <1>5, <1>6, HeldSteps

\* What the user drags stays under the pointer, as far away from it as it was when it
\* was pressed, or at a limit: for every window, panel, split view and table and every
\* way of the pointer.
THEOREM GrabCorrect == Spec => []GrabbedPointStays
  <1>1. Types /\ GrabInv => GrabbedPointStays
    <2> SUFFICES ASSUME Types, GrabInv, held, Undisturbed
                 PROVE  GrabbedPointStays
      BY DEF GrabbedPointStays, Undisturbed
    <2>1. TitleGrab /\ ThumbGrab /\ DividerGrab /\ TableGrab
      BY DEF GrabInv
    <2>2. ASSUME InDrag("title"), responder = "title"
          PROVE  /\ PanelAt.left - pointer.x = grab.x \/ PanelAt.left \in {5, title.limitX}
                 /\ PanelAt.top - pointer.y = grab.y \/ PanelAt.top \in {5, title.limitY}
      BY <2>1, <2>2 DEF TitleGrab, InDrag, InDOM
    <2>3. ASSUME InDrag("thumb"), responder = "thumb"
          PROVE  /\ style.width - pointer.x = grab.x \/ style.width = MinSize.width
                 /\ style.height - pointer.y = grab.y \/ style.height = MinSize.height
      BY <2>1, <2>3 DEF ThumbGrab, InDrag, InDOM
    <2>4. ASSUME InDrag("divider"), responder = "divider"
          PROVE  DividerAt(Total) - pointer.x = grab.x \/ first = MinFirst \/ second = MinSecond
      BY <2>1, <2>4 DEF DividerGrab, InDrag, InDOM, HasSplit
    <2>5. ASSUME InDrag("table"), responder = "table", NEW width,
                 width = IF table.type = "column" THEN headerWidth[table.index] ELSE rowHeaderWidth
          PROVE  width - pointer.x = grab.x \/ width = MIN_COLUMN_WIDTH
      <3>1. table.type \in {"column", "row"}
        BY DEF Types, ColumnTypes, TableChart
      <3> QED
        BY <2>1, <2>5, <3>1 DEF TableGrab, InDrag, InDOM
    <2> QED
      BY <2>2, <2>3, <2>4, <2>5 DEF GrabbedPointStays, PanelAt
  <1> QED
    BY <1>1, TypesInit, TypesStep, DragInit, DragStep, QuietInit, QuietStep, GrabInit, GrabStep, PTL DEF Spec

-----------------------------------------------------------------------------
(* The header table: its cells tile it *)

\* A set of natural numbers has a smallest one, and so induction is for sets.
LEMMA Smallest ==
    ASSUME NEW T, T \subseteq Nat, T # {}
    PROVE  \E m \in T : \A k \in T : m <= k
  <1> DEFINE R == OpToRel(<, Nat)
  <1>1. IsWellFoundedOn(R, Nat)
    BY NatLessThanWellFounded
  <1>2. \A a, b \in Nat : a < b => <<a, b>> \in R
    BY DEF OpToRel
  <1> HIDE DEF R
  <1>3. PICK x \in T : \A y \in T : ~(<<y, x>> \in R)
    BY <1>1, WFMin
  <1>4. ASSUME NEW y \in T PROVE x <= y
    <2>1. x \in Nat /\ y \in Nat
      OBVIOUS
    <2>2. ~(y < x)
      BY <1>2, <1>3, <2>1
    <2> QED
      BY <2>1, <2>2
  <1> QED
    BY <1>4

\* Induction: a set with 0 and the successors of its elements is Nat.
LEMMA Inductive ==
    ASSUME NEW S, S \subseteq Nat, 0 \in S, \A n \in S : n + 1 \in S
    PROVE  S = Nat
  <1> SUFFICES ASSUME S # Nat PROVE FALSE
    OBVIOUS
  <1>1. PICK m \in Nat \ S : \A k \in Nat \ S : m <= k
    BY Smallest
  <1>2. m # 0 /\ m - 1 \in S
    BY <1>1
  <1> QED
    BY <1>1, <1>2

\* What f counts, the columns of the first headers of t up to the n-th.
Counts(f, t, n) ==
    /\ f \in [0..n -> Nat] /\ f[0] = 0
    /\ \A i \in 1..n : f[i] = f[i - 1] + Max({1, t[i]})

\* There is such a function, which the recursive definition of LeafsBefore needs.
LEMMA CountsExist ==
    ASSUME NEW t \in Seq(Nat)
    PROVE  \E f : Counts(f, t, Len(t))
  <1> DEFINE S == {n \in Nat : n <= Len(t) => \E f : Counts(f, t, n)}
  <1>1. 0 \in S
    <2>1. Counts([i \in 0..0 |-> 0], t, 0)
      BY DEF Counts
    <2> QED
      BY <2>1
  <1>2. ASSUME NEW n \in S PROVE n + 1 \in S
    <2> SUFFICES ASSUME n + 1 <= Len(t) PROVE \E f : Counts(f, t, n + 1)
      OBVIOUS
    <2>1. PICK f : Counts(f, t, n)
      BY <1>2
    <2>2. t[n + 1] \in Nat
      BY <1>2
    <2> DEFINE g == [i \in 0..(n + 1) |-> IF i <= n THEN f[i] ELSE f[n] + Max({1, t[n + 1]})]
    <2>3. f[n] + Max({1, t[n + 1]}) \in Nat
      <3>1. f[n] \in Nat
        BY <1>2, <2>1 DEF Counts
      <3> QED
        BY SMTT(20), <2>2, <3>1, MaxOfTwo
    <2>4. g \in [0..(n + 1) -> Nat] /\ g[0] = 0
      BY <2>1, <2>3 DEF Counts
    <2>5. ASSUME NEW i \in 1..(n + 1) PROVE g[i] = g[i - 1] + Max({1, t[i]})
      <3>1. CASE i = n + 1
        <4>1. n \in 0..(n + 1) /\ n + 1 \in 0..(n + 1) /\ n <= n /\ ~(n + 1 <= n)
          BY <1>2
        <4>2. g[n] = f[n] /\ g[n + 1] = f[n] + Max({1, t[n + 1]})
          BY <4>1, Zenon
        <4>3. i - 1 = n
          BY <1>2, <3>1
        <4> QED
          BY <3>1, <4>2, <4>3, Zenon
      <3>2. CASE i <= n
        <4>1. /\ i \in 0..(n + 1) /\ i - 1 \in 0..(n + 1) /\ i - 1 <= n
              /\ i \in 1..n
          BY <1>2, <3>2
        <4>2. g[i] = f[i] /\ g[i - 1] = f[i - 1]
          BY <3>2, <4>1, Zenon
        <4> QED
          BY <2>1, <4>1, <4>2, Zenon DEF Counts
      <3> QED
        BY <3>1, <3>2
    <2> HIDE DEF g
    <2> QED
      BY <2>4, <2>5 DEF Counts
  <1>3. S = Nat
    <2> HIDE DEF S
    <2> QED
      BY <1>1, <1>2, Inductive DEF S
  <1>4. Len(t) \in S /\ Len(t) <= Len(t)
    <2> HIDE DEF S
    <2> QED
      BY <1>3
  <1> QED
    BY <1>4

\* LeafsBefore counts.
LEMMA LeafsCounts ==
    ASSUME NEW t \in Seq(Nat)
    PROVE  Counts([n \in 0..Len(t) |-> LeafsBefore(t, n)], t, Len(t))
  <1>1. PICK f : Counts(f, t, Len(t))
    BY CountsExist
  <1> DEFINE Rec(g) == g = [i \in 0..Len(t) |-> IF i = 0 THEN 0 ELSE g[i - 1] + Max({1, t[i]})]
             leafs == CHOOSE g : Rec(g)
  <1>2. Rec(f)
    BY <1>1 DEF Counts
  <1>3. Rec(leafs)
    <2> HIDE DEF Rec
    <2> QED
      BY <1>2
  <1>4. \A n : LeafsBefore(t, n) = leafs[n]
    BY DEF LeafsBefore
  <1> QED
    OBVIOUS

\* The columns before a header are numbers, and more with every header.
LEMMA LeafsFacts ==
    ASSUME NEW t \in Seq(Nat)
    PROVE  /\ \A n \in 0..Len(t) : LeafsBefore(t, n) \in Nat
           /\ LeafsBefore(t, 0) = 0
           /\ \A i \in 1..Len(t) :
                 LeafsBefore(t, i) = LeafsBefore(t, i - 1) + (IF t[i] > 0 THEN t[i] ELSE 1)
  <1> DEFINE L == [n \in 0..Len(t) |-> LeafsBefore(t, n)]
  <1>1. Counts(L, t, Len(t))
    BY LeafsCounts
  <1>2. \A n \in 0..Len(t) : L[n] = LeafsBefore(t, n)
    OBVIOUS
  <1>3. 0 \in 0..Len(t) /\ \A i \in 1..Len(t) : i \in 0..Len(t) /\ i - 1 \in 0..Len(t)
    OBVIOUS
  <1>4. \A i \in 1..Len(t) : Max({1, t[i]}) = IF t[i] > 0 THEN t[i] ELSE 1
    <2> TAKE i \in 1..Len(t)
    <2>1. t[i] \in Nat
      OBVIOUS
    <2> QED
      BY <2>1, MaxOfTwo
  <1> HIDE DEF L
  <1> QED
    BY <1>1, <1>2, <1>3, <1>4 DEF Counts

\* Later headers have more columns before them.
LEMMA LeafsGrow ==
    ASSUME NEW t \in Seq(Nat), NEW i \in 0..Len(t), NEW j \in 0..Len(t), i < j
    PROVE  LeafsBefore(t, i) < LeafsBefore(t, j)
  <1> DEFINE S == {n \in Nat : \A k \in 0..Len(t) :
                      k = i + 1 + n => LeafsBefore(t, i) < LeafsBefore(t, k)}
  <1>1. 0 \in S
    <2> SUFFICES ASSUME i + 1 \in 0..Len(t) PROVE LeafsBefore(t, i) < LeafsBefore(t, i + 1)
      OBVIOUS
    <2>1. i + 1 \in 1..Len(t) /\ (i + 1) - 1 = i /\ t[i + 1] \in Nat
      OBVIOUS
    <2>2. LeafsBefore(t, i + 1) = LeafsBefore(t, i) + (IF t[i + 1] > 0 THEN t[i + 1] ELSE 1)
      BY <2>1, LeafsFacts
    <2>3. LeafsBefore(t, i) \in Nat
      BY LeafsFacts
    <2> QED
      BY <2>1, <2>2, <2>3
  <1>2. ASSUME NEW n \in S PROVE n + 1 \in S
    <2> SUFFICES ASSUME NEW k \in 0..Len(t), k = i + 1 + (n + 1)
                 PROVE  LeafsBefore(t, i) < LeafsBefore(t, k)
      OBVIOUS
    <2>1. k - 1 \in 0..Len(t) /\ k - 1 = i + 1 + n /\ k \in 1..Len(t) /\ t[k] \in Nat
      OBVIOUS
    <2>2. LeafsBefore(t, i) < LeafsBefore(t, k - 1)
      BY <1>2, <2>1
    <2>3. LeafsBefore(t, k) = LeafsBefore(t, k - 1) + (IF t[k] > 0 THEN t[k] ELSE 1)
      BY <2>1, LeafsFacts
    <2>4. LeafsBefore(t, i) \in Nat /\ LeafsBefore(t, k - 1) \in Nat
      BY <2>1, LeafsFacts
    <2> QED
      BY <2>1, <2>2, <2>3, <2>4
  <1>3. S = Nat
    <2> HIDE DEF S
    <2> QED
      BY <1>1, <1>2, Inductive DEF S
  <1>4. j - i - 1 \in S /\ j = i + 1 + (j - i - 1)
    <2> HIDE DEF S
    <2> QED
      BY <1>3
  <1> QED
    BY <1>4

\* Every column belongs to one header.
LEMMA HeaderOfColumn ==
    ASSUME NEW t \in Seq(Nat), NEW c \in 1..Leafs(t)
    PROVE  \E i \in 1..Len(t) :
              /\ LeafsBefore(t, i - 1) < c /\ c <= LeafsBefore(t, i)
              /\ \A j \in 1..Len(t) :
                    LeafsBefore(t, j - 1) < c /\ c <= LeafsBefore(t, j) => j = i
  <1> DEFINE L(n) == LeafsBefore(t, n)
             T == {n \in 0..Len(t) : c <= L(n)}
  <1>1. \A n \in 0..Len(t) : L(n) \in Nat
    BY LeafsFacts
  <1>2. L(0) = 0
    BY LeafsFacts
  <1>3. \A i, j \in 0..Len(t) : i < j => L(i) < L(j)
    BY LeafsGrow
  <1>4. Leafs(t) = L(Len(t)) /\ c \in Nat \ {0}
    <2>1. Leafs(t) = L(Len(t)) /\ Len(t) \in 0..Len(t)
      BY DEF Leafs
    <2> QED
      BY <1>1, <2>1
  <1> HIDE DEF L
  <1>5. Len(t) \in T /\ T \subseteq Nat
    BY <1>1, <1>4
  <1>6. PICK i \in T : \A k \in T : i <= k
    BY <1>5, Smallest
  <1>7. i \in 1..Len(t) /\ i - 1 \in 0..Len(t) /\ i \in 0..Len(t)
    BY <1>2, <1>4, <1>6
  <1>8. L(i - 1) < c /\ c <= L(i)
    BY <1>1, <1>4, <1>6, <1>7
  <1>9. ASSUME NEW j \in 1..Len(t), L(j - 1) < c, c <= L(j) PROVE j = i
    <2>1. j \in 0..Len(t) /\ j - 1 \in 0..Len(t)
      OBVIOUS
    <2>2. i <= j
      BY <1>6, <1>9, <2>1
    <2>3. CASE i < j
      <3>1. i <= j - 1
        BY <1>7, <2>1, <2>3
      <3>2. L(i) <= L(j - 1)
        <4>1. CASE i = j - 1
          BY <1>1, <1>7, <4>1
        <4>2. CASE i < j - 1
          BY <1>1, <1>3, <1>7, <2>1, <4>2
        <4> QED
          BY <1>7, <2>1, <3>1, <4>1, <4>2
      <3>3. L(i) \in Nat /\ L(j - 1) \in Nat
        BY <1>1, <1>7, <2>1
      <3>4. c <= L(i) /\ L(j - 1) < c
        BY <1>8, <1>9
      <3> QED
        BY <1>4, <3>2, <3>3, <3>4
    <2> QED
      BY <1>7, <2>2, <2>3
  <1> QED
    BY <1>7, <1>8, <1>9 DEF L

\* The cell of a header with w children of which a columns are to the left, and of
\* the k-th of its children.
HeaderCell(a, w, depth) == [level |-> 1, column |-> a + 1,
                            rowspan |-> IF w > 0 THEN 1 ELSE depth, colspan |-> Max({1, w})]

ChildCell(a, k) == [level |-> 2, column |-> a + k, rowspan |-> 1, colspan |-> 1]

\* The cell takes the place.
Covers(cell, level, c) == /\ cell.level <= level /\ level < cell.level + cell.rowspan
                          /\ cell.column <= c /\ c < cell.column + cell.colspan

\* The places of the cell of a header.
LEMMA HeaderCovers ==
    ASSUME NEW a \in Nat, NEW w \in Nat, NEW depth \in {1, 2}, NEW level \in 1..depth, NEW c \in Int
    PROVE  Covers(HeaderCell(a, w, depth), level, c) <=>
               /\ level = 1 \/ w = 0
               /\ a < c /\ c <= a + (IF w > 0 THEN w ELSE 1)
  <1> DEFINE cell == HeaderCell(a, w, depth)
  <1>1. Max({1, w}) = IF w > 0 THEN w ELSE 1
    BY MaxOfTwo
  <1>2. /\ cell.level = 1 /\ cell.column = a + 1
        /\ cell.rowspan = (IF w > 0 THEN 1 ELSE depth) /\ cell.colspan = (IF w > 0 THEN w ELSE 1)
    BY <1>1 DEF HeaderCell
  <1> HIDE DEF cell
  <1>3. Covers(cell, level, c) <=> (level = 1 \/ w = 0) /\ a < c /\ c <= a + (IF w > 0 THEN w ELSE 1)
    BY <1>2 DEF Covers
  <1> QED
    BY <1>3 DEF cell

\* The place of the cell of a child.
LEMMA ChildCovers ==
    ASSUME NEW a \in Nat, NEW k \in Nat, NEW level \in Int, NEW c \in Int
    PROVE  Covers(ChildCell(a, k), level, c) <=> level = 2 /\ k = c - a
  BY DEF Covers, ChildCell

\* Each place of the header table is taken by one cell, for every tree of headers.
LEMMA OneCell ==
    ASSUME NEW t \in Seq(Nat), NEW level \in 1..MaxDepth(t), NEW c \in 1..Leafs(t)
    PROVE  Cardinality(CellsAt(t, level, c)) = 1
  <1> DEFINE L(n) == LeafsBefore(t, n)
             w(n) == t[n]
             Top(j) == HeaderCell(L(j - 1), w(j), MaxDepth(t))
             Sub(j, k) == ChildCell(L(j - 1), k)
             I == 1..Len(t)
  <1>1. \A j \in I : /\ w(j) \in Nat /\ L(j - 1) \in Nat /\ L(j) \in Nat
                     /\ L(j) = L(j - 1) + (IF w(j) > 0 THEN w(j) ELSE 1)
    BY LeafsFacts
  <1>2. PICK i \in I :
              /\ L(i - 1) < c /\ c <= L(i)
              /\ \A j \in I : L(j - 1) < c /\ c <= L(j) => j = i
    BY HeaderOfColumn
  <1>3. c \in Int /\ MaxDepth(t) \in {1, 2} /\ level \in {1, 2}
    <2>1. MaxDepth(t) \in {1, 2}
      BY DEF MaxDepth
    <2> QED
      BY <2>1
  <1>4. \A cell : cell \in HeaderCells(t) <=>
            \E j \in I : cell = Top(j) \/ \E k \in 1..w(j) : cell = Sub(j, k)
    <2>1. DOMAIN t = I
      OBVIOUS
    <2>2. HeaderCells(t) = UNION {{Top(j)} \cup {Sub(j, k) : k \in 1..w(j)} : j \in I}
      BY <2>1, Zenon DEF HeaderCells, HeaderCell, ChildCell
    <2> HIDE DEF I, w, Top, Sub
    <2> QED
      BY <2>2
  <1>5. \A j \in I : Covers(Top(j), level, c) <=> j = i /\ (level = 1 \/ w(i) = 0)
    <2> TAKE j \in I
    <2>1. Covers(Top(j), level, c) <=> /\ level = 1 \/ w(j) = 0
                                       /\ L(j - 1) < c /\ c <= L(j)
      <3>1. w(j) \in Nat /\ L(j - 1) \in Nat /\ L(j) = L(j - 1) + (IF w(j) > 0 THEN w(j) ELSE 1)
        BY <1>1
      <3> HIDE DEF L, w
      <3>2. Covers(Top(j), level, c) <=>
                /\ level = 1 \/ w(j) = 0
                /\ L(j - 1) < c /\ c <= L(j - 1) + (IF w(j) > 0 THEN w(j) ELSE 1)
        BY <1>3, <3>1, HeaderCovers
      <3> QED
        BY <3>1, <3>2, Zenon
    <2> QED
      BY <1>2, <2>1, Zenon
  <1>6. \A j \in I : \A k \in 1..w(j) :
            Covers(Sub(j, k), level, c) <=> j = i /\ k = c - L(i - 1) /\ level = 2
    <2> TAKE j \in I
    <2> TAKE k \in 1..w(j)
    <2>1. w(j) \in Nat /\ L(j - 1) \in Nat /\ L(j) = L(j - 1) + (IF w(j) > 0 THEN w(j) ELSE 1)
      BY <1>1
    <2>2. Covers(Sub(j, k), level, c) <=> level = 2 /\ k = c - L(j - 1)
      <3> HIDE DEF L, w
      <3>1. k \in Nat /\ level \in Int
        BY <1>3, <2>1
      <3>2. \A a \in Nat : Covers(ChildCell(a, k), level, c) <=> level = 2 /\ k = c - a
        BY <1>3, <3>1, ChildCovers, Zenon
      <3> QED
        BY <2>1, <3>2, Zenon
    <2>3. k = c - L(j - 1) => L(j - 1) < c /\ c <= L(j)
      <3> HIDE DEF L, w
      <3> QED
        BY <1>3, <2>1
    <2> QED
      BY <1>2, <2>2, <2>3, Zenon
  <1>7. \A cell : cell \in CellsAt(t, level, c) <=> cell \in HeaderCells(t) /\ Covers(cell, level, c)
    BY DEF CellsAt, Covers
  <1>8. w(i) \in Nat /\ L(i - 1) \in Nat /\ L(i) = L(i - 1) + (IF w(i) > 0 THEN w(i) ELSE 1)
    BY <1>1
  <1> HIDE DEF L, w, Top, Sub, I
  <1>9. CASE level = 1 \/ w(i) = 0
    <2>1. w(i) = 0 => 1..w(i) = {}
      BY <1>8
    <2>2. ASSUME NEW cell PROVE cell \in CellsAt(t, level, c) <=> cell = Top(i)
      <3>1. ASSUME cell \in CellsAt(t, level, c) PROVE cell = Top(i)
        <4>1. PICK j \in I : cell = Top(j) \/ \E k \in 1..w(j) : cell = Sub(j, k)
          BY <1>4, <1>7, <3>1, Zenon
        <4>2. Covers(cell, level, c)
          BY <1>7, <3>1, Zenon
        <4>3. CASE cell = Top(j)
          BY <1>5, <4>2, <4>3, Zenon
        <4>4. CASE \E k \in 1..w(j) : cell = Sub(j, k)
          <5>1. PICK k \in 1..w(j) : cell = Sub(j, k)
            BY <4>4
          <5>2. j = i /\ level = 2
            BY <1>6, <4>2, <5>1, Zenon
          <5>3. w(i) = 0
            BY <1>9, <5>2
          <5> QED
            BY <2>1, <5>1, <5>2, <5>3, Zenon
        <4> QED
          BY <4>1, <4>3, <4>4
      <3> QED
        BY <1>4, <1>5, <1>7, <1>9, <3>1, Zenon
    <2> QED
      BY <2>2, FS_Singleton
  <1>10. CASE level = 2 /\ w(i) # 0
    <2> DEFINE k0 == c - L(i - 1)
    <2>1. k0 \in 1..w(i)
      BY <1>2, <1>3, <1>8, <1>10
    <2>2. ASSUME NEW cell PROVE cell \in CellsAt(t, level, c) <=> cell = Sub(i, k0)
      <3>1. ASSUME cell \in CellsAt(t, level, c) PROVE cell = Sub(i, k0)
        <4>1. PICK j \in I : cell = Top(j) \/ \E k \in 1..w(j) : cell = Sub(j, k)
          BY <1>4, <1>7, <3>1, Zenon
        <4>2. Covers(cell, level, c) /\ level # 1
          BY <1>7, <1>10, <3>1
        <4>3. ~(cell = Top(j))
          BY <1>5, <1>10, <4>2, Zenon
        <4> QED
          BY <1>6, <4>1, <4>2, <4>3, Zenon
      <3>2. Sub(i, k0) \in HeaderCells(t)
        BY <1>4, <2>1, Zenon
      <3>3. Covers(Sub(i, k0), level, c)
        BY <1>6, <1>10, <2>1, Zenon
      <3> QED
        BY <1>7, <3>1, <3>2, <3>3, Zenon
    <2> HIDE DEF k0
    <2>3. CellsAt(t, level, c) = {Sub(i, k0)}
      BY <2>2
    <2> QED
      BY <2>3, FS_Singleton
  <1> QED
    BY <1>3, <1>9, <1>10

-----------------------------------------------------------------------------
(* The headers and the data *)

\* The widths are changed in both tables by whoever changes them, a row header that
\* is dragged noted a corner one pixel beside it, and a frame is due whenever the
\* headers are not where the data is.
HeadersInv ==
    /\ "table" \in env => tree \in Trees
    /\ "refresh" \notin env =>
          /\ headerWidth = dataWidth /\ cornerWidth = rowHeaderWidth + 1
          /\ table.state = "resizing" =>
                /\ attached
                /\ table.type = "row" => table.offset = table.startX + 1
          /\ scroll \in Nat
          /\ IF scrolling.is THEN scrolling.last = scroll ELSE headerAt = scroll
          /\ scrolling.lastSet = headerAt \/ (scrolling.lastSet = -1 /\ headerAt = 0)

\* They do at first.
LEMMA HeadersInit == Init => HeadersInv
  <1> SUFFICES ASSUME Init PROVE HeadersInv
    OBVIOUS
  <1>1. "table" \in env => tree \in Trees
    BY DEF Init
  <1>2. /\ headerWidth = dataWidth /\ cornerWidth = rowHeaderWidth + 1
        /\ table.state = "idle" /\ scroll = 0 /\ headerAt = 0
        /\ scrolling = [is |-> FALSE, last |-> 0, lastSet |-> -1]
    BY DEF Init, ColumnsInit, FreshTable
  <1>3. ~scrolling.is
    BY <1>2, Zenon
  <1>4. scrolling.lastSet = -1
    BY <1>2
  <1> QED
    BY <1>1, <1>2, <1>3, <1>4 DEF HeadersInv

\* Every step keeps them together.
LEMMA HeadersStep == Types /\ HeadersInv /\ [Next]_vars => HeadersInv'
  <1> SUFFICES ASSUME Types, HeadersInv, [Next]_vars PROVE HeadersInv'
    OBVIOUS
  <1>1. env' = env /\ ColumnStep /\ ColumnTypes
    BY EnvStays, ColumnSteps DEF Types
  <1>2. "table" \in env' => tree' \in Trees
    <2>1. tree' = tree \/ tree' \in Trees
      BY <1>1, Zenon DEF ColumnStep, Render, HandleMouseDown, RowHandleMouseDown, TableMouseMove, HeaderMouseDown,
         TableMouseUp, AutoWidth, DidScroll, UpdateHeaderPositions, columnVars
    <2> QED
      BY <1>1, <2>1 DEF HeadersInv
  <1> SUFFICES ASSUME "refresh" \notin env PROVE HeadersInv'
    BY <1>1, <1>2 DEF HeadersInv
  <1>3. CASE UNCHANGED columnVars
    BY <1>1, <1>2, <1>3 DEF HeadersInv, columnVars
  <1>4. CASE \E t \in Trees : Render(t) /\ MayRefresh
    <2>1. table.state = "idle" /\ scroll = 0 /\ ~scrolling.is
      BY <1>4 DEF MayRefresh
    <2>2. /\ headerWidth' = dataWidth' /\ cornerWidth' = rowHeaderWidth' + 1
          /\ scroll' = 0 /\ headerAt' = 0 /\ table' = table /\ scrolling' = scrolling
      BY <1>4 DEF Render, DefaultColumnWidth
    <2> QED
      BY <1>1, <1>2, <2>1, <2>2 DEF HeadersInv
  <1>5. CASE \E x \in Int : (\E c \in Columns : HandleMouseDown(c, x)) \/ RowHandleMouseDown(x)
    <2>1. /\ UNCHANGED <<headerWidth, dataWidth, rowHeaderWidth, cornerWidth, scroll, headerAt, scrolling>>
          /\ attached' = TRUE
          /\ table'.type = "row" => table'.offset = cornerWidth /\ table'.startX = rowHeaderWidth
      BY <1>5 DEF HandleMouseDown, RowHandleMouseDown
    <2> QED
      BY <1>1, <1>2, <2>1 DEF HeadersInv
  <1>6. CASE \E x \in Int : TableMouseMove(x) /\ table.state = "resizing"
    <2>1. PICK x \in Int : TableMouseMove(x) /\ table.state = "resizing"
      BY <1>6
    <2>2. UNCHANGED <<tree, table, attached, scroll, headerAt, scrolling>>
      BY <2>1 DEF TableMouseMove
    <2>3. /\ attached /\ headerWidth = dataWidth /\ cornerWidth = rowHeaderWidth + 1
          /\ table.type = "row" => table.offset = table.startX + 1
      BY <2>1 DEF HeadersInv
    <2>4. CellWidth(x) \in Int /\ table.startX \in Int
      BY <1>1, CellWidthFacts DEF ColumnTypes, TableChart
    <2>5. headerWidth' = dataWidth' /\ cornerWidth' = rowHeaderWidth' + 1
      <3>1. CASE table.type = "column"
        <4>1. /\ headerWidth' = [headerWidth EXCEPT ![table.index] = CellWidth(x)]
              /\ dataWidth' = IF table.index \in Columns
                              THEN [dataWidth EXCEPT ![table.index] = CellWidth(x)] ELSE dataWidth
              /\ UNCHANGED <<rowHeaderWidth, cornerWidth>>
          BY <2>1, <2>3, <3>1, Zenon DEF TableMouseMove, ResizeColumn
        <4>2. headerWidth \in [Columns -> Int]
          BY <1>1 DEF ColumnTypes
        <4>3. headerWidth' = dataWidth'
          <5>1. CASE table.index \in Columns
            BY <2>3, <4>1, <5>1, Zenon
          <5>2. CASE table.index \notin Columns
            BY <2>3, <4>1, <4>2, <5>2
          <5> QED
            BY <5>1, <5>2
        <4> QED
          BY <2>3, <4>1, <4>3
      <3>2. CASE table.type = "row"
        <4>1. /\ rowHeaderWidth' = CellWidth(x)
              /\ cornerWidth' = table.offset + CellWidth(x) - table.startX
              /\ UNCHANGED <<headerWidth, dataWidth>>
          BY <2>1, <2>3, <3>2 DEF TableMouseMove, ResizeRowHeader
        <4> QED
          BY <2>3, <2>4, <3>2, <4>1
      <3> QED
        BY <1>1, <3>1, <3>2 DEF ColumnTypes, TableChart
    <2> QED
      BY <1>1, <1>2, <2>2, <2>5 DEF HeadersInv
  <1>7. CASE HeaderMouseDown \/ TableMouseUp
    <2>1. table'.state # "resizing"
      BY <1>1, <1>7 DEF HeaderMouseDown, TableMouseUp, ClickMouseUp, ResizeMouseUp, FreshTable, ColumnTypes, TableChart
    <2>2. UNCHANGED <<headerWidth, dataWidth, rowHeaderWidth, cornerWidth, scroll, headerAt, scrolling>>
      BY <1>7 DEF HeaderMouseDown, TableMouseUp
    <2> QED
      BY <1>1, <1>2, <2>1, <2>2 DEF HeadersInv
  <1>8. CASE \E c \in Columns, w \in AutoWidths : AutoWidth(c, w)
    <2>1. /\ headerWidth' = dataWidth'
          /\ UNCHANGED <<table, attached, rowHeaderWidth, cornerWidth, scroll, headerAt, scrolling>>
      BY <1>8 DEF AutoWidth, HeadersInv
    <2> QED
      BY <1>1, <1>2, <2>1 DEF HeadersInv
  <1>9. CASE \E to \in Scrolls : DidScroll(to)
    <2>1. PICK to \in Scrolls : DidScroll(to)
      BY <1>9
    <2>2. /\ UNCHANGED <<table, attached, headerWidth, dataWidth, rowHeaderWidth, cornerWidth, headerAt>>
          /\ scroll' = to /\ to \in Nat
      BY <2>1, ColumnsAssumption DEF DidScroll
    <2>3. scrolling'.is /\ scrolling'.last = to /\ scrolling'.lastSet = scrolling.lastSet
      BY <1>1, <2>1 DEF DidScroll, ColumnTypes, ScrollState
    <2> QED
      BY <1>1, <1>2, <2>2, <2>3 DEF HeadersInv
  <1>10. CASE UpdateHeaderPositions
    <2>1. /\ UNCHANGED <<table, attached, headerWidth, dataWidth, rowHeaderWidth, cornerWidth, scroll>>
          /\ scrolling.is
          /\ headerAt' = IF scrolling.last # scrolling.lastSet THEN scrolling.last ELSE headerAt
      BY <1>10 DEF UpdateHeaderPositions
    <2>2. ~scrolling'.is /\ scrolling'.lastSet = scrolling.last
      BY <1>1, <1>10 DEF UpdateHeaderPositions, ColumnTypes, ScrollState
    <2>3. scrolling.last = scroll /\ scroll \in Nat
      BY <2>1 DEF HeadersInv
    <2>4. headerAt' = scroll
      BY <2>1, <2>3 DEF HeadersInv
    <2> QED
      BY <1>1, <1>2, <2>1, <2>2, <2>3, <2>4 DEF HeadersInv
  <1> QED
    BY <1>1, <1>3, <1>4, <1>5, <1>6, <1>7, <1>8, <1>9, <1>10 DEF ColumnStep

\* The headers belong to the data below and beside them: for all headers of two levels,
\* every width and every order of scrolling, animation frames and resizing.
THEOREM HeadersCorrect == Spec => []HeadersMatchData
  <1>1. HeadersInv => HeadersMatchData
    <2> SUFFICES ASSUME HeadersInv, "table" \in env PROVE HeadersMatchData
      BY DEF HeadersMatchData
    <2>1. tree \in Seq(Nat)
      BY ColumnsAssumption DEF HeadersInv
    <2>2. \A level \in 1..MaxDepth(tree), c \in Columns : Cardinality(CellsAt(tree, level, c)) = 1
      BY <2>1, OneCell, Zenon DEF Columns
    <2> QED
      BY <2>2 DEF HeadersMatchData, HeadersInv
  <1> QED
    BY <1>1, TypesInit, TypesStep, HeadersInit, HeadersStep, PTL DEF Spec

-----------------------------------------------------------------------------
(* The popover and its anchor *)

\* Where a layout l goes on a side of an anchor, and when it is noted not to fit.
Relative(r, l, a, side) ==
    /\ side = "below" =>
          /\ r.top = a.top + a.height
          /\ r.movedY <=> \/ l.movedY
                          \/ /\ a.top + a.height + l.height > window.height - 10
                             /\ a.top - l.height >= 0
    /\ side = "above" =>
          /\ r.top = a.top - l.height
          /\ r.movedY <=> l.movedY \/ a.top - l.height < 0
    /\ side = "right" =>
          /\ r.movedX <=> l.movedX \/ a.left + a.width + l.width > window.width - 10
          /\ a.left + a.width + l.width <= window.width - 10 => r.left = a.left + a.width
          /\ r.movedY <=> l.movedY
    /\ side = "left" =>
          /\ a.left <= window.width - 10 => r.left = a.left - l.width /\ (r.movedX <=> l.movedX)
          /\ r.movedY <=> l.movedY

\* That is what _layoutRelativeTo does.
LEMMA RelativeFields ==
    ASSUME FrameTypes, NEW l \in PanelLayout, NEW a \in Anchors, NEW side \in Sides
    PROVE  Relative(LayoutRelativeTo(l, a, side, TRUE), l, a, side)
  <1> DEFINE r == LayoutRelativeTo(l, a, side, TRUE)
  <1> DEFINE placed == BesideAnchor(l, a, side, TRUE)
             tooFar == placed.left + l.width > window.width - 10
             tooHigh == side = "above" /\ placed.top < 0
             tooLow == /\ side = "below"
                       /\ placed.top + l.height > window.height - 10
                       /\ a.top - l.height >= 0
             X == placed.movedX \/ tooFar
             Y == placed.movedY \/ tooLow \/ tooHigh
             left == IF tooFar THEN window.width - l.width - 10 ELSE placed.left
             top == IF ~tooLow /\ ~tooHigh /\ placed.top < 0 THEN 10 ELSE placed.top
  <1>0. /\ a.left \in Nat /\ a.top \in Nat /\ a.width \in Nat /\ a.height \in Nat
        /\ l.width \in Int /\ l.height \in Int /\ window.width \in Int /\ window.height \in Int
    BY SizeTypes, FrameAssumption DEF PanelLayout
  <1>1. /\ placed.movedX = l.movedX /\ placed.movedY = l.movedY
        /\ side = "right" => placed.left = a.left + a.width
        /\ side = "left" => placed.left = a.left - l.width
        /\ side = "below" => placed.top = a.top + a.height
        /\ side = "above" => placed.top = a.top - l.height
    <2> DEFINE atX == IF side \in Vertical
                      THEN a.left + (IF TRUE THEN a.width \div 2 - l.width \div 2 ELSE 0)
                      ELSE a.left + (IF side = "right" THEN a.width ELSE -l.width)
               atY == IF side \in Vertical
                      THEN a.top + (IF side = "below" THEN a.height ELSE -l.height)
                      ELSE a.top + (IF TRUE THEN a.height \div 2 - l.height \div 2 ELSE 0)
    <2>1. placed = [l EXCEPT !.left = atX, !.top = atY]
      BY Zenon DEF BesideAnchor
    <2>2. /\ side = "right" => atX = a.left + a.width
          /\ side = "left" => atX = a.left - l.width
          /\ side = "below" => atY = a.top + a.height
          /\ side = "above" => atY = a.top - l.height
      BY <1>0 DEF Vertical
    <2> HIDE DEF atX, atY, placed
    <2> QED
      BY <2>1, <2>2 DEF PanelLayout
  <1>2. placed \in PanelLayout
    <2> DEFINE atX == IF side \in Vertical
                      THEN a.left + (IF TRUE THEN a.width \div 2 - l.width \div 2 ELSE 0)
                      ELSE a.left + (IF side = "right" THEN a.width ELSE -l.width)
               atY == IF side \in Vertical
                      THEN a.top + (IF side = "below" THEN a.height ELSE -l.height)
                      ELSE a.top + (IF TRUE THEN a.height \div 2 - l.height \div 2 ELSE 0)
    <2>1. placed = [l EXCEPT !.left = atX, !.top = atY]
      BY Zenon DEF BesideAnchor
    <2>2. atX \in Int /\ atY \in Int
      BY <1>0
    <2> HIDE DEF atX, atY, placed
    <2> QED
      BY <2>1, <2>2 DEF PanelLayout
  <1> HIDE DEF placed
  <1>3. r = [placed EXCEPT !.left = left, !.movedX = X, !.movedY = Y, !.top = top]
    BY DEF LayoutRelativeTo, placed
  <1> HIDE DEF r
  <1>4. r.left = left /\ r.top = top
    <2> HIDE DEF left, top, X, Y
    <2> QED
      BY <1>2, <1>3 DEF PanelLayout
  <1>5. (r.movedX <=> l.movedX \/ tooFar) /\ (r.movedY <=> l.movedY \/ tooLow \/ tooHigh)
    <2>1. r.movedX = X /\ r.movedY = Y
      <3> HIDE DEF left, top, X, Y
      <3> QED
        BY <1>2, <1>3 DEF PanelLayout
    <2> QED
      BY <1>1, <2>1, Zenon
  <1>6. CASE side = "below"
    <2>1. ~tooHigh /\ r.top = a.top + a.height
      <3>1. placed.top = a.top + a.height /\ ~(placed.top < 0) /\ ~tooHigh
        BY <1>0, <1>1, <1>6
      <3> QED
        BY <1>4, <3>1, Zenon
    <2>2. tooLow <=> a.top + a.height + l.height > window.height - 10 /\ a.top - l.height >= 0
      BY <1>0, <1>1, <1>6
    <2> QED
      BY <1>5, <1>6, <2>1, <2>2, Zenon DEF Relative, r
  <1>7. CASE side = "above"
    <2>1. ~tooLow /\ r.top = a.top - l.height
      BY <1>0, <1>1, <1>4, <1>7
    <2>2. tooHigh <=> a.top - l.height < 0
      BY <1>0, <1>1, <1>7
    <2> QED
      BY <1>5, <1>7, <2>1, <2>2, Zenon DEF Relative, r
  <1>8. CASE side = "right"
    <2>1. ~tooLow /\ ~tooHigh
      BY <1>8
    <2>2. tooFar <=> a.left + a.width + l.width > window.width - 10
      BY <1>0, <1>1, <1>8
    <2>3. ASSUME a.left + a.width + l.width <= window.width - 10 PROVE r.left = a.left + a.width
      <3>1. ~tooFar
        BY <1>0, <2>2, <2>3
      <3> QED
        BY <1>1, <1>4, <1>8, <3>1, Zenon
    <2> QED
      BY <1>5, <1>8, <2>1, <2>2, <2>3, Zenon DEF Relative, r
  <1>9. CASE side = "left"
    <2>1. ~tooLow /\ ~tooHigh
      BY <1>9
    <2>2. ASSUME a.left <= window.width - 10 PROVE ~tooFar /\ r.left = a.left - l.width
      <3>1. placed.left = a.left - l.width
        BY <1>1, <1>9
      <3>2. ~tooFar
        BY <1>0, <2>2, <3>1
      <3> QED
        BY <1>4, <3>1, <3>2, Zenon
    <2> QED
      BY <1>5, <1>9, <2>1, <2>2, Zenon DEF Relative, r
  <1> QED
    BY <1>6, <1>7, <1>8, <1>9, Zenon DEF Sides

\* Next to the anchor on that side, as Beside, but for any layout or style.
NextTo(s, a, side) ==
    /\ side = "below" => s.top = a.top + a.height + 15
    /\ side = "above" => s.top + s.height + 15 = a.top
    /\ side = "right" => s.left = a.left + a.width + 15
    /\ side = "left" => s.left + s.width + 15 = a.left

\* What the two attempts come to: on which side, and where.
LEMMA PopoverPlaced ==
    ASSUME FrameTypes, NEW a \in Anchors, NEW side \in Sides, a.left <= window.width - 10,
           ~layout.movedX, ~layout.movedY,
           layout.width = PanelSize.width, layout.height = PanelSize.height
    PROVE  /\ Fits(a, side) => NextTo(PopoverLayout(layout, a, side), a, side)
           /\ side # "left" /\ ~Fits(a, side) /\ Fits(a, Opposite(side))
                 => NextTo(PopoverLayout(layout, a, side), a, Opposite(side))
  <1> DEFINE one == LayoutRelativeTo(layout, a, side, TRUE)
             final == FinalSide(one, side)
             two == LayoutRelativeTo(one, a, final, TRUE)
             placed == IF one.movedX \/ one.movedY THEN two ELSE one
             s == PopoverLayout(layout, a, side)
             W == PanelSize.width
             H == PanelSize.height
  <1>1. layout \in PanelLayout /\ TRUE \in BOOLEAN
    BY Zenon DEF FrameTypes
  <1>2. one \in PanelLayout /\ one.width = W /\ one.height = H
    BY <1>1, LayoutRelativeType, Zenon
  <1>3. final \in Sides /\ Opposite(side) \in Sides
    BY OppositeType DEF FinalSide
  <1>4. final = IF (one.movedX /\ side \notin Vertical) \/ (one.movedY /\ side \in Vertical)
                THEN Opposite(side) ELSE side
    BY Zenon DEF FinalSide
  <1>5. /\ side = "below" =>
              /\ one.top = a.top + a.height
              /\ one.movedY <=> a.top + a.height + H > window.height - 10 /\ a.top - H >= 0
        /\ side = "above" =>
              /\ one.top = a.top - H
              /\ one.movedY <=> a.top - H < 0
        /\ side = "right" =>
              /\ one.movedX <=> a.left + a.width + W > window.width - 10
              /\ a.left + a.width + W <= window.width - 10 => one.left = a.left + a.width
              /\ ~one.movedY
        /\ side = "left" => one.left = a.left - W /\ ~one.movedX /\ ~one.movedY
    <2>1. Relative(one, layout, a, side)
      BY <1>1, RelativeFields, Zenon
    <2> HIDE DEF one
    <2> QED
      BY <2>1, Zenon DEF Relative
  <1> HIDE DEF one, final
  <1>6. two \in PanelLayout /\ two.width = W /\ two.height = H
    BY <1>1, <1>2, <1>3, LayoutRelativeType, Zenon
  <1>7. /\ final = "below" => two.top = a.top + a.height
        /\ final = "above" => two.top = a.top - H
        /\ final = "left" => two.left = a.left - W
    <2>1. Relative(two, one, a, final)
      BY <1>2, <1>3, RelativeFields, Zenon
    <2> HIDE DEF two
    <2> QED
      BY <1>2, <2>1, Zenon DEF Relative
  <1>8. s = CASE final = "above" -> [placed EXCEPT !.top = @ - 15]
              [] final = "below" -> [placed EXCEPT !.top = @ + 15]
              [] final = "left" -> [placed EXCEPT !.left = @ - 15]
              [] final = "right" -> [placed EXCEPT !.left = @ + 15]
    BY Zenon DEF PopoverLayout, placed, two, final, one
  <1> HIDE DEF two, s
  <1>9. placed \in PanelLayout /\ placed.width = W /\ placed.height = H
    BY <1>2, <1>6
  <1>10. /\ (one.movedX \/ one.movedY) => placed = two
         /\ ~one.movedX /\ ~one.movedY => placed = one
    BY Zenon
  <1> HIDE DEF placed
  <1>11. /\ s.width = W /\ s.height = H
         /\ final = "above" => s.top = placed.top - 15
         /\ final = "below" => s.top = placed.top + 15
         /\ final = "left" => s.left = placed.left - 15
         /\ final = "right" => s.left = placed.left + 15
    BY <1>3, <1>8, <1>9 DEF PanelLayout, Sides
  <1>12. /\ a.left \in Int /\ a.top \in Int /\ a.width \in Int /\ a.height \in Int
         /\ W \in Int /\ H \in Int /\ window.width \in Int /\ window.height \in Int
    BY SizeTypes, FrameAssumption
  <1>13. CASE side = "below"
    <2>1. /\ Fits(a, side) <=> a.top + a.height + H <= window.height - 10
          /\ Fits(a, "above") <=> a.top - H >= 0
          /\ Opposite(side) = "above" /\ side \in Vertical
      BY <1>13 DEF Fits, Opposite, Vertical
    <2>2. Fits(a, side) => final = "below"
      <3>1. Fits(a, side) => ~one.movedY
        BY <1>5, <1>12, <1>13, <2>1
      <3> QED
        BY <1>4, <1>13, <2>1, <3>1, Zenon
    <2>3. ~Fits(a, side) /\ Fits(a, "above") => final = "above" /\ one.movedY
      <3>1. ~Fits(a, side) /\ Fits(a, "above") => one.movedY
        BY <1>5, <1>12, <1>13, <2>1
      <3> QED
        BY <1>4, <1>13, <2>1, <3>1, Zenon
    <2>4. final = "below" => placed.top = a.top + a.height
      BY <1>5, <1>7, <1>10, <1>13, Zenon
    <2>5. final = "above" /\ one.movedY => placed.top = a.top - H
      BY <1>7, <1>10, Zenon
    <2>6. final = "below" => NextTo(s, a, "below")
      BY <1>11, <1>12, <2>4 DEF NextTo
    <2>7. final = "above" /\ one.movedY => NextTo(s, a, "above")
      BY <1>11, <1>12, <2>5 DEF NextTo
    <2> QED
      BY <1>13, <2>1, <2>2, <2>3, <2>6, <2>7, Zenon DEF s
  <1>14. CASE side = "above"
    <2>1. /\ Fits(a, "below") <=> a.top + a.height + H <= window.height - 10
          /\ Fits(a, side) <=> a.top - H >= 0
          /\ Opposite(side) = "below" /\ side \in Vertical
      BY <1>14 DEF Fits, Opposite, Vertical
    <2>2. Fits(a, side) => final = "above"
      <3>1. Fits(a, side) => ~one.movedY
        BY <1>5, <1>12, <1>14, <2>1
      <3> QED
        BY <1>4, <1>14, <2>1, <3>1, Zenon
    <2>3. ~Fits(a, side) => final = "below" /\ one.movedY
      <3>1. ~Fits(a, side) => one.movedY
        BY <1>5, <1>12, <1>14, <2>1
      <3> QED
        BY <1>4, <1>14, <2>1, <3>1, Zenon
    <2>4. final = "above" => placed.top = a.top - H
      BY <1>5, <1>7, <1>10, <1>14, Zenon
    <2>5. final = "below" /\ one.movedY => placed.top = a.top + a.height
      BY <1>7, <1>10, Zenon
    <2>6. final = "above" => NextTo(s, a, "above")
      BY <1>11, <1>12, <2>4 DEF NextTo
    <2>7. final = "below" /\ one.movedY => NextTo(s, a, "below")
      BY <1>11, <1>12, <2>5 DEF NextTo
    <2> QED
      BY <1>14, <2>1, <2>2, <2>3, <2>6, <2>7, Zenon DEF s
  <1>15. CASE side = "right"
    <2>1. /\ Fits(a, side) <=> a.left + a.width + W <= window.width - 10
          /\ Opposite(side) = "left" /\ side \notin Vertical
      BY <1>15 DEF Fits, Opposite, Vertical
    <2>2. Fits(a, side) => ~one.movedX /\ ~one.movedY /\ final = "right" /\ one.left = a.left + a.width
      <3>1. Fits(a, side) => ~one.movedX /\ ~one.movedY /\ one.left = a.left + a.width
        BY <1>5, <1>12, <1>15, <2>1
      <3> QED
        BY <1>4, <1>15, <2>1, <3>1, Zenon
    <2>3. ~Fits(a, side) => final = "left" /\ one.movedX
      <3>1. ~Fits(a, side) => one.movedX
        BY <1>5, <1>12, <1>15, <2>1
      <3> QED
        BY <1>4, <1>15, <2>1, <3>1, Zenon
    <2>4. final = "left" /\ one.movedX => placed.left = a.left - W
      BY <1>7, <1>10, Zenon
    <2>5. Fits(a, side) => NextTo(s, a, "right")
      <3>1. Fits(a, side) => placed.left = a.left + a.width
        BY <1>10, <2>2, Zenon
      <3> QED
        BY <1>11, <1>12, <2>2, <3>1 DEF NextTo
    <2>6. final = "left" /\ one.movedX => NextTo(s, a, "left")
      BY <1>11, <1>12, <2>4 DEF NextTo
    <2> QED
      BY <1>15, <2>1, <2>3, <2>5, <2>6, Zenon DEF s
  <1>16. CASE side = "left"
    <2>1. side \notin Vertical
      BY <1>16 DEF Vertical
    <2>2. final = "left" /\ placed.left = a.left - W
      BY <1>4, <1>5, <1>10, <1>16, <2>1, Zenon
    <2>3. NextTo(s, a, "left")
      BY <1>11, <1>12, <2>2 DEF NextTo
    <2> QED
      BY <1>16, <2>3, Zenon DEF s
  <1> QED
    BY <1>13, <1>14, <1>15, <1>16, Zenon DEF Sides

\* Nothing but popup beside an anchor shows a popover.
LEMMA OnlyBeside ==
    ASSUME Types, [Next]_vars, kind = "popover", ~\E a \in Anchors, side \in Sides : OpenBeside(a, side)
    PROVE  asked' = asked /\ (shown' => shown)
  <1>1. asked' = asked
    BY Zenon, NextCases DEF OpenPanel, ClosePanel, ReloadPage, WindowResized, LayoutStep, StackAction,
       ContentHeight, ContentVisible, PaneSize, PressAction,
       PressTitle, PressThumb, PressDivider, PressRowHandle, PressElsewhere, PressHandle, PressHeader, Press,
       MovePointer, Release, DoubleClick, TableAction, SetHeaders, Scroll, AnimationFrame,
       RowsAction, ChangeRows, ChangeObject, NoMouse, mouseVars, vars
  <1>2. shown' => shown
    <2>1. CASE OpenPanel
      BY <2>1 DEF OpenPanel, Popup
    <2>2. CASE ClosePanel \/ ReloadPage
      BY <2>2, Zenon DEF ClosePanel, Close, ReloadPage, Reload
    <2>3. CASE PressAction
      BY <2>3, PressStates
    <2>4. CASE Release
      BY <2>4, ReleaseStates
    <2>5. CASE \E p \in Points : MovePointer(p)
      BY <2>5, Zenon DEF MovePointer, TitleMouseMove, ThumbMouseMove, NoFrame, frameVars
    <2>6. CASE \/ \E w \in Windows : WindowResized(w)
               \/ LayoutStep
      BY <2>6, Zenon DEF WindowResized, ResizeWindow, LayoutStep
    <2>7. CASE \/ StackAction \/ (\E size \in {100, 150} : PaneSize(size)) \/ DoubleClick
               \/ TableAction \/ RowsAction \/ UNCHANGED vars
      BY <2>7, Zenon DEF StackAction, ContentHeight, ContentVisible, PaneSize, DoubleClick, TableAction,
         SetHeaders, Scroll, AnimationFrame, RowsAction, ChangeRows, ChangeObject, NoMouse, NoFrame, frameVars, vars
    <2> QED
      BY <2>1, <2>2, <2>3, <2>4, <2>5, <2>6, <2>7, NextCases
  <1> QED
    BY <1>1, <1>2

\* A popover whose size, and the window's, stay.
SteadyPopover == kind = "popover" /\ ~reused /\ env \cap {"window", "thumb", "stack"} = {}

\* Such a popover is new when it is shown, was never moved or resized, and has the
\* style it was given then.
PopoverInv ==
    SteadyPopover =>
        /\ title.state = "idle" /\ thumb.state = "idle" /\ stored = {}
        /\ ~shown => layout = FreshLayout
        /\ \A r \in asked : r.side \in Sides
        /\ shown => \A r \in asked :
              /\ Fits(r.anchor, r.side) => NextTo(style, r.anchor, r.side)
              /\ r.side # "left" /\ ~Fits(r.anchor, r.side) /\ Fits(r.anchor, Opposite(r.side))
                    => NextTo(style, r.anchor, Opposite(r.side))

\* It is so at first.
LEMMA PopoverInit == Init => PopoverInv
  <1> SUFFICES ASSUME Init PROVE PopoverInv
    OBVIOUS
  <1>1. title.state = "idle" /\ thumb.state = "idle" /\ stored = {} /\ layout = FreshLayout
    BY DEF Init, FrameInit, FreshTitle, FreshThumb
  <1>2. ~shown /\ asked = {}
    BY Zenon DEF Init, FrameInit
  <1> QED
    BY <1>1, <1>2 DEF PopoverInv

\* Every step keeps it so.
LEMMA PopoverStep ==
    ASSUME \A a \in Anchors : a.width >= 10
    PROVE  Types /\ QuietInv /\ PopoverInv /\ [Next]_vars => PopoverInv'
  <1> SUFFICES ASSUME Types, QuietInv, PopoverInv, [Next]_vars, SteadyPopover' PROVE PopoverInv'
    BY DEF PopoverInv
  <1>1. env' = env /\ kind' = kind /\ reused' = reused /\ FrameStep /\ FrameTypes
    BY EnvStays, FrameSteps DEF Types
  <1>2. SteadyPopover /\ FreshLayout' = FreshLayout
    BY <1>1, Zenon DEF SteadyPopover, FreshLayout
  <1>3. kind = "popover" /\ ~reused /\ "window" \notin env /\ "thumb" \notin env /\ "stack" \notin env
    BY <1>2 DEF SteadyPopover
  <1>4. title.state = "idle" /\ thumb.state = "idle" /\ stored = {} /\ (~shown => layout = FreshLayout)
    BY <1>2 DEF PopoverInv
  <1>5. CASE \E a \in Anchors, side \in Sides : OpenBeside(a, side)
    <2>1. PICK a \in Anchors, side \in Sides : OpenBeside(a, side)
      BY <1>5
    <2>2. /\ PopupWith(PopoverLayout(layout, a, side))
          /\ a.left + a.width <= window.width
          /\ asked' = {[anchor |-> a, side |-> side]}
      BY <1>3, <2>1 DEF OpenBeside, PopupBeside
    <2>3. /\ ~shown /\ shown' /\ UNCHANGED <<window, title, thumb, stored>>
          /\ layout' = Restored(PopoverLayout(layout, a, side)) /\ style' = TranslateLayout(layout')
      BY <2>2, Zenon DEF PopupWith
    <2>4. layout' = PopoverLayout(layout, a, side) /\ layout' \in PanelLayout
      BY <1>1, <1>4, <2>3, PopoverType, RestoredType
    <2>5. ~layout.movedX /\ ~layout.movedY
      <3>1. layout = FreshLayout
        BY <1>4, <2>3
      <3>2. FreshLayout.movedX = FALSE /\ FreshLayout.movedY = FALSE
        BY Zenon DEF FreshLayout
      <3> QED
        BY <3>1, <3>2, Zenon
    <2>6. layout.width = PanelSize.width /\ layout.height = PanelSize.height
      BY <1>4, <2>3 DEF FreshLayout
    <2>7. a.left <= window.width - 10
      BY <1>1, <2>2, SizeTypes
    <2>8. /\ Fits(a, side) => NextTo(layout', a, side)
          /\ side # "left" /\ ~Fits(a, side) /\ Fits(a, Opposite(side)) => NextTo(layout', a, Opposite(side))
      BY <1>1, <2>4, <2>5, <2>6, <2>7, PopoverPlaced, Zenon
    <2>9. \A b, z : NextTo(layout', b, z) => NextTo(style', b, z)
      <3>1. /\ style'.left = layout'.left /\ style'.top = layout'.top
            /\ style'.width = layout'.width /\ style'.height = layout'.height
        BY <2>3 DEF TranslateLayout
      <3> QED
        BY <3>1, Zenon DEF NextTo
    <2>10. \A b, z : Fits(b, z)' <=> Fits(b, z)
      BY <2>3, Zenon DEF Fits
    <2>11. \A r \in asked' : r.anchor = a /\ r.side = side
      BY <2>2
    <2>12. \A r \in asked' :
              /\ Fits(r.anchor, r.side)' => NextTo(style', r.anchor, r.side)
              /\ r.side # "left" /\ ~Fits(r.anchor, r.side)' /\ Fits(r.anchor, Opposite(r.side))'
                    => NextTo(style', r.anchor, Opposite(r.side))
      BY <2>8, <2>9, <2>10, <2>11, Zenon
    <2> QED
      BY <1>4, <2>3, <2>11, <2>12 DEF PopoverInv
  <1>6. CASE ~\E a \in Anchors, side \in Sides : OpenBeside(a, side)
    <2>1. asked' = asked /\ (shown' => shown)
      BY <1>3, <1>6, OnlyBeside
    <2>2. CASE Close \/ Reload
      <3>1. ~shown' /\ stored' = stored /\ layout' = FreshLayout /\ title' = FreshTitle /\ thumb' = FreshThumb
        BY <1>3, <2>2, Zenon DEF Close, Reload
      <3> QED
        BY <1>2, <1>4, <2>1, <3>1 DEF PopoverInv, FreshTitle, FreshThumb
    <2>3. CASE UNCHANGED frameVars
      <3>1. UNCHANGED <<window, layout, style, shown, title, thumb, stored>>
        BY <2>3 DEF frameVars
      <3>2. \A b, z : Fits(b, z)' <=> Fits(b, z)
        BY <3>1, Zenon DEF Fits
      <3> QED
        BY <1>2, <2>1, <3>1, <3>2, Zenon DEF PopoverInv
    <2>4. ~Popup /\ ~\E a \in Anchors, side \in Sides : PopupBeside(a, side)
      BY <2>1, Zenon DEF Popup, PopupBeside, PopupWith
    <2>5. Quiet /\ ~InDrag("title") /\ ~InDrag("thumb")
      BY <1>3, <1>4 DEF QuietInv, InDrag
    <2> QED
      BY <1>1, <1>3, <2>2, <2>3, <2>4, <2>5, Zenon DEF FrameStep
  <1> QED
    BY <1>5, <1>6

\* A popover is beside its anchor on the side asked for if there is room, else on the
\* other side if there is room there: for every window and panel, and every anchor
\* that is at least 10 pixels wide.  (A narrower one may be too near to the right
\* edge, where what is left of it is moved over it.)
THEOREM PopoverCorrect ==
    ASSUME \A a \in Anchors : a.width >= 10
    PROVE  Spec => []PopoverBesideAnchor
  <1>1. Types /\ PopoverInv => PopoverBesideAnchor
    <2> SUFFICES ASSUME Types, PopoverInv, kind = "popover", shown, ~reused,
                        env \cap {"window", "thumb", "stack"} = {}, NEW r \in asked
                 PROVE  /\ Fits(r.anchor, r.side) => Beside(r.anchor, r.side)
                        /\ r.side # "left" /\ ~Fits(r.anchor, r.side) /\ Fits(r.anchor, Opposite(r.side))
                              => Beside(r.anchor, Opposite(r.side))
      BY Zenon DEF PopoverBesideAnchor
    <2>1. r.side \in Sides
      BY DEF PopoverInv, SteadyPopover
    <2>2. \A side \in Sides : NextTo(style, r.anchor, side) => Beside(r.anchor, side)
      BY DEF NextTo, Beside, Sides
    <2>3. Opposite(r.side) \in Sides
      BY <2>1, OppositeType
    <2> QED
      BY <2>1, <2>2, <2>3, Zenon DEF PopoverInv, SteadyPopover
  <1> QED
    BY <1>1, TypesInit, TypesStep, QuietInit, QuietStep, PopoverInit, PopoverStep, PTL DEF Spec

-----------------------------------------------------------------------------
(* Where the panel was left *)

\* The panel keeps its height as well, unless it has a thumb or a stack of views.
HeightInv ==
    "stack" \notin env =>
        /\ layout.height = PanelSize.height
        /\ "thumb" \notin env => style.height = PanelSize.height

\* It has that height at first.
LEMMA HeightInit == Init => HeightInv
  BY FreshTypes, TranslateType DEF Init, FrameInit, HeightInv, FreshLayout

\* Every step keeps it.
LEMMA HeightStep == Types /\ DragInv /\ QuietInv /\ HeightInv /\ [Next]_vars => HeightInv'
  <1> SUFFICES ASSUME Types, DragInv, QuietInv, HeightInv, [Next]_vars, "stack" \notin env PROVE HeightInv'
    BY EnvStays DEF HeightInv
  <1>0. env' = env /\ kind' = kind /\ FrameStep /\ FrameTypes /\ FrameTypes' /\ Quiet
    BY EnvStays, FrameSteps, FrameStepTypes DEF Types, QuietInv
  <1>1. CASE Popup \/ \E a \in Anchors, side \in Sides : PopupBeside(a, side)
    <2>1. style'.height = layout'.height /\ layout'.height = layout.height
      BY <1>0, <1>1, OpenLayout, TranslateType
    <2> QED
      BY <2>1 DEF HeightInv
  <1>2. CASE Close \/ Reload
    <2>1. style' = style /\ layout' \in {layout, FreshLayout}
      BY <1>2 DEF Close, Reload
    <2> QED
      BY <1>0, <2>1 DEF HeightInv, FreshLayout
  <1>3. CASE \E x, y \in Int : TitleMouseMove(x, y)
    <2>1. layout' = layout /\ style'.height = style.height
      BY <1>0, <1>3 DEF TitleMouseMove, FrameTypes, PanelStyle
    <2> QED
      BY <1>0, <2>1 DEF HeightInv
  <1>4. CASE \E x, y \in Int : ThumbMouseMove(x, y) /\ InDrag("thumb")
    <2>1. "thumb" \in env
      BY <1>4 DEF InDrag, DragInv, ThumbDrag
    <2>2. layout' = layout
      BY <1>4 DEF ThumbMouseMove
    <2> QED
      BY <1>0, <2>1, <2>2 DEF HeightInv
  <1>5. CASE UNCHANGED <<layout, style>>
    BY <1>0, <1>5 DEF HeightInv
  <1>6. \/ Popup \/ (\E a \in Anchors, side \in Sides : PopupBeside(a, side)) \/ Close \/ Reload
        \/ (\E x, y \in Int : TitleMouseMove(x, y))
        \/ (\E x, y \in Int : ThumbMouseMove(x, y) /\ InDrag("thumb")) \/ UNCHANGED <<layout, style>>
    BY <1>0, Zenon DEF FrameStep, ResizeWindow, TitleMouseDown, ThumbMouseDown, TitleMouseUp, ThumbMouseUp, frameVars
  <1> QED
    BY <1>1, <1>2, <1>3, <1>4, <1>5, <1>6

\* The pages for which a panel stays where it was put; and those on which neither the
\* window nor the panel gets another size.
Kept == keyed /\ "click" \notin env /\ "stack" \notin env /\ ~Loose

Fixed == env \cap {"window", "thumb"} = {}

\* A position of the panel that the title lets it get to.
Fine(p, w) ==
    /\ p.left >= 5 /\ p.top >= 5
    /\ Fixed => /\ p.left + PanelSize.width <= w.width - 5
                /\ p.top + PanelSize.height <= w.height - 5

\* localStorage has what the user has seen last ...
IsStored == stored = leftAt /\ \A p \in stored : Fine(p, window)

\* ... and so has the element, while it rests; while it is moved, the title knows where
\* it is, once it was moved at all.
Rests == shown /\ title.state = "idle" =>
    \A p \in leftAt : ~style.centered /\ p.left = style.left /\ p.top = style.top

Limited == title.state = "moving" /\ Fixed =>
    /\ title.limitX = window.width - PanelSize.width - 5
    /\ title.limitY = window.height - PanelSize.height - 5

Follows == title.state = "moving" /\ grab.moved =>
    /\ ~style.centered /\ title.newX = style.left /\ title.newY = style.top
    /\ Fine(style, window)

KeptInv == Kept => IsStored /\ Rests /\ Limited /\ Follows

\* At first nothing is stored.
LEMMA KeptInit == Init => KeptInv
  <1> SUFFICES ASSUME Init PROVE KeptInv
    OBVIOUS
  <1>1. title.state = "idle" /\ stored = {} /\ leftAt = {}
    BY DEF Init, FrameInit, FreshTitle
  <1> QED
    BY <1>1 DEF KeptInv, IsStored, Rests, Limited, Follows

\* A step of the mouse that does not move the panel.
LEMMA KeptStays ==
    ASSUME Types, DragInv, KeptInv, Kept, [Next]_vars,
           UNCHANGED <<stored, leftAt, title>>, Fixed => UNCHANGED window,
           shown' => shown,
           title.state = "moving" => style' = style /\ grab' = grab,
           /\ style'.left = style.left /\ style'.top = style.top
           /\ style'.centered = style.centered
    PROVE  KeptInv'
  <1>0. env' = env /\ (Fixed' <=> Fixed)
    BY EnvStays DEF Fixed
  <1>1. \A p : Fine(p, window)' <=> Fine(p, window)
    BY <1>0, Zenon DEF Fine
  <1>2. IsStored'
    <2>1. Fixed => window' = window
      BY Zenon
    <2> QED
      BY <1>0, <1>1, <2>1 DEF KeptInv, IsStored, Fine
  <1>3. Rests'
    BY Zenon DEF KeptInv, Rests
  <1>4. Limited'
    BY <1>0 DEF KeptInv, Limited
  <1>5. Follows'
    BY <1>0 DEF KeptInv, Follows, Fine
  <1> QED
    BY <1>2, <1>3, <1>4, <1>5 DEF KeptInv

\* Opening the panel puts it where it was.
LEMMA KeptOpens ==
    ASSUME Types, DragInv, KeptInv, Kept, [Next]_vars,
           OpenPanel \/ \E a \in Anchors, side \in Sides : OpenBeside(a, side)
    PROVE  KeptInv'
  <1>1. Popup \/ \E a \in Anchors, side \in Sides : PopupBeside(a, side)
    BY Zenon DEF OpenPanel, OpenBeside
  <1>2. UNCHANGED <<env, held, leftAt>> /\ ~held
    BY Zenon DEF OpenPanel, OpenBeside, mouseVars
  <1>3. UNCHANGED <<window, title, stored>>
    BY <1>1, Zenon DEF Popup, PopupBeside, PopupWith
  <1>4. title.state # "moving"
    BY <1>2 DEF DragInv, TitleDrag, Kept
  <1>5. \A p \in leftAt : ~style'.centered /\ p.left = style'.left /\ p.top = style'.top
    <2>1. FrameTypes /\ keyed /\ stored = leftAt
      BY DEF Types, Kept, KeptInv, IsStored
    <2>2. /\ layout' \in PanelLayout /\ style' = TranslateLayout(layout')
          /\ stored # {} => \A p \in stored :
                layout'.left = p.left /\ layout'.top = p.top /\ layout'.centered = FALSE
      BY <1>1, <2>1, OpenLayout
    <2>3. /\ style'.left = layout'.left /\ style'.top = layout'.top /\ style'.centered = layout'.centered
      BY <2>2, TranslateType
    <2> QED
      BY <2>1, <2>2, <2>3, Zenon
  <1>6. IsStored'
    BY <1>2, <1>3, Zenon DEF KeptInv, IsStored, Fine, Fixed
  <1> QED
    BY <1>2, <1>3, <1>4, <1>5, <1>6 DEF KeptInv, Rests, Limited, Follows

\* Closing it, or loading the page again, keeps what is stored.
LEMMA KeptCloses ==
    ASSUME Types, KeptInv, Kept, [Next]_vars, ClosePanel \/ ReloadPage, DragInv'
    PROVE  KeptInv'
  <1>1. UNCHANGED <<env, leftAt>>
    BY Zenon DEF ClosePanel, ReloadPage
  <1>2. UNCHANGED <<window, stored>> /\ ~shown'
    BY Zenon DEF ClosePanel, Close, ReloadPage, Reload
  <1>3. title'.state # "moving"
    BY <1>2, EnvStays DEF DragInv, TitleDrag, Kept, Loose
  <1>4. IsStored'
    BY <1>1, <1>2, Zenon DEF KeptInv, IsStored, Fine, Fixed
  <1> QED
    BY <1>2, <1>3, <1>4 DEF KeptInv, Rests, Limited, Follows

\* Pressing the title notes the limits.
LEMMA KeptPressed ==
    ASSUME Types, DragInv, WidthInv, HeightInv, KeptInv, Kept, [Next]_vars, PressTitle
    PROVE  KeptInv'
  <1>1. UNCHANGED <<env, leftAt>> /\ ~held
    BY Zenon DEF PressTitle, Press
  <1>2. title.state = "idle"
    BY <1>1 DEF DragInv, TitleDrag, Kept, Types, FrameTypes, TitleView
  <1>3. TitleMouseDown(PanelAt.left + 10, PanelAt.top + 10) /\ Grab(PanelAt.left, PanelAt.top)
    BY <1>2, Zenon DEF PressTitle
  <1>4. UNCHANGED <<window, style, stored>>
    BY <1>3 DEF TitleMouseDown
  <1>5. /\ title'.state = "moving"
        /\ title'.limitX = window.width - style.width - 5
        /\ title'.limitY = window.height - style.height - 5
    BY <1>3 DEF TitleMouseDown, Types, FrameTypes, TitleView
  <1>6. ~grab'.moved
    BY <1>3, Zenon DEF Grab
  <1>7. IsStored'
    BY <1>1, <1>4, Zenon DEF KeptInv, IsStored, Fine, Fixed
  <1>8. Limited'
    BY <1>1, <1>4, <1>5 DEF Limited, Fixed, Kept, WidthInv, HeightInv
  <1> QED
    BY <1>5, <1>6, <1>7, <1>8 DEF KeptInv, Rests, Follows

\* Moving the title moves the panel to where the limits let it.
LEMMA KeptMoves ==
    ASSUME Types, DragInv, KeptInv, Kept, [Next]_vars, NEW p \in Points, MovePointer(p),
           title.state = "moving",
           \A w \in Windows : PanelSize.width + 10 <= w.width /\ PanelSize.height + 10 <= w.height
    PROVE  KeptInv'
  <1> DEFINE newX == Constrain(title.panelX + (p.x - title.pageX), title.limitX)
             newY == Constrain(title.panelY + (p.y - title.pageY), title.limitY)
  <1>1. held /\ responder = "title" /\ shown
    BY DEF DragInv, TitleDrag, Kept
  <1>2. TitleMouseMove(p.x, p.y)
    BY <1>1, ResponderMoves DEF InDrag, InDOM
  <1>3. UNCHANGED <<env, leftAt, window, stored>>
    BY <1>2, Zenon DEF MovePointer, TitleMouseMove
  <1>4. /\ title' = [title EXCEPT !.newX = newX, !.newY = newY]
        /\ style' = [style EXCEPT !.left = newX, !.top = newY, !.centered = FALSE]
    BY <1>2 DEF TitleMouseMove
  <1>5. /\ newX \in Int /\ newX >= 5 /\ (title.limitX >= 5 => newX <= title.limitX)
        /\ newY \in Int /\ newY >= 5 /\ (title.limitY >= 5 => newY <= title.limitY)
        /\ title.limitX \in Int /\ title.limitY \in Int
    <2>1. /\ title.panelX + (p.x - title.pageX) \in Int /\ title.limitX \in Int
          /\ title.panelY + (p.y - title.pageY) \in Int /\ title.limitY \in Int
      BY PlaceTypes DEF Types, FrameTypes, TitleView
    <2> QED
      BY <2>1, ConstrainType
  <1> HIDE DEF newX, newY
  <1>6. /\ style'.left = newX /\ style'.top = newY
        /\ title'.newX = newX /\ title'.newY = newY /\ title'.state = "moving"
        /\ title'.limitX = title.limitX /\ title'.limitY = title.limitY
    BY <1>4 DEF Types, FrameTypes, TitleView, PanelStyle
  <1>7. ~style'.centered
    BY <1>4, Zenon DEF Types, FrameTypes, PanelStyle
  <1>8. Fine(style', window')
    <2>1. Fixed => title.limitX = window.width - PanelSize.width - 5 /\ title.limitY = window.height - PanelSize.height - 5
      BY DEF KeptInv, Limited
    <2>2. /\ window \in Windows /\ window.width \in Int /\ window.height \in Int
          /\ PanelSize.width \in Int /\ PanelSize.height \in Int
          /\ PanelSize.width + 10 <= window.width /\ PanelSize.height + 10 <= window.height
      BY FrameAssumption DEF Types, FrameTypes
    <2> QED
      BY <1>3, <1>5, <1>6, <2>1, <2>2 DEF Fine
  <1>9. IsStored'
    BY <1>3, Zenon DEF KeptInv, IsStored, Fine, Fixed
  <1>10. Limited'
    BY <1>3, <1>6 DEF KeptInv, Limited, Fixed
  <1>11. Follows'
    BY <1>3, <1>6, <1>7, <1>8 DEF Follows, Fine, Fixed
  <1> QED
    BY <1>6, <1>9, <1>10, <1>11 DEF KeptInv, Rests

\* Where an element is that is not centred and was given a place.
LEMMA OffsetPlaced ==
    ASSUME FrameTypes, ~style.centered, style.left >= 5, style.top >= 5
    PROVE  Offset(style, layout) = [left |-> style.left, top |-> style.top]
  <1>1. style.left # Undefined /\ style.top # Undefined
    BY DEF FrameTypes, PanelStyle, Undefined
  <1> QED
    BY <1>1, Zenon DEF Offset

\* Letting the title go stores where the panel is.
LEMMA KeptReleased ==
    ASSUME Types, DragInv, KeptInv, Kept, [Next]_vars, Release, title.state = "moving"
    PROVE  KeptInv'
  <1>1. held /\ responder = "title" /\ shown /\ InDrag("title")
    BY DEF DragInv, TitleDrag, Kept, InDrag, InDOM
  <1>2. grab.moved
    BY <1>1, Zenon DEF Release, Kept
  <1>3. TitleMouseUp /\ leftAt' = (IF keyed THEN {Offset(style, layout)} ELSE {}) /\ env' = env
    <2>1. Receivers = {"title"}
      BY <1>1 DEF Receivers
    <2> QED
      BY <1>1, <2>1, Zenon DEF Release
  <1>4. ~style.centered /\ title.newX = style.left /\ title.newY = style.top /\ Fine(style, window)
    BY <1>2 DEF KeptInv, Follows
  <1>5. leftAt' = {[left |-> style.left, top |-> style.top]}
    <2>1. Offset(style, layout) = [left |-> style.left, top |-> style.top]
      BY <1>4, OffsetPlaced DEF Fine, Types
    <2> QED
      BY <1>3, <2>1, Zenon DEF Kept
  <1>6. stored' = {[left |-> style.left, top |-> style.top]} /\ UNCHANGED <<window, style>>
    BY <1>3, <1>4, Zenon DEF TitleMouseUp, SavedPosition, Kept
  <1>7. title'.state = "idle"
    BY <1>3 DEF TitleMouseUp, FreshTitle
  <1>8. \A q \in leftAt' : q.left = style.left /\ q.top = style.top
    BY <1>5
  <1>9. IsStored'
    BY <1>3, <1>4, <1>5, <1>6, <1>8 DEF IsStored, Fine, Fixed
  <1>10. Rests'
    BY <1>4, <1>6, <1>8, Zenon DEF Rests
  <1> QED
    BY <1>7, <1>9, <1>10 DEF KeptInv, Limited, Follows

\* Letting anything else go does not.
LEMMA ReleasedElse ==
    ASSUME Types, DragInv, Release, title.state # "moving"
    PROVE  UNCHANGED <<env, window, style, shown, title, stored, leftAt>>
  <1>1. PICK v \in Receivers :
          /\ CASE v = "title" /\ InDrag(v) -> TitleMouseUp /\ leftAt' = (IF keyed THEN {Offset(style, layout)} ELSE {})
               [] v = "thumb" /\ InDrag(v) -> ThumbMouseUp /\ UNCHANGED leftAt
               [] OTHER -> NoFrame /\ UNCHANGED leftAt
    BY Zenon DEF Release
  <1>2. ~InDrag("title")
    BY DEF InDrag
  <1>3. (ThumbMouseUp \/ NoFrame) /\ UNCHANGED leftAt
    BY <1>1, <1>2
  <1>4. env' = env
    BY Zenon DEF Release
  <1> QED
    BY <1>3, <1>4 DEF ThumbMouseUp, NoFrame, frameVars

\* Every step keeps the panel's place.
LEMMA KeptStep ==
    ASSUME \A w \in Windows : PanelSize.width + 10 <= w.width /\ PanelSize.height + 10 <= w.height
    PROVE  Types /\ DragInv /\ QuietInv /\ WidthInv /\ HeightInv /\ KeptInv /\ [Next]_vars /\ DragInv' => KeptInv'
  <1> SUFFICES ASSUME Types, DragInv, QuietInv, WidthInv, HeightInv, KeptInv, [Next]_vars, DragInv', Kept'
               PROVE  KeptInv'
    BY DEF KeptInv
  <1>0. Kept /\ env' = env
    <2>1. UNCHANGED <<env, keyed, reused>>
      BY EnvStays
    <2> QED
      BY <2>1, Zenon DEF Kept, Loose
  <1>1. CASE OpenPanel \/ \E a \in Anchors, side \in Sides : OpenBeside(a, side)
    BY <1>0, <1>1, KeptOpens
  <1>2. CASE ClosePanel \/ ReloadPage
    BY <1>0, <1>2, KeptCloses
  <1>3. CASE \E w \in Windows : WindowResized(w)
    <2>1. UNCHANGED <<stored, leftAt, title, shown, style, grab>>
      BY <1>3, Zenon DEF WindowResized, ResizeWindow, mouseVars
    <2>2. ~Fixed
      BY <1>3 DEF WindowResized, Fixed
    <2> QED
      BY <1>0, <2>1, <2>2, KeptStays
  <1>4. CASE UNCHANGED <<frameVars, mouseVars>>
    <2>1. UNCHANGED <<stored, leftAt, title, shown, style, grab, window>>
      BY <1>4 DEF frameVars, mouseVars
    <2> QED
      BY <1>0, <2>1, KeptStays
  <1>5. CASE PressTitle
    BY <1>0, <1>5, KeptPressed
  <1>6. CASE PressAction /\ ~PressTitle
    <2>1. ~held /\ leftAt' = leftAt
      BY <1>6, PressSteps, Zenon DEF Press
    <2>2. title.state # "moving"
      BY <1>0, <2>1 DEF DragInv, TitleDrag, Kept
    <2>3. UNCHANGED <<stored, title, shown, style, window>>
      <3>1. CASE PressThumb
        BY <3>1, Zenon DEF PressThumb, ThumbMouseDown, NoFrame, frameVars
      <3>2. CASE ~PressThumb
        <4>1. UNCHANGED frameVars
          BY <1>6, <3>2, Zenon DEF PressAction, PressDivider, PressRowHandle, PressElsewhere, PressHandle, PressHeader, NoFrame
        <4> QED
          BY <4>1 DEF frameVars
      <3> QED
        BY <3>1, <3>2
    <2> QED
      BY <1>0, <2>1, <2>2, <2>3, KeptStays
  <1>7. CASE \E p \in Points : MovePointer(p)
    <2>1. PICK p \in Points : MovePointer(p)
      BY <1>7
    <2>2. CASE title.state = "moving"
      BY <1>0, <2>1, <2>2, KeptMoves
    <2>3. CASE title.state # "moving"
      <3>1. ~InDrag("title")
        BY <2>3 DEF InDrag
      <3>2. NoFrame \/ ThumbMouseMove(p.x, p.y)
        BY <2>1, <3>1, Zenon DEF MovePointer
      <3>3. UNCHANGED <<stored, title, shown, window>>
        BY <3>2, Zenon DEF NoFrame, ThumbMouseMove, frameVars
      <3>4. style'.left = style.left /\ style'.top = style.top /\ style'.centered = style.centered
        BY <3>2 DEF NoFrame, ThumbMouseMove, frameVars, Types, FrameTypes, PanelStyle
      <3>5. leftAt' = leftAt
        BY <2>1, Zenon DEF MovePointer
      <3> QED
        BY <1>0, <2>3, <3>3, <3>4, <3>5, KeptStays
    <2> QED
      BY <2>2, <2>3
  <1>8. CASE Release
    <2>1. CASE title.state = "moving"
      BY <1>0, <1>8, <2>1, KeptReleased
    <2>2. CASE title.state # "moving"
      <3>1. UNCHANGED <<env, window, style, shown, title, stored, leftAt>>
        BY <1>8, <2>2, ReleasedElse
      <3> QED
        BY <1>0, <2>2, <3>1, KeptStays
    <2> QED
      BY <2>1, <2>2
  <1>9. ~LayoutStep
    <2>1. Quiet
      BY <1>0 DEF QuietInv, Kept
    <2> QED
      BY <2>1, Zenon DEF LayoutStep, SetupStep, PlaceChild, SetStackHeight, SetupReturns, Quiet
  <1>10. \/ StackAction \/ (\E size \in {100, 150} : PaneSize(size)) \/ DoubleClick
         \/ TableAction \/ RowsAction \/ UNCHANGED vars
         => UNCHANGED <<frameVars, mouseVars>>
    BY Zenon DEF StackAction, ContentHeight, ContentVisible, PaneSize, DoubleClick, TableAction,
         SetHeaders, Scroll, AnimationFrame, RowsAction, ChangeRows, ChangeObject, NoMouse, NoFrame, vars
  <1>11. \/ OpenPanel \/ (\E a \in Anchors, side \in Sides : OpenBeside(a, side))
         \/ ClosePanel \/ ReloadPage \/ (\E w \in Windows : WindowResized(w))
         \/ UNCHANGED <<frameVars, mouseVars>> \/ PressAction
         \/ (\E p \in Points : MovePointer(p)) \/ Release
    <2>1. CASE UNCHANGED vars
      BY <1>10, <2>1
    <2>2. CASE Next
      BY <1>9, <1>10, <2>2, NextCases, Zenon
    <2> QED
      BY <2>1, <2>2
  <1> QED
    BY <1>1, <1>2, <1>3, <1>4, <1>5, <1>6, <1>7, <1>8, <1>11, Zenon

\* A panel with a layoutPersistenceKey is where the user has put it last, and inside
\* the window, through closing and opening it and loading the page again: for every
\* panel that fits into the windows with the margins the title keeps, every anchor
\* and every way of the pointer.
THEOREM ReopensCorrect ==
    ASSUME \A w \in Windows : PanelSize.width + 10 <= w.width /\ PanelSize.height + 10 <= w.height
    PROVE  Spec => []ReopensWhereLeft
  <1>1. Types /\ WidthInv /\ HeightInv /\ KeptInv => ReopensWhereLeft
    <2> SUFFICES ASSUME Types, WidthInv, HeightInv, KeptInv, Kept, shown, title.state = "idle", leftAt # {}
                 PROVE  /\ leftAt = {Offset(style, layout)}
                        /\ env \cap {"window", "thumb"} = {} => Inside(style, layout)
      BY Zenon DEF ReopensWhereLeft, Kept, Loose
    <2>1. stored = leftAt /\ \A p \in stored : Fine(p, window)
      BY DEF KeptInv, IsStored
    <2>2. PICK p \in Position : leftAt = {p}
      BY <2>1 DEF Types, FrameTypes
    <2>3. ~style.centered /\ p.left = style.left /\ p.top = style.top
      BY <2>2, Zenon DEF KeptInv, Rests
    <2>4. Fine(p, window)
      BY <2>1, <2>2
    <2>5. Offset(style, layout) = [left |-> style.left, top |-> style.top]
      BY <2>3, <2>4, OffsetPlaced DEF Fine, Types
    <2>6. p = [left |-> p.left, top |-> p.top]
      BY DEF Position
    <2>7. leftAt = {Offset(style, layout)}
      BY <2>2, <2>3, <2>5, <2>6, Zenon
    <2>8. Offset(style, layout).left = p.left /\ Offset(style, layout).top = p.top
      BY <2>3, <2>5
    <2>9. ASSUME env \cap {"window", "thumb"} = {} PROVE Inside(style, layout)
      <3>1. Fixed /\ "thumb" \notin env /\ "stack" \notin env
        BY <2>9 DEF Fixed, Kept
      <3>2. style.width = PanelSize.width /\ style.height = PanelSize.height
        BY <3>1 DEF WidthInv, HeightInv
      <3> QED
        BY <2>4, <2>8, <3>1, <3>2 DEF Inside, Fine
    <2> QED
      BY <2>7, <2>9
  <1> QED
    BY <1>1, TypesInit, TypesStep, DragInit, DragStep, QuietInit, QuietStep, WidthInit, WidthStep,
       HeightInit, HeightStep, KeptInit, KeptStep, PTL DEF Spec

-----------------------------------------------------------------------------
(* The rows of tables *)

\* What the cells and the row headers of a table should show.
ObjectRow(t, i) == [j \in DOMAIN columns[t] |-> value[content[t][i]][columns[t][j]]]

ObjectCells(t) == [i \in DOMAIN content[t] |-> ObjectRow(t, i)]

ObjectLabels(t) == [i \in DOMAIN content[t] |-> value[content[t][i]][HeaderProperty]]

RowTypes ==
    /\ columns \in [Tables -> ColumnSets]
    /\ value \in [Objects -> [Properties -> Values]]

\* An object is in one row of one table, a property in one column of it.
Places ==
    /\ \A t \in Tables : HeaderProperty \notin Range(columns[t]) /\ IsInjective(columns[t])
    /\ \A t \in Tables : IsInjective(content[t])
    /\ \A t, u \in Tables : t # u => Range(content[t]) \cap Range(content[u]) = {}

\* Every cell and every row header has the observer in the slot of its object and its
\* property, and the other slots are empty.
Slots ==
    /\ \A t \in Tables : \A i \in DOMAIN content[t], j \in DOMAIN columns[t] :
          observer[content[t][i]][columns[t][j]] = {CellObserver(t, i, j)}
    /\ \A t \in Tables : \A i \in DOMAIN content[t] :
          observer[content[t][i]][HeaderProperty] = {[table |-> t, cell |-> <<>>, refresh |-> TRUE]}
    /\ \A o \in Objects, p \in Properties : observer[o][p] # {} =>
          \E t \in Tables : /\ o \in Range(content[t])
                            /\ p \in Range(columns[t]) \cup {HeaderProperty}

RowsInv ==
    /\ RowTypes /\ Places /\ Slots
    /\ data = [t \in Tables |-> ObjectCells(t)]
    /\ labels = [t \in Tables |-> ObjectLabels(t)]

\* The observers, new, that computing the headers and the data of a table leaves.
Observed(t, obs, new) ==
    /\ \A i \in DOMAIN content'[t], j \in DOMAIN columns'[t] :
          new[content'[t][i]][columns'[t][j]] = {CellObserver(t, i, j)}
    /\ \A i \in DOMAIN content'[t] :
          new[content'[t][i]][HeaderProperty] = {HeaderObserver(t, content'[t][i])}
    /\ \A o \in Objects, p \in Properties :
          o \notin Range(content'[t]) \/ p \notin Range(columns'[t]) \cup {HeaderProperty}
              => new[o][p] = obs[o][p]

\* They are what Observe computes.
LEMMA ObserveFacts ==
    ASSUME NEW t \in Tables, NEW obs,
           IsInjective(content'[t]), IsInjective(columns'[t]),
           HeaderProperty \notin Range(columns'[t]),
           content'[t] \in Seq(Objects), columns'[t] \in Seq(Properties)
    PROVE  Observed(t, obs, Observe(t, obs))
  <1>1. ASSUME NEW i \in DOMAIN content'[t], NEW j \in DOMAIN columns'[t]
        PROVE  Observe(t, obs)[content'[t][i]][columns'[t][j]] = {CellObserver(t, i, j)}
    <2> DEFINE o == content'[t][i]
               p == columns'[t][j]
    <2>1. o \in Objects /\ p \in Properties /\ i \in Nat /\ j \in Nat
      OBVIOUS
    <2>2. CellsOf(t, o, p) = {<<i, j>>}
      <3>1. \A c \in CellsOf(t, o, p) : c = <<i, j>>
        <4> TAKE c \in CellsOf(t, o, p)
        <4>1. c \in (DOMAIN content'[t]) \X (DOMAIN columns'[t])
              /\ content'[t][c[1]] = o /\ columns'[t][c[2]] = p
          BY DEF CellsOf
        <4>2. c[1] = i /\ c[2] = j
          BY <4>1 DEF IsInjective
        <4> QED
          BY <4>1, <4>2
      <3>2. <<i, j>> \in CellsOf(t, o, p)
        BY DEF CellsOf
      <3> QED
        BY <3>1, <3>2
    <2>3. LastCell({<<i, j>>}) = <<i, j>>
      BY <2>1 DEF LastCell
    <2>4. Observe(t, obs)[o][p] = {CellObserver(t, <<i, j>>[1], <<i, j>>[2])}
      BY <2>1, <2>2, <2>3, Zenon DEF Observe
    <2> QED
      BY <2>4
  <1>2. ASSUME NEW i \in DOMAIN content'[t]
        PROVE  Observe(t, obs)[content'[t][i]][HeaderProperty] = {HeaderObserver(t, content'[t][i])}
    <2> DEFINE o == content'[t][i]
    <2>1. o \in Objects /\ o \in Range(content'[t]) /\ HeaderProperty \in Properties
      BY ArrayTableAssumption DEF Range
    <2>2. CellsOf(t, o, HeaderProperty) = {}
      BY DEF CellsOf, Range
    <2> QED
      BY <2>1, <2>2, Zenon DEF Observe
  <1>3. ASSUME NEW o \in Objects, NEW p \in Properties,
               o \notin Range(content'[t]) \/ p \notin Range(columns'[t]) \cup {HeaderProperty}
        PROVE  Observe(t, obs)[o][p] = obs[o][p]
    <2>1. CellsOf(t, o, p) = {}
      BY <1>3 DEF CellsOf, Range
    <2> QED
      BY <1>3, <2>1, Zenon DEF Observe
  <1> QED
    BY <1>1, <1>2, <1>3 DEF Observed

\* The other tables show what they showed.
OthersStay(t) ==
    \A u \in Tables \ {t} : /\ content'[u] = content[u] /\ columns'[u] = columns[u]
                            /\ \A o \in Range(content[u]) : value'[o] = value[o]

\* The slots of the objects S are emptied.
Emptied(obs, S) ==
    \A o \in Objects, p \in Properties : obs[o][p] = IF o \in S THEN {} ELSE observer[o][p]

\* A table is computed anew: its content or columns have changed, and the slots of
\* the objects S were emptied, those that left it among them; or the headers are
\* refreshed, after a property of one of its objects has changed.
LEMMA RecomputeKeeps ==
    ASSUME Types, Types', RowsInv, NEW t \in Tables, NEW S, RowTypes', Places',
           OthersStay(t), Range(columns[t]) \subseteq Range(columns'[t]),
           S \subseteq Range(content[t]), Range(content[t]) \subseteq Range(content'[t]) \cup S,
           NEW obs, Emptied(obs, S), Recompute(t, obs)
    PROVE  RowsInv'
  <1>0. /\ content \in [Tables -> Arrays] /\ content' \in [Tables -> Arrays]
        /\ \A u \in Tables : content'[u] \in Seq(Objects) /\ columns'[u] \in Seq(Properties)
        /\ \A u \in Tables : content[u] \in Seq(Objects) /\ columns[u] \in Seq(Properties)
    BY ArrayTableAssumption DEF Types, Arrays, RowsInv, RowTypes
  <1>1. /\ observer' = Observe(t, obs)
        /\ labels' = [labels EXCEPT ![t] = ObjectLabels(t)']
        /\ data' = [data EXCEPT ![t] = ObjectCells(t)']
    BY Zenon DEF Recompute, ObjectLabels, ObjectCells, ObjectRow
  <1>2. \A u \in Tables \ {t} : ObjectLabels(u)' = ObjectLabels(u) /\ ObjectCells(u)' = ObjectCells(u)
    <2> TAKE u \in Tables \ {t}
    <2>1. \A i \in DOMAIN content[u] : value'[content[u][i]] = value[content[u][i]]
      BY DEF Range, OthersStay
    <2>2. content'[u] = content[u] /\ columns'[u] = columns[u]
      BY DEF OthersStay
    <2>3. ObjectLabels(u)' = ObjectLabels(u)
      BY <2>1, <2>2, Zenon DEF ObjectLabels
    <2>4. ObjectCells(u)' = ObjectCells(u)
      <3>1. \A i \in DOMAIN content[u] : \A j \in DOMAIN columns[u] :
               value'[content[u][i]][columns[u][j]] = value[content[u][i]][columns[u][j]]
        BY <2>1
      <3>2. \A i \in DOMAIN content[u] : ObjectRow(u, i)' = ObjectRow(u, i)
        BY <2>2, <3>1, SMTT(20) DEF ObjectRow
      <3> QED
        BY <2>2, <3>2, Zenon DEF ObjectCells
    <2> QED
      BY <2>3, <2>4
  <1>3. labels' = [u \in Tables |-> ObjectLabels(u)']
    BY <1>1, <1>2 DEF RowsInv
  <1>4. data' = [u \in Tables |-> ObjectCells(u)']
    BY <1>1, <1>2 DEF RowsInv
  <1>5. Slots'
    <2>1. Observed(t, obs, observer')
      <3>1. /\ IsInjective(content'[t]) /\ IsInjective(columns'[t])
            /\ HeaderProperty \notin Range(columns'[t])
        BY DEF Places
      <3>2. content'[t] \in Seq(Objects) /\ columns'[t] \in Seq(Properties)
        BY <1>0
      <3> QED
        BY <1>1, <3>1, <3>2, ObserveFacts
    <2>2. ASSUME NEW u \in Tables \ {t}, NEW i \in DOMAIN content[u], NEW p \in Properties
          PROVE  observer'[content[u][i]][p] = observer[content[u][i]][p]
      <3>1. content[u][i] \in Range(content[u]) /\ content[u][i] \in Objects
        BY <1>0 DEF Range
      <3>2. content[u][i] \notin Range(content'[t]) /\ content[u][i] \notin S
        <4>1. content'[u] = content[u]
          BY DEF OthersStay
        <4>2. Range(content'[t]) \cap Range(content'[u]) = {} /\ Range(content[t]) \cap Range(content[u]) = {}
          BY DEF Places, RowsInv
        <4> QED
          BY <3>1, <4>1, <4>2
      <3> QED
        BY <2>1, <3>1, <3>2 DEF Observed, Emptied
    <2>3. ASSUME NEW u \in Tables, NEW i \in DOMAIN content'[u], NEW j \in DOMAIN columns'[u]
          PROVE  observer'[content'[u][i]][columns'[u][j]] = {CellObserver(u, i, j)}
      <3>1. CASE u = t
        BY <2>1, <3>1 DEF Observed
      <3>2. CASE u # t
        <4>1. content'[u] = content[u] /\ columns'[u] = columns[u] /\ columns[u][j] \in Properties
          BY <1>0, <3>2 DEF OthersStay
        <4>2. observer[content[u][i]][columns[u][j]] = {CellObserver(u, i, j)}
          BY <4>1 DEF RowsInv, Slots
        <4> QED
          BY <2>2, <3>2, <4>1, <4>2
      <3> QED
        BY <3>1, <3>2
    <2>4. ASSUME NEW u \in Tables, NEW i \in DOMAIN content'[u]
          PROVE  observer'[content'[u][i]][HeaderProperty] = {[table |-> u, cell |-> <<>>, refresh |-> TRUE]}
      <3>1. CASE u = t
        <4>1. content'[t][i] \in Objects
          BY <1>0, <3>1
        <4>2. value'[content'[t][i]][HeaderProperty] # Missing
          BY <4>1, ArrayTableAssumption DEF RowTypes, Missing
        <4> QED
          BY <2>1, <3>1, <4>2, Zenon DEF HeaderObserver, Observed
      <3>2. CASE u # t
        <4>1. content'[u] = content[u] /\ HeaderProperty \in Properties
          BY <3>2, ArrayTableAssumption DEF OthersStay
        <4>2. observer[content[u][i]][HeaderProperty] = {[table |-> u, cell |-> <<>>, refresh |-> TRUE]}
          BY <4>1, Zenon DEF RowsInv, Slots
        <4> QED
          BY <2>2, <3>2, <4>1, <4>2
      <3> QED
        BY <3>1, <3>2
    <2>5. ASSUME NEW o \in Objects, NEW p \in Properties, observer'[o][p] # {}
          PROVE  \E u \in Tables : /\ o \in Range(content'[u])
                                   /\ p \in Range(columns'[u]) \cup {HeaderProperty}
      <3>1. CASE o \in Range(content'[t]) /\ p \in Range(columns'[t]) \cup {HeaderProperty}
        BY <3>1
      <3>2. CASE ~(o \in Range(content'[t]) /\ p \in Range(columns'[t]) \cup {HeaderProperty})
        <4>1. observer[o][p] # {} /\ o \notin S
          BY <2>1, <2>5, <3>2 DEF Observed, Emptied
        <4>2. PICK u \in Tables : o \in Range(content[u]) /\ p \in Range(columns[u]) \cup {HeaderProperty}
          BY <4>1 DEF RowsInv, Slots
        <4>3. u # t
          BY <3>2, <4>1, <4>2
        <4> QED
          BY <4>2, <4>3 DEF OthersStay
      <3> QED
        BY <3>1, <3>2
    <2> QED
      BY <2>3, <2>4, <2>5, Zenon DEF Slots, CellObserver
  <1> QED
    BY <1>3, <1>4, <1>5 DEF RowsInv

\* The observers of the objects S are taken out of their slots.
LEMMA UnobserveFacts == \A S : Emptied(Unobserve(S, observer), S)
  BY DEF Unobserve, Emptied

\* Two sequences one after the other.
LEMMA ConcatFacts ==
    ASSUME NEW a \in Seq(Objects), NEW b \in Seq(Objects)
    PROVE  Range(a) \cup Range(b) \subseteq Range(a \o b)
  <1>1. a \o b \in Seq(Objects) /\ DOMAIN (a \o b) = 1..(Len(a) + Len(b))
    OBVIOUS
  <1>2. ASSUME NEW i \in DOMAIN a PROVE a[i] \in Range(a \o b)
    <2>1. i \in DOMAIN (a \o b) /\ (a \o b)[i] = a[i]
      OBVIOUS
    <2> QED
      BY <2>1 DEF Range
  <1>3. ASSUME NEW i \in DOMAIN b PROVE b[i] \in Range(a \o b)
    <2>1. Len(a) + i \in DOMAIN (a \o b) /\ (a \o b)[Len(a) + i] = b[i]
      OBVIOUS
    <2> QED
      BY <2>1 DEF Range
  <1> QED
    BY <1>2, <1>3 DEF Range

\* A part of a sequence.
LEMMA PartFacts ==
    ASSUME NEW c \in Seq(Objects), NEW m \in 1..(Len(c) + 1), NEW n \in 0..Len(c)
    PROVE  SubSeq(c, m, n) \in Seq(Objects) /\ Range(SubSeq(c, m, n)) = {c[i] : i \in m..n}
  <1> DEFINE u == SubSeq(c, m, n)
             l == IF m <= n THEN n - m + 1 ELSE 0
  <1>1. u \in Seq(Objects) /\ DOMAIN u = 1..l /\ \A i \in 1..l : u[i] = c[m + i - 1]
    OBVIOUS
  <1>2. l \in Nat /\ m \in Nat /\ n \in Nat
    OBVIOUS
  <1> HIDE DEF u
  <1>3. ASSUME NEW i \in 1..l PROVE u[i] \in {c[k] : k \in m..n}
    <2>1. m + i - 1 \in m..n
      BY <1>2
    <2> QED
      BY <1>1, <2>1
  <1>4. ASSUME NEW k \in m..n PROVE \E i \in 1..l : u[i] = c[k]
    <2>1. k - m + 1 \in 1..l /\ m + (k - m + 1) - 1 = k
      BY <1>2
    <2>2. u[k - m + 1] = c[m + (k - m + 1) - 1]
      BY <1>1, <2>1
    <2> QED
      BY <2>1, <2>2
  <1> QED
    BY <1>1, <1>3, <1>4 DEF Range, u

\* The objects that replace leaves and takes out are those there were.
LEMMA ReplacedRange ==
    ASSUME NEW c \in Seq(Objects), NEW added \in Seq(Objects), NEW start \in Nat, NEW n \in Nat,
           start + n <= Len(c)
    PROVE  LET new == SubSeq(c, 1, start) \o added \o SubSeq(c, start + n + 1, Len(c))
               gone == SubSeq(c, start + 1, start + n)
           IN  Range(gone) \subseteq Range(c) /\ Range(c) \subseteq Range(new) \cup Range(gone)
  <1> DEFINE a == SubSeq(c, 1, start)
             b == SubSeq(c, start + n + 1, Len(c))
             gone == SubSeq(c, start + 1, start + n)
  <1>1. a \in Seq(Objects) /\ Range(a) = {c[i] : i \in 1..start}
    BY PartFacts, SMTT(20)
  <1>2. b \in Seq(Objects) /\ Range(b) = {c[i] : i \in (start + n + 1)..Len(c)}
    BY PartFacts, SMTT(20)
  <1>3. Range(gone) = {c[i] : i \in (start + 1)..(start + n)}
    <2>1. start + 1 \in 1..(Len(c) + 1) /\ start + n \in 0..Len(c)
      OBVIOUS
    <2> QED
      BY <2>1, PartFacts
  <1>4. Range(c) = {c[i] : i \in 1..Len(c)}
    BY DEF Range
  <1> HIDE DEF a, b, gone
  <1>5. a \o added \in Seq(Objects) /\ Range(a) \subseteq Range(a \o added)
    BY <1>1, ConcatFacts
  <1>6. Range(a \o added) \cup Range(b) \subseteq Range((a \o added) \o b)
    BY <1>2, <1>5, ConcatFacts
  <1>7. \A i \in 1..Len(c) : i \in 1..start \/ i \in (start + 1)..(start + n) \/ i \in (start + n + 1)..Len(c)
    OBVIOUS
  <1>8. (start + 1)..(start + n) \subseteq 1..Len(c)
    OBVIOUS
  <1>9. Range(c) \subseteq Range(a) \cup Range(gone) \cup Range(b)
    BY <1>1, <1>2, <1>3, <1>4, <1>7
  <1>10. Range(gone) \subseteq Range(c)
    BY <1>3, <1>4, <1>8
  <1> QED
    BY <1>5, <1>6, <1>9, <1>10 DEF a, b, gone

\* A change of the rows or the columns of a table.
LEMMA ChangeRowsKeeps ==
    ASSUME Types, Types', RowsInv, NEW t \in Tables, ChangeRows(t)
    PROVE  RowsInv'
  <1>1. OnePlace
    BY DEF ChangeRows
  <1>2. /\ content \in [Tables -> Arrays] /\ content' \in [Tables -> Arrays]
        /\ columns \in [Tables -> ColumnSets] /\ value \in [Objects -> [Properties -> Values]]
        /\ content[t] \in Seq(Objects)
    <2>1. content \in [Tables -> Arrays] /\ content' \in [Tables -> Arrays]
      BY DEF Types
    <2>2. content[t] \in Seq(Objects)
      BY <2>1, SMTT(20) DEF Arrays
    <2> QED
      BY <2>1, <2>2 DEF RowsInv, RowTypes
  <1>3. Places'
    BY <1>1, Zenon DEF OnePlace, Places
  <1>4. Range(columns[t]) \subseteq Range(columns'[t])
    BY <1>1 DEF OnePlace
  <1>5. ASSUME NEW array, SetContent(t, array) PROVE RowsInv'
    <2>1. /\ content' = [content EXCEPT ![t] = array] /\ columns' = columns /\ value' = value
          /\ Recompute(t, Unobserve(Range(content[t]), observer))
      BY <1>5, Zenon DEF SetContent
    <2>2. RowTypes'
      BY <1>2, <2>1 DEF RowTypes
    <2>3. OthersStay(t)
      BY <1>2, <2>1 DEF OthersStay
    <2> QED
      BY <1>3, <1>4, <2>1, <2>2, <2>3, UnobserveFacts, RecomputeKeeps
  <1>6. ASSUME NEW start \in 0..Rows, NEW n \in 0..Rows, NEW added \in {<<>>} \cup {<<o>> : o \in Objects},
               ReplaceRows(t, start, n, added)
        PROVE  RowsInv'
    <2> DEFINE c == content[t]
               new == SubSeq(c, 1, start) \o added \o SubSeq(c, start + n + 1, Len(c))
               gone == SubSeq(c, start + 1, start + n)
    <2>1. /\ content' = [content EXCEPT ![t] = new] /\ columns' = columns /\ value' = value
          /\ Recompute(t, Unobserve(Range(gone), observer)) /\ start + n <= Len(c)
      BY <1>6, Zenon DEF ReplaceRows
    <2>2. RowTypes'
      BY <1>2, <2>1 DEF RowTypes
    <2>3. OthersStay(t)
      BY <1>2, <2>1 DEF OthersStay
    <2>4. start \in Nat /\ n \in Nat /\ c \in Seq(Objects) /\ content'[t] = new
      <3>1. start \in Nat /\ n \in Nat
        BY ArrayTableAssumption
      <3> HIDE DEF new
      <3> QED
        BY <1>2, <2>1, <3>1
    <2>5. added \in Seq(Objects)
      <3>1. ASSUME NEW o \in Objects PROVE <<o>> \in Seq(Objects)
        OBVIOUS
      <3>2. <<>> \in Seq(Objects)
        OBVIOUS
      <3> QED
        BY <3>1, <3>2, Zenon
    <2>6. Range(gone) \subseteq Range(c) /\ Range(c) \subseteq Range(new) \cup Range(gone)
      <3> HIDE DEF c
      <3> QED
        BY <2>1, <2>4, <2>5, ReplacedRange
    <2> HIDE DEF new, gone
    <2>7. Range(gone) \subseteq Range(content[t]) /\ Range(content[t]) \subseteq Range(content'[t]) \cup Range(gone)
      BY <2>4, <2>6
    <2> QED
      BY <1>3, <1>4, <2>1, <2>2, <2>3, <2>7, UnobserveFacts, RecomputeKeeps
  <1>7. ASSUME NEW cols \in ColumnSets, SetColumns(t, cols) PROVE RowsInv'
    <2>1. /\ columns' = [columns EXCEPT ![t] = cols] /\ content' = content /\ value' = value
          /\ Recompute(t, observer)
      BY <1>7, Zenon DEF SetColumns
    <2>2. RowTypes'
      BY <1>2, <2>1 DEF RowTypes
    <2>3. OthersStay(t)
      BY <1>2, <2>1 DEF OthersStay
    <2>4. Emptied(observer, {})
      BY DEF Emptied
    <2>5. {} \subseteq Range(content[t]) /\ Range(content[t]) \subseteq Range(content'[t]) \cup {}
      BY <2>1
    <2> QED
      BY <1>3, <1>4, <2>1, <2>2, <2>3, <2>4, <2>5, RecomputeKeeps
  <1> QED
    BY <1>5, <1>6, <1>7, Zenon DEF ChangeRows, SortContent

\* A property of an object changes.
LEMMA ChangeObjectKeeps ==
    ASSUME Types, Types', RowsInv, NEW o \in Objects, NEW p \in Properties, NEW v \in Values,
           SetProperty(o, p, v)
    PROVE  RowsInv'
  <1>1. /\ value' = [value EXCEPT ![o][p] = v] /\ content' = content /\ columns' = columns
        /\ value \in [Objects -> [Properties -> Values]]
    BY DEF SetProperty, RowsInv, RowTypes
  <1>2. RowTypes' /\ Places'
    BY <1>1, ArrayTableAssumption DEF RowsInv, RowTypes, Places
  <1>3. /\ \A x \in Objects \ {o} : value'[x] = value[x]
        /\ \A q \in Properties \ {p} : value'[o][q] = value[o][q]
        /\ value'[o][p] = v
    BY <1>1
  <1>4. \A u \in Tables : content[u] \in Seq(Objects) /\ columns[u] \in Seq(Properties)
    <2>1. content \in [Tables -> Arrays]
      BY DEF Types
    <2>2. \A u \in Tables : content[u] \in Seq(Objects)
      BY <2>1 DEF Arrays
    <2>3. \A u \in Tables : columns[u] \in Seq(Properties)
      BY ArrayTableAssumption DEF RowsInv, RowTypes
    <2> QED
      BY <2>2, <2>3
  <1>5. ASSUME observer' = observer PROVE Slots'
    BY <1>1, <1>5, Zenon DEF RowsInv, Slots, CellObserver
  <1>6. ASSUME NEW u \in Tables, NEW i \in DOMAIN content[u],
               content[u][i] # o \/ p \notin Range(columns[u])
        PROVE  ObjectRow(u, i)' = ObjectRow(u, i)
    <2>1. ASSUME NEW j \in DOMAIN columns[u]
          PROVE  value'[content[u][i]][columns[u][j]] = value[content[u][i]][columns[u][j]]
      <3>1. content[u][i] \in Objects /\ columns[u][j] \in Properties /\ columns[u][j] \in Range(columns[u])
        BY <1>4 DEF Range
      <3> QED
        BY <1>3, <1>6, <3>1
    <2> QED
      BY <1>1, <2>1, SMTT(20) DEF ObjectRow
  <1>7. ASSUME NEW u \in Tables, p # HeaderProperty \/ o \notin Range(content[u])
        PROVE  ObjectLabels(u)' = ObjectLabels(u)
    <2>1. ASSUME NEW i \in DOMAIN content[u]
          PROVE  value'[content[u][i]][HeaderProperty] = value[content[u][i]][HeaderProperty]
      <3>1. content[u][i] \in Objects /\ content[u][i] \in Range(content[u]) /\ HeaderProperty \in Properties
        BY <1>4, ArrayTableAssumption DEF Range
      <3> QED
        BY <1>3, <1>7, <3>1
    <2> QED
      BY <1>1, <2>1, SMTT(20) DEF ObjectLabels
  <1>8. ASSUME NEW u \in Tables, p \notin Range(columns[u]) \/ o \notin Range(content[u])
        PROVE  ObjectCells(u)' = ObjectCells(u)
    <2>1. \A i \in DOMAIN content[u] : ObjectRow(u, i)' = ObjectRow(u, i)
      BY <1>6, <1>8 DEF Range
    <2> QED
      BY <1>1, <2>1, Zenon DEF ObjectCells
  <1>9. CASE observer[o][p] = {}
    <2>1. observer' = observer /\ data' = data /\ labels' = labels
      BY <1>9, Zenon DEF SetProperty
    <2>2. ASSUME NEW u \in Tables, o \in Range(content[u])
          PROVE  p \notin Range(columns[u]) /\ p # HeaderProperty
      <3>1. PICK i \in DOMAIN content[u] : content[u][i] = o
        BY <2>2 DEF Range
      <3>2. p # HeaderProperty
        BY <1>9, <3>1, ZenonT(30) DEF RowsInv, Slots
      <3>3. p \notin Range(columns[u])
        <4> SUFFICES ASSUME NEW j \in DOMAIN columns[u], columns[u][j] = p PROVE FALSE
          BY DEF Range
        <4>1. observer[o][p] = {CellObserver(u, i, j)}
          BY <3>1 DEF RowsInv, Slots
        <4> QED
          BY <1>9, <4>1
      <3> QED
        BY <3>2, <3>3
    <2>3. \A u \in Tables : ObjectCells(u)' = ObjectCells(u) /\ ObjectLabels(u)' = ObjectLabels(u)
      BY <1>7, <1>8, <2>2, Zenon
    <2>4. data' = [u \in Tables |-> ObjectCells(u)'] /\ labels' = [u \in Tables |-> ObjectLabels(u)']
      BY <2>1, <2>3 DEF RowsInv
    <2> QED
      BY <1>2, <1>5, <2>1, <2>4 DEF RowsInv
  <1>10. ASSUME observer[o][p] # {} PROVE RowsInv'
    <2>1. PICK t \in Tables : o \in Range(content[t]) /\ p \in Range(columns[t]) \cup {HeaderProperty}
      BY <1>10 DEF RowsInv, Slots
    <2>2. PICK i \in DOMAIN content[t] : content[t][i] = o
      BY <2>1 DEF Range
    <2>3. \A u \in Tables \ {t} : o \notin Range(content[u])
      BY <2>1 DEF RowsInv, Places
    <2>4. CASE p \in Range(columns[t])
      <3>1. PICK j \in DOMAIN columns[t] : columns[t][j] = p
        BY <2>4 DEF Range
      <3>2. observer[o][p] = {CellObserver(t, i, j)}
        BY <2>2, <3>1 DEF RowsInv, Slots
      <3>3. (CHOOSE ob \in observer[o][p] : TRUE) = CellObserver(t, i, j)
        BY <3>2
      <3>4. /\ CellObserver(t, i, j).table = t
            /\ CellObserver(t, i, j).cell = <<i, j>> /\ <<i, j>> # <<>> /\ <<i, j>>[1] = i /\ <<i, j>>[2] = j
        BY DEF CellObserver
      <3>5. observer' = observer /\ labels' = labels /\ PushCell(t, i, j, v)
        BY <1>10, <3>3, <3>4 DEF SetProperty
      <3>6. data[t] = ObjectCells(t) /\ DOMAIN data[t] = DOMAIN content[t] /\ DOMAIN data[t][i] = DOMAIN columns[t]
        BY DEF RowsInv, ObjectCells, ObjectRow
      <3>7. data' = [data EXCEPT ![t][i][j] = v]
        BY <3>5, <3>6 DEF PushCell
      <3>8. p # HeaderProperty
        BY <2>4 DEF RowsInv, Places
      <3>9. \A k \in DOMAIN content[t] \ {i} : ObjectRow(t, k)' = ObjectRow(t, k)
        <4> TAKE k \in DOMAIN content[t] \ {i}
        <4>1. content[t][k] # o
          BY <2>2 DEF RowsInv, Places, IsInjective
        <4> QED
          BY <1>6, <4>1
      <3>10. ObjectRow(t, i)' = [ObjectRow(t, i) EXCEPT ![j] = v]
        <4>1. ASSUME NEW m \in DOMAIN columns[t]
              PROVE  value'[o][columns[t][m]] = IF m = j THEN v ELSE value[o][columns[t][m]]
          <5>1. columns[t][m] \in Properties /\ (m # j => columns[t][m] # p)
            BY <1>4, <3>1 DEF RowsInv, Places, IsInjective
          <5> QED
            BY <1>3, <3>1, <5>1
        <4>2. ObjectRow(t, i)' = [m \in DOMAIN columns[t] |-> value'[o][columns[t][m]]]
          <5>1. content' = content /\ columns' = columns
            BY <1>1
          <5> QED
            BY <2>2, <5>1 DEF ObjectRow
        <4>3. ObjectRow(t, i) = [m \in DOMAIN columns[t] |-> value[o][columns[t][m]]]
          BY <2>2, Zenon DEF ObjectRow
        <4>4. ObjectRow(t, i)' = [m \in DOMAIN columns[t] |-> IF m = j THEN v ELSE value[o][columns[t][m]]]
          BY <4>1, <4>2, Zenon
        <4>5. [ObjectRow(t, i) EXCEPT ![j] = v]
              = [m \in DOMAIN columns[t] |-> IF m = j THEN v ELSE value[o][columns[t][m]]]
          BY <4>3
        <4> QED
          BY <4>4, <4>5
      <3>11. ObjectCells(t)' = [ObjectCells(t) EXCEPT ![i] = [ObjectRow(t, i) EXCEPT ![j] = v]]
        <4>1. PICK r : r = [ObjectRow(t, i) EXCEPT ![j] = v]
          OBVIOUS
        <4>2. ObjectCells(t)' = [k \in DOMAIN content[t] |-> ObjectRow(t, k)']
          BY <1>1, Zenon DEF ObjectCells
        <4>3. \A k \in DOMAIN content[t] : ObjectRow(t, k)' = IF k = i THEN r ELSE ObjectRow(t, k)
          BY <3>9, <3>10, <4>1
        <4>4. ObjectCells(t)' = [k \in DOMAIN content[t] |-> IF k = i THEN r ELSE ObjectRow(t, k)]
          BY <4>2, <4>3, Zenon
        <4>5. [ObjectCells(t) EXCEPT ![i] = r] = [k \in DOMAIN content[t] |-> IF k = i THEN r ELSE ObjectRow(t, k)]
          BY DEF ObjectCells
        <4> QED
          BY <4>1, <4>4, <4>5
      <3>12. data' = [u \in Tables |-> ObjectCells(u)']
        <4>1. \A u \in Tables \ {t} : ObjectCells(u)' = ObjectCells(u)
          BY <1>8, <2>3
        <4>2. data = [u \in Tables |-> ObjectCells(u)] /\ data[t][i] = ObjectRow(t, i)
          BY DEF RowsInv, ObjectCells
        <4>3. data' = [data EXCEPT ![t] = [data[t] EXCEPT ![i] = [data[t][i] EXCEPT ![j] = v]]]
          BY <3>7
        <4>4. data' = [data EXCEPT ![t] = ObjectCells(t)']
          BY <3>6, <3>11, <4>2, <4>3
        <4> QED
          BY <4>1, <4>2, <4>4
      <3>13. labels' = [u \in Tables |-> ObjectLabels(u)']
        BY <1>7, <3>5, <3>8 DEF RowsInv
      <3> QED
        BY <1>2, <1>5, <3>5, <3>12, <3>13 DEF RowsInv
    <2>5. CASE p = HeaderProperty
      <3>1. PICK ob : ob = [table |-> t, cell |-> <<>>, refresh |-> TRUE]
        OBVIOUS
      <3>2. observer[o][p] = {ob}
        BY <2>2, <2>5, <3>1, Zenon DEF RowsInv, Slots
      <3>3. (CHOOSE x \in observer[o][p] : TRUE) = ob
        BY <3>2
      <3>4. ob.table = t /\ ob.cell = <<>> /\ ob.refresh
        BY <3>1, Zenon
      <3>5. Recompute(t, observer)
        BY <1>10, <3>3, <3>4, Zenon DEF SetProperty
      <3>6. OthersStay(t)
        <4>1. \A u \in Tables \ {t} : \A x \in Range(content[u]) : x \in Objects \ {o}
          BY <1>4, <2>3 DEF Range
        <4> QED
          BY <1>1, <1>3, <4>1 DEF OthersStay
      <3>7. Emptied(observer, {})
        BY DEF Emptied
      <3>8. /\ {} \subseteq Range(content[t]) /\ Range(content[t]) \subseteq Range(content'[t]) \cup {}
            /\ Range(columns[t]) \subseteq Range(columns'[t])
        BY <1>1
      <3> QED
        BY <1>2, <3>5, <3>6, <3>7, <3>8, RecomputeKeeps
    <2> QED
      BY <2>1, <2>4, <2>5
  <1> QED
    BY <1>9, <1>10

\* At first the tables are empty.
LEMMA RowsInit == Init => RowsInv
  <1> SUFFICES ASSUME Init PROVE RowsInv
    OBVIOUS
  <1> DEFINE good(cols) == HeaderProperty \notin Range(cols) /\ IsInjective(cols)
             cs == CHOOSE cols \in ColumnSets : good(cols)
  <1>1. cs \in ColumnSets /\ HeaderProperty \notin Range(cs) /\ IsInjective(cs)
    BY ArrayTableAssumption, Zenon
  <1>2. columns = [t \in Tables |-> cs]
    BY Zenon DEF Init
  <1> HIDE DEF cs
  <1>3. RowTypes
    <2>1. value = [o \in Objects |-> [p \in Properties |-> CHOOSE v \in Values : TRUE]]
      BY Zenon DEF Init
    <2>2. (CHOOSE v \in Values : TRUE) \in Values
      BY ArrayTableAssumption
    <2> QED
      BY <1>1, <1>2, <2>1, <2>2 DEF RowTypes
  <1>4. \A t \in Tables : /\ content[t] = <<>> /\ DOMAIN content[t] = {} /\ Range(content[t]) = {}
                         /\ IsInjective(content[t])
    BY DEF Init, ArrayTableInit, Range, IsInjective
  <1>5. Places
    BY <1>1, <1>2, <1>4 DEF Places
  <1>6. observer = [o \in Objects |-> [p \in Properties |-> {}]]
    BY Zenon DEF Init, ArrayTableInit
  <1>7. Slots
    BY <1>4, <1>6 DEF Slots
  <1>8. \A t \in Tables : ObjectCells(t) = <<>> /\ ObjectLabels(t) = <<>>
    BY <1>4 DEF ObjectCells, ObjectLabels
  <1>9. data = [t \in Tables |-> <<>>] /\ labels = [t \in Tables |-> <<>>]
    BY Zenon DEF Init, ArrayTableInit
  <1> QED
    BY <1>3, <1>5, <1>7, <1>8, <1>9 DEF RowsInv

\* Every step keeps the rows right.
LEMMA RowsStep == Types /\ Types' /\ RowsInv /\ [Next]_vars => RowsInv'
  <1> SUFFICES ASSUME Types, Types', RowsInv, [Next]_vars PROVE RowsInv'
    OBVIOUS
  <1>1. ASSUME NEW t \in Tables, ChangeRows(t) PROVE RowsInv'
    BY <1>1, ChangeRowsKeeps
  <1>2. ASSUME NEW o \in Objects, NEW p \in Properties, NEW v \in Values, ChangeObject(o, p, v) PROVE RowsInv'
    BY <1>2, ChangeObjectKeeps DEF ChangeObject
  <1>3. CASE UNCHANGED tableVars
    <2>1. /\ content' = content /\ columns' = columns /\ value' = value /\ observer' = observer
          /\ data' = data /\ labels' = labels
      BY <1>3 DEF tableVars
    <2>2. RowTypes' /\ Places'
      BY <2>1, Zenon DEF RowsInv, RowTypes, Places
    <2>3. Slots'
      BY <2>1, Zenon DEF RowsInv, Slots, CellObserver
    <2>4. data' = [t \in Tables |-> ObjectCells(t)'] /\ labels' = [t \in Tables |-> ObjectLabels(t)']
      BY <2>1, Zenon DEF RowsInv, ObjectCells, ObjectRow, ObjectLabels
    <2> QED
      BY <2>2, <2>3, <2>4 DEF RowsInv
  <1> QED
    BY <1>1, <1>2, <1>3, RowSteps DEF RowsAction

\* Every cell and every row header shows its object, through all changes of the rows,
\* the columns and the objects of several tables that share the objects' slots: for
\* any tables, objects, properties and values, with the rows computed anew or one
\* cell pushed by the observer in the slot.
THEOREM RowsCorrect == Spec => []CellsShowObjects
  <1>1. Types /\ RowsInv => CellsShowObjects
    BY DEF RowsInv, CellsShowObjects, ObjectCells, ObjectRow, ObjectLabels
  <1> QED
    BY <1>1, TypesInit, TypesStep, RowsInit, RowsStep, PTL DEF Spec
=============================================================================
