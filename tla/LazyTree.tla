------------------------------ MODULE LazyTree ------------------------------
(***************************************************************************)
(* The lazy list and tree (views/lazy_list_view.js, lazy_tree_view.js and  *)
(* their item views).  The tree is shown as a flat list of rows, which the *)
(* view caches; item views exist only for the rows in and around the       *)
(* visible part, and a view that leaves it is put in a pool and reused.    *)
(* Items are expanded and collapsed with the mouse and the keys, and       *)
(* reordered by dragging.                                                  *)
(*                                                                         *)
(* Positions are counted in rows instead of pixels, and the list fills its *)
(* scroll view.  All items have the same class, so there is one pool.  The *)
(* levels and parents that the view caches with the rows are those of the  *)
(* tree, as nothing changes the tree without reloading the cache.          *)
(***************************************************************************)
EXTENDS Integers, SequencesExt, FiniteSets, TLC

CONSTANTS
    Items,
    Root,        \* stands for null: the parent of the top-level items
    None,        \* no item
    Expandable,  \* the items for which isExpandable is true
    MaxShift,    \* most levels by which the pointer is moved sideways
    MaxViews,    \* bounds the views that the option oneRow makes pile up
    Setups       \* the views considered and what happens to them: see setup

SetupType ==
    [content : [Items \cup {Root} -> Seq(Items)], \* the children of Root and each item
     visible : Nat \ {0},        \* rows that fit in the scroll view
     bufferSize : {n \in Nat : n % 2 = 0},
     allowReordering : BOOLEAN, allowSelection : BOOLEAN,
     may : SUBSET {"api", "hidden", "pressScroll", "dragScroll", "dragOut", "content",
                   "oneRow", "input"}]

ASSUME LazyTreeAssumption ==
    /\ Root \notin Items /\ None \notin Items
    /\ Expandable \subseteq Items
    /\ MaxShift \in Nat /\ MaxViews \in Nat
    /\ Setups \subseteq SetupType

VARIABLES
    tree,      \* content, and treeItemChildren of each item
    expanded,  \* _expandedItems
    rows,      \* _rowToItemCache
    ui,        \* the item views, in order of creation, and the pool of the
               \* recycled ones
    top,       \* _lastScrollTop
    selection,
    mouse,     \* the item view that has the mouse, its state; of a drag also the
               \* item that the clone shows, and draggingInfo
    setup      \* properties of the view that never change, its first content, and
               \* what else may happen

vars == <<tree, expanded, rows, ui, top, selection, mouse, setup>>

Gone == -1  \* the contentIndex of a recycled view: undefined

------------------------------------------------------------------------------
(* The rows. *)

\* loadItemIntoCache: the rows of the items in a sequence and below them.
LoadItems(tr, exp, items) ==
    LET load[d \in 0 .. Cardinality(Items), i \in Items] ==
            IF d = 0 \/ i \notin exp THEN <<i>>
            ELSE <<i>> \o FlattenSeq([k \in DOMAIN tr[i] |-> load[d - 1, tr[i][k]]])
    IN  FlattenSeq([k \in DOMAIN items |-> load[Cardinality(Items), items[k]]])

LoadCache(tr, exp) == LoadItems(tr, exp, tr[Root])

Occurs(item, s) == \E k \in DOMAIN s : s[k] = item

RowForItem(rs, item) ==
    IF Occurs(item, rs) THEN SelectInSeq(rs, LAMBDA i : i = item) - 1 ELSE Gone

ItemForRow(rs, row) == IF row \in 0 .. Len(rs) - 1 THEN rs[row + 1] ELSE None

\* _itemToParentCache, with Root for the top-level items.
ParentOf(tr, item) == CHOOSE p \in Items \cup {Root} : Occurs(item, tr[p])

\* getAncestors: the item and those above it, up to the root.
GetAncestors(tr, item) ==
    LET up[d \in 0 .. Cardinality(Items)] ==
            IF d = 0 THEN item
            ELSE LET below == up[d - 1]
                 IN  IF below = Root THEN Root ELSE ParentOf(tr, below)
    IN  {up[d] : d \in 0 .. Cardinality(Items)} \cup {Root}

LevelForItem(tr, item) ==
    IF item \in {Root, None} THEN -1 ELSE Cardinality(GetAncestors(tr, item)) - 2

RenderRange(n, t) ==
    LET desired == setup.visible + setup.bufferSize
        first   == t - setup.bufferSize \div 2
        end     == IF first + desired < n - 1 THEN first + desired ELSE n - 1
    IN  [start |-> IF end - desired > 0 THEN end - desired ELSE 0, end |-> end]

------------------------------------------------------------------------------
(* The item views.  A list is what the views show: tree, expanded, rows    *)
(* and selection.                                                          *)

NewView == [row |-> Gone, item |-> None, open |-> FALSE, sel |-> FALSE,
            level |-> Gone]

ShownAs(v, row, list) ==
    LET item == ItemForRow(list.rows, row)
    IN  [v EXCEPT !.row = row, !.item = item,
                  !.open = item \in list.expanded,
                  !.sel = item = list.selection,
                  !.level = LevelForItem(list.tree, item)]


ViewForRow(u, row, list) ==
    IF u.pool = <<>>
    THEN [u EXCEPT !.views = Append(@, ShownAs(NewView, row, list))]
    ELSE [views |-> [u.views EXCEPT ![Last(u.pool)] = ShownAs(@, row, list)],
          pool  |-> Front(u.pool)]

ViewsForRows(u, rowSeq, list) ==
    FoldLeft(LAMBDA acc, row : ViewForRow(acc, row, list), u, rowSeq)

RecycleViews(u, ids) ==
    [views |-> [k \in DOMAIN u.views |->
                   IF k \in ids THEN [u.views[k] EXCEPT !.row = Gone, !.sel = FALSE]
                   ELSE u.views[k]],
     pool  |-> u.pool \o SelectSeq([k \in DOMAIN u.views |-> k], LAMBDA k : k \in ids)]

Rendered(u) == {k \in DOMAIN u.views : u.views[k].row # Gone}

Upwards(a, b) == [k \in 1 .. b - a + 1 |-> a + k - 1]
Downwards(b, a) == Reverse(Upwards(a, b))

Smallest(S) == CHOOSE x \in S : \A y \in S : x <= y
Largest(S) == CHOOSE x \in S : \A y \in S : x >= y

\* Mutant of DidScroll: the rows below are not filled.
DidScrollTopOnly(u, list, t, dragged) ==
    LET range  == RenderRange(Len(list.rows), t)
        out    == {k \in Rendered(u) : u.views[k].row \notin range.start .. range.end}
        kept   == {u.views[k].row : k \in Rendered(u) \ out}
        min    == Smallest(kept \cup {range.end})
    IN  ViewsForRows(RecycleViews(u, out \ dragged),
                     Upwards(range.start, IF min = range.end THEN min ELSE min - 1), list)

\* The gaps above and below the rows that stay rendered are filled.
DidScroll(u, list, t, dragged) ==
    LET range  == RenderRange(Len(list.rows), t)
        out    == {k \in Rendered(u) : u.views[k].row \notin range.start .. range.end}
        kept   == {u.views[k].row : k \in Rendered(u) \ out}
        min    == Smallest(kept \cup {range.end})
        max    == Largest(kept \cup {range.start})
        above  == Upwards(range.start, IF min = range.end THEN min ELSE min - 1)
        below  == IF max # range.start THEN Downwards(range.end, max + 1) ELSE <<>>
    IN  ViewsForRows(RecycleViews(u, out \ dragged), above \o below, list)

FullRerender(u, list, t) == DidScroll(RecycleViews(u, Rendered(u)), list, t, {})

\* childViewForIndex: the first view with that contentIndex, 0 if none; an
\* undefined row finds a recycled view.
ChildViewForIndex(u, row) ==
    LET found == {k \in DOMAIN u.views : u.views[k].row = row}
    IN  IF found = {} THEN 0 ELSE Smallest(found)

SetIsSelected(u, list, item, status) ==
    LET k == ChildViewForIndex(u, RowForItem(list.rows, item))
    IN  IF item = None \/ k = 0 THEN u ELSE [u EXCEPT !.views[k].sel = status]

\* The observers of selection, before and after it is set to item.
SelectInViews(u, list, item) ==
    IF item = list.selection THEN u
    ELSE SetIsSelected(SetIsSelected(u, list, list.selection, FALSE), list, item, TRUE)

\* toggleItem, once the rows are loaded again: the views that are left move
\* to their new rows, the others are recycled, missing rows are rendered.
RerenderToggled(u, list, t) ==
    LET range   == RenderRange(Len(list.rows), t)
        rowOf   == [k \in Rendered(u) |-> RowForItem(list.rows, u.views[k].item)]
        moved   == [u EXCEPT !.views = [k \in DOMAIN u.views |->
                        IF k \in Rendered(u) THEN [u.views[k] EXCEPT !.row = rowOf[k]]
                        ELSE u.views[k]]]
        out     == {k \in Rendered(u) : rowOf[k] \notin range.start .. range.end}
        missing == SelectSeq(Upwards(range.start, range.end),
                             LAMBDA row : \A k \in Rendered(u) : rowOf[k] # row)
    IN  ViewsForRows(RecycleViews(moved, out), missing, list)

\* toggleItem for view k, whose isExpanded has been set to open.
ToggleItem(u, list, t, k, open) ==
    LET item == u.views[k].item
        exp  == IF open THEN list.expanded \cup {item} ELSE list.expanded \ {item}
        new  == [list EXCEPT !.expanded = exp, !.rows = LoadCache(list.tree, exp)]
    IN  [list |-> new,
         ui   |-> RerenderToggled([u EXCEPT !.views[k].open = open], new, t)]

------------------------------------------------------------------------------
(* The steps. *)

List == [tree |-> tree, expanded |-> expanded, rows |-> rows, selection |-> selection]

Become(list, u) ==
    /\ tree' = list.tree /\ expanded' = list.expanded /\ rows' = list.rows
    /\ selection' = list.selection /\ ui' = u /\ setup' = setup

Idle == [state |-> "idle", view |-> 0]
NoInfo(row) == [index |-> row, position |-> Gone, parent |-> Root, level |-> Gone]

Init ==
    /\ setup \in Setups
    /\ tree = setup.content
    /\ expanded = {}
    /\ rows = LoadCache(tree, {})
    /\ selection = None
    /\ top = 0
    /\ mouse = Idle
    /\ ui = DidScroll([views |-> <<>>, pool |-> <<>>], List, 0, {})

Dragged == IF mouse.state = "dragging" THEN {mouse.view} ELSE {}

\* The only row that stays rendered is the first or the last of the new range:
\* didScroll takes it for none, and leaves the gap below it, or renders it again.
KeepsOneRow(t) ==
    LET range == RenderRange(Len(rows), t)
        kept  == {ui.views[k].row : k \in Rendered(ui)} \cap (range.start .. range.end)
    IN  kept \in {{range.start}, {range.end}}

\* The scroll view notifies of a scroll, of its insertion or of a new size.  The
\* view that was pressed may be recycled, and even used for another row, before
\* the mouseUp.
Scroll(t) ==
    /\ mouse.state # "failed"
    /\ KeepsOneRow(t) => "oneRow" \in setup.may /\ Len(ui.views) < MaxViews
    /\ mouse.state = "mouseIsDown" => "pressScroll" \in setup.may
    /\ mouse.state = "dragging" => "dragScroll" \in setup.may
    /\ t <= IF Len(rows) > setup.visible THEN Len(rows) - setup.visible ELSE 0
    /\ top' = t
    /\ ui' = DidScroll(ui, List, t, Dragged)
    /\ UNCHANGED <<tree, expanded, rows, selection, mouse, setup>>

\* Keys and the application change rows at any time; while an item is pressed or
\* dragged that is an option.
InputPossible == mouse.state = "idle" \/ (mouse.state # "failed" /\ "input" \in setup.may)

\* The application changes content: arrayDidChange.
ChangeContent(content) ==
    /\ "content" \in setup.may /\ InputPossible
    /\ LET tr  == [tree EXCEPT ![Root] = content]
           new == [List EXCEPT !.tree = tr, !.rows = LoadCache(tr, expanded)]
       IN  Become(new, FullRerender(ui, new, top))
    /\ UNCHANGED <<top, mouse>>

AddItem(item, k) ==
    /\ \A p \in Items \cup {Root} : ~Occurs(item, tree[p])
    /\ ChangeContent(InsertAt(tree[Root], k, item))

RemoveItem(k) == ChangeContent(RemoveAt(tree[Root], k))

ViewOfSelection == ChildViewForIndex(ui, RowForItem(rows, selection))

\* _collapseOrExpandSelection; open is TRUE for moveRight.
MoveSideways(open) ==
    /\ InputPossible
    /\ selection # None
    /\ "hidden" \in setup.may \/ (Occurs(selection, rows) /\ ViewOfSelection # 0)
    /\ LET k == ViewOfSelection
       IN  \/ /\ k # 0 /\ ui.views[k].open # open
              /\ LET t == ToggleItem(ui, List, top, k, open) IN Become(t.list, t.ui)
           \/ /\ k = 0
              /\ expanded' = IF selection \in expanded THEN expanded \ {selection}
                             ELSE expanded \cup {selection}
              /\ UNCHANGED <<tree, rows, ui, selection, setup>>
    /\ UNCHANGED <<top, mouse>>

SelectIndex(list, u, row) ==
    LET item == IF setup.allowSelection THEN ItemForRow(list.rows, row) ELSE list.selection
    IN  Become([list EXCEPT !.selection = item], SelectInViews(u, list, item))

\* changeSelection: without a row for the selection nothing happens.
MoveUpOrDown(direction) ==
    LET row == RowForItem(rows, selection)
    IN  /\ mouse.state # "failed"
        /\ setup.allowSelection /\ row # Gone /\ row + direction \in 0 .. Len(rows) - 1
        /\ SelectIndex(List, ui, row + direction)
        /\ UNCHANGED <<top, mouse>>

\* The application calls expandItem or collapseItem.
ChangeIsExpanded(item, status) ==
    LET exp  == IF status THEN expanded \cup {item} ELSE expanded \ {item}
        k    == ChildViewForIndex(ui, RowForItem(rows, item))
        list == [List EXCEPT !.expanded = exp]
    IN  /\ \/ "api" \in setup.may
           \/ status /\ Occurs(item, rows) /\ k # 0
        /\ item \in Expandable
        /\ InputPossible
        /\ IF status /\ k # 0 /\ ~ui.views[k].open
           THEN LET t == ToggleItem(ui, list, top, k, TRUE) IN Become(t.list, t.ui)
           ELSE Become(list, ui)
        /\ UNCHANGED <<top, mouse>>

MouseDown(k) ==
    /\ mouse.state = "idle"
    /\ k \in Rendered(ui)
    /\ mouse' = [state |-> "mouseIsDown", view |-> k]
    /\ UNCHANGED <<tree, expanded, rows, ui, top, selection, setup>>

\* mouseUp without a drag: the item is toggled, and its row is selected.
Click ==
    /\ mouse.state = "mouseIsDown"
    /\ LET k == mouse.view
           t == IF ui.views[k].item \in Expandable
                THEN ToggleItem(ui, List, top, k, ~ui.views[k].open)
                ELSE [list |-> List, ui |-> ui]
       IN  SelectIndex(t.list, t.ui, t.ui.views[k].row)
    /\ mouse' = Idle
    /\ UNCHANGED top

\* Mutant of WillStartDragging: an expanded item is dragged as it is.
DoNotCollapse(k) == [list |-> List, ui |-> ui]

WillStartDragging(k) ==
    IF ui.views[k].open THEN ToggleItem(ui, List, top, k, FALSE)
    ELSE [list |-> List, ui |-> ui]

StartDragging ==
    /\ mouse.state = "mouseIsDown" /\ setup.allowReordering
    /\ LET t == WillStartDragging(mouse.view)
       IN  /\ Become(t.list, t.ui)
           /\ mouse' = [state |-> "dragging", view |-> mouse.view,
                        item |-> t.ui.views[mouse.view].item,
                        info |-> NoInfo(t.ui.views[mouse.view].row)]
    /\ UNCHANGED top

ClosestParent(index) ==
    LET above == ItemForRow(rows, index - 1)
        level == LevelForItem(tree, above)
        lower == {j \in 0 .. index - 1 : /\ rows[j + 1] \in expanded
                                         /\ LevelForItem(tree, rows[j + 1]) < level}
    IN  IF above \in expanded THEN above
        ELSE IF lower = {} THEN Root ELSE rows[Largest(lower) + 1]

Distance(a, b) == IF a < b THEN b - a ELSE a - b

PossibleParents(index) ==
    LET least == LevelForItem(tree, ItemForRow(rows, index)) - 1
    IN  {p \in GetAncestors(tree, ClosestParent(index)) : LevelForItem(tree, p) >= least}

\* Parents come deepest first, and a later one has to be closer to be taken;
\* null is the last, and would be given up for any other.
IntendedParent(parents, intended) ==
    LET level == [p \in parents |-> LevelForItem(tree, p)]
    IN  CHOOSE p \in parents : \A q \in parents \ {p} :
            LET dp == Distance(level[p], intended)
                dq == Distance(level[q], intended)
            IN  dp < dq \/ (dp = dq /\ level[p] > level[q])

\* indexForMovedItem, when the item shown by a view is dragged to a row.
IndexForMovedItem(item, index, shift, parents) ==
    LET below  == ItemForRow(rows, index)
        parent == IntendedParent(parents, LevelForItem(tree, item) + shift)
        level  == LevelForItem(tree, parent) + 1
    IN  [index |-> index, parent |-> parent, level |-> level,
         position |->
             IF below # None /\ LevelForItem(tree, below) = level
             THEN SelectInSeq(tree[parent], LAMBDA i : i = below) - 1
             ELSE Len(tree[parent])]

\* Without a possible parent draggingInfo stays as it is.
DragTo(index, shift) ==
    /\ mouse.state = "dragging"
    /\ LET range == RenderRange(Len(rows), top)
       IN  "dragOut" \in setup.may \/ index \in range.start .. range.end + 1
    /\ LET parents == PossibleParents(index)
           item    == ItemForRow(rows, ui.views[mouse.view].row)
       IN  /\ parents # {}
           /\ mouse' = [mouse EXCEPT !.info = IndexForMovedItem(item, index, shift, parents)]
    /\ UNCHANGED <<tree, expanded, rows, ui, top, selection, setup>>

\* moveItem, the views: those between the two rows make room.
MoveViews(u, from, info) ==
    LET moved == ChildViewForIndex(u, from)
        by(row) == IF row = Gone THEN 0
                   ELSE IF row > from /\ row < info.index THEN -1
                   ELSE IF row < from /\ row >= info.index THEN 1 ELSE 0
    IN  [u EXCEPT !.views = [k \in DOMAIN u.views |->
            IF k = moved
            THEN [u.views[k] EXCEPT
                     !.level = info.level,
                     !.row = IF from < info.index THEN info.index - 1 ELSE info.index]
            ELSE [u.views[k] EXCEPT !.row = @ + by(@)]]]

\* Mutant of MoveInTree: the position is not adjusted for the removed item.
MoveInTreeUnadjusted(from, info) ==
    LET item  == ItemForRow(rows, from)
        without == [tree EXCEPT ![ParentOf(tree, item)] = RemoveFirst(@, item)]
        pos == IF info.position > Len(without[info.parent])
               THEN Len(without[info.parent]) ELSE info.position
    IN  [without EXCEPT ![info.parent] = InsertAt(@, pos + 1, item)]

\* insertAt, for a position of at most the length: splice counts -1 from the end.
InsertObject(s, pos, item) ==
    InsertAt(s, IF pos >= 0 THEN pos + 1 ELSE IF s = <<>> THEN 1 ELSE Len(s), item)

Position(old, from, info) ==
    IF old = info.parent /\ from < info.index THEN info.position - 1 ELSE info.position

\* moveItem, the arrays: removeObject and insertAt.
MoveInTree(from, info) ==
    LET item    == ItemForRow(rows, from)
        old     == ParentOf(tree, item)
        without == [tree EXCEPT ![old] = RemoveFirst(@, item)]
    IN  [without EXCEPT ![info.parent] = InsertObject(@, Position(old, from, info), item)]

\* The view has been recycled, or its row is gone, and undefined is inserted; or the
\* position is beyond the end by now, and insertAt throws when the item has been
\* removed.
MoveFails(from, info) ==
    LET item == ItemForRow(rows, from)
    IN  item # None =>
        LET old  == ParentOf(tree, item)
            left == Len(tree[info.parent]) - (IF old = info.parent THEN 1 ELSE 0)
        IN  Position(old, from, info) > left

\* mouseUp after a drag; a drag without a mouseMove since moves nothing.
Drop ==
    /\ mouse.state = "dragging"
    /\ LET from == ui.views[mouse.view].row
           tr   == MoveInTree(from, mouse.info)
       IN  \/ /\ mouse.info.position = Gone
              /\ mouse' = Idle
              /\ UNCHANGED <<tree, expanded, rows, ui, selection, setup>>
           \/ /\ mouse.info.position # Gone /\ ~MoveFails(from, mouse.info)
              /\ mouse' = Idle
              /\ Become([List EXCEPT !.tree = tr, !.rows = LoadCache(tr, expanded)],
                        MoveViews(ui, from, mouse.info))
           \/ /\ mouse.info.position # Gone /\ MoveFails(from, mouse.info)
              /\ mouse' = [state |-> "failed", view |-> 0]
              /\ UNCHANGED <<tree, expanded, rows, ui, selection, setup>>
    /\ UNCHANGED top

\* What happens after a drop that failed is not modelled.
Failed ==
    /\ mouse.state = "failed"
    /\ UNCHANGED vars

Next ==
    \/ \E t \in 0 .. Cardinality(Items) : Scroll(t)
    \/ \E item \in Items, k \in 1 .. Len(tree[Root]) + 1 : AddItem(item, k)
    \/ \E k \in DOMAIN tree[Root] : RemoveItem(k)
    \/ \E open \in BOOLEAN : MoveSideways(open)
    \/ \E direction \in {-1, 1} : MoveUpOrDown(direction)
    \/ \E item \in Items, status \in BOOLEAN : ChangeIsExpanded(item, status)
    \/ \E k \in DOMAIN ui.views : MouseDown(k)
    \/ Click
    \/ StartDragging
    \/ \E index \in 0 .. Len(rows), shift \in -MaxShift .. MaxShift : DragTo(index, shift)
    \/ Drop
    \/ Failed

Spec == Init /\ [][Next]_vars

------------------------------------------------------------------------------
(* Properties. *)

ViewType == [row : Nat \cup {Gone}, item : Items \cup {None}, open : BOOLEAN,
             sel : BOOLEAN, level : Nat \cup {Gone}]

\* Every variable has its type.
TypeOK ==
    /\ tree \in [Items \cup {Root} -> Seq(Items)]
    /\ expanded \subseteq Items
    /\ rows \in Seq(Items)
    /\ selection \in Items \cup {None}
    /\ top \in Nat /\ setup \in Setups
    /\ mouse.state \in {"idle", "mouseIsDown", "dragging", "failed"}
    /\ \A k \in DOMAIN ui.views : ui.views[k] \in ViewType

\* The view of an item that is dragged may have been recycled and used for another,
\* or the rows may change while draggingInfo refers to them: neither toggleItem nor
\* fullRerender spares a dragged view, and moveItem uses what mouseMove computed.
DragDisturbed == setup.allowReordering /\ setup.may \cap {"input", "pressScroll"} # {}

\* A click toggles the item of the view that was pressed in that view, although a
\* new content may have given the item another one since.
ClickMisled == {"content", "input"} \subseteq setup.may

\* The pool is exactly the views without a row, each once: a view is recycled
\* once, and used for one row; and no more views are created than rows can be
\* rendered and one be dragged.  Variables have their types.
ViewsAreRecycled ==
    /\ TypeOK
    /\ ToSet(ui.pool) = DOMAIN ui.views \ Rendered(ui)
    /\ Len(ui.pool) = Cardinality(ToSet(ui.pool))
    /\ "oneRow" \notin setup.may /\ ~DragDisturbed =>
          Len(ui.views) <= setup.visible + setup.bufferSize + 2

\* Every row in the range to be rendered has one view and no more, whatever
\* is scrolled, expanded, collapsed, dropped, added and removed (didScroll
\* and toggleItem fill the gaps that recycling leaves).  A drop out of the
\* rendered rows, though, only renumbers the views there are, and a scroll that
\* keeps one row at the edge leaves a gap or a second view.
EveryRowOnce ==
    setup.may \cap {"dragOut", "dragScroll", "oneRow"} = {} /\ ~DragDisturbed =>
    LET range == RenderRange(Len(rows), top)
    IN  \A row \in range.start .. range.end :
            Cardinality({k \in DOMAIN ui.views : ui.views[k].row = row}) = 1

\* A rendered view shows the item of its row, with its expanded status, its
\* selection and its level, although views are reused for other rows, are
\* moved by toggles and drops and keep what they are not told to change; but
\* collapseItem does not tell the view of the item, and of two views for a row only
\* one is told of the selection.
ViewsShowTheirRows ==
    setup.may \cap {"api", "oneRow"} = {} /\ ~ClickMisled /\ ~DragDisturbed =>
    \A k \in Rendered(ui) :
        LET v == ui.views[k]
        IN  /\ v.item = ItemForRow(rows, v.row) /\ v.item # None
            /\ v.open = (v.item \in expanded)
            /\ v.sel = (v.item = selection)
            /\ v.level = LevelForItem(tree, v.item)

\* The cached rows are the items of the tree whose ancestors are expanded, but
\* for what collapseItem, and the keys for a selection out of sight, do.
RowsCurrent ==
    setup.may \cap {"api", "hidden"} = {} /\ ~ClickMisled /\ ~DragDisturbed =>
        rows = LoadCache(tree, expanded)

\* Together: the views are recycled without loss, and every row that is to be
\* rendered has its one view, also when a view is scrolled away, collapsed away or
\* rendered again between its mouseDown and its mouseUp.
EachRowOneView == ViewsAreRecycled /\ EveryRowOnce


\* Reordering loses and duplicates nothing: every item in the initial tree
\* is still found once from the root.  If keys come during a drag, though, the
\* right arrow expands the dragged item, which can then be dropped into itself.
NothingLost ==
    "content" \notin setup.may /\ ~DragDisturbed =>
    LET all(tr) == LoadCache(tr, Items)
    IN  /\ ToSet(all(tree)) = ToSet(all(setup.content))
        /\ Len(all(tree)) = Len(all(setup.content))

\* A drop puts the item whose clone was dragged in the row that the indicator
\* showed, and leaves the order of the other rows alone, although view and rows
\* are looked up again at the mouseUp; but for drags that are disturbed.
DropWhereShown ==
    [][(mouse.state = "dragging" /\ mouse'.state = "idle" /\ rows' # rows /\ ~DragDisturbed) =>
        LET from == RowForItem(rows, mouse.item)
            to   == IF from < mouse.info.index THEN mouse.info.index - 1
                    ELSE mouse.info.index
        IN  /\ RowForItem(rows', mouse.item) = to
            /\ RemoveFirst(rows', mouse.item) = RemoveFirst(rows, mouse.item)]_vars
=============================================================================
