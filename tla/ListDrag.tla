------------------------------ MODULE ListDrag ------------------------------
(***************************************************************************)
(* Reordering in ListView and TreeView (views/list_view.js, tree_view.js,  *)
(* list_item_view.js, tree_item_view.js, list_view_drag_helper.js).        *)
(*                                                                         *)
(* A tree view is a list view whose items may have nested list views.      *)
(* While an item is dragged the observers of the content are suppressed,   *)
(* and each move changes the content, the child views, and contentIndex of *)
(* the item views by hand.  Here a list is named like the item it belongs  *)
(* to, Root at the top, and the view of an item like the item.  The order  *)
(* on the screen is that of the child views.                               *)
(*                                                                         *)
(* Pixels are abstracted: moving the mouse chooses a direction, an item on *)
(* the screen in that direction (or the dragged item itself), and by how   *)
(* many levels the mouse has moved to the left or to the right.            *)
(***************************************************************************)
EXTENDS Integers, Sequences, FiniteSets, SequencesExt

CONSTANTS
    ListItems, Root,
    Folders,      \* the items with treeItemChildren
    FirstContent, \* the content of each list at first
    Fixed,        \* the items for which allowReorderingItem is false
    None,
    MaxLevels,    \* how far the mouse moves sideways
    Setups        \* records of badDrops, the pairs <<item, new parent>> that
                  \* isValidDrop refuses, and changesIn, the states in which
                  \* the content may change from outside

Lists == Folders \cup {Root}

ASSUME ListAssumption ==
    /\ Folders \subseteq ListItems /\ Root \notin ListItems /\ None \notin ListItems \cup {Root}
    /\ IsFiniteSet(ListItems)
    /\ FirstContent \in [Lists -> Seq(ListItems)]
    /\ \A l, m \in Lists : \A k \in DOMAIN FirstContent[l], j \in DOMAIN FirstContent[m] :
          FirstContent[l][k] = FirstContent[m][j] => l = m /\ k = j
    /\ \A f \in Folders : \E l \in Lists : f \in ToSet(FirstContent[l])
    /\ \E level \in [Lists -> 0 .. Cardinality(Folders)] : \A l \in Lists, f \in Folders :
          f \in ToSet(FirstContent[l]) => level[l] < level[f]
    /\ Fixed \subseteq ListItems
    /\ MaxLevels \in Nat
    /\ Setups \subseteq [badDrops : SUBSET (ListItems \X Lists),
                          changesIn : SUBSET {"idle", "pressed"}]

VARIABLES
    setup,      \* which of the setups this is
    contents,    \* the content of each list view
    childViews, \* its item views
    index,      \* contentIndex of each item view
    expanded,   \* the folders whose isExpanded is true
    selection,  \* selection of the root view
    state,      \* "idle", "pressed" or "reordering"
    pressed,    \* the item that the mouse button went down on
    itemPath    \* the path to the dragged item, None without a drag helper

listVars == <<setup, contents, childViews, index, expanded, selection, state, pressed, itemPath>>

Depth == Cardinality(ListItems)

------------------------------------------------------------------------------
(* Views and paths. *)

\* parentView of an item view.
ParentView(i) == CHOOSE l \in Lists : i \in ToSet(childViews[l])

HasView(i) == \E l \in Lists : i \in ToSet(childViews[l])

\* The lists above an item, from its own upwards.
ListsAbove(i) ==
    LET up[d \in 1 .. Depth] ==
            IF d = 1 THEN <<ParentView(i)>>
            ELSE LET s == up[d - 1]
                 IN  IF Last(s) = Root THEN s ELSE Append(s, ParentView(Last(s)))
    IN  up[Depth]

Inside(i, folder) == i = folder \/ folder \in ToSet(ListsAbove(i))

\* An item is on the screen if all folders above it are expanded.
Visible(i) == HasView(i) /\ ToSet(ListsAbove(i)) \ {Root} \subseteq expanded

\* _resolvePath: contentIndex of the item and of the items above it.
ResolvePath(i) ==
    LET above == Front(ListsAbove(i))
    IN  Reverse([k \in 1 .. Len(above) |-> index[above[k]]]) \o <<index[i]>>

\* Path.getView: from the root down, by position in the child views.
GetView(path) ==
    LET down[d \in 1 .. Len(path)] ==
            LET l == IF d = 1 THEN Root ELSE down[d - 1]
            IN  IF l \in Lists /\ path[d] \in DOMAIN childViews[l]
                THEN childViews[l][path[d]] ELSE None
    IN  IF path = <<>> THEN None ELSE down[Len(path)]

\* Is the first item above the second one on the screen?
Before(i, j) ==
    LET p == ResolvePath(i)
        q == ResolvePath(j)
    IN  \E n \in 0 .. Len(p) : /\ n < Len(q) /\ SubSeq(p, 1, n) = SubSeq(q, 1, n)
                               /\ n < Len(p) => p[n + 1] < q[n + 1]

------------------------------------------------------------------------------
(* Where to move: a target is an item and a position, "a" after it, "b"     *)
(* before it, or "i" inside it.                                             *)

NewParent(t) == IF t.pos = "i" THEN t.item ELSE ParentView(t.item)

PathInvalid(dragged, t) == <<dragged, NewParent(t)>> \in setup.badDrops

IsLast(i) == index[i] = Len(childViews[ParentView(i)])

IsOpen(i) == i \in Folders /\ i \in expanded

\* Path.up and Path.down.
Up(t) == [item |-> ParentView(t.item), pos |-> "a"]

Down(i) ==
    IF contents[i] = <<>> THEN [item |-> i, pos |-> "i"]
    ELSE [item |-> childViews[i][Len(contents[i])], pos |-> "a"]

PrecedingView(i) ==
    IF index[i] > 1 THEN childViews[ParentView(i)][index[i] - 1] ELSE None

\* _resolveNewLevel: x counts the levels that the mouse moved to the right, or
\* if negative, to the left.
GoesUp(dragged, t, x) ==
    /\ x < 0 \/ PathInvalid(dragged, t)
    /\ t.pos = "a" \/ t.item = dragged
    /\ ParentView(t.item) # Root
    /\ IsLast(t.item)

GoesDown(dragged, t, x) ==
    LET p == PrecedingView(t.item)
    IN  /\ x > 0 \/ PathInvalid(dragged, t)
        /\ t.pos # "i" \/ t.item = dragged
        /\ p # None
        /\ p # dragged /\ IsOpen(p)
        /\ ~PathInvalid(dragged, Down(p))

ResolveNewLevel(dragged, target, levels) ==
    LET up[d \in 0 .. Depth] ==
            IF d = 0 THEN [t |-> target, x |-> levels]
            ELSE LET s == up[d - 1]
                 IN  IF GoesUp(dragged, s.t, s.x) THEN [t |-> Up(s.t), x |-> s.x + 1] ELSE s
        down[d \in 0 .. Depth] ==
            IF d = 0 THEN up[Depth]
            ELSE LET s == down[d - 1]
                 IN  IF GoesDown(dragged, s.t, s.x)
                     THEN [t |-> Down(PrecedingView(s.t.item)), x |-> s.x - 1] ELSE s
    IN  down[Depth].t

\* The items that the dragged one can have been moved over.
Candidates(dragged, direction) ==
    {i \in ListItems : /\ Visible(i)
                   /\ \/ i = dragged
                      \/ ~Inside(i, dragged) /\ (direction = "down") = Before(dragged, i)}

\* _resolveNewPath; None if the result is not valid.
ResolveNewPath(dragged, direction, i, levels) ==
    LET inside == [item |-> i, pos |-> "i"]
        first  == IF direction = "down" /\ IsOpen(i) /\ ~PathInvalid(dragged, inside)
                  THEN inside
                  ELSE [item |-> i, pos |-> IF direction = "down" THEN "a" ELSE "b"]
        t      == ResolveNewLevel(dragged, first, levels)
    IN  IF PathInvalid(dragged, t) THEN None ELSE t

------------------------------------------------------------------------------
(* Moving. *)

\* removeObject of Ember's arrays; there is one to remove at most.
RemoveObject(s, i) ==
    IF i \in ToSet(s) THEN RemoveAt(s, CHOOSE k \in DOMAIN s : s[k] = i) ELSE s

\* _updateContentIndexes of a list view.
Indexed(idx, views, l) ==
    [i \in ListItems |-> IF i \in ToSet(views[l])
                     THEN CHOOSE k \in DOMAIN views[l] : views[l][k] = i ELSE idx[i]]

\* Mutant of MoveItem: contentIndex is renewed only after the insertion.
MoveItemIndexingLate(dragged, t) ==
    LET source  == ParentView(dragged)
        target  == NewParent(t)
        without == [childViews EXCEPT ![source] = RemoveObject(@, dragged)]
        at      == CASE t.pos = "b" -> index[t.item]
                     [] t.pos = "a" -> index[t.item] + 1
                     [] t.pos = "i" -> 1
        Put(s)  == IF at > Len(s) THEN Append(s, dragged) ELSE InsertAt(s, at, dragged)
        views   == [without EXCEPT ![target] = Put(@)]
    IN  /\ childViews' = views
        /\ contents' = [[contents EXCEPT ![source] = RemoveObject(@, dragged)] EXCEPT
                          ![target] = Put(@)]
        /\ index' = Indexed(Indexed(index, views, source), views, target)

\* Mutant of MoveItem: the list that the item comes to is not renumbered.
MoveItemUnnumbered(dragged, t) ==
    LET source  == ParentView(dragged)
        target  == NewParent(t)
        without == [childViews EXCEPT ![source] = RemoveObject(@, dragged)]
        idx     == Indexed(index, without, source)
        at      == IF t.pos = "i" THEN 1 ELSE idx[t.item] + (IF t.pos = "a" THEN 1 ELSE 0)
    IN  /\ childViews' = [without EXCEPT ![target] = InsertAt(@, at, dragged)]
        /\ contents' = [[contents EXCEPT ![source] = RemoveObject(@, dragged)] EXCEPT
                          ![target] = InsertAt(@, at, dragged)]
        /\ index' = [idx EXCEPT ![dragged] = at]

\* _moveItem: removed from the source, whose views are renumbered; then the
\* position is taken from the target view.
MoveItem(dragged, t) ==
    LET source  == ParentView(dragged)
        target  == NewParent(t)
        without == [childViews EXCEPT ![source] = RemoveObject(@, dragged)]
        idx     == Indexed(index, without, source)
        at      == CASE t.pos = "b" -> idx[t.item]
                     [] t.pos = "a" -> idx[t.item] + 1
                     [] t.pos = "i" -> 1
        views   == [without EXCEPT ![target] = InsertAt(@, at, dragged)]
    IN  /\ childViews' = views
        /\ contents' = [[contents EXCEPT ![source] = RemoveObject(@, dragged)] EXCEPT
                          ![target] = InsertAt(@, at, dragged)]
        /\ index' = Indexed(idx, views, target)

------------------------------------------------------------------------------
(* The steps. *)

ListInit ==
    /\ setup \in Setups
    /\ contents = FirstContent
    /\ childViews = contents
    /\ index = [i \in ListItems |->
          IF HasView(i) THEN CHOOSE k \in DOMAIN contents[ParentView(i)] :
                                 contents[ParentView(i)][k] = i
          ELSE 1]
    /\ expanded = {} /\ selection = None
    /\ state = "idle" /\ pressed = None /\ itemPath = None

\* mouseDown on an item view: its list selects it, and gets a drag helper if
\* the item may be reordered.  Both go by contentIndex.
MouseDownOnItem(i) ==
    LET l == ParentView(i)
        found == childViews[l][index[i]]
    IN  /\ state = "idle" /\ Visible(i)
        /\ selection' = contents[l][index[i]]
        /\ itemPath' = IF found \in Fixed THEN None ELSE <<index[i]>>
        /\ state' = "pressed" /\ pressed' = i
        /\ UNCHANGED <<setup, contents, childViews, index, expanded>>

\* mouseUp without a drag toggles a folder.  Nothing happens to its list.
MouseUp ==
    /\ state = "pressed"
    /\ state' = "idle" /\ pressed' = None /\ itemPath' = None
    /\ \/ /\ pressed \in Folders
          /\ expanded' = IF pressed \in expanded THEN expanded \ {pressed}
                         ELSE expanded \cup {pressed}
       \/ pressed \notin Folders /\ UNCHANGED expanded
    /\ UNCHANGED <<setup, contents, childViews, index, selection>>

\* The mouse has moved far enough: startReordering goes from list to list up
\* to the root, each one adding the contentIndex of its item.  (It throws if there
\* is nothing at that path any more.)
StartReordering ==
    /\ state = "pressed" /\ itemPath # None /\ HasView(pressed)
    /\ itemPath' = Front(ResolvePath(pressed)) \o itemPath
    /\ GetView(itemPath') # None
    /\ state' = "reordering"
    /\ UNCHANGED <<setup, contents, childViews, index, expanded, selection, pressed>>

\* Mutant of UpdateDisplay: the path stays that from before the move.
UpdateDisplayKeepingPath(direction, i, levels) ==
    /\ state = "reordering"
    /\ \E dragged \in ListItems :
          LET t == ResolveNewPath(dragged, direction, i, levels)
          IN  /\ dragged = GetView(itemPath)
              /\ i \in Candidates(dragged, direction)
              /\ t # None
              /\ t.item # dragged
              /\ MoveItem(dragged, t)
    /\ UNCHANGED <<setup, expanded, selection, state, pressed, itemPath>>

\* updateDisplay, after a mouse move.
UpdateDisplay(direction, i, levels) ==
    /\ state = "reordering"
    /\ \E dragged \in ListItems :
          LET t == ResolveNewPath(dragged, direction, i, levels)
          IN  /\ dragged = GetView(itemPath)
              /\ i \in Candidates(dragged, direction)
              /\ t # None
              /\ t.item # dragged
              /\ MoveItem(dragged, t)
              /\ itemPath' = ResolvePath(dragged)'
    /\ UNCHANGED <<setup, expanded, selection, state, pressed>>

\* The button goes up: finishReorder.
FinishReorder ==
    /\ state = "reordering"
    /\ state' = "idle" /\ pressed' = None /\ itemPath' = None
    /\ UNCHANGED <<setup, contents, childViews, index, expanded, selection>>

\* The arrow keys, which the root view handles: changeSelection.
ChangeSelection(direction) ==
    LET n == Len(contents[Root])
        at == IF selection \in ToSet(contents[Root])
              THEN CHOOSE k \in 1 .. n : contents[Root][k] = selection ELSE 0
        new == IF direction = "down" THEN at + 1 ELSE at - 1
    IN  /\ state = "idle"
        /\ new \in 1 .. n
        /\ selection' = contents[Root][new]
        /\ UNCHANGED <<setup, contents, childViews, index, expanded, state, pressed, itemPath>>

\* The content changes: arrayDidChange.  (A change during a drag, when the
\* observers are suppressed, is left out.)
ArrayDidChange(l, new) ==
    LET views == [childViews EXCEPT ![l] = new]
    IN  /\ contents' = [contents EXCEPT ![l] = new]
        /\ childViews' = views
        /\ index' = Indexed(index, views, l)
        /\ UNCHANGED <<setup, expanded, selection, state, pressed, itemPath>>

RemoveItem(l, i) ==
    /\ state \in setup.changesIn
    /\ i \in ToSet(contents[l]) /\ i \notin Folders
    /\ state # "idle" => i # pressed
    /\ ArrayDidChange(l, RemoveObject(contents[l], i))

InsertItem(l, i, at) ==
    /\ state \in setup.changesIn
    /\ \A m \in Lists : i \notin ToSet(contents[m]) /\ i \notin ToSet(childViews[m])
    /\ at \in 1 .. Len(contents[l]) + 1
    /\ ArrayDidChange(l, InsertAt(contents[l], at, i))

ListNext ==
    \/ \E i \in ListItems : MouseDownOnItem(i)
    \/ MouseUp \/ StartReordering \/ FinishReorder
    \/ \E direction \in {"up", "down"} :
          \/ ChangeSelection(direction)
          \/ \E i \in ListItems, levels \in -MaxLevels .. MaxLevels :
                UpdateDisplay(direction, i, levels)
    \/ \E l \in Lists, i \in ListItems :
          RemoveItem(l, i) \/ \E at \in 1 .. Cardinality(ListItems) : InsertItem(l, i, at)

ListSpec == ListInit /\ [][ListNext]_listVars

------------------------------------------------------------------------------
(* Properties. *)

\* Every variable has its type.
ListTypeOK ==
    /\ setup \in Setups
    /\ contents \in [Lists -> Seq(ListItems)] /\ childViews \in [Lists -> Seq(ListItems)]
    /\ index \in [ListItems -> 1 .. Cardinality(ListItems)]
    /\ expanded \subseteq Folders
    /\ selection \in ListItems \cup {None} /\ pressed \in ListItems \cup {None}
    /\ state \in {"idle", "pressed", "reordering"}
    /\ itemPath = None \/ itemPath \in Seq(1 .. Cardinality(ListItems))

\* Each list shows its content, and every item view knows its place: the moves
\* done by hand leave content, child views and contentIndex in step.  Variables
\* have their types.
ViewsMatchContent ==
    /\ ListTypeOK
    /\ childViews = contents
    /\ \A l \in Lists : \A k \in DOMAIN childViews[l] : index[childViews[l][k]] = k

\* The items form a tree: each is in one place, and none is inside itself.
ItemsFormATree ==
    /\ \A l, m \in Lists : \A k \in DOMAIN contents[l], j \in DOMAIN contents[m] :
          contents[l][k] = contents[m][j] => l = m /\ k = j
    /\ \A i \in Folders : HasView(i) /\ Last(ListsAbove(i)) = Root

\* Together: views and contents are the same tree, after every move of a drag,
\* which goes from one list to another or up and down a level.
ViewsAndItemsFormATree == ViewsMatchContent /\ ItemsFormATree

\* The item that was pressed is selected, and a drag moves it and no other, in
\* all its moves, and none that may not be reordered, if the content does not
\* change before the drag begins.
DragsThePressed == "pressed" \notin setup.changesIn =>
    /\ state = "pressed" => selection = pressed
    /\ state = "reordering" => GetView(itemPath) = pressed /\ pressed \notin Fixed

\* The first item is on the screen directly above the second.
DirectlyBefore(i, j) ==
    /\ Before(i, j)
    /\ \A k \in ListItems : Visible(k) /\ Before(i, k) /\ Before(k, j) => Inside(k, i) /\ i = pressed

\* An item that is dragged down over another one, and not sideways, comes to be
\* directly below it, and directly above it if it is dragged up: the position is
\* right although removing the item has shifted the others.
LandsBesideTarget ==
    [][setup.badDrops = {} /\ state = "reordering" /\ state' = state =>
          \A i \in ListItems \ {pressed} :
              /\ UpdateDisplay("down", i, 0) => DirectlyBefore(i, pressed)'
              /\ UpdateDisplay("up", i, 0) => DirectlyBefore(pressed, i)']_listVars

\* A drag loses no item and brings none, and one that changes the parent of an
\* item goes to a parent for which isValidDrop is true.
DragsKeepItems ==
    [][state = "reordering" /\ state' = "reordering" /\ childViews' # childViews =>
          /\ UNION {ToSet(contents[l]) : l \in Lists} = UNION {ToSet(contents'[l]) : l \in Lists}
          /\ \A i \in ListItems, l \in Lists :
                i \in ToSet(contents'[l]) /\ i \notin ToSet(contents[l]) =>
                    <<i, l>> \notin setup.badDrops]_listVars

\* Together: a drag moves the item to where the user sees it go, and no other.
DragsMoveTheItem == DragsKeepItems /\ LandsBesideTarget
=============================================================================
