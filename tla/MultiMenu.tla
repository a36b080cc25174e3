----------------------------- MODULE MultiMenu -----------------------------
(***************************************************************************)
(* A button with a menu from which several items are chosen                *)
(* (views/multiselection_button_view.js, multiselection_menu_view.js).     *)
(* The value is an array that the menu changes in place; the button sorts  *)
(* it, in place too, whenever it shows it.  An item stands for a value, or *)
(* for an array of values that replace the others.                         *)
(*                                                                         *)
(* The menu is a panel: what opening and closing it does to the key        *)
(* responders is in Panels.                                                *)
(***************************************************************************)
EXTENDS MenuScroll, Sequences, SequencesExt, SortedSeqs

CONSTANTS
    MultiItems,     \* all items, which are positive numbers
    ItemValues,     \* the values of each item
    NoItem

ASSUME MultiMenuAssumption ==
    /\ MultiItems \subseteq Nat \ {0} /\ NoItem \notin MultiItems \cup Arrows
    /\ MultiItems \cap Arrows = {}
    /\ ItemValues \in [MultiItems -> (SUBSET Nat) \ {{}}]
    /\ IsFiniteSet(MultiItems) /\ \A i \in MultiItems : IsFiniteSet(ItemValues[i])

VARIABLES
    multi,      \* the menu: open, items, lit (_highlightedItem), chosen (value)
    bar,        \* its scroll view
    over        \* what the pointer is over: an item, an arrow, or NoItem

multiVars == <<multi, bar, over>>

IsArrayItem(i) == Cardinality(ItemValues[i]) > 1
List(items) == ListHeight(Len(items))

\* selectHighlightedItem, and formatTitle of the button, which shows the value
Toggled(chosen, i) ==
    LET now == ToSet(chosen)
        v == ItemValues[i]
    IN  SortedSeq(CASE IsArrayItem(i) -> v
                    [] ~IsArrayItem(i) /\ ~ v \subseteq now -> now \cup v
                    [] ~IsArrayItem(i) /\ v \subseteq now /\ Len(chosen) > 1 -> now \ v
                    [] OTHER -> now)

MultiInit ==
    /\ \E S \in SUBSET UNION {ItemValues[i] : i \in MultiItems} :
          S # {} /\ multi = [open |-> FALSE, items |-> SortedSeq(MultiItems),
                             lit |-> NoItem, chosen |-> SortedSeq(S)]
    /\ bar = NewScroll
    /\ over = NoItem

\* _openMenu of the button: a new menu
OpenMulti ==
    /\ ~multi.open
    /\ multi' = [multi EXCEPT !.open = TRUE]
    /\ bar' = UpdateMenuSize(NewScroll, Len(multi.items))
    /\ UNCHANGED over

\* close, by Escape or a click outside: the scroll view is destroyed, which
\* stops it.
CloseMulti ==
    /\ multi.open
    /\ multi' = [multi EXCEPT !.open = FALSE, !.lit = NoItem]
    /\ bar' = StopScrolling(bar)
    /\ over' = NoItem

\* mouseLeave of what the pointer was over and mouseEnter of what it is over now
MoveOver(to) ==
    /\ multi.open /\ to # over
    /\ to \in MultiItems => to \in ToSet(multi.items)
    /\ to \in Arrows => IsShown(bar, to)
    /\ over' = to
    /\ LET left == IF over \in Arrows THEN ArrowLeft(bar, over) ELSE bar
       IN  bar' = IF to \in Arrows THEN ArrowEntered(left, to, List(multi.items)) ELSE left
    /\ multi' = [multi EXCEPT !.lit = CASE to \in MultiItems -> to
                                        [] to \notin MultiItems /\ over \in MultiItems -> NoItem
                                        [] OTHER -> @]
    /\ bar'.stray <= MaxStray

ClickItem ==
    /\ multi.open /\ over \in ToSet(multi.items)
    /\ multi' = [multi EXCEPT !.lit = over, !.chosen = Toggled(@, over)]
    /\ UNCHANGED <<bar, over>>

\* insertNewline
ChooseLit ==
    /\ multi.open /\ multi.lit # NoItem
    /\ multi' = [multi EXCEPT !.chosen = Toggled(@, multi.lit)]
    /\ UNCHANGED <<bar, over>>

\* moveUp and moveDown, around the ends; an item that is not there any more is at
\* index -1.
HighlightAdjacent(increment) ==
    LET items == multi.items
        len == Len(items)
        at == SelectInSeq(items, LAMBDA i : i = multi.lit) - 1
        next == IF multi.lit # NoItem THEN (at + increment) % len
                ELSE IF increment > 0 THEN 0 ELSE len - 1
    IN  /\ multi.open /\ items # <<>>
        /\ multi' = [multi EXCEPT !.lit = items[next + 1]]
        /\ UNCHANGED <<bar, over>>

\* _doKeySearch, for a text that is found
SearchItem(i) ==
    /\ multi.open /\ i \in ToSet(multi.items)
    /\ multi' = [multi EXCEPT !.lit = i]
    /\ UNCHANGED <<bar, over>>

\* 20 ms pass: scroll is called again.
ScrollTimer ==
    /\ bar.timer
    /\ bar' = TimerFired(bar, List(multi.items))
    /\ UNCHANGED <<multi, over>>

StrayTimer ==
    /\ multi.open /\ bar.stray > 0
    /\ bar' = StrayFired(bar, List(multi.items))
    /\ UNCHANGED <<multi, over>>

\* The application adds an item to the array, in its place: the view of the item sizes the
\* menu anew.  It removes one: nothing does, and the item stays highlighted.
AddItem(i) ==
    /\ i \notin ToSet(multi.items)
    /\ multi' = [multi EXCEPT !.items = SortedSeq(ToSet(@) \cup {i})]
    /\ bar' = IF multi.open THEN UpdateMenuSize(bar, Len(multi.items) + 1) ELSE bar
    /\ UNCHANGED over

RemoveItem(i) ==
    /\ i \in ToSet(multi.items)
    /\ multi' = [multi EXCEPT !.items = Subsequence(@, MultiItems \ {i})]
    /\ bar' = Clamp(bar, List(multi'.items))
    /\ over' = IF over = i THEN NoItem ELSE over
=============================================================================
