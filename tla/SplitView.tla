----------------------------- MODULE SplitView -----------------------------
(***************************************************************************)
(* A split view with its divider: views/vertical_split_view.js,            *)
(* horizontal_split_view.js (the same code for the other direction) and    *)
(* split_view_divider_view_base.js.  The view is divided into a first pane *)
(* (left, or top), the divider and a second pane.  One of the panes has a  *)
(* size of its own and the flexible one gets the rest, so the properties   *)
(* for both sizes are kept.                                                *)
(*                                                                         *)
(* Every change of a size calls _updateLayout, an observer, which sets     *)
(* both sizes and so calls itself until nothing changes; Divided is what   *)
(* it arrives at.  A change of the view's own size calls nothing.          *)
(***************************************************************************)
EXTENDS Integers

CONSTANTS
    MinFirst,       \* minLeftWidth
    MinSecond       \* minRightWidth

ASSUME SplitAssumption == MinFirst \in Nat /\ MinSecond \in Nat

VARIABLES
    flex,           \* the flexible pane, "first" or "second"
    first,          \* leftWidth
    second,         \* rightWidth
    unCollapsed,    \* _unCollapsedLeftWidth or _unCollapsedRightWidth, {} at first
    divider         \* the divider: its state and what startResize noted

splitVars == <<flex, first, second, unCollapsed, divider>>

Thickness == 7      \* dividerThickness

-----------------------------------------------------------------------------
\* Mutant of Divided: the minimum of the second pane is forgotten.
DividedFirstOnly(total, size) ==
    LET f == IF flex = "second" THEN size ELSE total - size - Thickness
        f1 == IF f < MinFirst THEN MinFirst ELSE f
    IN  [first |-> f1, second |-> total - Thickness - f1]

\* _updateLayout, in a view of that total width: the sizes of the panes when
\* the pane that is not flexible should have the given one.  The minimum of
\* the first pane is ensured, then that of the second.
Divided(total, size) ==
    LET f == IF flex = "second" THEN size ELSE total - size - Thickness
        f1 == IF f < MinFirst THEN MinFirst ELSE f
        s1 == total - Thickness - f1
    IN  IF s1 < MinSecond
        THEN [first |-> total - Thickness - MinSecond, second |-> MinSecond]
        ELSE [first |-> f1, second |-> s1]

\* The size of the pane that is not flexible, and its minimum.
OwnSize == IF flex = "second" THEN first ELSE second
OwnMin == IF flex = "second" THEN MinFirst ELSE MinSecond

\* The size of that pane is set.
SetSize(total, size) ==
    LET d == Divided(total, size)
    IN  first' = d.first /\ second' = d.second

\* The application sets leftWidth (or rightWidth).
SplitSetSize(total, size) ==
    /\ SetSize(total, size)
    /\ UNCHANGED <<flex, unCollapsed, divider>>

\* doubleClick of the divider in idle: toggleCollapse.
ToggleCollapse(total) ==
    /\ divider.state = "idle"
    /\ IF OwnSize = OwnMin /\ unCollapsed # {}
       THEN SetSize(total, CHOOSE s \in unCollapsed : TRUE) /\ UNCHANGED unCollapsed
       ELSE SetSize(total, OwnMin) /\ unCollapsed' = {OwnSize}
    /\ UNCHANGED <<flex, divider>>

-----------------------------------------------------------------------------
(* Dragging the divider *)

\* mouseDown in idle: startResize
DividerMouseDown(x) ==
    /\ divider' = [state |-> "resizing", page |-> x, startFirst |-> first, startSecond |-> second]
    /\ UNCHANGED <<flex, first, second, unCollapsed>>

\* Mutant of DividerMouseMove: the size it has is changed, not the one it had.
DividerMouseMoveDrift(total, x) ==
    /\ SetSize(total, IF flex = "second" THEN first + (x - divider.page)
                                         ELSE second - (x - divider.page))
    /\ UNCHANGED <<flex, unCollapsed, divider>>

\* mouseMove in resizing: resize
DividerMouseMove(total, x) ==
    /\ SetSize(total, IF flex = "second" THEN divider.startFirst + (x - divider.page)
                                         ELSE divider.startSecond - (x - divider.page))
    /\ UNCHANGED <<flex, unCollapsed, divider>>

FreshDivider == [state |-> "idle", page |-> 0, startFirst |-> 0, startSecond |-> 0]

\* mouseUp in resizing.  What was noted is not read again.
DividerMouseUp ==
    /\ divider' = FreshDivider
    /\ UNCHANGED <<flex, first, second, unCollapsed>>

\* Where the divider is drawn in a view that is total wide now.
DividerAt(total) == IF flex = "second" THEN first ELSE total - second - Thickness

DefaultSize == 100  \* leftWidth and rightWidth of a new view

\* The view is inserted, new or for another time: didInsertElement.
SplitInserted(total, new) ==
    /\ SetSize(total, IF new THEN DefaultSize ELSE OwnSize)
    /\ IF new THEN unCollapsed' = {} /\ divider' = FreshDivider
              ELSE UNCHANGED <<unCollapsed, divider>>
    /\ UNCHANGED flex

SplitInit(total) ==
    /\ first = Divided(total, DefaultSize).first
    /\ second = Divided(total, DefaultSize).second
    /\ unCollapsed = {}
    /\ divider = FreshDivider
=============================================================================
