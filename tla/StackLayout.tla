---------------------------- MODULE StackLayout ----------------------------
(***************************************************************************)
(* Layout managers: mixins/layout_support.js asks the layout manager of a  *)
(* view to set up its children whenever one of them changes, and           *)
(* layout_managers/vertical_stack_layout_manager.js puts them below each   *)
(* other and sets the height of the view itself, which is a change for the *)
(* view's own parent.  All of this is one synchronous cascade of nested    *)
(* calls, kept here as the stack of the setupLayout calls in progress; it  *)
(* is taken one child at a time because each child that is moved calls     *)
(* back, which _layoutChangeInProgress must stop.                          *)
(* The children have no layout.topMargin, which adds to the spacing.       *)
(***************************************************************************)
EXTENDS Integers, Sequences, SequencesExt

CONSTANTS
    Children,   \* the children of each view with a layout manager, in order
    Margins,    \* its topMargin, bottomMargin and spacing
    Padding,    \* bottomPadding of each other view
    MaxHeights, \* its layout.maxHeight, for those that have one
    Fluid       \* the views that define no height

Stacks == DOMAIN Children
Stacked == UNION {Range(Children[v]) : v \in Stacks}

\* The views that have a height and are not given one by a layout manager.
Leaves == Stacked \ (Stacks \cup Fluid)

ASSUME StackAssumption ==
    /\ \A v \in Stacks : /\ Children[v] # <<>>
                         /\ \A i \in DOMAIN Children[v] :
                               Children[v][i] \in Fluid => i = Len(Children[v])
    /\ IsFiniteSet(Stacks)
    /\ \A v \in Stacks : Margins[v] \in [top : Int, bottom : Int, spacing : Int]
    /\ \A v \in Stacked : Padding[v] \in Int
    /\ DOMAIN MaxHeights \subseteq Stacks
    /\ \A v \in DOMAIN MaxHeights : MaxHeights[v] \in Int

VARIABLES
    box,        \* of each view, its top, height and isVisible
    calls       \* the calls of setupLayout, innermost last: the view, the next
                \* child and where that goes

stackVars == <<box, calls>>

ParentOf(v) == {p \in Stacks : v \in Range(Children[p])}

\* getAffectedChildViews
Affected(v) == SelectSeq(Children[v], LAMBDA c : box[c].isVisible)

\* setupLayout is called.
SetupCall(v) == [view |-> v, next |-> 1, top |-> Margins[v].top]

\* Mutant of Consult: nothing stops a view from being set up while it is.
ConsultAlways(v, cs) ==
    IF v \notin Stacks THEN cs ELSE Append(cs, SetupCall(v))

\* consultLayoutManager: nothing happens while the view is being set up.
Consult(v, cs) ==
    IF v \notin Stacks \/ \E k \in DOMAIN cs : cs[k].view = v
    THEN cs
    ELSE Append(cs, SetupCall(v))

\* updateLayout tells the parent.
UpdateLayout(v, cs) ==
    IF ParentOf(v) = {} THEN cs ELSE Consult(CHOOSE p \in ParentOf(v) : TRUE, cs)

\* adjustLayout of a child's top or height, or a change of its isVisible
Change(v, property, value, cs) ==
    /\ box' = [box EXCEPT ![v][property] = value]
    /\ calls' = IF box[v][property] = value THEN cs ELSE UpdateLayout(v, cs)

\* adjustLayout('height', ...), or a property that layout.height is bound to
SetHeight(v, h) ==
    /\ calls = <<>>
    /\ box[v].height # h
    /\ Change(v, "height", h, calls)

\* isVisible is set.
SetVisible(v, visible) ==
    /\ calls = <<>>
    /\ box[v].isVisible # visible
    /\ Change(v, "isVisible", visible, calls)

-----------------------------------------------------------------------------
(* setupLayout *)

Current == Last(calls)

WithCurrent(c) == Append(Front(calls), c)

\* The next child is given its top.
PlaceChild ==
    /\ calls # <<>>
    /\ Current.next <= Len(Affected(Current.view))
    /\ LET v == Current.view
           top == Current.top + (IF Current.next > 1 THEN Margins[v].spacing ELSE 0)
       IN  \E child \in Range(Children[v]) :
              /\ child = Affected(v)[Current.next]
              /\ LET height == IF child \in Fluid THEN 0 ELSE box[child].height
                 IN  Change(child, "top", top,
                            WithCurrent([Current EXCEPT !.next = @ + 1,
                                                        !.top = top + Padding[child] + height]))

\* The height of the view when its children end at top, if it is to be set.
StackHeight(v, top) ==
    LET fluid == Range(Affected(v)) \cap Fluid # {}
        content == IF fluid THEN top ELSE top + Margins[v].bottom
    IN  IF v \in DOMAIN MaxHeights
        THEN {IF content > MaxHeights[v] THEN MaxHeights[v] ELSE content}
        ELSE IF fluid THEN {} ELSE {content}

\* All children are placed: the height of the view is set, while it is still
\* being set up.
SetStackHeight ==
    /\ calls # <<>>
    /\ Current.next = Len(Affected(Current.view)) + 1
    /\ LET v == Current.view
           h == StackHeight(v, Current.top)
           cs == WithCurrent([Current EXCEPT !.next = @ + 1])
       IN  IF h = {} THEN box' = box /\ calls' = cs
                     ELSE Change(v, "height", CHOOSE x \in h : TRUE, cs)

\* setupLayout returns.
SetupReturns ==
    /\ calls # <<>>
    /\ Current.next > Len(Affected(Current.view)) + 1
    /\ calls' = Front(calls)
    /\ UNCHANGED box

SetupStep == PlaceChild \/ SetStackHeight \/ SetupReturns
=============================================================================
