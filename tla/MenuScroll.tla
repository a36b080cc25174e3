----------------------------- MODULE MenuScroll -----------------------------
(***************************************************************************)
(* The content of a menu that may be higher than the window                *)
(* (views/menu_scroll_view.js, sized by mixins/menu_view_support.js): two  *)
(* arrows, above and below, that scroll it with a timer while the pointer  *)
(* is over them.                                                           *)
(*                                                                         *)
(* The scroll view is one record                                           *)
(*     [top, height, position, need, direction, timer, stray]              *)
(*   top        scrollTop of the view port                                 *)
(*   height     of the view port                                           *)
(*   position   scrollPosition: "top", "middle" or "bottom"                *)
(*   need       needScrolling                                              *)
(*   direction  scrollDirection                                            *)
(*   timer      whether the call that _timer stands for is still to come   *)
(*   stray      how many other calls of scroll are still to come           *)
(***************************************************************************)
EXTENDS Integers, FiniteSetsExt

CONSTANTS
    Up, Down,   \* the arrows
    WindowHeight,
    MaxStray    \* bound on the calls that are lost track of

ASSUME MenuScrollAssumption ==
    Up # Down /\ WindowHeight \in Nat /\ WindowHeight > 36 /\ MaxStray \in Nat

Arrows == {Up, Down}

itemHeight == 21
menuMargin == 12
scrollSize == 10
paddingAndBorders == 12     \* of the menu: twice a padding of 5 and a border of 1

ListHeight(items) == items * itemHeight

NewScroll == [top |-> 0, height |-> 0, position |-> "top", need |-> FALSE,
              direction |-> 0, timer |-> FALSE, stray |-> 0]

\* The view port shows no more than there is.
Clamp(b, list) == [b EXCEPT !.top = Max({0, Min({@, list - b.height})})]

\* _updateMenuSize and _recalculateSizes, for a menu of that many items
UpdateMenuSize(b, items) ==
    LET menuOuterHeight == ListHeight(items) + paddingAndBorders
        need == menuOuterHeight + 2 * menuMargin > WindowHeight
        outer == IF need THEN WindowHeight - 2 * menuMargin ELSE menuOuterHeight
    IN  Clamp([b EXCEPT !.height = outer - paddingAndBorders, !.need = need], ListHeight(items))

\* isShown of the arrows, kept by scrollPositionDidChange
IsShown(b, arrow) == b.need /\ b.position # (IF arrow = Up THEN "top" ELSE "bottom")

StopScrolling(b) == [b EXCEPT !.direction = 0, !.timer = FALSE]

\* run.later; a call that was still to come under _timer is lost track of.
Later(b) == [b EXCEPT !.timer = TRUE, !.stray = @ + (IF b.timer THEN 1 ELSE 0)]

\* Mutant of Scrolled: the position is noted at the ends only.
ScrolledEndsOnly(b, list) ==
    LET down == b.direction = 1
        shownBottom == b.top + b.height
        ends == IF down THEN shownBottom + scrollSize >= list
                ELSE b.direction = -1 /\ scrollSize > b.top
        delta == CASE ~ends -> scrollSize [] down -> list - shownBottom [] OTHER -> b.top
        moved == Clamp([b EXCEPT !.top = @ + b.direction * delta], list)
    IN  IF ends THEN [StopScrolling(moved) EXCEPT !.position = IF down THEN "bottom" ELSE "top"]
        ELSE Later(moved)

\* Mutant of Scrolled: scrolling up does not notice the top.
ScrolledPastTop(b, list) ==
    LET down == b.direction = 1
        shownBottom == b.top + b.height
        ends == down /\ shownBottom + scrollSize >= list
        delta == IF ends THEN list - shownBottom ELSE scrollSize
        moved == Clamp([b EXCEPT !.top = @ + b.direction * delta], list)
    IN  IF ends THEN [StopScrolling(moved) EXCEPT !.position = "bottom"]
        ELSE [Later(moved) EXCEPT !.position = "middle"]

\* scroll: one step, and the next one unless it reached an end
Scrolled(b, list) ==
    LET down == b.direction = 1
        shownBottom == b.top + b.height
        ends == IF down THEN shownBottom + scrollSize >= list
                ELSE b.direction = -1 /\ scrollSize > b.top
        delta == CASE ~ends -> scrollSize [] down -> list - shownBottom [] OTHER -> b.top
        moved == Clamp([b EXCEPT !.top = @ + b.direction * delta], list)
    IN  IF ends THEN [StopScrolling(moved) EXCEPT !.position = IF down THEN "bottom" ELSE "top"]
        ELSE [Later(moved) EXCEPT !.position = "middle"]

StartScrolling(b, arrow, list) ==
    Scrolled([b EXCEPT !.direction = IF arrow = Up THEN -1 ELSE 1], list)

\* mouseEnter and mouseLeave of an arrow
ArrowEntered(b, arrow, list) == IF IsShown(b, arrow) THEN StartScrolling(b, arrow, list) ELSE b
ArrowLeft(b, arrow) == IF IsShown(b, arrow) THEN StopScrolling(b) ELSE b

\* The call of _timer is made, or a stray one.
TimerFired(b, list) == Scrolled([b EXCEPT !.timer = FALSE], list)
StrayFired(b, list) == Scrolled([b EXCEPT !.stray = @ - 1], list)
=============================================================================
