---------------------------- MODULE PanelFrame ----------------------------
(***************************************************************************)
(* Where a panel is: views/panel.js places it beside an anchor or in the   *)
(* middle of the window, lets the user move it by its title and resize it  *)
(* by its thumb, and keeps its position in localStorage; views/popover.js  *)
(* changes sides when there is no room.  The layout (a hash) and the style *)
(* of the element are two things: moving and resizing change the style     *)
(* only, updateLayout (mixins/layout_support.js) writes the layout over it.*)
(*                                                                         *)
(* allowMoving and isResizable are set.  The mouse only: touchStart runs   *)
(* the same handlers as mouseDown, but sets no mouse responder.  The       *)
(* stacking of panels and the key responder are in Panels.                 *)
(***************************************************************************)
EXTENDS Integers, FiniteSets, FiniteSetsExt, Functions

CONSTANTS
    Windows,    \* sizes of the window, records of width and height
    Anchors,    \* anchors, records of left, top, width and height
    PanelSize   \* width and height of the panel's layout

Undefined == -9999      \* no number of pixels

Sides == {"below", "above", "right", "left"}

ASSUME FrameAssumption ==
    /\ Windows # {}
    /\ \A w \in Windows \cup {PanelSize} : w.width \in Nat /\ w.height \in Nat
    /\ \A a \in Anchors : {a.left, a.top, a.width, a.height} \subseteq Nat

VARIABLES
    kind,       \* "centered" (a panel with centerX and centerY), "panel" or "popover",
                \* both with an anchor
    keyed,      \* whether it has a layoutPersistenceKey
    reused,     \* whether it has destroyOnClose: false
    window,     \* the size of the window
    layout,     \* the panel's layout: left, top, centered, width, height, movedX, movedY
    style,      \* the style of its element when shown: left, top, centered, width, height
    shown,      \* isShown
    title,      \* the title view: its state, what it noted at the mouseDown, newX, newY
    thumb,      \* the resize view: its state, what it noted at the mouseDown
    stored      \* the panel's position in localStorage, {} or a singleton

frameVars == <<kind, keyed, reused, window, layout, style, shown, title, thumb, stored>>

-----------------------------------------------------------------------------
(* The layout and the element *)

FreshLayout ==
    [left |-> Undefined, top |-> Undefined, centered |-> kind = "centered",
     width |-> PanelSize.width, height |-> PanelSize.height,
     movedX |-> FALSE, movedY |-> FALSE]

FreshTitle == [state |-> "idle", pageX |-> 0, pageY |-> 0, panelX |-> 0, panelY |-> 0,
               limitX |-> 0, limitY |-> 0, newX |-> Undefined, newY |-> Undefined]

FreshThumb == [state |-> "idle", pageX |-> 0, pageY |-> 0, startW |-> 0, startH |-> 0]

\* _translateLayout: the style for a layout.
TranslateLayout(l) ==
    [left |-> l.left, top |-> l.top, centered |-> l.centered,
     width |-> l.width, height |-> l.height]

\* offset().left and top of an element with the style s: centerX and centerY
\* (both 0 here) make it 50% and a negative margin of half the size that the
\* layout had.  Without a left and a top the browser leaves it at the origin.
Offset(s, l) ==
    IF s.centered
    THEN [left |-> window.width \div 2 - l.width \div 2,
          top |-> window.height \div 2 - l.height \div 2]
    ELSE [left |-> IF s.left = Undefined THEN 0 ELSE s.left,
          top |-> IF s.top = Undefined THEN 0 ELSE s.top]

-----------------------------------------------------------------------------
(* Beside an anchor *)

Vertical == {"below", "above"}

Opposite(side) ==
    CASE side = "below" -> "above" [] side = "above" -> "below"
      [] side = "right" -> "left" [] side = "left" -> "right"

\* Panel._layoutRelativeTo: where the layout l goes on that side of anchor a;
\* middle is POSITION_MIDDLE.
BesideAnchor(l, a, side, middle) ==
    LET left == IF side \in Vertical
                THEN a.left + (IF middle THEN a.width \div 2 - l.width \div 2 ELSE 0)
                ELSE a.left + (IF side = "right" THEN a.width ELSE -l.width)
        top == IF side \in Vertical
               THEN a.top + (IF side = "below" THEN a.height ELSE -l.height)
               ELSE a.top + (IF middle THEN a.height \div 2 - l.height \div 2 ELSE 0)
    IN  [l EXCEPT !.left = left, !.top = top]

\* ... then kept within the viewport: moved to the left if it is too far to the
\* right; that it is too low or too high is only noted.
LayoutRelativeTo(l, a, side, middle) ==
    LET placed == BesideAnchor(l, a, side, middle)
        tooFar == placed.left + l.width > window.width - 10
        tooHigh == side = "above" /\ placed.top < 0
        tooLow == /\ side = "below"
                  /\ placed.top + l.height > window.height - 10
                  /\ a.top - l.height >= 0
    IN  [placed EXCEPT
            !.left = IF tooFar THEN window.width - l.width - 10 ELSE @,
            !.movedX = @ \/ tooFar,
            !.movedY = @ \/ tooLow \/ tooHigh,
            !.top = IF ~tooLow /\ ~tooHigh /\ @ < 0 THEN 10 ELSE @]

\* Mutant of FinalSide: the other side is tried whatever the direction in which
\* the popover did not fit.
FinalSideEither(l, side) == IF l.movedX \/ l.movedY THEN Opposite(side) ELSE side

\* Popover._layoutRelativeTo: the side it ends up on, given the first attempt.
FinalSide(l, side) ==
    IF (l.movedX /\ side \notin Vertical) \/ (l.movedY /\ side \in Vertical)
    THEN Opposite(side) ELSE side

\* ... where it makes room for the arrow.
PopoverLayout(l, a, side) ==
    LET first == LayoutRelativeTo(l, a, side, TRUE)
        final == FinalSide(first, side)
        placed == IF first.movedX \/ first.movedY
                  THEN LayoutRelativeTo(first, a, final, TRUE) ELSE first
    IN  CASE final = "above" -> [placed EXCEPT !.top = @ - 15]
          [] final = "below" -> [placed EXCEPT !.top = @ + 15]
          [] final = "left" -> [placed EXCEPT !.left = @ - 15]
          [] final = "right" -> [placed EXCEPT !.left = @ + 15]

-----------------------------------------------------------------------------
(* Showing and closing *)

\* Mutant of Restored: a centred panel stays centred.
RestoredCentered(l) ==
    IF keyed /\ stored # {}
    THEN LET p == CHOOSE p \in stored : TRUE IN [l EXCEPT !.left = p.left, !.top = p.top]
    ELSE l

\* popup restores the position from localStorage.
Restored(l) ==
    IF keyed /\ stored # {}
    THEN LET p == CHOOSE p \in stored : TRUE
         IN  [l EXCEPT !.left = p.left, !.top = p.top, !.centered = FALSE]
    ELSE l

\* popup with the layout l; the element is rendered from what that becomes.
PopupWith(l) ==
    /\ ~shown
    /\ shown' = TRUE
    /\ layout' = Restored(l)
    /\ style' = TranslateLayout(layout')
    /\ UNCHANGED <<kind, keyed, reused, window, title, thumb, stored>>

Popup == kind = "centered" /\ PopupWith(layout)

PopupBeside(a, side) ==
    /\ kind # "centered"
    /\ PopupWith(IF kind = "panel" THEN LayoutRelativeTo(layout, a, side, FALSE)
                                   ELSE PopoverLayout(layout, a, side))

\* close: the element goes; the next panel is a new one unless this one is
\* reused.  The statecharts are told nothing.
Close ==
    /\ shown
    /\ shown' = FALSE
    /\ IF reused
       THEN UNCHANGED <<layout, title, thumb>>
       ELSE layout' = FreshLayout /\ title' = FreshTitle /\ thumb' = FreshThumb
    /\ UNCHANGED <<kind, keyed, reused, window, style, stored>>

\* The page is loaded again: only localStorage survives.
Reload ==
    /\ shown' = FALSE
    /\ layout' = FreshLayout /\ title' = FreshTitle /\ thumb' = FreshThumb
    /\ UNCHANGED <<kind, keyed, reused, window, style, stored>>

\* The user changes the size of the window; nobody listens.
ResizeWindow(w) ==
    /\ w # window
    /\ window' = w
    /\ UNCHANGED <<kind, keyed, reused, layout, style, shown, title, thumb, stored>>

\* updateLayout, after the height of the layout was adjusted to h.
AdjustHeight(h) ==
    /\ layout' = [layout EXCEPT !.height = h]
    /\ style' = IF layout.height # h /\ shown THEN TranslateLayout(layout') ELSE style

-----------------------------------------------------------------------------
(* The title *)

\* mouseDown of idle, and enterState of moving: what is noted of the panel and
\* the window.
TitleMouseDown(x, y) ==
    LET offset == Offset(style, layout)
    IN  /\ title' = [title EXCEPT
                        !.state = "moving", !.pageX = x, !.pageY = y,
                        !.panelX = offset.left, !.panelY = offset.top,
                        !.limitX = window.width - style.width - 5,
                        !.limitY = window.height - style.height - 5]
        /\ UNCHANGED <<kind, keyed, reused, window, layout, style, shown, thumb, stored>>

Constrain(new, limit) == Max({5, Min({new, limit})})

\* mouseMove of moving
TitleMouseMove(x, y) ==
    LET newX == Constrain(title.panelX + (x - title.pageX), title.limitX)
        newY == Constrain(title.panelY + (y - title.pageY), title.limitY)
    IN  /\ title' = [title EXCEPT !.newX = newX, !.newY = newY]
        /\ style' = [style EXCEPT !.left = newX, !.top = newY, !.centered = FALSE]
        /\ UNCHANGED <<kind, keyed, reused, window, layout, shown, thumb, stored>>

\* The position exitState of moving saves.
SavedPosition == [left |-> title.newX, top |-> title.newY]

\* mouseUp of moving.  What was noted is not read again, except newX and newY when
\* there is a persistence key.
TitleMouseUp ==
    /\ title' = IF keyed THEN [FreshTitle EXCEPT !.newX = title.newX, !.newY = title.newY]
                         ELSE FreshTitle
    /\ stored' = IF keyed THEN {SavedPosition} ELSE stored
    /\ UNCHANGED <<kind, keyed, reused, window, layout, style, shown, thumb>>

-----------------------------------------------------------------------------
(* The resize thumb *)

MinSize == [width |-> 100, height |-> 52]

ThumbMouseDown(x, y) ==
    /\ thumb' = [state |-> "resizing", pageX |-> x, pageY |-> y,
                 startW |-> style.width, startH |-> style.height]
    /\ UNCHANGED <<kind, keyed, reused, window, layout, style, shown, title, stored>>

\* mouseMove of resizing
ThumbMouseMove(x, y) ==
    /\ style' = [style EXCEPT
                    !.width = Max({MinSize.width, thumb.startW + (x - thumb.pageX)}),
                    !.height = Max({MinSize.height, thumb.startH + (y - thumb.pageY)})]
    /\ UNCHANGED <<kind, keyed, reused, window, layout, shown, title, thumb, stored>>

ThumbMouseUp ==
    /\ thumb' = FreshThumb
    /\ UNCHANGED <<kind, keyed, reused, window, layout, style, shown, title, stored>>

FrameInit ==
    /\ layout = FreshLayout
    /\ style = TranslateLayout(FreshLayout)
    /\ shown = FALSE
    /\ title = FreshTitle
    /\ thumb = FreshThumb
    /\ stored = {}
=============================================================================
