---------------------------- MODULE TableEditing ----------------------------
(***************************************************************************)
(* Selecting, editing and pasting in a table (views/table_data_view.js):   *)
(* the statechart of TableDataView, driven by mouse, keys, the menu of a   *)
(* cell with options, the timer of a paste, rendering, and the loss of the *)
(* key responder status.  How cells are updated is in TableUpdates.        *)
(*                                                                         *)
(* One handler goes through several states of the statechart, with their   *)
(* enterState and exitState, so what they share is one record              *)
(*     [state, sel, end, range, key, text, shown, invalid, menu, data,     *)
(*      error]                                                             *)
(*   state      currentFlameState                                          *)
(*   sel, end   selectedCell and selectionEnd                              *)
(*   range      selectionEnd is another jQuery object than selectedCell,   *)
(*              which is what pasteValue takes for a range (also when it   *)
(*              is the same cell)                                          *)
(*   key        editValue, a key that is to start the edit field           *)
(*   text       what the edit field, or the read-only text, contains       *)
(*   shown      the edit field is visible;  invalid: it has that class     *)
(*   menu       the menu of options is open                                *)
(*   data       the values of the cells                                    *)
(*   error      a handler used the selected cell, and there was none       *)
(* A text that is pasted is given by its lines, and these by their fields,  *)
(* as newlines and tabs divide it; the option with a title has the title   *)
(* as its value.  The delegate's cellUpdated stores the value.  Positions  *)
(* on the screen and notifications of the selection are left out.          *)
(***************************************************************************)
EXTENDS Integers, Sequences, FiniteSets

CONSTANTS
    Rows, Columns,  \* numbers of rows and columns
    Kind,           \* "text", "options", "readOnly" or "loading", of each cell
    Values,         \* what can be typed or pasted
    Clipboard,      \* the texts that can be pasted: lines of fields
    Bad,            \* the values that do not validate
    Options,        \* the values of the fixed options
    Empty,          \* ''
    None,
    Environments    \* what may happen besides the usual, as sets of options:
                    \* "render" (the table is rendered again, also with an
                    \* open menu), "hurry" (input within 100 ms of a paste),
                    \* "rangePaste" (a paste into a range of cells) and
                    \* "optionKeys" (a character key on a cell with options)

Cells == (1 .. Rows) \X (1 .. Columns)

ASSUME TableEditingAssumption ==
    /\ Rows \in Nat \ {0} /\ Columns \in Nat \ {0}
    /\ Kind \in [Cells -> {"text", "options", "readOnly", "loading"}]
    /\ Bad \subseteq Values /\ Options \subseteq Values
    /\ Empty \notin Values /\ None \notin Values \cup {Empty} \cup Cells
    /\ Clipboard \subseteq Seq(Seq(Values \cup {Empty}))
    /\ \A lines \in Clipboard : lines # <<>> /\ \A i \in DOMAIN lines : lines[i] # <<>>
    /\ Environments \subseteq SUBSET {"render", "hurry", "rangePaste", "optionKeys"}

VARIABLES
    env,        \* the options of this behaviour
    tv,         \* the record described above
    responder,  \* the table is the current key responder
    pastes      \* the paste whose timer runs, if any: its lines, and what was
                \* selected

vars == <<env, tv, responder, pastes>>

HasData(c) == Kind[c] # "loading"
IsEditable(c) == Kind[c] \in {"text", "options"}
HasOptions(c) == Kind[c] = "options"

------------------------------------------------------------------------------
(* What the handlers call. *)

Fail(t) == [t EXCEPT !.error = TRUE]

\* Mutant of ExitState: the edit field stays visible.
ExitStateShowing(t) == IF t.state = "editing" THEN [t EXCEPT !.invalid = FALSE] ELSE t

ExitState(t) ==
    IF t.state = "editing" THEN [t EXCEPT !.shown = FALSE, !.invalid = FALSE] ELSE t

EditableValue(t) == IF t.key # None THEN t.key ELSE t.data[t.sel]

EnterState(t, new) ==
    LET s == [t EXCEPT !.state = new]
    IN  CASE new = "loaded" -> [s EXCEPT !.sel = None, !.end = None, !.range = FALSE]
          [] new = "selectingReadOnly" -> [s EXCEPT !.text = EditableValue(t)]
          [] new = "editing" /\ HasOptions(t.sel) -> [s EXCEPT !.menu = TRUE]
          [] new = "editing" /\ ~HasOptions(t.sel) ->
                 [s EXCEPT !.text = EditableValue(t), !.key = None, !.shown = TRUE]
          [] OTHER -> s

Goto(t, new) == IF t.state = new THEN t ELSE EnterState(ExitState(t), new)

\* selectCell, which does nothing for what is not a cell.
SelectCell(t, c) ==
    IF c \in Cells THEN [t EXCEPT !.sel = c, !.end = c, !.range = FALSE] ELSE t

\* Mutant of ValidateAndSet: the value is not validated.
SetWithoutValidating(t, c, v) == [t |-> [t EXCEPT !.data[c] = v], valid |-> TRUE]

ValidateAndSet(t, c, v) ==
    IF v = t.data[c] THEN [t |-> t, valid |-> TRUE]
    ELSE IF v \in Bad THEN [t |-> t, valid |-> FALSE]
    ELSE [t |-> [t EXCEPT !.data[c] = v], valid |-> TRUE]

\* _confirmEdit: with an invalid value the edit goes on.
ConfirmEdit(t) ==
    LET r == ValidateAndSet(t, t.sel, t.text)
    IN  [t |-> IF r.valid THEN r.t ELSE [t EXCEPT !.invalid = TRUE], valid |-> r.valid]

Next2(c, dir) ==
    CASE dir = "left"  -> <<c[1], c[2] - 1>>
      [] dir = "right" -> <<c[1], c[2] + 1>>
      [] dir = "up"    -> <<c[1] - 1, c[2]>>
      [] dir = "down"  -> <<c[1] + 1, c[2]>>

\* moveLeft and so on, in the state selected; there is no handler in others.
Move(t, dir) ==
    IF t.state # "selected" THEN t
    ELSE IF t.sel = None THEN Fail(t) ELSE SelectCell(t, Next2(t.sel, dir))

StartEdit(t) ==
    IF t.sel = None THEN Fail(t)
    ELSE IF ~HasData(t.sel) THEN t
    ELSE IF IsEditable(t.sel) THEN Goto([t EXCEPT !.end = t.sel, !.range = FALSE], "editing")
    ELSE IF ~HasOptions(t.sel) THEN Goto([t EXCEPT !.end = t.sel, !.range = FALSE], "selectingReadOnly")
    ELSE t

Between(a, b, x) == IF a <= b THEN x \in a .. b ELSE x \in b .. a

\* _forEachSelectedCell
SelectedCells(sel, end) ==
    {c \in Cells : Between(sel[1], end[1], c[1]) /\ Between(sel[2], end[2], c[2])}

Storable(c, v) == HasData(c) /\ IsEditable(c) /\ v \notin Bad

Single(lines) == Len(lines) = 1 /\ Len(lines[1]) = 1

Line(from, c) == c[1] - from[1] + 1
Column(from, c) == c[2] - from[2] + 1

\* The cells that the fields go to, from a cell to the right and downwards, as
\* far as the table has them; and the field for one of them.
Block(lines, from) ==
    {c \in Cells : /\ Line(from, c) \in DOMAIN lines
                   /\ Column(from, c) \in DOMAIN lines[Line(from, c)]}
Field(lines, from, c) == lines[Line(from, c)][Column(from, c)]

StoreBlock(t, lines, from) ==
    [t EXCEPT !.data = [c \in Cells |->
        IF /\ c \in Block(lines, from) /\ Storable(c, Field(lines, from, c))
           /\ HasOptions(c) => Field(lines, from, c) \in Options
        THEN Field(lines, from, c) ELSE t.data[c]]]

StoreInRange(t, v) ==
    [t EXCEPT !.data = [c \in Cells |->
        IF c \in SelectedCells(t.sel, t.end) /\ Storable(c, v) THEN v ELSE t.data[c]]]

\* Mutant of PasteValue: the fields go to the other end of the selection.
PasteAtEnd(t, lines) ==
    IF t.sel = None THEN Fail(t)
    ELSE IF Single(lines) /\ t.range THEN StoreInRange(t, lines[1][1])
    ELSE StoreBlock(t, lines, t.end)

\* pasteValue: one value goes to all cells of a range; only otherwise are the
\* options looked up.
PasteValue(t, lines) ==
    IF t.sel = None THEN Fail(t)
    ELSE IF Single(lines) /\ t.range THEN StoreInRange(t, lines[1][1])
    ELSE StoreBlock(t, lines, t.sel)

------------------------------------------------------------------------------
(* The steps. *)

Init ==
    /\ env \in Environments
    /\ tv = [state |-> "loaded", sel |-> None, end |-> None, range |-> FALSE,
             key |-> None, text |-> Empty, shown |-> FALSE, invalid |-> FALSE, menu |-> FALSE,
             data |-> [c \in Cells |-> Empty], error |-> FALSE]
    /\ responder = FALSE
    /\ pastes = <<>>

Patient == pastes = <<>> \/ "hurry" \in env

\* An event that the table handles; a menu takes the mouse and the keys.
Event(t) ==
    /\ Patient /\ ~tv.menu
    /\ tv' = t /\ UNCHANGED <<env, pastes>>

\* mouseDown on a cell.  The table becomes key responder.
MouseDown(c, shift) ==
    LET pressed(t) == Goto(SelectCell(t, c), "mouseIsDown")
        again      == tv.state = "selected" /\ tv.sel = c /\ HasOptions(c)
        confirmed  == ConfirmEdit(tv)
    IN  /\ responder' = TRUE
        /\ Event(CASE tv.state = "loaded" -> pressed(tv)
                   [] tv.state = "mouseIsDown" -> tv
                   [] tv.state = "selected" ->
                          IF again THEN StartEdit(tv)
                          ELSE IF shift THEN [tv EXCEPT !.end = c, !.range = TRUE]
                          ELSE pressed(Goto(tv, "loaded"))
                   [] tv.state = "selectingReadOnly" -> SelectCell(Goto(tv, "selected"), c)
                   [] tv.state = "editing" ->
                          IF confirmed.valid
                          THEN SelectCell(Goto(confirmed.t, "selected"), c)
                          ELSE confirmed.t)

MouseMove(c) ==
    /\ tv.state = "mouseIsDown"
    /\ Event([tv EXCEPT !.end = c, !.range = TRUE])
    /\ UNCHANGED responder

MouseUp ==
    /\ tv.state = "mouseIsDown"
    /\ Event(Goto(tv, "selected"))
    /\ UNCHANGED responder

DoubleClick ==
    /\ tv.state = "selected"
    /\ Event(StartEdit(tv))
    /\ UNCHANGED responder

Key(t) == responder /\ Event(t) /\ UNCHANGED responder

\* Arrow keys and Tab; while editing, left and right are the browser's.
MoveKey(dir) ==
    \/ tv.state = "selected" /\ Key(Move(tv, dir))
    \/ tv.state = "selectingReadOnly" /\ Key(Move(Goto(tv, "selected"), dir))

MoveAndModifySelection(dir) ==
    /\ tv.state = "selected"
    /\ Key(IF tv.end = None THEN Fail(tv)
           ELSE IF Next2(tv.end, dir) \in Cells
           THEN [tv EXCEPT !.end = Next2(tv.end, dir), !.range = TRUE]
           ELSE tv)

\* Enter, Tab and Shift-Tab while editing: the edit is confirmed first.
ConfirmKey(dir) ==
    /\ tv.state = "editing" /\ dir \in {"down", "left", "right"}
    /\ LET r == ConfirmEdit(tv)
       IN  Key(IF r.valid THEN Move(Goto(r.t, "selected"), dir) ELSE r.t)

InsertNewline ==
    \/ tv.state = "selected" /\ Key(StartEdit(tv))
    \/ tv.state = "selectingReadOnly" /\ Key(Move(Goto(tv, "selected"), "down"))

\* Backspace and Delete.
WipeCell ==
    /\ tv.state = "selected"
    /\ Key(IF tv.sel = None THEN Fail(tv)
           ELSE IF IsEditable(tv.sel) THEN ValidateAndSet(tv, tv.sel, Empty).t
           ELSE tv)

DeleteBackward ==
    /\ tv.state = "selectingReadOnly"
    /\ Key(Goto(tv, "selected"))

\* keyPress: the key becomes editValue.
KeyPress(v) ==
    /\ tv.state = "selected"
    /\ tv.sel # None => (HasOptions(tv.sel) => "optionKeys" \in env)
    /\ Key(IF tv.sel = None THEN Fail(tv)
           ELSE IF IsEditable(tv.sel) THEN StartEdit([tv EXCEPT !.key = v])
           ELSE tv)

\* The user changes the text in the edit field.
TypeText(v) ==
    /\ tv.state = "editing" /\ tv.shown
    /\ Key([tv EXCEPT !.text = v])

\* Escape; in the state selected it resigns the key responder status.
Cancel ==
    /\ responder /\ tv.state \in {"selected", "selectingReadOnly", "editing"}
    /\ Event(Goto(tv, IF tv.state = "selected" THEN "loaded" ELSE "selected"))
    /\ responder' = (tv.state # "selected")

\* Something else becomes key responder: willLoseKeyResponder.
LoseKeyResponder ==
    /\ responder
    /\ Event(Goto(tv, "loaded"))
    /\ responder' = FALSE

\* The menu of options closes without a choice.
CloseMenu ==
    /\ tv.menu /\ Patient
    /\ tv' = [Goto(tv, "selected") EXCEPT !.menu = FALSE]
    /\ UNCHANGED <<env, responder, pastes>>

\* The menu closes, and then its action calls didSelectMenuItem.
DidSelectMenuItem(v) ==
    /\ tv.menu /\ Patient
    /\ LET closed == [Goto(tv, "selected") EXCEPT !.menu = FALSE, !.text = v]
       IN  tv' = IF closed.sel = None THEN Fail(closed)
                 ELSE Move(ConfirmEdit(closed).t, "down")
    /\ UNCHANGED <<env, responder, pastes>>

\* The paste event; the value is pasted 100 ms later.
Paste(lines) ==
    /\ responder /\ tv.state = "selected" /\ tv.sel # None /\ HasData(tv.sel) /\ ~tv.menu
    /\ pastes = <<>>
    /\ tv.range => "rangePaste" \in env
    /\ pastes' = <<[lines |-> lines, sel |-> tv.sel, end |-> tv.end, range |-> tv.range]>>
    /\ UNCHANGED <<env, tv, responder>>

PasteTimer ==
    /\ pastes # <<>>
    /\ tv' = PasteValue(tv, pastes[1].lines)
    /\ pastes' = <<>>
    /\ UNCHANGED <<env, responder>>

\* The table is rendered again, for new content.
Render ==
    /\ "render" \in env
    /\ Patient
    /\ tv' = Goto(tv, "loaded")
    /\ UNCHANGED <<env, responder, pastes>>

Directions == {"left", "right", "up", "down"}

Next ==
    \/ \E c \in Cells : \/ \E shift \in BOOLEAN : MouseDown(c, shift)
                        \/ MouseMove(c)
    \/ MouseUp \/ DoubleClick
    \/ \E dir \in Directions :
          MoveKey(dir) \/ MoveAndModifySelection(dir) \/ ConfirmKey(dir)
    \/ InsertNewline \/ WipeCell \/ DeleteBackward
    \/ \E v \in Values : KeyPress(v) \/ TypeText(v)
    \/ Cancel \/ LoseKeyResponder
    \/ CloseMenu \/ \E v \in Options : DidSelectMenuItem(v)
    \/ \E lines \in Clipboard : Paste(lines)
    \/ PasteTimer
    \/ Render

Spec == Init /\ [][Next]_vars

------------------------------------------------------------------------------
(* Properties. *)

States == {"loaded", "mouseIsDown", "selected", "selectingReadOnly", "editing"}

\* Every variable has its type.
TypeOK ==
    /\ env \in Environments
    /\ tv \in [state : States, sel : Cells \cup {None}, end : Cells \cup {None},
               range : BOOLEAN, key : Values \cup {None}, text : Values \cup {Empty},
               shown : BOOLEAN, invalid : BOOLEAN, menu : BOOLEAN,
               data : [Cells -> Values \cup {Empty}], error : BOOLEAN]
    /\ responder \in BOOLEAN
    /\ Len(pastes) \in {0, 1}

\* A cell is selected in exactly the states that use it, so that no handler
\* (and no timer) looks for the selected cell in vain.  The menu's action and
\* the timer of a paste do, if the table was rendered or left meanwhile.
\* Variables have their types.
SelectionFollowsState ==
    /\ TypeOK
    /\ env \cap {"render", "hurry"} = {} =>
          /\ (tv.state = "loaded") = (tv.sel = None)
          /\ (tv.sel = None) = (tv.end = None)
          /\ ~tv.error

\* The edit field is visible only while an editable text cell is edited, the
\* menu is open only while a cell with options is, and one of them is there
\* then: whatever ends the edit cleans up, except that rendering leaves the
\* menu open.  The text for selecting from a read-only cell is that of the cell
\* and no key is left for the next edit, unless one has opened a menu.
EditorMatchesState == "render" \notin env =>
    /\ tv.shown = (tv.state = "editing" /\ Kind[tv.sel] = "text")
    /\ tv.menu = (tv.state = "editing" /\ Kind[tv.sel] = "options")
    /\ tv.invalid => tv.shown
    /\ tv.state = "editing" => tv.sel = tv.end /\ ~tv.range
    /\ "optionKeys" \notin env =>
          /\ tv.state = "selectingReadOnly" => tv.text = tv.data[tv.sel]
          /\ tv.state \in {"loaded", "selected"} => tv.key = None

\* Together: the selection and the editor follow the state, whichever of the
\* keys, clicks, timers and menus brought it about.
EditorAndSelectionMatchState == SelectionFollowsState /\ EditorMatchesState

\* No value that does not validate is stored, by an edit, a key or a paste, and
\* a cell that is not editable never changes.  A cell with options contains one
\* of them or nothing; only a single value that lands in a range is not looked up.
OnlyValidEdits ==
    \A c \in Cells :
        /\ tv.data[c] \notin Bad
        /\ ~IsEditable(c) => tv.data[c] = Empty
        /\ HasOptions(c) /\ env \cap {"rangePaste", "hurry"} = {} =>
              tv.data[c] \in Options \cup {Empty}

PasteArea(p) ==
    IF Single(p.lines) /\ p.range THEN SelectedCells(p.sel, p.end) ELSE Block(p.lines, p.sel)

PastedInto(p, c) ==
    IF Single(p.lines) /\ p.range THEN p.lines[1][1] ELSE Field(p.lines, p.sel, c)

\* A paste goes where it was made, though it is stored 100 ms later: to the cells
\* from the one selected then to the right and downwards, or to the range if it
\* is one value.  Each of them gets its own field, or stays as it is; a text cell
\* gets it whenever it validates.  That is so if the user waits for it, and also
\* after hurried input if that has left, or made again, the same selection.
PasteLandsWhereMade ==
    [][(/\ pastes # <<>> /\ pastes' = <<>>
        /\ \/ "hurry" \notin env
           \/ <<tv.sel, tv.end, tv.range>> = <<pastes[1].sel, pastes[1].end, pastes[1].range>>) =>
        \A c \in Cells :
            /\ tv'.data[c] # tv.data[c] =>
                  c \in PasteArea(pastes[1]) /\ tv'.data[c] = PastedInto(pastes[1], c)
            /\ (/\ c \in PasteArea(pastes[1]) /\ Kind[c] = "text"
                /\ PastedInto(pastes[1], c) \notin Bad) =>
                  tv'.data[c] = PastedInto(pastes[1], c)]_vars
=============================================================================
