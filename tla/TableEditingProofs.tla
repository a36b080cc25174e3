------------------------- MODULE TableEditingProofs -------------------------
(***************************************************************************)
(* Invariance proofs for TableEditing, for any table, values, options and  *)
(* environments.                                                           *)
(*                                                                         *)
(* Handlers turn the record tv into another by one or more of the          *)
(* operators of the module, so most of the invariant is a predicate on     *)
(* records, Sound, which each of these operators keeps.                    *)
(***************************************************************************)
EXTENDS TableEditing, TLAPS

Selections == Cells \cup {None}
Texts == Values \cup {Empty}

Record == [state : States, sel : Selections, end : Selections,
           range : BOOLEAN, key : Values \cup {None}, text : Texts,
           shown : BOOLEAN, invalid : BOOLEAN, menu : BOOLEAN,
           data : [Cells -> Texts], error : BOOLEAN]

-----------------------------------------------------------------------------
(* The inductive invariant *)

\* Where a cell must be selected, and of which kind: only the state selected
\* may be without one, after a menu was closed over a table rendered again.
SelectionSound(t) ==
    /\ t.state = "loaded" <=> t.sel = None /\ t.state # "selected"
    /\ t.end = None => t.sel = None
    /\ t.state = "editing" => IsEditable(t.sel) /\ t.sel = t.end /\ ~t.range
    /\ t.state = "selectingReadOnly" => Kind[t.sel] = "readOnly"
    /\ "render" \notin env =>
          /\ t.state = "selected" => t.sel # None
          /\ t.sel = None => t.end = None

\* The edit field is there for a text cell, the menu for one with options or as
\* a leftover of a table that was rendered again.
EditorSound(t) ==
    /\ t.shown <=> t.state = "editing" /\ Kind[t.sel] = "text"
    /\ t.state = "editing" /\ Kind[t.sel] = "options" => t.menu
    /\ t.menu => \/ t.state = "editing" /\ Kind[t.sel] = "options"
                 \/ t.state = "loaded" /\ "render" \in env
    /\ Options \cap Bad = {} => (t.invalid => t.shown)

\* Only a key on a cell with options is left over for a later edit.
KeySound(t) ==
    "optionKeys" \notin env =>
        /\ t.key = None
        /\ t.state = "selectingReadOnly" => t.text = t.data[t.sel]

\* The values of the cells.
DataSound(t) ==
    \A c \in Cells :
        /\ t.data[c] \notin Bad
        /\ ~IsEditable(c) => t.data[c] = Empty
        /\ HasOptions(c) /\ env \cap {"rangePaste", "hurry"} = {} =>
              t.data[c] \in Options \cup {Empty}

\* No handler fails to find the selected cell.
NoFailure(t) == env \cap {"render", "hurry"} = {} => ~t.error

Sound(t) ==
    /\ t \in Record
    /\ SelectionSound(t) /\ EditorSound(t) /\ KeySound(t) /\ DataSound(t) /\ NoFailure(t)

PasteType == [lines : Clipboard, sel : Cells, end : Selections, range : BOOLEAN]

\* While the user waits for a paste, the selection stays what it was.
PasteInv ==
    /\ pastes = <<>> \/ \E p \in PasteType : pastes = <<p>>
    /\ pastes # <<>> /\ "hurry" \notin env =>
          /\ tv.state = "selected" /\ tv.sel = pastes[1].sel /\ tv.end = pastes[1].end
          /\ tv.range = pastes[1].range
          /\ tv.range => "rangePaste" \in env

EditInv == env \in Environments /\ responder \in BOOLEAN /\ Sound(tv) /\ PasteInv

-----------------------------------------------------------------------------
(* What the handlers call *)

\* Leaving a state hides the edit field, and changes nothing else.
LEMMA ExitFields ==
    ASSUME NEW t, Sound(t)
    PROVE  LET x == ExitState(t)
           IN  /\ x \in Record
               /\ x.state = t.state /\ x.sel = t.sel /\ x.end = t.end /\ x.range = t.range
               /\ x.key = t.key /\ x.text = t.text /\ x.menu = t.menu /\ x.data = t.data
               /\ x.error = t.error
               /\ ~x.shown
               /\ Options \cap Bad = {} => ~x.invalid
  <1>1. t \in Record /\ EditorSound(t)
    BY DEF Sound
  <1>2. CASE t.state = "editing"
    <2>1. ExitState(t) = [t EXCEPT !.shown = FALSE, !.invalid = FALSE]
      BY <1>2 DEF ExitState
    <2>2. QED BY <1>1, <2>1 DEF Record
  <1>3. CASE t.state # "editing"
    BY <1>1, <1>3 DEF ExitState, EditorSound
  <1>4. QED BY <1>2, <1>3

\* No cell is selected in the state loaded.
LEMMA GotoLoaded ==
    ASSUME NEW t, Sound(t), t.menu => "render" \in env
    PROVE  Sound(Goto(t, "loaded")) /\ Goto(t, "loaded").state = "loaded"
           /\ (Goto(t, "loaded").menu => t.menu)
  <1>1. CASE t.state = "loaded"
    BY <1>1 DEF Goto
  <1>2. CASE t.state # "loaded"
    <2> DEFINE x == ExitState(t)
               g == [x EXCEPT !.state = "loaded", !.sel = None, !.end = None, !.range = FALSE]
    <2>1. Goto(t, "loaded") = g
      BY <1>2 DEF Goto, EnterState
    <2>2. /\ x \in Record /\ x.key = t.key /\ x.text = t.text /\ x.data = t.data /\ ~x.shown
          /\ x.menu = t.menu /\ x.error = t.error
          /\ Options \cap Bad = {} => ~x.invalid
      BY ExitFields
    <2> HIDE DEF x
    <2>3. /\ g \in Record
          /\ g.state = "loaded" /\ g.sel = None /\ g.end = None /\ g.key = x.key /\ g.text = x.text
          /\ g.shown = x.shown /\ g.invalid = x.invalid /\ g.menu = x.menu
          /\ g.data = x.data /\ g.error = x.error
      BY <2>2 DEF Record, States, Selections
    <2> HIDE DEF g
    <2>4. SelectionSound(g) /\ EditorSound(g) /\ KeySound(g)
      BY <2>2, <2>3 DEF SelectionSound, EditorSound, Sound, KeySound
    <2>5. DataSound(g) /\ NoFailure(g)
      BY <2>2, <2>3 DEF Sound, DataSound, NoFailure
    <2>6. QED BY <2>1, <2>2, <2>3, <2>4, <2>5 DEF Sound
  <1>3. QED BY <1>1, <1>2

\* The state selected, with the menu closed if there was one.
LEMMA GotoSelected ==
    ASSUME NEW t, Sound(t), t.state = "loaded" => "render" \in env,
           NEW s, s = IF t.menu THEN [Goto(t, "selected") EXCEPT !.menu = FALSE]
                                ELSE Goto(t, "selected")
    PROVE  /\ Sound(s) /\ s.state = "selected" /\ ~s.menu
           /\ s.sel = t.sel /\ s.end = t.end /\ s.data = t.data /\ s.text = t.text /\ s.key = t.key
  <1> DEFINE x == ExitState(t)
             g == [x EXCEPT !.state = "selected"]
  <1>1. t \in Record /\ (t.state = "selected" => ~t.menu)
    BY DEF Sound, EditorSound
  <1>2. CASE t.state = "selected"
    BY <1>1, <1>2 DEF Goto
  <1>3. CASE t.state # "selected"
    <2>1. Goto(t, "selected") = g
      BY <1>3 DEF Goto, EnterState
    <2>2. /\ x \in Record /\ x.sel = t.sel /\ x.end = t.end
          /\ x.key = t.key /\ x.text = t.text /\ x.data = t.data /\ ~x.shown
          /\ x.menu = t.menu /\ x.error = t.error
          /\ Options \cap Bad = {} => ~x.invalid
      BY ExitFields
    <2> HIDE DEF x
    <2>3. /\ s \in Record
          /\ s.state = "selected" /\ s.sel = x.sel /\ s.end = x.end /\ s.key = x.key /\ s.text = x.text
          /\ s.shown = x.shown /\ s.invalid = x.invalid /\ ~s.menu
          /\ s.data = x.data /\ s.error = x.error
      <3>1. CASE t.menu
        <4>1. s = [g EXCEPT !.menu = FALSE]
          BY <2>1, <3>1
        <4>2. QED BY <2>2, <4>1 DEF Record, States
      <3>2. CASE ~t.menu
        <4>1. s = g
          BY <2>1, <3>2
        <4>2. QED BY <2>2, <3>2, <4>1 DEF Record, States
      <3>3. QED BY <3>1, <3>2
    <2>4. SelectionSound(s) /\ EditorSound(s) /\ KeySound(s)
      BY <2>2, <2>3, <1>3, <1>1 DEF SelectionSound, EditorSound, Sound, KeySound, Record, States
    <2>5. DataSound(s) /\ NoFailure(s)
      BY <2>2, <2>3 DEF Sound, DataSound, NoFailure
    <2>6. QED BY <2>2, <2>3, <2>4, <2>5 DEF Sound
  <1>4. QED BY <1>2, <1>3

\* selectCell in the state selected.
LEMMA SelectKeeps ==
    ASSUME NEW t, Sound(t), t.state = "selected", NEW c
    PROVE  /\ Sound(SelectCell(t, c)) /\ SelectCell(t, c).state = "selected"
           /\ (SelectCell(t, c).menu => t.menu)
  <1> DEFINE g == [t EXCEPT !.sel = c, !.end = c, !.range = FALSE]
  <1>1. CASE c \notin Cells
    BY <1>1 DEF SelectCell
  <1>2. CASE c \in Cells
    <2>1. SelectCell(t, c) = g
      BY <1>2 DEF SelectCell
    <2>2. t \in Record
      BY DEF Sound
    <2>3. /\ g \in Record
          /\ g.state = t.state /\ g.sel = c /\ g.end = c /\ g.key = t.key /\ g.text = t.text
          /\ g.shown = t.shown /\ g.invalid = t.invalid /\ g.menu = t.menu
          /\ g.data = t.data /\ g.error = t.error
      BY <1>2, <2>2 DEF Record, Selections
    <2> HIDE DEF g
    <2>4. c # None
      BY <1>2, TableEditingAssumption
    <2>5. SelectionSound(g) /\ EditorSound(g) /\ KeySound(g)
      BY <2>3, <2>4 DEF SelectionSound, EditorSound, Sound, KeySound
    <2>6. DataSound(g) /\ NoFailure(g)
      BY <2>3 DEF Sound, DataSound, NoFailure
    <2>7. QED BY <2>1, <2>3, <2>5, <2>6 DEF Sound
  <1>3. QED BY <1>1, <1>2

\* The mouse is pressed on a cell of a table without a selection.
LEMMA PressKeeps ==
    ASSUME NEW t, Sound(t), t.state = "loaded", ~t.menu, NEW c \in Cells
    PROVE  Sound(Goto(SelectCell(t, c), "mouseIsDown"))
  <1> DEFINE s == [t EXCEPT !.sel = c, !.end = c, !.range = FALSE]
             g == [s EXCEPT !.state = "mouseIsDown"]
  <1>1. t \in Record
    BY DEF Sound
  <1>2. SelectCell(t, c) = s /\ s.state = "loaded"
    BY <1>1 DEF SelectCell, Record
  <1>3. Goto(SelectCell(t, c), "mouseIsDown") = g
    BY <1>2 DEF Goto, ExitState, EnterState
  <1>4. /\ g \in Record
        /\ g.state = "mouseIsDown" /\ g.sel = c /\ g.end = c /\ g.key = t.key /\ g.text = t.text
        /\ g.shown = t.shown /\ g.invalid = t.invalid /\ g.menu = t.menu
        /\ g.data = t.data /\ g.error = t.error
    BY <1>1 DEF Record, Selections, States
  <1> HIDE DEF g, s
  <1>5. c # None
    BY TableEditingAssumption
  <1>6. SelectionSound(g) /\ EditorSound(g) /\ KeySound(g)
    BY <1>4, <1>5 DEF SelectionSound, EditorSound, Sound, KeySound
  <1>7. DataSound(g) /\ NoFailure(g)
    BY <1>4 DEF Sound, DataSound, NoFailure
  <1>8. QED BY <1>3, <1>4, <1>6, <1>7 DEF Sound

\* The selection is extended to a cell.
LEMMA ExtendKeeps ==
    ASSUME NEW t, Sound(t), t.state \in {"selected", "mouseIsDown"}, NEW c \in Cells
    PROVE  Sound([t EXCEPT !.end = c, !.range = TRUE])
  <1> DEFINE g == [t EXCEPT !.end = c, !.range = TRUE]
  <1>1. t \in Record
    BY DEF Sound
  <1>2. /\ g \in Record
        /\ g.state = t.state /\ g.sel = t.sel /\ g.end = c /\ g.key = t.key /\ g.text = t.text
        /\ g.shown = t.shown /\ g.invalid = t.invalid /\ g.menu = t.menu
        /\ g.data = t.data /\ g.error = t.error
    BY <1>1 DEF Record, Selections
  <1> HIDE DEF g
  <1>3. c # None
    BY TableEditingAssumption
  <1>4. SelectionSound(g) /\ EditorSound(g) /\ KeySound(g)
    BY <1>2, <1>3 DEF SelectionSound, EditorSound, Sound, KeySound
  <1>5. DataSound(g) /\ NoFailure(g)
    BY <1>2 DEF Sound, DataSound, NoFailure
  <1>6. QED BY <1>2, <1>4, <1>5 DEF Sound, g

\* A handler that finds no selected cell, which takes a table that was rendered
\* again, or left before the timer of a paste ran.
LEMMA FailKeeps ==
    ASSUME NEW t, Sound(t), "render" \in env \/ "hurry" \in env
    PROVE  Sound(Fail(t)) /\ Fail(t).state = t.state /\ (Fail(t).menu => t.menu)
  <1> DEFINE g == [t EXCEPT !.error = TRUE]
  <1>1. t \in Record
    BY DEF Sound
  <1>2. /\ g \in Record
        /\ g.state = t.state /\ g.sel = t.sel /\ g.end = t.end /\ g.key = t.key /\ g.text = t.text
        /\ g.shown = t.shown /\ g.invalid = t.invalid /\ g.menu = t.menu
        /\ g.data = t.data /\ g.range = t.range
    BY <1>1 DEF Record
  <1> HIDE DEF g
  <1>3. SelectionSound(g) /\ EditorSound(g) /\ KeySound(g)
    BY <1>2 DEF SelectionSound, EditorSound, Sound, KeySound
  <1>4. DataSound(g) /\ NoFailure(g)
    BY <1>2 DEF Sound, DataSound, NoFailure
  <1>5. QED BY <1>2, <1>3, <1>4 DEF Sound, Fail, g

\* Arrow keys.
LEMMA MoveKeeps ==
    ASSUME NEW t, Sound(t), NEW dir
    PROVE  Sound(Move(t, dir)) /\ (Move(t, dir).menu => t.menu)
  <1>1. CASE t.state # "selected"
    BY <1>1 DEF Move
  <1>2. CASE t.state = "selected" /\ t.sel = None
    <2>1. "render" \in env
      BY <1>2 DEF Sound, SelectionSound
    <2>2. QED BY <1>2, <2>1, FailKeeps DEF Move
  <1>3. CASE t.state = "selected" /\ t.sel # None
    <2>1. Move(t, dir) = SelectCell(t, Next2(t.sel, dir))
      BY <1>3 DEF Move
    <2>2. QED BY <1>3, <2>1, SelectKeeps
  <1>4. QED BY <1>1, <1>2, <1>3

\* An edit starts, or the text of a read-only cell can be selected.  A key that
\* was pressed becomes the text.
LEMMA StartEditKeeps ==
    ASSUME NEW s, Sound(s), s.state = "selected", ~s.menu, NEW k \in Values \cup {None},
           NEW t, t = [s EXCEPT !.key = k],
           "optionKeys" \notin env =>
              k = None \/ (s.sel \in Cells /\ Kind[s.sel] = "text")
    PROVE  Sound(StartEdit(t)) \/ (StartEdit(t) = t /\ (s.sel = None \/ ~IsEditable(s.sel)))
  <1>1. s \in Record /\ t \in Record
    BY DEF Sound, Record
  <1>2. /\ t.state = "selected" /\ t.sel = s.sel /\ t.end = s.end /\ t.key = k /\ t.text = s.text
        /\ t.shown = s.shown /\ t.invalid = s.invalid /\ t.menu = s.menu
        /\ t.data = s.data /\ t.error = s.error
    BY <1>1 DEF Record
  <1>3. CASE s.sel = None
    <2>1. "render" \in env
      BY <1>3 DEF Sound, SelectionSound
    <2>2. StartEdit(t) = Fail(t)
      BY <1>2, <1>3 DEF StartEdit
    <2>3. "optionKeys" \notin env => k = None
      BY <1>3, TableEditingAssumption
    <2>4. SelectionSound(t) /\ EditorSound(t) /\ KeySound(t) /\ DataSound(t) /\ NoFailure(t)
      BY <1>2, <2>1, <2>3 DEF SelectionSound, EditorSound, Sound, KeySound, DataSound, NoFailure
    <2>5. QED BY <1>1, <2>1, <2>2, <2>4, FailKeeps DEF Sound
  <1> DEFINE o == [t EXCEPT !.end = t.sel, !.range = FALSE]
  <1>4. CASE s.sel # None
    <2>0. s.sel \in Cells
      BY <1>1, <1>4 DEF Record, Selections
    <2>1. Kind[s.sel] \in {"text", "options", "readOnly", "loading"}
      BY <2>0, TableEditingAssumption
    <2>2. /\ o \in Record
          /\ o.state = "selected" /\ o.sel = s.sel /\ o.end = s.sel /\ ~o.range
          /\ o.key = k /\ o.text = s.text
          /\ o.shown = s.shown /\ o.invalid = s.invalid /\ o.menu = s.menu
          /\ o.data = s.data /\ o.error = s.error
      BY <1>1, <1>2 DEF Record
    <2>3. CASE Kind[s.sel] = "loading"
      BY <1>2, <1>4, <2>3 DEF StartEdit, HasData, IsEditable
    <2>4. Kind[s.sel] # "loading" =>
             StartEdit(t) = IF IsEditable(s.sel) THEN Goto(o, "editing")
                                                 ELSE Goto(o, "selectingReadOnly")
      BY <1>2, <1>4, <2>1 DEF StartEdit, HasData, HasOptions, IsEditable
    <2> HIDE DEF o
    <2>5. EditableValue(o) \in Texts /\ (k = None => EditableValue(o) = s.data[s.sel])
      <3>1. s.data[s.sel] \in Texts
        BY <1>1, <2>0 DEF Record
      <3>2. QED BY <2>2, <3>1 DEF EditableValue, Texts
    <2>6. CASE Kind[s.sel] = "options"
      <3> DEFINE g == [o EXCEPT !.state = "editing", !.menu = TRUE]
      <3>1. StartEdit(t) = g
        BY <2>2, <2>4, <2>6 DEF Goto, ExitState, EnterState, HasOptions, IsEditable
      <3>2. /\ g \in Record
            /\ g.state = "editing" /\ g.sel = s.sel /\ g.end = s.sel /\ ~g.range
            /\ g.key = k /\ g.text = s.text
            /\ g.shown = s.shown /\ g.invalid = s.invalid /\ g.menu
            /\ g.data = s.data /\ g.error = s.error
        BY <2>2 DEF Record, States
      <3> HIDE DEF g
      <3>3. "optionKeys" \notin env => k = None
        BY <2>6
      <3>4. SelectionSound(g) /\ EditorSound(g) /\ KeySound(g)
        BY <1>4, <2>6, <3>2, <3>3 DEF SelectionSound, EditorSound, Sound, KeySound, IsEditable
      <3>5. DataSound(g) /\ NoFailure(g)
        BY <3>2 DEF Sound, DataSound, NoFailure
      <3>6. QED BY <3>1, <3>2, <3>4, <3>5 DEF Sound
    <2>7. CASE Kind[s.sel] = "text"
      <3> DEFINE e == EditableValue(o)
                 g == [o EXCEPT !.state = "editing", !.text = e, !.key = None, !.shown = TRUE]
      <3>1. StartEdit(t) = g
        BY <2>2, <2>4, <2>7 DEF Goto, ExitState, EnterState, HasOptions, IsEditable
      <3> HIDE DEF e
      <3>2. /\ g \in Record
            /\ g.state = "editing" /\ g.sel = s.sel /\ g.end = s.sel /\ ~g.range
            /\ g.key = None /\ g.text = e
            /\ g.shown /\ g.invalid = s.invalid /\ g.menu = s.menu
            /\ g.data = s.data /\ g.error = s.error
        BY <2>2, <2>5 DEF Record, States, e
      <3> HIDE DEF g
      <3>4. SelectionSound(g) /\ EditorSound(g) /\ KeySound(g)
        BY <1>4, <2>7, <3>2 DEF SelectionSound, EditorSound, Sound, KeySound, IsEditable
      <3>5. DataSound(g) /\ NoFailure(g)
        BY <3>2 DEF Sound, DataSound, NoFailure
      <3>6. QED BY <3>1, <3>2, <3>4, <3>5 DEF Sound
    <2>8. CASE Kind[s.sel] = "readOnly"
      <3> DEFINE e == EditableValue(o)
                 g == [o EXCEPT !.state = "selectingReadOnly", !.text = e]
      <3>1. StartEdit(t) = g
        BY <2>2, <2>4, <2>8 DEF Goto, ExitState, EnterState, HasOptions, IsEditable
      <3> HIDE DEF e
      <3>2. /\ g \in Record
            /\ g.state = "selectingReadOnly" /\ g.sel = s.sel /\ g.end = s.sel /\ ~g.range
            /\ g.key = k /\ g.text = e
            /\ g.shown = s.shown /\ g.invalid = s.invalid /\ g.menu = s.menu
            /\ g.data = s.data /\ g.error = s.error
        BY <2>2, <2>5 DEF Record, States, e
      <3> HIDE DEF g
      <3>3. "optionKeys" \notin env => k = None /\ e = s.data[s.sel]
        BY <2>5, <2>8 DEF e
      <3>4. SelectionSound(g) /\ EditorSound(g) /\ KeySound(g)
        BY <1>4, <2>8, <3>2, <3>3 DEF SelectionSound, EditorSound, Sound, KeySound
      <3>5. DataSound(g) /\ NoFailure(g)
        BY <3>2 DEF Sound, DataSound, NoFailure
      <3>6. QED BY <3>1, <3>2, <3>4, <3>5 DEF Sound
    <2>9. QED BY <2>1, <2>3, <2>6, <2>7, <2>8
  <1>5. QED BY <1>3, <1>4

\* A value is stored in an editable cell, if it validates.
LEMMA StoreKeeps ==
    ASSUME NEW t, Sound(t), NEW c \in Cells, NEW v \in Texts, IsEditable(c),
           HasOptions(c) => v \in Options \cup {Empty}
    PROVE  LET r == ValidateAndSet(t, c, v)
           IN  /\ Sound(r.t) /\ r.valid \in BOOLEAN /\ (v \notin Bad => r.valid)
               /\ r.t.state = t.state /\ r.t.sel = t.sel /\ (r.t.menu <=> t.menu)
               /\ r.t.end = t.end
  <1> DEFINE d == [t.data EXCEPT ![c] = v]
             g == [t EXCEPT !.data = d]
  <1>1. t \in Record /\ t.data \in [Cells -> Texts]
    BY DEF Sound, Record
  <1>2. \/ ValidateAndSet(t, c, v) = [t |-> t, valid |-> TRUE]
        \/ v \in Bad /\ ValidateAndSet(t, c, v) = [t |-> t, valid |-> FALSE]
        \/ v \notin Bad /\ ValidateAndSet(t, c, v) = [t |-> g, valid |-> TRUE]
    BY DEF ValidateAndSet
  <1>3. d \in [Cells -> Texts] /\ d[c] = v /\ \A x \in Cells \ {c} : d[x] = t.data[x]
    BY <1>1
  <1> HIDE DEF d
  <1>4. /\ g \in Record
        /\ g.state = t.state /\ g.sel = t.sel /\ g.end = t.end /\ g.key = t.key /\ g.text = t.text
        /\ g.shown = t.shown /\ g.invalid = t.invalid /\ g.menu = t.menu
        /\ g.data = d /\ g.error = t.error /\ g.range = t.range
    BY <1>1, <1>3 DEF Record
  <1> HIDE DEF g
  <1>5. ASSUME v \notin Bad PROVE Sound(g)
    <2>1. SelectionSound(g) /\ EditorSound(g) /\ NoFailure(g)
      BY <1>4 DEF SelectionSound, EditorSound, Sound, NoFailure
    <2>2. t.state = "selectingReadOnly" => t.sel # c /\ t.sel \in Cells
      BY <1>1 DEF Sound, SelectionSound, IsEditable, Record, Selections
    <2>3. KeySound(g)
      BY <1>3, <1>4, <2>2 DEF Sound, KeySound
    <2>4. DataSound(g)
      BY <1>3, <1>4, <1>5 DEF Sound, DataSound
    <2>5. QED BY <1>4, <2>1, <2>3, <2>4 DEF Sound
  <1> DEFINE r == ValidateAndSet(t, c, v)
             Result(x, b) == [t |-> x, valid |-> b]
  <1>11. ASSUME NEW x, NEW b PROVE Result(x, b).t = x /\ Result(x, b).valid = b
    OBVIOUS
  <1>12. \/ r = Result(t, TRUE)
         \/ v \in Bad /\ r = Result(t, FALSE)
         \/ v \notin Bad /\ r = Result(g, TRUE)
    BY <1>2, Zenon
  <1> HIDE DEF r, Result
  <1>6. r.t = t \/ (r.t = g /\ v \notin Bad)
    <2>1. CASE r = Result(t, TRUE)
      BY <1>11, <2>1
    <2>2. CASE r = Result(t, FALSE)
      BY <1>11, <2>2
    <2>3. CASE v \notin Bad /\ r = Result(g, TRUE)
      BY <1>11, <2>3
    <2>4. QED BY <1>12, <2>1, <2>2, <2>3
  <1>7. r.valid \in BOOLEAN /\ (v \notin Bad => r.valid)
    <2>1. CASE r = Result(t, TRUE) \/ r = Result(g, TRUE)
      <3>1. r.valid = TRUE
        BY <1>11, <2>1
      <3>2. QED BY <3>1, Zenon
    <2>2. CASE v \in Bad /\ r = Result(t, FALSE)
      <3>1. r.valid = FALSE
        BY <1>11, <2>2
      <3>2. QED BY <2>2, <3>1, Zenon
    <2>3. QED BY <1>12, <2>1, <2>2
  <1>8. Sound(r.t)
    BY <1>5, <1>6
  <1>9. r.t.state = t.state /\ r.t.sel = t.sel /\ r.t.end = t.end /\ (r.t.menu <=> t.menu)
    BY <1>4, <1>6
  <1>10. QED BY <1>7, <1>8, <1>9 DEF r

\* An edit of a text cell is confirmed, or goes on because the text is invalid.
LEMMA ConfirmKeeps ==
    ASSUME NEW t, Sound(t), t.state = "editing", ~t.menu
    PROVE  LET r == ConfirmEdit(t)
           IN  Sound(r.t) /\ r.valid \in BOOLEAN /\ r.t.state = "editing" /\ ~r.t.menu
  <1> DEFINE r == ValidateAndSet(t, t.sel, t.text)
             i == [t EXCEPT !.invalid = TRUE]
  <1>1. t \in Record /\ t.text \in Texts
    BY DEF Sound, Record
  <1>2. t.sel \in Cells /\ IsEditable(t.sel) /\ Kind[t.sel] = "text"
    BY <1>1 DEF Sound, SelectionSound, EditorSound, IsEditable, Record, Selections
  <1>3. /\ Sound(r.t) /\ r.valid \in BOOLEAN /\ r.t.state = "editing" /\ ~r.t.menu
    BY <1>1, <1>2, StoreKeeps DEF HasOptions
  <1>4. /\ i \in Record
        /\ i.state = t.state /\ i.sel = t.sel /\ i.end = t.end /\ i.key = t.key /\ i.text = t.text
        /\ i.shown = t.shown /\ i.menu = t.menu
        /\ i.data = t.data /\ i.error = t.error /\ i.range = t.range
    BY <1>1 DEF Record
  <1>5. ConfirmEdit(t) = [t |-> IF r.valid THEN r.t ELSE i, valid |-> r.valid]
    BY DEF ConfirmEdit
  <1> HIDE DEF r, i
  <1>6. Sound(i)
    <2>1. t.shown
      BY <1>2 DEF Sound, EditorSound
    <2>2. SelectionSound(i) /\ EditorSound(i) /\ KeySound(i) /\ NoFailure(i)
      BY <1>4, <2>1 DEF SelectionSound, EditorSound, KeySound, Sound, NoFailure
    <2>3. DataSound(i)
      BY <1>4 DEF DataSound, Sound
    <2>4. QED BY <1>4, <2>2, <2>3 DEF Sound
  <1>7. QED BY <1>3, <1>4, <1>5, <1>6

\* A value is chosen from the menu: the menu closes, and the value is stored in
\* the cell with options, which is still selected unless the table was
\* rendered.
LEMMA ChooseKeeps ==
    ASSUME NEW t, Sound(t), t.menu, NEW v \in Options, NEW s,
           s = [Goto(t, "selected") EXCEPT !.menu = FALSE, !.text = v]
    PROVE  /\ s.sel = None => Sound(Fail(s))
           /\ s.sel # None => Sound(ConfirmEdit(s).t) /\ ~ConfirmEdit(s).t.menu
           /\ s.sel \in Selections
  <1> DEFINE u == [Goto(t, "selected") EXCEPT !.menu = FALSE]
  <1>1. /\ Sound(u) /\ u.state = "selected" /\ ~u.menu /\ u.sel = t.sel
    <2>1. t.state = "loaded" => "render" \in env
      BY DEF Sound, EditorSound
    <2>2. QED BY <2>1, GotoSelected
  <1>2. s = [u EXCEPT !.text = v]
    <2>1. Goto(t, "selected") \in Record
      <3>1. t \in Record /\ ExitState(t) \in Record
        BY ExitFields DEF Sound
      <3>2. QED BY <3>1 DEF Goto, EnterState, Record, States
    <2>2. QED BY <2>1 DEF Record
  <1> HIDE DEF u
  <1>3. u \in Record /\ v \in Texts
    BY <1>1, TableEditingAssumption DEF Sound, Texts
  <1>4. /\ s \in Record
        /\ s.state = u.state /\ s.sel = u.sel /\ s.end = u.end /\ s.key = u.key /\ s.text = v
        /\ s.shown = u.shown /\ s.invalid = u.invalid /\ s.menu = u.menu
        /\ s.data = u.data /\ s.error = u.error /\ s.range = u.range
    BY <1>2, <1>3 DEF Record
  <1>5. Sound(s)
    <2>1. SelectionSound(s) /\ EditorSound(s) /\ KeySound(s) /\ NoFailure(s)
      BY <1>1, <1>4 DEF SelectionSound, EditorSound, KeySound, Sound, NoFailure
    <2>2. DataSound(s)
      BY <1>1, <1>4 DEF DataSound, Sound
    <2>3. QED BY <1>4, <2>1, <2>2 DEF Sound
  <1>6. ASSUME s.sel = None
        PROVE  Sound(Fail(s))
    <2>1. "render" \in env
      BY <1>1, <1>4, <1>6 DEF Sound, SelectionSound
    <2>2. QED BY <1>5, <2>1, FailKeeps
  <1>7. ASSUME s.sel # None
        PROVE  Sound(ConfirmEdit(s).t) /\ ~ConfirmEdit(s).t.menu
    <2> DEFINE r == ValidateAndSet(s, s.sel, s.text)
               i == [s EXCEPT !.invalid = TRUE]
    <2>1. s.sel \in Cells /\ Kind[s.sel] = "options"
      <3>1. t.state = "editing" /\ Kind[t.sel] = "options"
        BY <1>1, <1>4, <1>7 DEF Sound, EditorSound, SelectionSound
      <3>2. s.sel \in Selections
        BY <1>4 DEF Record
      <3>3. s.sel = t.sel
        BY <1>1, <1>4
      <3>4. QED BY <1>7, <3>1, <3>2, <3>3 DEF Selections
    <2>2. Sound(r.t) /\ r.valid \in BOOLEAN /\ (v \notin Bad => r.valid) /\ ~r.t.menu
      <3>1. s.text \in Texts /\ s.text = v /\ s.text \in Options \cup {Empty} /\ ~s.menu
        BY <1>1, <1>3, <1>4
      <3>2. IsEditable(s.sel)
        BY <2>1 DEF IsEditable
      <3>3. /\ Sound(r.t) /\ r.valid \in BOOLEAN /\ (s.text \notin Bad => r.valid)
            /\ (r.t.menu <=> s.menu)
        BY <1>5, <2>1, <3>1, <3>2, StoreKeeps
      <3> HIDE DEF r
      <3>4. QED BY <3>1, <3>3
    <2>3. ConfirmEdit(s) = [t |-> IF r.valid THEN r.t ELSE i, valid |-> r.valid]
      BY DEF ConfirmEdit
    <2>4. /\ i \in Record
          /\ i.state = s.state /\ i.sel = s.sel /\ i.end = s.end /\ i.key = s.key /\ i.text = s.text
          /\ i.shown = s.shown /\ i.menu = s.menu
          /\ i.data = s.data /\ i.error = s.error /\ i.range = s.range
      BY <1>4 DEF Record
    <2> HIDE DEF r, i
    <2>5. ASSUME Options \cap Bad # {} PROVE Sound(i)
      <3>1. SelectionSound(i) /\ EditorSound(i) /\ KeySound(i) /\ NoFailure(i)
        BY <1>5, <2>4, <2>5 DEF SelectionSound, EditorSound, KeySound, Sound, NoFailure
      <3>2. DataSound(i)
        BY <1>5, <2>4 DEF DataSound, Sound
      <3>3. QED BY <2>4, <3>1, <3>2 DEF Sound
    <2>6. CASE r.valid
      BY <2>2, <2>3, <2>6
    <2>7. CASE ~r.valid
      <3>1. ConfirmEdit(s).t = i /\ Options \cap Bad # {}
        BY <2>2, <2>3, <2>7
      <3>2. QED BY <1>1, <1>4, <2>4, <2>5, <3>1
    <2>8. QED BY <2>6, <2>7
  <1>8. QED BY <1>4, <1>6, <1>7 DEF Record

\* The fields of a text that is pasted.
LEMMA PastedFields ==
    ASSUME NEW lines \in Clipboard
    PROVE  /\ lines[1][1] \in Texts
           /\ \A from \in Cells : \A c \in Block(lines, from) : Field(lines, from, c) \in Texts
  <1>1. /\ lines \in Seq(Seq(Texts)) /\ lines # <<>>
        /\ \A i \in DOMAIN lines : lines[i] # <<>>
    BY TableEditingAssumption DEF Texts
  <1>2. \A i \in DOMAIN lines : lines[i] \in Seq(Texts)
    BY <1>1
  <1>3. \A i \in DOMAIN lines : \A j \in DOMAIN lines[i] : lines[i][j] \in Texts
    BY <1>2
  <1>4. 1 \in DOMAIN lines
    BY <1>1
  <1>5. 1 \in DOMAIN lines[1]
    BY <1>1, <1>2, <1>4
  <1>6. QED BY <1>3, <1>4, <1>5 DEF Block, Field

\* A paste, by the timer: into the cells that are selected now.
LEMMA PasteKeeps ==
    ASSUME NEW t, Sound(t), NEW lines \in Clipboard,
           t.sel = None => "render" \in env \/ "hurry" \in env,
           t.range => "rangePaste" \in env \/ "hurry" \in env
    PROVE  Sound(PasteValue(t, lines))
  <1> DEFINE v == lines[1][1]
             F(c) == Field(lines, t.sel, c)
             one == [c \in Cells |->
                       IF c \in SelectedCells(t.sel, t.end) /\ Storable(c, v) THEN v ELSE t.data[c]]
             many == [c \in Cells |->
                        IF /\ c \in Block(lines, t.sel) /\ Storable(c, F(c))
                           /\ HasOptions(c) => F(c) \in Options
                        THEN F(c) ELSE t.data[c]]
  <1>1. t \in Record /\ t.data \in [Cells -> Texts] /\ DataSound(t)
    BY DEF Sound, Record
  <1>2. CASE t.sel = None
    BY <1>2, FailKeeps DEF PasteValue
  <1>3. CASE t.sel # None
    <2>1. t.sel \in Cells
      BY <1>1, <1>3 DEF Record, Selections
    <2>2. \/ PasteValue(t, lines) = [t EXCEPT !.data = one] /\ t.range
          \/ PasteValue(t, lines) = [t EXCEPT !.data = many]
      BY <1>3 DEF PasteValue, StoreInRange, StoreBlock
    <2>3. ASSUME NEW d, \A c \in Cells : \/ d[c] = t.data[c]
                                         \/ /\ Storable(c, d[c])
                                            /\ HasOptions(c) => d[c] \in Options \/ t.range,
                 d \in [Cells -> Texts]
          PROVE  Sound([t EXCEPT !.data = d])
      <3> DEFINE g == [t EXCEPT !.data = d]
      <3>1. /\ g \in Record
            /\ g.state = t.state /\ g.sel = t.sel /\ g.end = t.end /\ g.key = t.key /\ g.text = t.text
            /\ g.shown = t.shown /\ g.invalid = t.invalid /\ g.menu = t.menu
            /\ g.data = d /\ g.error = t.error /\ g.range = t.range
        BY <1>1, <2>3 DEF Record
      <3> HIDE DEF g
      <3>2. SelectionSound(g) /\ EditorSound(g) /\ NoFailure(g)
        BY <3>1 DEF SelectionSound, EditorSound, Sound, NoFailure
      <3>3. t.state = "selectingReadOnly" => d[t.sel] = t.data[t.sel]
        BY <2>1, <2>3 DEF Sound, SelectionSound, Storable, IsEditable
      <3>4. KeySound(g)
        BY <3>1, <3>3 DEF Sound, KeySound
      <3>5. DataSound(g)
        BY <1>1, <2>3, <3>1 DEF DataSound, Storable
      <3>6. QED BY <3>1, <3>2, <3>4, <3>5 DEF Sound, g
    <2>4. v \in Texts /\ \A c \in Block(lines, t.sel) : F(c) \in Texts
      BY <2>1, PastedFields
    <2> HIDE DEF v, F
    <2>6. CASE PasteValue(t, lines) = [t EXCEPT !.data = one] /\ t.range
      <3>1. one \in [Cells -> Texts]
        BY <1>1, <2>4
      <3>2. \A c \in Cells : one[c] = t.data[c] \/ Storable(c, one[c])
        OBVIOUS
      <3> HIDE DEF one
      <3>3. QED BY <2>3, <2>6, <3>1, <3>2
    <2>7. CASE PasteValue(t, lines) = [t EXCEPT !.data = many]
      <3>1. many \in [Cells -> Texts]
        BY <1>1, <2>4
      <3>2. \A c \in Cells : \/ many[c] = t.data[c]
                             \/ /\ Storable(c, many[c])
                                /\ HasOptions(c) => many[c] \in Options
        OBVIOUS
      <3> HIDE DEF many
      <3>3. QED BY <2>3, <2>7, <3>1, <3>2
    <2>8. QED BY <2>2, <2>6, <2>7
  <1>4. QED BY <1>2, <1>3

\* With the selection it was made for, a paste changes the cells of its area only,
\* to their fields, and a text cell there has its field afterwards if that is valid.
LEMMA PasteLands ==
    ASSUME NEW t, t \in Record, t.sel \in Cells,
           NEW p, t.sel = p.sel, t.end = p.end, t.range = p.range, NEW c \in Cells,
           NEW u, u = PasteValue(t, p.lines)
    PROVE  /\ u.data[c] # t.data[c] => c \in PasteArea(p) /\ u.data[c] = PastedInto(p, c)
           /\ (c \in PasteArea(p) /\ Kind[c] = "text" /\ PastedInto(p, c) \notin Bad) =>
                 u.data[c] = PastedInto(p, c)
  <1> DEFINE v == p.lines[1][1]
             F(x) == Field(p.lines, p.sel, x)
             one == [x \in Cells |->
                       IF x \in SelectedCells(t.sel, t.end) /\ Storable(x, v) THEN v ELSE t.data[x]]
             many == [x \in Cells |->
                        IF /\ x \in Block(p.lines, t.sel) /\ Storable(x, F(x))
                           /\ HasOptions(x) => F(x) \in Options
                        THEN F(x) ELSE t.data[x]]
  <1>1. t.sel # None
    BY TableEditingAssumption
  <1>2. Kind[c] = "text" => \A w : w \notin Bad => Storable(c, w) /\ ~HasOptions(c)
    BY DEF Storable, HasData, IsEditable, HasOptions
  <1>3. CASE Single(p.lines) /\ t.range
    <2>1. u = [t EXCEPT !.data = one]
      BY <1>1, <1>3 DEF PasteValue, StoreInRange
    <2>2. u.data = one
      <3> HIDE DEF one
      <3> QED BY <2>1 DEF Record
    <2>3. PasteArea(p) = SelectedCells(t.sel, t.end) /\ PastedInto(p, c) = v
      BY <1>3 DEF PasteArea, PastedInto
    <2> HIDE DEF v
    <2>4. QED BY <1>2, <2>2, <2>3
  <1>4. CASE ~(Single(p.lines) /\ t.range)
    <2>1. u = [t EXCEPT !.data = many]
      BY <1>1, <1>4 DEF PasteValue, StoreBlock
    <2>2. u.data = many
      <3> HIDE DEF many
      <3> QED BY <2>1 DEF Record
    <2>3. PasteArea(p) = Block(p.lines, t.sel) /\ PastedInto(p, c) = F(c)
      BY <1>4 DEF PasteArea, PastedInto
    <2> HIDE DEF F
    <2>4. QED BY <1>2, <2>2, <2>3
  <1>5. QED BY <1>3, <1>4

-----------------------------------------------------------------------------
(* The steps *)

\* At first nothing is selected.
LEMMA InitEdit == Init => EditInv
  <1> SUFFICES ASSUME Init PROVE EditInv
    OBVIOUS
  <1> DEFINE t == [state |-> "loaded", sel |-> None, end |-> None, range |-> FALSE,
                   key |-> None, text |-> Empty, shown |-> FALSE, invalid |-> FALSE,
                   menu |-> FALSE, data |-> [c \in Cells |-> Empty], error |-> FALSE]
  <1>1. tv = t /\ pastes = <<>> /\ env \in Environments
    BY DEF Init
  <1>2. responder \in BOOLEAN
    <2>1. responder = FALSE
      BY Zenon DEF Init
    <2>2. QED BY <2>1, Zenon
  <1>3. /\ t \in Record
        /\ t.state = "loaded" /\ t.sel = None /\ t.end = None /\ t.key = None
        /\ ~t.shown /\ ~t.invalid /\ ~t.menu /\ ~t.error
        /\ \A c \in Cells : t.data[c] = Empty
    BY DEF Record, States, Selections, Texts
  <1> HIDE DEF t
  <1>4. SelectionSound(t) /\ EditorSound(t) /\ KeySound(t) /\ NoFailure(t)
    BY <1>3 DEF SelectionSound, EditorSound, KeySound, NoFailure
  <1>5. DataSound(t)
    BY <1>3, TableEditingAssumption DEF DataSound
  <1>6. QED BY <1>1, <1>2, <1>3, <1>4, <1>5 DEF EditInv, Sound, PasteInv

\* What is true of the new record is true in the new state.
LEMMA SoundNext ==
    ASSUME EditInv, Sound(tv'), responder' \in BOOLEAN, UNCHANGED <<env, pastes>>,
           pastes = <<>> \/ "hurry" \in env
    PROVE  EditInv'
  <1>1. Sound(tv)'
    BY DEF Sound, SelectionSound, EditorSound, KeySound, DataSound, NoFailure
  <1>2. PasteInv'
    BY DEF EditInv, PasteInv
  <1>3. QED BY <1>1, <1>2 DEF EditInv

\* The mouse.
LEMMA MouseKeeps ==
    ASSUME EditInv,
           \/ \E c \in Cells : (\E shift \in BOOLEAN : MouseDown(c, shift)) \/ MouseMove(c)
           \/ MouseUp \/ DoubleClick
    PROVE  EditInv'
  <1>0. Sound(tv) /\ tv \in Record /\ responder \in BOOLEAN
    BY DEF EditInv, Sound
  <1>1. ASSUME tv.state = "selected", ~tv.menu PROVE Sound(StartEdit(tv))
    <2>1. tv = [tv EXCEPT !.key = tv.key] /\ tv.key \in Values \cup {None}
      BY <1>0 DEF Record
    <2>2. "optionKeys" \notin env => tv.key = None
      BY <1>0 DEF Sound, KeySound
    <2>3. QED BY <1>0, <1>1, <2>1, <2>2, StartEditKeeps
  <1>2. ASSUME NEW c \in Cells, NEW shift \in BOOLEAN, MouseDown(c, shift)
        PROVE  EditInv'
    <2> DEFINE r == ConfirmEdit(tv)
    <2>1. /\ ~tv.menu /\ (pastes = <<>> \/ "hurry" \in env) /\ UNCHANGED <<env, pastes>>
      BY <1>2 DEF MouseDown, Event, Patient
    <2>2. responder' \in BOOLEAN
      <3>1. responder' = TRUE
        BY <1>2, Zenon DEF MouseDown
      <3>2. QED BY <3>1, Zenon
    <2>3. Sound(tv')
      <3>1. CASE tv.state = "loaded"
        <4>1. tv' = Goto(SelectCell(tv, c), "mouseIsDown")
          BY <1>2, <3>1 DEF MouseDown, Event
        <4>2. QED BY <1>0, <2>1, <3>1, <4>1, PressKeeps
      <3>2. CASE tv.state = "mouseIsDown"
        BY <1>0, <1>2, <3>2 DEF MouseDown, Event
      <3>3. CASE tv.state = "selected"
        <4>1. \/ tv' = StartEdit(tv)
              \/ tv' = [tv EXCEPT !.end = c, !.range = TRUE]
              \/ tv' = Goto(SelectCell(Goto(tv, "loaded"), c), "mouseIsDown")
          BY <1>2, <3>3 DEF MouseDown, Event
        <4>2. LET g == Goto(tv, "loaded") IN Sound(g) /\ g.state = "loaded" /\ ~g.menu
          BY <1>0, <2>1, GotoLoaded
        <4>3. Sound(Goto(SelectCell(Goto(tv, "loaded"), c), "mouseIsDown"))
          BY <4>2, PressKeeps
        <4>4. Sound([tv EXCEPT !.end = c, !.range = TRUE])
          BY <1>0, <3>3, ExtendKeeps
        <4>5. QED BY <1>1, <2>1, <3>3, <4>1, <4>3, <4>4
      <3>4. CASE tv.state = "selectingReadOnly"
        <4>1. tv' = SelectCell(Goto(tv, "selected"), c)
          BY <1>2, <3>4 DEF MouseDown, Event
        <4>2. Sound(Goto(tv, "selected")) /\ Goto(tv, "selected").state = "selected"
          BY <1>0, <2>1, <3>4, GotoSelected
        <4>3. QED BY <4>1, <4>2, SelectKeeps
      <3>5. CASE tv.state = "editing"
        <4>1. tv' = IF r.valid THEN SelectCell(Goto(r.t, "selected"), c) ELSE r.t
          BY <1>2, <3>5 DEF MouseDown, Event
        <4>2. Sound(r.t) /\ r.valid \in BOOLEAN /\ r.t.state = "editing" /\ ~r.t.menu
          BY <1>0, <2>1, <3>5, ConfirmKeeps
        <4> HIDE DEF r
        <4>3. Sound(Goto(r.t, "selected")) /\ Goto(r.t, "selected").state = "selected"
          BY <4>2, GotoSelected
        <4>4. QED BY <4>1, <4>2, <4>3, SelectKeeps
      <3>6. QED BY <1>0, <3>1, <3>2, <3>3, <3>4, <3>5 DEF Record, States
    <2>4. QED BY <2>1, <2>2, <2>3, SoundNext
  <1>3. ASSUME NEW c \in Cells, MouseMove(c) PROVE EditInv'
    <2>1. /\ pastes = <<>> \/ "hurry" \in env
          /\ UNCHANGED <<env, pastes, responder>>
          /\ tv.state = "mouseIsDown" /\ tv' = [tv EXCEPT !.end = c, !.range = TRUE]
      BY <1>3 DEF MouseMove, Event, Patient
    <2>2. Sound(tv')
      BY <1>0, <2>1, ExtendKeeps
    <2>3. QED BY <1>0, <2>1, <2>2, SoundNext
  <1>4. CASE MouseUp
    <2>1. /\ pastes = <<>> \/ "hurry" \in env
          /\ UNCHANGED <<env, pastes, responder>> /\ ~tv.menu
          /\ tv.state = "mouseIsDown" /\ tv' = Goto(tv, "selected")
      BY <1>4 DEF MouseUp, Event, Patient
    <2>2. Sound(tv')
      BY <1>0, <2>1, GotoSelected
    <2>3. QED BY <1>0, <2>1, <2>2, SoundNext
  <1>5. CASE DoubleClick
    <2>1. /\ pastes = <<>> \/ "hurry" \in env
          /\ UNCHANGED <<env, pastes, responder>> /\ ~tv.menu
          /\ tv.state = "selected" /\ tv' = StartEdit(tv)
      BY <1>5 DEF DoubleClick, Event, Patient
    <2>2. QED BY <1>0, <1>1, <2>1, SoundNext
  <1>6. QED BY <1>2, <1>3, <1>4, <1>5

\* The keys.
LEMMA KeyKeeps ==
    ASSUME EditInv,
           \/ \E dir \in Directions :
                 MoveKey(dir) \/ MoveAndModifySelection(dir) \/ ConfirmKey(dir)
           \/ InsertNewline \/ WipeCell \/ DeleteBackward
           \/ \E v \in Values : KeyPress(v) \/ TypeText(v)
    PROVE  EditInv'
  <1>0. Sound(tv) /\ tv \in Record /\ responder \in BOOLEAN
    BY DEF EditInv, Sound
  <1>1. ASSUME NEW t, Key(t), Sound(t) PROVE EditInv'
    <2>1. /\ pastes = <<>> \/ "hurry" \in env
          /\ UNCHANGED <<env, pastes, responder>> /\ tv' = t
      BY <1>1 DEF Key, Event, Patient
    <2>2. QED BY <1>0, <1>1, <2>1, SoundNext
  <1>2. ASSUME tv.state = "selectingReadOnly", ~tv.menu
        PROVE  Sound(Goto(tv, "selected"))
    BY <1>0, <1>2, GotoSelected
  <1>3. ASSUME tv.state = "selected", tv.sel = None \/ tv.end = None
        PROVE  Sound(Fail(tv))
    <2>1. "render" \in env
      BY <1>0, <1>3 DEF Sound, SelectionSound
    <2>2. QED BY <1>0, <2>1, FailKeeps
  <1>4. ASSUME NEW t, Key(t) PROVE ~tv.menu
    BY <1>4 DEF Key, Event
  <1>5. ASSUME NEW dir \in Directions, MoveKey(dir) PROVE EditInv'
    <2>1. CASE tv.state = "selected" /\ Key(Move(tv, dir))
      BY <1>0, <1>1, <2>1, MoveKeeps
    <2>2. CASE tv.state = "selectingReadOnly" /\ Key(Move(Goto(tv, "selected"), dir))
      BY <1>1, <1>2, <1>4, <2>2, MoveKeeps
    <2>3. QED BY <1>5, <2>1, <2>2 DEF MoveKey
  <1>6. ASSUME NEW dir \in Directions, MoveAndModifySelection(dir) PROVE EditInv'
    <2>1. tv.state = "selected"
      BY <1>6 DEF MoveAndModifySelection
    <2>2. \/ tv.end = None /\ Key(Fail(tv))
          \/ Next2(tv.end, dir) \in Cells /\ Key([tv EXCEPT !.end = Next2(tv.end, dir), !.range = TRUE])
          \/ Key(tv)
      BY <1>6 DEF MoveAndModifySelection
    <2>3. QED BY <1>0, <1>1, <1>3, <2>1, <2>2, ExtendKeeps
  <1>7. ASSUME NEW dir \in Directions, ConfirmKey(dir) PROVE EditInv'
    <2> DEFINE r == ConfirmEdit(tv)
    <2>1. /\ tv.state = "editing"
          /\ Key(IF r.valid THEN Move(Goto(r.t, "selected"), dir) ELSE r.t)
      BY <1>7 DEF ConfirmKey
    <2>2. Sound(r.t) /\ r.valid \in BOOLEAN /\ r.t.state = "editing" /\ ~r.t.menu
      BY <1>0, <1>4, <2>1, ConfirmKeeps
    <2> HIDE DEF r
    <2>3. Sound(Goto(r.t, "selected"))
      BY <2>2, GotoSelected
    <2>4. QED BY <1>1, <2>1, <2>2, <2>3, MoveKeeps
  <1>8. ASSUME tv.state = "selected", ~tv.menu PROVE Sound(StartEdit(tv))
    <2>1. tv = [tv EXCEPT !.key = tv.key] /\ tv.key \in Values \cup {None}
      BY <1>0 DEF Record
    <2>2. "optionKeys" \notin env => tv.key = None
      BY <1>0 DEF Sound, KeySound
    <2>3. QED BY <1>0, <1>8, <2>1, <2>2, StartEditKeeps
  <1>9. CASE InsertNewline
    <2>1. CASE tv.state = "selected" /\ Key(StartEdit(tv))
      BY <1>1, <1>4, <1>8, <2>1
    <2>2. CASE tv.state = "selectingReadOnly" /\ Key(Move(Goto(tv, "selected"), "down"))
      BY <1>1, <1>2, <1>4, <2>2, MoveKeeps
    <2>3. QED BY <1>9, <2>1, <2>2 DEF InsertNewline
  <1>10. CASE WipeCell
    <2>1. tv.state = "selected"
      BY <1>10 DEF WipeCell
    <2>2. \/ tv.sel = None /\ Key(Fail(tv))
          \/ tv.sel # None /\ IsEditable(tv.sel) /\ Key(ValidateAndSet(tv, tv.sel, Empty).t)
          \/ Key(tv)
      BY <1>10 DEF WipeCell
    <2>3. CASE tv.sel # None /\ IsEditable(tv.sel) /\ Key(ValidateAndSet(tv, tv.sel, Empty).t)
      <3>1. tv.sel \in Cells /\ Empty \in Texts
        BY <1>0, <2>3 DEF Record, Selections, Texts
      <3>2. Sound(ValidateAndSet(tv, tv.sel, Empty).t)
        BY <1>0, <2>3, <3>1, StoreKeeps
      <3>3. QED BY <1>1, <2>3, <3>2
    <2>4. QED BY <1>0, <1>1, <1>3, <2>1, <2>2, <2>3
  <1>11. CASE DeleteBackward
    BY <1>1, <1>2, <1>4, <1>11 DEF DeleteBackward
  <1>12. ASSUME NEW v \in Values, KeyPress(v) PROVE EditInv'
    <2>1. tv.state = "selected"
      BY <1>12 DEF KeyPress
    <2>2. \/ tv.sel = None /\ Key(Fail(tv))
          \/ /\ tv.sel # None /\ IsEditable(tv.sel) /\ Key(StartEdit([tv EXCEPT !.key = v]))
             /\ HasOptions(tv.sel) => "optionKeys" \in env
          \/ Key(tv)
      BY <1>12 DEF KeyPress
    <2>3. ASSUME tv.sel # None, IsEditable(tv.sel), Key(StartEdit([tv EXCEPT !.key = v])),
                 HasOptions(tv.sel) => "optionKeys" \in env
          PROVE  EditInv'
      <3>1. tv.sel \in Cells
        BY <1>0, <2>3 DEF Record, Selections
      <3>2. "optionKeys" \notin env => Kind[tv.sel] = "text"
        BY <2>3 DEF HasOptions, IsEditable
      <3>3. Sound(StartEdit([tv EXCEPT !.key = v]))
        BY <1>0, <1>4, <2>1, <2>3, <3>1, <3>2, StartEditKeeps
      <3>4. QED BY <1>1, <2>3, <3>3
    <2>4. QED BY <1>0, <1>1, <1>3, <2>1, <2>2, <2>3
  <1>13. ASSUME NEW v \in Values, TypeText(v) PROVE EditInv'
    <2> DEFINE g == [tv EXCEPT !.text = v]
    <2>1. tv.state = "editing" /\ Key(g)
      BY <1>13 DEF TypeText
    <2>2. /\ g \in Record
          /\ g.state = tv.state /\ g.sel = tv.sel /\ g.end = tv.end /\ g.key = tv.key
          /\ g.shown = tv.shown /\ g.invalid = tv.invalid /\ g.menu = tv.menu
          /\ g.data = tv.data /\ g.error = tv.error /\ g.range = tv.range
      BY <1>0 DEF Record, Texts
    <2> HIDE DEF g
    <2>3. SelectionSound(g) /\ EditorSound(g) /\ KeySound(g) /\ NoFailure(g)
      BY <1>0, <2>1, <2>2 DEF SelectionSound, EditorSound, KeySound, Sound, NoFailure
    <2>4. DataSound(g)
      BY <1>0, <2>2 DEF DataSound, Sound
    <2>5. QED BY <1>1, <2>1, <2>2, <2>3, <2>4 DEF Sound
  <1>14. QED BY <1>5, <1>6, <1>7, <1>9, <1>10, <1>11, <1>12, <1>13

\* What ends an edit or the selection from outside: Escape, the loss of the key
\* responder status, the menu, rendering.
LEMMA LeaveKeeps ==
    ASSUME EditInv,
           \/ Cancel \/ LoseKeyResponder \/ CloseMenu \/ Render
           \/ \E v \in Options : DidSelectMenuItem(v)
    PROVE  EditInv'
  <1>0. Sound(tv) /\ tv \in Record /\ responder \in BOOLEAN
    BY DEF EditInv, Sound
  <1>1. CASE Cancel
    <2>1. /\ pastes = <<>> \/ "hurry" \in env
          /\ UNCHANGED <<env, pastes>> /\ ~tv.menu
          /\ tv.state \in {"selected", "selectingReadOnly", "editing"}
          /\ tv' = Goto(tv, "loaded") \/ (tv.state # "loaded" /\ tv' = Goto(tv, "selected"))
      BY <1>1 DEF Cancel, Event, Patient
    <2>2. responder' \in BOOLEAN
      BY <1>1, Zenon DEF Cancel
    <2>3. Sound(Goto(tv, "loaded")) /\ Sound(Goto(tv, "selected"))
      BY <1>0, <2>1, GotoLoaded, GotoSelected
    <2>4. QED BY <2>1, <2>2, <2>3, SoundNext
  <1>2. CASE LoseKeyResponder
    <2>1. /\ pastes = <<>> \/ "hurry" \in env
          /\ UNCHANGED <<env, pastes>> /\ ~tv.menu
          /\ tv' = Goto(tv, "loaded")
      BY <1>2 DEF LoseKeyResponder, Event, Patient
    <2>2. responder' \in BOOLEAN
      <3>1. responder' = FALSE
        BY <1>2, Zenon DEF LoseKeyResponder
      <3>2. QED BY <3>1, Zenon
    <2>3. QED BY <1>0, <2>1, <2>2, GotoLoaded, SoundNext
  <1>3. tv.menu /\ tv.state = "loaded" => "render" \in env
    BY <1>0 DEF Sound, EditorSound
  <1>4. CASE CloseMenu
    <2>1. /\ pastes = <<>> \/ "hurry" \in env
          /\ UNCHANGED <<env, pastes, responder>> /\ tv.menu
          /\ tv' = [Goto(tv, "selected") EXCEPT !.menu = FALSE]
      BY <1>4 DEF CloseMenu, Patient
    <2>2. Sound(tv')
      BY <1>0, <1>3, <2>1, GotoSelected
    <2>3. QED BY <1>0, <2>1, <2>2, SoundNext
  <1>5. CASE Render
    <2>1. /\ pastes = <<>> \/ "hurry" \in env
          /\ UNCHANGED <<env, pastes, responder>> /\ "render" \in env
          /\ tv' = Goto(tv, "loaded")
      BY <1>5 DEF Render, Patient
    <2>2. QED BY <1>0, <2>1, GotoLoaded, SoundNext
  <1>6. ASSUME NEW v \in Options, DidSelectMenuItem(v) PROVE EditInv'
    <2> DEFINE s == [Goto(tv, "selected") EXCEPT !.menu = FALSE, !.text = v]
    <2>1. /\ pastes = <<>> \/ "hurry" \in env
          /\ UNCHANGED <<env, pastes, responder>> /\ tv.menu
          /\ tv' = IF s.sel = None THEN Fail(s) ELSE Move(ConfirmEdit(s).t, "down")
      BY <1>6 DEF DidSelectMenuItem, Patient
    <2>2. /\ s.sel = None => Sound(Fail(s))
          /\ s.sel # None => Sound(ConfirmEdit(s).t)
      BY <1>0, <2>1, ChooseKeeps
    <2> HIDE DEF s
    <2>3. Sound(tv')
      BY <2>1, <2>2, MoveKeeps
    <2>4. QED BY <1>0, <2>1, <2>3, SoundNext
  <1>7. QED BY <1>1, <1>2, <1>4, <1>5, <1>6

\* A paste, and its timer.
LEMMA PasteStepKeeps ==
    ASSUME EditInv,
           \/ \E lines \in Clipboard : Paste(lines)
           \/ PasteTimer
    PROVE  EditInv'
  <1>0. Sound(tv) /\ tv \in Record /\ responder \in BOOLEAN
    BY DEF EditInv, Sound
  <1>1. ASSUME NEW lines \in Clipboard, Paste(lines) PROVE EditInv'
    <2> DEFINE p == [lines |-> lines, sel |-> tv.sel, end |-> tv.end, range |-> tv.range]
    <2>1. /\ tv.state = "selected" /\ tv.sel # None /\ (tv.range => "rangePaste" \in env)
          /\ pastes' = <<p>> /\ UNCHANGED <<env, tv, responder>>
      BY <1>1 DEF Paste
    <2>2. p \in PasteType /\ p.sel = tv.sel /\ p.end = tv.end /\ p.range = tv.range
      BY <1>0, <2>1 DEF PasteType, Record, Selections
    <2> HIDE DEF p
    <2>3. PasteInv'
      BY <2>1, <2>2 DEF PasteInv
    <2>4. Sound(tv)'
      BY <1>0, <2>1 DEF Sound, SelectionSound, EditorSound, KeySound, DataSound, NoFailure
    <2>5. QED BY <2>1, <2>3, <2>4 DEF EditInv
  <1>3. CASE PasteTimer
    <2>1. pastes # <<>> /\ tv' = PasteValue(tv, pastes[1].lines) /\ pastes' = <<>>
          /\ UNCHANGED <<env, responder>>
      BY <1>3 DEF PasteTimer
    <2>2. PICK p \in PasteType : pastes = <<p>>
      BY <2>1 DEF EditInv, PasteInv
    <2>3. pastes[1] = p /\ p.lines \in Clipboard /\ p.sel \in Cells
      BY <2>2 DEF PasteType
    <2>4. tv.sel = None => "hurry" \in env
      BY <2>1, <2>3, TableEditingAssumption DEF EditInv, PasteInv
    <2>5. tv.range => "rangePaste" \in env \/ "hurry" \in env
      BY <2>1 DEF EditInv, PasteInv
    <2>6. Sound(tv')
      BY <1>0, <2>1, <2>3, <2>4, <2>5, PasteKeeps
    <2>7. Sound(tv)'
      BY <2>1, <2>6 DEF Sound, SelectionSound, EditorSound, KeySound, DataSound, NoFailure
    <2>8. QED BY <2>1, <2>7 DEF EditInv, PasteInv
  <1>4. QED BY <1>1, <1>3

\* Every step keeps the invariant.
LEMMA StepEdit == EditInv /\ [Next]_vars => EditInv'
  <1> SUFFICES ASSUME EditInv, [Next]_vars PROVE EditInv'
    OBVIOUS
  <1>1. CASE UNCHANGED vars
    <2>1. Sound(tv)'
      BY <1>1 DEF vars, EditInv, Sound, SelectionSound, EditorSound, KeySound, DataSound, NoFailure
    <2>2. PasteInv'
      BY <1>1 DEF vars, EditInv, PasteInv
    <2>3. QED BY <1>1, <2>1, <2>2 DEF vars, EditInv
  <1>2. CASE Next
    BY <1>2, MouseKeeps, KeyKeeps, LeaveKeeps, PasteStepKeeps DEF Next
  <1>3. QED BY <1>1, <1>2

-----------------------------------------------------------------------------
(* The theorems *)

\* The invariant holds throughout.
LEMMA EditCorrect == Spec => []EditInv
  BY InitEdit, StepEdit, PTL DEF Spec

\* No value that does not validate is ever stored in a cell, by an edit, a key,
\* a menu or a paste; cells that are not editable never change; a cell with
\* options contains one of them or nothing, unless a value lands in a range.
THEOREM EditsCorrect == Spec => []OnlyValidEdits
  <1>1. EditInv => OnlyValidEdits
    BY DEF EditInv, Sound, DataSound, OnlyValidEdits
  <1>2. QED BY <1>1, EditCorrect, PTL

\* The selection and the editor follow the state of TableDataView, and no
\* handler looks for a selected cell in vain, if every option of a menu
\* validates: one that does not would leave the class "invalid" on the hidden
\* edit field.
THEOREM EditorCorrect ==
    ASSUME Options \cap Bad = {}
    PROVE  Spec => []EditorAndSelectionMatchState
  <1>1. ASSUME EditInv PROVE EditorAndSelectionMatchState
    <2>0. Sound(tv) /\ tv \in Record
      BY <1>1 DEF EditInv, Sound
    <2>1. Len(pastes) \in {0, 1}
      BY <1>1 DEF EditInv, PasteInv
    <2>2. TypeOK
      BY <1>1, <2>0, <2>1 DEF EditInv, TypeOK, Record, Selections, Texts
    <2>3. env \cap {"render", "hurry"} = {} =>
             /\ tv.state = "loaded" <=> tv.sel = None
             /\ tv.sel = None <=> tv.end = None
             /\ ~tv.error
      BY <2>0 DEF Sound, SelectionSound, NoFailure
    <2>4. SelectionFollowsState
      BY <2>2, <2>3, Zenon DEF SelectionFollowsState
    <2>5. /\ tv.shown <=> (tv.state = "editing" /\ Kind[tv.sel] = "text")
          /\ "render" \notin env => (tv.menu <=> (tv.state = "editing" /\ Kind[tv.sel] = "options"))
          /\ tv.invalid => tv.shown
      BY <2>0 DEF Sound, EditorSound
    <2>6. tv.shown \in BOOLEAN /\ tv.menu \in BOOLEAN
      BY <2>0 DEF Record
    <2>7. /\ tv.state = "editing" => tv.sel = tv.end /\ ~tv.range
          /\ "optionKeys" \notin env =>
                /\ tv.state = "selectingReadOnly" => tv.text = tv.data[tv.sel]
                /\ tv.state \in {"loaded", "selected"} => tv.key = None
      BY <2>0 DEF Sound, SelectionSound, KeySound
    <2>8. EditorMatchesState
      <3>1. tv.shown = (tv.state = "editing" /\ Kind[tv.sel] = "text")
        BY <2>5, <2>6, Zenon
      <3>2. "render" \notin env => tv.menu = (tv.state = "editing" /\ Kind[tv.sel] = "options")
        BY <2>5, <2>6, Zenon
      <3>3. QED BY <2>5, <2>7, <3>1, <3>2, Zenon DEF EditorMatchesState
    <2>9. QED BY <2>4, <2>8 DEF EditorAndSelectionMatchState
  <1>2. QED BY <1>1, EditCorrect, PTL

\* For any text on the clipboard, any table and any selection: when the timer of a
\* paste stores it, the cells that change are those of the area it was made for,
\* each gets its own field, and no valid field for a text cell is lost, if the
\* user waits or leaves the same selection behind.
THEOREM PasteCorrect == Spec => PasteLandsWhereMade
  <1> DEFINE Same == <<tv.sel, tv.end, tv.range>> = <<pastes[1].sel, pastes[1].end, pastes[1].range>>
             Right(c) ==
                /\ tv'.data[c] # tv.data[c] =>
                      c \in PasteArea(pastes[1]) /\ tv'.data[c] = PastedInto(pastes[1], c)
                /\ (/\ c \in PasteArea(pastes[1]) /\ Kind[c] = "text"
                    /\ PastedInto(pastes[1], c) \notin Bad) =>
                      tv'.data[c] = PastedInto(pastes[1], c)
             Lands == (/\ pastes # <<>> /\ pastes' = <<>>
                       /\ "hurry" \notin env \/ Same) => \A c \in Cells : Right(c)
  <1>1. ASSUME EditInv, [Next]_vars PROVE [Lands]_vars
    <2> HIDE DEF Right, Same
    <2> SUFFICES ASSUME Next, "hurry" \notin env \/ Same, pastes # <<>>, pastes' = <<>>,
                        NEW c \in Cells
                 PROVE  Right(c)
      BY <1>1
    <2>1. PasteTimer
      <3>1. pastes' = pastes \/ pastes = <<>> \/ PasteTimer
        BY DEF Next, MouseDown, MouseMove, MouseUp, DoubleClick, Event, Key, MoveKey,
               MoveAndModifySelection, ConfirmKey, InsertNewline, WipeCell, DeleteBackward,
               KeyPress, TypeText, Cancel, LoseKeyResponder, CloseMenu, DidSelectMenuItem,
               Paste, Render
      <3>2. QED BY <3>1
    <2>2. PICK p \in PasteType : pastes = <<p>>
      BY <1>1 DEF EditInv, PasteInv
    <2>3. pastes[1] = p /\ p.lines \in Clipboard /\ p.sel \in Cells
      BY <2>2 DEF PasteType
    <2>4. tv.sel = p.sel /\ tv.end = p.end /\ tv.range = p.range
      BY <1>1, <2>3 DEF EditInv, PasteInv, Same
    <2>5. tv \in Record
      BY <1>1 DEF EditInv, Sound
    <2>6. tv' = PasteValue(tv, p.lines)
      BY <2>1, <2>3 DEF PasteTimer
    <2>7. QED BY <2>3, <2>4, <2>5, <2>6, PasteLands DEF Right
  <1>2. QED BY <1>1, EditCorrect, PTL DEF Spec, PasteLandsWhereMade
=============================================================================
