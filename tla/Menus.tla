------------------------------- MODULE Menus -------------------------------
(***************************************************************************)
(* A menu with submenus (views/menu_view.js, on views/panel.js), opened by *)
(* a SelectButtonView and used with the mouse and the keys.                *)
(*                                                                         *)
(* Every handler changes several properties whose observers close other    *)
(* menus and hand the selection up to the parent menus, synchronously.  So *)
(* the state they share is one record                                      *)
(*     [open, linked, high, user, internal, stack]                         *)
(*   open      the menus on the screen                                     *)
(*   linked    the submenus that are subMenuView of their item             *)
(*   high      _highlightIndex of each menu, as the item                   *)
(*   user      _userHighlightIndex of each menu, as the item               *)
(*   internal  _internalSelection of each menu, None if it is not set      *)
(*   stack     the key responder stack                                     *)
(* and what the handlers call are operators from one record to the next.   *)
(* A submenu is named like the item that opens it.  The texts that are     *)
(* searched for with character keys are abstracted to the item found.      *)
(***************************************************************************)
EXTENDS Integers, Sequences, FiniteSets, SequencesExt

CONSTANTS
    Items,
    Disabled,    \* the items whose isEnabled is false
    Top,         \* the menu itself
    MenuItems,   \* the items of each menu
    None,
    Other,       \* the key responder before the menu is opened
    Environments \* what may happen besides the usual, as sets of options:
                 \* "back" (the mouse goes back from a submenu to the item of
                 \* it), "margin" (clicks beside the items), "items" (the
                 \* application replaces the items of the open menu); the others
                 \* are for Choosers

Menus == DOMAIN MenuItems

ASSUME MenuAssumption ==
    /\ Top \notin Items /\ None \notin Items \cup {Top} /\ Other \notin Items \cup {Top}
    /\ Disabled \subseteq Items
    /\ Top \in Menus /\ Menus \subseteq Items \cup {Top} /\ IsFiniteSet(Menus)
    /\ \A m \in Menus : MenuItems[m] \in Seq(Items)
    /\ \A i \in Items : \E m \in Menus \ {i} : i \in ToSet(MenuItems[m])
    /\ \A m, n \in Menus : m # n => ToSet(MenuItems[m]) \cap ToSet(MenuItems[n]) = {}
    /\ Environments \subseteq SUBSET {"back", "margin", "items", "multi", "tabs", "again"}

VARIABLES
    env,     \* the options of this behaviour
    ms,      \* the record described above
    value,   \* value of the menu, aliased to that of the button
    young,   \* the menu was opened less than 300 ms ago
    pointer  \* the item that the mouse entered last

vars == <<env, ms, value, young, pointer>>

MenuOf(i) == CHOOSE m \in Menus : i \in ToSet(MenuItems[m])

\* The menus reached from first by taking step again and again: the least set
\* that has first and, with each menu n, also step(n).
Reached(first, step(_)) ==
    {n \in Menus : \A S \in SUBSET Menus :
        first \in S /\ (\A k \in S : step(k) \in S) => n \in S}

ParentMenu(m) == IF m = Top THEN Top ELSE MenuOf(m)

\* The menus above m, through parentMenu.
ParentMenus(m) == Reached(ParentMenu(m), ParentMenu)

HasSubMenu(i) == i \in Menus
IsEnabled(i) == i \notin Disabled /\ (HasSubMenu(i) => MenuItems[i] # <<>>)
IsSelectable(i) == IsEnabled(i) /\ (HasSubMenu(i) => MenuItems[i] = <<>>)

------------------------------------------------------------------------------
(* What the handlers call. *)

\* _internalSelectionDidChange hands it up to all parent menus.
SetInternal(s, m, item) ==
    [s EXCEPT !.internal = [n \in Menus |->
        IF n = m \/ n \in ParentMenus(m) THEN item ELSE @[n]]]

\* m, and below it the open submenu of the highlighted item, and so on.
Chain(s, m) ==
    Reached(m, LAMBDA n : IF s.high[n] \in s.linked THEN s.high[n] ELSE n)

\* Mutant of Close: the selection of a closed submenu stays selected above.
CloseKeepingSelection(s, m) ==
    LET chain == Chain(s, m)
    IN  IF m \notin s.open THEN s
        ELSE [s EXCEPT
                 !.open = @ \ chain, !.linked = @ \ chain,
                 !.high = [n \in Menus |-> IF n \in chain THEN None ELSE @[n]],
                 !.user = [n \in Menus |-> IF n \in chain THEN None ELSE @[n]],
                 !.internal = [n \in Menus |-> IF n \in chain THEN None ELSE @[n]],
                 !.stack = SubSeq(@, 1, Len(@) - Cardinality(chain))]

\* close: the highlight goes, and with it the submenu and the selection; the
\* panel resigns key responder, which pops the stack, and is destroyed.
Close(s, m) ==
    LET chain   == Chain(s, m)
        cleared == IF s.high[m] = None THEN s ELSE SetInternal(s, m, None)
    IN  IF m \notin s.open THEN s
        ELSE [cleared EXCEPT
                 !.open = @ \ chain, !.linked = @ \ chain,
                 !.high = [n \in Menus |-> IF n \in chain THEN None ELSE @[n]],
                 !.user = [n \in Menus |-> IF n \in chain THEN None ELSE @[n]],
                 !.internal = [n \in Menus |-> IF n \in chain THEN None ELSE @[n]],
                 !.stack = SubSeq(@, 1, Len(@) - Cardinality(chain))]

\* closeSubMenu of item i.
CloseSubMenu(s, i) == IF i \in s.linked THEN Close(s, i) ELSE s

\* Mutant of SetHighlight: the submenu of the last item is not closed.
SetHighlightOnly(s, m, i) ==
    IF s.high[m] = i THEN s
    ELSE SetInternal([s EXCEPT !.high[m] = i], m,
                     IF i # None /\ IsSelectable(i) THEN i ELSE None)

\* _highlightWillChange and _highlightDidChange.
SetHighlight(s, m, i) ==
    IF s.high[m] = i THEN s
    ELSE SetInternal([CloseSubMenu(s, s.high[m]) EXCEPT !.high[m] = i], m,
                     IF i # None /\ IsSelectable(i) THEN i ELSE None)

\* _userHighlightIndexDidChange
SetUserHighlight(s, m, i) ==
    IF s.user[m] = i THEN s ELSE SetHighlight([s EXCEPT !.user[m] = i], m, i)

\* The first enabled item above or below the highlighted one.
SelectNext(s, m, increment) ==
    LET items   == MenuItems[m]
        at      == IF s.high[m] = None THEN 0
                   ELSE SelectInSeq(items, LAMBDA i : i = s.high[m])
        beyond  == {k \in DOMAIN items :
                       /\ IsEnabled(items[k])
                       /\ IF increment > 0 THEN k > at ELSE k < at}
        next    == CHOOSE k \in beyond : \A j \in beyond : (j - k) * increment >= 0
    IN  IF beyond = {} THEN s ELSE SetHighlight(s, m, items[next])

\* Panel's popup, for a menu that has just been created if it is not open.
Popup(s, m) ==
    IF m \in s.open THEN s
    ELSE [s EXCEPT !.open = @ \cup {m}, !.linked = @ \cup ({m} \ {Top}),
                   !.stack = Append(@, m)]

\* _tryOpenSubmenu of menu m.
TryOpenSubmenu(s, m, select) ==
    LET i == s.high[m]
        opened == Popup(IF i \in s.linked THEN SetUserHighlight(s, i, None) ELSE s, i)
    IN  IF i = None \/ ~HasSubMenu(i) \/ ~IsEnabled(i) THEN s
        ELSE IF select THEN SelectNext(opened, i, 1) ELSE opened

\* _valueDidChange, for a value of the menu itself.
ShowValue(s, v) == IF v \in ToSet(MenuItems[Top]) THEN SetHighlight(s, Top, v) ELSE s

------------------------------------------------------------------------------
(* The steps. *)

NoItems == [m \in Menus |-> None]

Init ==
    /\ env \in Environments
    /\ ms = [open |-> {}, linked |-> {}, high |-> NoItems, user |-> NoItems,
             internal |-> NoItems, stack |-> <<Other>>]
    /\ value = None
    /\ young = FALSE
    /\ pointer = None

\* The button's _openMenu; the selected item is highlighted.  What is done with
\* submenus that outlive the menu is left out.
OpenMenu ==
    /\ ms.open = {}
    /\ ms' = Popup(ShowValue(ms, value), Top)
    /\ young' = TRUE /\ pointer' = None
    /\ UNCHANGED <<env, value>>

\* 300 ms pass.
GrowOld == young /\ young' = FALSE /\ UNCHANGED <<env, ms, value, pointer>>

\* makeSelection of menu m: the topmost menu sets the value and closes, then
\* the others down to m close, if they have not been closed with it.
MakeSelection(s, m) ==
    LET chosen == s.internal[Top]
        closed == Close(IF chosen = None THEN s ELSE ShowValue(s, chosen), Top)
        left   == {n \in closed.open : n = m \/ n \in ParentMenus(m)}
    IN  /\ value' = IF chosen = None THEN value ELSE chosen
        /\ ms' = IF left = {} THEN closed
                 ELSE Close(closed, CHOOSE n \in left : MenuOf(n) = Top)

Responder == ms.stack[Len(ms.stack)]

\* A key, for the menu that is key responder.
KeyStep(step(_)) ==
    /\ Responder \in ms.open
    /\ ms' = step(Responder)
    /\ UNCHANGED <<env, value, young, pointer>>

MoveUpOrDown(increment) == KeyStep(LAMBDA m : SelectNext(ms, m, increment))

MoveRight == KeyStep(LAMBDA m : TryOpenSubmenu(ms, m, TRUE))

\* closeCurrentlyOpenSubMenu of the parent menu.
MoveLeft == KeyStep(LAMBDA m :
    IF m = Top THEN ms ELSE CloseSubMenu(ms, ms.high[MenuOf(m)]))

Cancel == KeyStep(LAMBDA m :
    IF m = Top THEN Close(ms, Top) ELSE CloseSubMenu(ms, ms.high[MenuOf(m)]))

\* keyPress: a text that is found highlights its item, enabled or not.
KeySearch(i) ==
    /\ i \in ToSet(MenuItems[Responder])
    /\ KeyStep(LAMBDA m : SetHighlight(ms, m, i))

InsertNewline ==
    /\ Responder \in ms.open
    /\ MakeSelection(ms, Responder)
    /\ UNCHANGED <<env, young, pointer>>

MouseEntered(m, i) ==
    /\ m \in ms.open /\ Top \in ms.open /\ pointer # i
    /\ i \in ms.linked => "back" \in env
    /\ LET s == SetUserHighlight(ms, m, i)
       IN  ms' = IF i \in s.linked
                 THEN SetInternal(SetUserHighlight(s, i, None), m, i)
                 ELSE TryOpenSubmenu(s, m, FALSE)
    /\ pointer' = i
    /\ UNCHANGED <<env, value, young>>

\* mouseup on an item; the mouse may be there without having entered it, if
\* the menu was opened under it.
MouseClicked(m, i) ==
    /\ m \in ms.open /\ Top \in ms.open
    /\ pointer = i \/ pointer = None
    /\ m = Top => ~young
    /\ LET s == SetHighlight(ms, m, i)
       IN  IF s.user[m] # None THEN MakeSelection(s, m)
           ELSE ms' = s /\ UNCHANGED value
    /\ UNCHANGED <<env, young, pointer>>

\* mouseDown beside the items: the menu becomes key responder with replace.
ClickMargin(m) ==
    /\ "margin" \in env /\ m \in ms.open
    /\ ms' = IF Responder = m THEN ms ELSE [ms EXCEPT !.stack[Len(ms.stack)] = m]
    /\ UNCHANGED <<env, value, young, pointer>>

\* mouseDown on the modal pane.
ClickOutside ==
    /\ Top \in ms.open
    /\ ms' = Close(ms, Top)
    /\ UNCHANGED <<env, value, young, pointer>>

\* The application sets value.
SetValue(v) ==
    /\ v # value
    /\ value' = v
    /\ ms' = IF Top \in ms.open THEN ShowValue(ms, v) ELSE ms
    /\ UNCHANGED <<env, young, pointer>>

\* The application sets items: new menu items know of no submenu.
NeedToRecreateItems ==
    /\ "items" \in env /\ Top \in ms.open
    /\ ms' = ShowValue([ms EXCEPT !.linked = @ \ ToSet(MenuItems[Top])], value)
    /\ UNCHANGED <<env, value, young, pointer>>

Next ==
    \/ OpenMenu \/ GrowOld
    \/ \E increment \in {-1, 1} : MoveUpOrDown(increment)
    \/ MoveRight \/ MoveLeft \/ Cancel \/ InsertNewline
    \/ Responder \in ms.open /\ \E i \in Items : KeySearch(i)
    \/ \E m \in Menus : \E i \in ToSet(MenuItems[m]) :
          MouseEntered(m, i) \/ MouseClicked(m, i)
    \/ \E m \in Menus : ClickMargin(m)
    \/ ClickOutside
    \/ \E v \in {i \in Items : IsSelectable(i)} : SetValue(v)
    \/ NeedToRecreateItems

Spec == Init /\ [][Next]_vars

------------------------------------------------------------------------------
(* Properties. *)

\* Every variable has its type.
TypeOK ==
    /\ env \in Environments
    /\ ms.open \subseteq Menus /\ ms.linked \subseteq Menus
    /\ \A m \in Menus : /\ ms.high[m] \in ToSet(MenuItems[m]) \cup {None}
                        /\ ms.user[m] \in ToSet(MenuItems[m]) \cup {None}
                        /\ ms.internal[m] \in Items \cup {None}
    /\ ms.stack \in Seq(Menus \cup {Other})
    /\ value \in Items \cup {None}
    /\ young \in BOOLEAN /\ pointer \in Items \cup {None}

\* A submenu is open only while its item is highlighted in an open menu:
\* observers of _highlightIndex close every menu underneath.  So when the menu
\* is closed, by whichever of its ways, no submenu is left, and the key responder
\* is the one from before.  New items know of no submenu that is open, so it
\* stays when they are set.  Variables have their types.
OpenMenusAreAPath ==
    /\ TypeOK
    /\ "items" \notin env =>
          /\ \A m \in ms.open \ {Top} : /\ MenuOf(m) \in ms.open
                                        /\ ms.high[MenuOf(m)] = m
                                        /\ m \in ms.linked
          /\ Top \notin ms.open => ms.stack = <<Other>>

\* Keys go to the deepest open menu, and _internalSelection of the topmost menu
\* is what is highlighted there, if that can be selected; unless the mouse moves
\* the focus to another menu or the items are replaced.
DeepestMenuDecides == env = {} =>
    \A m \in ms.open :
        (\A n \in ms.open : m \notin ParentMenus(n) \/ n = m) =>
            /\ Responder = m
            /\ ms.internal[Top] = IF ms.high[m] # None /\ IsSelectable(ms.high[m])
                                  THEN ms.high[m] ELSE None

\* The value changes to that of an item that can be selected: one that is
\* enabled and opens no submenu.  When the mouse goes back to the item of an
\* open submenu the code selects that item itself.
OnlySelectableChosen == "back" \notin env /\ value # None => IsSelectable(value)

\* Together: what is highlighted deepest decides, and what is chosen can be chosen.
DeepestSelectableChosen == DeepestMenuDecides /\ OnlySelectableChosen

=============================================================================
