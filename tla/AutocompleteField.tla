------------------------- MODULE AutocompleteField -------------------------
(***************************************************************************)
(* A text field with autocompletion: the delayed value of TextField        *)
(* (views/text_field_view.js), the debounced requests of                   *)
(* AutocompleteTextFieldView and its statechart of one request under way   *)
(* and one queued query (views/autocomplete_text_field_view.js).  The      *)
(* delegate that answers the requests is the application's: it takes a     *)
(* request or refuses it, and answers one it took with                     *)
(* didFetchAutocompleteResults, or not, and then                           *)
(* didFinishAutocompleteRequest.                                           *)
(*                                                                         *)
(* An answer that comes after the field is destroyed is left out.          *)
(***************************************************************************)
EXTENDS Integers

CONSTANTS
    Queries,    \* texts, other than the empty one
    Empty,      \* the empty text
    None,       \* null
    MaxKeys,    \* how many keys are pressed in all
    FieldEnvironments \* what may happen, see fieldEnv

ASSUME FieldAssumption ==
    /\ Empty \notin Queries /\ None \notin Queries /\ Empty # None
    /\ None \notin {"char", "control"}
    /\ MaxKeys \in Nat
    /\ FieldEnvironments \subseteq
          SUBSET {"eachKeyUp", "clear", "control", "set", "refuse", "destroy"}

Texts == Queries \cup {Empty}

VARIABLES
    text,       \* what the input element shows
    value,      \* the value of the view
    timer,      \* TextField._timer: "unset", "pending" or "fired"
    debounce,   \* the last key the debounced call got, None if there is none
    state,      \* currentFlameState
    queued,     \* _lastQueuedQuery
    asked,      \* the query the delegate was asked last
    fetched,    \* it has answered with results
    menu,       \* the query whose results the menu shows, None if it is closed
    alive,      \* the field is not destroyed
    keyCount,       \* keys pressed so far
    typed,      \* the text is a query that was typed, not set
    fieldEnv         \* one of FieldEnvironments, for good: setValueOnEachKeyUp, the text
                \* is cleared, other keys, a value set by the application, a
                \* delegate that refuses, the field is destroyed

fieldVars == <<text, value, timer, debounce, state, queued, asked, fetched, menu, alive,
               keyCount, typed, fieldEnv>>

FieldInit ==
    /\ text = Empty /\ value = Empty
    /\ timer = "unset"
    /\ debounce = None
    /\ state = "idle"
    /\ queued = None /\ asked = None /\ fetched = FALSE /\ menu = None
    /\ alive = TRUE
    /\ keyCount = 0
    /\ typed = FALSE
    /\ fieldEnv \in FieldEnvironments

-----------------------------------------------------------------------------
(* Typing *)

\* _setValue: the value is set at once, or a timer of 700 ms starts anew.
SetValue(t) ==
    IF "eachKeyUp" \in fieldEnv
    THEN value' = t /\ UNCHANGED timer
    ELSE timer' = "pending" /\ UNCHANGED value

\* A key that changes the text: an input and a keyUp event.
Type(t) ==
    /\ alive /\ keyCount < MaxKeys
    /\ t # text
    /\ t = Empty => "clear" \in fieldEnv
    /\ text' = t
    /\ SetValue(t)
    /\ debounce' = "char"
    /\ keyCount' = keyCount + 1
    /\ typed' = (t # Empty)
    /\ UNCHANGED <<state, queued, asked, fetched, menu, alive, fieldEnv>>

\* Another key, such as Shift: a keyUp event that replaces the debounced one.
ControlKey ==
    /\ "control" \in fieldEnv
    /\ alive /\ keyCount < MaxKeys
    /\ debounce' = "control"
    /\ keyCount' = keyCount + 1
    /\ UNCHANGED <<text, value, timer, state, queued, asked, fetched, menu, alive, typed, fieldEnv>>

\* The timer of _setValue, and insertNewline, which does not cancel it.
ValueTimer ==
    /\ timer = "pending"
    /\ timer' = "fired"
    /\ value' = text
    /\ UNCHANGED <<text, debounce, state, queued, asked, fetched, menu, alive,
                   keyCount, typed, fieldEnv>>

InsertNewline ==
    /\ alive
    /\ value # text
    /\ value' = text
    /\ UNCHANGED <<text, timer, debounce, state, queued, asked, fetched, menu, alive,
                   keyCount, typed, fieldEnv>>

\* The application sets the value, and the element follows.
SetFromOutside(v) ==
    /\ "set" \in fieldEnv
    /\ alive /\ keyCount < MaxKeys
    /\ v # value
    /\ value' = v /\ text' = v /\ typed' = FALSE
    /\ keyCount' = keyCount + 1
    /\ UNCHANGED <<timer, debounce, state, queued, asked, fetched, menu, alive, fieldEnv>>

\* willDestroyElement takes over the text if there ever was a timer.
ValueWhenDestroyed == IF timer = "unset" THEN value ELSE text

Destroy ==
    /\ "destroy" \in fieldEnv
    /\ alive
    /\ alive' = FALSE
    /\ value' = ValueWhenDestroyed
    /\ timer' = IF timer = "pending" THEN "fired" ELSE timer
    /\ debounce' = None
    /\ UNCHANGED <<text, state, queued, asked, fetched, menu, keyCount, typed, fieldEnv>>

-----------------------------------------------------------------------------
(* Requests *)

\* doAutocompleteRequest in the state idle; entering the state requesting, and
\* a query that is empty or refused, close the menu.
RequestWhenIdle(q) ==
    /\ menu' = None
    /\ \/ /\ q # Empty
          /\ state' = "requesting" /\ asked' = q /\ fetched' = FALSE
       \/ /\ q # Empty /\ "refuse" \in fieldEnv
          /\ state' = "idle" /\ asked' = q /\ fetched' = FALSE
       \/ /\ q = Empty
          /\ state' = "idle" /\ UNCHANGED <<asked, fetched>>

\* Mutant of Queue: only the first query that has to wait is kept.
QueueFirst(q) == IF queued = None THEN q ELSE queued

\* doAutocompleteRequest in the state requesting.
Queue(q) == IF q = Empty THEN queued ELSE q

\* autocompleteAction, 500 ms after the last key: ignored if that was not a
\* character or backspace.
AutocompleteAction ==
    /\ debounce # None
    /\ debounce' = None
    /\ IF debounce = "control" THEN UNCHANGED <<state, queued, asked, fetched, menu>>
       ELSE IF state = "idle" THEN RequestWhenIdle(text) /\ UNCHANGED queued
       ELSE queued' = Queue(text) /\ UNCHANGED <<state, asked, fetched, menu>>
    /\ UNCHANGED <<text, value, timer, alive, keyCount, typed, fieldEnv>>

\* The results are shown: there are some, and no query is queued that would
\* replace them.
ShowsResults(found) == found /\ queued = None

\* didFetchAutocompleteResults; no results close the menu.
DidFetch(found) ==
    /\ alive
    /\ state = "requesting" /\ ~fetched
    /\ fetched' = TRUE
    /\ menu' = IF ShowsResults(found) THEN asked ELSE IF found THEN menu ELSE None
    /\ UNCHANGED <<text, value, timer, debounce, state, queued, asked, alive,
                   keyCount, typed, fieldEnv>>

\* Mutant of DidFinish: the field goes to idle only if results came.
DidFinishIfFetched ==
    /\ alive
    /\ state = "requesting" /\ fetched
    /\ IF queued = None
       THEN state' = "idle" /\ UNCHANGED <<queued, asked, fetched, menu>>
       ELSE queued' = None /\ RequestWhenIdle(queued)
    /\ UNCHANGED <<text, value, timer, debounce, alive, keyCount, typed, fieldEnv>>

\* didFinishAutocompleteRequest: entering idle sends the queued query.
DidFinish ==
    /\ alive
    /\ state = "requesting"
    /\ IF queued = None
       THEN state' = "idle" /\ UNCHANGED <<queued, asked, fetched, menu>>
       ELSE queued' = None /\ RequestWhenIdle(queued)
    /\ UNCHANGED <<text, value, timer, debounce, alive, keyCount, typed, fieldEnv>>

\* An item of the menu is chosen: _selectAutocompleteItem, and the menu closes.
SelectItem(t) ==
    /\ alive /\ menu # None
    /\ value' = t /\ text' = t /\ typed' = FALSE
    /\ menu' = None
    /\ UNCHANGED <<timer, debounce, state, queued, asked, fetched, alive, keyCount, fieldEnv>>

CancelMenu ==
    /\ alive /\ menu # None
    /\ menu' = None
    /\ UNCHANGED <<text, value, timer, debounce, state, queued, asked, fetched, alive,
                   keyCount, typed, fieldEnv>>

FieldNext ==
    \/ \E t \in Texts : Type(t)
    \/ ControlKey
    \/ ValueTimer
    \/ InsertNewline
    \/ \E v \in Texts : SetFromOutside(v)
    \/ Destroy
    \/ AutocompleteAction
    \/ \E found \in BOOLEAN : DidFetch(found)
    \/ DidFinish
    \/ \E t \in Queries : SelectItem(t)
    \/ CancelMenu

FieldSpec == FieldInit /\ [][FieldNext]_fieldVars

\* Timers run, and the delegate answers the requests it takes.
FieldFairSpec ==
    /\ FieldSpec /\ WF_fieldVars(ValueTimer)
    /\ WF_fieldVars(AutocompleteAction) /\ WF_fieldVars(DidFinish)

-----------------------------------------------------------------------------
(* Properties *)

\* Type correctness.
FieldTypeOK ==
    /\ text \in Texts /\ value \in Texts
    /\ timer \in {"unset", "pending", "fired"}
    /\ debounce \in {None, "char", "control"}
    /\ state \in {"idle", "requesting"}
    /\ queued \in Queries \cup {None} /\ asked \in Queries \cup {None}
    /\ menu \in Queries \cup {None}
    /\ fetched \in BOOLEAN /\ alive \in BOOLEAN /\ keyCount \in 0..MaxKeys
    /\ typed \in BOOLEAN /\ fieldEnv \in FieldEnvironments

\* The menu never shows results of an earlier query than the last one asked.
\* Variables have their types.
MenuIsForLastQuery == FieldTypeOK /\ (menu # None => menu = asked /\ fetched)

\* When typing has stopped and the requests are done, the text typed last is
\* the one that was asked last, though queries were debounced, queued and
\* replaced: none gets stuck in the queue.  (A key such as Shift, though, takes
\* the place of the debounced call of the character before it.)
SettledTextWasAsked ==
    "control" \notin fieldEnv /\ alive /\ debounce = None /\ state = "idle" /\ typed => asked = text

\* Together: the menu and the last request belong to what was typed last.
AnswersMatchText == MenuIsForLastQuery /\ SettledTextWasAsked

\* Typing and requests settle, and the value of the view catches up with the text,
\* also if the field is destroyed before the delayed value is set.
Settles == <>[](value = text /\ (alive => debounce = None /\ state = "idle"))
=============================================================================
