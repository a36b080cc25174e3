--------------------------- MODULE KeyResponders ---------------------------
(***************************************************************************)
(* The key responder stack (mixins/event_manager.js), the calls views make *)
(* on it, and the coupling of text inputs to the browser's own focus       *)
(* (mixins/focus_support.js).                                              *)
(*                                                                         *)
(* One handler of the program often makes several calls on the stack, and  *)
(* a call on the stack can move the DOM focus, whose events call the stack *)
(* again, all synchronously.  So the state these calls share is one record *)
(*     [stack, focused, active, ticks]                                     *)
(* and every call is an operator from such a record to the next one:       *)
(*   stack    keyResponderStack._stack, the current responder last         *)
(*   focused  the views whose isFocused is true                            *)
(*   active   the field that is document.activeElement, or NoView          *)
(*   ticks    the fields whose deferred focus (Ember.run.next) is pending  *)
(* A "field" is the inner Ember.TextField or TextArea of a Flame text      *)
(* view.  A responder that is not an Ember.View does not occur in the      *)
(* repository, so its blur() in replace is left out.                       *)
(***************************************************************************)
EXTENDS Integers, Sequences, FiniteSets, SequencesExt, Functions

CONSTANTS
    Panels,     \* the panel instances of the application
    Fields,     \* the text inputs
    NoView,     \* undefined
    Page,       \* the home of a field that is in no panel
    Home        \* where each field is rendered: in a panel or on the page

ASSUME ViewAssumption ==
    /\ Panels \cap Fields = {}
    /\ NoView \notin Panels \cup Fields
    /\ Page \notin Panels \cup Fields
    /\ Home \in [Fields -> Panels \cup {Page}]
    /\ IsFiniteSet(Panels)

Views == Panels \cup Fields

VARIABLES
    kr,         \* the key responder record described above
    dom,        \* the panels in the document body, in the order appended
    destroyed   \* the panels whose isDestroyed is true

KRecord == [stack : Seq(Views), focused : SUBSET Views,
            active : Fields \cup {NoView}, ticks : Seq(Fields)]

\* The field's element is in the document, so that this.$() finds it.
InDOM(f) == Home[f] = Page \/ Home[f] \in Range(dom)

\* keyResponderStack.current()
Current(s) == IF s.stack = <<>> THEN NoView ELSE s.stack[Len(s.stack)]

\* keyResponderStack.push(view), with FocusSupport.didBecomeKeyResponder when
\* the view is a field: it defers focusing its element to the next run loop.
Push(s, v) ==
    [s EXCEPT !.stack = Append(@, v),
              !.focused = IF v \in destroyed THEN @ ELSE @ \cup {v},
              !.ticks = IF v \in Fields /\ InDOM(v) THEN Append(@, v) ELSE @]

\* Mutant of PopHead: isFocused is not reset.
PopHeadKeepingFocus(s) ==
    IF s.stack = <<>> THEN s ELSE [s EXCEPT !.stack = SubSeq(@, 1, Len(@) - 1)]

\* The stack part of keyResponderStack.pop().
PopHead(s) ==
    IF s.stack = <<>>
    THEN s
    ELSE [s EXCEPT !.stack = SubSeq(@, 1, Len(@) - 1),
                   !.focused = IF Current(s) \in destroyed THEN @ ELSE @ \ {Current(s)}]

\* Mutant of FocusOut: it resigns without being the current key responder.
FocusOutUnchecked(s, f) == IF f # NoView THEN PopHead(s) ELSE s

\* FocusSupport.focusOut of field f, the document itself keeping the focus.
\* f no longer is the active element, so the blur of its didLoseKeyResponder
\* has no further effect and the pop is the stack part only.
FocusOut(s, f) == IF f # NoView /\ Current(s) = f THEN PopHead(s) ELSE s

\* The browser takes the focus away from the active element.
Blur(s) == FocusOut([s EXCEPT !.active = NoView], s.active)

\* keyResponderStack.pop(), with FocusSupport.didLoseKeyResponder: the blur
\* of the popped field fires focusOut, after the field has left the stack.
Pop(s) ==
    IF s.active # NoView /\ Current(s) = s.active
    THEN Blur(PopHead(s))
    ELSE PopHead(s)

\* Mutant of Replace: the current responder is not popped.
ReplaceWithoutPop(s, v) == IF Current(s) = v THEN s ELSE Push(s, v)

\* keyResponderStack.replace(view)
Replace(s, v) == IF Current(s) = v THEN s ELSE Push(Pop(s), v)

\* FocusSupport.focusIn of field f
FocusIn(s, f) == IF Current(s) = f THEN s ELSE Replace(s, f)

\* The browser moves the focus to field f: focusOut of the element that had
\* it, then focusIn of f.
DomFocus(s, f) ==
    IF s.active = f THEN s ELSE FocusIn([Blur(s) EXCEPT !.active = f], f)

\* Mutant of RunTick: the element is focused only if none is active.
RunTickIfNoneActive(s) ==
    LET f == Head(s.ticks)
        t == [s EXCEPT !.ticks = Tail(@)]
    IN  IF InDOM(f) /\ s.active = NoView THEN DomFocus(t, f) ELSE t

\* The function deferred by FocusSupport.didBecomeKeyResponder, for the field
\* at the head of ticks: it only looks at the active element, and focusing
\* an element that has left the document does nothing.
RunTick(s) ==
    LET f == Head(s.ticks)
        t == [s EXCEPT !.ticks = Tail(@)]
    IN  IF InDOM(f) THEN DomFocus(t, f) ELSE t

=============================================================================
