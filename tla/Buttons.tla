------------------------------ MODULE Buttons ------------------------------
(***************************************************************************)
(* Buttons (views/button_view.js, a statechart) and the mouse responder    *)
(* (mixins/event_manager.js), which sends the mouseUp to the view that     *)
(* handled the mouseDown, wherever the pointer is by then.  Buttons are    *)
(* pressed with the mouse, by touch, and by simulateClick (Space, and      *)
(* Enter for the default button of a panel), which presses at once and     *)
(* releases with a timer.                                                  *)
(*                                                                         *)
(* That a mouseDown also makes the view key responder is in Panels.        *)
(* isHovered and isActive are what the state of the statechart says;       *)
(* isSelected, which every click of a sticky button toggles, is left out.  *)
(***************************************************************************)
EXTENDS Integers, FiniteSets, TLC

CONSTANTS
    Buttons,
    Nowhere,    \* a place, or a view, that is no button
    MaxHeld,    \* mouse buttons that can be held at once
    MaxTimers,  \* most timers of one button
    Environments \* what happens besides the mouse, see env

ASSUME ButtonAssumption ==
    /\ Nowhere \notin Buttons
    /\ MaxHeld \in Nat /\ MaxTimers \in Nat
    /\ Environments \subseteq SUBSET {"simulate", "touch", "disable", "remove", "destroy"}

VARIABLES
    state,      \* currentFlameState of each button
    disabled,   \* the buttons with isDisabled
    view,       \* "inDOM", "removed" or "destroyed"
    responder,  \* mouseResponder.current
    pointer,    \* the button under the pointer
    held,       \* how many mouse buttons are held
    touched,    \* the buttons being touched
    timers,     \* the scheduled releases: how many, of which kind
    credit,     \* 1 if the button was pressed since its last action; -1 if an
                \* action was fired without a press
    env         \* what happens besides the mouse, one of Environments for good:
                \* "simulate", "touch", "disable", "remove", "destroy"

vars == <<state, disabled, view, responder, pointer, held, touched, timers, credit, env>>

States == {"idle", "hover", "mouseDownInside", "mouseDownOutside"}
Pressed == {"mouseDownInside", "mouseDownOutside"}
TimerKinds == {"up", "upAndLeave"}

\* Mutant of Handlers: after a click the button stays pressed.
HandlersStayingDown ==
    {<<"idle", "mouseEnter", "hover">>, <<"idle", "touchStart", "mouseDownInside">>,
     <<"hover", "mouseLeave", "idle">>, <<"hover", "mouseDown", "mouseDownInside">>,
     <<"mouseDownInside", "mouseLeave", "mouseDownOutside">>,
     <<"mouseDownOutside", "mouseUp", "idle">>,
     <<"mouseDownOutside", "mouseEnter", "mouseDownInside">>}

\* The event handlers of the four states, and the state each goes to.
Handlers ==
    {<<"idle", "mouseEnter", "hover">>, <<"idle", "touchStart", "mouseDownInside">>,
     <<"hover", "mouseLeave", "idle">>, <<"hover", "mouseDown", "mouseDownInside">>,
     <<"mouseDownInside", "mouseUp", "hover">>, <<"mouseDownInside", "touchEnd", "idle">>,
     <<"mouseDownInside", "mouseLeave", "mouseDownOutside">>,
     <<"mouseDownOutside", "mouseUp", "idle">>,
     <<"mouseDownOutside", "mouseEnter", "mouseDownInside">>}

\* The state an event leads to, by invokeStateMethod and gotoFlameState.  Only
\* mouseDown looks at isDisabled.
GotoState(b, s, event) ==
    LET targets == {h[3] : h \in {h \in Handlers : h[1] = s /\ h[2] = event}}
    IN  IF targets = {} \/ (event = "mouseDown" /\ b \in disabled)
        THEN s ELSE CHOOSE t \in targets : TRUE

\* _handleClick is called: the action is fired.
Fires(s, event) == s = "mouseDownInside" /\ event \in {"mouseUp", "touchEnd"}

\* What events do to button b: a press is noted, an action uses it up.
Credit(b, s, event, c) ==
    IF Fires(s, event) THEN c - 1
    ELSE IF event \in {"mouseDown", "touchStart"} /\ GotoState(b, s, event) # s THEN 1
    ELSE c

\* The events ev[b], one for each button of their domain, are delivered.
Deliver(ev) ==
    /\ state' = [b \in Buttons |->
                   IF b \in DOMAIN ev THEN GotoState(b, state[b], ev[b]) ELSE state[b]]
    /\ credit' = [b \in Buttons |->
                   IF b \in DOMAIN ev THEN Credit(b, state[b], ev[b], credit[b]) ELSE credit[b]]
    /\ UNCHANGED env

\* The event e is delivered to the view v, if that is a button.
DeliverTo(v, e) == Deliver([b \in Buttons \cap {v} |-> e])

Init ==
    /\ state = [b \in Buttons |-> "idle"]
    /\ disabled = {}
    /\ view = [b \in Buttons |-> "inDOM"]
    /\ responder = Nowhere
    /\ pointer = Nowhere
    /\ held = 0
    /\ touched = {}
    /\ timers = [b \in Buttons |-> [k \in TimerKinds |-> 0]]
    /\ credit = [b \in Buttons |-> 0]
    /\ env \in Environments

-----------------------------------------------------------------------------
(* The mouse *)

\* The browser sends mouseLeave and mouseEnter whether or not a button is held.
MovePointer(to) ==
    /\ to # pointer
    /\ to \in Buttons => view[to] = "inDOM"
    /\ pointer' = to
    /\ Deliver([b \in Buttons \cap {pointer, to} |->
                  IF b = to THEN "mouseEnter" ELSE "mouseLeave"])
    /\ UNCHANGED <<disabled, view, responder, held, touched, timers>>

\* The view that handles a mouseDown on v: a hovered button does, even if it
\* is disabled.
RespondingView(v) == IF v # Nowhere /\ state[v] = "hover" THEN v ELSE Nowhere

\* eventManager.mouseDown
MouseDown ==
    /\ held < MaxHeld
    /\ held' = held + 1
    /\ responder' = RespondingView(pointer)
    /\ DeliverTo(pointer, "mouseDown")
    /\ UNCHANGED <<disabled, view, pointer, touched, timers>>

\* eventManager.mouseUp, or the handler of window if no view is under the
\* pointer.  A responder that is not in the document stays the responder, and
\* nobody gets the event.
MouseUp ==
    /\ held > 0
    /\ held' = held - 1
    /\ IF responder # Nowhere /\ view[responder] # "inDOM"
       THEN UNCHANGED <<state, credit, env, responder>>
       ELSE /\ DeliverTo(IF responder # Nowhere THEN responder ELSE pointer, "mouseUp")
            /\ responder' = Nowhere
    /\ UNCHANGED <<disabled, view, pointer, touched, timers>>

-----------------------------------------------------------------------------
(* Touch *)

TouchStart(b) ==
    /\ "touch" \in env
    /\ view[b] = "inDOM" /\ b \notin touched
    /\ touched' = touched \cup {b}
    /\ DeliverTo(b, "touchStart")
    /\ UNCHANGED <<disabled, view, responder, pointer, held, timers>>

TouchEnd(b) ==
    /\ b \in touched
    /\ touched' = touched \ {b}
    /\ DeliverTo(b, "touchEnd")
    /\ UNCHANGED <<disabled, view, responder, pointer, held, timers>>

-----------------------------------------------------------------------------
(* simulateClick *)

\* simulateClick of the states idle, which goes to hover first, and hover: a
\* mouseDown and a timer.  The states of a pressed button have none.
SimulateClick(b) ==
    LET kind == IF state[b] = "idle" THEN "upAndLeave" ELSE "up"
    IN  /\ "simulate" \in env
        /\ view[b] = "inDOM"
        /\ state[b] \notin Pressed
        /\ timers[b][kind] < MaxTimers
        /\ timers' = [timers EXCEPT ![b][kind] = @ + 1]
        /\ state' = [state EXCEPT ![b] = GotoState(b, "hover", "mouseDown")]
        /\ credit' = IF b \in disabled THEN credit ELSE [credit EXCEPT ![b] = 1]
        /\ UNCHANGED <<disabled, view, responder, pointer, held, touched, env>>

\* The timer of hover's simulateClick, after 100 ms: mouseUp.
ReleaseUp(b) ==
    /\ timers[b]["up"] > 0
    /\ timers' = [timers EXCEPT ![b]["up"] = @ - 1]
    /\ DeliverTo(b, "mouseUp")
    /\ UNCHANGED <<disabled, view, responder, pointer, held, touched>>

\* The timer of idle's simulateClick, after 150 ms: mouseUp and mouseLeave.
ReleaseUpAndLeave(b) ==
    LET mid == GotoState(b, state[b], "mouseUp")
        end == GotoState(b, mid, "mouseLeave")
    IN  /\ timers[b]["upAndLeave"] > 0
        /\ timers' = [timers EXCEPT ![b]["upAndLeave"] = @ - 1]
        /\ state' = [state EXCEPT ![b] = end]
        /\ credit' = [credit EXCEPT ![b] = Credit(b, state[b], "mouseUp", @)]
        /\ UNCHANGED <<disabled, view, responder, pointer, held, touched, env>>

-----------------------------------------------------------------------------
(* The application *)

SetDisabled(b) ==
    /\ "disable" \in env
    /\ view[b] # "destroyed"
    /\ disabled' = IF b \in disabled THEN disabled \ {b} ELSE disabled \cup {b}
    /\ UNCHANGED <<state, view, responder, pointer, held, touched, timers,
                   credit, env>>

\* A button leaves the document, for good or not.  No event tells it so, and
\* its timers go on.
Leave(b, how) ==
    /\ view' = [view EXCEPT ![b] = how]
    /\ pointer' = IF pointer = b THEN Nowhere ELSE pointer
    /\ touched' = touched \ {b}
    /\ UNCHANGED <<state, disabled, responder, held, timers, credit, env>>

RemoveView(b) == "remove" \in env /\ view[b] = "inDOM" /\ Leave(b, "removed")

Destroy(b) == "destroy" \in env /\ view[b] # "destroyed" /\ Leave(b, "destroyed")

\* It is inserted again, not under the pointer.
InsertView(b) ==
    /\ view[b] = "removed"
    /\ view' = [view EXCEPT ![b] = "inDOM"]
    /\ UNCHANGED <<state, disabled, responder, pointer, held, touched, timers,
                   credit, env>>

Next ==
    \/ \E to \in Buttons \cup {Nowhere} : MovePointer(to)
    \/ MouseDown
    \/ MouseUp
    \/ \E b \in Buttons :
          \/ TouchStart(b) \/ TouchEnd(b)
          \/ SimulateClick(b) \/ ReleaseUp(b) \/ ReleaseUpAndLeave(b)
          \/ SetDisabled(b) \/ RemoveView(b) \/ InsertView(b) \/ Destroy(b)

Spec == Init /\ [][Next]_vars

\* A mouse button and a finger do not stay down for ever, and timers run.
FairSpec ==
    /\ Spec
    /\ WF_vars(MouseUp)
    /\ \A b \in Buttons : /\ WF_vars(TouchEnd(b))
                          /\ WF_vars(ReleaseUp(b))
                          /\ WF_vars(ReleaseUpAndLeave(b))

-----------------------------------------------------------------------------
(* Properties *)

\* Type correctness.
TypeOK ==
    /\ state \in [Buttons -> States]
    /\ disabled \subseteq Buttons /\ touched \subseteq Buttons
    /\ view \in [Buttons -> {"inDOM", "removed", "destroyed"}]
    /\ responder \in Buttons \cup {Nowhere} /\ pointer \in Buttons \cup {Nowhere}
    /\ held \in 0..MaxHeld
    /\ timers \in [Buttons -> [TimerKinds -> 0..MaxTimers]]
    /\ credit \in [Buttons -> -1..1]
    /\ env \in Environments

\* A button fires its action at most once for each time it is pressed, however
\* mouse, touch and the timers of simulated clicks come together.  Variables
\* have their types.
OneActionPerPress == TypeOK /\ \A b \in Buttons : credit[b] >= 0

\* The button under the pointer is hovered, ready to handle a mouseDown, when
\* no mouse button is held; and no other button is (nothing but the mouse
\* presses them).
ReadyUnderPointer ==
    env \subseteq {"disable"} /\ held = 0 =>
        \A b \in Buttons : state[b] = IF pointer = b THEN "hover" ELSE "idle"

\* Together: presses lead to one action each and leave the buttons as they look.
PressesAccountedFor == OneActionPerPress /\ ReadyUnderPointer

\* No button stays pressed for ever, whatever clicks and timers overlap, without
\* touch and without buttons that leave the document while pressed.
PressEnds ==
    \A b \in Buttons :
        []<>(env \subseteq {"simulate", "disable"} => state[b] \notin Pressed)
=============================================================================
