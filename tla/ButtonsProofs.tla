---------------------------- MODULE ButtonsProofs ----------------------------
(***************************************************************************)
(* Invariance proofs for Buttons, for every set of buttons, any number of  *)
(* mouse buttons held and of timers pending, and every environment: mouse, *)
(* touch and simulated clicks interleave, and buttons are disabled,        *)
(* removed and destroyed at any time.                                      *)
(***************************************************************************)
EXTENDS Buttons, TLAPS

Events == {"mouseEnter", "mouseLeave", "mouseDown", "mouseUp", "touchStart", "touchEnd"}

-----------------------------------------------------------------------------
(* The statechart *)

\* An event with one handler in a state leads to the state of that handler.
LEMMA GotoHandled ==
    ASSUME NEW b, NEW s, NEW event, NEW t,
           <<s, event, t>> \in Handlers,
           \A h \in Handlers : h[1] = s /\ h[2] = event => h[3] = t,
           ~ (event = "mouseDown" /\ b \in disabled)
    PROVE  GotoState(b, s, event) = t
  <1> DEFINE targets == {h[3] : h \in {h \in Handlers : h[1] = s /\ h[2] = event}}
  <1>1. targets = {t}
    <2>1. t \in targets
      <3>1. <<s, event, t>> \in {h \in Handlers : h[1] = s /\ h[2] = event}
        OBVIOUS
      <3>2. <<s, event, t>>[3] = t
        OBVIOUS
      <3>3. QED BY <3>1, <3>2
    <2>2. \A u \in targets : u = t
      OBVIOUS
    <2>3. QED BY <2>1, <2>2
  <1> HIDE DEF targets
  <1>2. (CHOOSE u \in targets : TRUE) = t
    BY <1>1
  <1>3. QED
    BY <1>1, <1>2 DEF GotoState, targets

\* An event without a handler leaves the state as it is.
LEMMA GotoIgnored ==
    ASSUME NEW b, NEW s, NEW event,
           \/ \A h \in Handlers : ~ (h[1] = s /\ h[2] = event)
           \/ event = "mouseDown" /\ b \in disabled
    PROVE  GotoState(b, s, event) = s
  BY DEF GotoState

\* The statechart of ButtonView as a table.
LEMMA GotoTable ==
    ASSUME NEW b, NEW s \in States, NEW event \in Events
    PROVE  GotoState(b, s, event) =
             IF s = "idle"
             THEN IF event = "mouseEnter" THEN "hover"
                  ELSE IF event = "touchStart" THEN "mouseDownInside" ELSE s
             ELSE IF s = "hover"
             THEN IF event = "mouseLeave" THEN "idle"
                  ELSE IF event = "mouseDown" /\ b \notin disabled
                       THEN "mouseDownInside" ELSE s
             ELSE IF s = "mouseDownInside"
             THEN IF event = "mouseUp" THEN "hover"
                  ELSE IF event = "touchEnd" THEN "idle"
                  ELSE IF event = "mouseLeave" THEN "mouseDownOutside" ELSE s
             ELSE IF event = "mouseUp" THEN "idle"
                  ELSE IF event = "mouseEnter" THEN "mouseDownInside" ELSE s
  <1>1. CASE s = "idle"
    <2>1. CASE event = "mouseEnter"
      BY <1>1, <2>1, GotoHandled DEF Handlers
    <2>2. CASE event = "touchStart"
      BY <1>1, <2>2, GotoHandled DEF Handlers
    <2>3. CASE event \notin {"mouseEnter", "touchStart"}
      <3>1. \A h \in Handlers : ~ (h[1] = s /\ h[2] = event)
        BY <1>1, <2>3 DEF Handlers
      <3>2. QED BY <1>1, <2>3, <3>1, GotoIgnored
    <2>4. QED BY <1>1, <2>1, <2>2, <2>3
  <1>2. CASE s = "hover"
    <2>1. CASE event = "mouseLeave"
      BY <1>2, <2>1, GotoHandled DEF Handlers
    <2>2. CASE event = "mouseDown" /\ b \notin disabled
      BY <1>2, <2>2, GotoHandled DEF Handlers
    <2>3. CASE event = "mouseDown" /\ b \in disabled
      BY <1>2, <2>3, GotoIgnored
    <2>4. CASE event \notin {"mouseLeave", "mouseDown"}
      <3>1. \A h \in Handlers : ~ (h[1] = s /\ h[2] = event)
        BY <1>2, <2>4 DEF Handlers
      <3>2. QED BY <1>2, <2>4, <3>1, GotoIgnored
    <2>5. QED BY <1>2, <2>1, <2>2, <2>3, <2>4
  <1>3. CASE s = "mouseDownInside"
    <2>1. CASE event = "mouseUp"
      BY <1>3, <2>1, GotoHandled DEF Handlers
    <2>2. CASE event = "touchEnd"
      BY <1>3, <2>2, GotoHandled DEF Handlers
    <2>3. CASE event = "mouseLeave"
      BY <1>3, <2>3, GotoHandled DEF Handlers
    <2>4. CASE event \notin {"mouseUp", "touchEnd", "mouseLeave"}
      <3>1. \A h \in Handlers : ~ (h[1] = s /\ h[2] = event)
        BY <1>3, <2>4 DEF Handlers
      <3>2. QED BY <1>3, <2>4, <3>1, GotoIgnored
    <2>5. QED BY <1>3, <2>1, <2>2, <2>3, <2>4
  <1>4. CASE s = "mouseDownOutside"
    <2>1. CASE event = "mouseUp"
      BY <1>4, <2>1, GotoHandled DEF Handlers
    <2>2. CASE event = "mouseEnter"
      BY <1>4, <2>2, GotoHandled DEF Handlers
    <2>3. CASE event \notin {"mouseUp", "mouseEnter"}
      <3>1. \A h \in Handlers : ~ (h[1] = s /\ h[2] = event)
        BY <1>4, <2>3 DEF Handlers
      <3>2. QED BY <1>4, <2>3, <3>1, GotoIgnored
    <2>4. QED BY <1>4, <2>1, <2>2, <2>3
  <1>5. QED BY <1>1, <1>2, <1>3, <1>4 DEF States

-----------------------------------------------------------------------------
(* One action per press *)

\* A pressed button has a press that no action has used up: the property alone
\* does not say that the next release may fire.
PressInv ==
    /\ OneActionPerPress
    /\ \A b \in Buttons : state[b] \in Pressed => credit[b] = 1

\* What one event does to a button keeps its press and its state together.
LEMMA EventKeepsPress ==
    ASSUME NEW b, NEW s \in States, NEW event \in Events, NEW c \in 0..1,
           s \in Pressed => c = 1
    PROVE  /\ GotoState(b, s, event) \in States
           /\ Credit(b, s, event, c) \in 0..1
           /\ GotoState(b, s, event) \in Pressed => Credit(b, s, event, c) = 1
  <1>1. CASE s = "idle"
    BY <1>1, GotoTable DEF Credit, Fires, Events, States, Pressed
  <1>2. CASE s = "hover"
    BY <1>2, GotoTable DEF Credit, Fires, Events, States, Pressed
  <1>3. CASE s = "mouseDownInside"
    BY <1>3, GotoTable DEF Credit, Fires, Events, States, Pressed
  <1>4. CASE s = "mouseDownOutside"
    BY <1>4, GotoTable DEF Credit, Fires, Events, States, Pressed
  <1>5. QED BY <1>1, <1>2, <1>3, <1>4 DEF States

\* The same for events delivered to any of the buttons at once.
LEMMA DeliverKeepsPress ==
    ASSUME PressInv, NEW ev, DOMAIN ev \subseteq Buttons,
           \A b \in DOMAIN ev : ev[b] \in Events, Deliver(ev),
           disabled' \subseteq Buttons, touched' \subseteq Buttons,
           view' \in [Buttons -> {"inDOM", "removed", "destroyed"}],
           responder' \in Buttons \cup {Nowhere}, pointer' \in Buttons \cup {Nowhere},
           held' \in 0..MaxHeld,
           timers' \in [Buttons -> [TimerKinds -> 0..MaxTimers]]
    PROVE  PressInv'
  <1>1. \A b \in Buttons : /\ state[b] \in States /\ credit[b] \in 0..1
                           /\ state[b] \in Pressed => credit[b] = 1
    BY DEF PressInv, OneActionPerPress, TypeOK
  <1>2. \A b \in Buttons :
          /\ state'[b] \in States
          /\ credit'[b] \in 0..1
          /\ state'[b] \in Pressed => credit'[b] = 1
    <2> SUFFICES ASSUME NEW b \in Buttons
                 PROVE  /\ state'[b] \in States
                        /\ credit'[b] \in 0..1
                        /\ state'[b] \in Pressed => credit'[b] = 1
      OBVIOUS
    <2>1. CASE b \in DOMAIN ev
      <3>1. /\ state'[b] = GotoState(b, state[b], ev[b])
            /\ credit'[b] = Credit(b, state[b], ev[b], credit[b])
        BY <2>1 DEF Deliver
      <3>2. QED BY <1>1, <2>1, <3>1, EventKeepsPress
    <2>2. CASE b \notin DOMAIN ev
      <3>1. state'[b] = state[b] /\ credit'[b] = credit[b]
        BY <2>2 DEF Deliver
      <3>2. QED BY <1>1, <3>1
    <2>3. QED BY <2>1, <2>2
  <1>3. state' \in [Buttons -> States] /\ credit' \in [Buttons -> -1..1]
    <2>1. /\ state' = [b \in Buttons |-> state'[b]]
          /\ credit' = [b \in Buttons |-> credit'[b]]
      BY DEF Deliver
    <2>2. \A b \in Buttons : credit'[b] \in -1..1
      BY <1>2
    <2>3. QED BY <1>2, <2>1, <2>2
  <1>4. env' \in Environments
    BY DEF Deliver, PressInv, OneActionPerPress, TypeOK
  <1>5. TypeOK'
    BY <1>3, <1>4 DEF TypeOK
  <1>6. \A b \in Buttons : credit'[b] >= 0
    BY <1>2
  <1>7. QED
    BY <1>2, <1>5, <1>6 DEF PressInv, OneActionPerPress

\* One event for one view, which may be none of the buttons.
LEMMA DeliverToIsDeliver ==
    ASSUME NEW v, NEW e \in Events, DeliverTo(v, e)
    PROVE  \E ev : /\ DOMAIN ev \subseteq Buttons
                   /\ \A b \in DOMAIN ev : ev[b] \in Events
                   /\ Deliver(ev)
  <1> DEFINE ev == [b \in Buttons \cap {v} |-> e]
  <1>1. DOMAIN ev \subseteq Buttons /\ \A b \in DOMAIN ev : ev[b] \in Events
    OBVIOUS
  <1>2. Deliver(ev)
    BY DEF DeliverTo
  <1> HIDE DEF ev
  <1>3. QED BY <1>1, <1>2

\* No button is pressed at first.
LEMMA InitPress == Init => PressInv
  BY ButtonAssumption DEF Init, PressInv, OneActionPerPress, TypeOK, States, Pressed

\* The mouse: moves, presses and releases.
LEMMA MouseKeepsPress ==
    ASSUME PressInv,
           (\E to \in Buttons \cup {Nowhere} : MovePointer(to)) \/ MouseDown \/ MouseUp
    PROVE  PressInv'
  <1>1. TypeOK
    BY DEF PressInv, OneActionPerPress
  <1>2. CASE \E to \in Buttons \cup {Nowhere} : MovePointer(to)
    <2>1. PICK to \in Buttons \cup {Nowhere} : MovePointer(to)
      BY <1>2
    <2> DEFINE ev == [b \in Buttons \cap {pointer, to} |->
                        IF b = to THEN "mouseEnter" ELSE "mouseLeave"]
    <2>2. DOMAIN ev \subseteq Buttons /\ \A b \in DOMAIN ev : ev[b] \in Events
      BY DEF Events
    <2>3. Deliver(ev)
      BY <2>1 DEF MovePointer
    <2> HIDE DEF ev
    <2>4. QED
      BY <1>1, <2>1, <2>2, <2>3, DeliverKeepsPress DEF MovePointer, TypeOK
  <1>3. CASE MouseDown
    <2>1. /\ DeliverTo(pointer, "mouseDown")
          /\ responder' \in Buttons \cup {Nowhere} /\ held' \in 0..MaxHeld
      BY <1>1, <1>3, ButtonAssumption DEF MouseDown, RespondingView, TypeOK
    <2>2. QED
      BY <1>1, <1>3, <2>1, DeliverToIsDeliver, DeliverKeepsPress
         DEF MouseDown, TypeOK, Events
  <1>4. CASE MouseUp
    <2>1. held' \in 0..MaxHeld /\ UNCHANGED <<disabled, view, pointer, touched, timers>>
      BY <1>1, <1>4, ButtonAssumption DEF MouseUp, TypeOK
    <2>2. CASE responder # Nowhere /\ view[responder] # "inDOM"
      BY <1>1, <1>4, <2>1, <2>2 DEF MouseUp, PressInv, OneActionPerPress, TypeOK
    <2>3. CASE ~ (responder # Nowhere /\ view[responder] # "inDOM")
      <3>1. /\ DeliverTo(IF responder # Nowhere THEN responder ELSE pointer, "mouseUp")
            /\ responder' = Nowhere
        BY <1>4, <2>3 DEF MouseUp
      <3>2. QED
        BY <1>1, <2>1, <3>1, DeliverToIsDeliver, DeliverKeepsPress DEF TypeOK, Events
    <2>4. QED BY <2>2, <2>3
  <1>5. QED BY <1>2, <1>3, <1>4

\* Touches, and the timer that releases a button.
LEMMA TouchKeepsPress ==
    ASSUME PressInv, NEW b \in Buttons, TouchStart(b) \/ TouchEnd(b) \/ ReleaseUp(b)
    PROVE  PressInv'
  <1>1. TypeOK
    BY DEF PressInv, OneActionPerPress
  <1>2. PICK e \in Events : DeliverTo(b, e)
    BY DEF TouchStart, TouchEnd, ReleaseUp, Events
  <1>3. timers' \in [Buttons -> [TimerKinds -> 0..MaxTimers]]
    BY <1>1, ButtonAssumption DEF TouchStart, TouchEnd, ReleaseUp, TypeOK, TimerKinds
  <1>4. QED
    BY <1>1, <1>2, <1>3, DeliverToIsDeliver, DeliverKeepsPress
       DEF TouchStart, TouchEnd, ReleaseUp, TypeOK

\* A simulated click presses a button that is not pressed; its timer releases it
\* and takes the pointer away in one step.
LEMMA ClickKeepsPress ==
    ASSUME PressInv, NEW b \in Buttons, SimulateClick(b) \/ ReleaseUpAndLeave(b)
    PROVE  PressInv'
  <1>1. /\ state \in [Buttons -> States] /\ credit \in [Buttons -> -1..1]
        /\ timers \in [Buttons -> [TimerKinds -> 0..MaxTimers]]
        /\ \A x \in Buttons : credit[x] \in 0..1 /\ (state[x] \in Pressed => credit[x] = 1)
    BY DEF PressInv, OneActionPerPress, TypeOK
  <1>2. CASE SimulateClick(b)
    <2> DEFINE kind == IF state[b] = "idle" THEN "upAndLeave" ELSE "up"
    <2>1. timers' \in [Buttons -> [TimerKinds -> 0..MaxTimers]]
      <3>1. kind \in TimerKinds /\ timers[b][kind] < MaxTimers
        BY <1>2 DEF SimulateClick, TimerKinds
      <3>2. timers' = [timers EXCEPT ![b][kind] = @ + 1]
        BY <1>2 DEF SimulateClick
      <3> HIDE DEF kind
      <3>3. QED BY <1>1, <3>1, <3>2, ButtonAssumption
    <2>2. /\ state' = [state EXCEPT ![b] = IF b \in disabled THEN "hover" ELSE "mouseDownInside"]
          /\ credit' = IF b \in disabled THEN credit ELSE [credit EXCEPT ![b] = 1]
          /\ UNCHANGED <<disabled, view, responder, pointer, held, touched, env>>
      BY <1>2, GotoTable DEF SimulateClick, States, Events
    <2>3. QED
      BY <1>1, <2>1, <2>2 DEF PressInv, OneActionPerPress, TypeOK, States, Pressed
  <1>3. CASE ReleaseUpAndLeave(b)
    <2> DEFINE mid == GotoState(b, state[b], "mouseUp")
               end == GotoState(b, mid, "mouseLeave")
    <2>1. timers' \in [Buttons -> [TimerKinds -> 0..MaxTimers]]
      BY <1>1, <1>3, ButtonAssumption DEF ReleaseUpAndLeave, TimerKinds
    <2>2. mid \in {"idle", "hover"}
      BY <1>1, GotoTable DEF States, Events
    <2>3. end = "idle"
      BY <2>2, GotoTable DEF States, Events
    <2>4. Credit(b, state[b], "mouseUp", credit[b]) \in 0..1
      BY <1>1, EventKeepsPress DEF Events
    <2>5. /\ state' = [state EXCEPT ![b] = end]
          /\ credit' = [credit EXCEPT ![b] = Credit(b, state[b], "mouseUp", credit[b])]
          /\ UNCHANGED <<disabled, view, responder, pointer, held, touched, env>>
      BY <1>3 DEF ReleaseUpAndLeave
    <2> HIDE DEF mid, end
    <2>6. QED
      BY <1>1, <2>1, <2>3, <2>4, <2>5 DEF PressInv, OneActionPerPress, TypeOK, States, Pressed
  <1>4. QED BY <1>2, <1>3

\* The application: buttons are disabled, removed, inserted and destroyed
\* while they are pressed, or not.
LEMMA ViewKeepsPress ==
    ASSUME PressInv, NEW b \in Buttons,
           SetDisabled(b) \/ RemoveView(b) \/ InsertView(b) \/ Destroy(b)
    PROVE  PressInv'
  BY DEF SetDisabled, RemoveView, InsertView, Destroy, Leave, PressInv, OneActionPerPress, TypeOK

\* Every step keeps presses and actions together.
LEMMA StepPress == PressInv /\ [Next]_vars => PressInv'
  <1> SUFFICES ASSUME PressInv, [Next]_vars
               PROVE  PressInv'
    OBVIOUS
  <1>1. CASE Next
    BY <1>1, MouseKeepsPress, TouchKeepsPress, ClickKeepsPress, ViewKeepsPress DEF Next
  <1>2. CASE UNCHANGED vars
    BY <1>2 DEF vars, PressInv, OneActionPerPress, TypeOK
  <1>3. QED
    BY <1>1, <1>2

\* However mouse, touch, simulated clicks and their timers come together, a
\* button fires its action at most once for each time it is pressed
\* (ButtonView's _handleClick).
THEOREM ActionsCorrect == Spec => []OneActionPerPress
  <1>1. PressInv => OneActionPerPress
    BY DEF PressInv
  <1>2. QED
    BY InitPress, StepPress, <1>1, PTL DEF Spec

-----------------------------------------------------------------------------
(* The button under the pointer *)

\* With the mouse alone there are no touches and no timers, and no button has
\* left the document.
NothingButMouse ==
    /\ touched = {}
    /\ \A b \in Buttons : view[b] = "inDOM"
    /\ \A b \in Buttons, k \in TimerKinds : timers[b][k] = 0

\* The button under the pointer knows that it is, pressed or not, and so do the
\* others; and the one that is pressed is the one that gets the mouseUp.
PointerIsKnown ==
    \A b \in Buttons :
        /\ state[b] \in IF pointer = b THEN {"hover", "mouseDownInside"}
                                       ELSE {"idle", "mouseDownOutside"}
        /\ state[b] \in Pressed => responder = b /\ held > 0

\* Together, where nothing but the mouse presses the buttons.
PointerInv == env \subseteq {"disable"} => NothingButMouse /\ PointerIsKnown

\* What an event for one view does to the state of each button.
LEMMA DeliverToState ==
    ASSUME TypeOK, NEW v, NEW e, DeliverTo(v, e)
    PROVE  /\ \A b \in Buttons : state'[b] = IF b = v THEN GotoState(b, state[b], e)
                                                      ELSE state[b]
           /\ env' = env
  BY DEF DeliverTo, Deliver, TypeOK

\* The pointer moves while buttons are pressed, or not.
LEMMA MoveKeepsPointer ==
    ASSUME TypeOK, NothingButMouse, PointerIsKnown,
           NEW to \in Buttons \cup {Nowhere}, MovePointer(to)
    PROVE  NothingButMouse' /\ PointerIsKnown'
  <1>1. NothingButMouse'
    BY DEF MovePointer, NothingButMouse
  <1>2. ASSUME NEW b \in Buttons
        PROVE  /\ state'[b] \in IF to = b THEN {"hover", "mouseDownInside"}
                                          ELSE {"idle", "mouseDownOutside"}
               /\ state'[b] \in Pressed => state[b] \in Pressed
    <2>1. CASE b = to
      <3>1. state'[b] = GotoState(b, state[b], "mouseEnter") /\ pointer # b
        BY <2>1 DEF MovePointer, Deliver
      <3>2. state[b] \in {"idle", "mouseDownOutside"}
        BY <3>1 DEF PointerIsKnown
      <3>3. QED BY <2>1, <3>1, <3>2, GotoTable DEF States, Events, Pressed
    <2>2. CASE b # to /\ b = pointer
      <3>1. state'[b] = GotoState(b, state[b], "mouseLeave")
        BY <2>2 DEF MovePointer, Deliver
      <3>2. state[b] \in {"hover", "mouseDownInside"}
        BY <2>2 DEF PointerIsKnown
      <3>3. QED BY <2>2, <3>1, <3>2, GotoTable DEF States, Events, Pressed
    <2>3. CASE b # to /\ b # pointer
      <3>1. state'[b] = state[b]
        BY <2>3 DEF MovePointer, Deliver
      <3>2. QED BY <2>3, <3>1 DEF PointerIsKnown
    <2>4. QED BY <2>1, <2>2, <2>3
  <1>3. pointer' = to /\ responder' = responder /\ held' = held
    BY DEF MovePointer
  <1>4. QED BY <1>1, <1>2, <1>3 DEF PointerIsKnown

\* A mouseDown comes when no mouse button is held, so no button is pressed, and
\* the button under the pointer becomes the responder.
LEMMA DownKeepsPointer ==
    ASSUME MaxHeld <= 1, TypeOK, NothingButMouse, PointerIsKnown, MouseDown
    PROVE  NothingButMouse' /\ PointerIsKnown'
  <1>1. NothingButMouse'
    BY DEF MouseDown, NothingButMouse
  <1>2. held = 0 /\ held' = 1 /\ pointer' = pointer /\ DeliverTo(pointer, "mouseDown")
    BY ButtonAssumption DEF MouseDown, TypeOK
  <1>3. ASSUME NEW b \in Buttons
        PROVE  /\ state'[b] \in IF pointer = b THEN {"hover", "mouseDownInside"}
                                               ELSE {"idle", "mouseDownOutside"}
               /\ state'[b] \in Pressed => responder' = b
    <2>1. state[b] = IF pointer = b THEN "hover" ELSE "idle"
      BY <1>2 DEF PointerIsKnown, Pressed
    <2>2. CASE b = pointer
      <3>1. state'[b] = GotoState(b, "hover", "mouseDown")
        BY <1>2, <2>1, <2>2, DeliverToState
      <3>2. state'[b] \in {"hover", "mouseDownInside"}
        BY <3>1, GotoTable DEF States, Events
      <3>3. responder' = b
        BY <2>1, <2>2, ButtonAssumption DEF MouseDown, RespondingView
      <3>4. QED BY <2>2, <3>2, <3>3
    <2>3. CASE b # pointer
      BY <1>2, <2>1, <2>3, DeliverToState DEF Pressed
    <2>4. QED BY <2>2, <2>3
  <1>4. QED BY <1>1, <1>2, <1>3 DEF PointerIsKnown

\* The mouseUp goes to the pressed button if there is one, inside or outside.
LEMMA UpKeepsPointer ==
    ASSUME TypeOK, NothingButMouse, PointerIsKnown, MouseUp
    PROVE  NothingButMouse' /\ PointerIsKnown'
  <1>1. NothingButMouse'
    BY DEF MouseUp, NothingButMouse
  <1> DEFINE target == IF responder # Nowhere THEN responder ELSE pointer
  <1>2. DeliverTo(target, "mouseUp") /\ pointer' = pointer
    <2>1. ~ (responder # Nowhere /\ view[responder] # "inDOM")
      BY DEF NothingButMouse, TypeOK
    <2>2. QED BY <2>1 DEF MouseUp
  <1>3. ASSUME NEW b \in Buttons
        PROVE  state'[b] = IF pointer = b THEN "hover" ELSE "idle"
    <2>1. state[b] \in IF pointer = b THEN {"hover", "mouseDownInside"}
                                      ELSE {"idle", "mouseDownOutside"}
      BY DEF PointerIsKnown
    <2>2. CASE b = target
      <3>1. state'[b] = GotoState(b, state[b], "mouseUp")
        BY <1>2, <2>2, DeliverToState
      <3>2. QED BY <2>1, <3>1, GotoTable DEF States, Events
    <2>3. CASE b # target
      <3>1. state'[b] = state[b]
        BY <1>2, <2>3, DeliverToState
      <3>2. state[b] \notin Pressed
        BY <2>3, ButtonAssumption DEF PointerIsKnown
      <3>3. QED BY <2>1, <3>1, <3>2 DEF Pressed
    <2>4. QED BY <2>2, <2>3
  <1>4. QED BY <1>1, <1>2, <1>3 DEF PointerIsKnown, Pressed

\* Nothing else happens to the buttons but that they are disabled and enabled.
LEMMA OthersKeepPointer ==
    ASSUME TypeOK, NothingButMouse, PointerIsKnown, env \subseteq {"disable"},
           NEW b \in Buttons,
           \/ TouchStart(b) \/ TouchEnd(b)
           \/ SimulateClick(b) \/ ReleaseUp(b) \/ ReleaseUpAndLeave(b)
           \/ SetDisabled(b) \/ RemoveView(b) \/ InsertView(b) \/ Destroy(b)
    PROVE  NothingButMouse' /\ PointerIsKnown'
  <1>1. /\ "touch" \notin env /\ "simulate" \notin env
        /\ "remove" \notin env /\ "destroy" \notin env
    OBVIOUS
  <1>2. ~ TouchStart(b) /\ ~ TouchEnd(b) /\ ~ SimulateClick(b)
    BY <1>1 DEF TouchStart, TouchEnd, SimulateClick, NothingButMouse
  <1>3. ~ ReleaseUp(b) /\ ~ ReleaseUpAndLeave(b)
    BY DEF ReleaseUp, ReleaseUpAndLeave, NothingButMouse, TimerKinds
  <1>4. ~ RemoveView(b) /\ ~ InsertView(b) /\ ~ Destroy(b)
    BY <1>1 DEF RemoveView, InsertView, Destroy, NothingButMouse
  <1>5. SetDisabled(b)
    BY <1>2, <1>3, <1>4
  <1>6. QED BY <1>5 DEF SetDisabled, NothingButMouse, PointerIsKnown

\* The environment is what it was at first.
LEMMA EnvStays ==
    ASSUME Next
    PROVE  env' = env
  BY DEF Next, MovePointer, MouseDown, MouseUp, TouchStart, TouchEnd, SimulateClick, ReleaseUp,
     ReleaseUpAndLeave, SetDisabled, RemoveView, InsertView, Destroy, Leave, Deliver, DeliverTo

\* Every step keeps what the buttons know of the pointer.
LEMMA StepPointer ==
    ASSUME MaxHeld <= 1
    PROVE  PressInv /\ PointerInv /\ [Next]_vars => PointerInv'
  <1> SUFFICES ASSUME PressInv, PointerInv, [Next]_vars
               PROVE  PointerInv'
    OBVIOUS
  <1>1. TypeOK
    BY DEF PressInv, OneActionPerPress
  <1>2. CASE Next
    <2> SUFFICES ASSUME env' \subseteq {"disable"}
                 PROVE  NothingButMouse' /\ PointerIsKnown'
      BY DEF PointerInv
    <2>1. env \subseteq {"disable"} /\ NothingButMouse /\ PointerIsKnown
      BY <1>2, EnvStays DEF PointerInv
    <2>2. QED
      BY <1>1, <1>2, <2>1, MoveKeepsPointer, DownKeepsPointer, UpKeepsPointer, OthersKeepPointer
         DEF Next
  <1>3. CASE UNCHANGED vars
    BY <1>3 DEF vars, PointerInv, NothingButMouse, PointerIsKnown
  <1>4. QED BY <1>2, <1>3

\* With one mouse button, presses lead to one action each, and after a release
\* the button under the pointer, and no other, is hovered and ready for the next
\* mouseDown.  (With two mouse buttons held at once a mouseDown elsewhere takes
\* the mouseUp from the pressed button: eventManager has one responder.)
THEOREM PressesCorrect ==
    ASSUME MaxHeld <= 1
    PROVE  Spec => []PressesAccountedFor
  <1>1. Init => PressInv /\ PointerInv
    <2>1. Init => PointerInv
      BY ButtonAssumption DEF Init, PointerInv, NothingButMouse, PointerIsKnown, Pressed
    <2>2. QED BY <2>1, InitPress
  <1>2. PressInv /\ PointerInv /\ [Next]_vars => (PressInv /\ PointerInv)'
    BY StepPress, StepPointer
  <1>3. PressInv /\ PointerInv => PressesAccountedFor
    <2> SUFFICES ASSUME PressInv, PointerInv
                 PROVE  PressesAccountedFor
      OBVIOUS
    <2>1. OneActionPerPress
      BY DEF PressInv
    <2>2. ReadyUnderPointer
      <3> SUFFICES ASSUME env \subseteq {"disable"}, held = 0, NEW b \in Buttons
                   PROVE  state[b] = IF pointer = b THEN "hover" ELSE "idle"
        BY DEF ReadyUnderPointer
      <3>1. PointerIsKnown
        BY DEF PointerInv
      <3>2. state[b] \notin Pressed
        BY <3>1 DEF PointerIsKnown
      <3>3. QED BY <3>1, <3>2 DEF PointerIsKnown, Pressed
    <2>3. QED BY <2>1, <2>2 DEF PressesAccountedFor
  <1>4. QED
    BY <1>1, <1>2, <1>3, PTL DEF Spec
=============================================================================
