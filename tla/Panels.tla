------------------------------- MODULE Panels -------------------------------
(***************************************************************************)
(* Pop-up panels (views/panel.js): opening, closing and stacking them, the *)
(* key responder each of them takes and gives back, and the user and the   *)
(* browser acting on what is visible.  Ember's run loop shows as two       *)
(* queues: the panels whose _focusDefaultInput is scheduled after render,  *)
(* and the deferred focus calls of KeyResponders.                          *)
(***************************************************************************)
EXTENDS KeyResponders

CONSTANTS
    Modal,          \* panels with isModal
    KeyPanels,      \* panels with acceptsKeyResponder
    DestroyOnClose, \* panels with destroyOnClose
    CloseOutside,   \* panels with allowClosingByClickingOutside
    CloseByCancel,  \* panels with allowClosingByCancelButton
    DefaultFocus,   \* each panel's descendant with isDefaultFocus, or NoView
    FormOrder,      \* the fields of the form rendered in each home, if any
    Environments,   \* what the application, user and browser may do, below
    MaxTicks        \* no call or event comes in with so many focus calls pending

Homes == Panels \cup {Page}

(***************************************************************************)
(* env holds the behaviours beyond the disciplined use of panels.  It is   *)
(* one of Environments and never changes:                                  *)
(*   "anyClose"  the application closes a panel that is not the last one   *)
(*   "hurry"     something happens before the run loop's queues are empty  *)
(*   "tab"       the browser handles Tab itself, outside of a form         *)
(*   "refocus"   the window loses the focus and gets it back               *)
(***************************************************************************)
ASSUME PanelAssumption ==
    /\ Modal \subseteq Panels /\ KeyPanels \subseteq Panels
    /\ DestroyOnClose \subseteq Panels /\ CloseOutside \subseteq Panels
    /\ CloseByCancel \subseteq Panels
    /\ DefaultFocus \in [Panels -> Fields \cup {NoView}]
    /\ \A p \in Panels : DefaultFocus[p] # NoView => Home[DefaultFocus[p]] = p
    /\ FormOrder \in [Homes -> Seq(Fields)]
    /\ \A h \in Homes : \A i \in DOMAIN FormOrder[h] : Home[FormOrder[h][i]] = h
    /\ Environments \subseteq SUBSET {"anyClose", "hurry", "tab", "refocus"}
    /\ MaxTicks \in Nat \ {0}

VARIABLES
    zIndexCounter,  \* zIndexCounter.value
    zIndex,         \* layout.zIndex of each panel
    paneZIndex,     \* layout.zIndex of the modal pane each panel has
    afterRender,    \* panels whose _focusDefaultInput is scheduled
    underneath,     \* history: the stack each panel was pushed on
    env             \* what may happen beyond disciplined use

vars == <<kr, dom, destroyed, zIndexCounter, zIndex, paneZIndex, afterRender,
          underneath, env>>

Init ==
    /\ kr = [stack |-> <<>>, focused |-> {}, active |-> NoView, ticks |-> <<>>]
    /\ dom = <<>>
    /\ destroyed = {}
    /\ zIndexCounter = 100
    /\ zIndex = [p \in Panels |-> 0]
    /\ paneZIndex = [p \in Panels |-> 0]
    /\ afterRender = <<>>
    /\ underneath = [p \in Panels |-> <<>>]
    /\ env \in Environments

\* Mutant of IsShown: the flag is never set.
IsShownNeverSet(p) == FALSE

\* Panel.isShown
IsShown(p) == p \in Range(dom)

\* Mutant of PanelZIndex: a static z-index.
StaticZIndex == 110

\* The z-index popup() gives to the panel, above that of its modal pane.
PanelZIndex == zIndexCounter + 10

\* The body of _focusDefaultInput.
FocusInput(s, p) == IF DefaultFocus[p] = NoView THEN s ELSE Replace(s, DefaultFocus[p])

\* The run loop has nothing left to do.
Quiet == afterRender = <<>> /\ kr.ticks = <<>>

\* When an event or a call of the application may come in.  DOM events come
\* between run loops; deferred focus calls are in a later one.
CallMayCome == Quiet \/ ("hurry" \in env /\ Len(kr.ticks) < MaxTicks)
EventMayCome == CallMayCome /\ afterRender = <<>>

-----------------------------------------------------------------------------
(* Opening and closing *)

\* Panel.popup(); on a panel that is shown it does nothing.
Popup(p) ==
    /\ CallMayCome
    /\ ~IsShown(p) /\ p \notin destroyed
    /\ paneZIndex' = IF p \in Modal THEN [paneZIndex EXCEPT ![p] = zIndexCounter]
                                    ELSE paneZIndex
    /\ zIndex' = [zIndex EXCEPT ![p] = PanelZIndex]
    /\ zIndexCounter' = zIndexCounter + 100
    /\ dom' = Append(dom, p)
    /\ kr' = IF p \in KeyPanels THEN Push(kr, p) ELSE kr
    /\ underneath' = [underneath EXCEPT ![p] = kr.stack]
    /\ afterRender' = IF p \in Range(afterRender) THEN afterRender
                                                  ELSE Append(afterRender, p)
    /\ UNCHANGED <<destroyed, env>>

\* What removing panel p from the document leaves active.
Detach(s, p) ==
    IF s.active # NoView /\ Home[s.active] = p THEN [s EXCEPT !.active = NoView] ELSE s

\* Panel.close() of a panel that is shown; on any other it does nothing.
Close(p) ==
    /\ \E i \in DOMAIN dom : dom[i] = p /\ dom' = RemoveAt(dom, i)
    /\ kr' = IF p \in KeyPanels THEN Pop(Detach(kr, p)) ELSE Detach(kr, p)
    /\ zIndexCounter' = zIndexCounter - 100
    /\ destroyed' = IF p \in DestroyOnClose THEN destroyed \cup {p} ELSE destroyed
    /\ UNCHANGED <<zIndex, paneZIndex, afterRender, underneath, env>>

\* The application closes a panel, from the handler of a button in it or from
\* a callback of its own.
AppClose(p) ==
    /\ CallMayCome
    /\ dom # <<>>
    /\ p = dom[Len(dom)] \/ "anyClose" \in env
    /\ Close(p)

\* _focusDefaultInput, scheduled once after render
FocusDefaultInput ==
    /\ afterRender # <<>>
    /\ kr' = FocusInput(kr, Head(afterRender))
    /\ afterRender' = Tail(afterRender)
    /\ UNCHANGED <<dom, destroyed, zIndexCounter, zIndex, paneZIndex, underneath, env>>

\* The next deferred focus call runs, once the current run loop has ended.
Tick ==
    /\ afterRender = <<>>
    /\ kr.ticks # <<>>
    /\ kr' = RunTick(kr)
    /\ UNCHANGED <<dom, destroyed, zIndexCounter, zIndex, paneZIndex, afterRender,
                   underneath, env>>

-----------------------------------------------------------------------------
(* Events *)

\* No modal pane lies above what is rendered at home h.
Reachable(h) ==
    \A q \in Range(dom) \cap Modal : h # Page /\ paneZIndex[q] < zIndex[h]

OnlyResponders == UNCHANGED <<dom, destroyed, zIndexCounter, zIndex, paneZIndex,
                              afterRender, underneath, env>>

\* mouseDown on a field: it becomes the key responder, then the browser
\* focuses it, since the field lets the browser handle the event.
ClickField(f) ==
    /\ EventMayCome
    /\ InDOM(f) /\ Reachable(Home[f])
    /\ kr' = DomFocus(Replace(kr, f), f)
    /\ OnlyResponders

\* mouseDown on a panel beside its fields.  The event is not handled, so the
\* browser takes the focus off the active element.
ClickPanel(p) ==
    /\ EventMayCome
    /\ IsShown(p) /\ Reachable(p)
    /\ kr' = Blur(IF p \in KeyPanels THEN Replace(kr, p) ELSE kr)
    /\ OnlyResponders

\* mouseDown on the page beside its fields: no view there accepts the key
\* responder status.
ClickPage ==
    /\ EventMayCome
    /\ Reachable(Page)
    /\ kr' = Blur(kr)
    /\ OnlyResponders

\* mouseDown (or touchStart) on the modal pane of p, which lies above all the
\* other panes and covers everything below it.
ClickModalPane(p) ==
    /\ EventMayCome
    /\ p \in Modal \cap CloseOutside
    /\ \A q \in Range(dom) \cap Modal : paneZIndex[q] <= paneZIndex[p]
    /\ Close(p)

\* The escape key: the current key responder hands it up to its panel.
CancelKey(p) ==
    /\ EventMayCome
    /\ Current(kr) # NoView
    /\ Current(kr) = p \/ (Current(kr) \in Fields /\ Home[Current(kr)] = p)
    /\ p \in CloseByCancel
    /\ Close(p)

\* FormView._performTab: tab (1) or shift-tab (-1) in a field of a form.
PerformTab(direction) ==
    /\ EventMayCome
    /\ Current(kr) \in Fields
    /\ LET form == FormOrder[Home[Current(kr)]]
       IN  \E i \in DOMAIN form :
              /\ form[i] = Current(kr)
              /\ LET next == i + direction
                     f == IF next < 1 THEN form[Len(form)]
                          ELSE IF next > Len(form) THEN form[1] ELSE form[next]
                 IN  kr' = Replace(kr, f)
    /\ OnlyResponders

\* The browser moves the focus to another input: its own handling of Tab,
\* unless the key responder is in a form, which keeps the key for itself.
BrowserTab(f) ==
    /\ "tab" \in env
    /\ EventMayCome
    /\ Current(kr) \in Fields => Current(kr) \notin Range(FormOrder[Home[Current(kr)]])
    /\ InDOM(f) /\ kr.active # f
    /\ kr' = DomFocus(kr, f)
    /\ OnlyResponders

\* The window gets the focus back.  Losing it changed nothing, focusOut
\* checks document.hasFocus(); regaining it fires focusIn of the active input.
WindowFocus ==
    /\ "refocus" \in env
    /\ EventMayCome
    /\ kr.active # NoView
    /\ kr' = FocusIn(kr, kr.active)
    /\ OnlyResponders

Next ==
    \/ \E p \in Panels : Popup(p) \/ AppClose(p) \/ ClickPanel(p)
                           \/ ClickModalPane(p) \/ CancelKey(p)
    \/ FocusDefaultInput
    \/ Tick
    \/ \E f \in Fields : ClickField(f) \/ BrowserTab(f)
    \/ ClickPage
    \/ \E direction \in {-1, 1} : PerformTab(direction)
    \/ WindowFocus

Spec == Init /\ [][Next]_vars

\* The run loop empties its queues; nobody else has to do anything.
FairSpec == Spec /\ WF_vars(FocusDefaultInput) /\ WF_vars(Tick)
-----------------------------------------------------------------------------
(* Properties *)

\* Type correctness of the panels' and the key responders' state.
TypeOK ==
    /\ kr \in KRecord
    /\ dom \in Seq(Panels)
    /\ destroyed \subseteq Panels
    /\ zIndexCounter \in Int
    /\ zIndex \in [Panels -> Int]
    /\ paneZIndex \in [Panels -> Int]
    /\ afterRender \in Seq(Panels)
    /\ underneath \in [Panels -> Seq(Views)]
    /\ env \in Environments

\* zIndexCounter.value always is what the panels that are shown account for:
\* whatever the order of popup() and close() calls, and whoever makes them,
\* the counter neither leaks nor falls below the z-index of the page.
CounterAccountsForShown == zIndexCounter = 100 + 100 * Cardinality(Range(dom))

\* Pushes and pops of the key responder stack stay paired: beyond the one
\* responder of the page, there is at most one entry for each shown panel,
\* however clicks, focus events and deferred calls interleave with close().
StackBounded ==
    Len(kr.stack) <= Cardinality(Range(dom) \cap KeyPanels) + 1

\* A view that shows itself as focused is on the key responder stack (a
\* destroyed view shows nothing): no call sequence leaves two focus rings
\* behind.
FocusedOnStack == kr.focused \ destroyed \subseteq Range(kr.stack)

\* A panel opened later lies, with its modal pane, above every panel opened
\* before it: what zIndexCounter is for.  It takes panels that are closed last
\* opened, first closed: close() takes 100 off the counter whatever it closes.
\* The window's focus can give a covered panel the key responder back, and
\* then the escape key closes that panel first.
LaterPanelsOnTop ==
    env = {} => \A i, j \in DOMAIN dom : i < j =>
        /\ zIndex[dom[i]] < zIndex[dom[j]]
        /\ dom[j] \in Modal => zIndex[dom[i]] < paneZIndex[dom[j]]

\* Closing a panel restores the key responder there was when it was opened,
\* with everything below it on the stack.  Not so beyond disciplined use: the
\* events of a native Tab pop two entries, and a late focus call replaces one.
RestoresResponder ==
    [][env = {} => \A p \in KeyPanels :
          p \in Range(dom) /\ p \notin Range(dom') => kr'.stack = underneath[p]]_vars

\* A panel that is opened ends up with the browser's focus in its default input:
\* _focusDefaultInput, then the deferred focus call, unless it is closed first;
\* closing another panel, a native Tab or the window's focus do not prevent it.
DefaultInputGetsFocus ==
    \A p \in Panels :
        "hurry" \notin env /\ DefaultFocus[p] # NoView /\ p \in Range(afterRender)
            ~> kr.active = DefaultFocus[p] \/ ~IsShown(p)

\* A field that is the key responder has, or gets, the browser's focus, unless
\* it stops being the key responder.
FocusFollowsResponder ==
    \A f \in Fields :
        Current(kr) = f /\ InDOM(f) ~> kr.active = f \/ Current(kr) # f

=============================================================================
