------------------------------ MODULE TabView ------------------------------
(***************************************************************************)
(* A view with tabs (views/tab_view.js): an array of tabs that the         *)
(* application edits or replaces, a bar with a button for each, and the    *)
(* views of the tabs, created when they are first shown or, if the tabs    *)
(* are not initialized lazily, with their buttons.                         *)
(***************************************************************************)
EXTENDS Integers, Sequences, FiniteSets, SequencesExt, SortedSeqs

CONSTANTS
    TabValues,      \* what distinguishes the tabs
    NoTab,
    NoTabs          \* tabs that are null

ASSUME TabAssumption ==
    IsFiniteSet(TabValues) /\ NoTab \notin TabValues /\ NoTabs \notin Seq(TabValues)

VARIABLES
    tabs,           \* the tabs, or NoTabs
    tabBar,         \* the buttons
    previousTabs,   \* the tabs before the last change
    nowShowing,
    created,        \* the tabs whose views have been created
    visible,        \* those whose isVisible is true
    lazily          \* initializeTabsLazily, for good

tabVars == <<tabs, tabBar, previousTabs, nowShowing, created, visible, lazily>>

TabLists == {s \in UNION {[1..n -> TabValues] : n \in 0..Cardinality(TabValues)} : IsInjective(s)}

\* set("nowShowing", v) with its observers: the view shown is hidden, the new one
\* is created unless it has been, and shown.  A record of the three.
Show(r, v) ==
    IF v = r.showing THEN r
    ELSE [showing |-> v, created |-> r.created \cup {v}, visible |-> (r.visible \ {r.showing}) \cup {v}]

Shown == [showing |-> nowShowing, created |-> created, visible |-> visible]

\* Mutant of AddTab: the new button is the last.
AddTabLast(r, v, index, new) ==
    LET view == IF lazily THEN r.shown
                ELSE [r.shown EXCEPT !.created = @ \cup {v}, !.visible = @ \ {v}]
    IN  [bar   |-> Append(r.bar, v),
         shown |-> IF view.showing = NoTab THEN Show(view, new[1]) ELSE view]

\* _addTab: the button at its index; the view, hidden, if not lazily; the first
\* tab is shown if none is.
AddTab(r, v, index, new) ==
    LET view == IF lazily THEN r.shown
                ELSE [r.shown EXCEPT !.created = @ \cup {v}, !.visible = @ \ {v}]
    IN  [bar   |-> InsertAt(r.bar, index, v),
         shown |-> IF view.showing = NoTab THEN Show(view, new[1]) ELSE view]

\* _tabsDidChange: buttons of tabs that are gone are removed, then the new tabs
\* are added in the order of the array.
TabsDidChange(r, previous, new) ==
    LET old  == IF previous = NoTabs THEN {} ELSE ToSet(previous)
        kept == [r EXCEPT !.bar = Subsequence(@, {v \in TabValues : v \in old => v \in ToSet(new)})]
        add[i \in 0..Len(new)] ==
            IF i = 0 THEN kept
            ELSE IF new[i] \in old THEN add[i - 1] ELSE AddTab(add[i - 1], new[i], i, new)
    IN  add[Len(new)]

\* The state after the tabs have become new.
SetTabView(previous, new) ==
    LET r == TabsDidChange([bar |-> tabBar, shown |-> Shown], previous, new)
    IN  /\ tabBar' = r.bar
        /\ nowShowing' = r.shown.showing
        /\ created' = r.shown.created /\ visible' = r.shown.visible

\* tabs is set, or edited in place: _tabsWillChange and _tabsDidChange
ChangeTabs(new) ==
    /\ new # tabs
    /\ tabs' = new
    /\ previousTabs' = IF tabs = NoTabs THEN previousTabs ELSE tabs
    /\ IF new = NoTabs THEN UNCHANGED <<tabBar, nowShowing, created, visible>>
                       ELSE SetTabView(previousTabs', new)
    /\ UNCHANGED lazily

\* The action of the button of a tab, or the application, sets nowShowing.
ShowTab(v) ==
    /\ v # nowShowing
    /\ LET r == Show(Shown, v)
       IN  nowShowing' = r.showing /\ created' = r.created /\ visible' = r.visible
    /\ UNCHANGED <<tabs, tabBar, previousTabs, lazily>>

\* The view is created without tabs; they come through a binding.
TabInit ==
    /\ tabs = NoTabs /\ previousTabs = NoTabs
    /\ tabBar = <<>>
    /\ nowShowing = NoTab /\ created = {} /\ visible = {}
    /\ lazily \in BOOLEAN
=============================================================================
