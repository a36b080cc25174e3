----------------------------- MODULE Choosers -----------------------------
(***************************************************************************)
(* The views with which the user chooses among several things: a select    *)
(* button with its menu (Menus), a multiselection button with its menu     *)
(* (MultiMenu), a tab view (TabView).  A menu is modal, so that a page     *)
(* with several choosers is used as if it had one at a time: env says      *)
(* which, "multi", "tabs", or the select button, and what else happens.    *)
(***************************************************************************)
EXTENDS Menus, MultiMenu, TabView

chooserVars == <<vars, multiVars, tabVars>>

ChooserInit ==
    /\ Init
    /\ IF "multi" \in env THEN MultiInit
       ELSE /\ multi = [open |-> FALSE, items |-> <<>>, lit |-> NoItem, chosen |-> <<>>]
            /\ bar = NewScroll /\ over = NoItem
    /\ TabInit
    /\ "tabs" \notin env => lazily

UseMenu ==
    /\ env \cap {"multi", "tabs"} = {}
    /\ Next
    /\ UNCHANGED <<multiVars, tabVars>>

MultiStep ==
    \/ OpenMulti \/ CloseMulti
    \/ \E to \in MultiItems \cup Arrows \cup {NoItem} : MoveOver(to)
    \/ ClickItem \/ ChooseLit
    \/ \E increment \in {-1, 1} : HighlightAdjacent(increment)
    \/ \E i \in MultiItems : SearchItem(i)
    \/ StrayTimer
    \/ /\ multi.open => "items" \in env
       /\ \E i \in MultiItems : AddItem(i) \/ RemoveItem(i)

UseMulti == "multi" \in env /\ MultiStep /\ UNCHANGED <<vars, tabVars>>

ScrollOn == "multi" \in env /\ ScrollTimer /\ UNCHANGED <<vars, tabVars>>

\* How an application must use tabs: those that stay keep their order, and if not
\* lazily, a tab whose view exists is not added.
TabsAsExpected(new) ==
    new # NoTabs =>
        /\ \A i, j \in DOMAIN new : \A k, l \in DOMAIN tabBar :
              i < j /\ new[i] = tabBar[k] /\ new[j] = tabBar[l] => k < l
        /\ ~lazily /\ "again" \notin env => ToSet(new) \cap created \subseteq ToSet(tabBar)

UseTabs ==
    /\ "tabs" \in env
    /\ \/ \E new \in TabLists \cup {NoTabs} : TabsAsExpected(new) /\ ChangeTabs(new)
       \/ \E v \in TabValues : ShowTab(v)
    /\ UNCHANGED <<vars, multiVars>>

ChooserNext == UseMenu \/ UseMulti \/ ScrollOn \/ UseTabs

\* Timers fire.
ChooserSpec == ChooserInit /\ [][ChooserNext]_chooserVars /\ WF_chooserVars(ScrollOn)

-----------------------------------------------------------------------------
(* Properties *)

\* What the scroll arrows of a menu say is true: if items are hidden above or below,
\* the arrow there is shown; the menu scrolls only in the direction of the arrow
\* that the pointer is over; and no timer outlives the menu.  (Not if items are
\* added or removed while it is open: where it is scrolled to is not looked at then.)
ArrowsTellTheTruth ==
    "items" \notin env =>
        /\ multi.open /\ bar.top > 0 => IsShown(bar, Up)
        /\ multi.open /\ bar.top + bar.height < List(multi.items) => IsShown(bar, Down)
        /\ bar.timer => /\ multi.open /\ over \in Arrows
                        /\ bar.direction = (IF over = Up THEN -1 ELSE 1)
        /\ bar.stray = 0

\* Scrolling comes to an end if the pointer stays on the arrow.  (Not if items
\* are added or removed meanwhile: two timers can then run at the same time, one of which
\* goes on when the other is stopped.)
ScrollingEnds ==
    \A arrow \in Arrows : <>[](over = arrow /\ "items" \notin env) => <>[](~bar.timer)

\* A multiselection always has a value, and each only once, in the order in which the
\* button shows them, whatever is clicked, and whichever item stands for
\* several values.  A tab view has the buttons of the tabs in their order, whatever
\* tabs are added and removed, and shows the view of one tab, the one that
\* nowShowing names, after the first tabs came.  (Not if, without laziness, a tab is
\* added whose view exists: it is hidden then.)
ShownIsChosen ==
    /\ "multi" \in env => /\ multi.chosen # <<>>
                          /\ multi.chosen = SortedSeq(ToSet(multi.chosen))
    /\ "tabs" \in env =>
          /\ tabs # NoTabs => tabBar = tabs
          /\ tabBar # <<>> => nowShowing # NoTab
          /\ "again" \notin env => visible = {nowShowing} \ {NoTab}
=============================================================================
