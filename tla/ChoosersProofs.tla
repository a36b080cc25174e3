--------------------------- MODULE ChoosersProofs ---------------------------
(***************************************************************************)
(* Menus with submenus, multiselection menus and tab views do what Choosers *)
(* promises, for any tree of menus, any items, values and tabs.            *)
(***************************************************************************)
EXTENDS Choosers, FiniteSetTheorems, SequenceTheorems, WellFoundedInduction, TLAPS

-----------------------------------------------------------------------------
(* Numbers *)

\* A set of natural numbers has a smallest one.
LEMMA LeastNumber ==
    ASSUME NEW T, T \subseteq Nat, T # {}
    PROVE  \E m \in T : \A x \in T : m <= x
  <1> DEFINE R == OpToRel(<, Nat)
  <1>1. IsWellFoundedOn(R, Nat)
    BY NatLessThanWellFounded
  <1>2. \A a, b \in Nat : a < b => <<a, b>> \in R
    BY DEF OpToRel
  <1> HIDE DEF R
  <1>3. PICK m \in T : \A x \in T : ~(<<x, m>> \in R)
    BY <1>1, WFMin
  <1>4. ASSUME NEW x \in T PROVE m <= x
    <2>1. m \in Nat /\ x \in Nat
      OBVIOUS
    <2>2. ~(x < m)
      BY <1>2, <1>3, <2>1
    <2> QED
      BY <2>1, <2>2
  <1> QED
    BY <1>4

\* A set of numbers up to n has a largest one.
LEMMA GreatestNumber ==
    ASSUME NEW n \in Nat, NEW T, T \subseteq 1..n, T # {}
    PROVE  \E m \in T : \A x \in T : x <= m
  <1> DEFINE D == {d \in Nat : \E x \in T : d = n - x}
  <1>1. \A x \in T : x \in Nat /\ n - x \in D
    OBVIOUS
  <1>2. D \subseteq Nat /\ D # {}
    BY <1>1
  <1>3. PICK d \in D : \A e \in D : d <= e
    <2> HIDE DEF D
    <2> QED
      BY <1>2, LeastNumber
  <1>4. PICK m \in T : d = n - m
    OBVIOUS
  <1>5. ASSUME NEW x \in T PROVE x <= m
    BY <1>1, <1>3, <1>4
  <1> QED
    BY <1>5

\* The first n of a sequence
LEMMA PrefixFacts ==
    ASSUME NEW S, NEW q \in Seq(S), NEW n \in 0..Len(q)
    PROVE  /\ SubSeq(q, 1, n) \in Seq(S) /\ Len(SubSeq(q, 1, n)) = n
           /\ \A k \in 1..n : SubSeq(q, 1, n)[k] = q[k]
  <1>1. 1 \in Int /\ n \in Int /\ n >= 0 /\ \A k \in 1..n : q[k] \in S
    OBVIOUS
  <1>2. /\ SubSeq(q, 1, n) \in Seq(S)
        /\ Len(SubSeq(q, 1, n)) = (IF 1 <= n THEN n - 1 + 1 ELSE 0)
        /\ \A k \in 1..(n - 1 + 1) : SubSeq(q, 1, n)[k] = q[1 + k - 1]
    BY <1>1, SubSeqProperties
  <1>3. n - 1 + 1 = n /\ \A k \in 1..n : 1 + k - 1 = k
    BY <1>1
  <1> QED
    BY <1>1, <1>2, <1>3

-----------------------------------------------------------------------------
(* Menus: the state *)

\* The records that the handlers of a menu go from and to.
MenuStates ==
    [open : SUBSET Menus, linked : SUBSET Menus,
     high : [Menus -> Items \cup {None}], user : [Menus -> Items \cup {None}],
     internal : [Menus -> Items \cup {None}], stack : Seq(Menus \cup {Other})]

\* What a menu can highlight.
Lights(m) == ToSet(MenuItems[m]) \cup {None}

\* What is selected when item i is highlighted.
Selected(i) == IF i # None /\ IsSelectable(i) THEN i ELSE None

\* What holds of every menu, also of one whose items were replaced while a
\* submenu was open: every open menu has an entry on the stack, above the one
\* from before.
Sound(s) ==
    /\ s \in MenuStates
    /\ \A m \in Menus : s.high[m] \in Lights(m) /\ s.user[m] \in Lights(m)
    /\ s.linked \subseteq s.open
    /\ Len(s.stack) = Cardinality(s.open) + 1 /\ s.stack[1] = Other

\* Only what can be selected is handed to the parent menus.
Selectable(s) == \A m \in Menus : s.internal[m] # None => IsSelectable(s.internal[m])

\* The first n of p are the open menus, from the topmost down.
Path(s, p, n) ==
    /\ n \in Nat /\ \A j \in 1..n : p[j] \in Menus
    /\ n > 0 => p[1] = Top
    /\ \A j \in 1..n : j > 1 => MenuOf(p[j]) = p[j - 1] /\ s.high[p[j - 1]] = p[j]
    /\ s.open = {p[j] : j \in 1..n}
    /\ s.linked = s.open \ {Top}
    /\ \A m \in Menus : m \notin s.open => s.high[m] = None /\ s.user[m] = None
    /\ n = 0 => s.internal[Top] = None

\* The stack of key responders is that path.
OnStack(s, p, n) == \A j \in 1..n : s.stack[j + 1] = p[j]

\* What the deepest menu highlights is selected at the top.
Decided(s, p, n) == n > 0 => s.internal[Top] = Selected(s.high[p[n]])

\* The open menus of a behaviour with the options e are a path.
OnPath(e, s) ==
    \E p : \E n \in Nat :
        /\ Path(s, p, n)
        /\ "margin" \notin e => OnStack(s, p, n)
        /\ e = {} => Decided(s, p, n)

\* The constants
LEMMA MenuFacts ==
    /\ Top \in Menus /\ Top \notin Items /\ None \notin Menus /\ None \notin Items
    /\ Menus \subseteq Items \cup {Top} /\ Other \notin Menus /\ IsFiniteSet(Menus)
    /\ \A m \in Menus : ToSet(MenuItems[m]) \subseteq Items
    /\ \A m \in Menus : Lights(m) \subseteq Items \cup {None}
    /\ \A m \in Menus : \A i \in Lights(m) : i # None => i \in Items /\ MenuOf(i) = m
    /\ \A i \in Items : MenuOf(i) \in Menus /\ MenuOf(i) # i /\ i \in Lights(MenuOf(i))
  <1>1. /\ Top \in Menus /\ Top \notin Items /\ None \notin Menus /\ None \notin Items
        /\ Menus \subseteq Items \cup {Top} /\ Other \notin Menus /\ IsFiniteSet(Menus)
    <2>1. /\ Top \in Menus /\ Top \notin Items /\ None \notin Items \cup {Top}
          /\ Menus \subseteq Items \cup {Top} /\ Other \notin Items \cup {Top} /\ IsFiniteSet(Menus)
      BY MenuAssumption
    <2> QED
      BY <2>1
  <1>2. ASSUME NEW m \in Menus PROVE ToSet(MenuItems[m]) \subseteq Items
    <2>1. MenuItems[m] \in Seq(Items)
      BY MenuAssumption
    <2> QED
      BY <2>1 DEF ToSet
  <1>3. ASSUME NEW i \in Items
        PROVE  MenuOf(i) \in Menus /\ i \in ToSet(MenuItems[MenuOf(i)])
    <2>1. \E m \in Menus : i \in ToSet(MenuItems[m])
      BY MenuAssumption
    <2> QED
      BY <2>1, Zenon DEF MenuOf
  <1>4. \A m, n \in Menus : m # n => ToSet(MenuItems[m]) \cap ToSet(MenuItems[n]) = {}
    BY MenuAssumption
  <1>5. ASSUME NEW m \in Menus, NEW i \in ToSet(MenuItems[m])
        PROVE  i \in Items /\ MenuOf(i) = m
    BY <1>2, <1>3, <1>4
  <1>6. ASSUME NEW i \in Items PROVE MenuOf(i) # i
    <2>1. PICK m \in Menus \ {i} : i \in ToSet(MenuItems[m])
      BY MenuAssumption
    <2>2. MenuOf(i) = m
      BY <1>5, <2>1
    <2> QED
      BY <2>1, <2>2
  <1> QED
    BY <1>1, <1>2, <1>3, <1>5, <1>6 DEF Lights

\* What is selected by a highlight can be selected.
LEMMA SelectedFacts ==
    ASSUME NEW i \in Items \cup {None}
    PROVE  /\ Selected(i) \in Items \cup {None}
           /\ Selected(i) # None => IsSelectable(Selected(i))
  BY DEF Selected

\* An item with a submenu cannot be selected.
LEMMA SubMenusNotSelected ==
    ASSUME NEW i \in Menus PROVE Selected(i) = None
  BY DEF Selected, IsSelectable, IsEnabled, HasSubMenu

-----------------------------------------------------------------------------
(* Menus: parents and chains *)

\* The parents of a menu are menus, and their parents are among them.
LEMMA ParentFacts ==
    ASSUME NEW m \in Menus
    PROVE  /\ ParentMenus(m) \subseteq Menus
           /\ ParentMenu(m) \in ParentMenus(m)
           /\ \A n \in ParentMenus(m) : ParentMenu(n) \in ParentMenus(m)
  <1>1. \A n \in Menus : ParentMenu(n) \in Menus
    BY MenuFacts DEF ParentMenu
  <1> QED
    BY <1>1 DEF ParentMenus, Reached

\* The chain of a menu has it and the open submenu of the item that one of it
\* highlights, and nothing but linked submenus besides it.
LEMMA ChainFacts ==
    ASSUME NEW s, Sound(s), NEW m \in Menus
    PROVE  /\ Chain(s, m) \subseteq {m} \cup s.linked /\ m \in Chain(s, m)
           /\ \A n \in Chain(s, m) : s.high[n] \in s.linked => s.high[n] \in Chain(s, m)
           /\ \A S \in SUBSET Menus :
                 /\ m \in S
                 /\ \A n \in S : s.high[n] \in s.linked => s.high[n] \in S
                 => Chain(s, m) \subseteq S
           /\ Chain(s, m) \subseteq Menus
  <1> DEFINE next(n) == IF s.high[n] \in s.linked THEN s.high[n] ELSE n
  <1>1. s.linked \subseteq Menus
    BY DEF Sound, MenuStates
  <1>2. \A n \in Menus : next(n) \in Menus
    BY <1>1
  <1>3. Chain(s, m) = {n \in Menus : \A S \in SUBSET Menus :
                          m \in S /\ (\A k \in S : next(k) \in S) => n \in S}
    BY DEF Chain, Reached
  <1>4. /\ m \in Chain(s, m) /\ \A n \in Chain(s, m) : next(n) \in Chain(s, m)
        /\ \A S \in SUBSET Menus : m \in S /\ (\A k \in S : next(k) \in S)
                                => Chain(s, m) \subseteq S
        /\ Chain(s, m) \subseteq Menus
    <2> HIDE DEF next
    <2> QED
      BY <1>2, <1>3
  <1>5. ASSUME NEW S \in SUBSET Menus, m \in S,
               \A n \in S : s.high[n] \in s.linked => s.high[n] \in S
        PROVE  Chain(s, m) \subseteq S
    <2>1. \A k \in S : next(k) \in S
      BY <1>5
    <2> QED
      BY <1>4, <1>5, <2>1
  <1>6. Chain(s, m) \subseteq {m} \cup s.linked
    <2>1. {m} \cup s.linked \in SUBSET Menus
      BY <1>1
    <2> QED
      BY <1>5, <2>1
  <1> QED
    BY <1>4, <1>5, <1>6

\* No menu is twice on the path: an item is in one menu.
LEMMA PathInjective ==
    ASSUME NEW s, Sound(s), NEW p, NEW n, Path(s, p, n), NEW i \in 1..n, NEW j \in 1..n, p[i] = p[j]
    PROVE  i = j
  <1> DEFINE T == {k \in 1..n : \E l \in 1..n : k < l /\ p[k] = p[l]}
  <1>0. n \in Nat
    BY DEF Path
  <1>1. T = {}
    <2> SUFFICES ASSUME T # {} PROVE FALSE
      OBVIOUS
    <2>1. T \subseteq Nat
      OBVIOUS
    <2>2. PICK k \in T : \A x \in T : k <= x
      <3> HIDE DEF T
      <3> QED
        BY <2>1, LeastNumber
    <2>3. PICK l \in 1..n : k < l /\ p[k] = p[l]
      OBVIOUS
    <2>4. l > 1 /\ MenuOf(p[l]) = p[l - 1] /\ s.high[p[l - 1]] = p[l] /\ p[l - 1] \in Menus
      BY <2>3, <1>0 DEF Path
    <2>5. p[l] \in Menus
      BY DEF Path
    <2>6. p[l] # Top
      <3>1. p[l] \in Lights(p[l - 1])
        BY <2>4 DEF Sound
      <3> QED
        BY <2>4, <2>5, <3>1, MenuFacts
    <2>7. k > 1
      BY <2>3, <2>6, <1>0 DEF Path
    <2>8. p[k - 1] = p[l - 1]
      BY <2>3, <2>4, <2>7, <1>0 DEF Path
    <2>9. k - 1 \in T
      BY <2>3, <2>7, <2>8, <1>0
    <2> QED
      BY <2>2, <2>9
  <1> QED
    BY <1>0, <1>1

\* An open menu is on the path.
LEMMA OnThePath ==
    ASSUME NEW s, NEW p, NEW n, Path(s, p, n), NEW m \in s.open
    PROVE  \E j \in 1..n : p[j] = m
  BY DEF Path

\* An open menu below the top is the submenu of what the one above highlights;
\* what the deepest menu highlights has no open submenu.
LEMMA PathHighlights ==
    ASSUME NEW s, Sound(s), NEW p, NEW n, Path(s, p, n), NEW j \in 1..n
    PROVE  s.high[p[j]] \in s.linked <=> j < n
  <1>0. n \in Nat /\ p[j] \in Menus
    BY DEF Path
  <1>1. CASE j < n
    <2>1. j + 1 \in 1..n /\ j + 1 > 1 /\ (j + 1) - 1 = j
      BY <1>0, <1>1
    <2>2. s.high[p[j]] = p[j + 1] /\ p[j + 1] \in s.open /\ p[j + 1] \in Menus
      BY <2>1 DEF Path
    <2>3. p[j + 1] \in Lights(p[j])
      BY <1>0, <2>2 DEF Sound
    <2>4. p[j + 1] # Top
      BY <1>0, <2>2, <2>3, MenuFacts
    <2> QED
      BY <1>1, <2>2, <2>4 DEF Path
  <1>2. CASE j = n
    <2> SUFFICES ASSUME s.high[p[j]] \in s.linked PROVE FALSE
      BY <1>2
    <2> DEFINE h == s.high[p[j]]
    <2>1. h \in s.open /\ h # Top
      BY DEF Path
    <2>2. PICK k \in 1..n : p[k] = h
      BY <2>1, OnThePath
    <2>3. k > 1 /\ MenuOf(h) = p[k - 1] /\ k - 1 \in 1..n
      BY <1>0, <2>1, <2>2 DEF Path
    <2>4. h \in Lights(p[j]) /\ h # None
      <3>1. h \in Menus
        BY <2>2 DEF Path
      <3> QED
        BY <1>0, <3>1, MenuFacts DEF Sound
    <2>5. MenuOf(h) = p[j]
      BY <1>0, <2>4, MenuFacts
    <2>6. p[k - 1] = p[j]
      BY <2>3, <2>5
    <2>7. k - 1 = j
      <3> HIDE DEF h
      <3> QED
        BY <2>3, <2>6, PathInjective
    <2> QED
      BY <1>0, <1>2, <2>7
  <1> QED
    BY <1>0, <1>1, <1>2

\* The chain of an open menu is the rest of the path.
LEMMA PathChain ==
    ASSUME NEW s, Sound(s), NEW p, NEW n, Path(s, p, n), NEW j \in 1..n
    PROVE  Chain(s, p[j]) = {p[k] : k \in j..n}
  <1> DEFINE S == {p[k] : k \in j..n}
             C == Chain(s, p[j])
  <1>0. n \in Nat /\ p[j] \in Menus /\ \A k \in 1..n : p[k] \in Menus
    BY DEF Path
  <1>1. \A k \in j..n : k \in 1..n /\ (k < n => k + 1 \in j..n)
    BY <1>0
  <1>2. \A k \in 1..n : k < n => s.high[p[k]] = p[k + 1]
    <2> SUFFICES ASSUME NEW k \in 1..n, k < n PROVE s.high[p[k]] = p[k + 1]
      OBVIOUS
    <2>1. k + 1 \in 1..n /\ k + 1 > 1 /\ (k + 1) - 1 = k
      BY <1>0
    <2> QED
      BY <2>1 DEF Path
  <1>3. C \subseteq S
    <2>1. S \in SUBSET Menus /\ p[j] \in S
      BY <1>0, <1>1
    <2>2. ASSUME NEW m \in S, s.high[m] \in s.linked PROVE s.high[m] \in S
      <3>1. PICK k \in j..n : m = p[k]
        OBVIOUS
      <3>2. k < n
        BY <1>1, <2>2, <3>1, PathHighlights
      <3> QED
        BY <1>1, <1>2, <3>1, <3>2
    <2> HIDE DEF S
    <2> QED
      BY <1>0, <2>1, <2>2, ChainFacts
  <1>4. S \subseteq C
    <2> DEFINE T == {k \in j..n : p[k] \notin C}
    <2> SUFFICES ASSUME T # {} PROVE FALSE
      OBVIOUS
    <2>1. T \subseteq Nat
      BY <1>0
    <2>2. PICK k \in T : \A x \in T : k <= x
      <3> HIDE DEF T
      <3> QED
        BY <2>1, LeastNumber
    <2>3. p[j] \in C
      BY <1>0, ChainFacts
    <2>4. k > j /\ k - 1 \in j..n /\ k - 1 \in 1..n /\ k - 1 < n
      BY <1>0, <2>2, <2>3
    <2>5. p[k - 1] \in C
      BY <2>2, <2>4
    <2>6. s.high[p[k - 1]] = p[k] /\ s.high[p[k - 1]] \in s.linked
      BY <1>2, <2>4, PathHighlights
    <2>7. p[k] \in C
      BY <1>0, <2>5, <2>6, ChainFacts
    <2> QED
      BY <2>7
  <1> QED
    BY <1>3, <1>4

\* There are as many open menus as the path is long.
LEMMA PathLength ==
    ASSUME NEW s, Sound(s), NEW p, NEW n, Path(s, p, n)
    PROVE  Cardinality(s.open) = n
  <1> DEFINE f == [k \in 1..n |-> p[k]]
  <1>0. n \in Nat
    BY DEF Path
  <1>1. f \in Bijection(1..n, s.open)
    <2>1. s.open = {p[k] : k \in 1..n}
      BY DEF Path
    <2>2. \A i, j \in 1..n : f[i] = f[j] => i = j
      BY PathInjective
    <2> QED
      BY <2>1, <2>2 DEF Bijection, Injection, IsInjective, Surjection
  <1>2. ExistsBijection(1..n, s.open)
    BY <1>1 DEF ExistsBijection
  <1> QED
    BY <1>0, <1>2, FS_CountingElements

\* Every menu on the path is above the ones after it.
LEMMA PathParents ==
    ASSUME NEW s, Sound(s), NEW p, NEW n, Path(s, p, n), NEW i \in 1..n, NEW j \in 1..n, i < j
    PROVE  p[i] \in ParentMenus(p[j])
  <1> DEFINE P == ParentMenus(p[j])
             T == {d \in 1..n : d < j /\ p[j - d] \notin P}
  <1>0. n \in Nat /\ \A k \in 1..n : p[k] \in Menus
    BY DEF Path
  <1>1. ASSUME NEW k \in 1..n, k > 1 PROVE ParentMenu(p[k]) = p[k - 1]
    <2>1. MenuOf(p[k]) = p[k - 1] /\ s.high[p[k - 1]] = p[k] /\ k - 1 \in 1..n
      BY <1>0, <1>1 DEF Path
    <2>2. p[k] \in Lights(p[k - 1])
      BY <1>0, <2>1 DEF Sound
    <2>3. p[k] # Top
      BY <1>0, <2>1, <2>2, MenuFacts
    <2> QED
      BY <2>1, <2>3 DEF ParentMenu
  <1>2. T = {}
    <2> SUFFICES ASSUME T # {} PROVE FALSE
      OBVIOUS
    <2>1. T \subseteq Nat
      BY <1>0
    <2>2. PICK d \in T : \A x \in T : d <= x
      <3> HIDE DEF T
      <3> QED
        BY <2>1, LeastNumber
    <2>3. CASE d = 1
      BY <1>0, <1>1, <2>2, <2>3, ParentFacts
    <2>4. CASE d > 1
      <3>1. d - 1 \in 1..n /\ d - 1 < j /\ ~(d <= d - 1)
        BY <1>0, <2>2, <2>4
      <3>2. p[j - (d - 1)] \in P
        BY <2>2, <3>1
      <3>3. j - (d - 1) \in 1..n /\ j - (d - 1) > 1 /\ j - (d - 1) - 1 = j - d
        BY <1>0, <2>2, <2>4
      <3>4. ParentMenu(p[j - (d - 1)]) \in P
        BY <1>0, <3>2, ParentFacts
      <3> QED
        BY <1>1, <2>2, <3>3, <3>4
    <2> QED
      BY <1>0, <2>2, <2>3, <2>4
  <1>3. j - i \in 1..n /\ j - i < j /\ j - (j - i) = i
    BY <1>0
  <1> QED
    BY <1>2, <1>3

-----------------------------------------------------------------------------
(* Menus: what the handlers call *)

\* _internalSelectionDidChange changes no more than what is selected.
LEMMA SetInternalFacts ==
    ASSUME NEW s, Sound(s), NEW m \in Menus, NEW i \in Items \cup {None}
    PROVE  /\ Sound(SetInternal(s, m, i))
           /\ SetInternal(s, m, i).open = s.open /\ SetInternal(s, m, i).linked = s.linked
           /\ SetInternal(s, m, i).high = s.high /\ SetInternal(s, m, i).user = s.user
           /\ SetInternal(s, m, i).stack = s.stack
           /\ \A n \in Menus : SetInternal(s, m, i).internal[n] =
                 IF n = m \/ n \in ParentMenus(m) THEN i ELSE s.internal[n]
  <1> DEFINE int == [n \in Menus |-> IF n = m \/ n \in ParentMenus(m) THEN i ELSE s.internal[n]]
  <1>1. s \in MenuStates
    BY DEF Sound
  <1>2. SetInternal(s, m, i) = [s EXCEPT !.internal = int]
    BY DEF SetInternal
  <1>3. int \in [Menus -> Items \cup {None}]
    BY <1>1 DEF MenuStates
  <1>4. /\ SetInternal(s, m, i) \in MenuStates
        /\ SetInternal(s, m, i).open = s.open /\ SetInternal(s, m, i).linked = s.linked
        /\ SetInternal(s, m, i).high = s.high /\ SetInternal(s, m, i).user = s.user
        /\ SetInternal(s, m, i).stack = s.stack /\ SetInternal(s, m, i).internal = int
    <2> HIDE DEF int
    <2> QED
      BY <1>1, <1>2, <1>3 DEF MenuStates
  <1> QED
    BY <1>4 DEF Sound

\* Closing an open menu takes its chain off the screen and off the stack.
LEMMA CloseFacts ==
    ASSUME NEW s, Sound(s), NEW m \in s.open, NEW t, t = Close(s, m), NEW C, C = Chain(s, m)
    PROVE  /\ Sound(t)
           /\ t.open = s.open \ C /\ t.linked = s.linked \ C
           /\ \A n \in Menus : t.high[n] = (IF n \in C THEN None ELSE s.high[n])
           /\ \A n \in Menus : t.user[n] = (IF n \in C THEN None ELSE s.user[n])
           /\ \A n \in Menus : t.internal[n] =
                 IF n \in C \/ (s.high[m] # None /\ (n = m \/ n \in ParentMenus(m)))
                 THEN None ELSE s.internal[n]
           /\ Len(t.stack) <= Len(s.stack)
           /\ \A k \in 1..Len(t.stack) : t.stack[k] = s.stack[k]
  <1> DEFINE cl == IF s.high[m] = None THEN s ELSE SetInternal(s, m, None)
             len == Len(s.stack) - Cardinality(C)
             high == [n \in Menus |-> IF n \in C THEN None ELSE s.high[n]]
             user == [n \in Menus |-> IF n \in C THEN None ELSE s.user[n]]
             int  == [n \in Menus |-> IF n \in C THEN None ELSE cl.internal[n]]
             stack == SubSeq(s.stack, 1, len)
  <1>0. s \in MenuStates /\ m \in Menus /\ s.open \in SUBSET Menus /\ s.linked \subseteq s.open
    BY DEF Sound, MenuStates
  <1>1. /\ Sound(cl) /\ cl.open = s.open /\ cl.linked = s.linked /\ cl.high = s.high
        /\ cl.user = s.user /\ cl.stack = s.stack
        /\ \A n \in Menus : cl.internal[n] =
                     IF s.high[m] # None /\ (n = m \/ n \in ParentMenus(m))
                     THEN None ELSE s.internal[n]
    BY <1>0, SetInternalFacts
  <1>2. t = [cl EXCEPT !.open = s.open \ C, !.linked = s.linked \ C, !.high = high,
                       !.user = user, !.internal = int, !.stack = stack]
    <2> HIDE DEF cl
    <2>1. t = [cl EXCEPT
                 !.open = cl.open \ C, !.linked = cl.linked \ C,
                 !.high = [n \in Menus |-> IF n \in C THEN None ELSE cl.high[n]],
                 !.user = [n \in Menus |-> IF n \in C THEN None ELSE cl.user[n]],
                 !.internal = [n \in Menus |-> IF n \in C THEN None ELSE cl.internal[n]],
                 !.stack = SubSeq(cl.stack, 1, Len(cl.stack) - Cardinality(C))]
      BY Zenon DEF Close, cl
    <2> QED
      BY <1>1, <2>1
  <1>3. C \subseteq s.open /\ m \in C
    BY <1>0, ChainFacts
  <1>4. /\ IsFiniteSet(s.open) /\ Cardinality(s.open) \in Nat /\ Cardinality(C) \in Nat
        /\ Cardinality(s.open \ C) = Cardinality(s.open) - Cardinality(C)
        /\ Cardinality(C) <= Cardinality(s.open)
    <2>1. IsFiniteSet(s.open)
      BY <1>0, MenuFacts, FS_Subset
    <2>2. IsFiniteSet(C) /\ Cardinality(C) <= Cardinality(s.open)
      BY <1>3, <2>1, FS_Subset
    <2>3. s.open \cap C = C
      BY <1>3
    <2>4. Cardinality(s.open \ C) = Cardinality(s.open) - Cardinality(s.open \cap C)
      BY <2>1, FS_Difference
    <2> QED
      BY <2>1, <2>2, <2>3, <2>4, FS_CardinalityType
  <1>5. /\ stack \in Seq(Menus \cup {Other}) /\ Len(stack) = Cardinality(s.open \ C) + 1
        /\ Len(stack) <= Len(s.stack) /\ stack[1] = Other
        /\ \A k \in 1..Len(stack) : stack[k] = s.stack[k]
    <2>1. s.stack \in Seq(Menus \cup {Other}) /\ Len(s.stack) = Cardinality(s.open) + 1
          /\ s.stack[1] = Other
      BY DEF Sound, MenuStates
    <2>2. len \in Nat /\ len >= 1 /\ len <= Len(s.stack) /\ len = Cardinality(s.open \ C) + 1
      BY <1>4, <2>1
    <2>3. len \in 0..Len(s.stack)
      BY <2>2
    <2>4. stack \in Seq(Menus \cup {Other}) /\ Len(stack) = len
          /\ \A k \in 1..len : stack[k] = s.stack[k]
      <3> HIDE DEF len
      <3> QED
        BY <2>1, <2>3, PrefixFacts
    <2> HIDE DEF stack, len
    <2>5. 1 \in 1..len
      BY <2>2
    <2>6. stack[1] = Other
      BY <2>1, <2>4, <2>5
    <2> QED
      BY <2>2, <2>4, <2>6
  <1>6. /\ high \in [Menus -> Items \cup {None}] /\ user \in [Menus -> Items \cup {None}]
        /\ int \in [Menus -> Items \cup {None}]
    <2>1. s.high \in [Menus -> Items \cup {None}] /\ s.user \in [Menus -> Items \cup {None}]
      BY <1>0 DEF MenuStates
    <2>2. cl.internal \in [Menus -> Items \cup {None}]
      BY <1>1 DEF Sound, MenuStates
    <2> HIDE DEF cl
    <2> QED
      BY <2>1, <2>2
  <1>7. /\ t \in MenuStates /\ t.open = s.open \ C /\ t.linked = s.linked \ C
        /\ t.high = high /\ t.user = user /\ t.internal = int /\ t.stack = stack
    <2>1. cl \in MenuStates
      BY <1>1 DEF Sound
    <2> HIDE DEF cl, high, user, int, stack
    <2>2. t = [open |-> s.open \ C, linked |-> s.linked \ C, high |-> high, user |-> user,
               internal |-> int, stack |-> stack]
      BY <1>2, <2>1 DEF MenuStates
    <2> QED
      BY <1>0, <1>5, <1>6, <2>2 DEF MenuStates
  <1>8. Sound(t)
    <2> HIDE DEF cl, stack
    <2>1. \A n \in Menus : high[n] \in Lights(n) /\ user[n] \in Lights(n)
      BY DEF Sound, Lights
    <2> QED
      BY <1>0, <1>5, <1>7, <2>1 DEF Sound
  <1>9. \A n \in Menus : int[n] =
                     IF n \in C \/ (s.high[m] # None /\ (n = m \/ n \in ParentMenus(m)))
                     THEN None ELSE s.internal[n]
    <2> HIDE DEF cl
    <2> QED
      BY <1>1
  <1> HIDE DEF stack, int
  <1> QED
    BY <1>5, <1>7, <1>8, <1>9

\* close, of whatever menu
LEMMA CloseKeeps ==
    ASSUME NEW s, Sound(s), NEW m
    PROVE  /\ Sound(Close(s, m))
           /\ Close(s, m).linked \subseteq s.linked
           /\ Selectable(s) => Selectable(Close(s, m))
  <1>1. CASE m \in s.open
    <2>1. s.open \subseteq Menus
      BY DEF Sound, MenuStates
    <2> QED
      BY <1>1, <2>1, CloseFacts DEF Selectable
  <1>2. CASE m \notin s.open
    BY <1>2 DEF Close
  <1> QED
    BY <1>1, <1>2

LEMMA CloseSubMenuKeeps ==
    ASSUME NEW s, Sound(s), NEW i
    PROVE  /\ Sound(CloseSubMenu(s, i))
           /\ CloseSubMenu(s, i).linked \subseteq s.linked
           /\ Selectable(s) => Selectable(CloseSubMenu(s, i))
  BY CloseKeeps DEF CloseSubMenu

\* A field of the record is set for one menu.
LEMMA SetHighFacts ==
    ASSUME NEW s, Sound(s), NEW m \in Menus, NEW i \in Lights(m),
           NEW t, t = [s EXCEPT !.high[m] = i]
    PROVE  /\ Sound(t) /\ t.open = s.open /\ t.linked = s.linked
           /\ t.high = [s.high EXCEPT ![m] = i] /\ t.user = s.user
           /\ t.internal = s.internal /\ t.stack = s.stack
  <1>1. s \in MenuStates /\ i \in Items \cup {None}
    BY MenuFacts DEF Sound
  <1>2. /\ t \in MenuStates /\ t.open = s.open /\ t.linked = s.linked
        /\ t.high = [s.high EXCEPT ![m] = i] /\ t.user = s.user
        /\ t.internal = s.internal /\ t.stack = s.stack
    BY <1>1 DEF MenuStates
  <1>3. s.high \in [Menus -> Items \cup {None}]
    BY <1>1 DEF MenuStates
  <1> QED
    BY <1>2, <1>3 DEF Sound

LEMMA SetUserFacts ==
    ASSUME NEW s, Sound(s), NEW m \in Menus, NEW i \in Lights(m),
           NEW t, t = [s EXCEPT !.user[m] = i]
    PROVE  /\ Sound(t) /\ t.open = s.open /\ t.linked = s.linked
           /\ t.user = [s.user EXCEPT ![m] = i] /\ t.high = s.high
           /\ t.internal = s.internal /\ t.stack = s.stack
  <1>1. s \in MenuStates /\ i \in Items \cup {None}
    BY MenuFacts DEF Sound
  <1>2. /\ t \in MenuStates /\ t.open = s.open /\ t.linked = s.linked
        /\ t.user = [s.user EXCEPT ![m] = i] /\ t.high = s.high
        /\ t.internal = s.internal /\ t.stack = s.stack
    BY <1>1 DEF MenuStates
  <1>3. s.user \in [Menus -> Items \cup {None}]
    BY <1>1 DEF MenuStates
  <1> QED
    BY <1>2, <1>3 DEF Sound

\* Top is above every other menu of the path.
LEMMA TopOfPath ==
    ASSUME NEW s, Sound(s), NEW p, NEW n, Path(s, p, n), NEW j \in 1..n
    PROVE  Top = p[j] \/ Top \in ParentMenus(p[j])
  <1>1. n \in Nat /\ 1 \in 1..n /\ p[1] = Top
    BY DEF Path
  <1>2. CASE j = 1
    BY <1>1, <1>2
  <1>3. CASE 1 < j
    BY <1>1, <1>3, PathParents
  <1> QED
    BY <1>1, <1>2, <1>3

\* Closing a menu of the path cuts the path off before it.
LEMMA ClosePath ==
    ASSUME NEW s, Sound(s), NEW p, NEW n, Path(s, p, n), NEW j \in 1..n,
           NEW t, t = Close(s, p[j])
    PROVE  /\ Sound(t) /\ Path(t, p, j - 1)
           /\ OnStack(s, p, n) => OnStack(t, p, j - 1)
           /\ Decided(s, p, n) => Decided(t, p, j - 1)
           /\ \A k \in 1..(j - 1) : t.high[p[k]] = s.high[p[k]] /\ t.user[p[k]] = s.user[p[k]]
           /\ t.internal[Top] \in {None, s.internal[Top]}
  <1> DEFINE C == Chain(s, p[j])
  <1>0. n \in Nat /\ j - 1 \in Nat /\ \A k \in 1..n : p[k] \in Menus /\ p[k] \in s.open
    BY DEF Path
  <1>1. /\ Sound(t)
        /\ t.open = s.open \ C /\ t.linked = s.linked \ C
        /\ \A m \in Menus : t.high[m] = (IF m \in C THEN None ELSE s.high[m])
        /\ \A m \in Menus : t.user[m] = (IF m \in C THEN None ELSE s.user[m])
        /\ \A m \in Menus : t.internal[m] =
                 IF m \in C \/ (s.high[p[j]] # None /\ (m = p[j] \/ m \in ParentMenus(p[j])))
                 THEN None ELSE s.internal[m]
        /\ \A k \in 1..Len(t.stack) : t.stack[k] = s.stack[k]
    <2>1. p[j] \in s.open
      BY <1>0
    <2> QED
      BY <2>1, CloseFacts
  <1>2. C = {p[k] : k \in j..n}
    BY PathChain
  <1> HIDE DEF C
  <1>3. \A k \in 1..n : p[k] \in C <=> k >= j
    <2>1. ASSUME NEW k \in 1..n, k >= j PROVE p[k] \in C
      BY <1>0, <1>2, <2>1
    <2>2. ASSUME NEW k \in 1..n, p[k] \in C PROVE k >= j
      <3>1. PICK l \in j..n : p[k] = p[l]
        BY <1>2, <2>2
      <3>2. l \in 1..n
        BY <1>0
      <3>3. k = l
        BY <3>1, <3>2, PathInjective
      <3> QED
        BY <1>0, <3>3
    <2> QED
      BY <2>1, <2>2
  <1>4. \A k \in 1..(j - 1) : k \in 1..n /\ p[k] \notin C
    BY <1>0, <1>3
  <1>5. t.open = {p[k] : k \in 1..(j - 1)}
    <2>1. s.open = {p[k] : k \in 1..n}
      BY DEF Path
    <2>2. ASSUME NEW m \in t.open PROVE m \in {p[k] : k \in 1..(j - 1)}
      <3>1. PICK k \in 1..n : m = p[k]
        BY <1>1, <2>1
      <3>2. ~(k >= j)
        BY <1>1, <1>3, <3>1
      <3>3. k \in 1..(j - 1)
        BY <1>0, <3>2
      <3> QED
        BY <3>1, <3>3
    <2> QED
      BY <1>1, <1>4, <2>1, <2>2
  <1>6. \A k \in 1..(j - 1) : t.high[p[k]] = s.high[p[k]] /\ t.user[p[k]] = s.user[p[k]]
    BY <1>0, <1>1, <1>4
  <1>7. t.internal[Top] \in {None, s.internal[Top]}
    BY <1>1, MenuFacts
  <1>8. Path(t, p, j - 1)
    <2>1. \A k \in 1..(j - 1) : k > 1 => MenuOf(p[k]) = p[k - 1] /\ t.high[p[k - 1]] = p[k]
      <3> SUFFICES ASSUME NEW k \in 1..(j - 1), k > 1
                   PROVE  MenuOf(p[k]) = p[k - 1] /\ t.high[p[k - 1]] = p[k]
        OBVIOUS
      <3>1. k \in 1..n /\ k - 1 \in 1..(j - 1)
        BY <1>0
      <3>2. MenuOf(p[k]) = p[k - 1] /\ s.high[p[k - 1]] = p[k]
        BY <3>1 DEF Path
      <3> QED
        BY <1>6, <3>1, <3>2
    <2>2. t.linked = t.open \ {Top}
      BY <1>1 DEF Path
    <2>3. \A m \in Menus : m \notin t.open => t.high[m] = None /\ t.user[m] = None
      BY <1>1 DEF Path
    <2>4. j - 1 = 0 => t.internal[Top] = None
      <3> SUFFICES ASSUME j = 1 PROVE t.internal[Top] = None
        BY <1>0
      <3>1. Top \in C
        BY <1>0, <1>3 DEF Path
      <3> QED
        BY <1>1, <3>1, MenuFacts
    <2>5. j - 1 > 0 => p[1] = Top
      BY <1>0 DEF Path
    <2> QED
      BY <1>0, <1>4, <1>5, <2>1, <2>2, <2>3, <2>4, <2>5 DEF Path
  <1>9. OnStack(s, p, n) => OnStack(t, p, j - 1)
    <2>1. Cardinality(t.open) = j - 1
      BY <1>1, <1>8, PathLength
    <2>2. Len(t.stack) = j
      BY <1>0, <1>1, <2>1 DEF Sound
    <2>3. \A k \in 1..(j - 1) : k + 1 \in 1..Len(t.stack)
      BY <1>0, <2>2
    <2> QED
      BY <1>1, <1>4, <2>3 DEF OnStack
  <1>10. Decided(s, p, n) => Decided(t, p, j - 1)
    <2> SUFFICES ASSUME Decided(s, p, n), j - 1 > 0
                 PROVE  t.internal[Top] = Selected(t.high[p[j - 1]])
      BY DEF Decided
    <2>1. t.high[p[j - 1]] = p[j] /\ p[j] \in Menus
      <3>1. j - 1 \in 1..(j - 1) /\ j > 1
        BY <1>0
      <3>2. s.high[p[j - 1]] = p[j]
        BY <3>1 DEF Path
      <3> QED
        BY <1>0, <1>6, <3>1, <3>2
    <2>2. Selected(t.high[p[j - 1]]) = None
      BY <2>1, SubMenusNotSelected
    <2>3. CASE s.high[p[j]] = None
      <3>1. ~(j < n)
        <4>1. None \notin s.linked
          BY MenuFacts DEF Sound, MenuStates
        <4> QED
          BY <2>3, <4>1, PathHighlights
      <3>2. j = n
        BY <1>0, <3>1
      <3>3. s.internal[Top] = Selected(None)
        BY <1>0, <2>3, <3>2 DEF Decided
      <3>4. s.internal[Top] = None
        BY <3>3 DEF Selected
      <3> QED
        BY <1>7, <2>2, <3>4
    <2>4. CASE s.high[p[j]] # None
      BY <1>1, <2>2, <2>4, TopOfPath, MenuFacts
    <2> QED
      BY <2>3, <2>4
  <1> QED
    BY <1>1, <1>6, <1>7, <1>8, <1>9, <1>10

\* A highlight closes the submenu of the last one and is what is selected, if
\* it can be: the menu becomes the deepest.
LEMMA SetHighlightPath ==
    ASSUME NEW s, Sound(s), NEW p, NEW n, Path(s, p, n), NEW j \in 1..n,
           NEW i \in Lights(p[j]), s.high[p[j]] # i, NEW t, t = SetHighlight(s, p[j], i)
    PROVE  /\ Sound(t) /\ Path(t, p, j) /\ t.high[p[j]] = i
           /\ OnStack(s, p, n) => OnStack(t, p, j)
           /\ Decided(t, p, j)
  <1> DEFINE m == p[j]
             c == CloseSubMenu(s, s.high[m])
             d == [c EXCEPT !.high[m] = i]
  <1>0. n \in Nat /\ j \in Nat /\ j >= 1 /\ \A k \in 1..n : p[k] \in Menus /\ p[k] \in s.open
    BY DEF Path
  <1>1. Sound(c) /\ Path(c, p, j) /\ (OnStack(s, p, n) => OnStack(c, p, j))
    <2>1. CASE j < n
      <3>1. j + 1 \in 1..n /\ (j + 1) - 1 = j /\ j + 1 > 1
        BY <1>0, <2>1
      <3>2. s.high[m] \in s.linked /\ s.high[m] = p[j + 1]
        <4>1. s.high[m] \in s.linked
          BY <2>1, PathHighlights
        <4> QED
          BY <3>1, <4>1 DEF Path
      <3>3. c = Close(s, p[j + 1])
        BY <3>2 DEF CloseSubMenu
      <3> HIDE DEF c, m
      <3>4. /\ Sound(c) /\ Path(c, p, (j + 1) - 1)
            /\ OnStack(s, p, n) => OnStack(c, p, (j + 1) - 1)
        BY <3>1, <3>3, ClosePath
      <3> QED
        BY <3>1, <3>4
    <2>2. CASE j = n
      <3>1. s.high[m] \notin s.linked
        BY <1>0, <2>2, PathHighlights
      <3>2. c = s
        BY <3>1 DEF CloseSubMenu
      <3> QED
        BY <2>2, <3>2
    <2> QED
      BY <1>0, <2>1, <2>2
  <1>2. m \in Menus /\ i \in Items \cup {None}
    BY <1>0, MenuFacts
  <1> HIDE DEF c
  <1>3. /\ Sound(d) /\ d.open = c.open /\ d.linked = c.linked
        /\ d.high = [c.high EXCEPT ![m] = i] /\ d.user = c.user
        /\ d.internal = c.internal /\ d.stack = c.stack
    <2>1. i \in Lights(m)
      OBVIOUS
    <2> HIDE DEF m
    <2>2. \A u : u = [c EXCEPT !.high[m] = i] =>
            /\ Sound(u) /\ u.open = c.open /\ u.linked = c.linked
            /\ u.high = [c.high EXCEPT ![m] = i] /\ u.user = c.user
            /\ u.internal = c.internal /\ u.stack = c.stack
      BY <1>1, <1>2, <2>1, SetHighFacts
    <2> QED
      BY <2>2
  <1>4. t = SetInternal(d, m, Selected(i))
    BY DEF SetHighlight, Selected, c
  <1> HIDE DEF d
  <1>5. /\ Sound(t) /\ t.open = c.open /\ t.linked = c.linked
        /\ t.high = [c.high EXCEPT ![m] = i] /\ t.user = c.user /\ t.stack = c.stack
        /\ \A k \in Menus : t.internal[k] =
                 IF k = m \/ k \in ParentMenus(m) THEN Selected(i) ELSE d.internal[k]
    BY <1>2, <1>3, <1>4, SetInternalFacts, SelectedFacts
  <1>6. t.high[m] = i /\ \A k \in Menus : k # m => t.high[k] = c.high[k]
    BY <1>1, <1>2, <1>5 DEF Sound, MenuStates
  <1>7. m \in c.open
    BY <1>0, <1>1 DEF Path
  <1>8. Path(t, p, j)
    <2>1. ASSUME NEW k \in 1..j, k > 1
          PROVE  MenuOf(p[k]) = p[k - 1] /\ t.high[p[k - 1]] = p[k]
      <3>1. k - 1 \in 1..n /\ k - 1 # j
        BY <1>0, <2>1
      <3>2. p[k - 1] # m /\ p[k - 1] \in Menus
        BY <1>0, <3>1, PathInjective
      <3>3. MenuOf(p[k]) = p[k - 1] /\ c.high[p[k - 1]] = p[k]
        BY <1>1, <2>1 DEF Path
      <3> QED
        BY <1>6, <3>2, <3>3
    <2>2. \A k \in Menus : k \notin t.open => t.high[k] = None /\ t.user[k] = None
      BY <1>1, <1>5, <1>6, <1>7 DEF Path
    <2>3. t.open = {p[k] : k \in 1..j} /\ t.linked = t.open \ {Top}
      BY <1>1, <1>5 DEF Path
    <2>4. (\A k \in 1..j : p[k] \in Menus) /\ p[1] = Top /\ ~(j = 0)
      BY <1>0, <1>1 DEF Path
    <2> QED
      BY <1>0, <2>1, <2>2, <2>3, <2>4 DEF Path
  <1>9. OnStack(s, p, n) => OnStack(t, p, j)
    BY <1>1, <1>5 DEF OnStack
  <1>10. Decided(t, p, j)
    <2>1. Top = m \/ Top \in ParentMenus(m)
      BY TopOfPath
    <2> QED
      BY <1>5, <1>6, <2>1, MenuFacts DEF Decided
  <1> QED
    BY <1>5, <1>6, <1>8, <1>9, <1>10

-----------------------------------------------------------------------------
(* Menus: what the handlers call keeps the invariant *)

\* The invariant of a menu, for a behaviour with the options e.
Good(e, s) ==
    /\ Sound(s)
    /\ "back" \notin e => Selectable(s)
    /\ "items" \notin e => OnPath(e, s)

\* Menu m is open, as far as that is known.
Has(e, s, m) == m \in Menus /\ ("items" \notin e => m \in s.open)

LEMMA CloseGood ==
    ASSUME NEW e, NEW s, Good(e, s), NEW m
    PROVE  Good(e, Close(s, m))
  <1>1. Sound(s)
    BY DEF Good
  <1>2. ASSUME OnPath(e, s) PROVE OnPath(e, Close(s, m))
    <2>1. PICK p : \E n \in Nat :
              /\ Path(s, p, n)
              /\ "margin" \notin e => OnStack(s, p, n)
              /\ e = {} => Decided(s, p, n)
      BY <1>2 DEF OnPath
    <2>2. PICK n \in Nat :
              /\ Path(s, p, n)
              /\ "margin" \notin e => OnStack(s, p, n)
              /\ e = {} => Decided(s, p, n)
      BY <2>1
    <2>3. CASE m \in s.open
      <3>1. PICK j \in 1..n : p[j] = m
        BY <2>2, <2>3, OnThePath
      <3>2. /\ Path(Close(s, m), p, j - 1)
            /\ OnStack(s, p, n) => OnStack(Close(s, m), p, j - 1)
            /\ Decided(s, p, n) => Decided(Close(s, m), p, j - 1)
        BY <1>1, <2>2, <3>1, ClosePath
      <3>3. j - 1 \in Nat
        OBVIOUS
      <3> QED
        BY <2>2, <3>2, <3>3 DEF OnPath
    <2>4. CASE m \notin s.open
      BY <1>2, <2>4 DEF Close
    <2> QED
      BY <2>3, <2>4
  <1> QED
    BY <1>1, <1>2, CloseKeeps DEF Good

LEMMA CloseSubMenuGood ==
    ASSUME NEW e, NEW s, Good(e, s), NEW i
    PROVE  Good(e, CloseSubMenu(s, i))
  BY CloseGood DEF CloseSubMenu

\* _highlightDidChange, for whatever menu
LEMMA SetHighlightKeeps ==
    ASSUME NEW s, Sound(s), NEW m \in Menus, NEW i \in Lights(m)
    PROVE  /\ Sound(SetHighlight(s, m, i))
           /\ SetHighlight(s, m, i).linked \subseteq s.linked
           /\ Selectable(s) => Selectable(SetHighlight(s, m, i))
  <1> DEFINE c == CloseSubMenu(s, s.high[m])
             d == [c EXCEPT !.high[m] = i]
  <1>1. CASE s.high[m] = i
    BY <1>1 DEF SetHighlight
  <1>2. CASE s.high[m] # i
    <2>1. Sound(c) /\ c.linked \subseteq s.linked /\ (Selectable(s) => Selectable(c))
      BY CloseSubMenuKeeps
    <2>2. SetHighlight(s, m, i) = SetInternal(d, m, Selected(i))
      BY <1>2 DEF SetHighlight, Selected
    <2> HIDE DEF c
    <2>3. \A u : u = [c EXCEPT !.high[m] = i] =>
            /\ Sound(u) /\ u.open = c.open /\ u.linked = c.linked
            /\ u.high = [c.high EXCEPT ![m] = i] /\ u.user = c.user
            /\ u.internal = c.internal /\ u.stack = c.stack
      BY <2>1, SetHighFacts
    <2>4. Sound(d) /\ d.linked = c.linked /\ d.internal = c.internal
      BY <2>3
    <2> HIDE DEF d
    <2>5. i \in Items \cup {None}
      BY MenuFacts
    <2>6. /\ Sound(SetInternal(d, m, Selected(i)))
          /\ SetInternal(d, m, Selected(i)).linked = d.linked
          /\ \A k \in Menus : SetInternal(d, m, Selected(i)).internal[k] \in {Selected(i), d.internal[k]}
      BY <2>4, <2>5, SetInternalFacts, SelectedFacts
    <2>7. Selectable(c) => Selectable(SetInternal(d, m, Selected(i)))
      BY <2>4, <2>5, <2>6, SelectedFacts DEF Selectable
    <2> QED
      BY <2>1, <2>2, <2>4, <2>6, <2>7
  <1> QED
    BY <1>1, <1>2

LEMMA SetHighlightGood ==
    ASSUME NEW e, NEW s, Good(e, s), NEW m, Has(e, s, m), NEW i \in Lights(m)
    PROVE  /\ Good(e, SetHighlight(s, m, i)) /\ Has(e, SetHighlight(s, m, i), m)
           /\ SetHighlight(s, m, i).linked \subseteq s.linked
  <1>1. Sound(s) /\ m \in Menus
    BY DEF Good, Has
  <1>2. CASE s.high[m] = i
    BY <1>2 DEF SetHighlight
  <1>3. CASE s.high[m] # i
    <2> DEFINE t == SetHighlight(s, m, i)
    <2>1. ASSUME "items" \notin e PROVE OnPath(e, t) /\ m \in t.open
      <3>1. PICK p : \E n \in Nat :
                /\ Path(s, p, n)
                /\ "margin" \notin e => OnStack(s, p, n)
        BY <2>1 DEF Good, OnPath
      <3>2. PICK n \in Nat : Path(s, p, n) /\ ("margin" \notin e => OnStack(s, p, n))
        BY <3>1
      <3>3. PICK j \in 1..n : p[j] = m
        BY <2>1, <3>2, OnThePath DEF Has
      <3> HIDE DEF t
      <3>4. /\ Path(t, p, j) /\ (OnStack(s, p, n) => OnStack(t, p, j)) /\ Decided(t, p, j)
        BY <1>1, <1>3, <3>2, <3>3, SetHighlightPath DEF t
      <3>5. j \in Nat /\ m \in t.open
        BY <3>3, <3>4 DEF Path
      <3> QED
        BY <3>2, <3>4, <3>5 DEF OnPath
    <2> QED
      BY <1>1, <2>1, SetHighlightKeeps DEF Good, Has
  <1> QED
    BY <1>2, <1>3

\* _userHighlightIndexDidChange
LEMMA SetUserHighlightGood ==
    ASSUME NEW e, NEW s, Good(e, s), NEW m, Has(e, s, m), NEW i \in Lights(m)
    PROVE  /\ Good(e, SetUserHighlight(s, m, i)) /\ Has(e, SetUserHighlight(s, m, i), m)
           /\ SetUserHighlight(s, m, i).linked \subseteq s.linked
  <1>1. CASE s.user[m] = i
    BY <1>1 DEF SetUserHighlight
  <1>2. CASE s.user[m] # i
    <2> DEFINE u == [s EXCEPT !.user[m] = i]
    <2>0. Sound(s) /\ m \in Menus
      BY DEF Good, Has
    <2>1. /\ Sound(u) /\ u.open = s.open /\ u.linked = s.linked
          /\ u.user = [s.user EXCEPT ![m] = i] /\ u.high = s.high
          /\ u.internal = s.internal /\ u.stack = s.stack
      <3>1. \A v : v = [s EXCEPT !.user[m] = i] =>
              /\ Sound(v) /\ v.open = s.open /\ v.linked = s.linked
              /\ v.user = [s.user EXCEPT ![m] = i] /\ v.high = s.high
              /\ v.internal = s.internal /\ v.stack = s.stack
        BY <2>0, SetUserFacts
      <3> QED
        BY <3>1
    <2>2. SetUserHighlight(s, m, i) = SetHighlight(u, m, i)
      BY <1>2 DEF SetUserHighlight
    <2> HIDE DEF u
    <2>3. ASSUME "items" \notin e PROVE OnPath(e, u)
      <3>1. PICK p : \E n \in Nat :
                /\ Path(s, p, n)
                /\ "margin" \notin e => OnStack(s, p, n)
                /\ e = {} => Decided(s, p, n)
        BY <2>3 DEF Good, OnPath
      <3>2. PICK n \in Nat :
                /\ Path(s, p, n)
                /\ "margin" \notin e => OnStack(s, p, n)
                /\ e = {} => Decided(s, p, n)
        BY <3>1
      <3>3. \A k \in Menus : k \notin s.open => u.user[k] = s.user[k]
        <4>1. m \in s.open
          BY <2>3 DEF Has
        <4> QED
          BY <2>0, <2>1, <4>1 DEF Sound, MenuStates
      <3>4. Path(u, p, n)
        BY <2>1, <3>2, <3>3 DEF Path
      <3>5. (OnStack(s, p, n) => OnStack(u, p, n)) /\ (Decided(s, p, n) => Decided(u, p, n))
        BY <2>1 DEF OnStack, Decided
      <3> QED
        BY <3>2, <3>4, <3>5 DEF OnPath
    <2>4. Good(e, u) /\ Has(e, u, m)
      BY <2>1, <2>3 DEF Good, Has, Selectable
    <2> QED
      BY <2>1, <2>2, <2>4, SetHighlightGood
  <1> QED
    BY <1>1, <1>2

\* moveUp and moveDown
LEMMA SelectNextGood ==
    ASSUME NEW e, NEW s, Good(e, s), NEW m, Has(e, s, m), NEW increment \in {-1, 1}
    PROVE  Good(e, SelectNext(s, m, increment))
  <1> DEFINE items   == MenuItems[m]
             at      == IF s.high[m] = None THEN 0
                        ELSE SelectInSeq(items, LAMBDA i : i = s.high[m])
             beyond  == {k \in DOMAIN items :
                            /\ IsEnabled(items[k])
                            /\ IF increment > 0 THEN k > at ELSE k < at}
             next    == CHOOSE k \in beyond : \A j \in beyond : (j - k) * increment >= 0
  <1>1. SelectNext(s, m, increment) = IF beyond = {} THEN s ELSE SetHighlight(s, m, items[next])
    BY DEF SelectNext
  <1>2. items \in Seq(Items)
    BY MenuAssumption DEF Has
  <1> HIDE DEF at
  <1>3. beyond \subseteq DOMAIN items /\ DOMAIN items = 1..Len(items) /\ Len(items) \in Nat
    <2> HIDE DEF items
    <2>1. beyond \subseteq DOMAIN items
      BY Zenon
    <2> QED
      BY <1>2, <2>1
  <1> HIDE DEF beyond
  <1>4. ASSUME beyond # {} PROVE next \in beyond
    <2>1. \E k \in beyond : \A j \in beyond : (j - k) * increment >= 0
      <3>1. CASE increment = 1
        <4>1. PICK k \in beyond : \A j \in beyond : k <= j
          <5>1. beyond \subseteq Nat
            BY <1>3
          <5> QED
            BY <1>4, <5>1, LeastNumber
        <4>2. \A j \in beyond : (j - k) * 1 >= 0
          BY <1>3, <4>1
        <4> QED
          BY <3>1, <4>2
      <3>2. CASE increment = -1
        <4>1. PICK k \in beyond : \A j \in beyond : j <= k
          BY <1>3, <1>4, GreatestNumber
        <4>2. \A j \in beyond : (j - k) * (-1) >= 0
          BY <1>3, <4>1
        <4> QED
          BY <3>2, <4>2
      <3> QED
        BY <3>1, <3>2
    <2> QED
      BY <2>1, Zenon
  <1> HIDE DEF next
  <1>5. ASSUME beyond # {} PROVE items[next] \in Lights(m)
    <2>1. next \in DOMAIN MenuItems[m]
      BY <1>3, <1>4, <1>5
    <2> QED
      BY <2>1 DEF Lights, ToSet
  <1> QED
    BY <1>1, <1>5, SetHighlightGood

\* A menu that is not open is put on the screen and on the stack.
LEMMA PopupFacts ==
    ASSUME NEW s, Sound(s), NEW m \in Menus, m \notin s.open, NEW t, t = Popup(s, m)
    PROVE  /\ Sound(t) /\ t.open = s.open \cup {m} /\ t.linked = s.linked \cup ({m} \ {Top})
           /\ t.high = s.high /\ t.user = s.user /\ t.internal = s.internal
           /\ Len(t.stack) = Len(s.stack) + 1 /\ t.stack[Len(s.stack) + 1] = m
           /\ \A k \in 1..Len(s.stack) : t.stack[k] = s.stack[k]
  <1>0. /\ s \in MenuStates /\ s.stack \in Seq(Menus \cup {Other}) /\ s.open \in SUBSET Menus
        /\ s.linked \subseteq s.open
    BY DEF Sound, MenuStates
  <1> DEFINE stack == Append(s.stack, m)
  <1>1. /\ stack \in Seq(Menus \cup {Other}) /\ Len(stack) = Len(s.stack) + 1
        /\ stack[Len(s.stack) + 1] = m /\ \A k \in 1..Len(s.stack) : stack[k] = s.stack[k]
    BY <1>0
  <1>2. t = [s EXCEPT !.open = s.open \cup {m}, !.linked = s.linked \cup ({m} \ {Top}),
                      !.stack = stack]
    BY DEF Popup
  <1> HIDE DEF stack
  <1>3. t = [open |-> s.open \cup {m}, linked |-> s.linked \cup ({m} \ {Top}), high |-> s.high,
             user |-> s.user, internal |-> s.internal, stack |-> stack]
    BY <1>0, <1>2 DEF MenuStates
  <1>4. t \in MenuStates
    BY <1>0, <1>1, <1>3 DEF MenuStates
  <1>5. Cardinality(s.open \cup {m}) = Cardinality(s.open) + 1 /\ Cardinality(s.open) \in Nat
    <2>1. IsFiniteSet(s.open)
      BY <1>0, MenuFacts, FS_Subset
    <2> QED
      BY <2>1, FS_AddElement, FS_CardinalityType
  <1>6. Len(s.stack) = Cardinality(s.open) + 1 /\ s.stack[1] = Other
    BY DEF Sound
  <1>7. stack[1] = Other
    BY <1>1, <1>5, <1>6
  <1>8. \A k \in Menus : s.high[k] \in Lights(k) /\ s.user[k] \in Lights(k)
    BY DEF Sound
  <1> QED
    BY <1>0, <1>1, <1>3, <1>4, <1>5, <1>6, <1>7, <1>8 DEF Sound

LEMMA PopupKeeps ==
    ASSUME NEW s, Sound(s), NEW m \in Menus
    PROVE  Sound(Popup(s, m)) /\ Popup(s, m).internal = s.internal
  <1>1. CASE m \in s.open
    BY <1>1 DEF Popup
  <1>2. CASE m \notin s.open
    BY <1>2, PopupFacts
  <1> QED
    BY <1>1, <1>2

\* Only the deepest menu can open a submenu that is not open.
LEMMA PopupGood ==
    ASSUME NEW e, NEW s, Good(e, s), NEW m, Has(e, s, m), NEW i, i = s.high[m], i \in Menus
    PROVE  Good(e, Popup(s, i)) /\ Has(e, Popup(s, i), i)
  <1>0. Sound(s) /\ m \in Menus
    BY DEF Good, Has
  <1>1. CASE i \in s.open
    BY <1>1 DEF Popup, Has
  <1>2. CASE i \notin s.open
    <2> DEFINE t == Popup(s, i)
    <2>1. /\ Sound(t) /\ t.open = s.open \cup {i} /\ t.linked = s.linked \cup ({i} \ {Top})
          /\ t.high = s.high /\ t.user = s.user /\ t.internal = s.internal
          /\ Len(t.stack) = Len(s.stack) + 1 /\ t.stack[Len(s.stack) + 1] = i
          /\ \A k \in 1..Len(s.stack) : t.stack[k] = s.stack[k]
      BY <1>0, <1>2, PopupFacts
    <2> HIDE DEF t
    <2>2. ASSUME "items" \notin e PROVE OnPath(e, t)
      <3>1. PICK p : \E n \in Nat :
                /\ Path(s, p, n)
                /\ "margin" \notin e => OnStack(s, p, n)
                /\ e = {} => Decided(s, p, n)
        BY <2>2 DEF Good, OnPath
      <3>2. PICK n \in Nat :
                /\ Path(s, p, n)
                /\ "margin" \notin e => OnStack(s, p, n)
                /\ e = {} => Decided(s, p, n)
        BY <3>1
      <3>3. PICK j \in 1..n : p[j] = m
        BY <2>2, <3>2, OnThePath DEF Has
      <3>4. i \in Items /\ i # Top /\ MenuOf(i) = m
        <4>1. i \in Lights(m)
          BY <1>0 DEF Sound
        <4> QED
          BY <1>0, <4>1, MenuFacts
      <3>5. j = n
        <4>1. i \notin s.linked
          BY <1>2, <3>2, <3>4 DEF Path
        <4>2. ~(j < n)
          BY <1>0, <3>2, <3>3, <4>1, PathHighlights
        <4> QED
          BY <4>2
      <3> DEFINE q == [k \in 1..(n + 1) |-> IF k = n + 1 THEN i ELSE p[k]]
      <3>6. /\ n + 1 \in 1..(n + 1) /\ q[n + 1] = i /\ n + 1 \in Nat /\ (n + 1) - 1 = n /\ n >= 1
            /\ \A k \in 1..n : k \in 1..(n + 1) /\ q[k] = p[k]
            /\ \A k \in 1..(n + 1) : k # n + 1 => k \in 1..n
            /\ \A k \in 1..(n + 1) : k > 1 => k - 1 \in 1..n
        BY <3>3
      <3> HIDE DEF q
      <3>7. Path(t, q, n + 1)
        <4>1. \A k \in 1..(n + 1) : q[k] \in Menus
          BY <3>2, <3>6 DEF Path
        <4>2. q[1] = Top
          BY <3>2, <3>6 DEF Path
        <4>3. ASSUME NEW k \in 1..(n + 1), k > 1
              PROVE  MenuOf(q[k]) = q[k - 1] /\ t.high[q[k - 1]] = q[k]
          <5>1. CASE k = n + 1
            BY <1>0, <2>1, <3>3, <3>4, <3>5, <3>6, <5>1
          <5>2. CASE k # n + 1
            <6>1. k \in 1..n /\ k - 1 \in 1..n /\ q[k] = p[k] /\ q[k - 1] = p[k - 1]
              BY <3>6, <4>3, <5>2
            <6> QED
              BY <2>1, <3>2, <4>3, <6>1 DEF Path
          <5> QED
            BY <5>1, <5>2
        <4>4. t.open = {q[k] : k \in 1..(n + 1)}
          <5>1. s.open = {p[k] : k \in 1..n}
            BY <3>2 DEF Path
          <5> QED
            BY <2>1, <3>6, <5>1
        <4>5. t.linked = t.open \ {Top}
          BY <2>1, <3>2 DEF Path
        <4>6. \A k \in Menus : k \notin t.open => t.high[k] = None /\ t.user[k] = None
          BY <2>1, <3>2 DEF Path
        <4> QED
          BY <3>6, <4>1, <4>2, <4>3, <4>4, <4>5, <4>6 DEF Path
      <3>8. OnStack(s, p, n) => OnStack(t, q, n + 1)
        <4>1. Len(s.stack) = n + 1
          BY <1>0, <3>2, PathLength DEF Sound
        <4>2. \A k \in 1..n : k + 1 \in 1..Len(s.stack)
          BY <4>1
        <4>3. t.stack[(n + 1) + 1] = i
          BY <2>1, <4>1
        <4> QED
          BY <2>1, <3>6, <4>2, <4>3 DEF OnStack
      <3>9. Decided(s, p, n) => Decided(t, q, n + 1)
        <4>1. t.high[i] = None
          BY <1>2, <2>1, <3>2 DEF Path
        <4>2. Selected(t.high[q[n + 1]]) = None
          BY <3>6, <4>1 DEF Selected
        <4>3. Selected(s.high[p[n]]) = None
          BY <3>3, <3>5, SubMenusNotSelected
        <4> QED
          BY <2>1, <3>6, <4>2, <4>3 DEF Decided
      <3> QED
        BY <3>2, <3>6, <3>7, <3>8, <3>9 DEF OnPath
    <2>3. Good(e, t)
      BY <2>1, <2>2 DEF Good, Selectable
    <2> QED
      BY <2>1, <2>3 DEF Has, t
  <1> QED
    BY <1>1, <1>2

\* _tryOpenSubmenu
LEMMA TryOpenSubmenuGood ==
    ASSUME NEW e, NEW s, Good(e, s), NEW m, Has(e, s, m), NEW select \in BOOLEAN
    PROVE  Good(e, TryOpenSubmenu(s, m, select))
  <1> DEFINE i == s.high[m]
             u == IF i \in s.linked THEN SetUserHighlight(s, i, None) ELSE s
  <1>0. Sound(s) /\ m \in Menus
    BY DEF Good, Has
  <1>1. CASE i = None \/ ~HasSubMenu(i) \/ ~IsEnabled(i)
    BY <1>1 DEF TryOpenSubmenu
  <1>2. CASE ~(i = None \/ ~HasSubMenu(i) \/ ~IsEnabled(i))
    <2>1. i \in Menus
      BY <1>2 DEF HasSubMenu
    <2>2. Good(e, Popup(u, i)) /\ Has(e, Popup(u, i), i)
      <3>1. CASE i \notin s.linked
        <4>1. u = s
          BY <3>1
        <4> HIDE DEF u
        <4> QED
          BY <2>1, <4>1, PopupGood
      <3>2. CASE i \in s.linked
        <4>1. i \in s.open
          BY <1>0, <3>2 DEF Sound
        <4>2. Has(e, s, i) /\ None \in Lights(i)
          BY <2>1, <4>1 DEF Has, Lights
        <4>3. Good(e, u) /\ Has(e, u, i)
          <5>1. u = SetUserHighlight(s, i, None)
            BY <3>2
          <5> HIDE DEF u, i
          <5> QED
            BY <4>2, <5>1, SetUserHighlightGood
        <4> HIDE DEF u, i
        <4>4. Sound(Popup(u, i)) /\ Popup(u, i).internal = u.internal
          BY <2>1, <4>3, PopupKeeps DEF Good
        <4>5. CASE i \in u.open
          BY <4>3, <4>5 DEF Popup
        <4>6. CASE i \notin u.open
          BY <2>1, <4>3, <4>4, <4>6 DEF Good, Has, Selectable
        <4> QED
          BY <4>5, <4>6
      <3> QED
        BY <3>1, <3>2
    <2>3. TryOpenSubmenu(s, m, select) =
             IF select THEN SelectNext(Popup(u, i), i, 1) ELSE Popup(u, i)
      BY <1>2, Zenon DEF TryOpenSubmenu
    <2> HIDE DEF u, i
    <2> QED
      BY <2>2, <2>3, SelectNextGood
  <1> QED
    BY <1>1, <1>2

\* _valueDidChange
LEMMA ShowValueGood ==
    ASSUME NEW e, NEW s, Good(e, s), Has(e, s, Top), NEW v
    PROVE  Good(e, ShowValue(s, v)) /\ Has(e, ShowValue(s, v), Top)
  <1>1. v \in ToSet(MenuItems[Top]) => v \in Lights(Top)
    BY DEF Lights
  <1> QED
    BY <1>1, SetHighlightGood DEF ShowValue

-----------------------------------------------------------------------------
(* Menus: the steps *)

\* The inductive invariant: OpenMenusAreAPath and DeepestSelectableChosen do not
\* say that the stack is as long as the path, that closed menus highlight
\* nothing, nor what may be selected before it is chosen.
MenuInv ==
    /\ env \in Environments
    /\ Good(env, ms)
    /\ value \in Items \cup {None}
    /\ young \in BOOLEAN /\ pointer \in Items \cup {None}
    /\ "back" \notin env /\ value # None => IsSelectable(value)

LEMMA InitMenu == Init => MenuInv
  <1> SUFFICES ASSUME Init PROVE MenuInv
    OBVIOUS
  <1>1. /\ ms = [open |-> {}, linked |-> {}, high |-> NoItems, user |-> NoItems,
                 internal |-> NoItems, stack |-> <<Other>>]
        /\ NoItems \in [Menus -> Items \cup {None}] /\ \A m \in Menus : NoItems[m] = None
    BY DEF Init, NoItems
  <1>2. ms \in MenuStates
    <2>1. <<Other>> \in Seq(Menus \cup {Other})
      OBVIOUS
    <2> QED
      BY <1>1, <2>1 DEF MenuStates
  <1>3. Sound(ms)
    <2>1. Len(<<Other>>) = 1 /\ <<Other>>[1] = Other
      OBVIOUS
    <2>2. Cardinality({}) = 0
      BY FS_EmptySet
    <2>3. ms.open = {} /\ ms.linked = {} /\ ms.stack = <<Other>>
          /\ \A m \in Menus : ms.high[m] = None /\ ms.user[m] = None
      BY <1>1
    <2> QED
      BY <1>2, <2>1, <2>2, <2>3 DEF Sound, Lights
  <1>4. Selectable(ms)
    BY <1>1 DEF Selectable
  <1>5. OnPath(env, ms)
    <2>1. Path(ms, <<>>, 0)
      BY <1>1, MenuFacts DEF Path
    <2>2. OnStack(ms, <<>>, 0) /\ Decided(ms, <<>>, 0)
      BY DEF OnStack, Decided
    <2> QED
      BY <2>1, <2>2 DEF OnPath
  <1>6. young \in BOOLEAN
    BY Zenon DEF Init
  <1> QED
    BY <1>3, <1>4, <1>5, <1>6 DEF MenuInv, Good, Init

\* If a menu is open, the topmost one is.
LEMMA HasTop ==
    ASSUME NEW e, NEW s, Good(e, s), NEW m \in s.open
    PROVE  Has(e, s, m) /\ Has(e, s, Top)
  <1>1. m \in Menus /\ Top \in Menus
    BY MenuFacts DEF Good, Sound, MenuStates
  <1>2. ASSUME "items" \notin e PROVE Top \in s.open
    <2>1. PICK p : \E n \in Nat : Path(s, p, n)
      BY <1>2 DEF Good, OnPath
    <2>2. PICK n \in Nat : Path(s, p, n)
      BY <2>1
    <2>3. PICK j \in 1..n : p[j] = m
      BY <2>2, OnThePath
    <2>4. 1 \in 1..n /\ n > 0
      BY <2>3
    <2> QED
      BY <2>2, <2>4 DEF Path
  <1> QED
    BY <1>1, <1>2 DEF Has

\* The selected item is highlighted before its menu is shown.
LEMMA OpenMenuInv ==
    ASSUME MenuInv, OpenMenu
    PROVE  MenuInv'
  <1> DEFINE v == value
             t == ShowValue(ms, v)
  <1>0. /\ Good(env, ms) /\ Sound(ms) /\ ms.open = {} /\ ms' = Popup(t, Top)
        /\ young' = TRUE /\ pointer' = None /\ env' = env /\ value' = value
    BY DEF MenuInv, Good, OpenMenu
  <1>1. ms.linked = {}
    BY <1>0 DEF Sound
  <1>2. Sound(t) /\ t.linked = {} /\ (Selectable(ms) => Selectable(t))
    <2>1. CASE v \in ToSet(MenuItems[Top])
      <3>1. v \in Lights(Top)
        BY <2>1 DEF Lights
      <3> QED
        BY <1>0, <1>1, <2>1, <3>1, MenuFacts, SetHighlightKeeps DEF ShowValue
    <2>2. CASE v \notin ToSet(MenuItems[Top])
      BY <1>0, <1>1, <2>2 DEF ShowValue
    <2> QED
      BY <2>1, <2>2
  <1>3. Sound(ms') /\ (Selectable(ms) => Selectable(ms'))
    BY <1>0, <1>2, MenuFacts, PopupKeeps DEF Selectable
  <1>4. ASSUME "items" \notin env PROVE OnPath(env, ms')
    <2>1. PICK p : \E n \in Nat : Path(ms, p, n)
      BY <1>0, <1>4 DEF Good, OnPath
    <2>2. PICK n \in Nat : Path(ms, p, n)
      BY <2>1
    <2>3. n = 0
      BY <1>0, <2>2 DEF Path
    <2>4. /\ \A m \in Menus : ms.high[m] = None /\ ms.user[m] = None
          /\ ms.internal[Top] = None
      BY <1>0, <2>2, <2>3 DEF Path
    <2>5. /\ t.open = {} /\ t.stack = ms.stack
          /\ \A m \in Menus : m # Top => t.high[m] = None /\ t.user[m] = None
          /\ t.internal[Top] = Selected(t.high[Top])
      <3>1. CASE v \in ToSet(MenuItems[Top])
        <4> DEFINE d == [ms EXCEPT !.high[Top] = v]
        <4>1. v \in Lights(Top) /\ v # None /\ v \in Items \cup {None}
          BY <3>1, MenuFacts DEF Lights
        <4>2. CloseSubMenu(ms, ms.high[Top]) = ms
          BY <1>1 DEF CloseSubMenu
        <4>3. t = SetInternal(d, Top, Selected(v))
          BY <2>4, <3>1, <4>1, <4>2, MenuFacts DEF ShowValue, SetHighlight, Selected
        <4>4. /\ Sound(d) /\ d.open = ms.open /\ d.high = [ms.high EXCEPT ![Top] = v]
              /\ d.user = ms.user /\ d.stack = ms.stack
          <5> HIDE DEF v
          <5>0. Sound(ms) /\ Top \in Menus /\ v \in Lights(Top)
            BY <1>0, <4>1, MenuFacts
          <5>1. \A u : u = [ms EXCEPT !.high[Top] = v] =>
                  /\ Sound(u) /\ u.open = ms.open /\ u.linked = ms.linked
                  /\ u.high = [ms.high EXCEPT ![Top] = v] /\ u.user = ms.user
                  /\ u.internal = ms.internal /\ u.stack = ms.stack
            BY <5>0, SetHighFacts
          <5> QED
            BY <5>1
        <4> HIDE DEF d, t, v
        <4>5. /\ t.open = d.open /\ t.high = d.high /\ t.user = d.user /\ t.stack = d.stack
              /\ t.internal[Top] = Selected(v)
          BY <4>1, <4>3, <4>4, MenuFacts, SelectedFacts, SetInternalFacts
        <4>6. ms.high \in [Menus -> Items \cup {None}] /\ Top \in Menus
          BY <1>0, MenuFacts DEF Sound, MenuStates
        <4> QED
          BY <1>0, <2>4, <4>4, <4>5, <4>6
      <3>2. CASE v \notin ToSet(MenuItems[Top])
        <4>1. t = ms
          BY <3>2 DEF ShowValue
        <4> HIDE DEF t
        <4> QED
          BY <1>0, <2>4, <4>1, MenuFacts DEF Selected
      <3> QED
        BY <3>1, <3>2
    <2> HIDE DEF t
    <2>6. /\ ms'.open = {Top} /\ ms'.linked = {} /\ ms'.high = t.high /\ ms'.user = t.user
          /\ ms'.internal = t.internal
          /\ ms'.stack[Len(t.stack) + 1] = Top
      <3>1. Top \notin t.open
        BY <2>5
      <3>2. \A u : u = Popup(t, Top) =>
           /\ Sound(u) /\ u.open = t.open \cup {Top} /\ u.linked = t.linked \cup ({Top} \ {Top})
           /\ u.high = t.high /\ u.user = t.user /\ u.internal = t.internal
           /\ Len(u.stack) = Len(t.stack) + 1 /\ u.stack[Len(t.stack) + 1] = Top
           /\ \A k \in 1..Len(t.stack) : u.stack[k] = t.stack[k]
        BY <1>2, <3>1, MenuFacts, PopupFacts
      <3> QED
        BY <1>0, <1>2, <2>5, <3>2
    <2> DEFINE q == <<Top>>
    <2>7. Path(ms', q, 1)
      <3>1. \A k \in 1..1 : k = 1 /\ q[k] = Top
        OBVIOUS
      <3> HIDE DEF q
      <3>2. {q[k] : k \in 1..1} = {Top}
        BY <3>1
      <3>3. \A m \in Menus : m \notin ms'.open => ms'.high[m] = None /\ ms'.user[m] = None
        BY <2>5, <2>6
      <3> QED
        BY <2>6, <3>1, <3>2, <3>3, MenuFacts DEF Path
    <2>8. Len(t.stack) = 1
      BY <1>2, <2>5, FS_EmptySet DEF Sound
    <2>9. OnStack(ms', q, 1) /\ Decided(ms', q, 1)
      BY <2>5, <2>6, <2>8 DEF OnStack, Decided
    <2> QED
      BY <2>7, <2>9 DEF OnPath
  <1>5. young' \in BOOLEAN
    BY <1>0, Zenon
  <1> QED
    BY <1>0, <1>3, <1>4, <1>5 DEF MenuInv, Good

\* makeSelection chooses what is selected, and closes.
LEMMA MakeSelectionInv ==
    ASSUME MenuInv, NEW s, Good(env, s), Has(env, s, Top), NEW m, MakeSelection(s, m)
    PROVE  /\ Good(env, ms') /\ value' \in Items \cup {None}
           /\ "back" \notin env /\ value' # None => IsSelectable(value')
  <1> DEFINE chosen == s.internal[Top]
             closed == Close(IF chosen = None THEN s ELSE ShowValue(s, chosen), Top)
             left   == {n \in closed.open : n = m \/ n \in ParentMenus(m)}
             one == CHOOSE n \in left : MenuOf(n) = Top
  <1>1. value' = (IF chosen = None THEN value ELSE chosen)
        /\ ms' = (IF left = {} THEN closed ELSE Close(closed, one))
    BY Zenon DEF MakeSelection
  <1>2. Good(env, closed)
    BY CloseGood, ShowValueGood
  <1> HIDE DEF closed, left, one
  <1>3. Good(env, ms')
    BY <1>1, <1>2, CloseGood
  <1>4. chosen \in Items \cup {None} /\ ("back" \notin env /\ chosen # None => IsSelectable(chosen))
    BY MenuFacts DEF Good, Sound, MenuStates, Selectable
  <1> QED
    BY <1>1, <1>3, <1>4 DEF MenuInv

\* The keys
LEMMA KeysInv ==
    ASSUME MenuInv,
           \/ \E increment \in {-1, 1} : MoveUpOrDown(increment)
           \/ MoveRight \/ MoveLeft \/ Cancel \/ InsertNewline
           \/ Responder \in ms.open /\ \E i \in Items : KeySearch(i)
    PROVE  MenuInv'
  <1>0. Good(env, ms)
    BY DEF MenuInv
  <1>1. ASSUME NEW t, Good(env, t), ms' = t, UNCHANGED <<env, value, young, pointer>>
        PROVE  MenuInv'
    BY <1>1 DEF MenuInv
  <1>2. ASSUME Responder \in ms.open PROVE Has(env, ms, Responder) /\ Has(env, ms, Top)
    BY <1>0, <1>2, HasTop
  <1>3. CASE \E increment \in {-1, 1} : MoveUpOrDown(increment)
    <2>1. PICK increment \in {-1, 1} : MoveUpOrDown(increment)
      BY <1>3
    <2>2. Responder \in ms.open /\ ms' = SelectNext(ms, Responder, increment)
          /\ UNCHANGED <<env, value, young, pointer>>
      BY <2>1 DEF MoveUpOrDown, KeyStep
    <2> QED
      BY <1>0, <1>1, <1>2, <2>2, SelectNextGood
  <1>4. CASE MoveRight
    <2>1. Responder \in ms.open /\ ms' = TryOpenSubmenu(ms, Responder, TRUE)
          /\ UNCHANGED <<env, value, young, pointer>>
      BY <1>4 DEF MoveRight, KeyStep
    <2>2. Good(env, TryOpenSubmenu(ms, Responder, TRUE))
      BY <1>0, <1>2, <2>1, TryOpenSubmenuGood
    <2> QED
      BY <1>1, <2>1, <2>2
  <1>5. CASE MoveLeft
    <2>1. ms' = (IF Responder = Top THEN ms ELSE CloseSubMenu(ms, ms.high[MenuOf(Responder)]))
          /\ UNCHANGED <<env, value, young, pointer>>
      BY <1>5 DEF MoveLeft, KeyStep
    <2> QED
      BY <1>0, <1>1, <2>1, CloseSubMenuGood
  <1>6. CASE Cancel
    <2>1. ms' = (IF Responder = Top THEN Close(ms, Top)
                 ELSE CloseSubMenu(ms, ms.high[MenuOf(Responder)]))
          /\ UNCHANGED <<env, value, young, pointer>>
      BY <1>6 DEF Cancel, KeyStep
    <2> QED
      BY <1>0, <1>1, <2>1, CloseGood, CloseSubMenuGood
  <1>7. CASE InsertNewline
    <2>1. Responder \in ms.open /\ MakeSelection(ms, Responder) /\ UNCHANGED <<env, young, pointer>>
      BY <1>7 DEF InsertNewline
    <2>2. /\ Good(env, ms') /\ value' \in Items \cup {None}
          /\ "back" \notin env /\ value' # None => IsSelectable(value')
      BY <1>0, <1>2, <2>1, MakeSelectionInv
    <2> QED
      BY <2>1, <2>2 DEF MenuInv
  <1>8. CASE Responder \in ms.open /\ \E i \in Items : KeySearch(i)
    <2>1. PICK i \in Items : KeySearch(i)
      BY <1>8
    <2>2. i \in Lights(Responder) /\ ms' = SetHighlight(ms, Responder, i)
          /\ UNCHANGED <<env, value, young, pointer>>
      BY <2>1 DEF KeySearch, KeyStep, Lights
    <2>3. Good(env, SetHighlight(ms, Responder, i))
      BY <1>0, <1>2, <1>8, <2>2, SetHighlightGood
    <2> QED
      BY <1>1, <2>2, <2>3
  <1> QED
    BY <1>3, <1>4, <1>5, <1>6, <1>7, <1>8

\* The mouse, over items and on them
LEMMA MouseInv ==
    ASSUME MenuInv, NEW m \in Menus, NEW i \in ToSet(MenuItems[m]),
           MouseEntered(m, i) \/ MouseClicked(m, i)
    PROVE  MenuInv'
  <1>0. /\ Good(env, ms) /\ i \in Lights(m) /\ i \in Items
        /\ Has(env, ms, m) /\ Has(env, ms, Top)
    BY HasTop, MenuFacts DEF MenuInv, Lights, MouseEntered, MouseClicked
  <1>1. CASE MouseEntered(m, i)
    <2> DEFINE s == SetUserHighlight(ms, m, i)
               u == SetUserHighlight(s, i, None)
    <2>1. /\ ms' = (IF i \in s.linked THEN SetInternal(u, m, i) ELSE TryOpenSubmenu(s, m, FALSE))
          /\ i \in ms.linked => "back" \in env
          /\ pointer' = i /\ UNCHANGED <<env, value, young>>
      BY <1>1, Zenon DEF MouseEntered
    <2>2. Good(env, s) /\ Has(env, s, m) /\ s.linked \subseteq ms.linked
      BY <1>0, SetUserHighlightGood
    <2> HIDE DEF s
    <2>3. Good(env, ms')
      <3>1. CASE i \in s.linked
        <4>1. "back" \in env /\ i \in s.open /\ i \in Menus
          BY <2>1, <2>2, <3>1 DEF Good, Sound, MenuStates
        <4>2. Has(env, s, i) /\ None \in Lights(i)
          BY <4>1 DEF Has, Lights
        <4>3. Good(env, u) /\ Has(env, u, i)
          BY <2>2, <4>2, SetUserHighlightGood
        <4> HIDE DEF u
        <4>4. /\ ms' = SetInternal(u, m, i) /\ Sound(ms')
              /\ ms'.open = u.open /\ ms'.linked = u.linked
              /\ ms'.high = u.high /\ ms'.user = u.user /\ ms'.stack = u.stack
          BY <1>0, <2>1, <3>1, <4>3, SetInternalFacts DEF Good
        <4>5. ASSUME "items" \notin env PROVE OnPath(env, ms')
          <5>1. PICK p : \E n \in Nat :
                    Path(u, p, n) /\ ("margin" \notin env => OnStack(u, p, n))
            BY <4>3, <4>5 DEF Good, OnPath
          <5>2. PICK n \in Nat :
                    Path(u, p, n) /\ ("margin" \notin env => OnStack(u, p, n))
            BY <5>1
          <5>3. n # 0
            <6>1. PICK j \in 1..n : p[j] = i
              BY <4>3, <4>5, <5>2, OnThePath DEF Has
            <6> QED
              BY <6>1
          <5>4. Path(ms', p, n)
            BY <4>4, <5>2, <5>3 DEF Path
          <5>5. OnStack(u, p, n) => OnStack(ms', p, n)
            BY <4>4 DEF OnStack
          <5>6. env # {}
            BY <4>1
          <5> QED
            BY <5>2, <5>4, <5>5, <5>6 DEF OnPath
        <4> QED
          BY <4>1, <4>4, <4>5 DEF Good
      <3>2. CASE i \notin s.linked
        BY <2>1, <2>2, <3>2, TryOpenSubmenuGood
      <3> QED
        BY <3>1, <3>2
    <2> QED
      BY <1>0, <2>1, <2>3 DEF MenuInv
  <1>2. CASE MouseClicked(m, i)
    <2> DEFINE s == SetHighlight(ms, m, i)
    <2>1. /\ IF s.user[m] # None THEN MakeSelection(s, m) ELSE ms' = s /\ UNCHANGED value
          /\ UNCHANGED <<env, young, pointer>>
      BY <1>2, Zenon DEF MouseClicked
    <2>2. Good(env, s) /\ Has(env, s, m)
      BY <1>0, SetHighlightGood
    <2> HIDE DEF s
    <2>3. Has(env, s, Top)
      <3>1. CASE "items" \in env
        BY <3>1, MenuFacts DEF Has
      <3>2. CASE "items" \notin env
        BY <2>2, <3>2, HasTop DEF Has
      <3> QED
        BY <3>1, <3>2
    <2>4. CASE s.user[m] # None
      <3>1. /\ Good(env, ms') /\ value' \in Items \cup {None}
            /\ "back" \notin env /\ value' # None => IsSelectable(value')
        BY <2>1, <2>2, <2>3, <2>4, MakeSelectionInv
      <3> QED
        BY <2>1, <3>1 DEF MenuInv
    <2>5. CASE s.user[m] = None
      BY <2>1, <2>2, <2>5 DEF MenuInv
    <2> QED
      BY <2>4, <2>5
  <1> QED
    BY <1>1, <1>2

\* A click beside the items changes the key responder.
LEMMA ClickMarginInv ==
    ASSUME MenuInv, NEW m \in Menus, ClickMargin(m)
    PROVE  MenuInv'
  <1>0. /\ Good(env, ms) /\ Sound(ms) /\ "margin" \in env /\ m \in ms.open
        /\ UNCHANGED <<env, value, young, pointer>>
    BY DEF MenuInv, Good, ClickMargin
  <1>1. CASE Responder = m
    BY <1>0, <1>1 DEF ClickMargin, MenuInv
  <1>2. CASE Responder # m
    <2> DEFINE stack == [ms.stack EXCEPT ![Len(ms.stack)] = m]
    <2>1. /\ ms \in MenuStates /\ ms.stack \in Seq(Menus \cup {Other}) /\ ms.open \in SUBSET Menus
          /\ Len(ms.stack) = Cardinality(ms.open) + 1 /\ ms.stack[1] = Other
      BY <1>0 DEF Sound, MenuStates
    <2>2. Cardinality(ms.open) \in Nat /\ Cardinality(ms.open) # 0
      <3>1. IsFiniteSet(ms.open)
        BY <2>1, MenuFacts, FS_Subset
      <3> QED
        BY <1>0, <3>1, FS_CardinalityType, FS_EmptySet
    <2>3. Len(ms.stack) >= 2
      BY <2>1, <2>2
    <2>4. stack \in Seq(Menus \cup {Other}) /\ Len(stack) = Len(ms.stack) /\ stack[1] = Other
      BY <2>1, <2>3
    <2>5. ms' = [ms EXCEPT !.stack = stack]
      BY <1>2 DEF ClickMargin
    <2> HIDE DEF stack
    <2>6. /\ ms' \in MenuStates /\ ms'.open = ms.open /\ ms'.linked = ms.linked
          /\ ms'.high = ms.high /\ ms'.user = ms.user /\ ms'.internal = ms.internal
          /\ ms'.stack = stack
      BY <2>1, <2>4, <2>5 DEF MenuStates
    <2>7. Sound(ms')
      BY <1>0, <2>1, <2>4, <2>6 DEF Sound
    <2>8. ASSUME "items" \notin env PROVE OnPath(env, ms')
      <3>1. PICK p : \E n \in Nat : Path(ms, p, n)
        BY <1>0, <2>8 DEF Good, OnPath
      <3>2. PICK n \in Nat : Path(ms, p, n)
        BY <3>1
      <3>3. Path(ms', p, n)
        BY <2>6, <3>2 DEF Path
      <3>4. env # {}
        BY <1>0
      <3> QED
        BY <1>0, <3>3, <3>4 DEF OnPath
    <2>9. Good(env, ms')
      BY <1>0, <2>6, <2>7, <2>8 DEF Good, Selectable
    <2> QED
      BY <1>0, <2>9 DEF MenuInv
  <1> QED
    BY <1>1, <1>2

\* The application sets the value or the items, time passes, and a click closes
\* the menu.
LEMMA OthersInv ==
    ASSUME MenuInv,
           \/ GrowOld \/ ClickOutside \/ NeedToRecreateItems
           \/ \E v \in {i \in Items : IsSelectable(i)} : SetValue(v)
    PROVE  MenuInv'
  <1>0. Good(env, ms)
    BY DEF MenuInv
  <1>1. CASE GrowOld
    <2>1. young' = FALSE /\ UNCHANGED <<env, ms, value, pointer>>
      BY <1>1 DEF GrowOld
    <2>2. young' \in BOOLEAN
      BY <2>1, Zenon
    <2> QED
      BY <2>1, <2>2 DEF MenuInv
  <1>2. CASE ClickOutside
    BY <1>0, <1>2, CloseGood DEF ClickOutside, MenuInv
  <1>3. CASE NeedToRecreateItems
    <2> DEFINE u == [ms EXCEPT !.linked = @ \ ToSet(MenuItems[Top])]
    <2>1. "items" \in env /\ ms' = ShowValue(u, value) /\ UNCHANGED <<env, value, young, pointer>>
      BY <1>3 DEF NeedToRecreateItems
    <2>2. Good(env, u)
      <3>1. ms \in MenuStates /\ Sound(ms)
        BY <1>0 DEF Good, Sound
      <3>2. /\ u \in MenuStates /\ u.open = ms.open /\ u.linked = ms.linked \ ToSet(MenuItems[Top])
            /\ u.high = ms.high /\ u.user = ms.user /\ u.internal = ms.internal
            /\ u.stack = ms.stack
        BY <3>1 DEF MenuStates
      <3> HIDE DEF u
      <3> QED
        BY <1>0, <2>1, <3>1, <3>2 DEF Good, Sound, Selectable
    <2> HIDE DEF u
    <2>3. Has(env, u, Top)
      BY <2>1, MenuFacts DEF Has
    <2> QED
      BY <2>1, <2>2, <2>3, ShowValueGood DEF MenuInv
  <1>4. CASE \E v \in {i \in Items : IsSelectable(i)} : SetValue(v)
    <2>1. PICK v \in {i \in Items : IsSelectable(i)} : SetValue(v)
      BY <1>4
    <2>2. /\ value' = v /\ v \in Items /\ IsSelectable(v) /\ UNCHANGED <<env, young, pointer>>
          /\ ms' = (IF Top \in ms.open THEN ShowValue(ms, v) ELSE ms)
      BY <2>1 DEF SetValue
    <2>3. Good(env, ms')
      BY <1>0, <2>2, HasTop, ShowValueGood
    <2> QED
      BY <2>2, <2>3 DEF MenuInv
  <1> QED
    BY <1>1, <1>2, <1>3, <1>4

\* Every step of the menu keeps the invariant.
LEMMA StepMenu == MenuInv /\ [Next]_vars => MenuInv'
  <1> SUFFICES ASSUME MenuInv, [Next]_vars PROVE MenuInv'
    OBVIOUS
  <1>1. CASE Next
    BY <1>1, OpenMenuInv, KeysInv, MouseInv, ClickMarginInv, OthersInv DEF Next
  <1>2. CASE UNCHANGED vars
    BY <1>2 DEF vars, MenuInv
  <1> QED
    BY <1>1, <1>2

\* The invariant implies that open menus are a path.
LEMMA MenuInvPath == MenuInv => OpenMenusAreAPath
  <1> SUFFICES ASSUME MenuInv PROVE OpenMenusAreAPath
    OBVIOUS
  <1>0. Good(env, ms) /\ Sound(ms)
    BY DEF MenuInv, Good
  <1>1. TypeOK
    BY <1>0 DEF TypeOK, MenuInv, Sound, MenuStates, Lights
  <1>2. ASSUME "items" \notin env
        PROVE  /\ \A m \in ms.open \ {Top} : /\ MenuOf(m) \in ms.open
                                             /\ ms.high[MenuOf(m)] = m
                                             /\ m \in ms.linked
               /\ Top \notin ms.open => ms.stack = <<Other>>
    <2>1. PICK p : \E n \in Nat : Path(ms, p, n)
      BY <1>0, <1>2 DEF Good, OnPath
    <2>2. PICK n \in Nat : Path(ms, p, n)
      BY <2>1
    <2>3. ASSUME NEW m \in ms.open \ {Top}
          PROVE  MenuOf(m) \in ms.open /\ ms.high[MenuOf(m)] = m /\ m \in ms.linked
      <3>1. PICK j \in 1..n : p[j] = m
        BY <2>2, OnThePath
      <3>2. j > 1 /\ j - 1 \in 1..n
        BY <2>2, <3>1 DEF Path
      <3> QED
        BY <2>2, <3>1, <3>2 DEF Path
    <2>4. ASSUME Top \notin ms.open PROVE ms.stack = <<Other>>
      <3>1. n = 0
        <4>1. n > 0 => p[1] \in ms.open /\ p[1] = Top
          BY <2>2 DEF Path
        <4> QED
          BY <2>4, <4>1
      <3>2. Len(ms.stack) = 1 /\ ms.stack[1] = Other /\ ms.stack \in Seq(Menus \cup {Other})
        BY <1>0, <2>2, <3>1, PathLength DEF Sound, MenuStates
      <3> QED
        BY <3>2
    <2> QED
      BY <2>3, <2>4
  <1> QED
    BY <1>1, <1>2 DEF OpenMenusAreAPath

\* The invariant implies that the deepest menu decides.
LEMMA MenuInvDeepest == MenuInv => DeepestSelectableChosen
  <1> SUFFICES ASSUME MenuInv PROVE DeepestSelectableChosen
    OBVIOUS
  <1>0. Good(env, ms) /\ Sound(ms)
    BY DEF MenuInv, Good
  <1>1. ASSUME env = {}, NEW m \in ms.open,
               \A n \in ms.open : m \notin ParentMenus(n) \/ n = m
        PROVE  Responder = m /\ ms.internal[Top] = Selected(ms.high[m])
    <2>1. PICK p : \E n \in Nat : Path(ms, p, n) /\ OnStack(ms, p, n) /\ Decided(ms, p, n)
      BY <1>0, <1>1 DEF Good, OnPath
    <2>2. PICK n \in Nat : Path(ms, p, n) /\ OnStack(ms, p, n) /\ Decided(ms, p, n)
      BY <2>1
    <2>3. PICK j \in 1..n : p[j] = m
      BY <2>2, OnThePath
    <2>4. j = n
      <3> SUFFICES ASSUME j < n PROVE FALSE
        OBVIOUS
      <3>1. n \in 1..n /\ p[n] \in ms.open
        BY <2>2 DEF Path
      <3>2. m \in ParentMenus(p[n])
        BY <1>0, <2>2, <2>3, <3>1, PathParents
      <3>3. p[n] = p[j]
        BY <1>1, <2>3, <3>1, <3>2
      <3>4. n = j
        BY <1>0, <2>2, <3>1, <3>3, PathInjective
      <3> QED
        BY <3>4
    <2>5. Len(ms.stack) = n + 1
      BY <1>0, <2>2, PathLength DEF Sound
    <2>6. Responder = m
      BY <2>2, <2>3, <2>4, <2>5 DEF Responder, OnStack
    <2> QED
      BY <2>2, <2>3, <2>4, <2>6 DEF Decided
  <1>2. DeepestMenuDecides
    BY <1>1, Zenon DEF DeepestMenuDecides, Selected
  <1>3. OnlySelectableChosen
    BY DEF MenuInv, OnlySelectableChosen
  <1> QED
    BY <1>2, <1>3 DEF DeepestSelectableChosen

\* The invariant of menus holds of every behaviour of the choosers.
LEMMA MenuCorrect == ChooserSpec => []MenuInv
  <1>1. ChooserInit => MenuInv
    BY InitMenu DEF ChooserInit
  <1>2. MenuInv /\ [ChooserNext]_chooserVars => MenuInv'
    <2> SUFFICES ASSUME MenuInv, [ChooserNext]_chooserVars PROVE MenuInv'
      OBVIOUS
    <2>1. [Next]_vars
      BY DEF ChooserNext, UseMenu, UseMulti, ScrollOn, UseTabs, chooserVars
    <2> QED
      BY <2>1, StepMenu
  <1> QED
    BY <1>1, <1>2, PTL DEF ChooserSpec

\* For any tree of menus, any items and options: a submenu is open only below
\* the highlighted item of an open menu, and closing the topmost menu leaves no
\* submenu behind and gives the keys back (MenuView's observers of the highlight).
THEOREM MenusCorrect == ChooserSpec => []OpenMenusAreAPath
  BY MenuCorrect, MenuInvPath, PTL

\* For any tree of menus: keys go to the deepest open menu, what it highlights is
\* what the topmost menu would choose, and what is chosen could be selected.
THEOREM ChoiceCorrect == ChooserSpec => []DeepestSelectableChosen
  BY MenuCorrect, MenuInvDeepest, PTL

-----------------------------------------------------------------------------
(* Sorting *)

\* A function on the first n numbers is a sequence.
LEMMA SeqOfFunction ==
    ASSUME NEW n \in Nat, NEW S, NEW f \in [1..n -> S]
    PROVE  f \in Seq(S) /\ Len(f) = n /\ DOMAIN f = 1..n
  OBVIOUS

\* SortedSeq goes through the members of a set once, upwards.
LEMMA SortedFacts ==
    ASSUME NEW X, IsFiniteSet(X), X \subseteq Nat
    PROVE  /\ SortedSeq(X) \in Seq(X) /\ SortedSeq(X) \in [1..Cardinality(X) -> X]
           /\ Len(SortedSeq(X)) = Cardinality(X)
           /\ Cardinality(X) \in Nat
           /\ ToSet(SortedSeq(X)) = X
           /\ \A k, l \in 1..Cardinality(X) : k < l => SortedSeq(X)[k] < SortedSeq(X)[l]
  <1> DEFINE n == Cardinality(X)
             Upto(x) == {y \in X : y <= x}
             rank == [x \in X |-> Cardinality(Upto(x))]
             o == SortedSeq(X)
  <1>0. n \in Nat
    BY FS_CardinalityType
  <1>1. ASSUME NEW x \in X PROVE rank[x] \in 1..n
    <2>1. Upto(x) \in SUBSET X /\ x \in Upto(x)
      OBVIOUS
    <2> HIDE DEF Upto
    <2>2. IsFiniteSet(Upto(x)) /\ Cardinality(Upto(x)) <= n
      BY <2>1, FS_Subset
    <2>4. Cardinality(Upto(x)) \in Nat
      BY <2>2, FS_CardinalityType
    <2>3. Cardinality(Upto(x)) # 0
      BY <2>1, <2>2, FS_EmptySet
    <2> QED
      BY <1>0, <2>2, <2>3, <2>4
  <1>2. ASSUME NEW x \in X, NEW y \in X, x < y PROVE rank[x] < rank[y]
    <2>1. Upto(x) \in SUBSET Upto(y) /\ y \notin Upto(x) /\ y \in Upto(y) /\ Upto(y) \in SUBSET X
      <3>1. x \in Nat /\ y \in Nat /\ \A z \in X : z \in Nat
        OBVIOUS
      <3>2. \A z \in X : z <= x => z <= y
        BY <1>2, <3>1
      <3>3. ~(y <= x) /\ y <= y
        BY <1>2, <3>1
      <3> QED
        BY <3>2, <3>3
    <2> HIDE DEF Upto
    <2>2. IsFiniteSet(Upto(y)) /\ Upto(x) # Upto(y)
      BY <2>1, FS_Subset
    <2>3. Cardinality(Upto(x)) <= Cardinality(Upto(y)) /\ Cardinality(Upto(x)) # Cardinality(Upto(y))
      BY <2>1, <2>2, FS_Subset
    <2> QED
      BY <1>1, <2>3
  <1>3. rank \in [X -> 1..n]
    BY <1>1
  <1>4. rank \in Injection(X, 1..n)
    <2> SUFFICES ASSUME NEW x \in X, NEW y \in X, rank[x] = rank[y] PROVE x = y
      BY <1>3 DEF Injection, IsInjective
    <2> HIDE DEF rank
    <2>1. x \in Nat /\ y \in Nat /\ rank[x] \in Int /\ rank[y] \in Int
      BY <1>3
    <2> QED
      BY <1>2, <2>1
  <1>5. rank \in Surjection(X, 1..n)
    <2>1. IsFiniteSet(1..n) /\ Cardinality(1..n) = n
      BY <1>0, FS_Interval
    <2> HIDE DEF rank
    <2> QED
      BY <1>4, <2>1, FS_Injection
  <1>6. \A k \in 1..n : \E x \in X : rank[x] = k
    <2> HIDE DEF rank
    <2> QED
      BY <1>5 DEF Surjection
  <1>7. o = [k \in 1..n |-> CHOOSE x \in X : Cardinality(Upto(x)) = k]
    BY Zenon DEF SortedSeq
  <1>8. ASSUME NEW k \in 1..n PROVE o[k] \in X /\ rank[o[k]] = k
    <2>1. \E x \in X : Cardinality(Upto(x)) = k
      BY <1>6
    <2> HIDE DEF Upto
    <2>2. o[k] = CHOOSE x \in X : Cardinality(Upto(x)) = k
      <3> HIDE DEF o
      <3> QED
        BY <1>7
    <2>3. o[k] \in X /\ Cardinality(Upto(o[k])) = k
      <3> HIDE DEF o
      <3> QED
        BY <2>1, <2>2
    <2> QED
      BY <2>3
  <1> HIDE DEF rank, o, Upto
  <1>9. o \in Seq(X) /\ o \in [1..n -> X] /\ Len(o) = n /\ DOMAIN o = 1..n
    <2>1. o \in [1..n -> X]
      BY <1>7, <1>8
    <2> QED
      BY <1>0, <2>1, SeqOfFunction
  <1>10. ASSUME NEW x \in X PROVE x \in ToSet(o)
    <2>1. rank[x] \in 1..n /\ o[rank[x]] \in X /\ rank[o[rank[x]]] = rank[x]
      BY <1>1, <1>8
    <2>2. o[rank[x]] = x
      <3>1. x \in Nat /\ o[rank[x]] \in Nat
        BY <2>1
      <3> QED
        BY <1>1, <1>2, <2>1, <3>1
    <2> QED
      BY <1>9, <2>1, <2>2 DEF ToSet
  <1>11. ToSet(o) = X
    BY <1>8, <1>9, <1>10 DEF ToSet
  <1>12. ASSUME NEW k \in 1..n, NEW l \in 1..n, k < l PROVE o[k] < o[l]
    <2>1. o[k] \in X /\ o[l] \in X /\ rank[o[k]] = k /\ rank[o[l]] = l
      BY <1>8
    <2>2. o[k] \in Nat /\ o[l] \in Nat
      BY <2>1
    <2>3. CASE o[k] = o[l]
      BY <1>0, <1>12, <2>1, <2>3
    <2>4. CASE o[l] < o[k]
      <3>1. rank[o[l]] < rank[o[k]]
        BY <1>2, <2>1, <2>4
      <3> QED
        BY <1>0, <1>12, <2>1, <3>1
    <2> QED
      BY <2>2, <2>3, <2>4
  <1> QED
    BY <1>0, <1>9, <1>11, <1>12 DEF o

\* Subsequence keeps what is in T and its order.
LEMMA SubsequenceFacts ==
    ASSUME NEW S, NEW s \in Seq(S), NEW T, NEW u, u = Subsequence(s, T)
    PROVE  /\ u \in Seq(S) /\ ToSet(u) = ToSet(s) \cap T
           /\ \E at \in [1..Len(u) -> DOMAIN s] :
                 /\ \A k \in 1..Len(u) : u[k] = s[at[k]]
                 /\ \A k, l \in 1..Len(u) : k < l => at[k] < at[l]
  <1> DEFINE X == {i \in DOMAIN s : s[i] \in T}
             at == SortedSeq(X)
  <1>1. Len(s) \in Nat /\ DOMAIN s = 1..Len(s) /\ \A i \in 1..Len(s) : s[i] \in S
    OBVIOUS
  <1>2. X \subseteq 1..Len(s) /\ X \subseteq Nat /\ IsFiniteSet(X)
    <2>1. IsFiniteSet(1..Len(s)) /\ X \in SUBSET (1..Len(s)) /\ 1..Len(s) \subseteq Nat
      BY <1>1, FS_Interval
    <2> HIDE DEF X
    <2> QED
      BY <2>1, FS_Subset
  <1>3. u = [k \in DOMAIN at |-> s[at[k]]]
    BY DEF Subsequence
  <1>4. X \subseteq DOMAIN s /\ \A i \in DOMAIN s : i \in X <=> s[i] \in T
    OBVIOUS
  <1> HIDE DEF X
  <1>5. /\ at \in Seq(X) /\ at \in [1..Len(at) -> X] /\ ToSet(at) = X /\ Len(at) \in Nat
        /\ \A k, l \in 1..Len(at) : k < l => at[k] < at[l]
    BY <1>2, SortedFacts
  <1> HIDE DEF at
  <1>6. DOMAIN at = 1..Len(at) /\ \A k \in 1..Len(at) : at[k] \in X
    BY <1>5
  <1>7. u \in Seq(S) /\ Len(u) = Len(at) /\ \A k \in 1..Len(u) : u[k] = s[at[k]]
    <2>1. u \in [1..Len(at) -> S] /\ \A k \in 1..Len(at) : u[k] = s[at[k]]
      BY <1>1, <1>2, <1>3, <1>6
    <2> QED
      BY <1>5, <2>1, SeqOfFunction
  <1>8. DOMAIN u = 1..Len(at)
    BY <1>3, <1>6
  <1>9. ToSet(u) \subseteq ToSet(s) \cap T
    BY <1>4, <1>6, <1>7, <1>8 DEF ToSet
  <1>10. ASSUME NEW i \in DOMAIN s, s[i] \in T PROVE s[i] \in ToSet(u)
    <2>1. i \in ToSet(at)
      BY <1>4, <1>5, <1>10
    <2>2. PICK k \in 1..Len(at) : at[k] = i
      BY <1>6, <2>1 DEF ToSet
    <2> QED
      BY <1>7, <1>8, <2>2 DEF ToSet
  <1>11. ToSet(u) = ToSet(s) \cap T
    BY <1>9, <1>10 DEF ToSet
  <1>12. at \in [1..Len(u) -> DOMAIN s]
    BY <1>4, <1>5, <1>6, <1>7
  <1> QED
    BY <1>5, <1>7, <1>11, <1>12

-----------------------------------------------------------------------------
(* The multiselection menu *)

\* The larger and the smaller of two numbers
LEMMA MaxMin ==
    ASSUME NEW x \in Int, NEW y \in Int
    PROVE  /\ Max({x, y}) = IF x >= y THEN x ELSE y
           /\ Min({x, y}) = IF x <= y THEN x ELSE y
  <1>1. PICK m \in {x, y} : m = (IF x >= y THEN x ELSE y) /\ \A z \in {x, y} : m >= z
    OBVIOUS
  <1>2. Max({x, y}) \in {x, y} /\ \A z \in {x, y} : Max({x, y}) >= z
    BY <1>1, Zenon DEF Max
  <1>3. PICK n \in {x, y} : n = (IF x <= y THEN x ELSE y) /\ \A z \in {x, y} : n <= z
    OBVIOUS
  <1>4. Min({x, y}) \in {x, y} /\ \A z \in {x, y} : Min({x, y}) <= z
    BY <1>3, Zenon DEF Min
  <1> QED
    BY <1>2, <1>4

\* The first element of a nonempty sequence that passes a test is in it; none is
\* at place 0.
LEMMA MinFacts ==
    ASSUME NEW n \in Nat, NEW T, T \subseteq 1..n, T # {}
    PROVE  Min(T) \in T
  <1>1. T \subseteq Nat
    OBVIOUS
  <1>2. \E m \in T : \A x \in T : m <= x
    BY <1>1, LeastNumber
  <1> QED
    BY <1>2, Zenon DEF Min

\* A list of finitely many items becomes no other when it is sorted.
ChosenWell(s) == \E X : X # {} /\ IsFiniteSet(X) /\ X \subseteq Nat /\ s = SortedSeq(X)

LEMMA ChosenWellFacts ==
    ASSUME NEW s, ChosenWell(s)
    PROVE  /\ s # <<>> /\ s = SortedSeq(ToSet(s))
           /\ IsFiniteSet(ToSet(s)) /\ ToSet(s) \subseteq Nat /\ ToSet(s) # {}
           /\ Len(s) = Cardinality(ToSet(s)) /\ Len(s) \in Nat /\ s \in Seq(Nat)
  <1>1. PICK X : X # {} /\ IsFiniteSet(X) /\ X \subseteq Nat /\ s = SortedSeq(X)
    BY DEF ChosenWell
  <1>2. /\ s \in Seq(X) /\ s \in [1..Cardinality(X) -> X] /\ ToSet(s) = X
        /\ Len(s) = Cardinality(X) /\ Cardinality(X) \in Nat
    BY <1>1, SortedFacts
  <1>4. s \in Seq(Nat)
    <2>1. s \in [1..Cardinality(X) -> Nat]
      BY <1>1, <1>2
    <2> QED
      BY <1>2, <2>1, SeqOfFunction
  <1>3. Cardinality(X) # 0
    BY <1>1, FS_EmptySet
  <1> QED
    BY <1>1, <1>2, <1>3, <1>4

LEMMA ToggledFacts ==
    ASSUME NEW s, ChosenWell(s), NEW i \in MultiItems
    PROVE  ChosenWell(Toggled(s, i))
  <1> DEFINE now == ToSet(s)
             v == ItemValues[i]
  <1>1. /\ IsFiniteSet(now) /\ now \subseteq Nat /\ now # {} /\ Len(s) = Cardinality(now)
        /\ Len(s) \in Nat
    BY ChosenWellFacts
  <1>2. v # {} /\ v \subseteq Nat /\ IsFiniteSet(v) /\ Cardinality(v) \in Nat
    <2>1. v # {} /\ v \subseteq Nat /\ IsFiniteSet(v)
      BY MultiMenuAssumption
    <2> QED
      BY <2>1, FS_CardinalityType
  <1> HIDE DEF now, v
  <1>3. ASSUME ~(Cardinality(v) > 1), v \subseteq now, Len(s) > 1 PROVE now \ v # {}
    <2> SUFFICES ASSUME now = v PROVE FALSE
      BY <1>3
    <2> QED
      BY <1>1, <1>2, <1>3
  <1>4. IsFiniteSet(now \cup v) /\ IsFiniteSet(now \ v)
    BY <1>1, <1>2, FS_Union, FS_Difference
  <1>5. \E X : /\ X \in {v, now \cup v, now \ v, now} /\ X # {}
               /\ Toggled(s, i) = SortedSeq(X)
    <2>1. CASE IsArrayItem(i)
      <3>1. Toggled(s, i) = SortedSeq(v)
        BY <2>1 DEF Toggled, v
      <3> QED
        BY <1>2, <3>1
    <2>2. CASE ~IsArrayItem(i) /\ ~ v \subseteq now
      <3>1. Toggled(s, i) = SortedSeq(now \cup v)
        BY <2>2 DEF Toggled, v, now
      <3> QED
        BY <1>2, <3>1
    <2>3. CASE ~IsArrayItem(i) /\ v \subseteq now /\ Len(s) > 1
      <3>1. Toggled(s, i) = SortedSeq(now \ v)
        BY <2>3 DEF Toggled, v, now
      <3>2. now \ v # {}
        BY <1>3, <2>3 DEF IsArrayItem, v
      <3> QED
        BY <3>1, <3>2
    <2>4. CASE ~IsArrayItem(i) /\ v \subseteq now /\ ~(Len(s) > 1)
      <3>1. Toggled(s, i) = SortedSeq(now)
        BY <2>4 DEF Toggled, v, now
      <3> QED
        BY <1>1, <3>1
    <2> QED
      BY <2>1, <2>2, <2>3, <2>4
  <1>6. PICK X : X \in {v, now \cup v, now \ v, now} /\ X # {} /\ Toggled(s, i) = SortedSeq(X)
    BY <1>5
  <1>7. IsFiniteSet(X) /\ X \subseteq Nat
    BY <1>1, <1>2, <1>4, <1>6
  <1> QED
    BY <1>6, <1>7 DEF ChosenWell

\* The menu
Multis == [open : BOOLEAN, items : Seq(MultiItems), lit : MultiItems \cup {NoItem},
           chosen : Seq(Nat)]

\* The scroll view
Scrolls == [top : Int, height : Int, position : {"top", "middle", "bottom"}, need : BOOLEAN,
            direction : Int, timer : BOOLEAN, stray : Int]

\* Where the view port is, for a menu with n items
Sized(b, n) ==
    LET list == ListHeight(n)
        need == list + paddingAndBorders + 2 * menuMargin > WindowHeight
    IN  /\ b.need <=> need
        /\ b.height = IF need THEN WindowHeight - 2 * menuMargin - paddingAndBorders ELSE list
        /\ 0 <= b.top /\ b.top + b.height <= list
        /\ b.position = "top" => b.top = 0
        /\ b.position = "bottom" => b.top + b.height = list

\* No stray timer; and a timer while the pointer is over the arrow there.
Timed(mu, b, ov) ==
    /\ b.stray = 0
    /\ b.timer => /\ mu.open /\ ov \in Arrows
                  /\ b.direction = (IF ov = Up THEN -1 ELSE 1)
                  /\ b.position = "middle" /\ b.need

ScrollOK(mu, b, ov) ==
    /\ b \in Scrolls /\ Timed(mu, b, ov)
    /\ mu.open => Sized(b, Len(mu.items))

\* The invariant of the multiselection menu
MultiInv ==
    /\ multi \in Multis
    /\ over \in MultiItems \cup Arrows \cup {NoItem}
    /\ IF "multi" \in env THEN ChosenWell(multi.chosen) ELSE ~multi.open
    /\ "items" \notin env => ScrollOK(multi, bar, over)

\* What it promises
LEMMA MultiInvArrows == MultiInv => ArrowsTellTheTruth
  <1> SUFFICES ASSUME MultiInv, "items" \notin env
      PROVE  /\ multi.open /\ bar.top > 0 => IsShown(bar, Up)
             /\ multi.open /\ bar.top + bar.height < List(multi.items) => IsShown(bar, Down)
             /\ bar.timer => /\ multi.open /\ over \in Arrows
                             /\ bar.direction = (IF over = Up THEN -1 ELSE 1)
             /\ bar.stray = 0
    BY DEF ArrowsTellTheTruth
  <1>1. ScrollOK(multi, bar, over) /\ Len(multi.items) \in Nat
    BY DEF MultiInv, Multis
  <1>2. bar.top \in Int /\ bar.height \in Int /\ bar.position \in {"top", "middle", "bottom"}
    BY <1>1 DEF ScrollOK, Scrolls
  <1>3. ASSUME multi.open PROVE Sized(bar, Len(multi.items))
    BY <1>1, <1>3 DEF ScrollOK
  <1>4. ASSUME multi.open, bar.top > 0 PROVE IsShown(bar, Up)
    BY <1>1, <1>2, <1>3, <1>4, MenuScrollAssumption
       DEF Sized, IsShown, ListHeight, itemHeight, paddingAndBorders, menuMargin
  <1>5. ASSUME multi.open, bar.top + bar.height < List(multi.items) PROVE IsShown(bar, Down)
    BY <1>1, <1>2, <1>3, <1>5, MenuScrollAssumption
       DEF Sized, IsShown, List, ListHeight, itemHeight, paddingAndBorders, menuMargin
  <1> QED
    BY <1>1, <1>4, <1>5 DEF ScrollOK, Timed

\* A scroll view has these fields.
Now(t, top, height, position, need, direction, timer, stray) ==
    /\ t \in Scrolls
    /\ t.top = top /\ t.height = height /\ t.position = position /\ t.need = need
    /\ t.direction = direction /\ t.timer = timer /\ t.stray = stray

\* Changes of some of them
LEMMA ScrollUpdate ==
    ASSUME NEW b \in Scrolls, NEW t, NEW x \in Int, NEW f \in BOOLEAN
    PROVE  /\ t = [b EXCEPT !.height = x, !.need = f] =>
                 Now(t, b.top, x, b.position, f, b.direction, b.timer, b.stray)
           /\ t = [b EXCEPT !.top = x] =>
                 Now(t, x, b.height, b.position, b.need, b.direction, b.timer, b.stray)
           /\ t = [b EXCEPT !.direction = x, !.timer = f] =>
                 Now(t, b.top, b.height, b.position, b.need, x, f, b.stray)
           /\ t = [b EXCEPT !.timer = f, !.stray = x] =>
                 Now(t, b.top, b.height, b.position, b.need, b.direction, f, x)
           /\ t = [b EXCEPT !.direction = x] =>
                 Now(t, b.top, b.height, b.position, b.need, x, b.timer, b.stray)
  <1>1. ASSUME t = [b EXCEPT !.height = x, !.need = f]
        PROVE  Now(t, b.top, x, b.position, f, b.direction, b.timer, b.stray)
    BY <1>1 DEF Scrolls, Now
  <1>2. ASSUME t = [b EXCEPT !.top = x]
        PROVE  Now(t, x, b.height, b.position, b.need, b.direction, b.timer, b.stray)
    BY <1>2 DEF Scrolls, Now
  <1>3. ASSUME t = [b EXCEPT !.direction = x, !.timer = f]
        PROVE  Now(t, b.top, b.height, b.position, b.need, x, f, b.stray)
    BY <1>3 DEF Scrolls, Now
  <1>4. ASSUME t = [b EXCEPT !.timer = f, !.stray = x]
        PROVE  Now(t, b.top, b.height, b.position, b.need, b.direction, f, x)
    BY <1>4 DEF Scrolls, Now
  <1>5. ASSUME t = [b EXCEPT !.direction = x]
        PROVE  Now(t, b.top, b.height, b.position, b.need, x, b.timer, b.stray)
    BY <1>5 DEF Scrolls, Now
  <1> QED
    BY <1>1, <1>2, <1>3, <1>4, <1>5

LEMMA ScrollTimed ==
    ASSUME NEW b \in Scrolls, NEW f \in BOOLEAN, NEW t, t = [b EXCEPT !.timer = f]
    PROVE  Now(t, b.top, b.height, b.position, b.need, b.direction, f, b.stray)
  BY DEF Scrolls, Now

LEMMA ScrollPositioned ==
    ASSUME NEW b \in Scrolls, NEW p \in {"top", "middle", "bottom"}, NEW t,
           t = [b EXCEPT !.position = p]
    PROVE  Now(t, b.top, b.height, p, b.need, b.direction, b.timer, b.stray)
  BY DEF Scrolls, Now

LEMMA ScrollFields ==
    ASSUME NEW b \in Scrolls
    PROVE  /\ b.top \in Int /\ b.height \in Int /\ b.direction \in Int /\ b.stray \in Int
           /\ b.position \in {"top", "middle", "bottom"}
           /\ b.need \in BOOLEAN /\ b.timer \in BOOLEAN
  BY DEF Scrolls

Between(x, high) ==
    LET low == IF x <= high THEN x ELSE high IN IF 0 >= low THEN 0 ELSE low

LEMMA ClampFacts ==
    ASSUME NEW b \in Scrolls, NEW list \in Int, NEW t, t = Clamp(b, list)
    PROVE  /\ Between(b.top, list - b.height) \in Int
           /\ Now(t, Between(b.top, list - b.height), b.height, b.position, b.need,
                  b.direction, b.timer, b.stray)
  <1> DEFINE x == b.top
             h == b.height
             most == list - h
             low == Min({x, most})
  <1>1. x \in Int /\ h \in Int /\ most \in Int
    BY ScrollFields
  <1>5. t = [b EXCEPT !.top = Max({0, low})]
    BY Zenon DEF Clamp
  <1> HIDE DEF x, h, most
  <1>2. low = (IF x <= most THEN x ELSE most) /\ low \in Int
    BY <1>1, MaxMin
  <1>3. Max({0, low}) = IF 0 >= low THEN 0 ELSE low
    <2> HIDE DEF low
    <2> QED
      BY <1>2, MaxMin
  <1>4. Max({0, low}) = Between(x, most) /\ Between(x, most) \in Int
    <2> HIDE DEF low
    <2> QED
      BY <1>1, <1>2, <1>3 DEF Between
  <1>6. t = [b EXCEPT !.top = Between(x, most)]
    <2> HIDE DEF low
    <2> QED
      BY <1>4, <1>5
  <1>7. Now(t, Between(x, most), b.height, b.position, b.need, b.direction, b.timer, b.stray)
    BY <1>4, <1>6, ScrollUpdate
  <1> QED
    BY <1>4, <1>7 DEF x, h, most

LEMMA NewMenuSized ==
    ASSUME NEW n \in Nat, NEW t, t = UpdateMenuSize(NewScroll, n)
    PROVE  t \in Scrolls /\ Sized(t, n) /\ ~t.timer /\ t.stray = 0
  <1> DEFINE list == n * 21
             need == list + 12 + 2 * 12 > WindowHeight
             height == (IF need THEN WindowHeight - 2 * 12 ELSE list + 12) - 12
             b == [NewScroll EXCEPT !.height = height, !.need = need]
  <1>1. /\ list \in Int /\ WindowHeight \in Int /\ height \in Int /\ need \in BOOLEAN
        /\ list >= 0 /\ list - height >= 0
    BY MenuScrollAssumption
  <1>2. t = Clamp(b, list)
    BY Zenon DEF UpdateMenuSize, ListHeight, itemHeight, paddingAndBorders, menuMargin
  <1>3. (need <=> list + 36 > WindowHeight) /\ height = IF need THEN WindowHeight - 36 ELSE list
    BY MenuScrollAssumption
  <1>5. ListHeight(n) = list
    BY DEF ListHeight, itemHeight
  <1> HIDE DEF height, need, list
  <1>6. Now(b, 0, height, "top", need, 0, FALSE, 0)
    <2>1. Now(NewScroll, 0, 0, "top", FALSE, 0, FALSE, 0)
      BY DEF NewScroll, Now, Scrolls
    <2>2. Now(b, NewScroll.top, height, NewScroll.position, need,
              NewScroll.direction, NewScroll.timer, NewScroll.stray)
      <3>1. NewScroll \in Scrolls
        BY <2>1 DEF Now
      <3> QED
        BY <1>1, <3>1, ScrollUpdate
    <2> HIDE DEF b
    <2> QED
      BY <2>1, <2>2, Zenon DEF Now
  <1>8. Between(0, list - height) = 0
    BY <1>1 DEF Between
  <1> HIDE DEF b
  <1>7. Now(t, 0, height, "top", need, 0, FALSE, 0)
    <2>1. Now(t, Between(b.top, list - b.height), b.height, b.position, b.need,
                       b.direction, b.timer, b.stray)
      <3>1. b \in Scrolls
        BY <1>6, Zenon DEF Now
      <3> QED
        BY <1>1, <1>2, <3>1, ClampFacts
    <2> QED
      BY <1>6, <1>8, <2>1, Zenon DEF Now
  <1>9. /\ t \in Scrolls /\ t.top = 0 /\ t.height = height /\ t.position = "top"
        /\ t.need = need /\ ~t.timer /\ t.stray = 0
    BY <1>7, Zenon DEF Now
  <1>10. Sized(t, n)
    BY <1>1, <1>3, <1>5, <1>9 DEF Sized, paddingAndBorders, menuMargin
  <1> QED
    BY <1>9, <1>10

LEMMA StopFacts ==
    ASSUME NEW b \in Scrolls
    PROVE  Now(StopScrolling(b), b.top, b.height, b.position, b.need, 0, FALSE, b.stray)
  <1> DEFINE t(x, f) == [b EXCEPT !.direction = x, !.timer = f]
  <1>1. ASSUME NEW x \in Int, NEW f \in BOOLEAN
        PROVE  Now(t(x, f), b.top, b.height, b.position, b.need, x, f, b.stray)
    BY ScrollUpdate
  <1>2. StopScrolling(b) = t(0, FALSE)
    BY Zenon DEF StopScrolling
  <1> HIDE DEF t
  <1>3. 0 \in Int /\ FALSE \in BOOLEAN
    OBVIOUS
  <1> QED
    BY <1>1, <1>2, <1>3, Zenon

LEMMA LaterFacts ==
    ASSUME NEW b \in Scrolls, ~b.timer
    PROVE  Now(Later(b), b.top, b.height, b.position, b.need, b.direction, TRUE, b.stray)
  <1> DEFINE more == b.stray + (IF b.timer THEN 1 ELSE 0)
             t(f) == [b EXCEPT !.timer = f, !.stray = more]
  <1>1. more = b.stray /\ more \in Int
    BY ScrollFields
  <1>2. Later(b) = t(TRUE)
    BY Zenon DEF Later
  <1>3. ASSUME NEW f \in BOOLEAN
        PROVE  Now(t(f), b.top, b.height, b.position, b.need, b.direction, f, more)
    <2> HIDE DEF more
    <2> QED
      BY <1>1, ScrollUpdate
  <1> HIDE DEF t, more
  <1>4. TRUE \in BOOLEAN
    OBVIOUS
  <1> QED
    BY <1>1, <1>2, <1>3, <1>4, Zenon

\* One step of scrolling in a menu that needs it: it stays in its bounds, says
\* so when it has come to an end, and goes on otherwise.
LEMMA ScrolledFacts ==
    ASSUME NEW n \in Nat, NEW b \in Scrolls, Sized(b, n), b.need, ~b.timer,
           b.direction \in {-1, 1}, NEW t, t = Scrolled(b, ListHeight(n))
    PROVE  /\ t \in Scrolls /\ Sized(t, n) /\ t.need /\ t.stray = b.stray
           /\ t.timer => t.direction = b.direction /\ t.position = "middle"
  <1> DEFINE list == ListHeight(n)
             down == b.direction = 1
             shownBottom == b.top + b.height
             ends == IF down THEN shownBottom + scrollSize >= list
                     ELSE b.direction = -1 /\ scrollSize > b.top
             delta == CASE ~ends -> scrollSize [] down -> list - shownBottom [] OTHER -> b.top
             top == b.top + b.direction * delta
             placed == [b EXCEPT !.top = top]
             moved == Clamp(placed, list)
             end == IF down THEN "bottom" ELSE "top"
  <1>0. t = IF ends THEN [StopScrolling(moved) EXCEPT !.position = end]
            ELSE [Later(moved) EXCEPT !.position = "middle"]
    BY Zenon DEF Scrolled
  <1>1. /\ b.top \in Int /\ b.height \in Int /\ list \in Int /\ b.stray \in Int
        /\ b.position \in {"top", "middle", "bottom"} /\ b.direction \in Int
    BY ScrollFields DEF ListHeight, itemHeight
  <1>2. /\ 0 <= b.top /\ b.top + b.height <= list
    BY <1>1 DEF Sized
  <1>3. /\ top \in Int /\ 0 <= top /\ top + b.height <= list
        /\ ends /\ down => top + b.height = list
        /\ ends /\ ~down => top = 0
    <2>1. CASE down /\ ends
      BY <1>1, <1>2, <2>1
    <2>2. CASE down /\ ~ends
      BY <1>1, <1>2, <2>2 DEF scrollSize
    <2>3. CASE ~down /\ ends
      BY <1>1, <1>2, <2>3
    <2>4. CASE ~down /\ ~ends
      BY <1>1, <1>2, <2>4 DEF scrollSize
    <2> QED
      BY <2>1, <2>2, <2>3, <2>4
  <1>4. end \in {"top", "middle", "bottom"} /\ (down => end = "bottom") /\ (~down => end = "top")
    OBVIOUS
  <1> HIDE DEF top, ends, end, down, list
  <1>5. Now(placed, top, b.height, b.position, b.need, b.direction, b.timer, b.stray)
    BY <1>3, ScrollUpdate
  <1> HIDE DEF placed
  <1>6. Now(moved, top, b.height, b.position, b.need, b.direction, b.timer, b.stray)
    <2>1. placed \in Scrolls
      BY <1>5, Zenon DEF Now
    <2>2. Now(moved, Between(placed.top, list - placed.height), placed.height, placed.position,
              placed.need, placed.direction, placed.timer, placed.stray)
      BY <1>1, <2>1, ClampFacts
    <2>3. Between(top, list - b.height) = top
      BY <1>1, <1>3 DEF Between
    <2> QED
      BY <1>5, <2>2, <2>3, Zenon DEF Now
  <1> HIDE DEF moved
  <1>7. moved \in Scrolls /\ ~moved.timer
    BY <1>6, Zenon DEF Now
  <1>8. CASE ends
    <2>1. t = [StopScrolling(moved) EXCEPT !.position = end]
      BY <1>0, <1>8
    <2>2. Now(StopScrolling(moved), moved.top, moved.height, moved.position, moved.need, 0, FALSE,
              moved.stray)
      BY <1>7, StopFacts
    <2> DEFINE s == StopScrolling(moved)
    <2>3. Now(t, s.top, s.height, end, s.need, s.direction, s.timer, s.stray)
      <3>1. s \in Scrolls
        BY <2>2, Zenon DEF Now
      <3> HIDE DEF s
      <3>2. t = [s EXCEPT !.position = end]
        BY <2>1 DEF s
      <3> QED
        BY <1>4, <3>1, <3>2, ScrollPositioned
    <2>4. /\ t \in Scrolls /\ t.top = top /\ t.height = b.height /\ t.position = end
          /\ t.need = b.need /\ ~t.timer /\ t.stray = b.stray
      BY <1>6, <2>2, <2>3, Zenon DEF Now
    <2>5. Sized(t, n)
      BY <1>1, <1>3, <1>4, <1>8, <2>4 DEF Sized, list
    <2> QED
      BY <2>4, <2>5
  <1>9. CASE ~ends
    <2>1. t = [Later(moved) EXCEPT !.position = "middle"]
      BY <1>0, <1>9
    <2>2. Now(Later(moved), moved.top, moved.height, moved.position, moved.need, moved.direction,
              TRUE, moved.stray)
      BY <1>7, LaterFacts
    <2> DEFINE s == Later(moved)
    <2>3. Now(t, s.top, s.height, "middle", s.need, s.direction, s.timer, s.stray)
      <3>1. s \in Scrolls
        BY <2>2, Zenon DEF Now
      <3> HIDE DEF s
      <3>2. t = [s EXCEPT !.position = "middle"]
        BY <2>1 DEF s
      <3> QED
        BY <3>1, <3>2, ScrollPositioned
    <2>4. /\ t \in Scrolls /\ t.top = top /\ t.height = b.height /\ t.position = "middle"
          /\ t.need = b.need /\ t.direction = b.direction /\ t.stray = b.stray
      BY <1>6, <2>2, <2>3, Zenon DEF Now
    <2>5. Sized(t, n)
      BY <1>1, <1>3, <2>4 DEF Sized, list
    <2> QED
      BY <2>4, <2>5
  <1> QED
    BY <1>8, <1>9

\* Changes of the menu
LEMMA LitUpdate ==
    ASSUME NEW mu \in Multis, NEW lit \in MultiItems \cup {NoItem}, NEW t, t = [mu EXCEPT !.lit = lit]
    PROVE  t \in Multis /\ t.open = mu.open /\ t.items = mu.items /\ t.chosen = mu.chosen
  BY DEF Multis

LEMMA ChosenUpdate ==
    ASSUME NEW mu \in Multis, NEW chosen \in Seq(Nat), NEW t, t = [mu EXCEPT !.chosen = chosen]
    PROVE  t \in Multis /\ t.open = mu.open /\ t.items = mu.items /\ t.chosen = chosen
  BY DEF Multis

LEMMA ItemsUpdate ==
    ASSUME NEW mu \in Multis, NEW items \in Seq(MultiItems), NEW t, t = [mu EXCEPT !.items = items]
    PROVE  t \in Multis /\ t.open = mu.open /\ t.items = items /\ t.chosen = mu.chosen
  BY DEF Multis

LEMMA MultiOpens ==
    ASSUME NEW mu \in Multis
    PROVE  LET t == [mu EXCEPT !.open = TRUE]
               u == [mu EXCEPT !.open = FALSE, !.lit = NoItem]
           IN  /\ t \in Multis /\ t.open /\ t.items = mu.items /\ t.chosen = mu.chosen
               /\ u \in Multis /\ ~u.open /\ u.items = mu.items /\ u.chosen = mu.chosen
  <1> DEFINE t(f) == [mu EXCEPT !.open = f]
             u(f) == [mu EXCEPT !.open = f, !.lit = NoItem]
  <1>1. ASSUME NEW f \in BOOLEAN
        PROVE  /\ t(f) \in Multis /\ t(f).open = f /\ t(f).items = mu.items /\ t(f).chosen = mu.chosen
               /\ u(f) \in Multis /\ u(f).open = f /\ u(f).items = mu.items /\ u(f).chosen = mu.chosen
    <2>1. ASSUME NEW w, w = [mu EXCEPT !.open = f]
          PROVE  w \in Multis /\ w.open = f /\ w.items = mu.items /\ w.chosen = mu.chosen
      BY <2>1 DEF Multis
    <2>2. ASSUME NEW w, w = [mu EXCEPT !.open = f, !.lit = NoItem]
          PROVE  w \in Multis /\ w.open = f /\ w.items = mu.items /\ w.chosen = mu.chosen
      BY <2>2 DEF Multis
    <2> QED
      BY <2>1, <2>2, Zenon
  <1> HIDE DEF t, u
  <1>2. /\ t(TRUE) \in Multis /\ t(TRUE).open /\ t(TRUE).items = mu.items /\ t(TRUE).chosen = mu.chosen
        /\ u(FALSE) \in Multis /\ ~u(FALSE).open /\ u(FALSE).items = mu.items
        /\ u(FALSE).chosen = mu.chosen
    <2>1. TRUE \in BOOLEAN /\ FALSE \in BOOLEAN
      OBVIOUS
    <2> QED
      BY <1>1, <2>1, Zenon
  <1> QED
    BY <1>2, Zenon DEF t, u

LEMMA SizedSame ==
    ASSUME NEW n, NEW b, Sized(b, n), NEW c,
           c.top = b.top /\ c.height = b.height /\ c.position = b.position /\ c.need = b.need
    PROVE  Sized(c, n)
  BY DEF Sized

\* Opening the menu and closing it
LEMMA OpenMultiInv ==
    ASSUME MultiInv, "multi" \in env, OpenMulti \/ CloseMulti, env' = env
    PROVE  MultiInv'
  <1>0. multi \in Multis /\ Len(multi.items) \in Nat /\ ChosenWell(multi.chosen)
    BY DEF MultiInv, Multis
  <1>1. CASE OpenMulti
    <2>1. multi' \in Multis /\ multi'.open /\ multi'.items = multi.items /\ multi'.chosen = multi.chosen
      BY <1>0, <1>1, MultiOpens, Zenon DEF OpenMulti
    <2>2. bar' \in Scrolls /\ Sized(bar', Len(multi.items)) /\ ~bar'.timer /\ bar'.stray = 0
      BY <1>0, <1>1, NewMenuSized DEF OpenMulti
    <2>3. over' = over
      BY <1>1 DEF OpenMulti
    <2>4. ScrollOK(multi', bar', over')
      BY <2>1, <2>2 DEF ScrollOK, Timed
    <2> QED
      BY <1>0, <2>1, <2>3, <2>4 DEF MultiInv
  <1>2. CASE CloseMulti
    <2>1. multi' \in Multis /\ ~multi'.open /\ multi'.items = multi.items /\ multi'.chosen = multi.chosen
      BY <1>0, <1>2, MultiOpens, Zenon DEF CloseMulti
    <2>2. over' = NoItem
      BY <1>2 DEF CloseMulti
    <2>3. ASSUME "items" \notin env PROVE ScrollOK(multi', bar', over')
      <3>1. bar \in Scrolls /\ bar.stray = 0
        BY <2>3 DEF MultiInv, ScrollOK, Timed
      <3>2. Now(bar', bar.top, bar.height, bar.position, bar.need, 0, FALSE, bar.stray)
        BY <1>2, <3>1, StopFacts DEF CloseMulti
      <3>3. bar' \in Scrolls /\ ~bar'.timer /\ bar'.stray = 0
        BY <3>1, <3>2, Zenon DEF Now
      <3> QED
        BY <2>1, <3>3 DEF ScrollOK, Timed
    <2> QED
      BY <1>0, <2>1, <2>2, <2>3 DEF MultiInv
  <1> QED
    BY <1>1, <1>2

\* The pointer comes to an arrow that is shown, or a timer fires.
LEMMA StartFacts ==
    ASSUME NEW n \in Nat, NEW b \in Scrolls, Sized(b, n), b.need, ~b.timer, NEW arrow \in Arrows,
           NEW t, t = StartScrolling(b, arrow, ListHeight(n))
    PROVE  /\ t \in Scrolls /\ Sized(t, n) /\ t.need /\ t.stray = b.stray
           /\ t.timer => t.direction = (IF arrow = Up THEN -1 ELSE 1) /\ t.position = "middle"
  <1> DEFINE x == IF arrow = Up THEN -1 ELSE 1
             c == [b EXCEPT !.direction = x]
  <1>1. x \in Int /\ x \in {-1, 1}
    OBVIOUS
  <1>2. t = Scrolled(c, ListHeight(n))
    BY DEF StartScrolling
  <1>5. x = IF arrow = Up THEN -1 ELSE 1
    OBVIOUS
  <1> HIDE DEF x
  <1>3. Now(c, b.top, b.height, b.position, b.need, x, b.timer, b.stray)
    BY <1>1, ScrollUpdate
  <1> HIDE DEF c
  <1>4. /\ c \in Scrolls /\ c.top = b.top /\ c.height = b.height /\ c.position = b.position
        /\ c.need = b.need /\ c.direction = x /\ ~c.timer /\ c.stray = b.stray
    BY <1>3, Zenon DEF Now
  <1>6. Sized(c, n) /\ c.need /\ c.direction \in {-1, 1}
    BY <1>1, <1>4, SizedSame
  <1>7. /\ t \in Scrolls /\ Sized(t, n) /\ t.need /\ t.stray = c.stray
        /\ t.timer => t.direction = c.direction /\ t.position = "middle"
    BY <1>2, <1>4, <1>6, ScrolledFacts
  <1> QED
    BY <1>4, <1>5, <1>7

LEMMA TimerFacts ==
    ASSUME NEW n \in Nat, NEW b \in Scrolls, Sized(b, n), b.need, b.direction \in {-1, 1},
           NEW t, t = TimerFired(b, ListHeight(n))
    PROVE  /\ t \in Scrolls /\ Sized(t, n) /\ t.need /\ t.stray = b.stray
           /\ t.timer => t.direction = b.direction /\ t.position = "middle"
  <1> DEFINE c(f) == [b EXCEPT !.timer = f]
  <1>1. ASSUME NEW f \in BOOLEAN
        PROVE  Now(c(f), b.top, b.height, b.position, b.need, b.direction, f, b.stray)
    BY ScrollTimed
  <1>2. t = Scrolled(c(FALSE), ListHeight(n))
    BY Zenon DEF TimerFired
  <1> HIDE DEF c
  <1>3. Now(c(FALSE), b.top, b.height, b.position, b.need, b.direction, FALSE, b.stray)
    <2>1. FALSE \in BOOLEAN
      OBVIOUS
    <2> QED
      BY <1>1, <2>1, Zenon
  <1> DEFINE e == c(FALSE)
  <1>4. /\ e \in Scrolls /\ e.top = b.top /\ e.height = b.height /\ e.position = b.position
        /\ e.need = b.need /\ e.direction = b.direction /\ ~e.timer /\ e.stray = b.stray
    BY <1>3, Zenon DEF Now
  <1>5. t = Scrolled(e, ListHeight(n))
    BY <1>2
  <1> HIDE DEF e
  <1>6. Sized(e, n) /\ e.need /\ e.direction \in {-1, 1}
    BY <1>4, SizedSame
  <1>7. /\ t \in Scrolls /\ Sized(t, n) /\ t.need /\ t.stray = e.stray
        /\ t.timer => t.direction = e.direction /\ t.position = "middle"
    BY <1>4, <1>5, <1>6, ScrolledFacts
  <1> QED
    BY <1>4, <1>7

\* What the pointer does to the scroll view
LEMMA MoveOverScroll ==
    ASSUME MultiInv, "items" \notin env, NEW to, MoveOver(to)
    PROVE  /\ bar' \in Scrolls /\ Sized(bar', Len(multi.items)) /\ bar'.stray = 0
           /\ bar'.timer => /\ to \in Arrows /\ bar'.direction = (IF to = Up THEN -1 ELSE 1)
                            /\ bar'.position = "middle" /\ bar'.need
  <1> DEFINE left == IF over \in Arrows THEN ArrowLeft(bar, over) ELSE bar
             n == Len(multi.items)
  <1>1. /\ multi.open /\ n \in Nat /\ bar \in Scrolls /\ Sized(bar, n) /\ Timed(multi, bar, over)
    BY DEF MultiInv, Multis, ScrollOK, MoveOver
  <1>2. bar' = IF to \in Arrows THEN ArrowEntered(left, to, ListHeight(n)) ELSE left
    BY Zenon DEF MoveOver, List
  <1>3. /\ left \in Scrolls /\ Sized(left, n) /\ ~left.timer /\ left.stray = 0
        /\ left.need = bar.need /\ left.position = bar.position
    <2>1. CASE over \in Arrows /\ IsShown(bar, over)
      <3>1. left = StopScrolling(bar)
        BY <2>1 DEF ArrowLeft
      <3> HIDE DEF left
      <3>2. Now(left, bar.top, bar.height, bar.position, bar.need, 0, FALSE, bar.stray)
        BY <1>1, <3>1, StopFacts
      <3>3. /\ left \in Scrolls /\ left.top = bar.top /\ left.height = bar.height
            /\ left.position = bar.position /\ left.need = bar.need /\ ~left.timer
            /\ left.stray = bar.stray
        BY <3>2, Zenon DEF Now
      <3> QED
        BY <1>1, <3>3, SizedSame DEF Timed
    <2>2. CASE over \notin Arrows
      <3>1. left = bar
        BY <2>2
      <3> QED
        BY <1>1, <2>2, <3>1 DEF Timed
    <2>3. CASE over \in Arrows /\ ~IsShown(bar, over)
      <3>1. left = bar
        BY <2>3 DEF ArrowLeft
      <3>2. ~bar.timer
        BY <1>1, <2>3 DEF Timed, IsShown
      <3> QED
        BY <1>1, <3>1, <3>2 DEF Timed
    <2> QED
      BY <2>1, <2>2, <2>3
  <1> HIDE DEF left, n
  <1>4. CASE to \notin Arrows
    BY <1>2, <1>3, <1>4 DEF n
  <1>5. CASE to \in Arrows
    <2>1. IsShown(bar, to)
      BY <1>5 DEF MoveOver
    <2>2. IsShown(left, to) /\ left.need
      BY <1>3, <2>1 DEF IsShown
    <2>3. bar' = StartScrolling(left, to, ListHeight(n))
      BY <1>2, <1>5, <2>2 DEF ArrowEntered
    <2> QED
      BY <1>1, <1>3, <1>5, <2>2, <2>3, StartFacts DEF n
  <1> QED
    BY <1>4, <1>5

LEMMA MoveOverInv ==
    ASSUME MultiInv, "multi" \in env, NEW to \in MultiItems \cup Arrows \cup {NoItem}, MoveOver(to),
           env' = env
    PROVE  MultiInv'
  <1>0. multi \in Multis /\ ChosenWell(multi.chosen) /\ multi.lit \in MultiItems \cup {NoItem}
    BY DEF MultiInv, Multis
  <1>1. over' = to
    BY DEF MoveOver
  <1>2. PICK lit \in MultiItems \cup {NoItem} : multi' = [multi EXCEPT !.lit = lit]
    <2>1. CASE to \in MultiItems
      BY <2>1 DEF MoveOver
    <2>2. CASE to \notin MultiItems /\ over \in MultiItems
      BY <2>2 DEF MoveOver
    <2>3. CASE to \notin MultiItems /\ over \notin MultiItems
      BY <1>0, <2>3 DEF MoveOver
    <2> QED
      BY <2>1, <2>2, <2>3
  <1>3. /\ multi' \in Multis /\ multi'.open = multi.open /\ multi'.items = multi.items
        /\ multi'.chosen = multi.chosen
    BY <1>0, <1>2, LitUpdate
  <1>4. multi.open
    BY DEF MoveOver
  <1>5. ASSUME "items" \notin env PROVE ScrollOK(multi', bar', over')
    BY <1>1, <1>3, <1>4, <1>5, MoveOverScroll DEF ScrollOK, Timed
  <1> QED
    BY <1>0, <1>1, <1>3, <1>5 DEF MultiInv

\* Steps that leave the scroll view alone
LEMMA ScrollStays ==
    ASSUME NEW mu, NEW nu, NEW b, NEW ov, ScrollOK(mu, b, ov),
           nu.open = mu.open /\ nu.items = mu.items
    PROVE  ScrollOK(nu, b, ov)
  BY DEF ScrollOK, Timed

\* Choosing and highlighting
LEMMA ChooseInv ==
    ASSUME MultiInv, "multi" \in env, env' = env,
           \/ ClickItem \/ ChooseLit
           \/ \E increment \in {-1, 1} : HighlightAdjacent(increment)
           \/ \E i \in MultiItems : SearchItem(i)
    PROVE  MultiInv'
  <1>0. /\ multi \in Multis /\ ChosenWell(multi.chosen) /\ multi.lit \in MultiItems \cup {NoItem}
        /\ multi.items \in Seq(MultiItems) /\ over \in MultiItems \cup Arrows \cup {NoItem}
    BY DEF MultiInv, Multis
  <1>1. bar' = bar /\ over' = over
    BY DEF ClickItem, ChooseLit, HighlightAdjacent, SearchItem
  <1>2. SUFFICES /\ multi' \in Multis /\ multi'.open = multi.open /\ multi'.items = multi.items
                 /\ ChosenWell(multi'.chosen)
    BY <1>0, <1>1, ScrollStays DEF MultiInv
  <1>3. CASE ClickItem
    <2>1. over \in MultiItems
      BY <1>0, <1>3 DEF ClickItem, ToSet
    <2>2. ChosenWell(Toggled(multi.chosen, over)) /\ Toggled(multi.chosen, over) \in Seq(Nat)
      BY <1>0, <2>1, ToggledFacts, ChosenWellFacts
    <2>3. multi' = [multi EXCEPT !.lit = over, !.chosen = Toggled(multi.chosen, over)]
      BY <1>3 DEF ClickItem
    <2> DEFINE new == Toggled(multi.chosen, over)
    <2> HIDE DEF new
    <2>4. new \in Seq(Nat) /\ ChosenWell(new) /\ over \in MultiItems \cup {NoItem}
      BY <2>1, <2>2 DEF new
    <2>5. multi' = [multi EXCEPT !.lit = over, !.chosen = new]
      BY <2>3 DEF new
    <2>6. multi' \in Multis /\ multi'.open = multi.open /\ multi'.items = multi.items /\ multi'.chosen = new
      BY <1>0, <2>4, <2>5 DEF Multis
    <2> QED
      BY <2>4, <2>6
  <1>4. CASE ChooseLit
    <2>1. multi.lit \in MultiItems
      BY <1>0, <1>4 DEF ChooseLit
    <2>2. ChosenWell(Toggled(multi.chosen, multi.lit)) /\ Toggled(multi.chosen, multi.lit) \in Seq(Nat)
      BY <1>0, <2>1, ToggledFacts, ChosenWellFacts
    <2>3. multi' = [multi EXCEPT !.chosen = Toggled(multi.chosen, multi.lit)]
      BY <1>4 DEF ChooseLit
    <2> QED
      BY <1>0, <2>2, <2>3, ChosenUpdate
  <1>5. ASSUME NEW increment \in {-1, 1}, HighlightAdjacent(increment)
        PROVE  /\ multi' \in Multis /\ multi'.open = multi.open /\ multi'.items = multi.items
               /\ ChosenWell(multi'.chosen)
    <2> DEFINE items == multi.items
               len == Len(items)
               T == {k \in 1..len : items[k] = multi.lit}
               at == (IF T # {} THEN Min(T) ELSE 0) - 1
               next == IF multi.lit # NoItem THEN (at + increment) % len
                       ELSE IF increment > 0 THEN 0 ELSE len - 1
    <2>1. items # <<>> /\ multi' = [multi EXCEPT !.lit = items[next + 1]]
      BY <1>5 DEF HighlightAdjacent, SelectInSeq
    <2>2. len \in Nat /\ len # 0 /\ \A k \in 1..len : items[k] \in MultiItems
      BY <1>0, <2>1
    <2>3. at \in Int
      <3>1. CASE T = {}
        BY <3>1
      <3>2. CASE T # {}
        <4>1. T \subseteq 1..len
          OBVIOUS
        <4> HIDE DEF T
        <4>2. Min(T) \in T
          BY <2>2, <3>2, <4>1, MinFacts
        <4>3. Min(T) \in Int
          BY <2>2, <4>1, <4>2
        <4> QED
          BY <3>2, <4>3
      <3> QED
        BY <3>1, <3>2
    <2> HIDE DEF at, items, len
    <2>4. next \in 0..(len - 1)
      BY <2>2, <2>3
    <2> HIDE DEF next
    <2>5. next + 1 \in 1..len
      BY <2>2, <2>4
    <2>6. items[next + 1] \in MultiItems \cup {NoItem}
      BY <2>2, <2>5
    <2> QED
      BY <1>0, <2>1, <2>6, LitUpdate
  <1>6. ASSUME NEW i \in MultiItems, SearchItem(i)
        PROVE  /\ multi' \in Multis /\ multi'.open = multi.open /\ multi'.items = multi.items
               /\ ChosenWell(multi'.chosen)
    <2>1. multi' = [multi EXCEPT !.lit = i]
      BY <1>6 DEF SearchItem
    <2> QED
      BY <1>0, <2>1, LitUpdate
  <1> QED
    BY <1>3, <1>4, <1>5, <1>6

\* Timers
LEMMA TimerInv ==
    ASSUME MultiInv, "multi" \in env, ScrollTimer \/ StrayTimer, env' = env
    PROVE  MultiInv'
  <1>1. multi' = multi /\ over' = over
    BY DEF ScrollTimer, StrayTimer
  <1>2. SUFFICES ASSUME "items" \notin env PROVE ScrollOK(multi, bar', over)
    BY <1>1 DEF MultiInv
  <1>3. bar \in Scrolls /\ Timed(multi, bar, over) /\ (multi.open => Sized(bar, Len(multi.items)))
        /\ Len(multi.items) \in Nat
    BY <1>2 DEF MultiInv, ScrollOK, Multis
  <1>4. CASE ScrollTimer
    <2>1. /\ bar.timer /\ multi.open /\ over \in Arrows /\ bar.need /\ bar.stray = 0
          /\ bar.direction = (IF over = Up THEN -1 ELSE 1)
      BY <1>3, <1>4 DEF ScrollTimer, Timed
    <2>2. bar' = TimerFired(bar, ListHeight(Len(multi.items)))
      BY <1>4 DEF ScrollTimer, List
    <2>3. /\ bar' \in Scrolls /\ Sized(bar', Len(multi.items)) /\ bar'.need /\ bar'.stray = bar.stray
          /\ bar'.timer => bar'.direction = bar.direction /\ bar'.position = "middle"
      BY <1>3, <2>1, <2>2, TimerFacts
    <2> QED
      BY <2>1, <2>3 DEF ScrollOK, Timed
  <1>5. CASE StrayTimer
    BY <1>3, <1>5 DEF StrayTimer, Timed
  <1> QED
    BY <1>4, <1>5

\* The application adds and removes items.
LEMMA ItemsInv ==
    ASSUME MultiInv, "multi" \in env, env' = env, multi.open => "items" \in env,
           NEW i \in MultiItems, AddItem(i) \/ RemoveItem(i)
    PROVE  MultiInv'
  <1> DEFINE items == multi.items
             n == Len(items)
  <1>0. /\ multi \in Multis /\ ChosenWell(multi.chosen)
        /\ items \in Seq(MultiItems) /\ over \in MultiItems \cup Arrows \cup {NoItem}
        /\ n \in Nat /\ DOMAIN items = 1..n /\ \A k \in 1..n : items[k] \in MultiItems
    BY DEF MultiInv, Multis
  <1>1. CASE AddItem(i)
    <2> DEFINE X == ToSet(items) \cup {i}
    <2>1. X \subseteq MultiItems /\ X \subseteq Nat /\ IsFiniteSet(X)
      <3>1. X \in SUBSET MultiItems /\ MultiItems \subseteq Nat /\ IsFiniteSet(MultiItems)
        BY <1>0, MultiMenuAssumption DEF ToSet
      <3> HIDE DEF X
      <3> QED
        BY <3>1, FS_Subset
    <2>2. multi' = [multi EXCEPT !.items = SortedSeq(X)]
      BY <1>1 DEF AddItem
    <2> HIDE DEF X
    <2>3. SortedSeq(X) \in Seq(MultiItems)
      <3>1. SortedSeq(X) \in [1..Cardinality(X) -> X] /\ Cardinality(X) \in Nat
        BY <2>1, SortedFacts
      <3>2. SortedSeq(X) \in [1..Cardinality(X) -> MultiItems]
        BY <2>1, <3>1
      <3> QED
        BY <3>1, <3>2, SeqOfFunction
    <2>4. multi' \in Multis /\ multi'.open = multi.open /\ multi'.chosen = multi.chosen
      BY <1>0, <2>2, <2>3, ItemsUpdate
    <2>5. over' = over
      BY <1>1 DEF AddItem
    <2>6. ASSUME "items" \notin env PROVE ScrollOK(multi', bar', over')
      <3>1. ~multi.open /\ bar' = bar
        BY <1>1, <2>6 DEF AddItem
      <3> QED
        BY <2>4, <2>5, <2>6, <3>1 DEF MultiInv, ScrollOK, Timed
    <2> QED
      BY <1>0, <2>4, <2>5, <2>6 DEF MultiInv
  <1>2. CASE RemoveItem(i)
    <2> DEFINE rest == Subsequence(items, MultiItems \ {i})
    <2>1. multi' = [multi EXCEPT !.items = rest]
      BY <1>2 DEF RemoveItem
    <2>2. rest \in Seq(MultiItems)
      <3> HIDE DEF items
      <3> QED
        BY <1>0, SubsequenceFacts
    <2> HIDE DEF rest
    <2>3. multi' \in Multis /\ multi'.open = multi.open /\ multi'.chosen = multi.chosen
      BY <1>0, <2>1, <2>2, ItemsUpdate
    <2>4. over' \in MultiItems \cup Arrows \cup {NoItem}
      BY <1>0, <1>2 DEF RemoveItem
    <2>5. ASSUME "items" \notin env PROVE ScrollOK(multi', bar', over')
      <3>1. ~multi.open /\ bar \in Scrolls /\ ~bar.timer /\ bar.stray = 0
        BY <2>5 DEF MultiInv, ScrollOK, Timed
      <3>2. bar' = Clamp(bar, List(multi'.items)) /\ List(multi'.items) \in Int
        BY <1>2, <2>3 DEF RemoveItem, List, ListHeight, itemHeight, Multis
      <3> DEFINE list == List(multi'.items)
      <3>3. Now(bar', Between(bar.top, list - bar.height), bar.height, bar.position, bar.need,
                bar.direction, bar.timer, bar.stray)
        <4> HIDE DEF list
        <4>1. bar' = Clamp(bar, list) /\ list \in Int
          BY <3>2 DEF list
        <4> QED
          BY <3>1, <4>1, ClampFacts
      <3>4. bar' \in Scrolls /\ ~bar'.timer /\ bar'.stray = 0
        BY <3>1, <3>3, Zenon DEF Now
      <3> QED
        BY <2>3, <3>1, <3>4 DEF ScrollOK, Timed
    <2> QED
      BY <1>0, <2>3, <2>4, <2>5 DEF MultiInv
  <1> QED
    BY <1>1, <1>2

\* The options of the choosers never change.
LEMMA EnvKept == [ChooserNext]_chooserVars => env' = env
  <1> SUFFICES ASSUME [ChooserNext]_chooserVars PROVE env' = env
    OBVIOUS
  <1>1. CASE UNCHANGED vars
    BY <1>1 DEF vars
  <1>2. CASE Next
    <2>1. CASE OpenMenu \/ GrowOld \/ ClickOutside \/ NeedToRecreateItems
      BY <2>1 DEF OpenMenu, GrowOld, ClickOutside, NeedToRecreateItems
    <2>2. CASE MoveRight \/ MoveLeft \/ Cancel \/ InsertNewline
      BY <2>2 DEF MoveRight, MoveLeft, Cancel, InsertNewline, KeyStep
    <2>3. ASSUME NEW increment, MoveUpOrDown(increment) PROVE env' = env
      BY <2>3 DEF MoveUpOrDown, KeyStep
    <2>4. ASSUME NEW m, NEW i, KeySearch(i) \/ MouseEntered(m, i) \/ MouseClicked(m, i)
          PROVE  env' = env
      BY <2>4 DEF KeySearch, MouseEntered, MouseClicked, KeyStep
    <2>5. ASSUME NEW m, ClickMargin(m) PROVE env' = env
      BY <2>5 DEF ClickMargin
    <2>6. ASSUME NEW v, SetValue(v) PROVE env' = env
      BY <2>6 DEF SetValue
    <2> QED
      BY <1>2, <2>1, <2>2, <2>3, <2>4, <2>5, <2>6 DEF Next
  <1> QED
    BY <1>1, <1>2 DEF ChooserNext, UseMenu, UseMulti, ScrollOn, UseTabs, chooserVars

LEMMA StepMulti == MultiInv /\ [ChooserNext]_chooserVars => MultiInv'
  <1> SUFFICES ASSUME MultiInv, [ChooserNext]_chooserVars PROVE MultiInv'
    OBVIOUS
  <1>0. env' = env
    BY EnvKept
  <1>1. CASE UNCHANGED multiVars
    BY <1>0, <1>1 DEF multiVars, MultiInv
  <1>2. CASE UseMulti
    <2>1. CASE OpenMulti \/ CloseMulti
      BY <1>0, <1>2, <2>1, OpenMultiInv DEF UseMulti
    <2>2. ASSUME NEW to \in MultiItems \cup Arrows \cup {NoItem}, MoveOver(to) PROVE MultiInv'
      BY <1>0, <1>2, <2>2, MoveOverInv DEF UseMulti
    <2>3. CASE \/ ClickItem \/ ChooseLit
               \/ \E increment \in {-1, 1} : HighlightAdjacent(increment)
               \/ \E i \in MultiItems : SearchItem(i)
      BY <1>0, <1>2, <2>3, ChooseInv DEF UseMulti
    <2>4. CASE StrayTimer
      BY <1>0, <1>2, <2>4, TimerInv DEF UseMulti
    <2>5. ASSUME NEW i \in MultiItems, multi.open => "items" \in env, AddItem(i) \/ RemoveItem(i)
          PROVE  MultiInv'
      BY <1>0, <1>2, <2>5, ItemsInv DEF UseMulti
    <2> QED
      BY <1>2, <2>1, <2>2, <2>3, <2>4, <2>5 DEF UseMulti, MultiStep
  <1>3. CASE ScrollOn
    BY <1>0, <1>3, TimerInv DEF ScrollOn
  <1> QED
    BY <1>1, <1>2, <1>3 DEF ChooserNext, UseMenu, UseTabs, chooserVars

LEMMA InitMulti == ChooserInit => MultiInv
  <1> SUFFICES ASSUME ChooserInit PROVE MultiInv
    OBVIOUS
  <1>1. bar = NewScroll /\ over = NoItem
    BY DEF ChooserInit, MultiInit
  <1>2. Now(NewScroll, 0, 0, "top", FALSE, 0, FALSE, 0)
    BY DEF NewScroll, Now, Scrolls
  <1>3. bar \in Scrolls /\ ~bar.timer /\ bar.stray = 0
    BY <1>1, <1>2, Zenon DEF Now
  <1>7. ASSUME "multi" \in env
        PROVE  \E S : /\ S # {} /\ IsFiniteSet(S) /\ S \subseteq Nat
                      /\ multi = [open |-> FALSE, items |-> SortedSeq(MultiItems), lit |-> NoItem,
                                  chosen |-> SortedSeq(S)]
    <2> DEFINE U == {ItemValues[i] : i \in MultiItems}
    <2>1. PICK S \in SUBSET UNION U :
             S # {} /\ multi = [open |-> FALSE, items |-> SortedSeq(MultiItems), lit |-> NoItem,
                                chosen |-> SortedSeq(S)]
      BY <1>7, Zenon DEF ChooserInit, MultiInit
    <2>2. IsFiniteSet(U)
      <3>1. IsFiniteSet(MultiItems)
        BY MultiMenuAssumption
      <3>2. ItemValues \in Surjection(MultiItems, U)
        BY MultiMenuAssumption DEF Surjection
      <3> QED
        BY <3>1, <3>2, FS_Surjection
    <2>3. \A v \in U : IsFiniteSet(v) /\ v \subseteq Nat
      BY MultiMenuAssumption
    <2> HIDE DEF U
    <2>4. IsFiniteSet(UNION U)
      BY <2>2, <2>3, FS_UNION
    <2>5. IsFiniteSet(S) /\ S \subseteq Nat
      BY <2>3, <2>4, FS_Subset
    <2> QED
      BY <2>1, <2>5, Zenon
  <1>4. ~multi.open /\ multi \in Multis
    <2> DEFINE of(f, items, chosen) == [open |-> f, items |-> items, lit |-> NoItem, chosen |-> chosen]
    <2>1. ASSUME NEW f \in BOOLEAN, NEW items \in Seq(MultiItems), NEW chosen \in Seq(Nat)
          PROVE  of(f, items, chosen) \in Multis /\ of(f, items, chosen).open = f
      BY DEF Multis
    <2>2. PICK items \in Seq(MultiItems), chosen \in Seq(Nat) : multi = of(FALSE, items, chosen)
      <3>1. CASE "multi" \notin env
        <4>1. multi = of(FALSE, <<>>, <<>>)
          BY <3>1, Zenon DEF ChooserInit
        <4>2. <<>> \in Seq(MultiItems) /\ <<>> \in Seq(Nat)
          OBVIOUS
        <4> HIDE DEF of
        <4> QED
          BY <4>1, <4>2
      <3>2. CASE "multi" \in env
        <4>1. PICK S : S # {} /\ IsFiniteSet(S) /\ S \subseteq Nat
                       /\ multi = of(FALSE, SortedSeq(MultiItems), SortedSeq(S))
          BY <1>7, <3>2, Zenon
        <4>2. SortedSeq(MultiItems) \in Seq(MultiItems)
          BY SortedFacts, MultiMenuAssumption
        <4>3. SortedSeq(S) \in Seq(Nat)
          BY <4>1, ChosenWellFacts DEF ChosenWell
        <4> HIDE DEF of
        <4> QED
          BY <4>1, <4>2, <4>3
      <3> QED
        BY <3>1, <3>2
    <2> HIDE DEF of
    <2>3. FALSE \in BOOLEAN
      OBVIOUS
    <2> QED
      BY <2>1, <2>2, <2>3, Zenon
  <1>5. ASSUME "multi" \in env PROVE ChosenWell(multi.chosen)
    <2>1. PICK S : S # {} /\ IsFiniteSet(S) /\ S \subseteq Nat /\ multi.chosen = SortedSeq(S)
      <3>1. PICK S : /\ S # {} /\ IsFiniteSet(S) /\ S \subseteq Nat
                     /\ multi = [open |-> FALSE, items |-> SortedSeq(MultiItems), lit |-> NoItem,
                                 chosen |-> SortedSeq(S)]
        BY <1>5, <1>7, Zenon
      <3>2. multi.chosen = SortedSeq(S)
        BY <3>1
      <3> QED
        BY <3>1, <3>2
    <2> QED
      BY <2>1 DEF ChosenWell
  <1>6. ScrollOK(multi, bar, over)
    BY <1>3, <1>4 DEF ScrollOK, Timed
  <1> QED
    BY <1>1, <1>4, <1>5, <1>6 DEF MultiInv

-----------------------------------------------------------------------------
(* Tabs *)

\* A set of numbers that has 0, and with each the next, has them all.
LEMMA Inductive ==
    ASSUME NEW S, S \subseteq Nat, 0 \in S, \A n \in S : n + 1 \in S
    PROVE  S = Nat
  <1> SUFFICES ASSUME Nat \ S # {} PROVE FALSE
    OBVIOUS
  <1>1. PICK m \in Nat \ S : \A x \in Nat \ S : m <= x
    <2> DEFINE T == Nat \ S
    <2>1. T \subseteq Nat /\ T # {}
      OBVIOUS
    <2> HIDE DEF T
    <2>2. \E m \in T : \A x \in T : m <= x
      BY <2>1, LeastNumber
    <2> QED
      BY <2>2 DEF T
  <1>2. m - 1 \in Nat /\ m - 1 \notin Nat \ S
    BY <1>1
  <1>3. (m - 1) + 1 \in S
    BY <1>2
  <1> QED
    BY <1>1, <1>3

\* g is what the loop of TabsDidChange has come to after each tab.
Adds(g, kept, old, new, m) ==
    g = [i \in 0..m |-> IF i = 0 THEN kept
                        ELSE IF new[i] \in old THEN g[i - 1] ELSE AddTab(g[i - 1], new[i], i, new)]

LEMMA AddsExist ==
    ASSUME NEW kept, NEW old, NEW new, NEW m \in Nat
    PROVE  \E g : Adds(g, kept, old, new, m)
  <1> DEFINE S == {n \in Nat : \E g : Adds(g, kept, old, new, n)}
             Step(q, i) == IF new[i] \in old THEN q ELSE AddTab(q, new[i], i, new)
  <1>1. 0 \in S
    <2> DEFINE g == [i \in 0..0 |-> kept]
    <2>1. g = [i \in 0..0 |-> IF i = 0 THEN kept ELSE Step(g[i - 1], i)]
      <3> HIDE DEF Step
      <3> QED
        OBVIOUS
    <2>2. Adds(g, kept, old, new, 0)
      BY <2>1, Zenon DEF Adds
    <2> QED
      BY <2>2
  <1>2. ASSUME NEW n \in S PROVE n + 1 \in S
    <2>1. n \in Nat
      OBVIOUS
    <2>2. PICK f : Adds(f, kept, old, new, n)
      OBVIOUS
    <2> HIDE DEF S
    <2>3. f = [i \in 0..n |-> IF i = 0 THEN kept ELSE Step(f[i - 1], i)]
      BY <2>2, Zenon DEF Adds
    <2> DEFINE g == [i \in 0..(n + 1) |-> IF i <= n THEN f[i] ELSE Step(f[n], n + 1)]
    <2> HIDE DEF Step
    <2>4. ASSUME NEW i \in 0..(n + 1) PROVE g[i] = IF i = 0 THEN kept ELSE Step(g[i - 1], i)
      <3>1. CASE i = 0
        BY <2>1, <2>3, <3>1
      <3>2. CASE i # 0 /\ i <= n
        <4>1. g[i] = f[i] /\ g[i - 1] = f[i - 1] /\ i \in 0..n
          BY <2>1, <3>2
        <4> QED
          BY <2>3, <3>2, <4>1
      <3>3. CASE i = n + 1
        <4>1. g[i] = Step(f[n], n + 1) /\ g[i - 1] = f[n] /\ i # 0
          BY <2>1, <3>3
        <4> QED
          BY <3>3, <4>1
      <3> QED
        BY <2>1, <3>1, <3>2, <3>3
    <2>5. g = [i \in 0..(n + 1) |-> IF i = 0 THEN kept ELSE Step(g[i - 1], i)]
      BY <2>4
    <2> HIDE DEF g
    <2>6. Adds(g, kept, old, new, n + 1)
      BY <2>5, Zenon DEF Adds, Step
    <2> QED
      BY <2>1, <2>6 DEF S
  <1>3. S \subseteq Nat
    OBVIOUS
  <1>4. S = Nat
    <2> HIDE DEF S
    <2> QED
      BY <1>1, <1>2, <1>3, Inductive
  <1> QED
    BY <1>4

OldTabs(previous) == IF previous = NoTabs THEN {} ELSE ToSet(previous)

KeptTabs(r, old, new) ==
    [r EXCEPT !.bar = Subsequence(r.bar, {v \in TabValues : v \in old => v \in ToSet(new)})]

LEMMA TabsAdded ==
    ASSUME NEW r, NEW previous, NEW new, Len(new) \in Nat
    PROVE  \E g : /\ Adds(g, KeptTabs(r, OldTabs(previous), new), OldTabs(previous), new, Len(new))
                  /\ TabsDidChange(r, previous, new) = g[Len(new)]
  <1> DEFINE old == OldTabs(previous)
             kept == KeptTabs(r, old, new)
             Rec(g) == Adds(g, kept, old, new, Len(new))
             add == CHOOSE g : Rec(g)
  <1>1. \E g : Rec(g)
    BY AddsExist
  <1>2. Rec(add)
    <2> HIDE DEF Rec
    <2> QED
      BY <1>1
  <1>3. TabsDidChange(r, previous, new) = add[Len(new)]
    BY Zenon DEF TabsDidChange, OldTabs, KeptTabs, Adds
  <1> QED
    BY <1>2, <1>3

\* Tabs that the application may set
LEMMA TabListFacts ==
    ASSUME NEW s \in TabLists
    PROVE  /\ s \in Seq(TabValues) /\ Len(s) \in Nat /\ DOMAIN s = 1..Len(s) /\ s # NoTabs
           /\ \A i \in 1..Len(s) : s[i] \in TabValues /\ s[i] # NoTab
           /\ \A i, j \in 1..Len(s) : s[i] = s[j] => i = j
  <1>1. PICK n \in 0..Cardinality(TabValues) : s \in [1..n -> TabValues]
    BY DEF TabLists
  <1>2. n \in Nat
    OBVIOUS
  <1>3. s \in Seq(TabValues) /\ Len(s) = n /\ DOMAIN s = 1..n
    BY <1>1, <1>2, SeqOfFunction
  <1>4. IsInjective(s)
    BY DEF TabLists
  <1>5. \A i, j \in 1..n : s[i] = s[j] => i = j
    BY <1>3, <1>4 DEF IsInjective
  <1> QED
    BY <1>1, <1>2, <1>3, <1>5, TabAssumption

\* After i tabs of the loop: the bar has the first i, then those there already,
\* in the order of the tabs.  at says where the tab of a button is.
InPlace(b, i, old, new) ==
    /\ b \in Seq(TabValues)
    /\ \E at \in [1..Len(b) -> 1..Len(new)] :
          /\ \A k \in 1..Len(b) : b[k] = new[at[k]]
          /\ \A k, l \in 1..Len(b) : k < l => at[k] < at[l]
          /\ \A k \in 1..i : k <= Len(b) /\ at[k] = k
          /\ \A k \in 1..Len(b) : k > i => new[at[k]] \in old
          /\ \A j \in 1..Len(new) : new[j] \in old => \E k \in 1..Len(b) : at[k] = j

\* Two sequences after each other
Join(c, p, r, S) ==
    /\ c \in Seq(S) /\ Len(c) = Len(p) + Len(r)
    /\ \A k \in 1..Len(p) : c[k] = p[k]
    /\ \A k \in 1..Len(r) : c[Len(p) + k] = r[k]

LEMMA Joined ==
    ASSUME NEW S, NEW p \in Seq(S), NEW r \in Seq(S), NEW c, c = p \o r
    PROVE  Join(c, p, r, S)
  <1>1. Len(p) \in Nat /\ Len(r) \in Nat
    OBVIOUS
  <1>2. /\ c \in Seq(S) /\ Len(c) = Len(p) + Len(r)
        /\ \A k \in 1..Len(p) + Len(r) : c[k] = IF k <= Len(p) THEN p[k] ELSE r[k - Len(p)]
    BY ConcatProperties
  <1>3. ASSUME NEW k \in 1..Len(p) PROVE c[k] = p[k]
    <2>1. k \in 1..Len(p) + Len(r) /\ k <= Len(p)
      BY <1>1
    <2> QED
      BY <1>2, <2>1
  <1>4. ASSUME NEW k \in 1..Len(r) PROVE c[Len(p) + k] = r[k]
    <2>1. Len(p) + k \in 1..Len(p) + Len(r) /\ ~(Len(p) + k <= Len(p)) /\ (Len(p) + k) - Len(p) = k
      BY <1>1
    <2> QED
      BY <1>2, <2>1
  <1> QED
    BY <1>2, <1>3, <1>4 DEF Join

\* Inserting into a sequence
Insertion(c, b, m, v, S) ==
    /\ c \in Seq(S) /\ Len(c) = Len(b) + 1
    /\ \A k \in 1..Len(c) : c[k] = IF k < m THEN b[k] ELSE IF k = m THEN v ELSE b[k - 1]

LEMMA InsertedTab ==
    ASSUME NEW S, NEW b \in Seq(S), NEW m \in 1..(Len(b) + 1), NEW v \in S, NEW c,
           c = InsertAt(b, m, v)
    PROVE  Insertion(c, b, m, v, S)
  <1>0. Len(b) \in Nat /\ m \in Nat /\ m >= 1 /\ m - 1 <= Len(b) /\ \A i \in 1..Len(b) : b[i] \in S
    OBVIOUS
  <1> DEFINE p == SubSeq(b, 1, m - 1)
             one == <<v>>
             r == SubSeq(b, m, Len(b))
             q == p \o one
  <1>1. c = q \o r
    BY DEF InsertAt
  <1>2. p \in Seq(S) /\ Len(p) = m - 1 /\ \A k \in 1..(m - 1) : p[k] = b[k]
    BY <1>0, SubSeqProperties
  <1>3. r \in Seq(S) /\ Len(r) = Len(b) - m + 1 /\ \A k \in 1..(Len(b) - m + 1) : r[k] = b[m + k - 1]
    BY <1>0, SubSeqProperties
  <1>4. one \in Seq(S) /\ Len(one) = 1 /\ one[1] = v
    OBVIOUS
  <1> HIDE DEF p, one, r
  <1>5. /\ q \in Seq(S) /\ Len(q) = Len(p) + Len(one)
        /\ \A k \in 1..Len(p) : q[k] = p[k]
        /\ \A k \in 1..Len(one) : q[Len(p) + k] = one[k]
    <2>1. p \in Seq(S) /\ one \in Seq(S)
      BY <1>2, <1>4
    <2>2. Join(q, p, one, S)
      BY <2>1, Joined, Zenon
    <2> QED
      BY <2>2 DEF Join
  <1>6. Len(q) = m /\ (\A k \in 1..(m - 1) : q[k] = b[k]) /\ q[m] = v
    <2>1. 1 \in 1..Len(one) /\ Len(p) + 1 = m /\ Len(p) + Len(one) = m
      BY <1>0, <1>2, <1>4
    <2>2. q[m] = one[1]
      BY <1>5, <2>1
    <2> QED
      BY <1>2, <1>4, <1>5, <2>1, <2>2
  <1> HIDE DEF q
  <1>7. /\ c \in Seq(S) /\ Len(c) = Len(q) + Len(r)
        /\ \A k \in 1..Len(q) : c[k] = q[k]
        /\ \A k \in 1..Len(r) : c[Len(q) + k] = r[k]
    <2>1. q \in Seq(S) /\ r \in Seq(S)
      BY <1>3, <1>5
    <2>2. Join(c, q, r, S)
      BY <1>1, <2>1, Joined, Zenon
    <2> QED
      BY <2>2 DEF Join
  <1>8. Len(c) = Len(b) + 1
    BY <1>0, <1>3, <1>6, <1>7
  <1>9. ASSUME NEW k \in 1..(Len(b) + 1)
        PROVE  c[k] = IF k < m THEN b[k] ELSE IF k = m THEN v ELSE b[k - 1]
    <2>0. k \in Nat
      BY <1>0
    <2>1. CASE k < m
      <3>1. k \in 1..Len(q) /\ k \in 1..(m - 1)
        BY <1>0, <1>6, <2>1
      <3> QED
        BY <1>6, <1>7, <2>1, <3>1
    <2>2. CASE k = m
      <3>1. k \in 1..Len(q)
        BY <1>0, <1>6, <2>2
      <3> QED
        BY <1>0, <1>6, <1>7, <2>2, <3>1
    <2>3. CASE k > m
      <3>1. /\ k - m \in 1..Len(r) /\ m + (k - m) = k /\ k - m \in 1..(Len(b) - m + 1)
            /\ m + (k - m) - 1 = k - 1
        BY <1>0, <1>3, <2>3
      <3>2. c[k] = r[k - m]
        BY <1>6, <1>7, <3>1
      <3>3. r[k - m] = b[k - 1]
        BY <1>3, <3>1
      <3> QED
        BY <1>0, <2>3, <3>2, <3>3
    <2> QED
      BY <1>0, <2>0, <2>1, <2>2, <2>3
  <1> QED
    BY <1>7, <1>8, <1>9 DEF Insertion

\* SubsequenceFacts, by a name
Part(u, s, T, S) ==
    /\ u \in Seq(S) /\ ToSet(u) = ToSet(s) \cap T
    /\ \E at \in [1..Len(u) -> DOMAIN s] :
          /\ \A k \in 1..Len(u) : u[k] = s[at[k]]
          /\ \A k, l \in 1..Len(u) : k < l => at[k] < at[l]

LEMMA PartFacts ==
    ASSUME NEW S, NEW s \in Seq(S), NEW T, NEW u, u = Subsequence(s, T)
    PROVE  Part(u, s, T, S)
  BY SubsequenceFacts DEF Part

\* The tabs that stay
LEMMA KeptInPlace ==
    ASSUME NEW new \in TabLists, NEW b \in TabLists, NEW old, old = ToSet(b),
           \A i, j \in DOMAIN new : \A k, l \in DOMAIN b :
               i < j /\ new[i] = b[k] /\ new[j] = b[l] => k < l,
           NEW u, u = Subsequence(b, {v \in TabValues : v \in old => v \in ToSet(new)})
    PROVE  InPlace(u, 0, old, new)
  <1> DEFINE T == {v \in TabValues : v \in old => v \in ToSet(new)}
             n == Len(new)
  <1>1. /\ b \in Seq(TabValues) /\ DOMAIN b = 1..Len(b) /\ Len(b) \in Nat
        /\ \A i, j \in 1..Len(b) : b[i] = b[j] => i = j
        /\ \A i \in 1..Len(b) : b[i] \in TabValues
    BY TabListFacts
  <1>2. DOMAIN new = 1..n /\ n \in Nat /\ \A i, j \in 1..n : new[i] = new[j] => i = j
    BY TabListFacts
  <1>3. \A v : v \in old /\ v \in T => v \in ToSet(new)
    OBVIOUS
  <1>4. \A v \in TabValues : v \in ToSet(new) => v \in T
    OBVIOUS
  <1>10. u = Subsequence(b, T)
    OBVIOUS
  <1> HIDE DEF T
  <1>5. /\ u \in Seq(TabValues) /\ ToSet(u) = ToSet(b) \cap T
        /\ \E at \in [1..Len(u) -> DOMAIN b] :
              /\ \A k \in 1..Len(u) : u[k] = b[at[k]]
              /\ \A k, l \in 1..Len(u) : k < l => at[k] < at[l]
    <2>1. b \in Seq(TabValues)
      BY <1>1
    <2>2. Part(u, b, T, TabValues)
      BY <1>10, <2>1, PartFacts, Zenon
    <2> QED
      BY <2>2 DEF Part
  <1>6. PICK from \in [1..Len(u) -> 1..Len(b)] :
           /\ \A k \in 1..Len(u) : u[k] = b[from[k]]
           /\ \A k, l \in 1..Len(u) : k < l => from[k] < from[l]
    BY <1>1, <1>5
  <1>7. Len(u) \in Nat /\ DOMAIN u = 1..Len(u)
    BY <1>5
  <1>8. ASSUME NEW k \in 1..Len(u) PROVE u[k] \in old /\ \E j \in 1..n : new[j] = u[k]
    <2>1. u[k] \in ToSet(u)
      BY <1>7 DEF ToSet
    <2>2. u[k] \in old /\ u[k] \in T
      BY <1>5, <2>1
    <2>3. u[k] \in ToSet(new)
      BY <1>3, <2>2
    <2> QED
      BY <1>2, <2>2, <2>3 DEF ToSet
  <1> DEFINE at == [k \in 1..Len(u) |-> CHOOSE j \in 1..n : new[j] = u[k]]
  <1>9. ASSUME NEW k \in 1..Len(u) PROVE at[k] \in 1..n /\ new[at[k]] = u[k]
    BY <1>8
  <1>11. at \in [1..Len(u) -> 1..n]
    BY <1>8
  <1> HIDE DEF at, n
  <1>12. ASSUME NEW k \in 1..Len(u), NEW l \in 1..Len(u), k < l PROVE at[k] < at[l]
    <2>1. /\ new[at[k]] = b[from[k]] /\ new[at[l]] = b[from[l]] /\ from[k] < from[l]
          /\ at[k] \in 1..n /\ at[l] \in 1..n /\ from[k] \in 1..Len(b) /\ from[l] \in 1..Len(b)
      BY <1>6, <1>9, <1>12
    <2>2. ~(at[l] < at[k])
      <3> SUFFICES ASSUME at[l] < at[k] PROVE FALSE
        OBVIOUS
      <3>1. from[l] < from[k]
        BY <1>1, <1>2, <2>1
      <3> QED
        BY <1>1, <2>1, <3>1
    <2>3. at[l] # at[k]
      <3> SUFFICES ASSUME at[l] = at[k] PROVE FALSE
        OBVIOUS
      <3>1. from[l] = from[k]
        BY <1>1, <2>1
      <3> QED
        BY <1>1, <2>1, <3>1
    <2> QED
      BY <1>2, <2>1, <2>2, <2>3
  <1>13. ASSUME NEW j \in 1..n, new[j] \in old PROVE \E k \in 1..Len(u) : at[k] = j
    <2>1. new[j] \in ToSet(new)
      BY <1>2 DEF ToSet
    <2>2. new[j] \in TabValues
      BY TabListFacts DEF n
    <2>3. new[j] \in ToSet(u)
      BY <1>4, <1>5, <1>13, <2>1, <2>2
    <2>4. PICK k \in 1..Len(u) : u[k] = new[j]
      BY <1>7, <2>3 DEF ToSet
    <2>5. at[k] \in 1..n /\ new[at[k]] = new[j]
      BY <1>9, <2>4
    <2>6. at[k] = j
      BY <1>2, <2>5
    <2> QED
      BY <2>6
  <1> QED
    <2>1. \A k \in 1..0 : k <= Len(u) /\ at[k] = k
      OBVIOUS
    <2>2. \A k \in 1..Len(u) : u[k] = new[at[k]] /\ new[at[k]] \in old
      BY <1>8, <1>9
    <2>3. /\ \A k \in 1..Len(u) : u[k] = new[at[k]]
          /\ \A k, l \in 1..Len(u) : k < l => at[k] < at[l]
          /\ \A k \in 1..Len(u) : k > 0 => new[at[k]] \in old
          /\ \A j \in 1..n : new[j] \in old => \E k \in 1..Len(u) : at[k] = j
      BY <1>12, <1>13, <2>2
    <2> QED
      BY <1>5, <1>11, <2>1, <2>3, Zenon DEF InPlace, n

\* A tab that was there is where it belongs when its turn comes.
LEMMA PlaceOld ==
    ASSUME NEW new \in TabLists, NEW old, NEW b, NEW m \in 1..Len(new),
           InPlace(b, m - 1, old, new), new[m] \in old
    PROVE  InPlace(b, m, old, new)
  <1> DEFINE n == Len(new)
  <1>1. n \in Nat /\ m \in Nat /\ m >= 1 /\ m <= n
    BY TabListFacts
  <1>2. b \in Seq(TabValues) /\ Len(b) \in Nat
    BY DEF InPlace
  <1>3. PICK at \in [1..Len(b) -> 1..n] :
          /\ \A k \in 1..Len(b) : b[k] = new[at[k]]
          /\ \A k, l \in 1..Len(b) : k < l => at[k] < at[l]
          /\ \A k \in 1..(m - 1) : k <= Len(b) /\ at[k] = k
          /\ \A k \in 1..Len(b) : k > m - 1 => new[at[k]] \in old
          /\ \A j \in 1..n : new[j] \in old => \E k \in 1..Len(b) : at[k] = j
    BY Zenon DEF InPlace
  <1>4. PICK k \in 1..Len(b) : at[k] = m
    BY <1>3
  <1> HIDE DEF n
  <1>5. k >= m
    BY <1>1, <1>2, <1>3, <1>4
  <1>6. k = m
    <2> SUFFICES ASSUME k > m PROVE FALSE
      BY <1>1, <1>2, <1>4, <1>5
    <2>1. m \in 1..Len(b) /\ at[m] < m /\ at[m] \in 1..n
      BY <1>1, <1>2, <1>3, <1>4
    <2>2. CASE m = 1
      BY <1>1, <2>1, <2>2
    <2>3. CASE m > 1
      <3>1. m - 1 \in 1..(m - 1) /\ m - 1 \in 1..Len(b) /\ m - 1 < m
        BY <1>1, <1>2, <2>1, <2>3
      <3>2. at[m - 1] = m - 1 /\ at[m - 1] < at[m]
        BY <1>3, <2>1, <3>1
      <3> QED
        BY <1>1, <2>1, <3>2
    <2> QED
      BY <1>1, <2>2, <2>3
  <1>7. \A l \in 1..m : l <= Len(b) /\ at[l] = l
    BY <1>1, <1>2, <1>3, <1>4, <1>6
  <1>8. \A l \in 1..Len(b) : l > m => new[at[l]] \in old
    BY <1>1, <1>2, <1>3
  <1> QED
    BY <1>2, <1>3, <1>7, <1>8, Zenon DEF InPlace, n

\* A new tab is put where it belongs.
LEMMA PlaceNew ==
    ASSUME NEW new \in TabLists, NEW old, NEW b, NEW m \in 1..Len(new),
           InPlace(b, m - 1, old, new), new[m] \notin old,
           NEW c, c = InsertAt(b, m, new[m])
    PROVE  InPlace(c, m, old, new)
  <1> DEFINE n == Len(new)
             v == new[m]
  <1>1. n \in Nat /\ m \in Nat /\ m >= 1 /\ m <= n /\ v \in TabValues
    BY TabListFacts
  <1>2. b \in Seq(TabValues) /\ Len(b) \in Nat
    BY DEF InPlace
  <1>3. PICK at \in [1..Len(b) -> 1..n] :
          /\ \A k \in 1..Len(b) : b[k] = new[at[k]]
          /\ \A k, l \in 1..Len(b) : k < l => at[k] < at[l]
          /\ \A k \in 1..(m - 1) : k <= Len(b) /\ at[k] = k
          /\ \A k \in 1..Len(b) : k > m - 1 => new[at[k]] \in old
          /\ \A j \in 1..n : new[j] \in old => \E k \in 1..Len(b) : at[k] = j
    BY Zenon DEF InPlace
  <1>9. c = InsertAt(b, m, v) /\ v \notin old /\ v = new[m]
    OBVIOUS
  <1> HIDE DEF n, v
  <1>4. m \in 1..(Len(b) + 1)
    <2>1. CASE m = 1
      BY <1>2, <2>1
    <2>2. CASE m > 1
      <3>1. m - 1 \in 1..(m - 1)
        BY <1>1, <2>2
      <3> QED
        BY <1>1, <1>2, <1>3, <3>1
    <2> QED
      BY <1>1, <2>1, <2>2
  <1>5. /\ c \in Seq(TabValues) /\ Len(c) = Len(b) + 1
        /\ \A k \in 1..Len(c) : c[k] = IF k < m THEN b[k] ELSE IF k = m THEN v ELSE b[k - 1]
    <2>1. b \in Seq(TabValues) /\ v \in TabValues /\ c = InsertAt(b, m, v)
      BY <1>1, <1>2, <1>9
    <2>2. Insertion(c, b, m, v, TabValues)
      BY <1>4, <2>1, InsertedTab, Zenon
    <2> QED
      BY <2>2 DEF Insertion
  <1> DEFINE to == [k \in 1..Len(c) |-> IF k < m THEN at[k] ELSE IF k = m THEN m ELSE at[k - 1]]
  <1>6. ASSUME NEW k \in 1..Len(b), k >= m PROVE at[k] > m /\ at[k] \in 1..n
    <2>1. at[k] \in 1..n /\ new[at[k]] \in old
      BY <1>1, <1>2, <1>3, <1>6
    <2>2. at[k] # m
      BY <1>9, <2>1
    <2>3. at[k] >= m
      <3>1. CASE m = 1
        BY <1>1, <2>1, <3>1
      <3>2. CASE m > 1
        <4>1. m - 1 \in 1..(m - 1) /\ m - 1 \in 1..Len(b) /\ m - 1 < k
          BY <1>1, <1>2, <1>6, <3>2
        <4>2. at[m - 1] = m - 1 /\ at[m - 1] < at[k]
          BY <1>3, <4>1
        <4> QED
          BY <1>1, <2>1, <4>2
      <3> QED
        BY <1>1, <3>1, <3>2
    <2> QED
      BY <1>1, <2>1, <2>2, <2>3
  <1>7. ASSUME NEW k \in 1..Len(c)
        PROVE  /\ k < m => k \in 1..Len(b) /\ k \in 1..(m - 1) /\ to[k] = k /\ at[k] = k
               /\ k = m => to[k] = m
               /\ k > m => /\ k - 1 \in 1..Len(b) /\ k - 1 >= m /\ to[k] = at[k - 1]
                           /\ at[k - 1] > m
    <2>1. k < m => k \in 1..Len(b) /\ k \in 1..(m - 1)
      BY <1>1, <1>2, <1>4, <1>5
    <2>2. k > m => k - 1 \in 1..Len(b) /\ k - 1 >= m
      BY <1>1, <1>2, <1>4, <1>5
    <2> QED
      BY <1>1, <1>2, <1>3, <1>5, <1>6, <2>1, <2>2
  <1>8. to \in [1..Len(c) -> 1..n]
    <2> SUFFICES ASSUME NEW k \in 1..Len(c) PROVE to[k] \in 1..n
      OBVIOUS
    <2> HIDE DEF to
    <2>1. k \in Nat
      BY <1>2, <1>5
    <2>2. CASE k <= m
      BY <1>1, <1>7, <2>1, <2>2
    <2>3. CASE k > m
      <3>1. to[k] = at[k - 1] /\ k - 1 \in 1..Len(b)
        BY <1>7, <2>3
      <3> QED
        BY <1>3, <3>1
    <2> QED
      BY <1>1, <2>1, <2>2, <2>3
  <1> HIDE DEF to
  <1>10. ASSUME NEW k \in 1..Len(c) PROVE c[k] = new[to[k]]
    <2>1. k \in Nat
      BY <1>2, <1>5
    <2>2. CASE k < m
      BY <1>3, <1>5, <1>7, <2>2
    <2>3. CASE k = m
      BY <1>1, <1>5, <1>7, <1>9, <2>3
    <2>4. CASE k > m
      <3>1. c[k] = b[k - 1] /\ to[k] = at[k - 1] /\ k - 1 \in 1..Len(b)
        BY <1>1, <1>5, <1>7, <2>1, <2>4
      <3> QED
        BY <1>3, <3>1
    <2> QED
      BY <1>1, <2>1, <2>2, <2>3, <2>4
  <1>11. ASSUME NEW k \in 1..Len(c), NEW l \in 1..Len(c), k < l PROVE to[k] < to[l]
    <2>0. k \in Nat /\ l \in Nat
      BY <1>2, <1>5
    <2>1. CASE k > m
      <3>1. l > m /\ k - 1 < l - 1
        BY <1>1, <1>11, <2>0, <2>1
      <3> QED
        BY SMTT(30), <1>3, <1>7, <2>1, <3>1
    <2>2. CASE k <= m
      <3>1. to[k] = k
        BY <1>1, <1>7, <2>0, <2>2
      <3>2. CASE l <= m
        BY <1>1, <1>7, <1>11, <2>0, <3>1, <3>2
      <3>3. CASE l > m
        <4>1. to[l] > m /\ to[l] \in Nat
          BY <1>1, <1>3, <1>7, <3>3
        <4> QED
          BY <1>1, <2>0, <2>2, <3>1, <4>1
      <3> QED
        BY <1>1, <2>0, <3>2, <3>3
    <2> QED
      BY <1>1, <2>0, <2>1, <2>2
  <1>12. ASSUME NEW k \in 1..m PROVE k <= Len(c) /\ to[k] = k
    <2>1. k \in 1..Len(c)
      BY <1>1, <1>2, <1>4, <1>5
    <2> QED
      BY <1>1, <1>2, <1>5, <1>7, <2>1
  <1>13. ASSUME NEW k \in 1..Len(c), k > m PROVE new[to[k]] \in old
    <2>1. to[k] = at[k - 1] /\ k - 1 \in 1..Len(b) /\ k - 1 > m - 1
      BY <1>1, <1>7, <1>13
    <2> QED
      BY <1>3, <2>1
  <1>14. ASSUME NEW j \in 1..n, new[j] \in old PROVE \E k \in 1..Len(c) : to[k] = j
    <2>1. PICK k \in 1..Len(b) : at[k] = j
      BY <1>3, <1>14
    <2>2. CASE k < m
      <3>1. k \in 1..Len(c) /\ to[k] = j
        BY <1>1, <1>2, <1>5, <1>7, <2>1, <2>2
      <3> QED
        BY <3>1
    <2>3. CASE k >= m
      <3>1. k + 1 \in 1..Len(c) /\ k + 1 > m /\ (k + 1) - 1 = k
        BY <1>1, <1>2, <1>5, <2>3
      <3>2. to[k + 1] = j
        BY <1>7, <2>1, <3>1
      <3> QED
        BY <3>1, <3>2
    <2> QED
      BY <1>1, <1>2, <2>2, <2>3
  <1>15. /\ \A k \in 1..Len(c) : c[k] = new[to[k]]
         /\ \A k, l \in 1..Len(c) : k < l => to[k] < to[l]
         /\ \A k \in 1..m : k <= Len(c) /\ to[k] = k
         /\ \A k \in 1..Len(c) : k > m => new[to[k]] \in old
         /\ \A j \in 1..n : new[j] \in old => \E k \in 1..Len(c) : to[k] = j
    BY <1>10, <1>11, <1>12, <1>13, <1>14
  <1> QED
    BY <1>5, <1>8, <1>15, Zenon DEF InPlace, n

\* When the loop is done the bar has the tabs.
LEMMA AllInPlace ==
    ASSUME NEW new \in TabLists, NEW old, NEW b, InPlace(b, Len(new), old, new)
    PROVE  b = new
  <1> DEFINE n == Len(new)
  <1>1. n \in Nat /\ new \in Seq(TabValues)
    BY TabListFacts
  <1>2. b \in Seq(TabValues) /\ Len(b) \in Nat
    BY DEF InPlace
  <1>3. PICK at \in [1..Len(b) -> 1..n] :
          /\ \A k \in 1..Len(b) : b[k] = new[at[k]]
          /\ \A k, l \in 1..Len(b) : k < l => at[k] < at[l]
          /\ \A k \in 1..n : k <= Len(b) /\ at[k] = k
    BY Zenon DEF InPlace
  <1>4. Len(b) = n
    <2>1. Len(b) >= n
      <3>1. n > 0 => n \in 1..n
        BY <1>1
      <3> QED
        BY <1>1, <1>2, <1>3, <3>1
    <2>2. ASSUME Len(b) > n PROVE FALSE
      <3>1. n + 1 \in 1..Len(b) /\ at[n + 1] \in 1..n
        BY <1>1, <1>2, <1>3, <2>2
      <3>2. n \in 1..n /\ n \in 1..Len(b) /\ n < n + 1
        BY <1>1, <1>2, <2>2, <3>1
      <3>3. at[n] = n /\ at[n] < at[n + 1]
        BY <1>3, <3>1, <3>2
      <3> QED
        BY <1>1, <3>1, <3>3
    <2> QED
      BY <1>1, <1>2, <2>1, <2>2
  <1>5. \A k \in 1..n : b[k] = new[k]
    BY <1>3, <1>4
  <1> QED
    BY <1>1, <1>2, <1>4, <1>5, SeqEqual

\* What is shown
Views == [showing : TabValues \cup {NoTab}, created : SUBSET TabValues, visible : SUBSET TabValues]

\* The view that is shown, if any, exists, and unless tabs come again, it is the
\* visible one.
GoodView(w) ==
    /\ w \in Views
    /\ w.showing # NoTab => w.showing \in w.created
    /\ "again" \notin env => w.visible = {w.showing} \ {NoTab}

\* After i tabs of the loop: none is shown only if there was none; the tab shown
\* is not added once more.
Seen(w, i, old, new) ==
    /\ GoodView(w)
    /\ w.showing = NoTab => old = {} /\ i = 0
    /\ "again" \notin env /\ ~lazily =>
          \A j \in 1..Len(new) : j > i /\ new[j] \notin old => new[j] # w.showing

LEMMA ShowGood ==
    ASSUME NEW w, GoodView(w), NEW v \in TabValues, NEW u, u = Show(w, v)
    PROVE  GoodView(u) /\ u.showing = v
  <1>1. v # NoTab
    BY TabAssumption
  <1>2. CASE v = w.showing
    BY <1>2 DEF Show
  <1>3. CASE v # w.showing
    <2> DEFINE cr == w.created \cup {v}
               vi == (w.visible \ {w.showing}) \cup {v}
    <2>1. u = [showing |-> v, created |-> cr, visible |-> vi]
      BY <1>3 DEF Show
    <2>2. cr \in SUBSET TabValues /\ vi \in SUBSET TabValues /\ v \in cr
      BY DEF GoodView, Views
    <2>3. "again" \notin env => vi = {v} \ {NoTab}
      BY <1>1 DEF GoodView
    <2> HIDE DEF cr, vi
    <2>4. u \in Views /\ u.showing = v /\ u.created = cr /\ u.visible = vi
      BY <2>1, <2>2 DEF Views
    <2> QED
      BY <2>2, <2>3, <2>4 DEF GoodView
  <1> QED
    BY <1>2, <1>3

\* The view of a new tab, unless lazily
LEMMA NewViewGood ==
    ASSUME NEW w, GoodView(w), NEW v \in TabValues, "again" \notin env => v # w.showing, NEW u,
           u = [w EXCEPT !.created = @ \cup {v}, !.visible = @ \ {v}]
    PROVE  GoodView(u) /\ u.showing = w.showing
  <1> DEFINE cr == w.created \cup {v}
             vi == w.visible \ {v}
  <1>0. w \in Views
    BY DEF GoodView
  <1>1. cr \in SUBSET TabValues /\ vi \in SUBSET TabValues
    BY DEF GoodView, Views
  <1>2. "again" \notin env => vi = {w.showing} \ {NoTab}
    BY DEF GoodView
  <1>3. w.showing # NoTab => w.showing \in cr
    BY DEF GoodView
  <1>4. u = [w EXCEPT !.created = cr, !.visible = vi]
    BY <1>0 DEF Views
  <1> HIDE DEF cr, vi
  <1>5. u \in Views /\ u.showing = w.showing /\ u.created = cr /\ u.visible = vi
    BY <1>0, <1>1, <1>4 DEF Views
  <1> QED
    BY <1>2, <1>3, <1>5 DEF GoodView

LEMMA AddedView ==
    ASSUME NEW new \in TabLists, NEW old, NEW m \in 1..Len(new), new[m] \notin old,
           NEW q, Seen(q.shown, m - 1, old, new), NEW a, a = AddTab(q, new[m], m, new)
    PROVE  a.bar = InsertAt(q.bar, m, new[m]) /\ Seen(a.shown, m, old, new)
  <1> DEFINE v == new[m]
             w == q.shown
             view == IF lazily THEN w ELSE [w EXCEPT !.created = @ \cup {v}, !.visible = @ \ {v}]
             z == IF view.showing = NoTab THEN Show(view, new[1]) ELSE view
             b == InsertAt(q.bar, m, v)
  <1>0. Len(new) \in Nat /\ 1 \in 1..Len(new) /\ m \in Nat /\ m >= 1 /\ m > m - 1
    BY TabListFacts
  <1>1. v \in TabValues /\ new[1] \in TabValues /\ new[1] # NoTab
    BY <1>0, TabListFacts
  <1>2. a = [bar |-> b, shown |-> z]
    BY Zenon DEF AddTab
  <1>3. a.bar = b /\ a.shown = z
    <2> HIDE DEF b, z
    <2> QED
      BY <1>2
  <1>4. GoodView(w) /\ (w.showing = NoTab => old = {} /\ m - 1 = 0)
    BY DEF Seen
  <1>5. "again" \notin env /\ ~lazily => v # w.showing
    BY <1>0 DEF Seen
  <1>6. GoodView(view) /\ view.showing = w.showing
    <2>1. CASE lazily
      <3>1. view = w
        BY <2>1
      <3> QED
        BY <1>4, <3>1
    <2>2. CASE ~lazily
      <3>1. view = [w EXCEPT !.created = @ \cup {v}, !.visible = @ \ {v}]
        BY <2>2
      <3> HIDE DEF view, w, v
      <3> QED
        BY <1>1, <1>4, <1>5, <2>2, <3>1, NewViewGood
    <2> QED
      BY <2>1, <2>2
  <1>7. "again" \notin env /\ ~lazily =>
          \A j \in 1..Len(new) : j > m - 1 /\ new[j] \notin old => new[j] # w.showing
    BY DEF Seen
  <1> HIDE DEF view, w, v
  <1>8. Seen(z, m, old, new)
    <2>1. CASE view.showing = NoTab
      <3>1. z = Show(view, new[1]) /\ m = 1
        BY <1>0, <1>4, <1>6, <2>1
      <3>2. GoodView(z) /\ z.showing = new[1]
        <4> HIDE DEF z
        <4> QED
          BY <1>1, <1>6, <3>1, ShowGood
      <3>3. \A j \in 1..Len(new) : j > m => new[j] # new[1]
        BY <1>0, <3>1, TabListFacts
      <3> HIDE DEF z
      <3> QED
        BY <1>1, <3>2, <3>3 DEF Seen
    <2>2. CASE view.showing # NoTab
      <3>1. z = view
        BY <2>2
      <3>2. "again" \notin env /\ ~lazily =>
              \A j \in 1..Len(new) : j > m /\ new[j] \notin old => new[j] # view.showing
        BY <1>0, <1>6, <1>7
      <3> HIDE DEF z
      <3> QED
        BY <1>6, <2>2, <3>1, <3>2 DEF Seen
    <2> QED
      BY <2>1, <2>2
  <1> QED
    <2> HIDE DEF z, b
    <2>1. a.shown = z
      BY <1>3
    <2>2. a.bar = InsertAt(q.bar, m, new[m])
      BY <1>3 DEF b, v
    <2> QED
      BY <1>8, <2>1, <2>2

\* What the loop starts from: the bar b has the tabs old, and w is shown.
Ready(new, b, old, w) ==
    /\ new \in TabLists /\ b \in TabLists /\ old = ToSet(b)
    /\ \A i, j \in DOMAIN new : \A k, l \in DOMAIN b :
          i < j /\ new[i] = b[k] /\ new[j] = b[l] => k < l
    /\ GoodView(w) /\ (w.showing = NoTab => old = {})
    /\ ~lazily /\ "again" \notin env => ToSet(new) \cap w.created \subseteq old

\* The loop of TabsDidChange: the bar gets the tabs, in their order.
LEMMA TabLoop ==
    ASSUME NEW new, NEW b, NEW old, NEW w, Ready(new, b, old, w),
           NEW r, r = [bar |-> b, shown |-> w],
           NEW g, Adds(g, KeptTabs(r, old, new), old, new, Len(new))
    PROVE  g[Len(new)].bar = new /\ Seen(g[Len(new)].shown, Len(new), old, new)
  <1> DEFINE n == Len(new)
             kept == KeptTabs(r, old, new)
             Loop(q, i) == InPlace(q.bar, i, old, new) /\ Seen(q.shown, i, old, new)
             S == {i \in Nat : i <= n => Loop(g[i], i)}
  <1> USE DEF Ready
  <1>1. n \in Nat /\ DOMAIN new = 1..n
    BY TabListFacts
  <1>2. /\ g[0] = kept
        /\ \A i \in 1..n : g[i] = IF new[i] \in old THEN g[i - 1] ELSE AddTab(g[i - 1], new[i], i, new)
    <2> DEFINE Step(q, i) == IF new[i] \in old THEN q ELSE AddTab(q, new[i], i, new)
    <2>1. g = [i \in 0..n |-> IF i = 0 THEN kept ELSE Step(g[i - 1], i)]
      BY Zenon DEF Adds
    <2> HIDE DEF Step, kept, n
    <2>2. g[0] = kept /\ \A i \in 1..n : g[i] = Step(g[i - 1], i)
      <3>1. 0 \in 0..n /\ \A i \in 1..n : i \in 0..n /\ i # 0
        BY <1>1
      <3> QED
        BY <2>1, <3>1
    <2> QED
      BY <2>2 DEF Step
  <1>3. Loop(g[0], 0)
    <2> DEFINE u == Subsequence(b, {v \in TabValues : v \in old => v \in ToSet(new)})
    <2>1. InPlace(u, 0, old, new)
      <3> HIDE DEF u
      <3>1. u = Subsequence(b, {v \in TabValues : v \in old => v \in ToSet(new)})
        BY DEF u
      <3> QED
        BY <3>1, KeptInPlace, Zenon
    <2>2. kept.bar = u /\ kept.shown = w
      <3>1. kept = [r EXCEPT !.bar = u]
        BY DEF KeptTabs
      <3> HIDE DEF u, kept
      <3> QED
        BY <3>1
    <2>3. ASSUME "again" \notin env, ~lazily, NEW j \in 1..n, new[j] \notin old
          PROVE  new[j] # w.showing
      <3>1. new[j] \in ToSet(new) /\ new[j] # NoTab
        BY <1>1, TabListFacts DEF ToSet
      <3>2. new[j] \notin w.created
        BY <2>3, <3>1
      <3> QED
        BY <3>1, <3>2 DEF GoodView
    <2>4. Seen(w, 0, old, new)
      BY <2>3 DEF Seen
    <2> HIDE DEF u, kept
    <2> QED
      BY <1>2, <2>1, <2>2, <2>4
  <1>4. ASSUME NEW i \in S PROVE i + 1 \in S
    <2>1. i \in Nat /\ (i <= n => Loop(g[i], i))
      OBVIOUS
    <2> SUFFICES ASSUME i + 1 <= n PROVE Loop(g[i + 1], i + 1)
      BY <2>1
    <2> HIDE DEF S
    <2> DEFINE m == i + 1
    <2>2. m \in 1..n /\ m - 1 = i /\ i <= n
      BY <1>1, <2>1
    <2>3. InPlace(g[i].bar, m - 1, old, new) /\ Seen(g[i].shown, m - 1, old, new)
      BY <2>1, <2>2
    <2> HIDE DEF m
    <2>4. CASE new[m] \in old
      <3>1. g[m] = g[i]
        BY <1>2, <2>2, <2>4
      <3>2. InPlace(g[i].bar, m, old, new)
        BY <2>2, <2>3, <2>4, PlaceOld
      <3>3. Seen(g[i].shown, m, old, new)
        <4>1. old # {}
          BY <2>4
        <4>2. \A l \in 1..n : l > m => l > m - 1
          BY <1>1, <2>2
        <4> QED
          BY <2>3, <4>1, <4>2 DEF Seen
      <3>4. Loop(g[m], m)
        BY <3>1, <3>2, <3>3
      <3> QED
        BY <3>4 DEF m
    <2>5. CASE new[m] \notin old
      <3>1. g[m] = AddTab(g[i], new[m], m, new)
        BY <1>2, <2>2, <2>5
      <3>2. g[m].bar = InsertAt(g[i].bar, m, new[m]) /\ Seen(g[m].shown, m, old, new)
        BY <2>2, <2>3, <2>5, <3>1, AddedView
      <3>3. InPlace(g[m].bar, m, old, new)
        BY <2>2, <2>3, <2>5, <3>2, PlaceNew
      <3>4. Loop(g[m], m)
        BY <3>2, <3>3
      <3> QED
        BY <3>4 DEF m
    <2> QED
      BY <2>4, <2>5
  <1>5. S \subseteq Nat /\ 0 \in S
    BY <1>3
  <1>6. S = Nat
    <2> HIDE DEF S
    <2> QED
      BY <1>4, <1>5, Inductive
  <1>7. Loop(g[n], n)
    <2>1. n \in S
      BY <1>1, <1>6
    <2>2. n \in Nat /\ n <= n
      BY <1>1
    <2> QED
      BY <2>1, <2>2
  <1>8. g[n].bar = new
    BY <1>7, AllInPlace
  <1> QED
    BY <1>7, <1>8

\* The tab view: the bar has the buttons of the tabs, or, if they are null, of
\* those before; the view of one tab is shown as soon as there are any.
TabInv ==
    "tabs" \in env =>
        /\ tabs \in TabLists \cup {NoTabs} /\ previousTabs \in TabLists \cup {NoTabs}
        /\ tabBar \in TabLists
        /\ tabs # NoTabs => tabBar = tabs
        /\ tabs = NoTabs => tabBar = IF previousTabs = NoTabs THEN <<>> ELSE previousTabs
        /\ GoodView(Shown)
        /\ tabBar # <<>> => nowShowing # NoTab

LEMMA NoneIsATabList == <<>> \in TabLists
  <1>1. Cardinality(TabValues) \in Nat
    BY TabAssumption, FS_CardinalityType
  <1>2. 0 \in 0..Cardinality(TabValues)
    BY <1>1
  <1>3. <<>> \in [1..0 -> TabValues] /\ DOMAIN <<>> = {}
    OBVIOUS
  <1>4. IsInjective(<<>>)
    BY <1>3 DEF IsInjective
  <1> QED
    BY <1>2, <1>3, <1>4 DEF TabLists

LEMMA ShownFacts ==
    Shown.showing = nowShowing /\ Shown.created = created /\ Shown.visible = visible
  BY DEF Shown

LEMMA InitTabs == ChooserInit => TabInv
  <1> SUFFICES ASSUME ChooserInit PROVE TabInv
    OBVIOUS
  <1>1. /\ tabs = NoTabs /\ previousTabs = NoTabs /\ tabBar = <<>>
        /\ nowShowing = NoTab /\ created = {} /\ visible = {}
    BY DEF ChooserInit, TabInit
  <1>2. Shown \in Views
    BY <1>1 DEF Shown, Views
  <1>3. GoodView(Shown)
    BY <1>1, <1>2, ShownFacts DEF GoodView
  <1> QED
    BY <1>1, <1>3, NoneIsATabList DEF TabInv

\* What is shown next
LEMMA GoodNext ==
    ASSUME NEW w, GoodView(w), env' = env,
           nowShowing' = w.showing, created' = w.created, visible' = w.visible
    PROVE  GoodView(Shown)'
  <1>1. w = [showing |-> w.showing, created |-> w.created, visible |-> w.visible]
    BY DEF GoodView, Views
  <1>2. Shown' = w
    BY <1>1 DEF Shown
  <1> QED
    BY <1>2 DEF GoodView

LEMMA ShowTabInv ==
    ASSUME TabInv, "tabs" \in env, env' = env, NEW v \in TabValues, ShowTab(v)
    PROVE  TabInv'
  <1> DEFINE r == Show(Shown, v)
  <1>1. /\ nowShowing' = r.showing /\ created' = r.created /\ visible' = r.visible
        /\ UNCHANGED <<tabs, tabBar, previousTabs>>
    BY Zenon DEF ShowTab
  <1>2. GoodView(Shown)
    BY DEF TabInv
  <1>3. GoodView(r) /\ r.showing = v
    BY <1>2, ShowGood
  <1> HIDE DEF r
  <1>4. GoodView(Shown)'
    BY <1>1, <1>3, GoodNext
  <1>5. nowShowing' # NoTab
    BY <1>1, <1>3, TabAssumption
  <1> QED
    BY <1>1, <1>4, <1>5 DEF TabInv

LEMMA ChangeTabsInv ==
    ASSUME TabInv, "tabs" \in env, env' = env, NEW new \in TabLists \cup {NoTabs},
           TabsAsExpected(new), ChangeTabs(new)
    PROVE  TabInv'
  <1>1. /\ tabs \in TabLists \cup {NoTabs} /\ previousTabs \in TabLists \cup {NoTabs}
        /\ tabBar \in TabLists /\ GoodView(Shown)
        /\ tabs # NoTabs => tabBar = tabs
        /\ tabs = NoTabs => tabBar = IF previousTabs = NoTabs THEN <<>> ELSE previousTabs
        /\ tabBar # <<>> => nowShowing # NoTab
    BY DEF TabInv
  <1>2. /\ new # tabs /\ tabs' = new
        /\ previousTabs' = IF tabs = NoTabs THEN previousTabs ELSE tabs
    BY DEF ChangeTabs
  <1>3. /\ previousTabs' \in TabLists \cup {NoTabs}
        /\ tabBar = IF previousTabs' = NoTabs THEN <<>> ELSE previousTabs'
    BY <1>1, <1>2
  <1>4. CASE new = NoTabs
    <2>1. UNCHANGED <<tabBar, nowShowing, created, visible>>
      BY <1>4 DEF ChangeTabs
    <2>2. GoodView(Shown)'
      BY <1>1, <2>1, GoodNext, ShownFacts
    <2> QED
      BY <1>1, <1>2, <1>3, <1>4, <2>1, <2>2 DEF TabInv
  <1>5. CASE new # NoTabs
    <2> DEFINE old == OldTabs(previousTabs')
               r == [bar |-> tabBar, shown |-> Shown]
               t == TabsDidChange(r, previousTabs', new)
    <2>1. new \in TabLists /\ Len(new) \in Nat
      BY <1>5, TabListFacts
    <2>2. /\ tabBar' = t.bar
          /\ nowShowing' = t.shown.showing
          /\ created' = t.shown.created /\ visible' = t.shown.visible
      BY <1>5, Zenon DEF ChangeTabs, SetTabView
    <2>3. old = ToSet(tabBar)
      <3>1. ToSet(<<>>) = {}
        BY DEF ToSet
      <3> QED
        BY <1>3, <3>1 DEF OldTabs
    <2>4. PICK g : Adds(g, KeptTabs(r, old, new), old, new, Len(new)) /\ t = g[Len(new)]
      BY <2>1, TabsAdded
    <2>5. \A i, j \in DOMAIN new : \A k, l \in DOMAIN tabBar :
             i < j /\ new[i] = tabBar[k] /\ new[j] = tabBar[l] => k < l
      BY <1>5 DEF TabsAsExpected
    <2>6. ~lazily /\ "again" \notin env => ToSet(new) \cap Shown.created \subseteq old
      BY <1>5, <2>3, ShownFacts DEF TabsAsExpected
    <2>7. Shown.showing = NoTab => old = {}
      <3>1. ToSet(<<>>) = {}
        BY DEF ToSet
      <3> QED
        BY <1>1, <2>3, <3>1, ShownFacts
    <2>8. r = [bar |-> tabBar, shown |-> Shown] /\ GoodView(Shown) /\ tabBar \in TabLists
      BY <1>1
    <2> HIDE DEF old, r, t
    <2>14. Ready(new, tabBar, old, Shown)
      BY <2>1, <2>3, <2>5, <2>6, <2>7, <2>8, Zenon DEF Ready
    <2>9. g[Len(new)].bar = new /\ Seen(g[Len(new)].shown, Len(new), old, new)
      BY <2>4, <2>8, <2>14, TabLoop, Zenon
    <2>10. t.bar = new /\ Seen(t.shown, Len(new), old, new)
      BY <2>4, <2>9
    <2>11. GoodView(t.shown) /\ (t.shown.showing = NoTab => Len(new) = 0)
      BY <2>10 DEF Seen
    <2>12. GoodView(Shown)'
      BY <2>2, <2>11, GoodNext
    <2>13. new # <<>> => Len(new) # 0
      BY <2>1, TabListFacts, EmptySeq
    <2>15. tabBar' = new /\ tabs' = new /\ (new # <<>> => nowShowing' # NoTab)
      BY <1>2, <2>2, <2>10, <2>11, <2>13
    <2> QED
      BY <1>3, <1>5, <2>1, <2>12, <2>15 DEF TabInv
  <1> QED
    BY <1>4, <1>5

LEMMA StepTabs == TabInv /\ [ChooserNext]_chooserVars => TabInv'
  <1> SUFFICES ASSUME TabInv, [ChooserNext]_chooserVars PROVE TabInv'
    OBVIOUS
  <1>0. env' = env
    BY EnvKept
  <1>1. ASSUME UNCHANGED tabVars PROVE TabInv'
    <2>1. UNCHANGED <<tabs, tabBar, previousTabs, nowShowing, created, visible>>
      BY <1>1 DEF tabVars
    <2>2. CASE "tabs" \in env
      <3>1. GoodView(Shown)
        BY <2>2 DEF TabInv
      <3>2. GoodView(Shown)'
        BY <1>0, <2>1, <3>1, GoodNext, ShownFacts
      <3> QED
        BY <1>0, <2>1, <3>2 DEF TabInv
    <2>3. CASE "tabs" \notin env
      BY <1>0, <2>3 DEF TabInv
    <2> QED
      BY <2>2, <2>3
  <1>2. CASE UseTabs
    <2>1. "tabs" \in env
      BY <1>2 DEF UseTabs
    <2>2. CASE \E new \in TabLists \cup {NoTabs} : TabsAsExpected(new) /\ ChangeTabs(new)
      BY <1>0, <2>1, <2>2, ChangeTabsInv
    <2>3. CASE \E v \in TabValues : ShowTab(v)
      BY <1>0, <2>1, <2>3, ShowTabInv
    <2> QED
      BY <1>2, <2>2, <2>3 DEF UseTabs
  <1>3. CASE UseMenu
    BY <1>1, <1>3 DEF UseMenu
  <1>4. CASE UseMulti
    BY <1>1, <1>4 DEF UseMulti
  <1>5. CASE ScrollOn
    BY <1>1, <1>5 DEF ScrollOn
  <1>6. CASE UNCHANGED chooserVars
    BY <1>1, <1>6 DEF chooserVars
  <1> QED
    BY <1>2, <1>3, <1>4, <1>5, <1>6 DEF ChooserNext

-----------------------------------------------------------------------------

\* The scroll arrows of a menu say where more items are, and it scrolls only in
\* the direction of the arrow under the pointer, for any items and any height.
THEOREM ArrowsCorrect == ChooserSpec => []ArrowsTellTheTruth
  BY InitMulti, StepMulti, MultiInvArrows, PTL DEF ChooserSpec

\* A multiselection has a value, each once and in order; the bar has the buttons of
\* the tabs, and the view of the tab that nowShowing names is the visible one, for
\* any items, values and tabs.
THEOREM ShownCorrect == ChooserSpec => []ShownIsChosen
  <1>1. MultiInv /\ TabInv => ShownIsChosen
    <2> SUFFICES ASSUME MultiInv, TabInv PROVE ShownIsChosen
      OBVIOUS
    <2>1. ASSUME "multi" \in env
          PROVE  multi.chosen # <<>> /\ multi.chosen = SortedSeq(ToSet(multi.chosen))
      <3>1. ChosenWell(multi.chosen)
        BY <2>1 DEF MultiInv
      <3> QED
        BY <3>1, ChosenWellFacts
    <2>2. ASSUME "tabs" \in env
          PROVE  /\ tabs # NoTabs => tabBar = tabs
                 /\ tabBar # <<>> => nowShowing # NoTab
                 /\ "again" \notin env => visible = {nowShowing} \ {NoTab}
      BY <2>2, ShownFacts DEF TabInv, GoodView
    <2> QED
      BY <2>1, <2>2 DEF ShownIsChosen
  <1> QED
    BY <1>1, InitMulti, StepMulti, InitTabs, StepTabs, PTL DEF ChooserSpec
=============================================================================
