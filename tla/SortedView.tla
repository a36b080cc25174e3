---------------------------- MODULE SortedView ----------------------------
(***************************************************************************)
(* What utils/sorting_array_proxy.js promises its users: a list that shows *)
(* the members of a collection once each, in the order of their sort keys. *)
(* Members come and go, on either side; an item is moved in the list; the  *)
(* key of an item changes.  How the two arrays, the items' observers and   *)
(* the suppressing of observers achieve this is SortingArrayProxy.tla,     *)
(* which implements this specification.                                    *)
(***************************************************************************)
EXTENDS Integers, Sequences, FiniteSets, Functions

CONSTANTS
    Items,      \* the possible members
    Undefined   \* the key of an item without one

VARIABLES
    members,    \* the collection
    shown,      \* the list
    key         \* each item's sort key

vars == <<members, shown, key>>

-----------------------------------------------------------------------------
InKeyOrder(k, s) == \A i, j \in DOMAIN s : i < j => k[s[i]] <= k[s[j]]

\* s shows the items of S, each once.
Shows(s, S) == Range(s) = S /\ IsInjective(s)

\* Item x comes before item y in s.
Before(s, x, y) == \E i, j \in DOMAIN s : i < j /\ s[i] = x /\ s[j] = y

\* The items of S are in the same order in s and in t.
SameOrder(s, t, S) == \A x, y \in S : Before(s, x, y) <=> Before(t, x, y)

\* The items of S have exchanged their keys; others are untouched.
SameKeysAmong(S) ==
    /\ \A it \in Items \ S : key'[it] = key[it]
    /\ \E f \in Bijection(S, S) : \A it \in S : key'[it] = key[f[it]]

\* The keys follow the list: the ones there were are dealt out again in its
\* order.  (Where a key is missing, one is made up.)
KeysFollowList ==
    /\ InKeyOrder(key', shown')
    /\ Undefined \notin {key[it] : it \in members'} => SameKeysAmong(members')

Init ==
    /\ Shows(shown, members)
    /\ InKeyOrder(key, shown)

\* The collection changes.  Items that go leave the others where they are; new
\* items are put where their keys belong, and do not disturb an ordered list.
ChangeCollection ==
    /\ Shows(shown', members')
    /\ key' = key
    /\ IF members' \subseteq members
       THEN SameOrder(shown, shown', members')
       ELSE /\ InKeyOrder(key, shown')
            /\ InKeyOrder(key, shown) => SameOrder(shown, shown', members \cap members')

\* The list is edited.  New items are put where the editor wants them, and get
\* the keys that belong there.
EditList ==
    /\ Shows(shown', members')
    /\ SameOrder(shown, shown', members \cap members')
    /\ IF members' \subseteq members THEN key' = key ELSE KeysFollowList

\* An item is moved in the list.
MoveItem ==
    /\ members' = members
    /\ Shows(shown', members)
    /\ \E it \in members : SameOrder(shown, shown', members \ {it})
    /\ KeysFollowList

\* Somebody changes an item's key.  The list is put in order, or stays.
ChangeKey ==
    /\ members' = members
    /\ \E it \in Items :
          /\ key' = [key EXCEPT ![it] = key'[it]]
          /\ \/ shown' = shown
             \/ /\ Shows(shown', members)
                /\ InKeyOrder(key', shown')
                /\ InKeyOrder(key, shown) => SameOrder(shown, shown', members \ {it})

Next == ChangeCollection \/ EditList \/ MoveItem \/ ChangeKey

Spec == Init /\ [][Next]_vars
=============================================================================
