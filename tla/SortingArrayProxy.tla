------------------------- MODULE SortingArrayProxy -------------------------
(***************************************************************************)
(* utils/sorting_array_proxy.js: an array proxy whose content is the       *)
(* source array sorted by a key of its items.  Changes of the source, of   *)
(* the content and of the items' keys reach each other through Ember's     *)
(* observers, which run synchronously, so each action is one call of the   *)
(* application with every observer it sets off.  _suppressObservers, true  *)
(* while one of those handlers runs, decides which of them act; it is      *)
(* resolved in each action, and noted there.                               *)
(*                                                                         *)
(* An item keeps the observer function that was attached last under one    *)
(* property; a function attached before it stays attached and can no       *)
(* longer be removed.                                                      *)
(***************************************************************************)
EXTENDS Integers, Sequences, FiniteSets, SequencesExt, Functions

CONSTANTS
    Items,          \* the items of the arrays
    Keys,           \* the sort keys given to items
    Environments,   \* what may happen beyond edits, see env
    MaxAdd          \* most items added by one call

Undefined == -1     \* Ember.compare orders undefined before every number

ASSUME ProxyAssumption ==
    /\ Keys \subseteq Nat
    /\ Environments \subseteq SUBSET {"missingKeys", "setKey", "setSource"}
    /\ MaxAdd \in Nat

VARIABLES
    source,     \* the source array
    content,    \* the sorted array
    key,        \* each item's sort key
    last,       \* item.lastPosition
    stored,     \* the items with an observer attached and kept on the item
    leaked,     \* the items with an attached observer nobody can remove
    env         \* what may happen, one of Environments for good: items that start
                \* without a key, keys set by others, the source being replaced

vars == <<source, content, key, last, stored, leaked, env>>

-----------------------------------------------------------------------------
(* Sorting *)

\* The place of position i in the stable order of the positions P by the numbers v.
Rank(P, v, i) == Cardinality({j \in P : v[j] < v[i] \/ (v[j] = v[i] /\ j <= i)})

\* The positions in that order.
Order(P, v) == [r \in 1..Cardinality(P) |-> CHOOSE i \in P : Rank(P, v, i) = r]

\* The elements of s at the positions P, in the order of the numbers v.
Arrange(s, P, v) == LET o == Order(P, v) IN [r \in DOMAIN o |-> s[o[r]]]

KeysOf(k, s) == [i \in DOMAIN s |-> k[s[i]]]

\* _sort
Sort(k, s) == Arrange(s, DOMAIN s, KeysOf(k, s))

\* The keys _reAssignSortKeys collects: a missing key is that of the previous
\* item, or 0 for the first one.
FilledKeys(k, s) ==
    [i \in DOMAIN s |->
        LET defined == {j \in 1..i : k[s[j]] # Undefined}
        IN  IF defined = {} THEN 0 ELSE k[s[Max(defined)]]]

\* Mutant of ReAssignSortKeys: the items get their positions as keys.
ReAssignPositions(k, s) ==
    [it \in Items |-> IF it \in Range(s) THEN CHOOSE i \in DOMAIN s : s[i] = it ELSE k[it]]

\* _reAssignSortKeys: the keys there are, in the order the items are in.
ReAssignSortKeys(k, s) ==
    LET filled == FilledKeys(k, s)
        keys == Arrange(filled, DOMAIN filled, filled)
    IN  [it \in Items |-> IF it \in Range(s) THEN keys[CHOOSE i \in DOMAIN s : s[i] = it]
                                             ELSE k[it]]

-----------------------------------------------------------------------------
(* Arrays and observers *)

\* array.replace(start, removeCount, added)
Splice(s, start, removeCount, added) ==
    SubSeq(s, 1, start) \o added \o SubSeq(s, start + removeCount + 1, Len(s))

\* array.removeObject for each item of S
RemoveObjects(s, S) ==
    Arrange(s, {i \in DOMAIN s : s[i] \notin S}, [i \in DOMAIN s |-> i])

\* The items array.replace(start, removeCount, ...) takes out.
Removed(s, start, removeCount) == Range(SubSeq(s, start + 1, start + removeCount))

\* Sequences of items not in s, the items a call may add.
NewItems(s) ==
    {t \in UNION {[1..n -> Items \ Range(s)] : n \in 0..MaxAdd} : IsInjective(t)}

\* What an action does to the observers of items: _removeSortIndexObserverFor
\* the items gone, then _addSortIndexObserverAndRegisterForRemoval for the
\* items added, twice or once, which have the keys k by then.
Observe(gone, added, twice, k) ==
    /\ stored' = (stored \ gone) \cup added
    /\ leaked' = leaked \cup (IF twice THEN added ELSE added \cap (stored \ gone))
    /\ last' = [it \in Items |-> IF it \in added THEN k[it] ELSE last[it]]

Init ==
    /\ env \in Environments
    /\ key \in [Items -> IF "missingKeys" \in env THEN Keys \cup {Undefined} ELSE Keys]
    /\ source \in {t \in UNION {[1..n -> Items] : n \in 0..MaxAdd} : IsInjective(t)}
    /\ content = Sort(key, source)
    /\ stored = Range(source)
    /\ leaked = {}
    /\ last = [it \in Items |-> IF it \in Range(source) THEN key[it] ELSE Undefined]

-----------------------------------------------------------------------------
(* Changes of the source *)

\* _sourceArrayWillChange takes the removed items out of the content.  When
\* everything is removed it empties the content at once.
ContentAfterRemoval(start, n) ==
    IF start = 0 /\ n = Len(content)
    THEN <<>>
    ELSE RemoveObjects(content, Removed(source, start, n))

\* The items whose observer _sourceArrayWillChange removes: in a mass change
\* it goes through the content it has just emptied.
UnobservedByRemoval(start, n) ==
    IF start = 0 /\ n = Len(content) THEN {} ELSE Removed(source, start, n)

\* source.replace(start, n, added): _sourceArrayWillChange, the change, and
\* _sourceArrayDidChange, which sorts only if there were additions.
SourceReplace(start, n, added) ==
    LET kept == ContentAfterRemoval(start, n)
    IN  /\ n + Len(added) > 0
        /\ source' = Splice(source, start, n, added)
        /\ content' = IF added = <<>> THEN kept ELSE Sort(key, kept \o added)
        /\ Observe(UnobservedByRemoval(start, n), Range(added), FALSE, key)
        /\ UNCHANGED <<key, env>>

\* proxy.set('source', array).  _sourceWillChange unhooks the old source; then
\* _sourceDidChange replaces the content without suppressing the observers of
\* the content, so these edit the new source (which is not observed yet):
\* what was in the content is removed from it, the sorted copy is pushed to
\* it, and the items are observed twice.
SetSource(array) ==
    LET copy == Sort(key, array)
    IN  /\ "setSource" \in env
        /\ content' = copy
        /\ source' = RemoveObjects(array, Range(content)) \o copy
        /\ key' = IF copy = <<>> THEN key ELSE ReAssignSortKeys(key, copy)
        /\ Observe(Range(source) \cup Range(content), Range(copy), TRUE, key')
        /\ UNCHANGED env

\* Mutant of IndexChanged: as if _suppressObservers had stayed set.
IndexChangedSuppressed(it, k) == FALSE

\* An observer on the item runs _indexChanged and does not ignore the key: it
\* is not equal to lastPosition, and nothing is suppressed.
IndexChanged(it, k) == it \in stored \cup leaked /\ last[it] # k

\* An item's key is changed by somebody else.
SetKey(it, k) ==
    /\ "setKey" \in env
    /\ key[it] # k
    /\ key' = [key EXCEPT ![it] = k]
    /\ content' = IF IndexChanged(it, k) THEN Sort(key', content) ELSE content
    /\ UNCHANGED <<source, last, stored, leaked, env>>

-----------------------------------------------------------------------------
(* Changes of the content, made through the proxy *)

\* What the content's observers do to the source: the items removed from the
\* content are removed from it, the ones added are pushed to its end.
SourceAfterEdit(gone, added) == RemoveObjects(source, gone) \o added

\* proxy.replace(start, n, added): _contentArrayWillChange, the change and
\* _contentArrayDidChange.  Pushing an item to the source calls
\* _sourceArrayDidChange, which is not suppressed and observes it again.
ProxyReplace(start, n, added) ==
    LET gone == Removed(content, start, n)
    IN  /\ n + Len(added) > 0
        /\ content' = Splice(content, start, n, added)
        /\ source' = SourceAfterEdit(gone, added)
        /\ key' = IF added = <<>> THEN key ELSE ReAssignSortKeys(key, content')
        /\ Observe(gone, Range(added), TRUE, key')
        /\ UNCHANGED env

\* startMoving, removeAt, insertAt and endMoving, the calls of one drop.  The
\* observers are suppressed until endMoving has assigned the sort keys.
Move(from, to) ==
    /\ from # to
    /\ content' = InsertAt(RemoveAt(content, from), to, content[from])
    /\ key' = ReAssignSortKeys(key, content')
    /\ UNCHANGED <<source, last, stored, leaked, env>>

Next ==
    \/ \E start, n \in 0..Len(source), added \in NewItems(source) :
          start + n <= Len(source) /\ SourceReplace(start, n, added)
    \/ \E start, n \in 0..Len(content), added \in NewItems(content) :
          start + n <= Len(content) /\ ProxyReplace(start, n, added)
    \/ \E array \in NewItems(<<>>) : SetSource(array)
    \/ \E it \in Items, k \in Keys : SetKey(it, k)
    \/ \E from, to \in DOMAIN content : Move(from, to)

Spec == Init /\ [][Next]_vars

-----------------------------------------------------------------------------
(* Properties *)

\* The keys an item can have: given ones, none, or the 0 of the first item.
AllKeys == Keys \cup {0, Undefined}

\* No sort key is made up, except 0 for a first item without one.
TypeOK ==
    /\ source \in Seq(Items) /\ content \in Seq(Items)
    /\ key \in [Items -> AllKeys] /\ last \in [Items -> AllKeys]
    /\ stored \subseteq Items /\ leaked \subseteq Items

\* The proxy shows exactly the items of the source, each of them once,
\* whichever side is edited and whatever happens to the keys.  (Replacing the
\* source is another matter: its items are pushed to it once more.)  Variables
\* have their types.
SameItems ==
    /\ TypeOK
    /\ "setSource" \notin env =>
          /\ Range(content) = Range(source)
          /\ IsInjective(content) /\ IsInjective(source)

\* The content is in the order of the items' sort keys.  When keys are set by
\* others too, it is out of order only where an item's key is back at
\* lastPosition, the key it had when it was observed: every item of the proxy
\* has an observer that notices all other changes.
Sorted ==
    \A i, j \in DOMAIN content :
        i < j /\ key[content[i]] > key[content[j]]
            => "setKey" \in env /\ \E it \in {content[i], content[j]} : key[it] = last[it]

\* Together: the proxy is a sorted copy of its source.
SortedCopy == SameItems /\ Sorted

\* The abstract view.  (A source that is replaced is left out: see SetSource.)
View == INSTANCE SortedView WITH
    members <- IF "setSource" \in env THEN {} ELSE Range(source),
    shown <- IF "setSource" \in env THEN <<>> ELSE content,
    key <- IF "setSource" \in env THEN [it \in Items |-> Undefined] ELSE key

\* The proxy implements what SortedView.tla promises: whatever is done to the
\* source, the proxy or the keys, the items that stay keep their order, new
\* ones are put where their keys or the editor say, and an edit or a move deals
\* out the sort keys there are instead of making up new ones.
ImplementsSortedView == View!Spec
=============================================================================
