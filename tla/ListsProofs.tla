----------------------------- MODULE ListsProofs -----------------------------
(***************************************************************************)
(* What lists show.  SortingArrayProxy keeps a sorted copy of its source   *)
(* and implements SortedView, for any items and keys and any number of     *)
(* them.  The list and tree views that show such content let the user drag *)
(* its items (ListDrag): views and contents remain the same tree, and the  *)
(* item that was pressed is the one that moves, for any tree and any       *)
(* drops that are valid.                                                   *)
(***************************************************************************)
EXTENDS SortingArrayProxy, ListDrag, FiniteSetTheorems, SequenceTheorems, WellFoundedInduction, TLAPS

-----------------------------------------------------------------------------
(* The order of positions *)

\* Position i comes before position j, or is j.
AtMost(v, i, j) == v[i] < v[j] \/ (v[i] = v[j] /\ i <= j)

\* Every position has a rank, and no two have the same one.
LEMMA RankFacts ==
    ASSUME NEW P, IsFiniteSet(P), P \subseteq Nat, NEW v, \A i \in P : v[i] \in Int
    PROVE  /\ \A i \in P : Rank(P, v, i) \in 1..Cardinality(P)
           /\ \A i, j \in P : i # j /\ AtMost(v, i, j) => Rank(P, v, i) < Rank(P, v, j)
  <1> DEFINE Below(i) == {k \in P : AtMost(v, k, i)}
  <1>1. ASSUME NEW i \in P
        PROVE  /\ IsFiniteSet(Below(i)) /\ Rank(P, v, i) = Cardinality(Below(i))
               /\ Cardinality(Below(i)) \in Nat /\ Cardinality(Below(i)) <= Cardinality(P)
               /\ i \in Below(i)
    <2>1. Below(i) \in SUBSET P /\ i \in Below(i)
      BY DEF AtMost
    <2>2. Rank(P, v, i) = Cardinality(Below(i))
      BY DEF Rank, AtMost
    <2> HIDE DEF Below
    <2> QED
      BY <2>1, <2>2, FS_Subset, FS_CardinalityType
  <1>2. ASSUME NEW i \in P PROVE Rank(P, v, i) \in 1..Cardinality(P)
    <2>1. Cardinality(Below(i)) # 0
      BY <1>1, FS_EmptySet
    <2> HIDE DEF Below
    <2> QED
      BY <1>1, <2>1, FS_CardinalityType
  <1>3. ASSUME NEW i \in P, NEW j \in P, i # j, AtMost(v, i, j)
        PROVE  Rank(P, v, i) < Rank(P, v, j)
    <2>1. Below(i) \in SUBSET Below(j)
      <3> SUFFICES ASSUME NEW k \in P, AtMost(v, k, i) PROVE AtMost(v, k, j)
        OBVIOUS
      <3>1. v[i] \in Int /\ v[j] \in Int /\ v[k] \in Int /\ i \in Nat /\ j \in Nat /\ k \in Nat
        OBVIOUS
      <3> QED
        BY <1>3, <3>1 DEF AtMost
    <2>2. j \notin Below(i)
      BY <1>3 DEF AtMost
    <2>3. j \in Below(j)
      BY <1>1
    <2> HIDE DEF Below
    <2>4. Cardinality(Below(i)) # Cardinality(Below(j)) /\ Cardinality(Below(i)) <= Cardinality(Below(j))
      BY <1>1, <2>1, <2>2, <2>3, FS_Subset
    <2> QED
      BY <1>1, <2>4
  <1> QED
    BY <1>2, <1>3

\* o goes through all the positions once, in the order of v and then of the
\* positions.
InOrder(o, P, v, n) ==
    /\ o \in [1..n -> P]
    /\ \A i \in P : \E r \in 1..n : o[r] = i
    /\ \A r, q \in 1..n : r < q => o[r] # o[q] /\ AtMost(v, o[r], o[q])

\* That is what Order does.
LEMMA OrderFacts ==
    ASSUME NEW P, IsFiniteSet(P), P \subseteq Nat, NEW v, \A i \in P : v[i] \in Int
    PROVE  Cardinality(P) \in Nat /\ InOrder(Order(P, v), P, v, Cardinality(P))
  <1> DEFINE n == Cardinality(P)
             f == [i \in P |-> Rank(P, v, i)]
             o == Order(P, v)
  <1>0. n \in Nat
    BY FS_CardinalityType
  <1>1. /\ \A i \in P : Rank(P, v, i) \in 1..n
        /\ \A i, j \in P : i # j /\ AtMost(v, i, j) => Rank(P, v, i) < Rank(P, v, j)
    BY RankFacts
  <1>2. \A i, j \in P : i # j => AtMost(v, i, j) \/ AtMost(v, j, i)
    BY DEF AtMost
  <1>3. \A i, j \in P : Rank(P, v, i) = Rank(P, v, j) => i = j
    <2> SUFFICES ASSUME NEW i \in P, NEW j \in P, Rank(P, v, i) = Rank(P, v, j), i # j PROVE FALSE
      OBVIOUS
    <2> QED
      BY <1>0, <1>1, <1>2
  <1>4. f \in Injection(P, 1..n)
    BY <1>1, <1>3 DEF Injection, IsInjective
  <1>5. IsFiniteSet(1..n) /\ Cardinality(1..n) = n
    BY <1>0, FS_Interval
  <1>6. f \in Surjection(P, 1..n)
    BY <1>4, <1>5, FS_Injection
  <1>7. \A r \in 1..n : \E i \in P : Rank(P, v, i) = r
    BY <1>6 DEF Surjection
  <1>8. \A r \in 1..n : o[r] \in P /\ Rank(P, v, o[r]) = r
    BY <1>7 DEF Order
  <1>9. o \in [1..n -> P]
    BY <1>8 DEF Order
  <1>10. \A i \in P : Rank(P, v, i) \in 1..n /\ o[Rank(P, v, i)] = i
    BY <1>1, <1>3, <1>8
  <1>11. ASSUME NEW r \in 1..n, NEW q \in 1..n, r < q
         PROVE  o[r] # o[q] /\ AtMost(v, o[r], o[q])
    <2>1. o[r] # o[q]
      BY <1>0, <1>8, <1>11
    <2>2. ~AtMost(v, o[q], o[r])
      <3>1. o[r] \in P /\ o[q] \in P /\ Rank(P, v, o[r]) = r /\ Rank(P, v, o[q]) = q
        BY <1>8
      <3>2. ~(q < r)
        BY <1>0, <1>11
      <3> HIDE DEF o, n
      <3> QED
        BY <1>1, <2>1, <3>1, <3>2
    <2> QED
      BY <1>2, <1>8, <2>1, <2>2
  <1> QED
    BY <1>0, <1>9, <1>10, <1>11 DEF InOrder

\* t has the elements of s at the positions P, in the order of v.
Arranged(t, T, s, P, v) ==
    /\ t \in Seq(T)
    /\ Range(t) = {s[i] : i \in P}
    /\ IsInjective(s) => IsInjective(t)
    /\ \A r, q \in DOMAIN t : r < q =>
          \E i, j \in P : i # j /\ AtMost(v, i, j) /\ t[r] = s[i] /\ t[q] = s[j]
    /\ \A i, j \in P : i # j /\ AtMost(v, i, j) =>
          \E r, q \in DOMAIN t : r < q /\ t[r] = s[i] /\ t[q] = s[j]

\* Arrange takes the elements at the positions P, once each, and in their order.
LEMMA ArrangeFacts ==
    ASSUME NEW T, NEW s \in Seq(T), NEW P, P \subseteq DOMAIN s, NEW v, \A i \in P : v[i] \in Int
    PROVE  Arranged(Arrange(s, P, v), T, s, P, v)
  <1> DEFINE o == Order(P, v)
             n == Cardinality(P)
             t == Arrange(s, P, v)
  <1>0. IsFiniteSet(P) /\ P \subseteq Nat
    <2>1. DOMAIN s = 1..Len(s) /\ Len(s) \in Nat
      OBVIOUS
    <2>2. IsFiniteSet(1..Len(s))
      BY <2>1, FS_Interval
    <2> QED
      BY <2>1, <2>2, FS_Subset
  <1>1. /\ n \in Nat /\ o \in [1..n -> P]
        /\ \A i \in P : \E r \in 1..n : o[r] = i
        /\ \A r, q \in 1..n : r < q => o[r] # o[q] /\ AtMost(v, o[r], o[q])
    BY <1>0, OrderFacts DEF InOrder
  <1> HIDE DEF o, n
  <1>2. t = [r \in 1..n |-> s[o[r]]]
    BY <1>1 DEF Arrange, o
  <1> HIDE DEF t
  <1>3. t \in Seq(T) /\ DOMAIN t = 1..n /\ \A r \in 1..n : o[r] \in P /\ t[r] = s[o[r]]
    <2>1. \A i \in DOMAIN s : s[i] \in T
      OBVIOUS
    <2>2. \A r \in 1..n : o[r] \in P /\ s[o[r]] \in T
      BY <1>1, <2>1
    <2>3. t \in [1..n -> T]
      BY <1>2, <2>2
    <2>4. t \in Seq(T)
      BY <1>1, <2>3, IsASeq
    <2> QED
      BY <1>2, <2>2, <2>3, <2>4
  <1>4. Range(t) = {s[i] : i \in P}
    <2>1. ASSUME NEW i \in P PROVE s[i] \in Range(t)
      <3>1. PICK r \in 1..n : o[r] = i
        BY <1>1
      <3> QED
        BY <1>3, <3>1 DEF Range
    <2>2. ASSUME NEW x \in Range(t) PROVE \E i \in P : x = s[i]
      BY <1>3 DEF Range
    <2> QED
      BY <2>1, <2>2
  <1>5. ASSUME IsInjective(s) PROVE IsInjective(t)
    <2> SUFFICES ASSUME NEW r \in 1..n, NEW q \in 1..n, t[r] = t[q], r # q PROVE FALSE
      BY <1>3 DEF IsInjective
    <2>1. o[r] = o[q]
      BY <1>3, <1>5 DEF IsInjective
    <2>2. r < q \/ q < r
      BY <1>1
    <2> QED
      BY <1>1, <2>1, <2>2
  <1>6. ASSUME NEW r \in DOMAIN t, NEW q \in DOMAIN t, r < q
        PROVE  \E i, j \in P : i # j /\ AtMost(v, i, j) /\ t[r] = s[i] /\ t[q] = s[j]
    BY <1>1, <1>3, <1>6
  <1>7. ASSUME NEW i \in P, NEW j \in P, i # j, AtMost(v, i, j)
        PROVE  \E r, q \in DOMAIN t : r < q /\ t[r] = s[i] /\ t[q] = s[j]
    <2>1. PICK r \in 1..n, q \in 1..n : o[r] = i /\ o[q] = j
      BY <1>1
    <2>2. ~(q < r)
      <3> SUFFICES ASSUME q < r PROVE FALSE
        OBVIOUS
      <3>1. AtMost(v, j, i)
        BY <1>1, <2>1
      <3>2. v[i] \in Int /\ v[j] \in Int /\ i \in Nat /\ j \in Nat
        BY <1>0
      <3> QED
        BY <1>7, <3>1, <3>2 DEF AtMost
    <2>3. r # q
      BY <1>7, <2>1
    <2>4. r < q
      BY <1>1, <2>2, <2>3
    <2> QED
      BY <1>3, <2>1, <2>4
  <1> QED
    BY <1>3, <1>4, <1>5, <1>6, <1>7 DEF t, Arranged

-----------------------------------------------------------------------------
(* The order of items *)

\* In a sequence without repetitions one of two items comes first.
LEMMA BeforeTotal ==
    ASSUME NEW s \in Seq(Items), IsInjective(s), NEW x \in Range(s), NEW y \in Range(s)
    PROVE  /\ x # y => View!Before(s, x, y) \/ View!Before(s, y, x)
           /\ ~(View!Before(s, x, y) /\ View!Before(s, y, x))
           /\ View!Before(s, x, y) => x # y
  <1>1. PICK i \in DOMAIN s, j \in DOMAIN s : s[i] = x /\ s[j] = y
    BY DEF Range
  <1>2. i \in Nat /\ j \in Nat
    OBVIOUS
  <1>3. View!Before(s, x, y) <=> i < j
    BY <1>1 DEF View!Before, IsInjective
  <1>4. View!Before(s, y, x) <=> j < i
    BY <1>1 DEF View!Before, IsInjective
  <1> QED
    BY <1>1, <1>2, <1>3, <1>4

\* Two such sequences that agree one way agree both ways.
LEMMA OrderBothWays ==
    ASSUME NEW s \in Seq(Items), IsInjective(s), NEW t \in Seq(Items), IsInjective(t),
           NEW S, S \subseteq Range(s), S \subseteq Range(t),
           \A x, y \in S : View!Before(s, x, y) => View!Before(t, x, y)
    PROVE  View!SameOrder(s, t, S)
  <1> SUFFICES ASSUME NEW x \in S, NEW y \in S, View!Before(t, x, y) PROVE View!Before(s, x, y)
    BY DEF View!SameOrder
  <1>1. x \in Range(s) /\ y \in Range(s) /\ x \in Range(t) /\ y \in Range(t)
    OBVIOUS
  <1>2. x # y /\ ~View!Before(t, y, x)
    BY <1>1, BeforeTotal
  <1> QED
    BY <1>1, <1>2, BeforeTotal

\* removeObject takes out the items of S and leaves the others in their order.
LEMMA RemoveFacts ==
    ASSUME NEW s \in Seq(Items), NEW S
    PROVE  /\ RemoveObjects(s, S) \in Seq(Items)
           /\ Range(RemoveObjects(s, S)) = Range(s) \ S
           /\ IsInjective(s) => IsInjective(RemoveObjects(s, S))
           /\ \A x, y : x \notin S /\ y \notin S /\ View!Before(s, x, y)
                          => View!Before(RemoveObjects(s, S), x, y)
           /\ \A x, y : View!Before(RemoveObjects(s, S), x, y) => View!Before(s, x, y)
  <1> DEFINE P == {i \in DOMAIN s : s[i] \notin S}
             v == [i \in DOMAIN s |-> i]
             t == Arrange(s, P, v)
  <1>1. P \subseteq DOMAIN s /\ \A i \in P : v[i] \in Int
    OBVIOUS
  <1>2. Arranged(t, Items, s, P, v)
    <2> HIDE DEF P, v
    <2> QED
      BY <1>1, ArrangeFacts
  <1>3. RemoveObjects(s, S) = t
    BY DEF RemoveObjects
  <1>4. \A i, j \in P : i # j /\ AtMost(v, i, j) <=> i < j
    BY DEF AtMost
  <1> HIDE DEF t
  <1>5. Range(t) = Range(s) \ S
    <2>1. ASSUME NEW x \in Range(t) PROVE x \in Range(s) \ S
      <3>1. PICK i \in P : s[i] = x
        BY <1>2 DEF Arranged
      <3> QED
        BY <3>1 DEF Range
    <2>2. ASSUME NEW x \in Range(s) \ S PROVE x \in Range(t)
      <3>1. PICK i \in DOMAIN s : s[i] = x
        BY DEF Range
      <3> QED
        BY <1>2, <3>1 DEF Arranged
    <2> QED
      BY <2>1, <2>2
  <1>6. ASSUME NEW x, NEW y, x \notin S, y \notin S, View!Before(s, x, y)
        PROVE  View!Before(t, x, y)
    <2>1. PICK i \in DOMAIN s, j \in DOMAIN s : i < j /\ s[i] = x /\ s[j] = y
      BY <1>6 DEF View!Before
    <2>2. i \in P /\ j \in P
      BY <1>6, <2>1
    <2>3. \E r, q \in DOMAIN t : r < q /\ t[r] = s[i] /\ t[q] = s[j]
      BY <1>2, <1>4, <2>1, <2>2 DEF Arranged
    <2> QED
      BY <2>1, <2>3 DEF View!Before
  <1>7. ASSUME NEW x, NEW y, View!Before(t, x, y) PROVE View!Before(s, x, y)
    <2>1. PICK r \in DOMAIN t, q \in DOMAIN t : r < q /\ t[r] = x /\ t[q] = y
      BY <1>7 DEF View!Before
    <2>2. PICK i \in P, j \in P : i # j /\ AtMost(v, i, j) /\ t[r] = s[i] /\ t[q] = s[j]
      BY <1>2, <2>1 DEF Arranged
    <2> QED
      BY <1>4, <2>1, <2>2 DEF View!Before
  <1> QED
    BY <1>2, <1>3, <1>5, <1>6, <1>7 DEF Arranged

\* Sorting keeps the items, orders them by their keys, and is stable.
LEMMA SortFacts ==
    ASSUME NEW k \in [Items -> Int], NEW s \in Seq(Items)
    PROVE  /\ Sort(k, s) \in Seq(Items)
           /\ Range(Sort(k, s)) = Range(s)
           /\ IsInjective(s) => IsInjective(Sort(k, s))
           /\ View!InKeyOrder(k, Sort(k, s))
           /\ \A x, y : View!Before(s, x, y) /\ k[x] <= k[y] => View!Before(Sort(k, s), x, y)
  <1> DEFINE P == DOMAIN s
             v == KeysOf(k, s)
             t == Arrange(s, P, v)
  <1>0. \A i \in DOMAIN s : s[i] \in Items /\ v[i] = k[s[i]] /\ v[i] \in Int
    BY DEF KeysOf
  <1>1. P \subseteq DOMAIN s /\ \A i \in P : v[i] \in Int
    BY <1>0
  <1> HIDE DEF v
  <1>2. Arranged(t, Items, s, P, v)
    <2> HIDE DEF P
    <2> QED
      BY <1>1, ArrangeFacts
  <1>3. Sort(k, s) = t
    BY DEF Sort, v
  <1> HIDE DEF t
  <1>4. Range(t) = Range(s)
    BY <1>2 DEF Range, Arranged
  <1>5. View!InKeyOrder(k, t)
    <2> SUFFICES ASSUME NEW r \in DOMAIN t, NEW q \in DOMAIN t, r < q PROVE k[t[r]] <= k[t[q]]
      BY DEF View!InKeyOrder
    <2>1. PICK i \in P, j \in P : AtMost(v, i, j) /\ t[r] = s[i] /\ t[q] = s[j]
      BY <1>2 DEF Arranged
    <2>2. v[i] = k[t[r]] /\ v[j] = k[t[q]] /\ v[i] \in Int /\ v[j] \in Int
      BY <1>0, <2>1
    <2> QED
      BY <2>1, <2>2 DEF AtMost
  <1>6. ASSUME NEW x, NEW y, View!Before(s, x, y), k[x] <= k[y] PROVE View!Before(t, x, y)
    <2>1. PICK i \in P, j \in P : i < j /\ s[i] = x /\ s[j] = y
      BY <1>6 DEF View!Before
    <2>2. v[i] \in Int /\ v[j] \in Int /\ v[i] <= v[j]
      BY <1>0, <1>6, <2>1
    <2>3. i # j /\ AtMost(v, i, j)
      BY <2>1, <2>2 DEF AtMost
    <2>4. \E r, q \in DOMAIN t : r < q /\ t[r] = s[i] /\ t[q] = s[j]
      BY <1>2, <2>3 DEF Arranged
    <2> QED
      BY <2>1, <2>4 DEF View!Before
  <1> QED
    BY <1>2, <1>3, <1>4, <1>5, <1>6 DEF Arranged

\* A sequence without repetitions has as many items as places.
LEMMA RangeSize ==
    ASSUME NEW s \in Seq(Items), IsInjective(s)
    PROVE  IsFiniteSet(Range(s)) /\ Cardinality(Range(s)) = Len(s)
  <1>1. s \in Bijection(1..Len(s), Range(s))
    BY DEF Bijection, Injection, Surjection, IsInjective, Range
  <1>2. IsFiniteSet(1..Len(s)) /\ Cardinality(1..Len(s)) = Len(s)
    <2>1. Len(s) \in Nat
      OBVIOUS
    <2> QED
      BY SMTT(30), <2>1, FS_Interval
  <1> QED
    BY <1>1, <1>2, FS_Bijection DEF ExistsBijection

-----------------------------------------------------------------------------
(* Edits of arrays *)

\* What replace leaves at each place.
LEMMA SplicePlaces ==
    ASSUME NEW s \in Seq(Items), NEW start \in Nat, NEW n \in Nat, start + n <= Len(s),
           NEW added \in Seq(Items)
    PROVE  LET t == Splice(s, start, n, added) IN
           /\ t \in Seq(Items)
           /\ Len(t) = Len(s) - n + Len(added)
           /\ \A i \in 1..start : t[i] = s[i]
           /\ \A i \in 1..Len(added) : t[start + i] = added[i]
           /\ \A i \in (start + n + 1)..Len(s) : t[i - n + Len(added)] = s[i]
  <1> DEFINE a == SubSeq(s, 1, start)
             b == SubSeq(s, start + n + 1, Len(s))
  <1>1. a \in Seq(Items) /\ Len(a) = start /\ \A i \in 1..start : a[i] = s[i]
    OBVIOUS
  <1>2. /\ b \in Seq(Items) /\ Len(b) = Len(s) - start - n
        /\ \A i \in 1..(Len(s) - start - n) : b[i] = s[i + start + n]
    OBVIOUS
  <1> HIDE DEF a, b
  <1>3. Splice(s, start, n, added) = (a \o added) \o b
    BY DEF Splice, a, b
  <1>4. /\ a \o added \in Seq(Items) /\ Len(a \o added) = start + Len(added)
        /\ \A i \in 1..start : (a \o added)[i] = s[i]
        /\ \A i \in 1..Len(added) : (a \o added)[start + i] = added[i]
    BY SMTT(30), <1>1
  <1> DEFINE c == a \o added
             t == c \o b
  <1> HIDE DEF c
  <1>5. /\ t \in Seq(Items) /\ Len(t) = start + Len(added) + Len(b)
        /\ \A i \in 1..(start + Len(added)) : t[i] = c[i]
        /\ \A i \in 1..Len(b) : t[start + Len(added) + i] = b[i]
    <2>1. c \in Seq(Items) /\ Len(c) = start + Len(added) /\ b \in Seq(Items)
      BY <1>2, <1>4 DEF c
    <2>2. t \in Seq(Items) /\ Len(t) = Len(c) + Len(b)
      BY <2>1, ConcatProperties
    <2>3. \A i \in 1..Len(c) : t[i] = c[i]
      BY <2>1
    <2>4. \A i \in 1..Len(b) : t[Len(c) + i] = b[i]
      BY SMTT(30), <2>1
    <2> QED
      BY <2>1, <2>2, <2>3, <2>4
  <1> HIDE DEF t
  <1>6. ASSUME NEW i \in (start + n + 1)..Len(s) PROVE t[i - n + Len(added)] = s[i]
    <2>1. i - start - n \in 1..Len(b) /\ i - start - n + start + n = i
      BY <1>2
    <2>2. t[start + Len(added) + (i - start - n)] = b[i - start - n]
      BY <1>5, <2>1
    <2>3. start + Len(added) + (i - start - n) = i - n + Len(added)
      BY <1>1
    <2> QED
      BY <1>2, <2>1, <2>2, <2>3
  <1>7. ASSUME NEW i \in 1..start PROVE t[i] = s[i]
    <2>1. i \in 1..(start + Len(added)) /\ c[i] = s[i]
      BY SMTT(20), <1>4 DEF c
    <2> QED
      BY <1>5, <2>1
  <1>8. \A i \in 1..Len(added) : t[start + i] = added[i]
    BY SMTT(40), <1>4, <1>5 DEF c
  <1>9. Len(t) = Len(s) - n + Len(added)
    BY <1>2, <1>5
  <1> QED
    BY <1>3, <1>5, <1>6, <1>7, <1>8, <1>9 DEF t, c

\* The places replace takes out.
LEMMA RemovedPlaces ==
    ASSUME NEW s \in Seq(Items), NEW start \in Nat, NEW n \in Nat, start + n <= Len(s)
    PROVE  Removed(s, start, n) = {s[i] : i \in (start + 1)..(start + n)}
  <1> DEFINE u == SubSeq(s, start + 1, start + n)
  <1>1. u \in Seq(Items) /\ DOMAIN u = 1..n /\ \A i \in 1..n : u[i] = s[start + i]
    OBVIOUS
  <1> HIDE DEF u
  <1>2. ASSUME NEW x \in Range(u) PROVE \E i \in (start + 1)..(start + n) : x = s[i]
    <2>1. PICK i \in 1..n : u[i] = x
      BY <1>1 DEF Range
    <2>2. start + i \in (start + 1)..(start + n)
      OBVIOUS
    <2> QED
      BY <1>1, <2>1, <2>2
  <1>3. ASSUME NEW i \in (start + 1)..(start + n) PROVE s[i] \in Range(u)
    <2>1. i - start \in 1..n /\ start + (i - start) = i
      OBVIOUS
    <2> QED
      BY <1>1, <2>1 DEF Range
  <1> QED
    BY <1>2, <1>3 DEF Removed, u

\* Every place of the result is one of the three.
LEMMA SplicePlace ==
    ASSUME NEW s \in Seq(Items), NEW start \in Nat, NEW n \in Nat, start + n <= Len(s),
           NEW added \in Seq(Items), NEW m \in DOMAIN Splice(s, start, n, added)
    PROVE  \/ /\ m \in 1..start
              /\ Splice(s, start, n, added)[m] = s[m]
           \/ /\ m - start \in 1..Len(added)
              /\ Splice(s, start, n, added)[m] = added[m - start]
           \/ /\ m + n - Len(added) \in (start + n + 1)..Len(s)
              /\ Splice(s, start, n, added)[m] = s[m + n - Len(added)]
  <1> DEFINE t == Splice(s, start, n, added)
  <1>1. /\ t \in Seq(Items)
        /\ Len(t) = Len(s) - n + Len(added)
        /\ \A i \in 1..start : t[i] = s[i]
        /\ \A i \in 1..Len(added) : t[start + i] = added[i]
        /\ \A i \in (start + n + 1)..Len(s) : t[i - n + Len(added)] = s[i]
    BY SplicePlaces
  <1> HIDE DEF t
  <1>2. m \in 1..(Len(s) - n + Len(added)) /\ Len(s) \in Nat /\ Len(added) \in Nat
    BY <1>1 DEF t
  <1>3. CASE m <= start
    BY <1>1, <1>2, <1>3 DEF t
  <1>4. CASE m > start /\ m <= start + Len(added)
    <2>1. m - start \in 1..Len(added) /\ start + (m - start) = m
      BY <1>2, <1>4
    <2> QED
      BY <1>1, <2>1 DEF t
  <1>5. CASE m > start + Len(added)
    <2>1. m + n - Len(added) \in (start + n + 1)..Len(s) /\ (m + n - Len(added)) - n + Len(added) = m
      BY <1>2, <1>5
    <2> QED
      BY <1>1, <2>1 DEF t
  <1> QED
    BY <1>2, <1>3, <1>4, <1>5

\* replace takes the removed items out, puts the added ones in and leaves the
\* others in their order.
LEMMA SpliceFacts ==
    ASSUME NEW s \in Seq(Items), NEW start \in Nat, NEW n \in Nat, start + n <= Len(s),
           NEW added \in Seq(Items)
    PROVE  LET t == Splice(s, start, n, added)
               gone == Removed(s, start, n)
           IN  /\ t \in Seq(Items)
               /\ Range(t) \subseteq Range(s) \cup Range(added)
               /\ (Range(s) \ gone) \cup Range(added) \subseteq Range(t)
               /\ gone \subseteq Range(s)
               /\ IsInjective(s) => Range(t) = (Range(s) \ gone) \cup Range(added)
               /\ IsInjective(s) /\ IsInjective(added) /\ Range(added) \cap Range(s) = {}
                     => IsInjective(t)
               /\ \A x, y : x \notin gone /\ y \notin gone /\ View!Before(s, x, y)
                              => View!Before(t, x, y)
  <1> DEFINE t == Splice(s, start, n, added)
             gone == Removed(s, start, n)
             l == Len(added)
  <1>1. /\ t \in Seq(Items)
        /\ Len(t) = Len(s) - n + l
        /\ \A i \in 1..start : t[i] = s[i]
        /\ \A i \in 1..l : t[start + i] = added[i]
        /\ \A i \in (start + n + 1)..Len(s) : t[i - n + l] = s[i]
    BY SplicePlaces
  <1>2. \A m \in DOMAIN t :
           \/ m \in 1..start /\ t[m] = s[m]
           \/ m - start \in 1..l /\ t[m] = added[m - start]
           \/ m + n - l \in (start + n + 1)..Len(s) /\ t[m] = s[m + n - l]
    BY SplicePlace
  <1>3. gone = {s[i] : i \in (start + 1)..(start + n)}
    BY RemovedPlaces
  <1>4. Len(s) \in Nat /\ l \in Nat /\ DOMAIN s = 1..Len(s) /\ DOMAIN added = 1..l /\ DOMAIN t = 1..Len(t)
    BY <1>1
  <1> HIDE DEF t, gone, l
  <1>5. \A i \in 1..start : i \in DOMAIN s /\ i \in DOMAIN t
    BY <1>1, <1>4
  <1>6. \A i \in 1..l : start + i \in DOMAIN t
    BY <1>1, <1>4
  <1>7. \A i \in (start + n + 1)..Len(s) : i \in DOMAIN s /\ i - n + l \in DOMAIN t
    BY <1>1, <1>4
  <1>8. Range(t) \subseteq Range(s) \cup Range(added)
    <2> SUFFICES ASSUME NEW m \in DOMAIN t PROVE t[m] \in Range(s) \cup Range(added)
      BY DEF Range
    <2> QED
      BY <1>2, <1>4, <1>5, <1>7 DEF Range
  <1>9. ASSUME NEW i \in DOMAIN s, s[i] \notin gone
        PROVE  i \in 1..start \/ i \in (start + n + 1)..Len(s)
    <2>1. i \notin (start + 1)..(start + n)
      BY <1>3, <1>9
    <2> QED
      BY <1>4, <2>1
  <1>10. Range(s) \ gone \subseteq Range(t)
    <2> SUFFICES ASSUME NEW i \in DOMAIN s, s[i] \notin gone PROVE s[i] \in Range(t)
      BY DEF Range
    <2>1. CASE i \in 1..start
      BY <1>1, <1>5, <2>1 DEF Range
    <2>2. CASE i \in (start + n + 1)..Len(s)
      BY <1>1, <1>7, <2>2 DEF Range
    <2> QED
      BY <1>9, <2>1, <2>2
  <1>11. Range(added) \subseteq Range(t)
    <2> SUFFICES ASSUME NEW i \in 1..l PROVE added[i] \in Range(t)
      BY <1>4 DEF Range
    <2> QED
      BY <1>1, <1>6 DEF Range
  <1>12. gone \subseteq Range(s)
    <2>1. \A i \in (start + 1)..(start + n) : i \in DOMAIN s
      BY <1>4
    <2> QED
      BY <1>3, <2>1 DEF Range
  <1>13. ASSUME IsInjective(s) PROVE Range(t) \subseteq (Range(s) \ gone) \cup Range(added)
    <2> SUFFICES ASSUME NEW m \in DOMAIN t PROVE t[m] \in (Range(s) \ gone) \cup Range(added)
      BY DEF Range
    <2>1. ASSUME NEW i \in DOMAIN s, i \notin (start + 1)..(start + n) PROVE s[i] \in Range(s) \ gone
      <3>1. \A j \in (start + 1)..(start + n) : j \in DOMAIN s /\ j # i
        BY <1>4, <2>1
      <3>2. s[i] \notin gone
        BY <1>3, <1>13, <3>1 DEF IsInjective
      <3> QED
        BY <3>2 DEF Range
    <2>2. CASE m \in 1..start /\ t[m] = s[m]
      <3>1. m \in DOMAIN s /\ m \notin (start + 1)..(start + n)
        BY <1>5, <2>2
      <3> QED
        BY <2>1, <2>2, <3>1
    <2>3. CASE m - start \in 1..l /\ t[m] = added[m - start]
      BY <1>4, <2>3 DEF Range
    <2>4. CASE m + n - l \in (start + n + 1)..Len(s) /\ t[m] = s[m + n - l]
      <3>1. m + n - l \in DOMAIN s /\ m + n - l \notin (start + 1)..(start + n)
        BY <1>7, <2>4
      <3> QED
        BY <2>1, <2>4, <3>1
    <2> QED
      BY <1>2, <2>2, <2>3, <2>4
  <1>14. ASSUME IsInjective(s), IsInjective(added), Range(added) \cap Range(s) = {}
         PROVE  IsInjective(t)
    <2> SUFFICES ASSUME NEW m \in DOMAIN t, NEW p \in DOMAIN t, t[m] = t[p] PROVE m = p
      BY DEF IsInjective
    <2>1. m \in Nat /\ p \in Nat
      BY <1>4
    <2>2. \A i \in DOMAIN s, j \in DOMAIN added : s[i] # added[j]
      BY <1>14 DEF Range
    <2>3. \A i, j \in DOMAIN s : s[i] = s[j] => i = j
      BY <1>14 DEF IsInjective
    <2>4. \A i, j \in DOMAIN added : added[i] = added[j] => i = j
      BY <1>14 DEF IsInjective
    <2> DEFINE FromOld(h) == \E i \in DOMAIN s :
                 t[h] = s[i] /\ (i <= start => h = i) /\ (~(i <= start) => h = i - n + l)
               FromNew(h) == \E i \in DOMAIN added : t[h] = added[i] /\ h = start + i
    <2>5. ASSUME NEW h \in DOMAIN t PROVE FromOld(h) \/ FromNew(h)
      <3>1. h \in Nat
        BY <1>4
      <3>2. CASE h \in 1..start /\ t[h] = s[h]
        BY <1>5, <3>2
      <3>3. CASE h - start \in 1..l /\ t[h] = added[h - start]
        <4>1. h = start + (h - start) /\ h - start \in DOMAIN added
          BY <1>4, <3>1, <3>3
        <4> QED
          BY <3>3, <4>1
      <3>4. CASE h + n - l \in (start + n + 1)..Len(s) /\ t[h] = s[h + n - l]
        <4>1. h = (h + n - l) - n + l /\ ~(h + n - l <= start) /\ h + n - l \in DOMAIN s
          BY SMTT(30), <1>4, <1>7, <3>1, <3>4
        <4> QED
          BY <3>4, <4>1
      <3> QED
        BY <1>2, <3>2, <3>3, <3>4
    <2>6. CASE FromOld(m) /\ FromOld(p)
      <3>1. PICK i \in DOMAIN s : t[m] = s[i] /\ (i <= start => m = i) /\ (~(i <= start) => m = i - n + l)
        BY <2>6
      <3>2. PICK j \in DOMAIN s : t[p] = s[j] /\ (j <= start => p = j) /\ (~(j <= start) => p = j - n + l)
        BY <2>6
      <3>3. i = j
        BY <2>3, <3>1, <3>2
      <3> QED
        BY <3>1, <3>2, <3>3
    <2>7. CASE FromNew(m) /\ FromNew(p)
      BY <2>4, <2>7
    <2>8. CASE (FromOld(m) /\ FromNew(p)) \/ (FromNew(m) /\ FromOld(p))
      BY <2>2, <2>8
    <2> QED
      BY <2>5, <2>6, <2>7, <2>8
  <1>15. ASSUME NEW x, NEW y, x \notin gone, y \notin gone, View!Before(s, x, y)
         PROVE  View!Before(t, x, y)
    <2>1. PICK i \in DOMAIN s, j \in DOMAIN s : i < j /\ s[i] = x /\ s[j] = y
      BY <1>15 DEF View!Before
    <2> DEFINE at(h) == IF h \in 1..start THEN h ELSE h - n + l
    <2>2. ASSUME NEW h \in DOMAIN s, s[h] \notin gone PROVE at(h) \in DOMAIN t /\ t[at(h)] = s[h]
      BY <1>1, <1>5, <1>7, <1>9, <2>2
    <2>3. at(i) < at(j)
      <3>1. (i \in 1..start \/ i \in (start + n + 1)..Len(s)) /\ (j \in 1..start \/ j \in (start + n + 1)..Len(s))
        BY <1>9, <1>15, <2>1
      <3> QED
        BY <1>4, <2>1, <3>1
    <2>4. at(i) \in DOMAIN t /\ t[at(i)] = x /\ at(j) \in DOMAIN t /\ t[at(j)] = y
      BY <1>15, <2>1, <2>2
    <2> HIDE DEF at
    <2> QED
      BY <2>3, <2>4 DEF View!Before
  <1> QED
    BY <1>1, <1>8, <1>10, <1>11, <1>12, <1>13, <1>14, <1>15 DEF t, gone

\* The same for items put at the end.
LEMMA AppendFacts ==
    ASSUME NEW s \in Seq(Items), NEW added \in Seq(Items)
    PROVE  /\ s \o added \in Seq(Items)
           /\ Range(s \o added) = Range(s) \cup Range(added)
           /\ IsInjective(s) /\ IsInjective(added) /\ Range(added) \cap Range(s) = {}
                 => IsInjective(s \o added)
           /\ \A x, y : View!Before(s, x, y) => View!Before(s \o added, x, y)
  <1> DEFINE t == s \o added
  <1>1. /\ t \in Seq(Items) /\ Len(t) = Len(s) + Len(added)
        /\ \A i \in 1..Len(s) : t[i] = s[i]
        /\ \A i \in 1..Len(added) : t[Len(s) + i] = added[i]
    BY ConcatProperties
  <1>2. /\ Len(s) \in Nat /\ Len(added) \in Nat
        /\ DOMAIN s = 1..Len(s) /\ DOMAIN added = 1..Len(added) /\ DOMAIN t = 1..Len(t)
    BY <1>1
  <1> HIDE DEF t
  <1>3. ASSUME NEW m \in DOMAIN t
        PROVE  \/ m \in DOMAIN s /\ t[m] = s[m]
               \/ m - Len(s) \in DOMAIN added /\ t[m] = added[m - Len(s)]
    <2>1. m \in 1..Len(s) \/ (m - Len(s) \in 1..Len(added) /\ Len(s) + (m - Len(s)) = m)
      BY <1>1, <1>2
    <2> QED
      BY <1>1, <1>2, <2>1
  <1>4. \A i \in DOMAIN s : i \in DOMAIN t /\ t[i] = s[i]
    BY <1>1, <1>2
  <1>5. \A i \in DOMAIN added : Len(s) + i \in DOMAIN t /\ t[Len(s) + i] = added[i]
    BY <1>1, <1>2
  <1>6. Range(t) = Range(s) \cup Range(added)
    <2>1. Range(t) \subseteq Range(s) \cup Range(added)
      BY <1>3 DEF Range
    <2>2. Range(s) \cup Range(added) \subseteq Range(t)
      BY <1>4, <1>5 DEF Range
    <2> QED
      BY <2>1, <2>2
  <1>7. ASSUME IsInjective(s), IsInjective(added), Range(added) \cap Range(s) = {}
        PROVE  IsInjective(t)
    <2> SUFFICES ASSUME NEW m \in DOMAIN t, NEW p \in DOMAIN t, t[m] = t[p] PROVE m = p
      BY DEF IsInjective
    <2>1. m \in Nat /\ p \in Nat
      BY <1>2
    <2>2. \A i \in DOMAIN s, j \in DOMAIN added : s[i] # added[j]
      BY <1>7 DEF Range
    <2> QED
      BY <1>2, <1>3, <1>7, <2>1, <2>2 DEF IsInjective
  <1>8. ASSUME NEW x, NEW y, View!Before(s, x, y) PROVE View!Before(t, x, y)
    BY <1>4, <1>8 DEF View!Before
  <1> QED
    BY <1>1, <1>6, <1>7, <1>8 DEF t

-----------------------------------------------------------------------------
(* Sort keys *)

\* A set of natural numbers has a smallest one.
LEMMA Smallest ==
    ASSUME NEW T, T \subseteq Nat, T # {}
    PROVE  \E m \in T : \A x \in T : m <= x
  <1> DEFINE R == OpToRel(<, Nat)
  <1>1. IsWellFoundedOn(R, Nat)
    BY NatLessThanWellFounded
  <1>2. \A a, b \in Nat : a < b => <<a, b>> \in R
    BY DEF OpToRel
  <1> HIDE DEF R
  <1>3. PICK m \in T : \A x \in T : ~(<<x, m>> \in R)
    BY <1>1, WFMin
  <1>4. ASSUME NEW x \in T PROVE m <= x
    <2>1. m \in Nat /\ x \in Nat
      OBVIOUS
    <2>2. ~(x < m)
      BY <1>2, <1>3, <2>1
    <2> QED
      BY <2>1, <2>2
  <1> QED
    BY <1>4

\* A set of numbers up to n has a largest one.
LEMMA Largest ==
    ASSUME NEW n \in Nat, NEW S, S \subseteq 1..n, S # {}
    PROVE  Max(S) \in S /\ \A x \in S : Max(S) >= x
  <1> DEFINE T == {d \in Nat : \E x \in S : d = n - x}
  <1>1. \A x \in S : x \in Nat /\ n - x \in T
    OBVIOUS
  <1>2. T \subseteq Nat /\ T # {}
    BY <1>1
  <1>3. PICK d \in T : \A e \in T : d <= e
    <2> HIDE DEF T
    <2> QED
      BY <1>2, Smallest
  <1>4. PICK m \in S : d = n - m
    OBVIOUS
  <1>5. ASSUME NEW x \in S PROVE m >= x
    BY <1>1, <1>3, <1>4
  <1> QED
    BY <1>5 DEF Max

\* The keys that _reAssignSortKeys collects are keys, and those of the items if
\* they have one.
LEMMA FilledFacts ==
    ASSUME NEW k \in [Items -> AllKeys], NEW s \in Seq(Items)
    PROVE  /\ FilledKeys(k, s) \in [DOMAIN s -> AllKeys]
           /\ Undefined \notin {k[it] : it \in Range(s)} =>
                \A i \in DOMAIN s : FilledKeys(k, s)[i] = k[s[i]]
  <1> DEFINE defined(i) == {j \in 1..i : k[s[j]] # Undefined}
             filled(i) == IF defined(i) = {} THEN 0 ELSE k[s[Max(defined(i))]]
  <1>0. /\ FilledKeys(k, s) = [i \in DOMAIN s |-> filled(i)]
        /\ \A i \in DOMAIN s : i \in Nat /\ i >= 1 /\ s[i] \in Items /\ \A j \in 1..i : j \in DOMAIN s
    BY DEF FilledKeys
  <1>1. ASSUME NEW i \in DOMAIN s PROVE filled(i) \in AllKeys
    <2>1. CASE defined(i) = {}
      BY <2>1 DEF AllKeys
    <2>2. CASE defined(i) # {}
      <3>1. defined(i) \subseteq 1..i /\ i \in Nat
        BY <1>0
      <3>2. Max(defined(i)) \in defined(i)
        <4> HIDE DEF defined
        <4> QED
          BY <2>2, <3>1, Largest
      <3>3. Max(defined(i)) \in DOMAIN s
        BY <1>0, <3>2
      <3> HIDE DEF defined
      <3> QED
        BY <1>0, <2>2, <3>3
    <2> QED
      BY <2>1, <2>2
  <1>2. ASSUME Undefined \notin {k[it] : it \in Range(s)}, NEW i \in DOMAIN s
        PROVE  filled(i) = k[s[i]]
    <2>1. \A j \in DOMAIN s : k[s[j]] # Undefined
      BY <1>2 DEF Range
    <2>2. defined(i) = 1..i
      BY <1>0, <2>1
    <2>3. Max(1..i) = i /\ 1..i # {}
      BY <1>0 DEF Max
    <2> QED
      BY <2>2, <2>3
  <1> HIDE DEF filled
  <1> QED
    BY <1>0, <1>1, <1>2

\* The place of an item.
Place(s, it) == CHOOSE i \in DOMAIN s : s[i] = it

\* Each item is at its place.
LEMMA PlaceFacts ==
    ASSUME NEW s \in Seq(Items), IsInjective(s)
    PROVE  /\ \A it \in Range(s) : Place(s, it) \in DOMAIN s /\ s[Place(s, it)] = it
           /\ \A i \in DOMAIN s : Place(s, s[i]) = i
  BY DEF Place, Range, IsInjective

\* _reAssignSortKeys gives the items the keys there are, in the order of the items.
LEMMA ReAssignFacts ==
    ASSUME NEW k \in [Items -> AllKeys], NEW s \in Seq(Items), IsInjective(s)
    PROVE  LET dealt == ReAssignSortKeys(k, s)
           IN  /\ dealt \in [Items -> AllKeys]
               /\ View!InKeyOrder(dealt, s)
               /\ \A it \in Items \ Range(s) : dealt[it] = k[it]
               /\ Undefined \notin {k[it] : it \in Range(s)} =>
                    \E f \in Bijection(Range(s), Range(s)) :
                        \A it \in Range(s) : dealt[it] = k[f[it]]
  <1> DEFINE filled == FilledKeys(k, s)
             P == DOMAIN filled
             o == Order(P, filled)
             n == Len(s)
             keys == Arrange(filled, P, filled)
             dealt == ReAssignSortKeys(k, s)
  <1>1. filled \in [DOMAIN s -> AllKeys] /\ AllKeys \subseteq Int
    BY FilledFacts, ProxyAssumption DEF AllKeys, Undefined
  <1>2. P = 1..n /\ DOMAIN s = 1..n /\ n \in Nat
    BY <1>1
  <1>3. IsFiniteSet(P) /\ Cardinality(P) = n /\ P \subseteq Nat /\ \A i \in P : filled[i] \in Int
    <2>1. IsFiniteSet(1..n) /\ Cardinality(1..n) = n
      <3> HIDE DEF n
      <3> QED
        BY <1>2, FS_Interval
    <2>2. 1..n \subseteq Nat /\ \A i \in 1..n : filled[i] \in Int
      <3> HIDE DEF filled, n, P
      <3>1. \A i \in DOMAIN s : filled[i] \in Int
        BY <1>1
      <3>2. 1..n \subseteq Nat
        BY <1>2
      <3> QED
        BY <1>2, <3>1, <3>2
    <2> HIDE DEF P, filled, n
    <2> QED
      BY <1>2, <2>1, <2>2
  <1>4. InOrder(o, P, filled, n)
    <2> HIDE DEF P, filled, n
    <2> QED
      BY <1>3, OrderFacts
  <1>5. keys = [r \in 1..n |-> filled[o[r]]]
    BY <1>4 DEF Arrange, InOrder
  <1>6. dealt = [it \in Items |-> IF it \in Range(s) THEN keys[Place(s, it)] ELSE k[it]]
    BY DEF ReAssignSortKeys, Place
  <1> HIDE DEF filled, o, keys, dealt, P, n
  <1>7. \A i \in 1..n : o[i] \in 1..n /\ keys[i] = filled[o[i]] /\ keys[i] \in AllKeys
    BY <1>1, <1>2, <1>4, <1>5 DEF InOrder
  <1>8. \A it \in Range(s) : Place(s, it) \in 1..n /\ s[Place(s, it)] = it
    BY <1>2, PlaceFacts
  <1>9. dealt \in [Items -> AllKeys]
    BY <1>6, <1>7, <1>8
  <1>10. \A i \in DOMAIN s : s[i] \in Range(s) /\ s[i] \in Items /\ dealt[s[i]] = keys[i]
    <2> SUFFICES ASSUME NEW i \in DOMAIN s PROVE s[i] \in Range(s) /\ s[i] \in Items /\ dealt[s[i]] = keys[i]
      OBVIOUS
    <2>1. s[i] \in Range(s) /\ s[i] \in Items /\ Place(s, s[i]) = i
      BY PlaceFacts DEF Range
    <2> QED
      BY <1>6, <2>1
  <1>11. View!InKeyOrder(dealt, s)
    <2> SUFFICES ASSUME NEW i \in DOMAIN s, NEW j \in DOMAIN s, i < j
                 PROVE  dealt[s[i]] <= dealt[s[j]]
      BY DEF View!InKeyOrder
    <2>1. AtMost(filled, o[i], o[j])
      BY <1>2, <1>4 DEF InOrder
    <2>2. keys[i] = filled[o[i]] /\ keys[j] = filled[o[j]] /\ keys[i] \in Int /\ keys[j] \in Int
      BY <1>1, <1>2, <1>7
    <2> QED
      BY <1>10, <2>1, <2>2 DEF AtMost
  <1>12. \A it \in Items \ Range(s) : dealt[it] = k[it]
    BY <1>6
  <1>13. ASSUME Undefined \notin {k[it] : it \in Range(s)}
         PROVE  \E f \in Bijection(Range(s), Range(s)) :
                    \A it \in Range(s) : dealt[it] = k[f[it]]
    <2>1. \A i \in DOMAIN s : filled[i] = k[s[i]]
      BY <1>13, FilledFacts DEF filled
    <2> DEFINE f == [it \in Range(s) |-> s[o[Place(s, it)]]]
    <2>2. ASSUME NEW it \in Range(s) PROVE f[it] \in Range(s) /\ dealt[it] = k[f[it]]
      <3>1. Place(s, it) \in DOMAIN s /\ o[Place(s, it)] \in DOMAIN s /\ s[Place(s, it)] = it
        BY <1>2, <1>7, <1>8
      <3>2. dealt[it] = keys[Place(s, it)] /\ keys[Place(s, it)] = filled[o[Place(s, it)]]
        BY <1>2, <1>7, <1>10, <3>1
      <3> QED
        BY <2>1, <3>1, <3>2 DEF Range
    <2>3. ASSUME NEW x \in Range(s), NEW y \in Range(s), f[x] = f[y] PROVE x = y
      <3>1. /\ Place(s, x) \in 1..n /\ Place(s, y) \in 1..n
            /\ s[Place(s, x)] = x /\ s[Place(s, y)] = y
            /\ o[Place(s, x)] \in DOMAIN s /\ o[Place(s, y)] \in DOMAIN s
        BY <1>2, <1>7, <1>8
      <3>2. o[Place(s, x)] = o[Place(s, y)]
        BY <2>3, <3>1 DEF IsInjective
      <3>3. ~(Place(s, x) < Place(s, y)) /\ ~(Place(s, y) < Place(s, x))
        BY <1>4, <3>1, <3>2 DEF InOrder
      <3>4. Place(s, x) = Place(s, y)
        BY <1>2, <3>1, <3>3
      <3> QED
        BY <3>1, <3>4
    <2>4. ASSUME NEW y \in Range(s) PROVE \E x \in Range(s) : f[x] = y
      <3>1. Place(s, y) \in 1..n /\ s[Place(s, y)] = y
        BY <1>8
      <3>2. PICK r \in 1..n : o[r] = Place(s, y)
        BY <1>2, <1>4, <3>1 DEF InOrder
      <3>3. s[r] \in Range(s) /\ Place(s, s[r]) = r
        BY <1>2, <1>10, PlaceFacts
      <3> QED
        BY <3>1, <3>2, <3>3
    <2>5. f \in Bijection(Range(s), Range(s))
      <3>1. f \in [Range(s) -> Range(s)]
        BY <2>2
      <3> HIDE DEF f
      <3> QED
        BY <2>3, <2>4, <3>1 DEF Bijection, Injection, Surjection, IsInjective
    <2> QED
      BY <2>2, <2>5
  <1> QED
    BY <1>9, <1>11, <1>12, <1>13 DEF dealt

-----------------------------------------------------------------------------
(* The invariant *)

\* The proxy shows items of the source, once each, and observes them.  Unless a
\* source is replaced, it shows all of them, and the source has no repetitions.
ItemsInv ==
    /\ IsInjective(content)
    /\ Range(content) \subseteq Range(source)
    /\ Range(content) \subseteq stored \cup leaked
    /\ "setSource" \notin env => Range(source) \subseteq Range(content) /\ IsInjective(source)

ProxyInv == TypeOK /\ ItemsInv /\ Sorted

\* Keys are numbers.
LEMMA KeysAreNumbers == AllKeys \subseteq Int /\ [Items -> AllKeys] \subseteq [Items -> Int]
  <1>1. AllKeys \subseteq Int
    BY ProxyAssumption DEF AllKeys, Undefined
  <1> QED
    BY <1>1

\* The items a call adds are new, and different from each other.
LEMMA NewItemsFacts ==
    ASSUME NEW s \in Seq(Items), NEW added \in NewItems(s)
    PROVE  added \in Seq(Items) /\ IsInjective(added) /\ Range(added) \cap Range(s) = {}
  <1>1. PICK n \in 0..MaxAdd : added \in [1..n -> Items \ Range(s)]
    BY DEF NewItems
  <1>2. n \in Nat
    BY ProxyAssumption
  <1>3. added \in Seq(Items)
    BY <1>1, <1>2
  <1>4. IsInjective(added)
    BY DEF NewItems
  <1> QED
    BY <1>1, <1>3, <1>4 DEF Range

\* A list in the order of its keys is sorted.
LEMMA OrderedIsSorted == View!InKeyOrder(key, content) /\ TypeOK => Sorted
  <1> SUFFICES ASSUME View!InKeyOrder(key, content), TypeOK, NEW i \in DOMAIN content, NEW j \in DOMAIN content,
                      i < j, key[content[i]] > key[content[j]]
               PROVE  FALSE
    BY DEF Sorted
  <1>1. content[i] \in Items /\ content[j] \in Items
    BY DEF TypeOK
  <1>2. key[content[i]] \in Int /\ key[content[j]] \in Int
    BY <1>1, KeysAreNumbers DEF TypeOK
  <1> QED
    BY <1>2 DEF View!InKeyOrder

\* The same after a step.
LEMMA OrderedIsSortedNext == View!InKeyOrder(key', content') /\ TypeOK' => Sorted'
  <1> SUFFICES ASSUME View!InKeyOrder(key', content'), TypeOK',
                      NEW i \in DOMAIN content', NEW j \in DOMAIN content',
                      i < j, key'[content'[i]] > key'[content'[j]]
               PROVE  FALSE
    BY DEF Sorted
  <1>1. content'[i] \in Items /\ content'[j] \in Items
    BY DEF TypeOK
  <1>2. key'[content'[i]] \in Int /\ key'[content'[j]] \in Int
    BY <1>1, KeysAreNumbers DEF TypeOK
  <1> QED
    BY <1>2 DEF View!InKeyOrder

\* And so it is when items are only taken out.
LEMMA SortedStays ==
    ASSUME Sorted, UNCHANGED <<key, env>>,
           \A it \in Range(content') : last'[it] = last[it],
           \A x, y : View!Before(content', x, y) => View!Before(content, x, y)
    PROVE  Sorted'
  <1> SUFFICES ASSUME NEW i \in DOMAIN content', NEW j \in DOMAIN content',
                      i < j, key[content'[i]] > key[content'[j]]
               PROVE  "setKey" \in env /\ \E it \in {content'[i], content'[j]} : key[it] = last'[it]
    BY DEF Sorted
  <1> DEFINE x == content'[i]
             y == content'[j]
  <1>1. View!Before(content', x, y) /\ x \in Range(content') /\ y \in Range(content')
    BY DEF View!Before, Range
  <1>2. PICK a \in DOMAIN content, b \in DOMAIN content : a < b /\ content[a] = x /\ content[b] = y
    BY <1>1 DEF View!Before
  <1>3. "setKey" \in env /\ \E it \in {x, y} : key[it] = last[it]
    BY <1>2 DEF Sorted
  <1> QED
    BY <1>1, <1>3

\* What Observe does: new items are observed, and those that stay too.
LEMMA ObserveFacts ==
    ASSUME TypeOK, NEW gone, NEW added, added \subseteq Items, NEW twice,
           NEW k \in [Items -> AllKeys], Observe(gone, added, twice, k)
    PROVE  /\ stored' \subseteq Items /\ leaked' \subseteq Items /\ last' \in [Items -> AllKeys]
           /\ added \subseteq stored'
           /\ (stored \cup leaked) \ gone \subseteq stored' \cup leaked'
           /\ \A it \in Items : it \notin added => last'[it] = last[it]
  <1>1. stored' = (stored \ gone) \cup added
    BY DEF Observe
  <1>2. leaked \subseteq leaked' /\ leaked' \subseteq leaked \cup added
    BY DEF Observe
  <1>3. last' = [it \in Items |-> IF it \in added THEN k[it] ELSE last[it]]
    BY DEF Observe
  <1> QED
    BY <1>1, <1>2, <1>3 DEF TypeOK

\* What _sourceArrayWillChange leaves of the content.  The shortcut for mass
\* changes is right as long as both sides have the same items.
LEMMA KeptFacts ==
    ASSUME TypeOK, ItemsInv, NEW start \in Nat, NEW n \in Nat, start + n <= Len(source)
    PROVE  LET kept == ContentAfterRemoval(start, n)
               gone == Removed(source, start, n)
           IN  /\ kept \in Seq(Items)
               /\ IsInjective(kept)
               /\ Range(kept) \subseteq Range(content) \ gone
               /\ UnobservedByRemoval(start, n) \subseteq gone
               /\ \A x, y : View!Before(kept, x, y) => View!Before(content, x, y)
               /\ "setSource" \notin env =>
                    /\ Range(kept) = Range(content) \ gone
                    /\ \A x, y : x \notin gone /\ y \notin gone /\ View!Before(content, x, y)
                                   => View!Before(kept, x, y)
  <1> DEFINE kept == ContentAfterRemoval(start, n)
             gone == Removed(source, start, n)
  <1>0. content \in Seq(Items) /\ source \in Seq(Items)
    BY DEF TypeOK
  <1>1. UnobservedByRemoval(start, n) \subseteq gone
    BY DEF UnobservedByRemoval
  <1>2. CASE start = 0 /\ n = Len(content)
    <2>1. kept = <<>>
      BY <1>2 DEF ContentAfterRemoval
    <2>2. kept \in Seq(Items) /\ IsInjective(kept) /\ Range(kept) = {}
      BY <2>1 DEF IsInjective, Range
    <2>3. \A x, y : ~View!Before(kept, x, y)
      BY <2>1 DEF View!Before
    <2>4. ASSUME "setSource" \notin env PROVE Range(content) \subseteq gone
      <3>1. Range(source) = Range(content) /\ IsInjective(source) /\ IsInjective(content)
        BY <2>4 DEF ItemsInv
      <3>2. Len(source) = Len(content)
        BY <1>0, <3>1, RangeSize
      <3>3. gone = {source[i] : i \in 1..Len(source)}
        BY <1>0, <1>2, <3>2, RemovedPlaces
      <3> HIDE DEF gone
      <3>4. ASSUME NEW x \in Range(source) PROVE x \in gone
        <4>1. PICK i \in 1..Len(source) : source[i] = x
          BY <1>0 DEF Range
        <4> QED
          BY <3>3, <4>1
      <3> QED
        BY <3>1, <3>4
    <2>5. ASSUME "setSource" \notin env, NEW x, NEW y, x \notin gone, View!Before(content, x, y)
          PROVE  FALSE
      BY <2>4, <2>5 DEF View!Before, Range
    <2> HIDE DEF kept, gone
    <2> QED
      BY <1>1, <2>2, <2>3, <2>4, <2>5 DEF kept, gone
  <1>3. CASE ~(start = 0 /\ n = Len(content))
    <2>1. kept = RemoveObjects(content, gone)
      BY <1>3 DEF ContentAfterRemoval
    <2> HIDE DEF kept, gone
    <2>2. /\ kept \in Seq(Items)
          /\ Range(kept) = Range(content) \ gone
          /\ IsInjective(content) => IsInjective(kept)
          /\ \A x, y : x \notin gone /\ y \notin gone /\ View!Before(content, x, y)
                         => View!Before(kept, x, y)
          /\ \A x, y : View!Before(kept, x, y) => View!Before(content, x, y)
      BY <1>0, <2>1, RemoveFacts
    <2> QED
      BY <1>1, <2>2 DEF ItemsInv, kept, gone
  <1> QED
    BY <1>2, <1>3

\* Initially the content is the sorted source.
LEMMA InitProxy == Init => ProxyInv /\ View!InKeyOrder(key, content)
  <1> SUFFICES ASSUME Init PROVE ProxyInv /\ View!InKeyOrder(key, content)
    OBVIOUS
  <1>1. key \in [Items -> AllKeys] /\ key \in [Items -> Int]
    <2>1. key \in [Items -> Keys \cup {Undefined}] \/ key \in [Items -> Keys]
      BY DEF Init
    <2>2. Keys \cup {Undefined} \subseteq AllKeys
      BY DEF AllKeys
    <2>3. key \in [Items -> AllKeys]
      BY <2>1, <2>2
    <2> QED
      BY <2>3, KeysAreNumbers
  <1>2. source \in Seq(Items) /\ IsInjective(source)
    <2>1. PICK n \in 0..MaxAdd : source \in [1..n -> Items]
      BY DEF Init
    <2>2. n \in Nat
      BY ProxyAssumption
    <2> QED
      BY <2>1, <2>2 DEF Init
  <1>3. /\ content \in Seq(Items) /\ Range(content) = Range(source) /\ IsInjective(content)
        /\ View!InKeyOrder(key, content)
    BY <1>1, <1>2, SortFacts DEF Init
  <1>4. Range(source) \subseteq Items
    BY <1>2 DEF Range
  <1>5. TypeOK
    <2>1. last \in [Items -> AllKeys]
      BY <1>1 DEF Init, AllKeys
    <2> QED
      BY <1>1, <1>2, <1>3, <1>4, <2>1 DEF TypeOK, Init
  <1>6. ItemsInv
    BY <1>2, <1>3 DEF ItemsInv, Init
  <1> QED
    BY <1>3, <1>5, <1>6, OrderedIsSorted DEF ProxyInv

\* Edits of the source: what they do to the content.
LEMMA SourceKeeps ==
    ASSUME ProxyInv, NEW start \in Nat, NEW n \in Nat, start + n <= Len(source),
           NEW added \in NewItems(source), SourceReplace(start, n, added)
    PROVE  /\ ProxyInv'
           /\ UNCHANGED <<key, env>>
           /\ "setSource" \notin env =>
                /\ Range(source') = (Range(source) \ Removed(source, start, n)) \cup Range(added)
                /\ added # <<>> => View!InKeyOrder(key, content')
                /\ added = <<>> \/ View!InKeyOrder(key, content) =>
                      View!SameOrder(content, content', Range(source) \cap Range(source'))
  <1> DEFINE kept == ContentAfterRemoval(start, n)
             gone == Removed(source, start, n)
             unobserved == UnobservedByRemoval(start, n)
  <1>0. /\ content \in Seq(Items) /\ source \in Seq(Items) /\ key \in [Items -> AllKeys] /\ key \in [Items -> Int]
        /\ TypeOK /\ ItemsInv /\ Sorted
    BY KeysAreNumbers DEF ProxyInv, TypeOK
  <1>1. added \in Seq(Items) /\ IsInjective(added) /\ Range(added) \cap Range(source) = {}
    BY <1>0, NewItemsFacts
  <1>2. /\ source' = Splice(source, start, n, added)
        /\ content' = IF added = <<>> THEN kept ELSE Sort(key, kept \o added)
        /\ Observe(unobserved, Range(added), FALSE, key)
        /\ UNCHANGED <<key, env>>
    BY DEF SourceReplace
  <1>3. /\ kept \in Seq(Items) /\ IsInjective(kept)
        /\ Range(kept) \subseteq Range(content) \ gone
        /\ unobserved \subseteq gone
        /\ \A x, y : View!Before(kept, x, y) => View!Before(content, x, y)
        /\ "setSource" \notin env =>
             /\ Range(kept) = Range(content) \ gone
             /\ \A x, y : x \notin gone /\ y \notin gone /\ View!Before(content, x, y)
                            => View!Before(kept, x, y)
    BY <1>0, KeptFacts
  <1> HIDE DEF kept, gone, unobserved
  <1>4. /\ source' \in Seq(Items)
        /\ (Range(source) \ gone) \cup Range(added) \subseteq Range(source')
        /\ IsInjective(source) => /\ Range(source') = (Range(source) \ gone) \cup Range(added)
                                  /\ IsInjective(source')
    BY <1>0, <1>1, <1>2, SpliceFacts DEF gone
  <1>5. Range(added) \subseteq Items /\ (added = <<>> => Range(added) = {})
    BY <1>1 DEF Range
  <1>6. /\ stored' \subseteq Items /\ leaked' \subseteq Items /\ last' \in [Items -> AllKeys]
        /\ Range(added) \subseteq stored'
        /\ (stored \cup leaked) \ unobserved \subseteq stored' \cup leaked'
        /\ \A it \in Items : it \notin Range(added) => last'[it] = last[it]
    BY <1>0, <1>2, <1>5, ObserveFacts
  <1>7. Range(content) \subseteq Range(source) /\ Range(kept) \cap Range(added) = {}
    BY <1>0, <1>1, <1>3 DEF ItemsInv
  <1>8. /\ kept \o added \in Seq(Items)
        /\ Range(kept \o added) = Range(kept) \cup Range(added)
        /\ IsInjective(kept \o added)
        /\ \A x, y : View!Before(kept, x, y) => View!Before(kept \o added, x, y)
    BY <1>1, <1>3, <1>7, AppendFacts
  <1>9. /\ content' \in Seq(Items) /\ IsInjective(content')
        /\ Range(content') = Range(kept) \cup Range(added)
        /\ added # <<>> => View!InKeyOrder(key, content')
    <2>1. CASE added = <<>>
      BY <1>2, <1>3, <1>5, <2>1
    <2>2. CASE added # <<>>
      <3> DEFINE s == kept \o added
      <3>1. content' = Sort(key, s)
        BY <1>2, <2>2
      <3> HIDE DEF s
      <3> QED
        BY <1>0, <1>8, <3>1, SortFacts DEF s
    <2> QED
      BY <2>1, <2>2
  <1>10. TypeOK'
    BY <1>0, <1>2, <1>4, <1>6, <1>9 DEF TypeOK
  <1>11. ItemsInv'
    <2>1. Range(content') \subseteq Range(source')
      BY <1>3, <1>4, <1>7, <1>9
    <2>2. Range(content') \subseteq stored' \cup leaked'
      BY <1>0, <1>3, <1>6, <1>9 DEF ItemsInv
    <2>3. ASSUME "setSource" \notin env PROVE Range(source') \subseteq Range(content') /\ IsInjective(source')
      BY <1>0, <1>3, <1>4, <1>9, <2>3 DEF ItemsInv
    <2> QED
      BY <1>2, <1>9, <2>1, <2>2, <2>3 DEF ItemsInv
  <1>12. Sorted'
    <2>1. CASE added = <<>>
      <3>1. content' = kept /\ \A it \in Range(content') : it \in Items /\ it \notin Range(added)
        BY <1>2, <1>3, <1>5, <1>9, <2>1 DEF Range
      <3> QED
        BY <1>0, <1>2, <1>3, <1>6, <3>1, SortedStays
    <2>2. CASE added # <<>>
      <3>1. View!InKeyOrder(key', content')
        BY <1>2, <1>9, <2>2
      <3> QED
        BY <1>10, <3>1, OrderedIsSortedNext
    <2> QED
      BY <2>1, <2>2
  <1>13. ASSUME "setSource" \notin env, added = <<>> \/ View!InKeyOrder(key, content)
         PROVE  View!SameOrder(content, content', Range(source) \cap Range(source'))
    <2> DEFINE S == Range(source) \cap Range(source')
    <2>1. /\ Range(source) = Range(content) /\ IsInjective(source) /\ IsInjective(content)
          /\ Range(source') = (Range(source) \ gone) \cup Range(added)
      BY <1>0, <1>4, <1>13 DEF ItemsInv
    <2>2. S = Range(content) \ gone /\ S \subseteq Range(content')
      BY <1>1, <1>3, <1>9, <1>13, <2>1
    <2>3. ASSUME NEW x \in S, NEW y \in S, View!Before(content, x, y) PROVE View!Before(content', x, y)
      <3>1. x \notin gone /\ y \notin gone
        BY <2>2
      <3>2. View!Before(kept, x, y)
        BY <1>3, <1>13, <2>3, <3>1
      <3>3. CASE added = <<>>
        BY <1>2, <3>2, <3>3
      <3>4. CASE added # <<>>
        <4>1. key[x] <= key[y]
          BY <1>13, <2>3, <3>4 DEF View!InKeyOrder, View!Before
        <4>2. content' = Sort(key, kept \o added) /\ View!Before(kept \o added, x, y)
          BY <1>2, <1>8, <3>2, <3>4
        <4> QED
          BY <1>0, <1>8, <4>1, <4>2, SortFacts
      <3> QED
        BY <3>3, <3>4
    <2> HIDE DEF S
    <2>4. View!SameOrder(content, content', S)
      BY <1>0, <1>9, <2>1, <2>2, <2>3, OrderBothWays
    <2> QED
      BY <2>4 DEF S
  <1>14. "setSource" \notin env => Range(source') = (Range(source) \ gone) \cup Range(added)
    BY <1>0, <1>4 DEF ItemsInv
  <1> QED
    BY <1>2, <1>9, <1>10, <1>11, <1>12, <1>13, <1>14 DEF ProxyInv, gone

\* Edits of the content, made through the proxy.
LEMMA ProxyKeeps ==
    ASSUME ProxyInv, NEW start \in Nat, NEW n \in Nat, start + n <= Len(content),
           NEW added \in NewItems(content), ProxyReplace(start, n, added)
    PROVE  /\ ProxyInv'
           /\ UNCHANGED env
           /\ added = <<>> => key' = key
           /\ added # <<>> =>
                /\ View!InKeyOrder(key', content')
                /\ key' = ReAssignSortKeys(key, content')
           /\ "setSource" \notin env =>
                /\ Range(source') = (Range(source) \ Removed(content, start, n)) \cup Range(added)
                /\ View!SameOrder(content, content', Range(source) \cap Range(source'))
  <1> DEFINE gone == Removed(content, start, n)
             rest == RemoveObjects(source, gone)
  <1>0. /\ content \in Seq(Items) /\ source \in Seq(Items) /\ key \in [Items -> AllKeys]
        /\ TypeOK /\ ItemsInv /\ Sorted /\ IsInjective(content)
    BY DEF ProxyInv, TypeOK, ItemsInv
  <1>1. added \in Seq(Items) /\ IsInjective(added) /\ Range(added) \cap Range(content) = {}
    BY <1>0, NewItemsFacts
  <1>2. /\ content' = Splice(content, start, n, added)
        /\ source' = rest \o added
        /\ key' = IF added = <<>> THEN key ELSE ReAssignSortKeys(key, content')
        /\ Observe(gone, Range(added), TRUE, key')
        /\ env' = env
    BY DEF ProxyReplace, SourceAfterEdit
  <1> HIDE DEF gone
  <1>3. /\ content' \in Seq(Items) /\ IsInjective(content')
        /\ Range(content') = (Range(content) \ gone) \cup Range(added)
        /\ \A x, y : x \notin gone /\ y \notin gone /\ View!Before(content, x, y)
                       => View!Before(content', x, y)
    BY <1>0, <1>1, <1>2, SpliceFacts DEF gone
  <1>4. /\ rest \in Seq(Items) /\ Range(rest) = Range(source) \ gone
        /\ IsInjective(source) => IsInjective(rest)
    BY <1>0, RemoveFacts
  <1> HIDE DEF rest
  <1>5. /\ source' \in Seq(Items) /\ Range(source') = Range(rest) \cup Range(added)
        /\ IsInjective(source) /\ Range(added) \cap Range(rest) = {} => IsInjective(source')
    BY <1>1, <1>2, <1>4, AppendFacts
  <1>6. key' \in [Items -> AllKeys] /\ (added # <<>> => View!InKeyOrder(key', content'))
    <2>1. CASE added = <<>>
      BY <1>0, <1>2, <2>1
    <2>2. CASE added # <<>>
      BY <1>0, <1>2, <1>3, <2>2, ReAssignFacts
    <2> QED
      BY <2>1, <2>2
  <1>7. Range(added) \subseteq Items /\ (added = <<>> => Range(added) = {})
    BY <1>1 DEF Range
  <1>8. /\ stored' \subseteq Items /\ leaked' \subseteq Items /\ last' \in [Items -> AllKeys]
        /\ Range(added) \subseteq stored'
        /\ (stored \cup leaked) \ gone \subseteq stored' \cup leaked'
        /\ \A it \in Items : it \notin Range(added) => last'[it] = last[it]
    BY <1>0, <1>2, <1>6, <1>7, ObserveFacts
  <1>9. TypeOK'
    BY <1>3, <1>5, <1>6, <1>8 DEF TypeOK
  <1>10. ItemsInv'
    <2>1. Range(content') \subseteq Range(source') /\ Range(content') \subseteq stored' \cup leaked'
      BY <1>0, <1>3, <1>4, <1>5, <1>8 DEF ItemsInv
    <2>2. ASSUME "setSource" \notin env PROVE Range(source') \subseteq Range(content') /\ IsInjective(source')
      BY <1>0, <1>1, <1>3, <1>4, <1>5, <2>2 DEF ItemsInv
    <2> QED
      BY <1>2, <1>3, <2>1, <2>2 DEF ItemsInv
  <1>11. View!SameOrder(content, content', Range(content) \ gone)
    <2> DEFINE S == Range(content) \ gone
    <2>1. \A x, y \in S : View!Before(content, x, y) => View!Before(content', x, y)
      BY <1>3
    <2>2. S \subseteq Range(content) /\ S \subseteq Range(content')
      BY <1>3
    <2> HIDE DEF S
    <2>3. View!SameOrder(content, content', S)
      BY <1>0, <1>3, <2>1, <2>2, OrderBothWays
    <2> QED
      BY <2>3 DEF S
  <1>12. Sorted'
    <2>1. CASE added = <<>>
      <3>1. ASSUME NEW x, NEW y, View!Before(content', x, y) PROVE View!Before(content, x, y)
        <4>1. x \in Range(content') /\ y \in Range(content')
          BY <3>1 DEF View!Before, Range
        <4>2. x \in Range(content) \ gone /\ y \in Range(content) \ gone
          BY <1>3, <1>7, <2>1, <4>1
        <4> QED
          BY <1>11, <3>1, <4>2 DEF View!SameOrder
      <3>2. \A it \in Range(content') : it \in Items /\ it \notin Range(added)
        BY <1>3, <1>7, <2>1 DEF Range
      <3>3. UNCHANGED <<key, env>> /\ \A it \in Range(content') : last'[it] = last[it]
        BY <1>2, <1>8, <2>1, <3>2
      <3> QED
        BY <1>0, <3>1, <3>3, SortedStays
    <2>2. CASE added # <<>>
      BY <1>6, <1>9, <2>2, OrderedIsSortedNext
    <2> QED
      BY <2>1, <2>2
  <1>13. ASSUME "setSource" \notin env
         PROVE  /\ Range(source') = (Range(source) \ gone) \cup Range(added)
                /\ View!SameOrder(content, content', Range(source) \cap Range(source'))
    <2>1. Range(source) = Range(content)
      BY <1>0, <1>13 DEF ItemsInv
    <2>2. Range(source) \cap Range(source') = Range(content) \ gone
      BY <1>1, <1>4, <1>5, <2>1
    <2> QED
      BY <1>4, <1>5, <1>11, <2>2
  <1> QED
    BY <1>2, <1>6, <1>9, <1>10, <1>12, <1>13 DEF ProxyInv, gone

\* A new source.
LEMMA SetSourceKeeps ==
    ASSUME ProxyInv, NEW array \in NewItems(<<>>), SetSource(array)
    PROVE  ProxyInv' /\ UNCHANGED env /\ "setSource" \in env
  <1> DEFINE copy == Sort(key, array)
             rest == RemoveObjects(array, Range(content))
  <1>0. /\ content \in Seq(Items) /\ source \in Seq(Items) /\ key \in [Items -> AllKeys]
        /\ key \in [Items -> Int] /\ TypeOK
    BY KeysAreNumbers DEF ProxyInv, TypeOK
  <1>1. array \in Seq(Items) /\ IsInjective(array)
    <2>1. <<>> \in Seq(Items)
      OBVIOUS
    <2> QED
      BY <2>1, NewItemsFacts
  <1>2. /\ content' = copy
        /\ source' = rest \o copy
        /\ key' = IF copy = <<>> THEN key ELSE ReAssignSortKeys(key, copy)
        /\ Observe(Range(source) \cup Range(content), Range(copy), TRUE, key')
        /\ env' = env /\ "setSource" \in env
    BY DEF SetSource
  <1>3. copy \in Seq(Items) /\ IsInjective(copy)
    BY <1>0, <1>1, SortFacts
  <1>4. rest \in Seq(Items)
    BY <1>1, RemoveFacts
  <1> HIDE DEF copy, rest
  <1>5. source' \in Seq(Items) /\ Range(copy) \subseteq Range(source')
    BY <1>2, <1>3, <1>4, AppendFacts
  <1>6. key' \in [Items -> AllKeys] /\ View!InKeyOrder(key', content')
    <2>1. CASE copy = <<>>
      BY <1>0, <1>2, <2>1 DEF View!InKeyOrder
    <2>2. CASE copy # <<>>
      BY <1>0, <1>2, <1>3, <2>2, ReAssignFacts
    <2> QED
      BY <2>1, <2>2
  <1>7. Range(copy) \subseteq Items
    BY <1>3 DEF Range
  <1>8. /\ stored' \subseteq Items /\ leaked' \subseteq Items /\ last' \in [Items -> AllKeys]
        /\ Range(copy) \subseteq stored'
    BY <1>0, <1>2, <1>6, <1>7, ObserveFacts
  <1>9. TypeOK'
    BY <1>2, <1>3, <1>5, <1>6, <1>8 DEF TypeOK
  <1>10. ItemsInv'
    BY <1>2, <1>3, <1>5, <1>8 DEF ItemsInv
  <1> QED
    BY <1>2, <1>6, <1>9, <1>10, OrderedIsSortedNext DEF ProxyInv

\* A key is set by somebody else.
LEMMA SetKeyKeeps ==
    ASSUME ProxyInv, NEW it \in Items, NEW k \in Keys, SetKey(it, k)
    PROVE  /\ ProxyInv'
           /\ UNCHANGED <<source, env>>
           /\ key' = [key EXCEPT ![it] = k]
           /\ \/ content' = content
              \/ /\ Range(content') = Range(content) /\ IsInjective(content')
                 /\ View!InKeyOrder(key', content')
                 /\ View!InKeyOrder(key, content) =>
                       View!SameOrder(content, content', Range(content) \ {it})
  <1>0. /\ content \in Seq(Items) /\ source \in Seq(Items) /\ key \in [Items -> AllKeys]
        /\ TypeOK /\ ItemsInv /\ Sorted /\ IsInjective(content)
    BY DEF ProxyInv, TypeOK, ItemsInv
  <1>1. /\ key' = [key EXCEPT ![it] = k]
        /\ content' = IF IndexChanged(it, k) THEN Sort(key', content) ELSE content
        /\ UNCHANGED <<source, last, stored, leaked, env>>
        /\ "setKey" \in env
    BY DEF SetKey
  <1>2. key' \in [Items -> AllKeys] /\ key' \in [Items -> Int]
    BY <1>0, <1>1, KeysAreNumbers DEF AllKeys
  <1>3. CASE IndexChanged(it, k)
    <2>1. content' = Sort(key', content)
      BY <1>1, <1>3
    <2>2. /\ content' \in Seq(Items) /\ Range(content') = Range(content) /\ IsInjective(content')
          /\ View!InKeyOrder(key', content')
          /\ \A x, y : View!Before(content, x, y) /\ key'[x] <= key'[y] => View!Before(content', x, y)
      BY <1>0, <1>2, <2>1, SortFacts
    <2>3. TypeOK'
      BY <1>0, <1>1, <1>2, <2>2 DEF TypeOK
    <2>4. ItemsInv'
      BY <1>0, <1>1, <2>2 DEF ItemsInv
    <2>5. Sorted'
      BY <2>2, <2>3, OrderedIsSortedNext
    <2>6. ASSUME View!InKeyOrder(key, content)
          PROVE  View!SameOrder(content, content', Range(content) \ {it})
      <3> DEFINE S == Range(content) \ {it}
      <3>1. ASSUME NEW x \in S, NEW y \in S, View!Before(content, x, y) PROVE View!Before(content', x, y)
        <4>1. key[x] <= key[y]
          BY <2>6, <3>1 DEF View!InKeyOrder, View!Before
        <4>2. x \in Items /\ y \in Items /\ x # it /\ y # it
          BY <1>0 DEF Range
        <4>3. key'[x] <= key'[y]
          BY <1>0, <1>1, <4>1, <4>2
        <4> QED
          BY <2>2, <3>1, <4>3
      <3>2. S \subseteq Range(content) /\ S \subseteq Range(content')
        BY <2>2
      <3> HIDE DEF S
      <3>3. View!SameOrder(content, content', S)
        BY <1>0, <2>2, <3>1, <3>2, OrderBothWays
      <3> QED
        BY <3>3 DEF S
    <2> QED
      BY <1>1, <2>2, <2>3, <2>4, <2>5, <2>6 DEF ProxyInv
  <1>4. CASE ~IndexChanged(it, k)
    <2>1. content' = content
      BY <1>1, <1>4
    <2>2. TypeOK' /\ ItemsInv'
      BY <1>0, <1>1, <1>2, <2>1 DEF TypeOK, ItemsInv
    <2>3. it \in Range(content) => last[it] = k
      BY <1>0, <1>4 DEF IndexChanged, ItemsInv
    <2>4. Sorted'
      <3> SUFFICES ASSUME NEW i \in DOMAIN content, NEW j \in DOMAIN content, i < j,
                          key'[content[i]] > key'[content[j]]
                   PROVE  \E e \in {content[i], content[j]} : key'[e] = last[e]
        BY <1>1, <2>1 DEF Sorted
      <3>1. content[i] \in Range(content) /\ content[j] \in Range(content) /\ content[i] \in Items /\ content[j] \in Items
        BY <1>0 DEF Range
      <3>2. CASE content[i] = it \/ content[j] = it
        BY <1>0, <1>1, <2>3, <3>1, <3>2
      <3>3. CASE content[i] # it /\ content[j] # it
        <4>1. key'[content[i]] = key[content[i]] /\ key'[content[j]] = key[content[j]]
          BY <1>0, <1>1, <3>1, <3>3
        <4> QED
          BY <1>0, <4>1 DEF Sorted
      <3> QED
        BY <3>2, <3>3
    <2> QED
      BY <1>1, <2>1, <2>2, <2>4 DEF ProxyInv
  <1> QED
    BY <1>3, <1>4

\* removeAt takes out one item.
LEMMA RemoveAtFacts ==
    ASSUME NEW s \in Seq(Items), IsInjective(s), NEW i \in 1..Len(s)
    PROVE  /\ RemoveAt(s, i) \in Seq(Items) /\ IsInjective(RemoveAt(s, i))
           /\ Len(RemoveAt(s, i)) = Len(s) - 1
           /\ Range(RemoveAt(s, i)) = Range(s) \ {s[i]}
           /\ \A x, y : x # s[i] /\ y # s[i] /\ View!Before(s, x, y)
                          => View!Before(RemoveAt(s, i), x, y)
  <1>0. Len(s) \in Nat /\ i \in Nat /\ i - 1 \in Nat
    OBVIOUS
  <1>a. PICK start \in Nat : start = i - 1
    BY <1>0
  <1>b. PICK n \in Nat : n = 1
    OBVIOUS
  <1>c. PICK none \in Seq(Items) : none = <<>>
    <2>1. <<>> \in Seq(Items)
      OBVIOUS
    <2> QED
      BY <2>1, Zenon
  <1>1. start = i - 1 /\ n = 1 /\ none = <<>>
    BY <1>a, <1>b, <1>c
  <1>2. Range(none) = {} /\ IsInjective(none) /\ Len(none) = 0 /\ Range(none) \cap Range(s) = {}
    BY <1>1 DEF Range, IsInjective
  <1>3. start + n <= Len(s)
    BY <1>0, <1>1
  <1>4. Removed(s, start, n) = {s[i]}
    <2>1. Removed(s, start, n) = {s[h] : h \in (start + 1)..(start + n)}
      BY <1>3, RemovedPlaces
    <2>2. (start + 1)..(start + n) = {i}
      BY <1>0, <1>1
    <2> QED
      BY <2>1, <2>2
  <1>5. RemoveAt(s, i) = Splice(s, start, n, none)
    <2>1. SubSeq(s, 1, i - 1) \in Seq(Items)
      OBVIOUS
    <2>2. SubSeq(s, 1, start) \o none = SubSeq(s, 1, i - 1)
      BY <1>1, <2>1, ConcatEmptySeq
    <2>3. start + n + 1 = i + 1
      BY <1>0, <1>1
    <2> QED
      BY <2>2, <2>3 DEF RemoveAt, Splice
  <1>6. Len(Splice(s, start, n, none)) = Len(s) - n + Len(none)
    BY <1>3, SplicePlaces
  <1>7. Len(RemoveAt(s, i)) = Len(s) - 1
    BY <1>0, <1>1, <1>2, <1>5, <1>6
  <1>8. /\ Splice(s, start, n, none) \in Seq(Items)
        /\ Range(Splice(s, start, n, none)) = (Range(s) \ Removed(s, start, n)) \cup Range(none)
        /\ IsInjective(Splice(s, start, n, none))
        /\ \A x, y : x \notin Removed(s, start, n) /\ y \notin Removed(s, start, n) /\ View!Before(s, x, y)
                       => View!Before(Splice(s, start, n, none), x, y)
    BY <1>2, <1>3, SpliceFacts
  <1> QED
    BY <1>2, <1>4, <1>5, <1>7, <1>8

\* insertAt puts one in.
LEMMA InsertAtFacts ==
    ASSUME NEW s \in Seq(Items), IsInjective(s), NEW i \in 1..(Len(s) + 1),
           NEW e \in Items, e \notin Range(s)
    PROVE  /\ InsertAt(s, i, e) \in Seq(Items) /\ IsInjective(InsertAt(s, i, e))
           /\ Range(InsertAt(s, i, e)) = Range(s) \cup {e}
           /\ \A x, y : View!Before(s, x, y) => View!Before(InsertAt(s, i, e), x, y)
  <1>0. Len(s) \in Nat /\ i \in Nat /\ i - 1 \in Nat
    OBVIOUS
  <1>a. PICK start \in Nat : start = i - 1
    BY <1>0
  <1>b. PICK n \in Nat : n = 0
    OBVIOUS
  <1>c. PICK one \in Seq(Items) : one = <<e>>
    <2>1. <<e>> \in Seq(Items)
      OBVIOUS
    <2> QED
      BY <2>1, Zenon
  <1>1. start = i - 1 /\ n = 0 /\ one = <<e>>
    BY <1>a, <1>b, <1>c
  <1>2. Range(one) = {e} /\ IsInjective(one) /\ Range(one) \cap Range(s) = {}
    <2>1. Range(one) = {e} /\ IsInjective(one)
      BY <1>1 DEF Range, IsInjective
    <2> QED
      BY <2>1
  <1>3. start + n <= Len(s)
    BY <1>0, <1>1
  <1>4. Removed(s, start, n) = {}
    <2>1. Removed(s, start, n) = {s[h] : h \in (start + 1)..(start + n)}
      BY <1>3, RemovedPlaces
    <2>2. (start + 1)..(start + n) = {}
      BY <1>0, <1>1
    <2> QED
      BY <2>1, <2>2
  <1>5. InsertAt(s, i, e) = Splice(s, start, n, one)
    <2>1. start + n + 1 = i
      BY <1>0, <1>1
    <2> QED
      BY <1>1, <2>1 DEF InsertAt, Splice
  <1>6. /\ Splice(s, start, n, one) \in Seq(Items)
        /\ Range(Splice(s, start, n, one)) = (Range(s) \ Removed(s, start, n)) \cup Range(one)
        /\ IsInjective(Splice(s, start, n, one))
        /\ \A x, y : x \notin Removed(s, start, n) /\ y \notin Removed(s, start, n) /\ View!Before(s, x, y)
                       => View!Before(Splice(s, start, n, one), x, y)
    BY <1>2, <1>3, SpliceFacts
  <1> QED
    BY <1>2, <1>4, <1>5, <1>6

\* Moving an item leaves the others in their order.
LEMMA MoveKeeps ==
    ASSUME ProxyInv, NEW from \in DOMAIN content, NEW to \in DOMAIN content, Move(from, to)
    PROVE  /\ ProxyInv'
           /\ UNCHANGED <<source, env>>
           /\ Range(content') = Range(content) /\ IsInjective(content')
           /\ View!SameOrder(content, content', Range(content) \ {content[from]})
           /\ View!InKeyOrder(key', content')
           /\ key' = ReAssignSortKeys(key, content')
  <1> DEFINE x == content[from]
             mid == RemoveAt(content, from)
  <1>0. /\ content \in Seq(Items) /\ source \in Seq(Items) /\ key \in [Items -> AllKeys]
        /\ TypeOK /\ ItemsInv /\ IsInjective(content)
    BY DEF ProxyInv, TypeOK, ItemsInv
  <1>1. /\ content' = InsertAt(mid, to, x)
        /\ key' = ReAssignSortKeys(key, content')
        /\ UNCHANGED <<source, last, stored, leaked, env>>
    BY DEF Move
  <1>2. from \in 1..Len(content) /\ to \in 1..Len(content) /\ Len(content) \in Nat /\ x \in Items /\ x \in Range(content)
    BY <1>0 DEF Range
  <1>3. /\ mid \in Seq(Items) /\ IsInjective(mid)
        /\ Len(mid) = Len(content) - 1
        /\ Range(mid) = Range(content) \ {x}
        /\ \A a, b : a # x /\ b # x /\ View!Before(content, a, b) => View!Before(mid, a, b)
    BY <1>0, <1>2, RemoveAtFacts
  <1> HIDE DEF mid, x
  <1>4. to \in 1..(Len(mid) + 1) /\ x \notin Range(mid)
    BY <1>2, <1>3
  <1>5. /\ content' \in Seq(Items) /\ IsInjective(content') /\ Range(content') = Range(mid) \cup {x}
         /\ \A a, b : View!Before(mid, a, b) => View!Before(content', a, b)
    BY <1>1, <1>2, <1>3, <1>4, InsertAtFacts
  <1>6. Range(content') = Range(content)
    BY <1>2, <1>3, <1>5
  <1>7. key' \in [Items -> AllKeys] /\ View!InKeyOrder(key', content')
    BY <1>0, <1>1, <1>5, ReAssignFacts
  <1>8. TypeOK' /\ ItemsInv'
    BY <1>0, <1>1, <1>5, <1>6, <1>7 DEF TypeOK, ItemsInv
  <1>9. View!SameOrder(content, content', Range(content) \ {x})
    <2> DEFINE S == Range(content) \ {x}
    <2>1. \A a, b \in S : View!Before(content, a, b) => View!Before(content', a, b)
      BY <1>3, <1>5
    <2>2. S \subseteq Range(content) /\ S \subseteq Range(content')
      BY <1>6
    <2> HIDE DEF S
    <2>3. View!SameOrder(content, content', S)
      BY <1>0, <1>5, <2>1, <2>2, OrderBothWays
    <2> QED
      BY <2>3 DEF S
  <1> QED
    BY <1>1, <1>5, <1>6, <1>7, <1>8, <1>9, OrderedIsSortedNext DEF ProxyInv, x

-----------------------------------------------------------------------------
(* Theorems *)

\* Every step keeps the invariant.
LEMMA NextProxy == ProxyInv /\ [Next]_vars => ProxyInv'
  <1> SUFFICES ASSUME ProxyInv, [Next]_vars PROVE ProxyInv'
    OBVIOUS
  <1>0. Len(source) \in Nat /\ Len(content) \in Nat
    BY DEF ProxyInv, TypeOK
  <1>1. ASSUME NEW start \in 0..Len(source), NEW n \in 0..Len(source), NEW added \in NewItems(source),
               start + n <= Len(source), SourceReplace(start, n, added)
        PROVE  ProxyInv'
    BY <1>0, <1>1, SourceKeeps
  <1>2. ASSUME NEW start \in 0..Len(content), NEW n \in 0..Len(content), NEW added \in NewItems(content),
               start + n <= Len(content), ProxyReplace(start, n, added)
        PROVE  ProxyInv'
    BY <1>0, <1>2, ProxyKeeps
  <1>3. ASSUME NEW array \in NewItems(<<>>), SetSource(array) PROVE ProxyInv'
    BY <1>3, SetSourceKeeps
  <1>4. ASSUME NEW it \in Items, NEW k \in Keys, SetKey(it, k) PROVE ProxyInv'
    BY <1>4, SetKeyKeeps
  <1>5. ASSUME NEW from \in DOMAIN content, NEW to \in DOMAIN content, Move(from, to) PROVE ProxyInv'
    BY <1>5, MoveKeeps
  <1>6. CASE UNCHANGED vars
    BY <1>6 DEF vars, ProxyInv, TypeOK, ItemsInv, Sorted
  <1> QED
    BY <1>1, <1>2, <1>3, <1>4, <1>5, <1>6 DEF Next

\* The invariant holds in every reachable state.
LEMMA ProxyCorrect == Spec => []ProxyInv
  BY InitProxy, NextProxy, PTL DEF Spec

\* The proxy is a sorted copy of its source, whichever side is edited and whatever
\* happens to the keys, for any items, keys and numbers of items: the nested
\* observers of both arrays, suppressed in part, keep them together
\* (_sourceArrayWillChange, _contentArrayDidChange and the rest).
THEOREM CopyCorrect == Spec => []SortedCopy
  <1>1. ProxyInv => SortedCopy
    BY DEF ProxyInv, SortedCopy, SameItems, ItemsInv
  <1> QED
    BY <1>1, ProxyCorrect, PTL

-----------------------------------------------------------------------------
(* The proxy implements SortedView *)

\* What Shows says, in the operators of this module.
LEMMA ShowsFacts == \A s, S : View!Shows(s, S) <=> Range(s) = S /\ IsInjective(s)
  BY DEF View!Shows, View!Range, View!IsInjective, Range, IsInjective

\* The bijections SortedView speaks of are the ones of this module.
LEMMA BijectionFacts == \A S, T : View!Bijection(S, T) = Bijection(S, T)
  BY DEF View!Bijection, View!Injection, View!Surjection, View!IsInjective,
         Bijection, Injection, Surjection, IsInjective

\* The proxy shows the items of its source.
LEMMA ProxyShows ==
    ASSUME ItemsInv, "setSource" \notin env
    PROVE  View!Shows(content, Range(source)) /\ Range(content) = Range(source)
  <1>1. Range(content) = Range(source) /\ IsInjective(content)
    BY DEF ItemsInv
  <1> QED
    BY <1>1, ShowsFacts

\* The initial states are initial states of SortedView.
LEMMA InitView == Init => View!Init
  <1> SUFFICES ASSUME Init PROVE View!Init
    OBVIOUS
  <1>1. ProxyInv /\ View!InKeyOrder(key, content)
    BY InitProxy
  <1>2. CASE "setSource" \in env
    <2>1. View!Shows(<<>>, {}) /\ View!InKeyOrder([it \in Items |-> Undefined], <<>>)
      <3>1. Range(<<>>) = {} /\ IsInjective(<<>>)
        BY DEF Range, IsInjective
      <3>2. View!InKeyOrder([it \in Items |-> Undefined], <<>>)
        BY DEF View!InKeyOrder
      <3> QED
        BY <3>1, <3>2, ShowsFacts
    <2> QED
      BY <1>2, <2>1 DEF View!Init
  <1>3. CASE "setSource" \notin env
    <2>1. View!Shows(content, Range(source))
      BY <1>1, <1>3, ProxyShows DEF ProxyInv
    <2> QED
      BY <1>1, <1>3, <2>1 DEF View!Init
  <1> QED
    BY <1>2, <1>3

\* An edit of the source changes the collection.
LEMMA SourceView ==
    ASSUME ProxyInv, NEW start \in Nat, NEW n \in Nat, start + n <= Len(source),
           NEW added \in NewItems(source), SourceReplace(start, n, added), "setSource" \notin env
    PROVE  View!ChangeCollection
  <1> DEFINE gone == Removed(source, start, n)
  <1>1. /\ ProxyInv' /\ key' = key /\ env' = env
        /\ Range(source') = (Range(source) \ gone) \cup Range(added)
        /\ added # <<>> => View!InKeyOrder(key, content')
        /\ added = <<>> \/ View!InKeyOrder(key, content) =>
              View!SameOrder(content, content', Range(source) \cap Range(source'))
    BY SourceKeeps
  <1>2. View!Shows(content', Range(source'))
    <2>1. Range(content') = Range(source') /\ IsInjective(content')
      BY <1>1 DEF ProxyInv, ItemsInv
    <2> QED
      BY <2>1, ShowsFacts
  <1>3. added \in Seq(Items) /\ Range(added) \cap Range(source) = {}
    BY NewItemsFacts DEF ProxyInv, TypeOK
  <1> HIDE DEF gone
  <1>4. CASE added = <<>>
    <2>1. Range(added) = {}
      BY <1>4 DEF Range
    <2>2. Range(source') \subseteq Range(source) /\ Range(source) \cap Range(source') = Range(source')
      BY <1>1, <2>1
    <2>3. View!SameOrder(content, content', Range(source'))
      BY <1>1, <1>4, <2>2
    <2> QED
      BY <1>1, <1>2, <2>2, <2>3 DEF View!ChangeCollection
  <1>5. CASE added # <<>>
    <2>1. ~(Range(source') \subseteq Range(source))
      <3>1. added[1] \in Range(added)
        BY <1>3, <1>5 DEF Range
      <3> QED
        BY <1>1, <1>3, <3>1
    <2> QED
      BY <1>1, <1>2, <1>5, <2>1 DEF View!ChangeCollection
  <1> QED
    BY <1>4, <1>5

\* The keys that _reAssignSortKeys deals out are those there were.
LEMMA KeysFollow ==
    ASSUME ProxyInv, ProxyInv', "setSource" \notin env, env' = env,
           View!InKeyOrder(key', content'), key' = ReAssignSortKeys(key, content')
    PROVE  View!KeysFollowList
  <1>1. /\ content' \in Seq(Items) /\ IsInjective(content') /\ Range(content') = Range(source')
        /\ key \in [Items -> AllKeys]
    BY DEF ProxyInv, TypeOK, ItemsInv
  <1>2. /\ \A it \in Items \ Range(content') : key'[it] = key[it]
        /\ Undefined \notin {key[it] : it \in Range(content')} =>
             \E f \in Bijection(Range(content'), Range(content')) :
                 \A it \in Range(content') : key'[it] = key[f[it]]
    BY <1>1, ReAssignFacts
  <1>3. Undefined \notin {key[it] : it \in Range(source')} => View!SameKeysAmong(Range(source'))
    BY <1>1, <1>2, BijectionFacts DEF View!SameKeysAmong
  <1> QED
    BY <1>3 DEF View!KeysFollowList

\* An edit of the content is an edit of the list.
LEMMA ProxyView ==
    ASSUME ProxyInv, NEW start \in Nat, NEW n \in Nat, start + n <= Len(content),
           NEW added \in NewItems(content), ProxyReplace(start, n, added), "setSource" \notin env
    PROVE  View!EditList
  <1> DEFINE gone == Removed(content, start, n)
  <1>1. /\ ProxyInv' /\ env' = env
        /\ added = <<>> => key' = key
        /\ added # <<>> => /\ View!InKeyOrder(key', content')
                           /\ key' = ReAssignSortKeys(key, content')
        /\ Range(source') = (Range(source) \ gone) \cup Range(added)
        /\ View!SameOrder(content, content', Range(source) \cap Range(source'))
    BY ProxyKeeps
  <1>2. View!Shows(content', Range(source'))
    <2>1. Range(content') = Range(source') /\ IsInjective(content')
      BY <1>1 DEF ProxyInv, ItemsInv
    <2> QED
      BY <2>1, ShowsFacts
  <1>3. added \in Seq(Items) /\ Range(added) \cap Range(source) = {}
    BY NewItemsFacts, ProxyShows DEF ProxyInv, TypeOK
  <1> HIDE DEF gone
  <1>4. CASE added = <<>>
    <2>1. Range(added) = {}
      BY <1>4 DEF Range
    <2>2. Range(source') \subseteq Range(source)
      BY <1>1, <2>1
    <2> QED
      BY <1>1, <1>2, <1>4, <2>2 DEF View!EditList
  <1>5. CASE added # <<>>
    <2>1. ~(Range(source') \subseteq Range(source))
      <3>1. added[1] \in Range(added)
        BY <1>3, <1>5 DEF Range
      <3> QED
        BY <1>1, <1>3, <3>1
    <2>2. View!KeysFollowList
      BY <1>1, <1>5, KeysFollow
    <2> QED
      BY <1>1, <1>2, <2>1, <2>2 DEF View!EditList
  <1> QED
    BY <1>4, <1>5

\* A move is a move.
LEMMA MoveView ==
    ASSUME ProxyInv, NEW from \in DOMAIN content, NEW to \in DOMAIN content, Move(from, to),
           "setSource" \notin env
    PROVE  View!MoveItem
  <1>1. /\ ProxyInv' /\ source' = source /\ env' = env
        /\ View!SameOrder(content, content', Range(content) \ {content[from]})
        /\ View!InKeyOrder(key', content')
        /\ key' = ReAssignSortKeys(key, content')
    BY MoveKeeps
  <1>2. Range(content) = Range(source) /\ View!Shows(content', Range(source))
    <2>1. Range(content) = Range(source)
      BY ProxyShows DEF ProxyInv
    <2>2. Range(content') = Range(source) /\ IsInjective(content')
      BY <1>1 DEF ProxyInv, ItemsInv
    <2> QED
      BY <2>1, <2>2, ShowsFacts
  <1>3. View!KeysFollowList
    BY <1>1, KeysFollow
  <1>4. \E it \in Range(source) : View!SameOrder(content, content', Range(source) \ {it})
    <2>1. content[from] \in Range(source)
      BY <1>2 DEF Range
    <2> QED
      BY <1>1, <1>2, <2>1
  <1> QED
    BY <1>1, <1>2, <1>3, <1>4 DEF View!MoveItem

\* A change of a key is a change of a key.
LEMMA SetKeyView ==
    ASSUME ProxyInv, NEW it \in Items, NEW k \in Keys, SetKey(it, k), "setSource" \notin env
    PROVE  View!ChangeKey
  <1>1. /\ source' = source /\ env' = env
        /\ key' = [key EXCEPT ![it] = k]
        /\ \/ content' = content
           \/ /\ Range(content') = Range(content) /\ IsInjective(content')
              /\ View!InKeyOrder(key', content')
              /\ View!InKeyOrder(key, content) =>
                    View!SameOrder(content, content', Range(content) \ {it})
    BY SetKeyKeeps
  <1>2. Range(content) = Range(source)
    BY ProxyShows DEF ProxyInv
  <1>3. key' = [key EXCEPT ![it] = key'[it]]
    BY <1>1 DEF ProxyInv, TypeOK
  <1>4. \/ content' = content
        \/ /\ View!Shows(content', Range(source))
           /\ View!InKeyOrder(key', content')
           /\ View!InKeyOrder(key, content) =>
                 View!SameOrder(content, content', Range(source) \ {it})
    BY <1>1, <1>2, ShowsFacts
  <1> QED
    BY <1>1, <1>3, <1>4 DEF View!ChangeKey

\* Every step is a step of SortedView, or changes nothing there.
LEMMA StepView == ProxyInv /\ [Next]_vars => [View!Next]_(View!vars)
  <1> SUFFICES ASSUME ProxyInv, [Next]_vars PROVE View!Next \/ UNCHANGED View!vars
    OBVIOUS
  <1>0. Len(source) \in Nat /\ Len(content) \in Nat
    BY DEF ProxyInv, TypeOK
  <1>1. CASE "setSource" \in env
    <2>1. env' = env
      BY DEF Next, SourceReplace, ProxyReplace, SetSource, SetKey, Move, vars
    <2> QED
      BY <1>1, <2>1 DEF View!vars
  <1>2. CASE UNCHANGED vars
    BY <1>2 DEF vars, View!vars
  <1>3. CASE Next /\ "setSource" \notin env
    <2>1. ASSUME NEW start \in 0..Len(source), NEW n \in 0..Len(source), NEW added \in NewItems(source),
                 start + n <= Len(source), SourceReplace(start, n, added)
          PROVE  View!Next
      BY <1>0, <1>3, <2>1, SourceView DEF View!Next
    <2>2. ASSUME NEW start \in 0..Len(content), NEW n \in 0..Len(content), NEW added \in NewItems(content),
                 start + n <= Len(content), ProxyReplace(start, n, added)
          PROVE  View!Next
      BY <1>0, <1>3, <2>2, ProxyView DEF View!Next
    <2>3. ASSUME NEW array \in NewItems(<<>>), SetSource(array) PROVE View!Next
      BY <1>3, <2>3 DEF SetSource
    <2>4. ASSUME NEW it \in Items, NEW k \in Keys, SetKey(it, k) PROVE View!Next
      BY <1>3, <2>4, SetKeyView DEF View!Next
    <2>5. ASSUME NEW from \in DOMAIN content, NEW to \in DOMAIN content, Move(from, to) PROVE View!Next
      BY <1>3, <2>5, MoveView DEF View!Next
    <2> QED
      BY <1>3, <2>1, <2>2, <2>3, <2>4, <2>5 DEF Next
  <1> QED
    BY <1>1, <1>2, <1>3

\* The proxy does what SortedView promises: with any items and keys, an edit of
\* either side, a move or a changed key is one step of the abstract list, in which
\* the items that stay keep their order and the keys there are are dealt out again.
THEOREM ProxyImplementsView == Spec => ImplementsSortedView
  <1>1. Spec => View!Init /\ [][View!Next]_(View!vars)
    BY InitView, StepView, ProxyCorrect, PTL DEF Spec
  <1> QED
    BY <1>1 DEF ImplementsSortedView, View!Spec

-----------------------------------------------------------------------------
(* Numbers and sequences *)

\* A set of natural numbers has a smallest one.
LEMMA LeastNumber ==
    ASSUME NEW T, T \subseteq Nat, T # {}
    PROVE  \E m \in T : \A x \in T : m <= x
  <1> DEFINE R == OpToRel(<, Nat)
  <1>1. IsWellFoundedOn(R, Nat)
    BY NatLessThanWellFounded
  <1>2. \A a, b \in Nat : a < b => <<a, b>> \in R
    BY DEF OpToRel
  <1> HIDE DEF R
  <1>3. PICK m \in T : \A x \in T : ~(<<x, m>> \in R)
    BY <1>1, WFMin
  <1>4. ASSUME NEW x \in T PROVE m <= x
    <2>1. m \in Nat /\ x \in Nat
      OBVIOUS
    <2>2. ~(x < m)
      BY <1>2, <1>3, <2>1
    <2> QED
      BY <2>1, <2>2
  <1> QED
    BY <1>4

\* A set of numbers that has 0, and with each the next, has them all.
LEMMA Inductive ==
    ASSUME NEW S, S \subseteq Nat, 0 \in S, \A n \in S : n + 1 \in S
    PROVE  S = Nat
  <1> SUFFICES ASSUME Nat \ S # {} PROVE FALSE
    OBVIOUS
  <1>1. PICK m \in Nat \ S : \A x \in Nat \ S : m <= x
    <2> DEFINE T == Nat \ S
    <2>1. T \subseteq Nat /\ T # {}
      OBVIOUS
    <2> HIDE DEF T
    <2>2. \E m \in T : \A x \in T : m <= x
      BY <2>1, LeastNumber
    <2> QED
      BY <2>2 DEF T
  <1>2. m - 1 \in Nat /\ m - 1 \notin Nat \ S
    BY <1>1
  <1>3. (m - 1) + 1 \in S
    BY <1>2
  <1> QED
    BY <1>1, <1>3

\* Two sequences after each other
Join(c, p, r, S) ==
    /\ c \in Seq(S) /\ Len(c) = Len(p) + Len(r)
    /\ \A k \in 1..Len(p) : c[k] = p[k]
    /\ \A k \in 1..Len(r) : c[Len(p) + k] = r[k]

\* The concatenation of two sequences is such a one.
LEMMA Joined ==
    ASSUME NEW S, NEW p \in Seq(S), NEW r \in Seq(S), NEW c, c = p \o r
    PROVE  Join(c, p, r, S)
  <1>1. Len(p) \in Nat /\ Len(r) \in Nat
    OBVIOUS
  <1>2. /\ c \in Seq(S) /\ Len(c) = Len(p) + Len(r)
        /\ \A k \in 1..Len(p) + Len(r) : c[k] = IF k <= Len(p) THEN p[k] ELSE r[k - Len(p)]
    BY ConcatProperties
  <1>3. ASSUME NEW k \in 1..Len(p) PROVE c[k] = p[k]
    <2>1. k \in 1..Len(p) + Len(r) /\ k <= Len(p)
      BY <1>1
    <2> QED
      BY <1>2, <2>1
  <1>4. ASSUME NEW k \in 1..Len(r) PROVE c[Len(p) + k] = r[k]
    <2>1. Len(p) + k \in 1..Len(p) + Len(r) /\ ~(Len(p) + k <= Len(p)) /\ (Len(p) + k) - Len(p) = k
      BY <1>1
    <2> QED
      BY <1>2, <2>1
  <1> QED
    BY <1>2, <1>3, <1>4 DEF Join

\* Inserting into a sequence
Insertion(c, b, m, v, S) ==
    /\ c \in Seq(S) /\ Len(c) = Len(b) + 1
    /\ \A k \in 1..Len(c) : c[k] = IF k < m THEN b[k] ELSE IF k = m THEN v ELSE b[k - 1]

\* What InsertAt does.
LEMMA InsertedAt ==
    ASSUME NEW S, NEW b \in Seq(S), NEW m \in 1..(Len(b) + 1), NEW v \in S, NEW c,
           c = InsertAt(b, m, v)
    PROVE  Insertion(c, b, m, v, S)
  <1>0. Len(b) \in Nat /\ m \in Nat /\ m >= 1 /\ m - 1 <= Len(b) /\ \A i \in 1..Len(b) : b[i] \in S
    OBVIOUS
  <1> DEFINE p == SubSeq(b, 1, m - 1)
             one == <<v>>
             r == SubSeq(b, m, Len(b))
             q == p \o one
  <1>1. c = q \o r
    BY DEF InsertAt
  <1>2. p \in Seq(S) /\ Len(p) = m - 1 /\ \A k \in 1..(m - 1) : p[k] = b[k]
    BY <1>0, SubSeqProperties
  <1>3. r \in Seq(S) /\ Len(r) = Len(b) - m + 1 /\ \A k \in 1..(Len(b) - m + 1) : r[k] = b[m + k - 1]
    BY <1>0, SubSeqProperties
  <1>4. one \in Seq(S) /\ Len(one) = 1 /\ one[1] = v
    OBVIOUS
  <1> HIDE DEF p, one, r
  <1>5. /\ q \in Seq(S) /\ Len(q) = Len(p) + Len(one)
        /\ \A k \in 1..Len(p) : q[k] = p[k]
        /\ \A k \in 1..Len(one) : q[Len(p) + k] = one[k]
    <2>1. p \in Seq(S) /\ one \in Seq(S)
      BY <1>2, <1>4
    <2>2. Join(q, p, one, S)
      BY <2>1, Joined, Zenon
    <2> QED
      BY <2>2 DEF Join
  <1>6. Len(q) = m /\ (\A k \in 1..(m - 1) : q[k] = b[k]) /\ q[m] = v
    <2>1. 1 \in 1..Len(one) /\ Len(p) + 1 = m /\ Len(p) + Len(one) = m
      BY <1>0, <1>2, <1>4
    <2>2. q[m] = one[1]
      BY <1>5, <2>1
    <2> QED
      BY <1>2, <1>4, <1>5, <2>1, <2>2
  <1> HIDE DEF q
  <1>7. /\ c \in Seq(S) /\ Len(c) = Len(q) + Len(r)
        /\ \A k \in 1..Len(q) : c[k] = q[k]
        /\ \A k \in 1..Len(r) : c[Len(q) + k] = r[k]
    <2>1. q \in Seq(S) /\ r \in Seq(S)
      BY <1>3, <1>5
    <2>2. Join(c, q, r, S)
      BY <1>1, <2>1, Joined, Zenon
    <2> QED
      BY <2>2 DEF Join
  <1>8. Len(c) = Len(b) + 1
    BY <1>0, <1>3, <1>6, <1>7
  <1>9. ASSUME NEW k \in 1..(Len(b) + 1)
        PROVE  c[k] = IF k < m THEN b[k] ELSE IF k = m THEN v ELSE b[k - 1]
    <2>0. k \in Nat
      BY <1>0
    <2>1. CASE k < m
      <3>1. k \in 1..Len(q) /\ k \in 1..(m - 1)
        BY <1>0, <1>6, <2>1
      <3> QED
        BY <1>6, <1>7, <2>1, <3>1
    <2>2. CASE k = m
      <3>1. k \in 1..Len(q)
        BY <1>0, <1>6, <2>2
      <3> QED
        BY <1>0, <1>6, <1>7, <2>2, <3>1
    <2>3. CASE k > m
      <3>1. /\ k - m \in 1..Len(r) /\ m + (k - m) = k /\ k - m \in 1..(Len(b) - m + 1)
            /\ m + (k - m) - 1 = k - 1
        BY <1>0, <1>3, <2>3
      <3>2. c[k] = r[k - m]
        BY <1>6, <1>7, <3>1
      <3>3. r[k - m] = b[k - 1]
        BY <1>3, <3>1
      <3> QED
        BY <1>0, <2>3, <3>2, <3>3
    <2> QED
      BY <1>0, <2>0, <2>1, <2>2, <2>3
  <1> QED
    BY <1>7, <1>8, <1>9 DEF Insertion

\* Removing from a sequence
Removal(c, b, p, S) ==
    /\ c \in Seq(S) /\ Len(c) = Len(b) - 1
    /\ \A k \in 1..Len(c) : c[k] = IF k < p THEN b[k] ELSE b[k + 1]

\* What RemoveAt does.
LEMMA RemovedAt ==
    ASSUME NEW S, NEW b \in Seq(S), NEW p \in 1..Len(b), NEW c, c = RemoveAt(b, p)
    PROVE  Removal(c, b, p, S)
  <1>0. Len(b) \in Nat /\ p \in Nat /\ p >= 1 /\ p <= Len(b) /\ \A i \in 1..Len(b) : b[i] \in S
    OBVIOUS
  <1> DEFINE q == SubSeq(b, 1, p - 1)
             r == SubSeq(b, p + 1, Len(b))
  <1>1. c = q \o r
    BY DEF RemoveAt
  <1>2. q \in Seq(S) /\ Len(q) = p - 1 /\ \A k \in 1..(p - 1) : q[k] = b[k]
    BY <1>0, SubSeqProperties
  <1>3. r \in Seq(S) /\ Len(r) = Len(b) - p /\ \A k \in 1..(Len(b) - p) : r[k] = b[p + k]
    <2>1. p + 1 <= Len(b) + 1
      BY <1>0
    <2>2. r \in Seq(S) /\ Len(r) = Len(b) - p
      BY <1>0, <2>1, SubSeqProperties
    <2>3. \A k \in 1..(Len(b) - p) : r[k] = b[(p + 1) + k - 1]
      BY <1>0, <2>1, SubSeqProperties
    <2>4. \A k \in 1..(Len(b) - p) : (p + 1) + k - 1 = p + k
      BY <1>0
    <2> QED
      BY <2>2, <2>3, <2>4
  <1> HIDE DEF q, r
  <1>4. Join(c, q, r, S)
    <2>1. q \in Seq(S) /\ r \in Seq(S)
      BY <1>2, <1>3
    <2> QED
      BY <1>1, <2>1, Joined, Zenon
  <1>5. /\ c \in Seq(S) /\ Len(c) = Len(q) + Len(r)
        /\ \A k \in 1..Len(q) : c[k] = q[k]
        /\ \A k \in 1..Len(r) : c[Len(q) + k] = r[k]
    BY <1>4 DEF Join
  <1>6. Len(c) = Len(b) - 1
    BY <1>0, <1>2, <1>3, <1>5
  <1>7. ASSUME NEW k \in 1..Len(c) PROVE c[k] = IF k < p THEN b[k] ELSE b[k + 1]
    <2>1. CASE k < p
      <3>1. k \in 1..Len(q) /\ k \in 1..(p - 1)
        BY <1>0, <1>2, <1>6, <2>1
      <3> QED
        BY <1>2, <1>5, <2>1, <3>1
    <2>2. CASE ~(k < p)
      <3> DEFINE j == k - (p - 1)
      <3>1. j \in 1..Len(r) /\ j \in 1..(Len(b) - p) /\ (p - 1) + j = k /\ p + j = k + 1
        BY <1>0, <1>3, <1>6, <2>2
      <3> HIDE DEF j
      <3>2. c[k] = r[j]
        BY <1>2, <1>5, <3>1
      <3>3. r[j] = b[k + 1]
        BY <1>3, <3>1
      <3> QED
        BY <2>2, <3>2, <3>3
    <2> QED
      BY <2>1, <2>2
  <1> QED
    BY <1>5, <1>6, <1>7 DEF Removal

-----------------------------------------------------------------------------
(* Trees.  V stands for the child views, now or after a step. *)

\* No item is in two places.
Once(V) ==
    \A l, m \in Lists : \A k \in DOMAIN V[l], j \in DOMAIN V[m] :
        V[l][k] = V[m][j] => l = m /\ k = j

Placed(V) == \A f \in Folders : \E l \in Lists : f \in ToSet(V[l])

\* A folder is on a deeper level than the list it is in: the reason why nothing
\* is inside itself.
Level(V, level) ==
    /\ level \in [Lists -> Nat]
    /\ \A l \in Lists, f \in Folders : f \in ToSet(V[l]) => level[l] < level[f]

Tree(V) ==
    /\ V \in [Lists -> Seq(ListItems)]
    /\ Once(V) /\ Placed(V)
    /\ \E level : Level(V, level)

\* ParentView, HasView, ListsAbove and Inside for V
Parent(V, i) == CHOOSE l \in Lists : i \in ToSet(V[l])

Has(V, i) == \E l \in Lists : i \in ToSet(V[l])

Above(V, i) ==
    LET up[d \in 1 .. Depth] ==
            IF d = 1 THEN <<Parent(V, i)>>
            ELSE LET s == up[d - 1]
                 IN  IF Last(s) = Root THEN s ELSE Append(s, Parent(V, Last(s)))
    IN  up[Depth]

Within(V, i, folder) == i = folder \/ folder \in ToSet(Above(V, i))

\* The operators of the model are those for the child views of the state.
LEMMA Views ==
    /\ \A i : ParentView(i) = Parent(childViews, i)
    /\ \A i : HasView(i) <=> Has(childViews, i)
    /\ \A i : ListsAbove(i) = Above(childViews, i)
    /\ \A i, folder : Inside(i, folder) <=> Within(childViews, i, folder)
  <1>1. \A i : ParentView(i) = Parent(childViews, i)
    BY Zenon DEF ParentView, Parent
  <1>2. \A i : HasView(i) <=> Has(childViews, i)
    BY Zenon DEF HasView, Has
  <1>3. \A i : ListsAbove(i) = Above(childViews, i)
    BY Zenon DEF ListsAbove, Above, ParentView, Parent
  <1>4. \A i, folder : Inside(i, folder) <=> Within(childViews, i, folder)
    BY <1>3, Zenon DEF Inside, Within
  <1> QED
    BY <1>1, <1>2, <1>3, <1>4

\* What is assumed of the items and lists, and their number.
LEMMA ListFacts ==
    /\ Folders \subseteq ListItems /\ Root \notin ListItems /\ Lists = Folders \cup {Root}
    /\ IsFiniteSet(ListItems) /\ Depth \in Nat /\ Depth = Cardinality(ListItems)
  BY ListAssumption, FS_CardinalityType DEF Lists, Depth

\* The views of a list, by position and as a set.
LEMMA SeqFacts ==
    ASSUME NEW V \in [Lists -> Seq(ListItems)], NEW l \in Lists
    PROVE  /\ V[l] \in Seq(ListItems) /\ Len(V[l]) \in Nat /\ DOMAIN V[l] = 1..Len(V[l])
           /\ \A k \in 1..Len(V[l]) : V[l][k] \in ListItems /\ V[l][k] \in ToSet(V[l])
           /\ \A i : i \in ToSet(V[l]) <=> \E k \in 1..Len(V[l]) : V[l][k] = i
  <1>1. V[l] \in Seq(ListItems)
    OBVIOUS
  <1>2. Len(V[l]) \in Nat /\ DOMAIN V[l] = 1..Len(V[l]) /\ \A k \in 1..Len(V[l]) : V[l][k] \in ListItems
    BY <1>1
  <1>3. \A i : i \in ToSet(V[l]) <=> \E k \in DOMAIN V[l] : V[l][k] = i
    BY DEF ToSet
  <1> QED
    BY <1>1, <1>2, <1>3

\* What is in a list is an item.
LEMMA Member ==
    ASSUME NEW V \in [Lists -> Seq(ListItems)], NEW l \in Lists, NEW i, i \in ToSet(V[l])
    PROVE  i \in ListItems
  <1>1. \E k \in DOMAIN V[l] : V[l][k] = i
    BY DEF ToSet
  <1> QED
    BY <1>1, SeqFacts

\* An item has one parent.
LEMMA ParentFacts ==
    ASSUME NEW V, V \in [Lists -> Seq(ListItems)], Once(V), NEW i, Has(V, i)
    PROVE  /\ Parent(V, i) \in Lists /\ i \in ToSet(V[Parent(V, i)]) /\ i \in ListItems
           /\ \A l \in Lists : i \in ToSet(V[l]) => l = Parent(V, i)
  <1>1. \E l \in Lists : i \in ToSet(V[l])
    BY DEF Has
  <1>2. Parent(V, i) \in Lists /\ i \in ToSet(V[Parent(V, i)])
    BY <1>1 DEF Parent
  <1> DEFINE p == Parent(V, i)
  <1> HIDE DEF p
  <1>3. p \in Lists /\ i \in ToSet(V[p])
    BY <1>2 DEF p
  <1>4. PICK k \in DOMAIN V[p] : V[p][k] = i
    BY <1>3 DEF ToSet
  <1>5. i \in ListItems
    BY <1>3, Member
  <1>6. ASSUME NEW l \in Lists, i \in ToSet(V[l]) PROVE l = p
    <2>1. PICK j \in DOMAIN V[l] : V[l][j] = i
      BY <1>6 DEF ToSet
    <2> QED
      BY <1>3, <1>4, <2>1 DEF Once
  <1> QED
    BY <1>3, <1>5, <1>6 DEF p

\* The list that an item is found in is its parent.
LEMMA ParentOf ==
    ASSUME NEW V, V \in [Lists -> Seq(ListItems)], Once(V), NEW l \in Lists, NEW i, i \in ToSet(V[l])
    PROVE  Has(V, i) /\ Parent(V, i) = l
  <1>1. Has(V, i)
    BY DEF Has
  <1> QED
    BY <1>1, ParentFacts

\* From an item upwards
Chain(V, i, s) ==
    /\ s \in Seq(Lists) /\ Len(s) >= 1 /\ s[1] = Parent(V, i)
    /\ \A k \in 1..(Len(s) - 1) : s[k] \in Folders /\ s[k + 1] = Parent(V, s[k])

\* One step up
LongerChain(V, s) == IF Last(s) = Root THEN s ELSE Append(s, Parent(V, Last(s)))

\* A chain and its next list are a chain, which has come to the root or is longer.
LEMMA ChainStep ==
    ASSUME NEW V, Tree(V), NEW i, NEW s, Chain(V, i, s), NEW u, u = LongerChain(V, s)
    PROVE  /\ Chain(V, i, u)
           /\ (u[Len(u)] = Root /\ Len(u) = Len(s)) \/ Len(u) = Len(s) + 1
  <1> DEFINE n == Len(s)
  <1>1. s \in Seq(Lists) /\ n \in Nat /\ n >= 1 /\ s[n] \in Lists
    BY DEF Chain
  <1>2. CASE s[n] = Root
    <2>1. u = s
      BY <1>2 DEF LongerChain, Last
    <2> QED
      BY <1>2, <2>1
  <1>3. CASE s[n] # Root
    <2> DEFINE x == s[n]
               y == Parent(V, x)
    <2>1. x \in Folders
      BY <1>1, <1>3, ListFacts
    <2>2. Has(V, x)
      BY <2>1 DEF Tree, Placed, Has
    <2>3. y \in Lists
      BY <2>2, ParentFacts DEF Tree
    <2>4. u = Append(s, y)
      BY <1>3 DEF LongerChain, Last
    <2> HIDE DEF y
    <2>5. /\ u \in Seq(Lists) /\ Len(u) = n + 1 /\ u[n + 1] = y
          /\ \A k \in 1..n : u[k] = s[k]
      BY <1>1, <2>3, <2>4
    <2>6. ASSUME NEW k \in 1..(Len(u) - 1) PROVE u[k] \in Folders /\ u[k + 1] = Parent(V, u[k])
      <3>1. k \in 1..n /\ k \in Nat
        BY <1>1, <2>5
      <3>2. CASE k = n
        BY <2>1, <2>5, <3>1, <3>2 DEF y
      <3>3. CASE k # n
        <4>1. k \in 1..(n - 1) /\ k + 1 \in 1..n
          BY <1>1, <3>1, <3>3
        <4>2. s[k] \in Folders /\ s[k + 1] = Parent(V, s[k])
          BY <4>1 DEF Chain
        <4> QED
          BY <2>5, <3>1, <4>1, <4>2
      <3> QED
        BY <3>2, <3>3
    <2>7. 1 \in 1..n
      BY <1>1
    <2>8. Len(u) >= 1 /\ u[1] = Parent(V, i)
      BY <1>1, <2>5, <2>7 DEF Chain
    <2> QED
      BY <2>5, <2>6, <2>8 DEF Chain
  <1> QED
    BY <1>2, <1>3

\* The chains that ListsAbove makes
Chains(g, V, i, m) ==
    g = [d \in 1..m |-> IF d = 1 THEN <<Parent(V, i)>>
                        ELSE LET s == g[d - 1]
                             IN  IF Last(s) = Root THEN s ELSE Append(s, Parent(V, Last(s)))]

\* The recursive function of ListsAbove exists.
LEMMA ChainsExist ==
    ASSUME NEW V, NEW i, NEW m \in Nat
    PROVE  \E g : Chains(g, V, i, m)
  <1> DEFINE S == {n \in Nat : \E g : Chains(g, V, i, n)}
             Step(s) == IF Last(s) = Root THEN s ELSE Append(s, Parent(V, Last(s)))
             first == <<Parent(V, i)>>
  <1>1. 0 \in S
    <2> DEFINE g == [d \in 1..0 |-> first]
    <2>1. g = [d \in 1..0 |-> IF d = 1 THEN first ELSE Step(g[d - 1])]
      <3> HIDE DEF Step, first
      <3> QED
        OBVIOUS
    <2>2. Chains(g, V, i, 0)
      BY <2>1, Zenon DEF Chains
    <2> QED
      BY <2>2
  <1>2. ASSUME NEW n \in S PROVE n + 1 \in S
    <2>1. n \in Nat
      OBVIOUS
    <2>2. PICK f : Chains(f, V, i, n)
      OBVIOUS
    <2> HIDE DEF S
    <2>3. f = [d \in 1..n |-> IF d = 1 THEN first ELSE Step(f[d - 1])]
      BY <2>2, Zenon DEF Chains
    <2> DEFINE new == IF n = 0 THEN first ELSE Step(f[n])
               g == [d \in 1..(n + 1) |-> IF d <= n THEN f[d] ELSE new]
    <2> HIDE DEF Step, first
    <2>4. ASSUME NEW d \in 1..(n + 1) PROVE g[d] = IF d = 1 THEN first ELSE Step(g[d - 1])
      <3>1. CASE d <= n
        <4>1. d \in 1..n /\ g[d] = f[d] /\ (d # 1 => g[d - 1] = f[d - 1])
          BY <2>1, <3>1
        <4>2. f[d] = IF d = 1 THEN first ELSE Step(f[d - 1])
          BY <2>3, <4>1
        <4> QED
          BY <4>1, <4>2
      <3>2. CASE d = n + 1
        <4>1. g[d] = new /\ (d # 1 => n # 0 /\ g[d - 1] = f[n])
          BY <2>1, <3>2
        <4>2. d = 1 => n = 0
          BY <2>1, <3>2
        <4> QED
          BY <4>1, <4>2
      <3> QED
        BY <2>1, <3>1, <3>2
    <2>5. g = [d \in 1..(n + 1) |-> IF d = 1 THEN first ELSE Step(g[d - 1])]
      BY <2>4
    <2> HIDE DEF g
    <2>6. Chains(g, V, i, n + 1)
      BY <2>5, Zenon DEF Chains, Step, first
    <2> QED
      BY <2>1, <2>6 DEF S
  <1>3. S \subseteq Nat
    OBVIOUS
  <1>4. S = Nat
    <2> HIDE DEF S
    <2> QED
      BY <1>1, <1>2, <1>3, Inductive
  <1> QED
    BY <1>4

\* Going up n times gives a chain of n lists, or one that has come to the root.
LEMMA ChainsFacts ==
    ASSUME NEW V, Tree(V), NEW i, Has(V, i), NEW m \in Nat, NEW g, Chains(g, V, i, m)
    PROVE  \A n \in 1..m : Chain(V, i, g[n]) /\ (g[n][Len(g[n])] = Root \/ Len(g[n]) = n)
  <1> DEFINE Ok(s, n) == Chain(V, i, s) /\ (s[Len(s)] = Root \/ Len(s) = n)
             S == {n \in Nat : n \in 1..m => Ok(g[n], n)}
             first == <<Parent(V, i)>>
  <1>1. \A d \in 1..m : g[d] = IF d = 1 THEN first ELSE LongerChain(V, g[d - 1])
    <2>1. g = [d \in 1..m |-> IF d = 1 THEN first ELSE LongerChain(V, g[d - 1])]
      BY Zenon DEF Chains, LongerChain
    <2> HIDE DEF first
    <2> QED
      BY <2>1
  <1>2. Ok(first, 1)
    <2>1. Parent(V, i) \in Lists
      BY ParentFacts DEF Tree
    <2>2. first \in Seq(Lists) /\ Len(first) = 1 /\ first[1] = Parent(V, i)
      BY <2>1
    <2>3. \A k \in 1..(1 - 1) : FALSE
      OBVIOUS
    <2> HIDE DEF first
    <2> QED
      BY <2>2, <2>3 DEF Chain
  <1>3. S \subseteq Nat /\ 0 \in S
    OBVIOUS
  <1>4. ASSUME NEW n \in S PROVE n + 1 \in S
    <2>1. n \in Nat /\ (n \in 1..m => Ok(g[n], n))
      OBVIOUS
    <2> SUFFICES ASSUME n + 1 \in 1..m PROVE Ok(g[n + 1], n + 1)
      BY <2>1
    <2> HIDE DEF S, first
    <2>2. CASE n = 0
      <3>1. g[n + 1] = first
        BY <1>1, <2>2
      <3> QED
        BY <1>2, <2>2, <3>1
    <2>3. CASE n # 0
      <3>1. n \in 1..m /\ n + 1 # 1 /\ (n + 1) - 1 = n
        BY <2>1, <2>3
      <3>2. g[n + 1] = LongerChain(V, g[n])
        BY <1>1, <3>1
      <3>3. Chain(V, i, g[n])
        BY <2>1, <3>1
      <3>4. /\ Chain(V, i, g[n + 1])
            /\ g[n + 1][Len(g[n + 1])] = Root \/ Len(g[n + 1]) = Len(g[n]) + 1
        BY <3>2, <3>3, ChainStep
      <3>5. CASE g[n][Len(g[n])] = Root
        <4>1. g[n + 1] = g[n]
          BY <3>2, <3>5 DEF LongerChain, Last
        <4> QED
          BY <3>3, <3>5, <4>1
      <3>6. CASE Len(g[n]) = n
        BY <3>4, <3>6
      <3> QED
        BY <2>1, <3>1, <3>5, <3>6
    <2> QED
      BY <2>2, <2>3
  <1>5. S = Nat
    <2> HIDE DEF S
    <2> QED
      BY <1>3, <1>4, Inductive
  <1>6. \A n \in 1..m : Ok(g[n], n)
    <2>1. \A n \in 1..m : n \in S
      BY <1>5
    <2> QED
      BY <2>1
  <1> QED
    BY <1>6

\* Levels become smaller on the way up.
LEMMA ChainLevels ==
    ASSUME NEW V, Tree(V), NEW level, Level(V, level), NEW i, NEW s, Chain(V, i, s)
    PROVE  \A k, j \in 1..Len(s) : k < j => level[s[j]] < level[s[k]]
  <1> DEFINE P(k, j) == level[s[j]] < level[s[k]]
  <1>0. Len(s) \in Nat /\ \A k \in 1..Len(s) : s[k] \in Lists
    BY DEF Chain
  <1>1. ASSUME NEW k \in 1..Len(s), k + 1 <= Len(s) PROVE P(k, k + 1)
    <2>1. k \in 1..(Len(s) - 1)
      BY <1>0, <1>1
    <2>2. s[k] \in Folders /\ s[k + 1] = Parent(V, s[k])
      BY <2>1 DEF Chain
    <2>3. Has(V, s[k])
      BY <2>2 DEF Tree, Placed, Has
    <2>4. s[k] \in ToSet(V[s[k + 1]]) /\ s[k + 1] \in Lists
      BY <2>2, <2>3, ParentFacts DEF Tree
    <2> QED
      BY <2>2, <2>4 DEF Level
  <1> SUFFICES ASSUME NEW k \in 1..Len(s) PROVE \A j \in 1..Len(s) : k < j => P(k, j)
    OBVIOUS
  <1>2. \A j \in 1..Len(s) : level[s[j]] \in Nat
    BY <1>0 DEF Level
  <1> DEFINE S == {n \in Nat : n \in 1..Len(s) /\ k < n => P(k, n)}
  <1>3. S \subseteq Nat /\ 0 \in S
    OBVIOUS
  <1>4. ASSUME NEW n \in S PROVE n + 1 \in S
    <2>1. n \in Nat /\ (n \in 1..Len(s) /\ k < n => P(k, n))
      OBVIOUS
    <2> SUFFICES ASSUME n + 1 \in 1..Len(s), k < n + 1 PROVE P(k, n + 1)
      BY <2>1
    <2> HIDE DEF S
    <2>2. n \in 1..Len(s) /\ n + 1 <= Len(s) /\ (k = n \/ k < n)
      BY <1>0, <2>1
    <2>3. P(n, n + 1)
      BY <1>1, <2>2
    <2> QED
      BY <1>2, <2>1, <2>2, <2>3
  <1>5. S = Nat
    <2> HIDE DEF S
    <2> QED
      BY <1>3, <1>4, Inductive
  <1>6. ASSUME NEW j \in 1..Len(s), k < j PROVE P(k, j)
    <2>1. j \in S
      BY <1>5
    <2> QED
      BY <1>6, <2>1
  <1> QED
    BY <1>6

\* ListsAbove goes up to the root: there are not more lists than that.
LEMMA AboveFacts ==
    ASSUME NEW V, Tree(V), NEW i, Has(V, i), NEW s, s = Above(V, i)
    PROVE  Chain(V, i, s) /\ s[Len(s)] = Root
  <1> DEFINE Rec(g) == Chains(g, V, i, Depth)
             up == CHOOSE g : Rec(g)
  <1>0. i \in ListItems /\ Depth \in Nat /\ Depth = Cardinality(ListItems) /\ IsFiniteSet(ListItems)
    BY ParentFacts, ListFacts DEF Tree
  <1>1. \E g : Rec(g)
    BY <1>0, ChainsExist
  <1>2. Rec(up)
    <2> HIDE DEF Rec
    <2> QED
      BY <1>1
  <1>3. s = up[Depth]
    BY Zenon DEF Above, Chains
  <1> HIDE DEF up
  <1>4. Depth # 0
    <2>1. ListItems # {}
      BY <1>0
    <2> QED
      BY <1>0, <2>1, FS_EmptySet
  <1>5. Depth \in 1..Depth
    BY <1>0, <1>4
  <1>6. Chain(V, i, s) /\ (s[Len(s)] = Root \/ Len(s) = Depth)
    BY <1>0, <1>2, <1>3, <1>5, ChainsFacts
  <1>7. ASSUME s[Len(s)] # Root, Len(s) = Depth PROVE FALSE
    <2> DEFINE X == ListItems \ {i}
    <2>1. PICK level : Level(V, level)
      BY DEF Tree
    <2>2. \A k, j \in 1..Len(s) : k < j => level[s[j]] < level[s[k]]
      BY <1>6, <2>1, ChainLevels
    <2>3. s \in Seq(Lists) /\ (\A k \in 1..Len(s) : s[k] \in Lists /\ level[s[k]] \in Nat)
      BY <1>6, <2>1 DEF Chain, Level
    <2>4. ASSUME NEW k \in 1..Len(s) PROVE s[k] \in Folders
      <3>1. CASE k = Len(s)
        BY <1>7, <2>3, <3>1, ListFacts
      <3>2. CASE k # Len(s)
        <4>1. k \in 1..(Len(s) - 1)
          BY <1>0, <1>7, <3>2
        <4> QED
          BY <1>6, <4>1 DEF Chain
      <3> QED
        BY <3>1, <3>2
    <2>5. ASSUME NEW k \in 1..Len(s), s[k] = i PROVE FALSE
      <3>1. i \in Folders
        BY <2>4, <2>5
      <3>2. s[1] = Parent(V, i) /\ 1 \in 1..Len(s)
        BY <1>0, <1>5, <1>6, <1>7 DEF Chain
      <3>3. s[1] \in Lists /\ i \in ToSet(V[s[1]])
        BY <3>2, ParentFacts DEF Tree
      <3>4. level[s[1]] < level[i] /\ level[i] \in Nat /\ level[s[1]] \in Nat
        BY <2>1, <2>3, <2>5, <3>1, <3>2, <3>3 DEF Level
      <3>5. CASE k = 1
        BY <2>5, <3>4, <3>5
      <3>6. CASE 1 < k
        BY <2>2, <2>5, <3>2, <3>4, <3>6
      <3> QED
        BY <3>5, <3>6
    <2>6. ASSUME NEW k \in 1..Len(s), NEW j \in 1..Len(s), s[k] = s[j] PROVE k = j
      <3>1. k \in Nat /\ j \in Nat
        OBVIOUS
      <3>2. ~(k < j) /\ ~(j < k)
        BY <2>2, <2>3, <2>6
      <3> QED
        BY <3>1, <3>2
    <2> DEFINE f == [k \in 1..Len(s) |-> s[k]]
    <2>7. f \in [1..Depth -> X] /\ \A k, j \in 1..Depth : f[k] = f[j] => k = j
      BY <1>7, <2>4, <2>5, <2>6, ListFacts
    <2> HIDE DEF f
    <2>8. f \in Injection(1..Depth, X)
      BY <2>7 DEF Injection, IsInjective
    <2>9. IsFiniteSet(X) /\ Cardinality(X) = Cardinality(ListItems) - 1
      BY <1>0, FS_RemoveElement
    <2>10. IsFiniteSet(1..Depth) /\ Cardinality(1..Depth) = Depth
      BY <1>0, FS_Interval
    <2> HIDE DEF X
    <2>11. Cardinality(1..Depth) <= Cardinality(X)
      BY <2>8, <2>9, <2>10, FS_Injection
    <2> QED
      BY <1>0, <2>9, <2>10, <2>11
  <1> QED
    BY <1>6, <1>7

\* What AboveFacts means for the lists in it.
LEMMA AboveLists ==
    ASSUME NEW V, Tree(V), NEW i, Has(V, i), NEW s, s = Above(V, i)
    PROVE  /\ s \in Seq(Lists) /\ Len(s) \in Nat /\ Len(s) >= 1 /\ DOMAIN s = 1..Len(s)
           /\ s[1] = Parent(V, i) /\ s[Len(s)] = Root
           /\ \A k \in 1..Len(s) : k < Len(s) =>
                 s[k] \in Folders /\ s[k] # Root /\ k + 1 \in 1..Len(s) /\ s[k + 1] = Parent(V, s[k])
  <1>1. Chain(V, i, s) /\ s[Len(s)] = Root
    BY AboveFacts
  <1>2. s \in Seq(Lists) /\ Len(s) >= 1 /\ s[1] = Parent(V, i)
    BY <1>1 DEF Chain
  <1>3. Len(s) \in Nat /\ DOMAIN s = 1..Len(s)
    BY <1>2
  <1>4. ASSUME NEW k \in 1..Len(s), k < Len(s)
        PROVE  s[k] \in Folders /\ s[k] # Root /\ k + 1 \in 1..Len(s) /\ s[k + 1] = Parent(V, s[k])
    <2>1. k \in 1..(Len(s) - 1) /\ k + 1 \in 1..Len(s)
      BY <1>3, <1>4
    <2>2. s[k] \in Folders /\ s[k + 1] = Parent(V, s[k])
      BY <1>1, <2>1 DEF Chain
    <2>3. s[k] # Root
      BY <2>2, ListFacts
    <2> QED
      BY <2>1, <2>2, <2>3
  <1> QED
    BY <1>1, <1>2, <1>3, <1>4

\* Above an item is its list, and what is above that.
LEMMA AboveParent ==
    ASSUME NEW V, Tree(V), NEW i, Has(V, i), NEW y, y = Parent(V, i), y # Root,
           NEW s, s = Above(V, i), NEW u, u = Above(V, y)
    PROVE  /\ y \in Folders /\ Has(V, y) /\ Len(s) = Len(u) + 1
           /\ \A k \in 1..Len(u) : k + 1 \in 1..Len(s) /\ s[k + 1] = u[k]
  <1>0. y \in Folders /\ Has(V, y)
    <2>1. y \in Lists
      BY ParentFacts DEF Tree
    <2>2. y \in Folders
      BY <2>1, ListFacts
    <2> QED
      BY <2>2 DEF Tree, Placed, Has
  <1>1. /\ Len(s) \in Nat /\ Len(s) >= 1 /\ s[1] = y /\ s[Len(s)] = Root
        /\ \A k \in 1..Len(s) : k < Len(s) =>
              s[k] \in Folders /\ s[k] # Root /\ k + 1 \in 1..Len(s) /\ s[k + 1] = Parent(V, s[k])
    BY AboveLists
  <1>2. /\ Len(u) \in Nat /\ Len(u) >= 1 /\ u[1] = Parent(V, y) /\ u[Len(u)] = Root
        /\ \A k \in 1..Len(u) : k < Len(u) =>
              u[k] \in Folders /\ u[k] # Root /\ k + 1 \in 1..Len(u) /\ u[k + 1] = Parent(V, u[k])
    BY <1>0, AboveLists
  <1> DEFINE P(k) == k + 1 \in 1..Len(s) /\ s[k + 1] = u[k]
             S == {k \in Nat : k \in 1..Len(u) => P(k)}
  <1>3. S \subseteq Nat /\ 0 \in S
    OBVIOUS
  <1>4. ASSUME NEW k \in S PROVE k + 1 \in S
    <2>1. k \in Nat /\ (k \in 1..Len(u) => P(k))
      OBVIOUS
    <2> SUFFICES ASSUME k + 1 \in 1..Len(u) PROVE P(k + 1)
      BY <2>1
    <2> HIDE DEF S
    <2>2. CASE k = 0
      <3>1. 1 \in 1..Len(s) /\ Len(s) # 1
        BY <1>1
      <3>2. 1 < Len(s)
        BY <1>1, <3>1
      <3>3. s[2] = u[1] /\ 2 \in 1..Len(s)
        BY <1>1, <1>2, <3>1, <3>2
      <3> QED
        BY <2>2, <3>3
    <2>3. CASE k # 0
      <3>1. k \in 1..Len(u) /\ k < Len(u)
        BY <1>2, <2>1, <2>3
      <3>2. k + 1 \in 1..Len(s) /\ s[k + 1] = u[k] /\ u[k] # Root /\ u[k + 1] = Parent(V, u[k])
        BY <1>2, <2>1, <3>1
      <3>3. k + 1 < Len(s)
        BY <1>1, <2>1, <3>2
      <3>4. (k + 1) + 1 \in 1..Len(s) /\ s[(k + 1) + 1] = Parent(V, s[k + 1])
        BY <1>1, <3>2, <3>3
      <3> QED
        BY <3>2, <3>4
    <2> QED
      BY <2>2, <2>3
  <1>5. S = Nat
    <2> HIDE DEF S
    <2> QED
      BY <1>3, <1>4, Inductive
  <1>6. \A k \in 1..Len(u) : P(k)
    <2>1. \A k \in 1..Len(u) : k \in S
      BY <1>5
    <2> QED
      BY <2>1
  <1>7. Len(s) = Len(u) + 1
    <2>1. Len(u) \in 1..Len(u)
      BY <1>2
    <2>2. Len(u) + 1 \in 1..Len(s) /\ s[Len(u) + 1] = Root
      BY <1>2, <1>6, <2>1
    <2>3. ~(Len(u) + 1 < Len(s))
      BY <1>1, <2>2
    <2> QED
      BY <1>1, <1>2, <2>2, <2>3
  <1> QED
    BY <1>0, <1>6, <1>7

\* Inside a folder is the folder itself, and what is in something inside it.
LEMMA WithinParent ==
    ASSUME NEW V, Tree(V), NEW i, Has(V, i), NEW d \in ListItems, NEW y, y = Parent(V, i)
    PROVE  Within(V, i, d) <=> (i = d \/ (y # Root /\ Within(V, y, d)))
  <1> DEFINE s == Above(V, i)
             u == Above(V, y)
  <1>1. /\ Len(s) \in Nat /\ Len(s) >= 1 /\ DOMAIN s = 1..Len(s) /\ s[1] = y /\ s[Len(s)] = Root
        /\ \A k \in 1..Len(s) : k < Len(s) => s[k] \in Folders
    BY AboveLists
  <1>2. d # Root
    BY ListFacts
  <1>3. CASE y = Root
    <2> HIDE DEF s
    <2>1. ~(1 < Len(s))
      <3>1. 1 \in 1..Len(s) /\ s[1] \notin Folders
        BY <1>1, <1>3, ListFacts
      <3> QED
        BY <1>1, <3>1
    <2>2. \A k \in DOMAIN s : s[k] = Root
      BY <1>1, <2>1, <1>3
    <2>3. d \notin ToSet(s)
      BY <1>2, <2>2 DEF ToSet
    <2> QED
      BY <1>3, <2>3 DEF Within, s
  <1>4. CASE y # Root
    <2>1. /\ y \in Folders /\ Has(V, y) /\ Len(s) = Len(u) + 1
          /\ \A k \in 1..Len(u) : k + 1 \in 1..Len(s) /\ s[k + 1] = u[k]
      BY <1>4, AboveParent
    <2>2. Len(u) \in Nat /\ DOMAIN u = 1..Len(u)
      BY <2>1, AboveLists
    <2> HIDE DEF s, u
    <2>3. ASSUME d \in ToSet(s) PROVE d = y \/ d \in ToSet(u)
      <3>1. PICK k \in 1..Len(s) : s[k] = d
        BY <1>1, <2>3 DEF ToSet
      <3>2. CASE k = 1
        BY <1>1, <3>1, <3>2
      <3>3. CASE k # 1
        <4>1. k - 1 \in 1..Len(u) /\ (k - 1) + 1 = k
          BY <1>1, <2>1, <2>2, <3>3
        <4>2. u[k - 1] = d
          BY <2>1, <3>1, <4>1
        <4> QED
          BY <2>2, <4>1, <4>2 DEF ToSet
      <3> QED
        BY <3>2, <3>3
    <2>4. ASSUME d = y PROVE d \in ToSet(s)
      <3>1. 1 \in DOMAIN s /\ s[1] = d
        BY <1>1, <2>4
      <3> QED
        BY <3>1 DEF ToSet
    <2>5. ASSUME d \in ToSet(u) PROVE d \in ToSet(s)
      <3>1. PICK k \in 1..Len(u) : u[k] = d
        BY <2>2, <2>5 DEF ToSet
      <3>2. k + 1 \in DOMAIN s /\ s[k + 1] = d
        BY <1>1, <2>1, <3>1
      <3> QED
        BY <3>2 DEF ToSet
    <2> QED
      BY <1>4, <2>3, <2>4, <2>5 DEF Within, s, u
  <1> QED
    BY <1>3, <1>4

\* An item is not in something inside it.
LEMMA ParentNotWithin ==
    ASSUME NEW V, Tree(V), NEW d, Has(V, d), NEW y, y = Parent(V, d), y # Root
    PROVE  ~Within(V, y, d)
  <1> DEFINE u == Above(V, y)
  <1>1. PICK level : Level(V, level)
    BY DEF Tree
  <1>2. y \in Folders /\ Has(V, y) /\ d \in ToSet(V[y]) /\ y \in Lists
    <2>1. y \in Lists /\ d \in ToSet(V[y])
      BY ParentFacts DEF Tree
    <2>2. y \in Folders
      BY <2>1, ListFacts
    <2> QED
      BY <2>1, <2>2 DEF Tree, Placed, Has
  <1>3. Chain(V, y, u)
    BY <1>2, AboveFacts
  <1>4. /\ u \in Seq(Lists) /\ Len(u) \in Nat /\ Len(u) >= 1 /\ DOMAIN u = 1..Len(u)
        /\ u[1] = Parent(V, y)
    BY <1>2, AboveLists
  <1> HIDE DEF u
  <1>5. \A k, j \in 1..Len(u) : k < j => level[u[j]] < level[u[k]]
    BY <1>1, <1>3, ChainLevels
  <1>6. level[u[1]] < level[y]
    <2>1. u[1] \in Lists /\ y \in ToSet(V[u[1]])
      BY <1>2, <1>4, ParentFacts DEF Tree
    <2> QED
      BY <1>1, <1>2, <2>1 DEF Level
  <1>7. ASSUME NEW k \in 1..Len(u) PROVE level[u[k]] < level[y] /\ level[u[k]] \in Nat
    <2>1. 1 \in 1..Len(u) /\ u[k] \in Lists /\ u[1] \in Lists
      BY <1>4
    <2>2. level[u[k]] \in Nat /\ level[u[1]] \in Nat /\ level[y] \in Nat
      BY <1>1, <1>2, <2>1 DEF Level
    <2>3. CASE k = 1
      BY <1>6, <2>2, <2>3
    <2>4. CASE 1 < k
      <3>1. level[u[k]] < level[u[1]]
        BY <1>5, <2>1, <2>4
      <3> QED
        BY <1>6, <2>2, <3>1
    <2> QED
      BY <2>3, <2>4
  <1>8. ASSUME d \in Folders PROVE level[y] < level[d] /\ level[d] \in Nat /\ level[y] \in Nat
    <2>1. d \in Lists
      BY <1>8, ListFacts
    <2> QED
      BY <1>1, <1>2, <1>8, <2>1 DEF Level
  <1>9. y # d
    BY <1>2, <1>8
  <1>10. ASSUME d \in ToSet(u) PROVE FALSE
    <2>1. PICK k \in 1..Len(u) : u[k] = d
      BY <1>4, <1>10 DEF ToSet
    <2>2. d \in ListItems
      BY ParentFacts DEF Tree
    <2>3. d \in Folders
      BY <1>4, <2>1, <2>2, ListFacts
    <2> QED
      BY <1>7, <1>8, <2>1, <2>3
  <1> QED
    BY <1>9, <1>10 DEF Within, u

-----------------------------------------------------------------------------
(* Moving *)

\* removeObject
LEMMA RemovedObject ==
    ASSUME NEW S, NEW b \in Seq(S), NEW i, \A k, j \in 1..Len(b) : b[k] = b[j] => k = j,
           NEW c, c = RemoveObject(b, i)
    PROVE  /\ c \in Seq(S) /\ ToSet(c) = ToSet(b) \ {i} /\ Len(c) <= Len(b)
           /\ \A k, j \in 1..Len(c) : c[k] = c[j] => k = j
  <1>0. Len(b) \in Nat /\ DOMAIN b = 1..Len(b)
    OBVIOUS
  <1>1. CASE i \notin ToSet(b)
    <2>1. c = b
      BY <1>1 DEF RemoveObject
    <2> QED
      BY <1>0, <1>1, <2>1
  <1>2. CASE i \in ToSet(b)
    <2> DEFINE p == CHOOSE k \in DOMAIN b : b[k] = i
    <2>1. \E k \in DOMAIN b : b[k] = i
      BY <1>2 DEF ToSet
    <2>2. p \in 1..Len(b) /\ b[p] = i
      BY <1>0, <2>1
    <2>3. c = RemoveAt(b, p)
      BY <1>2, Zenon DEF RemoveObject
    <2> HIDE DEF p
    <2>4. Removal(c, b, p, S)
      BY <2>2, <2>3, RemovedAt, Zenon
    <2>5. /\ c \in Seq(S) /\ Len(c) = Len(b) - 1
          /\ \A k \in 1..Len(c) : c[k] = IF k < p THEN b[k] ELSE b[k + 1]
      BY <2>4 DEF Removal
    <2>6. DOMAIN c = 1..Len(c) /\ Len(c) \in Nat
      BY <2>5
    <2> DEFINE at(k) == IF k < p THEN k ELSE k + 1
    <2>7. ASSUME NEW k \in 1..Len(c) PROVE at(k) \in 1..Len(b) /\ at(k) # p /\ c[k] = b[at(k)]
      BY <1>0, <2>2, <2>5
    <2>8. ASSUME NEW k \in 1..Len(c), NEW j \in 1..Len(c), c[k] = c[j] PROVE k = j
      <3>1. at(k) = at(j)
        <4> HIDE DEF at
        <4> QED
          BY <2>7, <2>8
      <3> QED
        BY <1>0, <2>2, <2>5, <3>1
    <2>9. ASSUME NEW k \in 1..Len(c) PROVE c[k] \in ToSet(b) /\ c[k] # i
      <3> HIDE DEF at
      <3> QED
        BY <1>0, <2>2, <2>7 DEF ToSet
    <2>10. ASSUME NEW x \in ToSet(b), x # i PROVE x \in ToSet(c)
      <3>1. PICK k \in 1..Len(b) : b[k] = x
        BY <1>0 DEF ToSet
      <3>2. k # p
        BY <2>2, <2>10, <3>1
      <3>3. CASE k < p
        <4>1. k \in 1..Len(c) /\ c[k] = x
          BY <1>0, <2>2, <2>5, <3>1, <3>3
        <4> QED
          BY <2>6, <4>1 DEF ToSet
      <3>4. CASE p < k
        <4>1. k - 1 \in 1..Len(c) /\ (k - 1) + 1 = k /\ ~(k - 1 < p)
          BY <1>0, <2>2, <2>5, <3>4
        <4>2. c[k - 1] = x
          BY <2>5, <3>1, <4>1
        <4> QED
          BY <2>6, <4>1, <4>2 DEF ToSet
      <3> QED
        BY <1>0, <2>2, <3>2, <3>3, <3>4
    <2>11. ToSet(c) = ToSet(b) \ {i}
      <3>1. \A x \in ToSet(c) : \E k \in 1..Len(c) : c[k] = x
        BY <2>6 DEF ToSet
      <3> QED
        BY <2>9, <2>10, <3>1
    <2> QED
      BY <1>0, <2>5, <2>8, <2>11
  <1> QED
    BY <1>1, <1>2

LEMMA InsertedObject ==
    ASSUME NEW S, NEW b \in Seq(S), NEW i \in S, i \notin ToSet(b),
           \A k, j \in 1..Len(b) : b[k] = b[j] => k = j,
           NEW m \in 1..(Len(b) + 1), NEW c, c = InsertAt(b, m, i)
    PROVE  /\ c \in Seq(S) /\ ToSet(c) = ToSet(b) \cup {i}
           /\ \A k, j \in 1..Len(c) : c[k] = c[j] => k = j
  <1>0. Len(b) \in Nat /\ DOMAIN b = 1..Len(b) /\ m \in Nat
    OBVIOUS
  <1>1. Insertion(c, b, m, i, S)
    BY InsertedAt, Zenon
  <1>2. /\ c \in Seq(S) /\ Len(c) = Len(b) + 1
        /\ \A k \in 1..Len(c) : c[k] = IF k < m THEN b[k] ELSE IF k = m THEN i ELSE b[k - 1]
    BY <1>1 DEF Insertion
  <1>3. DOMAIN c = 1..Len(c) /\ Len(c) \in Nat
    BY <1>2
  <1> DEFINE at(k) == IF k < m THEN k ELSE k - 1
  <1>4. ASSUME NEW k \in 1..Len(c), k # m PROVE at(k) \in 1..Len(b) /\ c[k] = b[at(k)]
    BY <1>0, <1>2, <1>4
  <1>5. m \in 1..Len(c) /\ c[m] = i
    BY <1>0, <1>2
  <1>6. \A k \in 1..Len(b) : b[k] # i
    BY <1>0 DEF ToSet
  <1>7. ASSUME NEW k \in 1..Len(c), NEW j \in 1..Len(c), c[k] = c[j] PROVE k = j
    <2>1. k # m /\ j # m => at(k) = at(j)
      <3> HIDE DEF at
      <3> QED
        BY <1>4, <1>7
    <2>2. k = m <=> j = m
      <3> HIDE DEF at
      <3> QED
        BY <1>4, <1>5, <1>6, <1>7
    <2> QED
      BY <1>0, <1>2, <2>1, <2>2
  <1>8. ASSUME NEW k \in 1..Len(c) PROVE c[k] \in ToSet(b) \cup {i}
    <2> HIDE DEF at
    <2> QED
      BY <1>0, <1>4, <1>5 DEF ToSet
  <1>9. ASSUME NEW k \in 1..Len(b) PROVE b[k] \in ToSet(c)
    <2>1. CASE k < m
      <3>1. k \in 1..Len(c) /\ c[k] = b[k]
        BY <1>0, <1>2, <2>1
      <3> QED
        BY <1>3, <3>1 DEF ToSet
    <2>2. CASE ~(k < m)
      <3>1. k + 1 \in 1..Len(c) /\ ~(k + 1 < m) /\ k + 1 # m /\ (k + 1) - 1 = k
        BY <1>0, <1>2, <2>2
      <3>2. c[k + 1] = b[k]
        BY <1>2, <3>1
      <3> QED
        BY <1>3, <3>1, <3>2 DEF ToSet
    <2> QED
      BY <2>1, <2>2
  <1>10. ToSet(c) = ToSet(b) \cup {i}
    <2>1. \A x \in ToSet(c) : \E k \in 1..Len(c) : c[k] = x
      BY <1>3 DEF ToSet
    <2>2. \A x \in ToSet(b) : \E k \in 1..Len(b) : b[k] = x
      BY <1>0 DEF ToSet
    <2>3. i \in ToSet(c)
      BY <1>3, <1>5 DEF ToSet
    <2> QED
      BY <1>8, <1>9, <2>1, <2>2, <2>3
  <1> QED
    BY <1>2, <1>7, <1>10

\* Once says that no list has an item twice, and no two lists have the same.
LEMMA OnceLists ==
    ASSUME NEW V, V \in [Lists -> Seq(ListItems)], Once(V)
    PROVE  /\ \A l \in Lists : \A k, j \in 1..Len(V[l]) : V[l][k] = V[l][j] => k = j
           /\ \A l, m \in Lists : \A i : i \in ToSet(V[l]) /\ i \in ToSet(V[m]) => l = m
  <1>1. ASSUME NEW l \in Lists, NEW k \in 1..Len(V[l]), NEW j \in 1..Len(V[l]), V[l][k] = V[l][j]
        PROVE  k = j
    <2>1. DOMAIN V[l] = 1..Len(V[l])
      BY SeqFacts
    <2> QED
      BY <1>1, <2>1 DEF Once
  <1>2. ASSUME NEW l \in Lists, NEW m \in Lists, NEW i, i \in ToSet(V[l]), i \in ToSet(V[m])
        PROVE  l = m
    <2>1. PICK k \in DOMAIN V[l] : V[l][k] = i
      BY <1>2 DEF ToSet
    <2>2. PICK j \in DOMAIN V[m] : V[m][j] = i
      BY <1>2 DEF ToSet
    <2> QED
      BY <2>1, <2>2 DEF Once
  <1> QED
    BY <1>1, <1>2

\* And the other way round.
LEMMA ListsOnce ==
    ASSUME NEW V, V \in [Lists -> Seq(ListItems)],
           \A l \in Lists : \A k, j \in 1..Len(V[l]) : V[l][k] = V[l][j] => k = j,
           \A l, m \in Lists : \A i : i \in ToSet(V[l]) /\ i \in ToSet(V[m]) => l = m
    PROVE  Once(V)
  <1> SUFFICES ASSUME NEW l \in Lists, NEW m \in Lists, NEW k \in DOMAIN V[l], NEW j \in DOMAIN V[m],
                      V[l][k] = V[m][j]
               PROVE  l = m /\ k = j
    BY DEF Once
  <1>1. V[l][k] \in ToSet(V[l]) /\ V[m][j] \in ToSet(V[m])
    BY DEF ToSet
  <1>2. l = m
    BY <1>1
  <1>3. DOMAIN V[l] = 1..Len(V[l])
    BY SeqFacts
  <1> QED
    BY <1>2, <1>3

\* Without the dragged item
Without(W, V, S, d) ==
    /\ W \in [Lists -> Seq(ListItems)] /\ Once(W)
    /\ \A l \in Lists : l # S => W[l] = V[l]
    /\ ToSet(W[S]) = ToSet(V[S]) \ {d}

\* removeObject on one of the lists.
LEMMA WithoutItem ==
    ASSUME NEW V, V \in [Lists -> Seq(ListItems)], Once(V), NEW S \in Lists, NEW d,
           NEW W, W = [V EXCEPT ![S] = RemoveObject(@, d)]
    PROVE  Without(W, V, S, d)
  <1> DEFINE c == RemoveObject(V[S], d)
  <1>1. V[S] \in Seq(ListItems) /\ \A k, j \in 1..Len(V[S]) : V[S][k] = V[S][j] => k = j
    BY OnceLists
  <1>2. /\ c \in Seq(ListItems) /\ ToSet(c) = ToSet(V[S]) \ {d}
        /\ \A k, j \in 1..Len(c) : c[k] = c[j] => k = j
    BY <1>1, RemovedObject
  <1>3. W = [V EXCEPT ![S] = c]
    OBVIOUS
  <1> HIDE DEF c
  <1>4. W \in [Lists -> Seq(ListItems)] /\ W[S] = c /\ \A l \in Lists : l # S => W[l] = V[l]
    BY <1>2, <1>3
  <1>5. \A l \in Lists : ToSet(W[l]) \subseteq ToSet(V[l])
    BY <1>2, <1>4
  <1>6. Once(W)
    <2>1. \A l \in Lists : \A k, j \in 1..Len(W[l]) : W[l][k] = W[l][j] => k = j
      <3> SUFFICES ASSUME NEW l \in Lists PROVE \A k, j \in 1..Len(W[l]) : W[l][k] = W[l][j] => k = j
        OBVIOUS
      <3>1. CASE l = S
        BY <1>2, <1>4, <3>1
      <3>2. CASE l # S
        BY <1>4, <3>2, OnceLists
      <3> QED
        BY <3>1, <3>2
    <2>2. \A l, m \in Lists : \A i : i \in ToSet(W[l]) /\ i \in ToSet(W[m]) => l = m
      <3>1. \A l, m \in Lists : \A i : i \in ToSet(V[l]) /\ i \in ToSet(V[m]) => l = m
        BY OnceLists
      <3> QED
        BY <1>5, <3>1
    <2> QED
      BY <1>4, <2>1, <2>2, ListsOnce
  <1> QED
    BY <1>2, <1>4, <1>6 DEF Without

\* With an item that was nowhere
With(U, W, T, d) ==
    /\ U \in [Lists -> Seq(ListItems)] /\ Once(U)
    /\ \A l \in Lists : l # T => U[l] = W[l]
    /\ ToSet(U[T]) = ToSet(W[T]) \cup {d}

\* insertAt on one of the lists.
LEMMA WithItem ==
    ASSUME NEW W, W \in [Lists -> Seq(ListItems)], Once(W), NEW T \in Lists, NEW d \in ListItems,
           \A l \in Lists : d \notin ToSet(W[l]),
           NEW m \in 1..(Len(W[T]) + 1), NEW U, U = [W EXCEPT ![T] = InsertAt(@, m, d)]
    PROVE  With(U, W, T, d)
  <1> DEFINE c == InsertAt(W[T], m, d)
  <1>1. W[T] \in Seq(ListItems) /\ \A k, j \in 1..Len(W[T]) : W[T][k] = W[T][j] => k = j
    BY OnceLists
  <1>2. /\ c \in Seq(ListItems) /\ ToSet(c) = ToSet(W[T]) \cup {d}
        /\ \A k, j \in 1..Len(c) : c[k] = c[j] => k = j
    BY <1>1, InsertedObject
  <1>3. U = [W EXCEPT ![T] = c]
    OBVIOUS
  <1> HIDE DEF c
  <1>4. U \in [Lists -> Seq(ListItems)] /\ U[T] = c /\ \A l \in Lists : l # T => U[l] = W[l]
    BY <1>2, <1>3
  <1>6. Once(U)
    <2>1. \A l \in Lists : \A k, j \in 1..Len(U[l]) : U[l][k] = U[l][j] => k = j
      <3> SUFFICES ASSUME NEW l \in Lists PROVE \A k, j \in 1..Len(U[l]) : U[l][k] = U[l][j] => k = j
        OBVIOUS
      <3>1. CASE l = T
        BY <1>2, <1>4, <3>1
      <3>2. CASE l # T
        BY <1>4, <3>2, OnceLists
      <3> QED
        BY <3>1, <3>2
    <2>2. \A l, n \in Lists : \A i : i \in ToSet(U[l]) /\ i \in ToSet(U[n]) => l = n
      <3>1. \A l, n \in Lists : \A i : i \in ToSet(W[l]) /\ i \in ToSet(W[n]) => l = n
        BY OnceLists
      <3>2. \A l \in Lists : \A i : i \in ToSet(U[l]) => i \in ToSet(W[l]) \/ (l = T /\ i = d)
        BY <1>2, <1>4
      <3> QED
        BY <3>1, <3>2
    <2> QED
      BY <1>4, <2>1, <2>2, ListsOnce
  <1> QED
    BY <1>2, <1>4, <1>6 DEF With

-----------------------------------------------------------------------------
(* Loops *)

\* A loop that takes d and the last value to the next
Loop(g, X, a, m, f) ==
    g \in [0..m -> X] /\ g[0] = a /\ \A d \in 1..m : g[d] = f[<<d, g[d - 1]>>]

\* Such a loop can be run.
LEMMA Iterated ==
    ASSUME NEW X, NEW a \in X, NEW m \in Nat, NEW f, f \in [(1..m) \X X -> X]
    PROVE  \E g : Loop(g, X, a, m, f)
  <1> DEFINE Run(g, n) == g[0] = a /\ \A d \in 1..n : g[d] = f[<<d, g[d - 1]>>]
             S == {n \in Nat : n <= m => \E g \in [0..n -> X] : Run(g, n)}
  <1>1. S \subseteq Nat
    OBVIOUS
  <1>2. 0 \in S
    <2> DEFINE g == [n \in 0..0 |-> a]
    <2>1. g \in [0..0 -> X] /\ g[0] = a /\ \A d \in 1..0 : FALSE
      OBVIOUS
    <2> HIDE DEF g
    <2>2. Run(g, 0)
      BY <2>1
    <2> QED
      BY <2>1, <2>2
  <1>3. ASSUME NEW n \in S PROVE n + 1 \in S
    <2>1. n \in Nat
      OBVIOUS
    <2> SUFFICES ASSUME n + 1 <= m PROVE \E g \in [0..(n + 1) -> X] : Run(g, n + 1)
      BY <2>1
    <2>2. PICK h \in [0..n -> X] : Run(h, n)
      BY <2>1
    <2> DEFINE new == f[<<n + 1, h[n]>>]
               g == [d \in 0..(n + 1) |-> IF d <= n THEN h[d] ELSE new]
    <2>3. new \in X
      <3>1. n + 1 \in 1..m /\ n \in 0..n
        BY <2>1
      <3>2. h[n] \in X
        BY <3>1
      <3> QED
        BY <3>1, <3>2
    <2> HIDE DEF new, S
    <2>4. g \in [0..(n + 1) -> X]
      <3>1. ASSUME NEW d \in 0..(n + 1) PROVE (IF d <= n THEN h[d] ELSE new) \in X
        BY <2>1, <2>3
      <3> QED
        BY <3>1
    <2>5. g[0] = a
      BY <2>1, <2>2
    <2>6. ASSUME NEW d \in 1..(n + 1) PROVE g[d] = f[<<d, g[d - 1]>>]
      <3>1. d - 1 \in 0..(n + 1) /\ d - 1 <= n /\ d \in 0..(n + 1)
        BY <2>1
      <3>2. g[d - 1] = h[d - 1]
        BY <3>1
      <3>3. CASE d <= n
        <4>1. d \in 1..n
          BY <2>1, <3>3
        <4>2. h[d] = f[<<d, h[d - 1]>>]
          BY <2>2, <4>1
        <4> QED
          BY <3>1, <3>2, <3>3, <4>2
      <3>4. CASE d = n + 1
        <4>1. g[d] = new /\ d - 1 = n
          BY <2>1, <3>1, <3>4
        <4>2. new = f[<<d, h[d - 1]>>]
          BY <3>4, <4>1 DEF new
        <4> QED
          BY <3>2, <4>1, <4>2
      <3> QED
        BY <2>1, <3>3, <3>4
    <2> HIDE DEF g
    <2>7. Run(g, n + 1)
      BY <2>5, <2>6
    <2> QED
      BY <2>4, <2>7
  <1>4. S = Nat
    <2> HIDE DEF S
    <2> QED
      BY <1>1, <1>2, <1>3, Inductive
  <1>5. m \in S
    BY <1>4
  <1>6. PICK g \in [0..m -> X] : Run(g, m)
    BY <1>5
  <1>7. Loop(g, X, a, m, f)
    BY <1>6 DEF Loop
  <1> QED
    BY <1>7

\* What each step keeps, the loop keeps.
LEMMA Kept ==
    ASSUME NEW X, NEW m \in Nat, NEW g, g[0] \in X, \A d \in 1..m : g[d - 1] \in X => g[d] \in X
    PROVE  \A d \in 0..m : g[d] \in X
  <1> DEFINE S == {n \in Nat : n <= m => g[n] \in X}
  <1>1. S \subseteq Nat /\ 0 \in S
    OBVIOUS
  <1>2. ASSUME NEW n \in S PROVE n + 1 \in S
    <2>1. n \in Nat /\ (n <= m => g[n] \in X)
      OBVIOUS
    <2>2. ASSUME n + 1 <= m PROVE g[n + 1] \in X
      <3>1. n + 1 \in 1..m /\ (n + 1) - 1 = n /\ n <= m
        BY <2>1, <2>2
      <3> QED
        BY <2>1, <3>1
    <2> QED
      BY <2>1, <2>2
  <1>3. S = Nat
    <2> HIDE DEF S
    <2> QED
      BY <1>1, <1>2, Inductive
  <1>4. ASSUME NEW d \in 0..m PROVE g[d] \in X
    <2>1. d \in S /\ d <= m
      BY <1>3
    <2> QED
      BY <2>1
  <1> QED
    BY <1>4

-----------------------------------------------------------------------------
(* Moving *)

\* An item that is moved to a list not inside it leaves a tree.
MovedTo(U, V, d, T) ==
    /\ Tree(U) /\ \A i : Has(U, i) <=> Has(V, i)
    /\ \A l \in Lists : \A i : i \in ToSet(U[l]) /\ i \notin ToSet(V[l]) => i = d /\ l = T

\* The move leaves a tree with the same items: the levels inside the moved item
\* grow by that of the new parent.
LEMMA MovedTree ==
    ASSUME NEW V, Tree(V), NEW d, Has(V, d), NEW S, S = Parent(V, d),
           NEW T \in Lists, T = Root \/ ~Within(V, T, d),
           NEW W, W = [V EXCEPT ![S] = RemoveObject(@, d)],
           NEW m \in 1..(Len(W[T]) + 1), NEW U, U = [W EXCEPT ![T] = InsertAt(@, m, d)]
    PROVE  MovedTo(U, V, d, T)
  <1>1. /\ V \in [Lists -> Seq(ListItems)] /\ Once(V) /\ Placed(V)
        /\ S \in Lists /\ d \in ToSet(V[S]) /\ d \in ListItems
        /\ \A l \in Lists : d \in ToSet(V[l]) => l = S
    BY ParentFacts DEF Tree
  <1>2. /\ W \in [Lists -> Seq(ListItems)] /\ Once(W)
        /\ \A l \in Lists : l # S => W[l] = V[l]
        /\ ToSet(W[S]) = ToSet(V[S]) \ {d}
    <2>1. Without(W, V, S, d)
      BY <1>1, WithoutItem, Zenon
    <2> QED
      BY <2>1 DEF Without
  <1>3. \A l \in Lists : d \notin ToSet(W[l])
    BY <1>1, <1>2
  <1>4. /\ U \in [Lists -> Seq(ListItems)] /\ Once(U)
        /\ \A l \in Lists : l # T => U[l] = W[l]
        /\ ToSet(U[T]) = ToSet(W[T]) \cup {d}
    <2>1. With(U, W, T, d)
      BY <1>1, <1>2, <1>3, WithItem, Zenon
    <2> QED
      BY <2>1 DEF With
  <1>5. \A l \in Lists : \A i : i # d => (i \in ToSet(U[l]) <=> i \in ToSet(V[l]))
    BY <1>2, <1>4
  <1>6. \A l \in Lists : d \in ToSet(U[l]) <=> l = T
    BY <1>3, <1>4
  <1>7. \A i : Has(U, i) <=> Has(V, i)
    BY <1>1, <1>5, <1>6 DEF Has
  <1>8. Placed(U)
    BY <1>1, <1>7 DEF Placed, Has
  <1>9. PICK level : Level(V, level)
    BY DEF Tree
  <1> DEFINE In(x) == x # Root /\ Within(V, x, d)
             new == [x \in Lists |-> IF In(x) THEN level[x] + level[T] + 1 ELSE level[x]]
  <1>10. level \in [Lists -> Nat] /\ \A l \in Lists : level[l] \in Nat
    BY <1>9 DEF Level
  <1>11. ~In(T)
    OBVIOUS
  <1>12. d \in Folders => d \in Lists /\ In(d)
    BY <1>1, ListFacts DEF Within
  <1>13. ASSUME NEW l \in Lists, NEW f \in Folders, f \in ToSet(V[l]), f # d
         PROVE  (In(f) <=> In(l)) /\ level[l] < level[f]
    <2>1. Has(V, f) /\ Parent(V, f) = l
      BY <1>1, <1>13, ParentOf
    <2>2. Within(V, f, d) <=> (f = d \/ (l # Root /\ Within(V, l, d)))
      BY <1>1, <2>1, WithinParent
    <2>3. f # Root
      BY ListFacts
    <2>4. level[l] < level[f]
      BY <1>9, <1>13 DEF Level
    <2> QED
      BY <1>13, <2>2, <2>3, <2>4
  <1> HIDE DEF In
  <1>14. new \in [Lists -> Nat]
    BY <1>10
  <1>15. \A x \in Lists : new[x] = IF In(x) THEN level[x] + level[T] + 1 ELSE level[x]
    OBVIOUS
  <1> HIDE DEF new
  <1>16. ASSUME NEW l \in Lists, NEW f \in Folders, f \in ToSet(U[l]) PROVE new[l] < new[f]
    <2>0. f \in Lists
      BY ListFacts
    <2>1. CASE f = d
      <3>1. l = T /\ new[l] = level[T] /\ new[f] = level[f] + level[T] + 1
        BY <1>6, <1>11, <1>12, <1>15, <1>16, <2>0, <2>1
      <3> QED
        BY <1>10, <2>0, <3>1
    <2>2. CASE f # d
      <3>1. (In(f) <=> In(l)) /\ level[l] < level[f]
        BY <1>5, <1>13, <1>16, <2>2
      <3>2. level[l] \in Nat /\ level[f] \in Nat /\ level[T] \in Nat
        BY <1>10, <2>0
      <3> QED
        BY <1>15, <2>0, <3>1, <3>2
    <2> QED
      BY <2>1, <2>2
  <1>17. Level(U, new)
    BY <1>14, <1>16 DEF Level
  <1> QED
    BY <1>2, <1>4, <1>5, <1>6, <1>7, <1>8, <1>17 DEF Tree, MovedTo

\* Removing an item that is no folder, and inserting one that was nowhere.
LEMMA SmallerTree ==
    ASSUME NEW V, Tree(V), NEW l \in Lists, NEW i, i \notin Folders,
           NEW W, W = [V EXCEPT ![l] = RemoveObject(@, i)]
    PROVE  Tree(W)
  <1>1. V \in [Lists -> Seq(ListItems)] /\ Once(V) /\ Placed(V)
    BY DEF Tree
  <1>2. /\ W \in [Lists -> Seq(ListItems)] /\ Once(W)
        /\ \A m \in Lists : m # l => W[m] = V[m]
        /\ ToSet(W[l]) = ToSet(V[l]) \ {i}
    <2>1. Without(W, V, l, i)
      BY <1>1, WithoutItem, Zenon
    <2> QED
      BY <2>1 DEF Without
  <1>3. \A m \in Lists, f \in Folders : f \in ToSet(W[m]) <=> f \in ToSet(V[m])
    BY <1>2
  <1>4. Placed(W)
    BY <1>1, <1>3 DEF Placed
  <1>5. PICK level : Level(V, level)
    BY DEF Tree
  <1>6. Level(W, level)
    BY <1>3, <1>5 DEF Level
  <1> QED
    BY <1>2, <1>4, <1>6 DEF Tree

\* An item that has come is no folder, so the levels remain.
LEMMA LargerTree ==
    ASSUME NEW V, Tree(V), NEW l \in Lists, NEW i \in ListItems, \A m \in Lists : i \notin ToSet(V[m]),
           NEW at \in 1..(Len(V[l]) + 1), NEW U, U = [V EXCEPT ![l] = InsertAt(@, at, i)]
    PROVE  Tree(U)
  <1>1. V \in [Lists -> Seq(ListItems)] /\ Once(V) /\ Placed(V) /\ i \notin Folders
    BY DEF Tree, Placed
  <1>2. /\ U \in [Lists -> Seq(ListItems)] /\ Once(U)
        /\ \A m \in Lists : m # l => U[m] = V[m]
        /\ ToSet(U[l]) = ToSet(V[l]) \cup {i}
    <2>1. With(U, V, l, i)
      BY <1>1, WithItem, Zenon
    <2> QED
      BY <2>1 DEF With
  <1>3. \A m \in Lists, f \in Folders : f \in ToSet(U[m]) <=> f \in ToSet(V[m])
    BY <1>1, <1>2
  <1>4. Placed(U)
    BY <1>1, <1>3 DEF Placed
  <1>5. PICK level : Level(V, level)
    BY DEF Tree
  <1>6. Level(U, level)
    BY <1>3, <1>5 DEF Level
  <1> QED
    BY <1>2, <1>4, <1>6 DEF Tree

-----------------------------------------------------------------------------
(* contentIndex *)

\* Every item view knows its place; and the same for one list.
NumberedIn(V, X, l) == \A k \in 1..Len(V[l]) : X[V[l][k]] = k

Numbered(V, X) ==
    /\ X \in [ListItems -> 1..Cardinality(ListItems)]
    /\ \A l \in Lists : NumberedIn(V, X, l)

\* There is a number for every place.
LEMMA Places ==
    ASSUME NEW V, V \in [Lists -> Seq(ListItems)], Once(V), NEW l \in Lists
    PROVE  Len(V[l]) <= Cardinality(ListItems)
  <1>1. /\ Len(V[l]) \in Nat
        /\ \A k \in 1..Len(V[l]) : V[l][k] \in ListItems
        /\ \A k, j \in 1..Len(V[l]) : V[l][k] = V[l][j] => k = j
    BY SeqFacts, OnceLists
  <1> DEFINE n == Len(V[l])
             f == [k \in 1..n |-> V[l][k]]
  <1>2. f \in [1..n -> ListItems] /\ \A k, j \in 1..n : f[k] = f[j] => k = j
    BY <1>1
  <1> HIDE DEF f
  <1>3. f \in Injection(1..n, ListItems)
    BY <1>2 DEF Injection, IsInjective
  <1>4. Cardinality(1..n) = n
    <2>1. n \in Nat /\ 1 \in Int /\ n \in Int
      BY <1>1
    <2> HIDE DEF n
    <2>2. Cardinality(1..n) = IF 1 > n THEN 0 ELSE n - 1 + 1
      BY <2>1, FS_Interval
    <2> QED
      BY <2>1, <2>2
  <1>5. Cardinality(1..n) <= Cardinality(ListItems)
    BY <1>3, ListFacts, FS_Injection
  <1> QED
    BY <1>4, <1>5

\* _updateContentIndexes gives its list the right numbers, and leaves those of
\* the others.
LEMMA Renumbered ==
    ASSUME NEW V, V \in [Lists -> Seq(ListItems)], Once(V), NEW l \in Lists,
           NEW X, X \in [ListItems -> 1..Cardinality(ListItems)],
           \A m \in Lists : m # l => NumberedIn(V, X, m),
           NEW Y, Y = Indexed(X, V, l)
    PROVE  Numbered(V, Y)
  <1> DEFINE Spot(i) == CHOOSE k \in DOMAIN V[l] : V[l][k] = i
  <1>1. /\ Len(V[l]) \in Nat /\ DOMAIN V[l] = 1..Len(V[l])
        /\ \A k \in 1..Len(V[l]) : V[l][k] \in ListItems /\ V[l][k] \in ToSet(V[l])
        /\ \A k, j \in 1..Len(V[l]) : V[l][k] = V[l][j] => k = j
        /\ Len(V[l]) <= Cardinality(ListItems)
    BY SeqFacts, OnceLists, Places
  <1>2. ASSUME NEW i \in ToSet(V[l]) PROVE Spot(i) \in 1..Len(V[l]) /\ V[l][Spot(i)] = i
    <2>1. \E k \in DOMAIN V[l] : V[l][k] = i
      BY DEF ToSet
    <2> QED
      BY <1>1, <2>1
  <1>3. Y = [i \in ListItems |-> IF i \in ToSet(V[l]) THEN Spot(i) ELSE X[i]]
    BY Zenon DEF Indexed
  <1> HIDE DEF Spot
  <1>4. Cardinality(ListItems) \in Nat
    BY ListFacts
  <1>5. Y \in [ListItems -> 1..Cardinality(ListItems)]
    <2>1. ASSUME NEW i \in ToSet(V[l]) PROVE Spot(i) \in 1..Cardinality(ListItems)
      BY <1>1, <1>2, <1>4
    <2> QED
      BY <1>3, <2>1
  <1>6. ASSUME NEW k \in 1..Len(V[l]) PROVE Y[V[l][k]] = k
    <2>1. Y[V[l][k]] = Spot(V[l][k])
      BY <1>1, <1>3
    <2>2. Spot(V[l][k]) \in 1..Len(V[l]) /\ V[l][Spot(V[l][k])] = V[l][k]
      BY <1>1, <1>2
    <2> QED
      BY <1>1, <2>1, <2>2
  <1>7. ASSUME NEW m \in Lists, m # l, NEW k \in 1..Len(V[m]) PROVE Y[V[m][k]] = k
    <2>1. V[m][k] \in ListItems /\ V[m][k] \in ToSet(V[m])
      BY SeqFacts
    <2>2. V[m][k] \notin ToSet(V[l])
      BY <1>7, <2>1, OnceLists
    <2>3. X[V[m][k]] = k
      BY <1>7 DEF NumberedIn
    <2> QED
      BY <1>3, <2>1, <2>2, <2>3
  <1>8. ASSUME NEW m \in Lists PROVE NumberedIn(V, Y, m)
    BY <1>6, <1>7 DEF NumberedIn
  <1> QED
    BY <1>5, <1>8 DEF Numbered

\* contentIndex of an item that has a view
LEMMA NumberOf ==
    ASSUME NEW V, V \in [Lists -> Seq(ListItems)], Once(V), NEW X, Numbered(V, X),
           NEW l \in Lists, NEW i, i \in ToSet(V[l])
    PROVE  X[i] \in 1..Len(V[l]) /\ V[l][X[i]] = i /\ X[i] \in 1..Cardinality(ListItems)
  <1>0. DOMAIN V[l] = 1..Len(V[l])
    BY SeqFacts
  <1>1. PICK k \in 1..Len(V[l]) : V[l][k] = i
    BY <1>0 DEF ToSet
  <1>2. X[i] = k
    BY <1>1 DEF Numbered, NumberedIn
  <1>3. i \in ListItems
    BY Member
  <1>4. X[i] \in 1..Cardinality(ListItems)
    BY <1>3 DEF Numbered
  <1> QED
    BY <1>1, <1>2, <1>4

-----------------------------------------------------------------------------
(* Where to move *)

\* A target for d that is d or not inside it
Targets(d) ==
    {t \in [item : ListItems, pos : {"a", "b", "i"}] :
        /\ HasView(t.item)
        /\ t.item = d \/ ~Inside(t.item, d)
        /\ t.pos = "i" => t.item \in Folders}

\* The parts of the invariant that the moves need
Ready == Tree(childViews) /\ Numbered(childViews, index) /\ contents = childViews

\* The list that d or an item outside d is in is not inside d.
LEMMA ListOutside ==
    ASSUME Ready, NEW d \in ListItems, NEW i, HasView(i), i = d \/ ~Inside(i, d),
           NEW y, y = ParentView(i)
    PROVE  /\ i \in ListItems /\ y \in Lists /\ i \in ToSet(childViews[y])
           /\ y # Root => y \in Folders /\ HasView(y) /\ ~Inside(y, d)
  <1> DEFINE V == childViews
  <1>0. Tree(V) /\ V \in [Lists -> Seq(ListItems)] /\ Once(V) /\ Placed(V)
    BY DEF Ready, Tree
  <1>1. Has(V, i) /\ (i = d \/ ~Within(V, i, d)) /\ y = Parent(V, i)
    BY Views
  <1>2. i \in ListItems /\ y \in Lists /\ i \in ToSet(V[y])
    BY <1>0, <1>1, ParentFacts
  <1>3. ASSUME y # Root PROVE y \in Folders /\ Has(V, y) /\ ~Within(V, y, d)
    <2>1. y \in Folders
      BY <1>2, <1>3, ListFacts
    <2>2. Has(V, y)
      BY <1>0, <2>1 DEF Placed, Has
    <2>3. CASE i = d
      BY <1>0, <1>1, <1>3, <2>1, <2>2, <2>3, ParentNotWithin
    <2>4. CASE i # d
      <3>1. Within(V, i, d) <=> (i = d \/ (y # Root /\ Within(V, y, d)))
        BY <1>0, <1>1, WithinParent
      <3> QED
        BY <1>1, <1>3, <2>1, <2>2, <2>4, <3>1
    <2> QED
      BY <2>1, <2>2, <2>3, <2>4
  <1> QED
    BY <1>2, <1>3, Views

\* Path.up leads out of a list that is not inside the dragged item.
LEMMA UpTarget ==
    ASSUME Ready, NEW d \in ListItems, NEW t \in Targets(d), NEW x, GoesUp(d, t, x)
    PROVE  Up(t) \in Targets(d)
  <1> DEFINE y == ParentView(t.item)
  <1>1. HasView(t.item) /\ (t.item = d \/ ~Inside(t.item, d))
    BY DEF Targets
  <1>2. y # Root
    BY DEF GoesUp
  <1>3. y \in Folders /\ HasView(y) /\ ~Inside(y, d)
    BY <1>1, <1>2, ListOutside
  <1>4. Up(t) = [item |-> y, pos |-> "a"]
    BY DEF Up
  <1> HIDE DEF y
  <1>5. y \in ListItems
    BY <1>3, ListFacts
  <1> QED
    BY <1>3, <1>4, <1>5 DEF Targets

\* Path.down leads into a preceding view that is not the dragged one.
LEMMA DownTarget ==
    ASSUME Ready, NEW d \in ListItems, NEW t \in Targets(d), NEW x, GoesDown(d, t, x),
           NEW u, u = Down(PrecedingView(t.item))
    PROVE  u \in Targets(d)
  <1> DEFINE V == childViews
             y == ParentView(t.item)
             p == PrecedingView(t.item)
             n == index[t.item]
  <1>0. Tree(V) /\ V \in [Lists -> Seq(ListItems)] /\ Once(V) /\ Placed(V) /\ Numbered(V, index)
    BY DEF Ready, Tree
  <1>1. HasView(t.item) /\ (t.item = d \/ ~Inside(t.item, d))
    BY DEF Targets
  <1>2. y \in Lists /\ t.item \in ToSet(V[y]) /\ (y # Root => ~Inside(y, d))
    BY <1>1, ListOutside
  <1>3. p # None /\ p # d /\ p \in Folders
    BY DEF GoesDown, IsOpen
  <1>4. n > 1 /\ p = V[y][n - 1]
    BY <1>3 DEF PrecedingView
  <1>5. n \in 1..Len(V[y]) /\ Len(V[y]) \in Nat
    BY <1>0, <1>2, NumberOf, SeqFacts
  <1>6. u = Down(p)
    OBVIOUS
  <1> HIDE DEF y, p, n
  <1>7. p \in ToSet(V[y])
    <2>1. n - 1 \in 1..Len(V[y])
      BY <1>4, <1>5
    <2> QED
      BY <1>0, <1>2, <1>4, <2>1, SeqFacts
  <1>8. Has(V, p) /\ Parent(V, p) = y
    BY <1>0, <1>2, <1>7, ParentOf
  <1>9. ~Within(V, p, d)
    <2>1. Within(V, p, d) <=> (p = d \/ (y # Root /\ Within(V, y, d)))
      BY <1>0, <1>8, WithinParent
    <2> QED
      BY <1>2, <1>3, <2>1, Views
  <1>10. p \in Lists /\ p \in ListItems /\ p # Root
    BY <1>3, ListFacts
  <1>11. CASE contents[p] = <<>>
    <2>1. u = [item |-> p, pos |-> "i"]
      BY <1>6, <1>11 DEF Down
    <2> QED
      BY <1>3, <1>8, <1>9, <1>10, <2>1, Views DEF Targets
  <1>12. CASE contents[p] # <<>>
    <2> DEFINE c == V[p][Len(V[p])]
    <2>1. u = [item |-> c, pos |-> "a"]
      BY <1>6, <1>12 DEF Down, Ready
    <2>2. Len(V[p]) \in 1..Len(V[p])
      <3>1. V[p] \in Seq(ListItems) /\ V[p] # <<>>
        BY <1>0, <1>10, <1>12 DEF Ready
      <3> QED
        BY <3>1
    <2>3. c \in ListItems /\ c \in ToSet(V[p])
      BY <1>0, <1>10, <2>2, SeqFacts
    <2> HIDE DEF c
    <2>4. Has(V, c) /\ Parent(V, c) = p
      BY <1>0, <1>10, <2>3, ParentOf
    <2>5. Within(V, c, d) <=> (c = d \/ (p # Root /\ Within(V, p, d)))
      BY <1>0, <2>4, WithinParent
    <2>6. HasView(c) /\ (c = d \/ ~Inside(c, d))
      BY <1>9, <2>4, <2>5, Views
    <2> QED
      BY <2>1, <2>3, <2>6 DEF Targets
  <1> QED
    BY <1>11, <1>12

\* The first loop of _resolveNewLevel
UpStep(d, s) == IF GoesUp(d, s.t, s.x) THEN [t |-> Up(s.t), x |-> s.x + 1] ELSE s

Ups(g, d, target, levels) ==
    g = [n \in 0..Depth |->
            IF n = 0 THEN [t |-> target, x |-> levels]
            ELSE LET s == g[n - 1]
                 IN  IF GoesUp(d, s.t, s.x) THEN [t |-> Up(s.t), x |-> s.x + 1] ELSE s]

\* and the second one
DownStep(d, s) ==
    IF GoesDown(d, s.t, s.x)
    THEN [t |-> Down(PrecedingView(s.t.item)), x |-> s.x - 1] ELSE s

Downs(g, d, first) ==
    g = [n \in 0..Depth |->
            IF n = 0 THEN first
            ELSE LET s == g[n - 1]
                 IN  IF GoesDown(d, s.t, s.x)
                     THEN [t |-> Down(PrecedingView(s.t.item)), x |-> s.x - 1] ELSE s]

Levels(d) == [t : Targets(d), x : Int]

\* So a step of either loop keeps to the targets.
LEMMA StepsStay ==
    ASSUME Ready, NEW d \in ListItems, NEW s \in Levels(d)
    PROVE  UpStep(d, s) \in Levels(d) /\ DownStep(d, s) \in Levels(d)
  <1>1. s.t \in Targets(d) /\ s.x \in Int /\ s.x + 1 \in Int /\ s.x - 1 \in Int
    BY DEF Levels
  <1>2. UpStep(d, s) \in Levels(d)
    <2>1. CASE GoesUp(d, s.t, s.x)
      <3>1. Up(s.t) \in Targets(d)
        BY <1>1, <2>1, UpTarget
      <3>2. UpStep(d, s) = [t |-> Up(s.t), x |-> s.x + 1]
        BY <2>1 DEF UpStep
      <3> QED
        BY <1>1, <3>1, <3>2 DEF Levels
    <2>2. CASE ~GoesUp(d, s.t, s.x)
      BY <2>2 DEF UpStep
    <2> QED
      BY <2>1, <2>2
  <1>3. DownStep(d, s) \in Levels(d)
    <2>1. CASE GoesDown(d, s.t, s.x)
      <3> DEFINE u == Down(PrecedingView(s.t.item))
      <3>1. u \in Targets(d)
        BY <1>1, <2>1, DownTarget
      <3>2. DownStep(d, s) = [t |-> u, x |-> s.x - 1]
        BY <2>1 DEF DownStep
      <3> HIDE DEF u
      <3> QED
        BY <1>1, <3>1, <3>2 DEF Levels
    <2>2. CASE ~GoesDown(d, s.t, s.x)
      BY <2>2 DEF DownStep
    <2> QED
      BY <2>1, <2>2
  <1> QED
    BY <1>2, <1>3

\* The first loop, however often it goes up.
LEMMA UpsStay ==
    ASSUME Ready, NEW d \in ListItems, NEW target \in Targets(d), NEW levels \in Int
    PROVE  (CHOOSE g : Ups(g, d, target, levels))[Depth] \in Levels(d)
  <1> DEFINE X == Levels(d)
             a == [t |-> target, x |-> levels]
             f == [w \in (1..Depth) \X X |-> UpStep(d, w[2])]
             up == CHOOSE g : Ups(g, d, target, levels)
  <1>0. Depth \in Nat /\ a \in X
    BY ListFacts DEF Levels
  <1>1. \A s \in X : UpStep(d, s) \in X
    BY StepsStay
  <1> HIDE DEF X, a
  <1>2. f \in [(1..Depth) \X X -> X] /\ \A n \in 1..Depth, s \in X : f[<<n, s>>] = UpStep(d, s)
    BY <1>1
  <1> HIDE DEF f
  <1>3. PICK g \in [0..Depth -> X] : g[0] = a /\ \A n \in 1..Depth : g[n] = f[<<n, g[n - 1]>>]
    <2>1. a \in X /\ Depth \in Nat /\ f \in [(1..Depth) \X X -> X]
      BY <1>0, <1>2
    <2>2. PICK g : Loop(g, X, a, Depth, f)
      BY <2>1, Iterated
    <2> QED
      BY <2>2 DEF Loop
  <1>4. \A n \in 0..Depth : g[n] = IF n = 0 THEN a ELSE UpStep(d, g[n - 1])
    <2> SUFFICES ASSUME NEW n \in 0..Depth PROVE g[n] = IF n = 0 THEN a ELSE UpStep(d, g[n - 1])
      OBVIOUS
    <2>1. CASE n = 0
      BY <1>3, <2>1
    <2>2. CASE n # 0
      <3>1. n \in 1..Depth /\ n - 1 \in 0..Depth
        BY <1>0, <2>2
      <3>2. g[n - 1] \in X
        BY <3>1
      <3> QED
        BY <1>2, <1>3, <2>2, <3>1, <3>2
    <2> QED
      BY <2>1, <2>2
  <1>5. g = [n \in 0..Depth |-> IF n = 0 THEN a ELSE UpStep(d, g[n - 1])]
    BY <1>4
  <1>6. Ups(g, d, target, levels)
    BY <1>5, Zenon DEF Ups, UpStep, a
  <1>7. Ups(up, d, target, levels)
    BY <1>6, Zenon
  <1> HIDE DEF up
  <1>8. up = [n \in 0..Depth |-> IF n = 0 THEN a ELSE UpStep(d, up[n - 1])]
    BY <1>7, Zenon DEF Ups, UpStep, a
  <1>9. up[0] = a /\ \A n \in 1..Depth : up[n] = UpStep(d, up[n - 1])
    BY <1>0, <1>8
  <1>10. up[0] \in X /\ \A n \in 1..Depth : up[n - 1] \in X => up[n] \in X
    BY <1>0, <1>1, <1>9
  <1>11. up[Depth] \in X
    <2>1. \A n \in 0..Depth : up[n] \in X
      BY <1>0, <1>10, Kept
    <2> QED
      BY <1>0, <2>1
  <1> QED
    BY <1>11, Zenon DEF up, X

\* The second loop, however often it goes down.
LEMMA DownsStay ==
    ASSUME Ready, NEW d \in ListItems, NEW first \in Levels(d)
    PROVE  (CHOOSE g : Downs(g, d, first))[Depth] \in Levels(d)
  <1> DEFINE X == Levels(d)
             f == [w \in (1..Depth) \X X |-> DownStep(d, w[2])]
             down == CHOOSE g : Downs(g, d, first)
  <1>0. Depth \in Nat /\ first \in X
    BY ListFacts
  <1>1. \A s \in X : DownStep(d, s) \in X
    BY StepsStay
  <1> HIDE DEF X
  <1>2. f \in [(1..Depth) \X X -> X] /\ \A n \in 1..Depth, s \in X : f[<<n, s>>] = DownStep(d, s)
    BY <1>1
  <1> HIDE DEF f
  <1>3. PICK g \in [0..Depth -> X] : g[0] = first /\ \A n \in 1..Depth : g[n] = f[<<n, g[n - 1]>>]
    <2>1. first \in X /\ Depth \in Nat /\ f \in [(1..Depth) \X X -> X]
      BY <1>0, <1>2
    <2>2. PICK g : Loop(g, X, first, Depth, f)
      BY <2>1, Iterated
    <2> QED
      BY <2>2 DEF Loop
  <1>4. \A n \in 0..Depth : g[n] = IF n = 0 THEN first ELSE DownStep(d, g[n - 1])
    <2> SUFFICES ASSUME NEW n \in 0..Depth PROVE g[n] = IF n = 0 THEN first ELSE DownStep(d, g[n - 1])
      OBVIOUS
    <2>1. CASE n = 0
      BY <1>3, <2>1
    <2>2. CASE n # 0
      <3>1. n \in 1..Depth /\ n - 1 \in 0..Depth
        BY <1>0, <2>2
      <3>2. g[n - 1] \in X
        BY <3>1
      <3> QED
        BY <1>2, <1>3, <2>2, <3>1, <3>2
    <2> QED
      BY <2>1, <2>2
  <1>5. g = [n \in 0..Depth |-> IF n = 0 THEN first ELSE DownStep(d, g[n - 1])]
    BY <1>4
  <1>6. Downs(g, d, first)
    BY <1>5, Zenon DEF Downs, DownStep
  <1>7. Downs(down, d, first)
    BY <1>6, Zenon
  <1> HIDE DEF down
  <1>8. down = [n \in 0..Depth |-> IF n = 0 THEN first ELSE DownStep(d, down[n - 1])]
    BY <1>7, Zenon DEF Downs, DownStep
  <1>9. down[0] = first /\ \A n \in 1..Depth : down[n] = DownStep(d, down[n - 1])
    BY <1>0, <1>8
  <1>10. down[0] \in X /\ \A n \in 1..Depth : down[n - 1] \in X => down[n] \in X
    BY <1>0, <1>1, <1>9
  <1>11. down[Depth] \in X
    <2>1. \A n \in 0..Depth : down[n] \in X
      BY <1>0, <1>10, Kept
    <2> QED
      BY <1>0, <2>1
  <1> QED
    BY <1>11, Zenon DEF down, X

\* Whatever level the mouse chooses, the target is not inside the dragged item.
LEMMA LevelResolved ==
    ASSUME Ready, NEW d \in ListItems, NEW target \in Targets(d), NEW levels \in Int
    PROVE  ResolveNewLevel(d, target, levels) \in Targets(d)
  <1> DEFINE first == (CHOOSE g : Ups(g, d, target, levels))[Depth]
             end == (CHOOSE g : Downs(g, d, first))[Depth]
  <1>1. ResolveNewLevel(d, target, levels) = end.t
    BY Zenon DEF ResolveNewLevel, Ups, Downs
  <1>2. first \in Levels(d)
    BY UpsStay
  <1> HIDE DEF first
  <1>3. end \in Levels(d)
    BY <1>2, DownsStay
  <1> HIDE DEF end
  <1> QED
    BY <1>1, <1>3 DEF Levels

\* The result of _resolveNewPath
LEMMA PathResolved ==
    ASSUME Ready, NEW d \in ListItems, NEW direction, NEW i \in ListItems, i \in Candidates(d, direction),
           NEW levels \in Int, NEW t, t = ResolveNewPath(d, direction, i, levels), t # None
    PROVE  t \in Targets(d)
  <1> DEFINE inside == [item |-> i, pos |-> "i"]
             first == IF direction = "down" /\ IsOpen(i) /\ ~PathInvalid(d, inside)
                      THEN inside
                      ELSE [item |-> i, pos |-> IF direction = "down" THEN "a" ELSE "b"]
             u == ResolveNewLevel(d, first, levels)
  <1>1. HasView(i) /\ (i = d \/ ~Inside(i, d))
    BY DEF Candidates, Visible
  <1>2. first \in Targets(d)
    <2>1. CASE direction = "down" /\ IsOpen(i) /\ ~PathInvalid(d, inside)
      <3>1. first = [item |-> i, pos |-> "i"] /\ i \in Folders
        BY <2>1 DEF IsOpen
      <3> QED
        BY <1>1, <3>1 DEF Targets
    <2>2. CASE ~(direction = "down" /\ IsOpen(i) /\ ~PathInvalid(d, inside))
      <3>1. first = [item |-> i, pos |-> IF direction = "down" THEN "a" ELSE "b"]
        BY <2>2, Zenon
      <3> HIDE DEF first
      <3> QED
        BY <1>1, <3>1 DEF Targets
    <2> QED
      BY <2>1, <2>2
  <1>3. t = IF PathInvalid(d, u) THEN None ELSE u
    BY Zenon DEF ResolveNewPath
  <1> HIDE DEF first
  <1>4. u \in Targets(d)
    BY <1>2, LevelResolved
  <1> HIDE DEF u
  <1> QED
    BY <1>3, <1>4

-----------------------------------------------------------------------------
(* The move itself *)

\* The list that the item comes to
LEMMA TargetList ==
    ASSUME Ready, NEW d \in ListItems, NEW t \in Targets(d), t.item # d, NEW T, T = NewParent(t)
    PROVE  /\ T \in Lists /\ (T = Root \/ ~Inside(T, d))
           /\ t.pos # "i" => t.item \in ToSet(childViews[T])
  <1>1. HasView(t.item) /\ ~Inside(t.item, d) /\ (t.pos = "i" => t.item \in Folders)
    BY DEF Targets
  <1>2. CASE t.pos = "i"
    <2>1. T = t.item
      BY <1>2 DEF NewParent
    <2> QED
      BY <1>1, <1>2, <2>1, ListFacts
  <1>3. CASE t.pos # "i"
    <2>1. T = ParentView(t.item)
      BY <1>3 DEF NewParent
    <2> QED
      BY <1>1, <2>1, ListOutside
  <1> QED
    BY <1>2, <1>3

\* _moveItem leaves content, child views and contentIndex in step and a tree.
LEMMA Moved ==
    ASSUME Ready, NEW d \in ListItems, HasView(d), NEW t \in Targets(d), t.item # d, MoveItem(d, t)
    PROVE  Ready' /\ MovedTo(childViews', childViews, d, NewParent(t))
  <1> DEFINE V == childViews
             S == ParentView(d)
             T == NewParent(t)
             W == [V EXCEPT ![S] = RemoveObject(@, d)]
             X == Indexed(index, W, S)
             at == CASE t.pos = "b" -> X[t.item]
                     [] t.pos = "a" -> X[t.item] + 1
                     [] t.pos = "i" -> 1
             U == [W EXCEPT ![T] = InsertAt(@, at, d)]
  <1>0. /\ Tree(V) /\ V \in [Lists -> Seq(ListItems)] /\ Once(V)
        /\ Numbered(V, index) /\ index \in [ListItems -> 1..Cardinality(ListItems)]
        /\ contents = V
    BY DEF Ready, Tree, Numbered
  <1>1. Has(V, d) /\ S = Parent(V, d)
    BY Views
  <1>2. S \in Lists
    BY <1>0, <1>1, ParentFacts
  <1>3. T \in Lists /\ (T = Root \/ ~Within(V, T, d)) /\ (t.pos # "i" => t.item \in ToSet(V[T]))
    BY TargetList, Views
  <1>4. childViews' = U /\ contents' = U /\ index' = Indexed(X, U, T)
    <2>1. /\ childViews' = U
          /\ contents' = [[contents EXCEPT ![S] = RemoveObject(@, d)] EXCEPT ![T] = InsertAt(@, at, d)]
          /\ index' = Indexed(X, U, T)
      BY Zenon DEF MoveItem
    <2> QED
      BY <1>0, <2>1, Zenon
  <1> HIDE DEF S, T, V
  <1>5. Without(W, V, S, d)
    BY <1>0, <1>2, WithoutItem, Zenon
  <1>6. /\ W \in [Lists -> Seq(ListItems)] /\ Once(W)
        /\ \A l \in Lists : l # S => W[l] = V[l]
        /\ ToSet(W[S]) = ToSet(V[S]) \ {d}
    BY <1>5 DEF Without
  <1>w. W = [V EXCEPT ![S] = RemoveObject(@, d)]
    OBVIOUS
  <1>x. X = Indexed(index, W, S)
    OBVIOUS
  <1> HIDE DEF W
  <1>7. Numbered(W, X)
    <2>1. ASSUME NEW m \in Lists, m # S PROVE NumberedIn(W, index, m)
      BY <1>0, <1>6, <2>1 DEF Numbered, NumberedIn
    <2> HIDE DEF X
    <2> QED
      BY <1>0, <1>2, <1>6, <1>x, <2>1, Renumbered
  <1>8. X \in [ListItems -> 1..Cardinality(ListItems)] /\ \A l \in Lists : NumberedIn(W, X, l)
    BY <1>7 DEF Numbered
  <1> HIDE DEF X
  <1>9. at \in 1..(Len(W[T]) + 1)
    <2>0. Len(W[T]) \in Nat
      BY <1>3, <1>6, SeqFacts
    <2>1. CASE t.pos = "i"
      <3>1. at = 1
        BY <2>1
      <3> HIDE DEF at
      <3> QED
        BY <2>0, <3>1
    <2>2. CASE t.pos # "i"
      <3>1. t.item \in ToSet(W[T])
        BY <1>3, <1>6, <2>2
      <3>2. X[t.item] \in 1..Len(W[T])
        BY <1>3, <1>6, <1>7, <3>1, NumberOf
      <3>3. t.pos = "b" \/ t.pos = "a"
        BY <2>2 DEF Targets
      <3>4. at = X[t.item] \/ at = X[t.item] + 1
        BY <3>3
      <3> HIDE DEF at
      <3> QED
        BY <2>0, <3>2, <3>4
    <2> QED
      BY <2>1, <2>2
  <1>u. U = [W EXCEPT ![T] = InsertAt(@, at, d)]
    OBVIOUS
  <1> HIDE DEF at, U
  <1>10. MovedTo(U, V, d, T)
    BY <1>0, <1>1, <1>3, <1>9, <1>u, <1>w, MovedTree, Zenon
  <1>11. Tree(U) /\ U \in [Lists -> Seq(ListItems)] /\ Once(U)
    BY <1>10 DEF Tree, MovedTo
  <1>12. Numbered(U, Indexed(X, U, T))
    <2>1. ASSUME NEW m \in Lists, m # T PROVE NumberedIn(U, X, m)
      <3>1. U[m] = W[m]
        BY <1>3, <1>6, <1>u, <2>1
      <3> QED
        BY <1>8, <3>1 DEF NumberedIn
    <2> QED
      BY <1>3, <1>8, <1>11, <2>1, Renumbered
  <1>13. Tree(childViews') /\ Numbered(childViews', index') /\ contents' = childViews'
    BY <1>4, <1>11, <1>12
  <1>14. MovedTo(childViews', childViews, d, NewParent(t))
    BY <1>4, <1>10, Zenon DEF T, V
  <1> QED
    BY <1>13, <1>14 DEF Ready

-----------------------------------------------------------------------------
(* Paths *)

\* ResolvePath and GetView for V and X
PathTo(V, X, i) ==
    LET above == Front(Above(V, i))
    IN  Reverse([k \in 1 .. Len(above) |-> X[above[k]]]) \o <<X[i]>>

ViewAt(V, path) ==
    LET down[d \in 1 .. Len(path)] ==
            LET l == IF d = 1 THEN Root ELSE down[d - 1]
            IN  IF l \in Lists /\ path[d] \in DOMAIN V[l]
                THEN V[l][path[d]] ELSE None
    IN  IF path = <<>> THEN None ELSE down[Len(path)]

\* ResolvePath and GetView are those for the views of the state.
LEMMA Paths ==
    /\ \A i : ResolvePath(i) = PathTo(childViews, index, i)
    /\ \A path : GetView(path) = ViewAt(childViews, path)
  <1>1. \A i : ResolvePath(i) = PathTo(childViews, index, i)
    BY Views, Zenon DEF ResolvePath, PathTo
  <1>2. \A path : GetView(path) = ViewAt(childViews, path)
    BY Zenon DEF GetView, ViewAt
  <1> QED
    BY <1>1, <1>2

\* A path has the numbers of the item and the ones above it.
PathFacts(p, r, X, i, s) ==
    /\ p = r \o <<X[i]>> /\ r \in Seq(1..Cardinality(ListItems)) /\ p \in Seq(1..Cardinality(ListItems))
    /\ Len(p) = Len(s) /\ Len(r) = Len(s) - 1 /\ p[Len(s)] = X[i]
    /\ \A j \in 1..Len(r) : r[j] = X[s[Len(s) - j]] /\ p[j] = X[s[Len(s) - j]]

\* What is at which place of the path.
LEMMA PathOf ==
    ASSUME NEW V, Tree(V), NEW X, Numbered(V, X), NEW i, Has(V, i), NEW s, s = Above(V, i),
           NEW p, p = PathTo(V, X, i)
    PROVE  \E r : PathFacts(p, r, X, i, s)
  <1> DEFINE N == 1..Cardinality(ListItems)
             above == Front(s)
             q == [k \in 1 .. Len(above) |-> X[above[k]]]
             r == Reverse(q)
             n == Len(s)
             one == <<X[i]>>
  <1>0. X \in [ListItems -> N] /\ i \in ListItems
    BY ParentFacts DEF Tree, Numbered
  <1>1. /\ s \in Seq(Lists) /\ n \in Nat /\ n >= 1
        /\ \A k \in 1..n : k < n => s[k] \in Folders
    BY AboveLists
  <1>2. above \in Seq(Lists) /\ Len(above) = n - 1 /\ \A k \in 1..(n - 1) : above[k] = s[k]
    <2>1. above = SubSeq(s, 1, n - 1)
      BY DEF Front
    <2> HIDE DEF above
    <2>2. 1 \in Nat /\ n - 1 \in Nat /\ 1 <= (n - 1) + 1 /\ n - 1 <= Len(s) /\ Len(s) \in Nat
      BY <1>1
    <2>3. \A k \in 1..((n - 1) - 1 + 1) : 1 + k - 1 = k
      OBVIOUS
    <2>4. above \in Seq(Lists) /\ Len(above) = IF 1 <= n - 1 THEN (n - 1) - 1 + 1 ELSE 0
      BY <1>1, <2>1, <2>2, SubSeqProperties
    <2>5. \A k \in 1..((n - 1) - 1 + 1) : above[k] = s[1 + k - 1]
      BY <1>1, <2>1, <2>2, SubSeqProperties
    <2>6. (n - 1) - 1 + 1 = n - 1
      BY <1>1
    <2>7. \A k \in 1..(n - 1) : above[k] = s[k]
      BY <2>3, <2>5, <2>6
    <2>8. Len(above) = n - 1
      <3>0. \A z \in Nat : z >= 1 => z - 1 = 0 \/ 1 <= z - 1
        OBVIOUS
      <3>1. n - 1 = 0 \/ 1 <= n - 1
        BY <1>1, <3>0, Zenon
      <3>2. ASSUME n - 1 = 0 PROVE ~(1 <= n - 1)
        BY <3>2
      <3> QED
        BY <2>4, <2>6, <3>1, <3>2
    <2> QED
      BY <2>4, <2>7, <2>8
  <1>3. p = r \o one
    BY Zenon DEF PathTo
  <1> HIDE DEF above, N
  <1>4. \A k \in 1..(n - 1) : X[s[k]] \in N
    <2>1. \A k \in 1..(n - 1) : s[k] \in ListItems
      BY <1>1, ListFacts
    <2> QED
      BY <1>0, <2>1
  <1>5. q \in Seq(N) /\ Len(q) = n - 1 /\ \A k \in 1..(n - 1) : q[k] = X[s[k]]
    <2>1. q = [k \in 1..(n - 1) |-> X[s[k]]]
      BY <1>2
    <2> HIDE DEF q
    <2>2. q \in [1..(n - 1) -> N]
      BY <1>4, <2>1
    <2>3. n - 1 \in Nat
      BY <1>1
    <2>4. q \in Seq(N)
      BY <2>2, <2>3, IsASeq
    <2>5. Len(q) = n - 1
      BY <2>2, <2>3
    <2> QED
      BY <2>1, <2>4, <2>5
  <1> HIDE DEF q
  <1>6. r \in Seq(N) /\ Len(r) = n - 1 /\ \A j \in 1..(n - 1) : r[j] = X[s[n - j]]
    <2>1. r = [j \in 1..(n - 1) |-> q[((n - 1) - j) + 1]]
      BY <1>5 DEF Reverse
    <2> HIDE DEF r
    <2>2. \A j \in 1..(n - 1) : ((n - 1) - j) + 1 = n - j /\ n - j \in 1..(n - 1)
      BY <1>1
    <2>3. \A j \in 1..(n - 1) : r[j] = X[s[n - j]] /\ r[j] \in N
      BY <1>4, <1>5, <2>1, <2>2
    <2>4. r \in [1..(n - 1) -> N]
      BY <2>1, <2>3
    <2>5. n - 1 \in Nat
      BY <1>1
    <2>6. r \in Seq(N)
      BY <2>4, <2>5, IsASeq
    <2>7. Len(r) = n - 1
      BY <2>4, <2>5
    <2> QED
      BY <2>3, <2>6, <2>7
  <1> HIDE DEF r
  <1>7. one \in Seq(N) /\ Len(one) = 1 /\ one[1] = X[i]
    <2>1. X[i] \in N
      BY <1>0
    <2> QED
      BY <2>1
  <1>p. p = r \o <<X[i]>>
    BY <1>3
  <1> HIDE DEF one
  <1>8. Join(p, r, one, N)
    <2>1. r \in Seq(N) /\ one \in Seq(N)
      BY <1>6, <1>7
    <2> QED
      BY <1>3, <2>1, Joined, Zenon
  <1>9. /\ p \in Seq(N) /\ Len(p) = Len(r) + Len(one)
        /\ \A k \in 1..Len(r) : p[k] = r[k]
        /\ \A k \in 1..Len(one) : p[Len(r) + k] = one[k]
    BY <1>8 DEF Join
  <1>10. Len(p) = n /\ p[n] = X[i]
    <2>1. Len(r) + 1 = n /\ 1 \in 1..Len(one)
      BY <1>1, <1>6, <1>7
    <2> QED
      BY <1>7, <1>9, <2>1
  <1>11. PathFacts(p, r, X, i, s)
    BY <1>6, <1>9, <1>10, <1>p DEF PathFacts, N
  <1> QED
    BY <1>11

\* The views that getView goes through
Downward(g, V, path) ==
    g = [d \in 1 .. Len(path) |->
            LET l == IF d = 1 THEN Root ELSE g[d - 1]
            IN  IF l \in Lists /\ path[d] \in DOMAIN V[l] THEN V[l][path[d]] ELSE None]

Child(V, l, k) == IF l \in Lists /\ k \in DOMAIN V[l] THEN V[l][k] ELSE None

\* The recursive function of GetView, step by step.
LEMMA DownwardSteps ==
    ASSUME NEW V, NEW path, NEW g
    PROVE  Downward(g, V, path) <=>
              g = [d \in 1..Len(path) |-> Child(V, IF d = 1 THEN Root ELSE g[d - 1], path[d])]
  BY Zenon DEF Downward, Child

\* getView gives the last of these views.
LEMMA ViewAtEnd ==
    ASSUME NEW V, NEW path, path # <<>>
    PROVE  ViewAt(V, path) = (CHOOSE g : Downward(g, V, path))[Len(path)]
  BY Zenon DEF ViewAt, Downward

\* At the path of an item there is the view of that item.
LEMMA ViewAtPath ==
    ASSUME NEW V, Tree(V), NEW X, Numbered(V, X), NEW i, Has(V, i), NEW p, p = PathTo(V, X, i)
    PROVE  ViewAt(V, p) = i
  <1> DEFINE s == Above(V, i)
             n == Len(s)
             c == [d \in 1..n |-> IF d = n THEN i ELSE s[n - d]]
  <1>0. V \in [Lists -> Seq(ListItems)] /\ Once(V) /\ Placed(V)
    BY DEF Tree
  <1>1. /\ s \in Seq(Lists) /\ n \in Nat /\ n >= 1 /\ s[1] = Parent(V, i) /\ s[n] = Root
        /\ \A k \in 1..n : s[k] \in Lists
        /\ \A k \in 1..n : k < n => s[k] \in Folders /\ k + 1 \in 1..n /\ s[k + 1] = Parent(V, s[k])
    BY AboveLists
  <1>2. PICK r : PathFacts(p, r, X, i, s)
    BY PathOf
  <1>3. Len(p) = n /\ p[n] = X[i] /\ \A j \in 1..(n - 1) : p[j] = X[s[n - j]]
    BY <1>2 DEF PathFacts
  <1> HIDE DEF s, n
  <1>4. \A d \in 1..n : c[d] = IF d = n THEN i ELSE s[n - d]
    OBVIOUS
  <1>c. c = [d \in 1..n |-> c[d]]
    OBVIOUS
  <1> HIDE DEF c
  <1>5. ASSUME NEW d \in 1..n
        PROVE  Child(V, IF d = 1 THEN Root ELSE c[d - 1], p[d]) = c[d]
    <2> DEFINE l == IF d = 1 THEN Root ELSE c[d - 1]
    <2>1. n - d + 1 \in 1..n /\ l = s[n - d + 1]
      <3>1. CASE d = 1
        BY <1>1, <3>1
      <3>2. CASE d # 1
        <4>1. d - 1 \in 1..n /\ d - 1 # n /\ n - (d - 1) = n - d + 1 /\ n - d + 1 \in 1..n
          BY <1>1, <3>2
        <4> QED
          BY <1>4, <3>2, <4>1
      <3> QED
        BY <3>1, <3>2
    <2> HIDE DEF l
    <2>2. l \in Lists
      BY <1>1, <2>1
    <2>3. c[d] \in ToSet(V[l]) /\ p[d] = X[c[d]]
      <3>1. CASE d = n
        <4>0. n - d + 1 = 1
          BY <1>1, <3>1
        <4>1. l = Parent(V, i) /\ c[d] = i /\ p[d] = X[i]
          BY <1>1, <1>3, <1>4, <2>1, <3>1, <4>0
        <4> QED
          BY <1>0, <4>1, ParentFacts
      <3>2. CASE d # n
        <4> DEFINE k == n - d
        <4>1. k \in 1..n /\ k < n /\ k + 1 = n - d + 1 /\ d \in 1..(n - 1)
          BY <1>1, <3>2
        <4>2. c[d] = s[k] /\ p[d] = X[s[k]]
          BY <1>3, <1>4, <3>2, <4>1
        <4> HIDE DEF k
        <4>3. s[k] \in Folders /\ l = Parent(V, s[k])
          BY <1>1, <2>1, <4>1
        <4>4. Has(V, s[k])
          BY <1>0, <4>3 DEF Placed, Has
        <4>5. s[k] \in ToSet(V[l])
          BY <1>0, <4>3, <4>4, ParentFacts
        <4> QED
          BY <4>2, <4>5
      <3> QED
        BY <3>1, <3>2
    <2>4. p[d] \in 1..Len(V[l]) /\ V[l][p[d]] = c[d] /\ DOMAIN V[l] = 1..Len(V[l])
      BY <1>0, <2>2, <2>3, NumberOf, SeqFacts
    <2>5. Child(V, l, p[d]) = c[d]
      BY <2>2, <2>4 DEF Child
    <2> QED
      BY <2>5, Zenon DEF l
  <1>6. Downward(c, V, p)
    <2>1. c = [d \in 1..n |-> Child(V, IF d = 1 THEN Root ELSE c[d - 1], p[d])]
      BY <1>5, <1>c
    <2> QED
      BY <1>3, <2>1, DownwardSteps, Zenon
  <1> DEFINE g == CHOOSE h : Downward(h, V, p)
  <1>7. Downward(g, V, p)
    BY <1>6, Zenon
  <1>8. p # <<>>
    <2>1. Len(p) # 0
      BY <1>1, <1>3
    <2> QED
      BY <2>1
  <1>9. ViewAt(V, p) = g[n]
    BY <1>3, <1>8, ViewAtEnd
  <1> HIDE DEF g
  <1>10. \A d \in 1..n : g[d] = Child(V, IF d = 1 THEN Root ELSE g[d - 1], p[d])
    <2>1. g = [d \in 1..n |-> Child(V, IF d = 1 THEN Root ELSE g[d - 1], p[d])]
      BY <1>3, <1>7, DownwardSteps, Zenon
    <2> QED
      BY <2>1, Zenon
  <1> DEFINE S == {m \in Nat : m + 1 \in 1..n => g[m + 1] = c[m + 1]}
  <1>11. S \subseteq Nat
    OBVIOUS
  <1>12. 0 \in S
    <2>1. 1 \in 1..n
      BY <1>1
    <2>2. g[1] = Child(V, Root, p[1]) /\ c[1] = Child(V, Root, p[1])
      BY <1>5, <1>10, <2>1
    <2> QED
      BY <2>2
  <1>13. ASSUME NEW m \in S PROVE m + 1 \in S
    <2>1. m \in Nat /\ (m + 1 \in 1..n => g[m + 1] = c[m + 1])
      OBVIOUS
    <2> HIDE DEF S
    <2>2. ASSUME (m + 1) + 1 \in 1..n PROVE g[(m + 1) + 1] = c[(m + 1) + 1]
      <3> DEFINE d == (m + 1) + 1
      <3>1. d \in 1..n /\ d # 1 /\ d - 1 = m + 1 /\ m + 1 \in 1..n
        BY <1>1, <2>1, <2>2
      <3> HIDE DEF d
      <3>2. g[d] = Child(V, g[d - 1], p[d]) /\ c[d] = Child(V, c[d - 1], p[d])
        BY <1>5, <1>10, <3>1
      <3>3. g[d - 1] = c[d - 1]
        BY <2>1, <3>1
      <3>4. g[d] = c[d]
        BY <3>2, <3>3
      <3> QED
        BY <3>4 DEF d
    <2> QED
      BY <2>1, <2>2 DEF S
  <1>14. S = Nat
    <2> HIDE DEF S
    <2> QED
      BY <1>11, <1>12, <1>13, Inductive
  <1>15. g[n] = c[n]
    <2>1. n - 1 \in Nat /\ (n - 1) + 1 = n /\ n \in 1..n
      BY <1>1
    <2>2. n - 1 \in S
      <3> HIDE DEF S
      <3> QED
        BY <1>14, <2>1
    <2> QED
      BY <2>1, <2>2
  <1>16. c[n] = i
    BY <1>1, <1>4
  <1> QED
    BY <1>9, <1>15, <1>16

\* What getView finds is a view.
LEMMA ViewFound ==
    ASSUME NEW V, V \in [Lists -> Seq(ListItems)], NEW N, NEW path \in Seq(N), NEW x, x = ViewAt(V, path),
           x # None
    PROVE  Has(V, x)
  <1> DEFINE m == Len(path)
             X == ListItems \cup Lists \cup {None}
             f == [w \in (1..m) \X X |-> Child(V, w[2], path[w[1]])]
  <1>0. m \in Nat
    OBVIOUS
  <1>1. \A l : \A k : Child(V, l, k) \in X
    <2> SUFFICES ASSUME NEW l, NEW k PROVE Child(V, l, k) \in X
      OBVIOUS
    <2>1. CASE l \in Lists /\ k \in DOMAIN V[l]
      <3>1. Child(V, l, k) = V[l][k] /\ V[l][k] \in ListItems
        BY <2>1, SeqFacts DEF Child
      <3> QED
        BY <3>1
    <2>2. CASE ~(l \in Lists /\ k \in DOMAIN V[l])
      BY <2>2 DEF Child
    <2> QED
      BY <2>1, <2>2
  <1>2. Root \in X
    BY ListFacts
  <1> HIDE DEF X, m
  <1>3. /\ f \in [(1..m) \X X -> X]
        /\ \A d \in 1..m, l \in X : f[<<d, l>>] = Child(V, l, path[d])
    BY <1>1
  <1> HIDE DEF f
  <1>4. PICK g : Loop(g, X, Root, m, f)
    BY <1>0, <1>2, <1>3, Iterated
  <1>5. g \in [0..m -> X] /\ g[0] = Root /\ \A d \in 1..m : g[d] = f[<<d, g[d - 1]>>]
    BY <1>4 DEF Loop
  <1> DEFINE h == [d \in 1..m |-> g[d]]
  <1>6. ASSUME NEW d \in 1..m PROVE h[d] = Child(V, IF d = 1 THEN Root ELSE h[d - 1], path[d])
    <2>1. d - 1 \in 0..m /\ h[d] = g[d]
      BY <1>0
    <2>2. g[d - 1] \in X
      BY <1>5, <2>1
    <2>3. h[d] = Child(V, g[d - 1], path[d])
      BY <1>3, <1>5, <2>1, <2>2
    <2>4. g[d - 1] = IF d = 1 THEN Root ELSE h[d - 1]
      <3>1. CASE d = 1
        BY <1>5, <3>1
      <3>2. CASE d # 1
        <4>1. d - 1 \in 1..m
          BY <1>0, <3>2
        <4> QED
          BY <3>2, <4>1
      <3> QED
        BY <3>1, <3>2
    <2> QED
      BY <2>3, <2>4
  <1>7. h = [d \in 1..m |-> Child(V, IF d = 1 THEN Root ELSE h[d - 1], path[d])]
    BY <1>6
  <1> HIDE DEF h
  <1>8. Downward(h, V, path)
    BY <1>7, DownwardSteps, Zenon DEF m
  <1>9. path # <<>>
    BY Zenon DEF ViewAt
  <1> DEFINE v == CHOOSE w : Downward(w, V, path)
  <1>10. Downward(v, V, path)
    BY <1>8, Zenon
  <1>11. x = v[m]
    BY <1>9, ViewAtEnd, Zenon DEF m
  <1> HIDE DEF v
  <1>12. v = [d \in 1..m |-> Child(V, IF d = 1 THEN Root ELSE v[d - 1], path[d])]
    BY <1>10, DownwardSteps, Zenon DEF m
  <1>13. m \in 1..m
    <2>1. Len(path) # 0
      BY <1>9
    <2> QED
      BY <1>0, <2>1 DEF m
  <1> DEFINE l == IF m = 1 THEN Root ELSE v[m - 1]
  <1>14. x = Child(V, l, path[m])
    BY <1>11, <1>12, <1>13
  <1> HIDE DEF l
  <1>15. l \in Lists /\ path[m] \in DOMAIN V[l] /\ x = V[l][path[m]]
    BY <1>14 DEF Child
  <1>16. x \in ToSet(V[l])
    BY <1>15, SeqFacts
  <1> QED
    BY <1>15, <1>16 DEF Has

-----------------------------------------------------------------------------
(* The inductive invariant *)

Others ==
    /\ setup \in Setups /\ expanded \subseteq Folders
    /\ selection \in ListItems \cup {None} /\ pressed \in ListItems \cup {None}
    /\ state \in {"idle", "pressed", "reordering"}
    /\ itemPath = None \/ itemPath \in Seq(1..Cardinality(ListItems))

\* What the drag helper knows of the item that was pressed
Helper ==
    /\ state = "reordering" => itemPath \in Seq(1..Cardinality(ListItems))
    /\ "pressed" \notin setup.changesIn =>
          /\ state = "pressed" =>
                /\ selection = pressed /\ Has(childViews, pressed)
                /\ itemPath # None => itemPath = <<index[pressed]>> /\ pressed \notin Fixed
          /\ state = "reordering" =>
                /\ Has(childViews, pressed) /\ pressed \notin Fixed
                /\ itemPath = PathTo(childViews, index, pressed)

IInv == Ready /\ Others /\ Helper

\* The parts of Ready.
LEMMA ReadyFacts ==
    ASSUME Ready
    PROVE  /\ Tree(childViews) /\ childViews \in [Lists -> Seq(ListItems)] /\ Once(childViews)
           /\ Placed(childViews) /\ Numbered(childViews, index)
           /\ index \in [ListItems -> 1..Cardinality(ListItems)] /\ contents = childViews
  BY DEF Ready, Tree, Numbered

\* The content at first is a tree, which the views are made from.
LEMMA InitInv == ListInit => IInv
  <1> SUFFICES ASSUME ListInit PROVE IInv
    OBVIOUS
  <1> DEFINE V == contents
  <1>1. V = FirstContent /\ childViews = V
    BY DEF ListInit
  <1>2. Tree(V)
    <2>1. FirstContent \in [Lists -> Seq(ListItems)]
      BY ListAssumption
    <2>2. Once(FirstContent)
      BY ListAssumption DEF Once
    <2>3. Placed(FirstContent)
      BY ListAssumption DEF Placed
    <2>4. PICK level \in [Lists -> 0 .. Cardinality(Folders)] : \A l \in Lists, f \in Folders :
             f \in ToSet(FirstContent[l]) => level[l] < level[f]
      BY ListAssumption
    <2>5. level \in [Lists -> Nat]
      OBVIOUS
    <2>6. Level(FirstContent, level)
      BY <2>4, <2>5 DEF Level
    <2> QED
      BY <1>1, <2>1, <2>2, <2>3, <2>6 DEF Tree
  <1>3. V \in [Lists -> Seq(ListItems)] /\ Once(V)
    BY <1>2 DEF Tree
  <1> DEFINE Spot(i) == CHOOSE k \in DOMAIN V[ParentView(i)] : V[ParentView(i)][k] = i
  <1>4. index = [i \in ListItems |-> IF HasView(i) THEN Spot(i) ELSE 1]
    BY Zenon DEF ListInit
  <1>5. ASSUME NEW i, NEW l \in Lists, i \in ToSet(V[l])
        PROVE  HasView(i) /\ Spot(i) \in 1..Len(V[l]) /\ V[l][Spot(i)] = i
    <2>1. Has(V, i) /\ Parent(V, i) = l
      BY <1>3, <1>5, ParentOf
    <2>2. HasView(i) /\ ParentView(i) = l
      BY <1>1, <2>1, Views
    <2>3. \E k \in DOMAIN V[l] : V[l][k] = i
      BY <1>5 DEF ToSet
    <2>4. DOMAIN V[l] = 1..Len(V[l])
      BY <1>3, SeqFacts
    <2> QED
      BY <2>2, <2>3, <2>4
  <1> HIDE DEF Spot
  <1>6. Cardinality(ListItems) \in Nat /\ IsFiniteSet(ListItems)
    BY ListFacts
  <1>7. ASSUME NEW i \in ListItems
        PROVE  (IF HasView(i) THEN Spot(i) ELSE 1) \in 1..Cardinality(ListItems)
    <2>1. CASE HasView(i)
      <3>1. PICK l \in Lists : i \in ToSet(V[l])
        BY <1>1, <2>1 DEF HasView
      <3>2. Spot(i) \in 1..Len(V[l])
        BY <1>5, <3>1
      <3>3. Len(V[l]) \in Nat /\ Len(V[l]) <= Cardinality(ListItems)
        BY <1>3, SeqFacts, Places
      <3> QED
        BY <1>6, <2>1, <3>2, <3>3
    <2>2. CASE ~HasView(i)
      <3>1. ListItems # {}
        OBVIOUS
      <3>2. Cardinality(ListItems) # 0
        BY <1>6, <3>1, FS_EmptySet
      <3> QED
        BY <1>6, <2>2, <3>2
    <2> QED
      BY <2>1, <2>2
  <1>8. index \in [ListItems -> 1..Cardinality(ListItems)]
    BY <1>4, <1>7
  <1>9. ASSUME NEW l \in Lists, NEW k \in 1..Len(V[l]) PROVE index[V[l][k]] = k
    <2>1. V[l][k] \in ListItems /\ V[l][k] \in ToSet(V[l])
      BY <1>3, SeqFacts
    <2>2. HasView(V[l][k]) /\ Spot(V[l][k]) \in 1..Len(V[l]) /\ V[l][Spot(V[l][k])] = V[l][k]
      BY <1>5, <2>1
    <2>3. Spot(V[l][k]) = k
      BY <1>3, <2>2, OnceLists
    <2> QED
      BY <1>4, <2>1, <2>2, <2>3
  <1>10. Numbered(V, index)
    BY <1>8, <1>9 DEF Numbered, NumberedIn
  <1>11. Ready
    BY <1>1, <1>2, <1>10 DEF Ready
  <1>12. Others
    BY DEF ListInit, Others
  <1>13. Helper
    BY DEF ListInit, Helper
  <1> QED
    BY <1>11, <1>12, <1>13 DEF IInv

\* The views stay as they are.
LEMMA SameViews ==
    ASSUME Ready, UNCHANGED <<contents, childViews, index>>
    PROVE  Ready'
  BY DEF Ready

\* mouseDown: contentIndex leads to the item itself.
LEMMA MouseDownStep ==
    ASSUME IInv, NEW i \in ListItems, MouseDownOnItem(i)
    PROVE  IInv'
  <1> DEFINE l == ParentView(i)
  <1>1. Ready /\ Others /\ HasView(i)
    BY DEF IInv, MouseDownOnItem, Visible
  <1>2. Has(childViews, i) /\ l \in Lists /\ i \in ToSet(childViews[l])
    BY <1>1, Views, ParentFacts, ReadyFacts
  <1>3. index[i] \in 1..Cardinality(ListItems) /\ childViews[l][index[i]] = i /\ contents[l][index[i]] = i
    <2> HIDE DEF l
    <2>1. /\ childViews \in [Lists -> Seq(ListItems)] /\ Once(childViews)
          /\ Numbered(childViews, index) /\ contents = childViews
      BY <1>1, ReadyFacts
    <2>2. index[i] \in 1..Cardinality(ListItems) /\ childViews[l][index[i]] = i
      BY <1>2, <2>1, NumberOf
    <2> QED
      BY <2>1, <2>2
  <1>4. /\ selection' = contents[l][index[i]]
        /\ itemPath' = IF childViews[l][index[i]] \in Fixed THEN None ELSE <<index[i]>>
        /\ state' = "pressed" /\ pressed' = i
        /\ UNCHANGED <<setup, contents, childViews, index, expanded>>
    BY Zenon DEF MouseDownOnItem
  <1> HIDE DEF l
  <1>5. <<index[i]>> \in Seq(1..Cardinality(ListItems))
    BY <1>3
  <1>6. Ready'
    BY <1>1, <1>4, SameViews
  <1>7. Others'
    BY <1>1, <1>3, <1>4, <1>5 DEF Others
  <1>8. Helper'
    BY <1>2, <1>3, <1>4 DEF Helper
  <1> QED
    BY <1>6, <1>7, <1>8 DEF IInv

\* What ends in the idle state forgets the drag.
LEMMA IdleStep ==
    ASSUME IInv, MouseUp \/ FinishReorder \/ \E direction \in {"up", "down"} : ChangeSelection(direction)
    PROVE  IInv'
  <1>1. Ready /\ Others
    BY DEF IInv
  <1>2. UNCHANGED <<contents, childViews, index>> /\ state' = "idle"
    BY DEF MouseUp, FinishReorder, ChangeSelection
  <1>3. Ready'
    BY <1>1, <1>2, SameViews
  <1>4. Others'
    <2>1. CASE MouseUp
      BY <1>1, <2>1 DEF Others, MouseUp
    <2>2. CASE FinishReorder
      BY <1>1, <2>2 DEF Others, FinishReorder
    <2>3. ASSUME NEW direction, ChangeSelection(direction) PROVE Others'
      <3>1. PICK k \in 1..Len(contents[Root]) : selection' = contents[Root][k]
        BY <2>3 DEF ChangeSelection
      <3>2. Root \in Lists /\ contents \in [Lists -> Seq(ListItems)]
        BY <1>1, ListFacts, ReadyFacts
      <3>3. selection' \in ListItems
        BY <3>1, <3>2
      <3> QED
        BY <1>1, <2>3, <3>3 DEF Others, ChangeSelection
    <2> QED
      BY <2>1, <2>2, <2>3
  <1>5. Helper'
    BY <1>2 DEF Helper
  <1> QED
    BY <1>3, <1>4, <1>5 DEF IInv

LEMMA FrontOfPath ==
    ASSUME NEW S, NEW r \in Seq(S), NEW x \in S, NEW p, p = r \o <<x>>
    PROVE  Front(p) = r
  <1> DEFINE n == Len(r)
             one == <<x>>
             f == Front(p)
  <1>1. n \in Nat /\ one \in Seq(S) /\ Len(one) = 1 /\ \A k \in 1..n : r[k] \in S
    OBVIOUS
  <1>2. Join(p, r, one, S)
    <2>1. p = r \o one
      OBVIOUS
    <2> HIDE DEF one
    <2> QED
      BY <1>1, <2>1, Joined, Zenon
  <1> HIDE DEF one
  <1>3. Len(p) = n + 1 /\ \A k \in 1..n : p[k] = r[k] /\ p[k] \in S
    BY <1>1, <1>2 DEF Join
  <1>4. f = SubSeq(p, 1, n)
    <2>1. Len(p) - 1 = n
      BY <1>1, <1>3
    <2> QED
      BY <2>1 DEF Front
  <1> HIDE DEF f, n
  <1>5. /\ f \in Seq(S) /\ Len(f) = IF 1 <= n THEN n - 1 + 1 ELSE 0
        /\ \A k \in 1..(n - 1 + 1) : f[k] = p[1 + k - 1]
    <2>1. 1 \in Int /\ n \in Int
      BY <1>1
    <2> QED
      BY <1>3, <1>4, <2>1, SubSeqProperties
  <1>6. Len(f) = n /\ n - 1 + 1 = n /\ \A k \in 1..n : 1 + k - 1 = k
    BY <1>1, <1>5
  <1>7. \A k \in 1..n : f[k] = r[k]
    BY <1>3, <1>5, <1>6
  <1> QED
    BY <1>5, <1>6, <1>7, SeqEqual DEF f, n

\* startReordering: with the numbers of the lists above, the path is complete.
LEMMA StartStep ==
    ASSUME IInv, StartReordering
    PROVE  IInv'
  <1> DEFINE N == 1..Cardinality(ListItems)
             p == PathTo(childViews, index, pressed)
             x == index[pressed]
  <1>1. Ready /\ Others /\ Helper /\ state = "pressed" /\ itemPath # None /\ Has(childViews, pressed)
    BY Views DEF IInv, StartReordering
  <1>2. /\ itemPath' = Front(ResolvePath(pressed)) \o itemPath
        /\ state' = "reordering"
        /\ UNCHANGED <<setup, contents, childViews, index, expanded, selection, pressed>>
    BY DEF StartReordering
  <1>3. itemPath' = Front(p) \o itemPath
    BY <1>2, Paths
  <1>4. Tree(childViews) /\ Numbered(childViews, index)
    BY <1>1, ReadyFacts
  <1>5. PICK r : PathFacts(p, r, index, pressed, Above(childViews, pressed))
    BY <1>1, <1>4, PathOf
  <1> HIDE DEF p
  <1>6. p = r \o <<x>> /\ r \in Seq(N) /\ p \in Seq(N) /\ x \in N
    <2>1. pressed \in ListItems
      BY <1>1, ParentFacts, ReadyFacts
    <2> QED
      BY <1>1, <1>5, <2>1, ReadyFacts DEF PathFacts
  <1> HIDE DEF x, N
  <1>7. Front(p) = r
    BY <1>6, FrontOfPath
  <1>8. itemPath \in Seq(N) /\ itemPath' \in Seq(N)
    <2>1. itemPath \in Seq(N)
      BY <1>1 DEF Others, N
    <2> QED
      BY <1>3, <1>6, <1>7, <2>1
  <1>9. ASSUME "pressed" \notin setup.changesIn
        PROVE  itemPath' = p /\ pressed \notin Fixed
    <2>1. itemPath = <<x>> /\ pressed \notin Fixed
      BY <1>1, <1>9 DEF Helper, x
    <2> QED
      BY <1>3, <1>6, <1>7, <2>1
  <1>10. Ready'
    BY <1>1, <1>2, SameViews
  <1>11. Others'
    BY <1>1, <1>2, <1>8 DEF Others, N
  <1>12. Helper'
    BY <1>1, <1>2, <1>8, <1>9 DEF Helper, N, p
  <1> QED
    BY <1>10, <1>11, <1>12 DEF IInv

\* A move of the drag
LEMMA Dragged ==
    ASSUME IInv, NEW direction \in {"up", "down"}, NEW i \in ListItems, NEW levels \in -MaxLevels .. MaxLevels,
           UpdateDisplay(direction, i, levels)
    PROVE  \E d \in ListItems, T \in Lists :
              /\ d = ViewAt(childViews, itemPath) /\ Has(childViews, d)
              /\ itemPath' = ResolvePath(d)'
              /\ Ready' /\ MovedTo(childViews', childViews, d, T)
              /\ <<d, T>> \notin setup.badDrops
  <1> DEFINE N == 1..Cardinality(ListItems)
  <1>1. Ready /\ Others /\ Helper /\ state = "reordering" /\ itemPath \in Seq(N)
    BY DEF IInv, Helper, UpdateDisplay
  <1>2. PICK d \in ListItems :
           /\ d = GetView(itemPath) /\ i \in Candidates(d, direction)
           /\ ResolveNewPath(d, direction, i, levels) # None
           /\ ResolveNewPath(d, direction, i, levels).item # d
           /\ MoveItem(d, ResolveNewPath(d, direction, i, levels))
           /\ itemPath' = ResolvePath(d)'
    BY Zenon DEF UpdateDisplay
  <1> DEFINE t == ResolveNewPath(d, direction, i, levels)
  <1>4. d = ViewAt(childViews, itemPath)
    BY <1>2, Paths
  <1>5. Has(childViews, d)
    <2>1. d # None
      BY ListAssumption
    <2>2. childViews \in [Lists -> Seq(ListItems)]
      BY <1>1, ReadyFacts
    <2> HIDE DEF N
    <2> QED
      BY <1>1, <1>4, <2>1, <2>2, ViewFound
  <1>6. t \in Targets(d)
    <2>1. levels \in Int
      BY ListAssumption
    <2>2. i \in Candidates(d, direction) /\ t # None
      BY <1>2
    <2> HIDE DEF t
    <2>3. t = ResolveNewPath(d, direction, i, levels)
      BY DEF t
    <2> QED
      BY <1>1, <2>1, <2>2, <2>3, PathResolved
  <1>7. Ready' /\ MovedTo(childViews', childViews, d, NewParent(t))
    <2>1. HasView(d) /\ t.item # d /\ MoveItem(d, t)
      BY <1>2, <1>5, Views
    <2> HIDE DEF t
    <2> QED
      BY <1>1, <1>5, <1>6, <2>1, Moved
  <1>8. ~PathInvalid(d, t)
    <2>1. t # None
      BY <1>2
    <2>2. PICK u : t = IF PathInvalid(d, u) THEN None ELSE u
      BY Zenon DEF ResolveNewPath
    <2> HIDE DEF t
    <2> QED
      BY <2>1, <2>2
  <1>9. <<d, NewParent(t)>> \notin setup.badDrops
    BY <1>8 DEF PathInvalid
  <1>10. NewParent(t) \in Lists
    <2>1. t.item # d
      BY <1>2
    <2> HIDE DEF t
    <2> QED
      BY <1>1, <1>6, <2>1, TargetList
  <1> HIDE DEF t
  <1> QED
    BY <1>2, <1>4, <1>5, <1>7, <1>9, <1>10

\* updateDisplay: the new path leads to the item that was moved.
LEMMA DragStep ==
    ASSUME IInv, NEW direction \in {"up", "down"}, NEW i \in ListItems, NEW levels \in -MaxLevels .. MaxLevels,
           UpdateDisplay(direction, i, levels)
    PROVE  IInv'
  <1> DEFINE N == 1..Cardinality(ListItems)
  <1>1. Ready /\ Others /\ Helper /\ state = "reordering" /\ itemPath \in Seq(N)
    BY DEF IInv, Helper, UpdateDisplay
  <1>2. PICK d \in ListItems, T \in Lists :
           /\ d = ViewAt(childViews, itemPath) /\ Has(childViews, d)
           /\ itemPath' = ResolvePath(d)'
           /\ Ready' /\ MovedTo(childViews', childViews, d, T)
           /\ <<d, T>> \notin setup.badDrops
    BY Dragged, Zenon
  <1>3. UNCHANGED <<setup, expanded, selection, state, pressed>>
    BY DEF UpdateDisplay
  <1>4. d = ViewAt(childViews, itemPath)
    BY <1>2
  <1>7. Ready' /\ Has(childViews', d)
    BY <1>2 DEF MovedTo
  <1> DEFINE p == PathTo(childViews', index', d)
  <1>8. itemPath' = p
    <2>1. ResolvePath(d)' = p
      BY Zenon DEF ResolvePath, PathTo, ListsAbove, Above, ParentView, Parent
    <2> QED
      BY <1>2, <2>1
  <1>9. p \in Seq(N)
    <2>1. Tree(childViews') /\ Numbered(childViews', index')
      BY <1>7 DEF Ready
    <2>2. PICK r : PathFacts(p, r, index', d, Above(childViews', d))
      BY <1>7, <2>1, PathOf
    <2> QED
      BY <2>2 DEF PathFacts
  <1>10. ASSUME "pressed" \notin setup.changesIn PROVE d = pressed /\ pressed \notin Fixed
    <2>1. /\ Has(childViews, pressed) /\ pressed \notin Fixed
          /\ itemPath = PathTo(childViews, index, pressed)
      BY <1>1, <1>10 DEF Helper
    <2>2. ViewAt(childViews, itemPath) = pressed
      BY <1>1, <2>1, ReadyFacts, ViewAtPath
    <2> QED
      BY <1>4, <2>1, <2>2
  <1>11. Others'
    BY <1>1, <1>3, <1>8, <1>9 DEF Others
  <1> HIDE DEF p
  <1>12. Helper'
    BY <1>1, <1>3, <1>7, <1>8, <1>9, <1>10 DEF Helper, p
  <1> QED
    BY <1>7, <1>11, <1>12 DEF IInv

\* The content changes.
LEMMA ChangedViews ==
    ASSUME Ready, NEW l \in Lists, NEW new, NEW W, W = [childViews EXCEPT ![l] = new], Tree(W),
           ArrayDidChange(l, new)
    PROVE  Ready'
  <1>1. /\ childViews \in [Lists -> Seq(ListItems)] /\ Numbered(childViews, index) /\ contents = childViews
        /\ index \in [ListItems -> 1..Cardinality(ListItems)]
    BY ReadyFacts
  <1>2. childViews' = W /\ contents' = W /\ index' = Indexed(index, W, l)
    <2>1. /\ contents' = [contents EXCEPT ![l] = new]
          /\ childViews' = [childViews EXCEPT ![l] = new]
          /\ index' = Indexed(index, [childViews EXCEPT ![l] = new], l)
      BY Zenon DEF ArrayDidChange
    <2> QED
      BY <1>1, <2>1
  <1>3. W \in [Lists -> Seq(ListItems)] /\ Once(W)
    BY DEF Tree
  <1>4. ASSUME NEW m \in Lists, m # l PROVE NumberedIn(W, index, m)
    <2>1. W[m] = childViews[m]
      BY <1>1, <1>4
    <2> QED
      BY <1>1, <2>1 DEF Numbered, NumberedIn
  <1>5. Numbered(W, Indexed(index, W, l))
    BY <1>1, <1>3, <1>4, Renumbered
  <1>6. Tree(childViews') /\ Numbered(childViews', index') /\ contents' = childViews'
    BY <1>2, <1>5
  <1> QED
    BY <1>6 DEF Ready

\* Changes from outside come before a drag only.
LEMMA ChangeStep ==
    ASSUME IInv, NEW l \in Lists, NEW i \in ListItems, NEW at \in 1..Cardinality(ListItems),
           RemoveItem(l, i) \/ InsertItem(l, i, at)
    PROVE  IInv'
  <1>1. /\ Ready /\ Others /\ Helper
        /\ Tree(childViews) /\ childViews \in [Lists -> Seq(ListItems)] /\ contents = childViews
    BY ReadyFacts DEF IInv
  <1>2. state \in setup.changesIn /\ UNCHANGED <<setup, expanded, selection, state, pressed, itemPath>>
    BY DEF RemoveItem, InsertItem, ArrayDidChange
  <1>3. Ready'
    <2>1. CASE RemoveItem(l, i)
      <3> DEFINE new == RemoveObject(childViews[l], i)
                 W == [childViews EXCEPT ![l] = RemoveObject(@, i)]
      <3>1. i \notin Folders /\ ArrayDidChange(l, new)
        BY <1>1, <2>1, Zenon DEF RemoveItem
      <3>2. Tree(W)
        BY <1>1, <3>1, SmallerTree, Zenon
      <3>3. W = [childViews EXCEPT ![l] = new]
        OBVIOUS
      <3> HIDE DEF W, new
      <3> QED
        BY <1>1, <3>1, <3>2, <3>3, ChangedViews
    <2>2. CASE InsertItem(l, i, at)
      <3> DEFINE new == InsertAt(childViews[l], at, i)
                 W == [childViews EXCEPT ![l] = InsertAt(@, at, i)]
      <3>1. /\ \A m \in Lists : i \notin ToSet(childViews[m])
            /\ at \in 1..(Len(childViews[l]) + 1) /\ ArrayDidChange(l, new)
        BY <1>1, <2>2, Zenon DEF InsertItem
      <3>2. Tree(W)
        BY <1>1, <3>1, LargerTree, Zenon
      <3>3. W = [childViews EXCEPT ![l] = new]
        OBVIOUS
      <3> HIDE DEF W, new
      <3> QED
        BY <1>1, <3>1, <3>2, <3>3, ChangedViews
    <2> QED
      BY <2>1, <2>2
  <1>4. Others'
    BY <1>1, <1>2 DEF Others
  <1>5. state # "reordering"
    <2>1. setup.changesIn \subseteq {"idle", "pressed"}
      BY <1>1, ListAssumption DEF Others
    <2> QED
      BY <1>2, <2>1
  <1>6. Helper'
    <2>1. "pressed" \notin setup.changesIn => state # "pressed"
      BY <1>2
    <2> QED
      BY <1>2, <1>5, <2>1 DEF Helper
  <1> QED
    BY <1>3, <1>4, <1>6 DEF IInv

\* Every step preserves the invariant.
LEMMA StepInv == IInv /\ [ListNext]_listVars => IInv'
  <1> SUFFICES ASSUME IInv, [ListNext]_listVars PROVE IInv'
    OBVIOUS
  <1>1. CASE ListNext
    <2>1. ASSUME NEW i \in ListItems, MouseDownOnItem(i) PROVE IInv'
      BY <2>1, MouseDownStep
    <2>2. CASE MouseUp \/ FinishReorder
      BY <2>2, IdleStep
    <2>3. CASE StartReordering
      BY <2>3, StartStep
    <2>4. ASSUME NEW direction \in {"up", "down"}, ChangeSelection(direction) PROVE IInv'
      BY <2>4, IdleStep
    <2>5. ASSUME NEW direction \in {"up", "down"}, NEW i \in ListItems,
                 NEW levels \in -MaxLevels .. MaxLevels, UpdateDisplay(direction, i, levels)
          PROVE  IInv'
      BY <2>5, DragStep
    <2>6. ASSUME NEW l \in Lists, NEW i \in ListItems,
                 RemoveItem(l, i) \/ \E at \in 1 .. Cardinality(ListItems) : InsertItem(l, i, at)
          PROVE  IInv'
      <3>1. 1 \in 1..Cardinality(ListItems)
        <4>1. ListItems # {}
          OBVIOUS
        <4>2. Cardinality(ListItems) # 0 /\ Cardinality(ListItems) \in Nat
          BY <4>1, ListFacts, FS_EmptySet
        <4> QED
          BY <4>2
      <3> QED
        BY <2>6, <3>1, ChangeStep
    <2> QED
      BY <1>1, <2>1, <2>2, <2>3, <2>4, <2>5, <2>6, Zenon DEF ListNext
  <1>2. CASE UNCHANGED listVars
    <2>1. Ready /\ Others /\ Helper
      BY DEF IInv
    <2>2. Ready'
      BY <1>2, <2>1, SameViews DEF listVars
    <2>3. Others'
      BY <1>2, <2>1 DEF listVars, Others
    <2>4. Helper'
      BY <1>2, <2>1 DEF listVars, Helper
    <2> QED
      BY <2>2, <2>3, <2>4 DEF IInv
  <1> QED
    BY <1>1, <1>2

\* The invariant implies the first property,
LEMMA InvTree == IInv => ViewsAndItemsFormATree
  <1> SUFFICES ASSUME IInv PROVE ViewsAndItemsFormATree
    OBVIOUS
  <1>1. Ready /\ Others
    BY DEF IInv
  <1>2. /\ Tree(childViews) /\ childViews \in [Lists -> Seq(ListItems)] /\ Once(childViews)
        /\ Placed(childViews) /\ Numbered(childViews, index)
        /\ index \in [ListItems -> 1..Cardinality(ListItems)] /\ contents = childViews
    BY <1>1, ReadyFacts
  <1>3. ListTypeOK
    BY <1>1, <1>2 DEF ListTypeOK, Others
  <1>4. ViewsMatchContent
    <2>1. ASSUME NEW l \in Lists, NEW k \in DOMAIN childViews[l] PROVE index[childViews[l][k]] = k
      <3>1. k \in 1..Len(childViews[l])
        BY <1>2, SeqFacts
      <3> QED
        BY <1>2, <3>1 DEF Numbered, NumberedIn
    <2> QED
      BY <1>2, <1>3, <2>1 DEF ViewsMatchContent
  <1>5. ItemsFormATree
    <2>1. ASSUME NEW i \in Folders PROVE HasView(i) /\ Last(ListsAbove(i)) = Root
      <3>1. Has(childViews, i)
        BY <1>2 DEF Placed, Has
      <3> DEFINE s == Above(childViews, i)
      <3>2. s[Len(s)] = Root
        BY <1>2, <3>1, AboveLists
      <3>3. ListsAbove(i) = s
        BY Views
      <3> HIDE DEF s
      <3> QED
        BY <3>1, <3>2, <3>3, Views DEF Last
    <2>2. Once(contents)
      BY <1>2
    <2> QED
      BY <2>1, <2>2, Zenon DEF ItemsFormATree, Once
  <1> QED
    BY <1>4, <1>5 DEF ViewsAndItemsFormATree

\* and the second one.
LEMMA InvDrag == IInv => DragsThePressed
  <1> SUFFICES ASSUME IInv, "pressed" \notin setup.changesIn
               PROVE  /\ state = "pressed" => selection = pressed
                      /\ state = "reordering" => GetView(itemPath) = pressed /\ pressed \notin Fixed
    BY DEF DragsThePressed
  <1>1. Ready /\ Helper
    BY DEF IInv
  <1>2. ASSUME state = "reordering" PROVE GetView(itemPath) = pressed /\ pressed \notin Fixed
    <2>1. /\ Has(childViews, pressed) /\ pressed \notin Fixed
          /\ itemPath = PathTo(childViews, index, pressed)
      BY <1>1, <1>2 DEF Helper
    <2>2. ViewAt(childViews, itemPath) = pressed
      BY <1>1, <2>1, ReadyFacts, ViewAtPath
    <2> QED
      BY <2>1, <2>2, Paths
  <1> QED
    BY <1>1, <1>2 DEF Helper

-----------------------------------------------------------------------------

\* The views of a list or tree view and its contents are the same tree at all
\* times, each item view knowing its place: the moves of a drag, which change
\* all three by hand while the observers are suppressed (_moveItem), never put
\* an item inside itself, lose it or show it elsewhere than it is.
THEOREM TreeCorrect == ListSpec => []ViewsAndItemsFormATree
  <1>1. ListSpec => []IInv
    BY InitInv, StepInv, PTL DEF ListSpec
  <1> QED
    BY <1>1, InvTree, PTL

\* The item that was pressed is selected, and the path that the drag helper
\* keeps (itemPath) leads to it after each move, whichever level it went to, if
\* the content did not change before the drag began.
THEOREM DragCorrect == ListSpec => []DragsThePressed
  <1>1. ListSpec => []IInv
    BY InitInv, StepInv, PTL DEF ListSpec
  <1> QED
    BY <1>1, InvDrag, PTL

-----------------------------------------------------------------------------
(* What a drag changes *)

\* A step during a drag that changes the views is a move of the drag.
LEMMA DragsKeep ==
    ASSUME IInv, ListNext, state = "reordering", state' = "reordering", childViews' # childViews
    PROVE  /\ UNION {ToSet(contents[l]) : l \in Lists} = UNION {ToSet(contents'[l]) : l \in Lists}
           /\ \A i \in ListItems, l \in Lists :
                 i \in ToSet(contents'[l]) /\ i \notin ToSet(contents[l]) => <<i, l>> \notin setup.badDrops
  <1>1. setup.changesIn \subseteq {"idle", "pressed"}
    BY ListAssumption DEF IInv, Others
  <1>2. "reordering" \notin setup.changesIn
    BY <1>1
  <1>3. PICK direction \in {"up", "down"}, k \in ListItems, levels \in -MaxLevels .. MaxLevels :
           UpdateDisplay(direction, k, levels)
    BY <1>2 DEF ListNext, MouseDownOnItem, MouseUp, StartReordering, FinishReorder, ChangeSelection,
                RemoveItem, InsertItem
  <1>4. PICK d \in ListItems, T \in Lists :
           Ready' /\ MovedTo(childViews', childViews, d, T) /\ <<d, T>> \notin setup.badDrops
    BY <1>3, Dragged, Zenon
  <1>5. contents = childViews /\ contents' = childViews'
    BY <1>4 DEF IInv, Ready
  <1>6. ASSUME NEW i
        PROVE  i \in UNION {ToSet(contents[l]) : l \in Lists} <=>
                  i \in UNION {ToSet(contents'[l]) : l \in Lists}
    <2>1. Has(childViews', i) <=> Has(childViews, i)
      BY <1>4 DEF MovedTo
    <2>2. Has(contents', i) <=> Has(contents, i)
      BY <1>5, <2>1
    <2>3. i \in UNION {ToSet(contents[l]) : l \in Lists} <=> Has(contents, i)
      BY DEF Has
    <2>4. i \in UNION {ToSet(contents'[l]) : l \in Lists} <=> Has(contents', i)
      BY DEF Has
    <2> QED
      BY <2>2, <2>3, <2>4
  <1>7. ASSUME NEW i \in ListItems, NEW l \in Lists, i \in ToSet(contents'[l]), i \notin ToSet(contents[l])
        PROVE  <<i, l>> \notin setup.badDrops
    <2>1. i = d /\ l = T
      BY <1>4, <1>5, <1>7 DEF MovedTo
    <2> QED
      BY <1>4, <2>1
  <1> QED
    BY <1>6, <1>7

\* The moves of a drag (updateDisplay) lose no item and bring none, and whenever
\* one changes the parent of an item, isValidDrop allows that parent.
THEOREM DragsKeepItemsCorrect == ListSpec => DragsKeepItems
  <1> DEFINE Kind == state = "reordering" /\ state' = "reordering" /\ childViews' # childViews =>
                /\ UNION {ToSet(contents[l]) : l \in Lists} = UNION {ToSet(contents'[l]) : l \in Lists}
                /\ \A i \in ListItems, l \in Lists :
                      i \in ToSet(contents'[l]) /\ i \notin ToSet(contents[l]) =>
                          <<i, l>> \notin setup.badDrops
  <1>1. ListSpec => []IInv
    BY InitInv, StepInv, PTL DEF ListSpec
  <1>2. IInv /\ [ListNext]_listVars => [Kind]_listVars
    BY DragsKeep DEF listVars
  <1> QED
    BY <1>1, <1>2, PTL DEF ListSpec, DragsKeepItems
=============================================================================
