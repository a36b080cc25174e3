---------------------------- MODULE PanelsProofs ----------------------------
(***************************************************************************)
(* Invariance proofs for Panels, for every set of panels and fields and    *)
(* for every environment: no discipline of the application, the user or    *)
(* the browser is assumed.                                                 *)
(***************************************************************************)
EXTENDS Panels, FiniteSetTheorems, TLAPS

-----------------------------------------------------------------------------
(* Sequences *)

\* Removing the only occurrence of an element, as close() does with a panel in
\* the document, removes it from the elements and adds none.
LEMMA RemoveAtRange ==
    ASSUME NEW S, NEW s \in Seq(S), NEW i \in DOMAIN s,
           \A k, l \in DOMAIN s : s[k] = s[l] => k = l
    PROVE  /\ RemoveAt(s, i) \in Seq(S)
           /\ Len(RemoveAt(s, i)) = Len(s) - 1
           /\ Range(RemoveAt(s, i)) = Range(s) \ {s[i]}
           /\ \A k, l \in DOMAIN RemoveAt(s, i) :
                 RemoveAt(s, i)[k] = RemoveAt(s, i)[l] => k = l
  <1> DEFINE r == RemoveAt(s, i)
  <1>1. /\ r \in Seq(S)
        /\ Len(r) = Len(s) - 1
        /\ \A k \in 1..Len(r) : r[k] = IF k < i THEN s[k] ELSE s[k + 1]
    <2> DEFINE before == SubSeq(s, 1, i - 1)
               after  == SubSeq(s, i + 1, Len(s))
    <2>1. Len(s) \in Nat /\ i \in 1..Len(s)
      OBVIOUS
    <2>2. /\ before \in Seq(S) /\ Len(before) = i - 1
          /\ \A k \in 1..(i - 1) : before[k] = s[k]
      BY <2>1
    <2>3. /\ after \in Seq(S) /\ Len(after) = Len(s) - i
          /\ \A k \in 1..(Len(s) - i) : after[k] = s[i + k]
      BY <2>1
    <2> HIDE DEF before, after
    <2>4. r = before \o after
      BY DEF RemoveAt, before, after
    <2>5. r \in Seq(S) /\ Len(r) = Len(s) - 1
      BY <2>1, <2>2, <2>3, <2>4
    <2>6. \A k \in 1..Len(r) : r[k] = IF k <= Len(before) THEN before[k]
                                                       ELSE after[k - Len(before)]
      BY <2>2, <2>3, <2>4
    <2> HIDE DEF r
    <2>7. ASSUME NEW k \in 1..Len(r)
          PROVE  r[k] = IF k < i THEN s[k] ELSE s[k + 1]
      <3>1. CASE k < i
        BY <2>1, <2>2, <2>6, <3>1
      <3>2. CASE k >= i
        <4>1. k - Len(before) \in 1..(Len(s) - i) /\ i + (k - Len(before)) = k + 1
          BY <2>1, <2>2, <2>5, <3>2
        <4>2. r[k] = after[k - Len(before)]
          BY <2>1, <2>2, <2>6, <3>2
        <4>3. QED BY <2>3, <3>2, <4>1, <4>2
      <3>3. QED BY <2>1, <3>1, <3>2
    <2>8. QED BY <2>5, <2>7
  <1>2. \A k, l \in DOMAIN r : r[k] = r[l] => k = l
    BY SMTT(20), <1>1
  <1>3. Range(r) \subseteq Range(s) \ {s[i]}
    BY <1>1 DEF Range
  <1>4. ASSUME NEW k \in DOMAIN s, s[k] # s[i]
        PROVE  s[k] \in Range(r)
    <2>1. CASE k < i
      <3>1. k \in DOMAIN r /\ r[k] = s[k]
        BY <1>1, <2>1
      <3>2. QED BY <3>1 DEF Range
    <2>2. CASE k > i
      <3>1. k - 1 \in DOMAIN r /\ r[k - 1] = s[k]
        BY <1>1, <2>2
      <3>2. QED BY <3>1 DEF Range
    <2>3. QED BY <1>4, <2>1, <2>2
  <1>5. Range(s) \ {s[i]} \subseteq Range(r)
    <2> SUFFICES ASSUME NEW e \in Range(s) \ {s[i]}
                 PROVE  e \in Range(r)
      OBVIOUS
    <2>1. PICK k \in DOMAIN s : s[k] = e
      BY DEF Range
    <2>2. QED BY <1>4, <2>1
  <1>6. Range(r) = Range(s) \ {s[i]}
    BY <1>3, <1>5
  <1>7. QED
    BY <1>1, <1>2, <1>6

\* Appending an element, as popup() and push() do, adds just that element.
LEMMA AppendRange ==
    ASSUME NEW S, NEW s \in Seq(S), NEW e \in S
    PROVE  Range(Append(s, e)) = Range(s) \cup {e}
  <1>1. /\ DOMAIN Append(s, e) = 1..(Len(s) + 1)
        /\ \A k \in DOMAIN s : Append(s, e)[k] = s[k]
        /\ Append(s, e)[Len(s) + 1] = e
        /\ DOMAIN s = 1..Len(s)
    OBVIOUS
  <1>2. Range(Append(s, e)) \subseteq Range(s) \cup {e}
    BY <1>1 DEF Range
  <1>3. Range(s) \subseteq Range(Append(s, e))
    BY <1>1 DEF Range
  <1>4. e \in Range(Append(s, e))
    BY <1>1 DEF Range
  <1>5. QED BY <1>2, <1>3, <1>4
-----------------------------------------------------------------------------
(* The calls on the key responder stack *)

\* What each call keeps: the record's type, the views marked as focused being
\* on the stack, and the bound of n + 1 entries on it.
Good(s, n) ==
    /\ s \in KRecord
    /\ s.focused \ destroyed \subseteq Range(s.stack)
    /\ Len(s.stack) <= n + 1

\* keyResponderStack.pop() without its events takes one entry off.
LEMMA PopHeadGood ==
    ASSUME NEW n \in Int, NEW s, Good(s, n)
    PROVE  /\ Good(PopHead(s), n)
           /\ s.stack # <<>> => Good(PopHead(s), n - 1)
           /\ PopHead(s).active = s.active
           /\ PopHead(s).ticks = s.ticks
  <1>1. CASE s.stack = <<>>
    BY <1>1 DEF PopHead, Good
  <1>2. CASE s.stack # <<>>
    <2> DEFINE t == PopHead(s)
    <2>1. /\ s.stack \in Seq(Views) /\ Len(s.stack) \in Nat /\ Len(s.stack) > 0
          /\ DOMAIN s.stack = 1..Len(s.stack)
      BY <1>2 DEF Good, KRecord
    <2>2. /\ t = [s EXCEPT !.stack = SubSeq(s.stack, 1, Len(s.stack) - 1),
                           !.focused = IF Current(s) \in destroyed THEN s.focused
                                                     ELSE s.focused \ {Current(s)}]
          /\ t.stack = SubSeq(s.stack, 1, Len(s.stack) - 1)
          /\ t.focused = IF Current(s) \in destroyed THEN s.focused
                                                     ELSE s.focused \ {Current(s)}
          /\ t.active = s.active /\ t.ticks = s.ticks
      BY <1>2, <2>1 DEF PopHead, Good, KRecord
    <2> HIDE DEF t
    <2>3. SubSeq(s.stack, 1, Len(s.stack) - 1) \in Seq(Views)
      BY <2>1
    <2>4. t \in KRecord
      BY <2>2, <2>3 DEF Good, KRecord
    <2>5. /\ Len(t.stack) = Len(s.stack) - 1
          /\ DOMAIN t.stack = 1..(Len(s.stack) - 1)
          /\ \A k \in 1..(Len(s.stack) - 1) : t.stack[k] = s.stack[k]
      BY <2>1, <2>2
    <2>6. ASSUME NEW v \in t.focused \ destroyed
          PROVE  v \in Range(t.stack)
      <3>1. v \in s.focused \ destroyed /\ v # s.stack[Len(s.stack)]
        BY <1>2, <2>2, <2>6 DEF Current
      <3>2. PICK k \in 1..Len(s.stack) : s.stack[k] = v
        BY <3>1, <2>1 DEF Good, Range
      <3>3. k \in DOMAIN t.stack /\ t.stack[k] = v
        BY <3>1, <3>2, <2>1, <2>5
      <3>4. QED BY <3>3 DEF Range
    <2>7. QED
      BY <2>1, <2>2, <2>4, <2>5, <2>6 DEF Good, t
  <1>3. QED BY <1>1, <1>2

\* The browser taking the focus away pops at most one entry.
LEMMA BlurGood ==
    ASSUME NEW n \in Int, NEW s, Good(s, n)
    PROVE  Good(Blur(s), n) /\ Blur(s).active = NoView
  <1> DEFINE t == [s EXCEPT !.active = NoView]
  <1>1. Good(t, n) /\ t.active = NoView
    BY DEF Good, KRecord
  <1> HIDE DEF t
  <1>2. Good(PopHead(t), n) /\ PopHead(t).active = NoView
    BY <1>1, PopHeadGood
  <1>3. Blur(s) = PopHead(t) \/ Blur(s) = t
    BY DEF Blur, FocusOut, t
  <1>4. QED BY <1>1, <1>2, <1>3

\* pop() takes at least one entry off a stack that has one.
LEMMA PopGood ==
    ASSUME NEW n \in Int, NEW s, Good(s, n)
    PROVE  /\ Good(Pop(s), n)
           /\ s.stack # <<>> => Good(Pop(s), n - 1)
           /\ s.stack = <<>> => Pop(s).stack = <<>>
  <1>1. Good(PopHead(s), n) /\ (s.stack # <<>> => Good(PopHead(s), n - 1))
    BY PopHeadGood
  <1>2. Good(Blur(PopHead(s)), n)
    BY <1>1, BlurGood
  <1>3. s.stack # <<>> => Good(Blur(PopHead(s)), n - 1)
    BY <1>1, BlurGood
  <1>4. Current(s) = s.active /\ s.active # NoView => s.stack # <<>>
    BY DEF Current
  <1>5. s.stack = <<>> => Pop(s).stack = <<>>
    BY <1>4 DEF Pop, PopHead
  <1>6. QED BY <1>1, <1>2, <1>3, <1>5 DEF Pop

\* push(view) adds one entry.
LEMMA PushGood ==
    ASSUME NEW n \in Int, NEW s, Good(s, n), NEW v \in Views
    PROVE  Good(Push(s, v), n + 1)
  <1>1. s.stack \in Seq(Views) /\ s.ticks \in Seq(Fields) /\ Len(s.stack) \in Nat
    BY DEF Good, KRecord
  <1>2. /\ Append(s.stack, v) \in Seq(Views)
        /\ Len(Append(s.stack, v)) = Len(s.stack) + 1
        /\ v \in Fields => Append(s.ticks, v) \in Seq(Fields)
    BY <1>1
  <1>3. Range(Append(s.stack, v)) = Range(s.stack) \cup {v}
    BY <1>1, AppendRange
  <1>4. Push(s, v) \in KRecord
    BY <1>2 DEF Push, Good, KRecord
  <1>5. /\ Push(s, v).stack = Append(s.stack, v)
        /\ Push(s, v).focused \subseteq s.focused \cup {v}
    BY DEF Push, Good, KRecord
  <1>6. QED BY <1>1, <1>2, <1>3, <1>4, <1>5 DEF Good

\* replace(view) leaves the number of entries as it is, or makes it one.
LEMMA ReplaceGood ==
    ASSUME NEW n \in Nat, NEW s, Good(s, n), NEW v \in Views
    PROVE  Good(Replace(s, v), n)
  <1>1. CASE Current(s) = v
    BY <1>1 DEF Replace
  <1>2. CASE Current(s) # v
    <2>1. Good(Pop(s), n - 1)
      <3>1. CASE s.stack # <<>>
        BY <3>1, PopGood
      <3>2. CASE s.stack = <<>>
        <4>1. Good(Pop(s), n) /\ Pop(s).stack = <<>>
          BY <3>2, PopGood
        <4>2. QED BY <4>1 DEF Good
      <3>3. QED BY <3>1, <3>2
    <2>2. n - 1 \in Int /\ (n - 1) + 1 = n
      OBVIOUS
    <2>3. Good(Push(Pop(s), v), (n - 1) + 1)
      BY <2>1, <2>2, PushGood
    <2>4. QED BY <1>2, <2>2, <2>3 DEF Replace
  <1>3. QED BY <1>1, <1>2

\* So does everything the browser's focus events lead to.
LEMMA DomFocusGood ==
    ASSUME NEW n \in Nat, NEW s, Good(s, n), NEW f \in Fields
    PROVE  Good(FocusIn(s, f), n) /\ Good(DomFocus(s, f), n)
  <1>1. f \in Views
    BY DEF Views
  <1>2. \A t : Good(t, n) => Good(FocusIn(t, f), n)
    BY <1>1, ReplaceGood DEF FocusIn
  <1>3. Good([Blur(s) EXCEPT !.active = f], n)
    <2>1. Good(Blur(s), n)
      BY BlurGood
    <2>2. QED BY <2>1 DEF Good, KRecord
  <1>4. QED BY <1>2, <1>3 DEF DomFocus

\* The deferred focus call keeps the bounds too.
LEMMA RunTickGood ==
    ASSUME NEW n \in Nat, NEW s, Good(s, n), s.ticks # <<>>
    PROVE  Good(RunTick(s), n)
  <1> DEFINE f == Head(s.ticks)
             t == [s EXCEPT !.ticks = Tail(s.ticks)]
  <1>1. f \in Fields /\ Tail(s.ticks) \in Seq(Fields)
    BY DEF Good, KRecord
  <1>2. Good(t, n)
    BY <1>1 DEF Good, KRecord
  <1>3. Good(DomFocus(t, f), n)
    BY <1>1, <1>2, DomFocusGood
  <1>4. RunTick(s) = t \/ RunTick(s) = DomFocus(t, f)
    BY DEF RunTick
  <1>5. QED BY <1>2, <1>3, <1>4
-----------------------------------------------------------------------------
(* The inductive invariant: a panel is in the document at most once, and the
   counter and the stack follow the panels that are shown.  *)

DomInv ==
    /\ TypeOK
    /\ \A k, l \in DOMAIN dom : dom[k] = dom[l] => k = l

KeyCount(d) == Cardinality(Range(d) \cap KeyPanels)

IInv == DomInv /\ CounterAccountsForShown /\ Good(kr, KeyCount(dom))

\* Any set of shown panels is finite, so its cardinality is a number.
LEMMA ShownFinite ==
    ASSUME NEW d \in Seq(Panels)
    PROVE  /\ IsFiniteSet(Range(d)) /\ Cardinality(Range(d)) \in Nat
           /\ IsFiniteSet(Range(d) \cap KeyPanels) /\ KeyCount(d) \in Nat
  <1>1. Range(d) \subseteq Panels
    BY DEF Range
  <1>2. IsFiniteSet(Range(d)) /\ IsFiniteSet(Range(d) \cap KeyPanels)
    BY <1>1, ViewAssumption, FS_Subset
  <1>3. QED BY <1>2, FS_CardinalityType DEF KeyCount

\* No panel shown and an empty stack satisfy the invariant.
LEMMA InitIInv == Init => IInv
  <1> SUFFICES ASSUME Init PROVE IInv
    OBVIOUS
  <1>1. TypeOK
    BY DEF Init, TypeOK, KRecord
  <1>2. Range(dom) = {} /\ dom = <<>>
    BY DEF Init, Range
  <1>3. Cardinality({}) = 0
    BY FS_EmptySet
  <1>4. CounterAccountsForShown
    <2>1. Cardinality(Range(dom)) = 0 /\ zIndexCounter = 100
      BY <1>2, <1>3 DEF Init
    <2>2. QED BY <2>1 DEF CounterAccountsForShown
  <1>5. KeyCount(dom) = 0
    BY <1>2, <1>3 DEF KeyCount
  <1>6. Good(kr, 0)
    BY <1>1 DEF Good, Init, TypeOK
  <1>7. QED BY <1>1, <1>2, <1>4, <1>5, <1>6 DEF IInv, DomInv

\* Actions that call the stack and change nothing else.
LEMMA OnlyRespondersIInv ==
    ASSUME IInv, Good(kr', KeyCount(dom)), afterRender' \in Seq(Panels),
           UNCHANGED <<dom, destroyed, zIndexCounter, zIndex, paneZIndex, underneath, env>>
    PROVE  IInv'
  <1>1. Good(kr, KeyCount(dom))'
    BY DEF Good, KeyCount, KRecord
  <1>2. TypeOK'
    BY DEF IInv, DomInv, TypeOK, Good
  <1>3. QED
    BY <1>1, <1>2 DEF IInv, DomInv, CounterAccountsForShown

\* popup() adds one panel, 100 to the counter and at most one stack entry.
LEMMA PopupIInv ==
    ASSUME IInv, NEW p \in Panels, Popup(p)
    PROVE  IInv'
  <1> DEFINE n == KeyCount(dom)
  <1> USE DEF IInv, DomInv
  <1>1. /\ dom \in Seq(Panels) /\ dom' = Append(dom, p) /\ p \notin Range(dom)
        /\ dom' \in Seq(Panels)
    BY DEF Popup, IsShown, TypeOK
  <1>2. Range(dom') = Range(dom) \cup {p}
    BY <1>1, AppendRange
  <1>3. Cardinality(Range(dom')) = Cardinality(Range(dom)) + 1
    BY <1>1, <1>2, ShownFinite, FS_AddElement
  <1>4. KeyCount(dom') = IF p \in KeyPanels THEN n + 1 ELSE n
    <2>1. CASE p \in KeyPanels
      <3>1. Range(dom') \cap KeyPanels = (Range(dom) \cap KeyPanels) \cup {p}
        BY <1>2, <2>1
      <3>2. QED BY <1>1, <2>1, <3>1, ShownFinite, FS_AddElement DEF KeyCount
    <2>2. CASE p \notin KeyPanels
      <3>1. Range(dom') \cap KeyPanels = Range(dom) \cap KeyPanels
        BY <1>2, <2>2
      <3>2. QED BY <2>2, <3>1 DEF KeyCount
    <2>3. QED BY <2>1, <2>2
  <1>5. Good(kr', KeyCount(dom'))
    <2>1. CASE p \in KeyPanels
      <3>1. n \in Nat /\ p \in Views /\ Good(kr, n)
        BY <1>1, ShownFinite DEF Views
      <3>2. Good(Push(kr, p), n + 1)
        <4> HIDE DEF n
        <4>1. QED BY <3>1, PushGood
      <3>3. QED BY <1>4, <2>1, <3>2 DEF Popup
    <2>2. CASE p \notin KeyPanels
      BY <1>4, <2>2 DEF Popup
    <2>3. QED BY <2>1, <2>2
  <1>6. Good(kr, KeyCount(dom))'
    BY <1>5 DEF Good, KeyCount, KRecord, Popup
  <1>7. CounterAccountsForShown'
    <2>1. Cardinality(Range(dom)) \in Nat /\ zIndexCounter' = zIndexCounter + 100
      BY <1>1, ShownFinite DEF Popup
    <2>2. QED BY <1>3, <2>1 DEF CounterAccountsForShown
  <1>8. TypeOK'
    <2>1. afterRender' \in Seq(Panels) /\ zIndexCounter' \in Int
      BY DEF TypeOK, Popup
    <2>2. /\ zIndex' \in [Panels -> Int] /\ paneZIndex' \in [Panels -> Int]
          /\ underneath' \in [Panels -> Seq(Views)]
      BY DEF TypeOK, Popup, PanelZIndex, KRecord
    <2>3. kr' \in KRecord /\ destroyed' \subseteq Panels /\ env' \in Environments
      BY <1>5 DEF Good, TypeOK, Popup
    <2>4. QED BY <1>1, <2>1, <2>2, <2>3 DEF TypeOK
  <1>9. (\A k, l \in DOMAIN dom : dom[k] = dom[l] => k = l)'
    BY <1>1 DEF Range
  <1>10. QED BY <1>6, <1>7, <1>8, <1>9

\* close() removes one panel, takes 100 off the counter and pops the stack.
LEMMA CloseIInv ==
    ASSUME IInv, NEW p \in Panels, Close(p)
    PROVE  IInv'
  <1> DEFINE n == KeyCount(dom)
             s == Detach(kr, p)
  <1> USE DEF IInv, DomInv
  <1>1. PICK i \in DOMAIN dom : dom[i] = p /\ dom' = RemoveAt(dom, i)
    BY DEF Close
  <1>2. /\ dom' \in Seq(Panels)
        /\ Range(dom') = Range(dom) \ {p}
        /\ \A k, l \in DOMAIN dom' : dom'[k] = dom'[l] => k = l
    <2>1. dom \in Seq(Panels) /\ \A k, l \in DOMAIN dom : dom[k] = dom[l] => k = l
      BY DEF TypeOK
    <2>2. QED BY <1>1, <2>1, RemoveAtRange
  <1>3. p \in Range(dom)
    BY <1>1 DEF Range
  <1>4. Cardinality(Range(dom')) = Cardinality(Range(dom)) - 1
    BY <1>2, <1>3, ShownFinite, FS_RemoveElement DEF TypeOK
  <1>5. KeyCount(dom') = IF p \in KeyPanels THEN n - 1 ELSE n
    <2>1. CASE p \in KeyPanels
      <3>1. Range(dom') \cap KeyPanels = (Range(dom) \cap KeyPanels) \ {p}
        BY <1>2, <2>1
      <3>2. QED BY <1>3, <2>1, <3>1, ShownFinite, FS_RemoveElement DEF KeyCount, TypeOK
    <2>2. CASE p \notin KeyPanels
      <3>1. Range(dom') \cap KeyPanels = Range(dom) \cap KeyPanels
        BY <1>2, <2>2
      <3>2. QED BY <2>2, <3>1 DEF KeyCount
    <2>3. QED BY <2>1, <2>2
  <1>6. n \in Nat /\ KeyCount(dom') \in Nat
    BY <1>2, ShownFinite DEF TypeOK
  <1>7. Good(s, n)
    BY DEF Detach, Good, KRecord
  <1>8. Good(kr', KeyCount(dom'))
    <2>1. CASE p \in KeyPanels
      <3>1. kr' = Pop(s) /\ KeyCount(dom') = n - 1
        BY <1>5, <2>1 DEF Close
      <3> HIDE DEF s, n
      <3>2. CASE s.stack # <<>>
        BY <1>6, <1>7, <3>1, <3>2, PopGood
      <3>3. CASE s.stack = <<>>
        <4>1. Good(Pop(s), n) /\ Pop(s).stack = <<>>
          BY <1>6, <1>7, <3>3, PopGood
        <4>2. QED BY <1>6, <3>1, <4>1 DEF Good
      <3>4. QED BY <3>2, <3>3
    <2>2. CASE p \notin KeyPanels
      BY <1>5, <1>7, <2>2 DEF Close
    <2>3. QED BY <2>1, <2>2
  <1>9. Good(kr, KeyCount(dom))'
    <2>1. destroyed \subseteq destroyed'
      BY DEF Close
    <2>2. QED BY <1>8, <2>1 DEF Good, KeyCount, KRecord
  <1>10. CounterAccountsForShown'
    <2>1. Cardinality(Range(dom)) \in Nat /\ zIndexCounter' = zIndexCounter - 100
      BY ShownFinite DEF Close, TypeOK
    <2>2. QED BY <1>4, <2>1 DEF CounterAccountsForShown
  <1>11. TypeOK'
    BY SMTT(20), <1>2, <1>8, PanelAssumption DEF TypeOK, Close, Good
  <1>12. QED BY <1>2, <1>9, <1>10, <1>11

\* Every handler, call and event keeps the invariant.
LEMMA NextIInv == IInv /\ [Next]_vars => IInv'
  <1> SUFFICES ASSUME IInv, [Next]_vars PROVE IInv'
    OBVIOUS
  <1> DEFINE n == KeyCount(dom)
  <1>1. /\ n \in Nat /\ Good(kr, n)
        /\ afterRender \in Seq(Panels) /\ kr \in KRecord
    BY ShownFinite DEF IInv, DomInv, TypeOK
  <1>2. Panels \subseteq Views /\ Fields \subseteq Views
    BY DEF Views
  <1> HIDE DEF n
  <1>a. ASSUME Good(kr', n), OnlyResponders
        PROVE  IInv'
    BY <1>1, <1>a, OnlyRespondersIInv DEF OnlyResponders, n
  <1>b. ASSUME NEW p \in Panels, Popup(p)
        PROVE  IInv'
    BY <1>b, PopupIInv
  <1>c. ASSUME NEW p \in Panels, AppClose(p) \/ ClickModalPane(p) \/ CancelKey(p)
        PROVE  IInv'
    BY <1>c, CloseIInv DEF AppClose, ClickModalPane, CancelKey
  <1>d. ASSUME NEW p \in Panels, ClickPanel(p)
        PROVE  IInv'
    <2>1. Good(Replace(kr, p), n)
      BY <1>1, <1>2, ReplaceGood
    <2>2. Good(Blur(kr), n) /\ Good(Blur(Replace(kr, p)), n)
      BY <1>1, <2>1, BlurGood
    <2>3. QED BY <1>a, <1>d, <2>2 DEF ClickPanel
  <1>e. ASSUME FocusDefaultInput
        PROVE  IInv'
    <2>1. Head(afterRender) \in Panels /\ Tail(afterRender) \in Seq(Panels)
      BY <1>1, <1>e DEF FocusDefaultInput
    <2>2. DefaultFocus[Head(afterRender)] \in Fields \cup {NoView}
      BY <2>1, PanelAssumption
    <2>3. Good(kr', n)
      BY <1>1, <1>2, <1>e, <2>2, ReplaceGood DEF FocusDefaultInput, FocusInput
    <2>4. QED
      BY <1>e, <2>1, <2>3, OnlyRespondersIInv DEF FocusDefaultInput, n
  <1>f. ASSUME Tick
        PROVE  IInv'
    <2>1. Good(kr', n)
      BY <1>1, <1>f, RunTickGood DEF Tick
    <2>2. QED BY <1>a, <1>f, <2>1 DEF Tick, OnlyResponders
  <1>g. ASSUME NEW f \in Fields, ClickField(f)
        PROVE  IInv'
    <2>1. Good(Replace(kr, f), n)
      BY <1>1, <1>2, ReplaceGood
    <2>2. Good(DomFocus(Replace(kr, f), f), n)
      BY <1>1, <2>1, DomFocusGood
    <2>3. QED BY <1>a, <1>g, <2>2 DEF ClickField
  <1>h. ASSUME NEW f \in Fields, BrowserTab(f)
        PROVE  IInv'
    <2>1. Good(DomFocus(kr, f), n)
      BY <1>1, DomFocusGood
    <2>2. QED BY <1>a, <1>h, <2>1 DEF BrowserTab
  <1>i. ASSUME ClickPage
        PROVE  IInv'
    <2>1. Good(Blur(kr), n)
      BY <1>1, BlurGood
    <2>2. QED BY <1>a, <1>i, <2>1 DEF ClickPage
  <1>j. ASSUME NEW direction \in {-1, 1}, PerformTab(direction)
        PROVE  IInv'
    <2> DEFINE form == FormOrder[Home[Current(kr)]]
    <2>1. form \in Seq(Fields)
      BY <1>j, ViewAssumption, PanelAssumption DEF PerformTab, Homes
    <2> HIDE DEF form
    <2>2. PICK k \in DOMAIN form, m \in 1..Len(form) : kr' = Replace(kr, form[m])
      <3>1. PICK k \in DOMAIN form :
               kr' = Replace(kr, IF k + direction < 1 THEN form[Len(form)]
                                 ELSE IF k + direction > Len(form) THEN form[1]
                                 ELSE form[k + direction])
        BY <1>j DEF PerformTab, form
      <3>2. Len(form) \in Nat /\ k \in 1..Len(form)
        BY <2>1
      <3>3. CASE k + direction < 1
        BY <3>1, <3>2, <3>3
      <3>4. CASE k + direction > Len(form)
        BY <3>1, <3>2, <3>4
      <3>5. CASE k + direction \in 1..Len(form)
        BY <3>1, <3>2, <3>5
      <3>6. QED BY <3>2, <3>3, <3>4, <3>5
    <2>3. form[m] \in Views
      BY <1>2, <2>1
    <2>4. Good(kr', n)
      BY <1>1, <2>2, <2>3, ReplaceGood
    <2>5. QED BY <1>a, <1>j, <2>4 DEF PerformTab
  <1>k. ASSUME WindowFocus
        PROVE  IInv'
    <2>1. kr.active \in Fields
      BY <1>1, <1>k DEF WindowFocus, KRecord
    <2>2. Good(FocusIn(kr, kr.active), n)
      BY <1>1, <2>1, DomFocusGood
    <2>3. QED BY <1>a, <1>k, <2>2 DEF WindowFocus
  <1>l. CASE UNCHANGED vars
    <2>1. Good(kr', n)
      BY <1>1, <1>l DEF vars
    <2>2. QED BY <1>a, <1>l, <2>1 DEF vars, OnlyResponders
  <1>3. QED
    BY <1>b, <1>c, <1>d, <1>e, <1>f, <1>g, <1>h, <1>i, <1>j, <1>k, <1>l DEF Next

\* The invariant holds in every reachable state.
LEMMA Inductive == Spec => []IInv
  BY InitIInv, NextIInv, PTL DEF Spec

\* The state of panels and responders keeps its type.
THEOREM TypeCorrect == Spec => []TypeOK
  <1>1. IInv => TypeOK
    BY DEF IInv, DomInv
  <1>2. QED BY <1>1, Inductive, PTL

\* popup() and close() keep zIndexCounter in step with the panels shown, for any
\* number of panels, any order of calls and any interleaved events.
THEOREM CounterCorrect == Spec => []CounterAccountsForShown
  <1>1. IInv => CounterAccountsForShown
    BY DEF IInv
  <1>2. QED BY <1>1, Inductive, PTL

\* The key responder stack never leaks entries, whatever closes the panels and
\* however the browser's focus events interleave.
THEOREM StackCorrect == Spec => []StackBounded
  <1>1. IInv => StackBounded
    BY DEF IInv, Good, StackBounded, KeyCount
  <1>2. QED BY <1>1, Inductive, PTL

\* No view off the key responder stack shows itself as focused.
THEOREM FocusCorrect == Spec => []FocusedOnStack
  <1>1. IInv => FocusedOnStack
    BY DEF IInv, Good, FocusedOnStack
  <1>2. QED BY <1>1, Inductive, PTL

-----------------------------------------------------------------------------
(* Disciplined use: panels with the defaults of Panel, modal and accepting the
   key responder, and nothing that env allows beyond it.  *)

\* Where a view is: a panel at itself, a field at its home.
At(v) == IF v \in Panels THEN v ELSE Home[v]

\* The stack st has one entry more than base, for a view at h; on the page
\* there may be none.
OnLevel(st, base, h) ==
    \/ h = Page /\ base = <<>> /\ st = <<>>
    \/ \E v \in Views : At(v) = h /\ st = Append(base, v)

\* What was current, and the stack below it, when the last panel was opened.
Top == IF dom = <<>> THEN Page ELSE dom[Len(dom)]
Base == IF dom = <<>> THEN <<>> ELSE underneath[dom[Len(dom)]]

\* Every panel that is shown was pushed on a stack with just one entry for the
\* panel below it, and at most one for the page.
Levels ==
    \A i \in DOMAIN dom :
        IF i = 1 THEN OnLevel(underneath[dom[i]], <<>>, Page)
                 ELSE OnLevel(underneath[dom[i]], underneath[dom[i - 1]], dom[i - 1])

\* What the run loop has left to do concerns the last panel and its responder.
Queues ==
    /\ kr.ticks = <<>> \/ kr.ticks = <<Current(kr)>>
    /\ \/ afterRender = <<>>
       \/ kr.ticks = <<>> /\ dom # <<>> /\ afterRender = <<dom[Len(dom)]>>

\* The panels lie in the order in which they were opened, 100 apart.
ZOrder ==
    /\ zIndexCounter = 100 + 100 * Len(dom)
    /\ \A i \in DOMAIN dom : zIndex[dom[i]] = 100 * i + 10 /\ paneZIndex[dom[i]] = 100 * i

\* Together: the stack mirrors the panels, entry by entry.
MirrorInv == OnLevel(kr.stack, Base, Top) /\ Levels /\ Queues /\ ZOrder

DisciplineInv == env = {} => MirrorInv

\* A record whose stack mirrors a level over base, where base ends elsewhere.
Settled(s, base, h) ==
    /\ s \in KRecord /\ base \in Seq(Views)
    /\ OnLevel(s.stack, base, h)
    /\ base = <<>> \/ At(base[Len(base)]) # h

\* The current responder of such a record is at its level, or there is none.
LEMMA SettledCurrent ==
    ASSUME NEW s, NEW base, NEW h, Settled(s, base, h)
    PROVE  /\ s.stack = <<>> => h = Page /\ base = <<>> /\ Current(s) = NoView
           /\ s.stack # <<>> => /\ Current(s) \in Views /\ At(Current(s)) = h
                                /\ s.stack = Append(base, Current(s))
           /\ Current(s) # NoView => s.stack # <<>>
  <1>1. CASE s.stack = <<>>
    <2>1. base \in Seq(Views) /\ \A v \in Views : Append(base, v) # <<>>
      BY DEF Settled
    <2>2. QED BY <1>1, <2>1 DEF Settled, OnLevel, Current
  <1>2. CASE s.stack # <<>>
    <2>1. PICK v \in Views : At(v) = h /\ s.stack = Append(base, v)
      BY <1>2 DEF Settled, OnLevel
    <2>2. Append(base, v)[Len(Append(base, v))] = v
      BY DEF Settled
    <2>3. Current(s) = v
      BY <1>2, <2>1, <2>2 DEF Current
    <2>4. QED BY <1>2, <2>1, <2>3
  <1>3. QED BY <1>1, <1>2

\* pop() without its events leaves the base.
LEMMA PopHeadSettled ==
    ASSUME NEW s, NEW base, NEW h, Settled(s, base, h)
    PROVE  /\ PopHead(s) \in KRecord
           /\ PopHead(s).stack = base
           /\ PopHead(s).active = s.active /\ PopHead(s).ticks = s.ticks
  <1>1. CASE s.stack = <<>>
    BY <1>1, SettledCurrent DEF PopHead, Settled
  <1>2. CASE s.stack # <<>>
    <2>1. PICK v \in Views : s.stack = Append(base, v)
      BY <1>2 DEF Settled, OnLevel
    <2>2. SubSeq(s.stack, 1, Len(s.stack) - 1) = base /\ base \in Seq(Views)
      BY <2>1 DEF Settled
    <2> DEFINE rest == SubSeq(s.stack, 1, Len(s.stack) - 1)
               foc == IF Current(s) \in destroyed THEN s.focused ELSE s.focused \ {Current(s)}
    <2>3. PopHead(s) = [s EXCEPT !.stack = rest, !.focused = foc]
      BY <1>2 DEF PopHead
    <2>4. foc \in SUBSET Views /\ rest \in Seq(Views)
      BY <2>2 DEF Settled, KRecord
    <2> HIDE DEF foc, rest
    <2>5. /\ PopHead(s) \in KRecord /\ PopHead(s).stack = rest
          /\ PopHead(s).active = s.active /\ PopHead(s).ticks = s.ticks
      BY <2>3, <2>4 DEF Settled, KRecord
    <2>6. QED BY <2>2, <2>5 DEF rest
  <1>3. QED BY <1>1, <1>2

\* So does pop(): the blur of the field it pops does not pop another entry.
LEMMA PopSettled ==
    ASSUME NEW s, NEW base, NEW h, Settled(s, base, h)
    PROVE  Pop(s) \in KRecord /\ Pop(s).stack = base /\ Pop(s).ticks = s.ticks
  <1> DEFINE t == PopHead(s)
  <1>1. t \in KRecord /\ t.stack = base /\ t.active = s.active /\ t.ticks = s.ticks
    BY PopHeadSettled
  <1> HIDE DEF t
  <1>2. CASE s.active # NoView /\ Current(s) = s.active
    <2> DEFINE u == [t EXCEPT !.active = NoView]
    <2>1. u \in KRecord /\ u.stack = base /\ u.ticks = s.ticks
      BY <1>1 DEF KRecord
    <2> HIDE DEF u
    <2>2. Current(u) # s.active
      <3>1. At(s.active) = h
        BY <1>2, SettledCurrent
      <3>2. CASE base = <<>>
        BY <1>2, <2>1, <3>2 DEF Current
      <3>3. CASE base # <<>>
        BY <2>1, <3>1, <3>3 DEF Current, Settled
      <3>4. QED BY <3>2, <3>3
    <2>3. Blur(t) = u
      BY <1>1, <2>2 DEF Blur, FocusOut, u
    <2>4. QED BY <1>2, <2>1, <2>3 DEF Pop, t
  <1>3. CASE ~ (s.active # NoView /\ Current(s) = s.active)
    <2>1. Pop(s) = t
      BY <1>3 DEF Pop, t
    <2>2. QED BY <1>1, <2>1
  <1>4. QED BY <1>2, <1>3

\* replace(view) with a view of the level makes it the level's entry.
LEMMA ReplaceSettled ==
    ASSUME NEW s, NEW base, NEW h, Settled(s, base, h), NEW v \in Views, At(v) = h
    PROVE  /\ Settled(Replace(s, v), base, h)
           /\ Current(Replace(s, v)) = v
           /\ \/ Replace(s, v).ticks = s.ticks
              \/ v \in Fields /\ Replace(s, v).ticks = Append(s.ticks, v)
  <1>1. CASE Current(s) = v
    BY <1>1 DEF Replace
  <1>2. CASE Current(s) # v
    <2> DEFINE t == Pop(s)
               r == Push(t, v)
    <2>1. t \in KRecord /\ t.stack = base /\ t.ticks = s.ticks
      BY PopSettled
    <2> HIDE DEF t
    <2>2. /\ r.stack = Append(t.stack, v)
          /\ r.ticks = IF v \in Fields /\ InDOM(v) THEN Append(t.ticks, v) ELSE t.ticks
      BY <2>1 DEF Push, KRecord
    <2>3. r \in KRecord
      <3>1. /\ Append(t.stack, v) \in Seq(Views)
            /\ v \in Fields => Append(t.ticks, v) \in Seq(Fields)
        BY <2>1 DEF KRecord
      <3>2. QED BY <2>1, <3>1 DEF Push, KRecord
    <2>4. Replace(s, v) = r
      BY <1>2 DEF Replace, t
    <2> HIDE DEF r
    <2>5. Settled(r, base, h)
      BY <2>1, <2>2, <2>3 DEF Settled, OnLevel
    <2>6. r.stack # <<>> /\ r.stack[Len(r.stack)] = v
      BY <2>1, <2>2 DEF Settled
    <2>7. QED BY <2>1, <2>2, <2>4, <2>5, <2>6 DEF Current
  <1>3. QED BY <1>1, <1>2

\* Focusing the element of the current responder leaves the stack alone.
LEMMA FocusCurrent ==
    ASSUME NEW s \in KRecord, NEW f \in Fields, Current(s) = f
    PROVE  DomFocus(s, f).stack = s.stack /\ DomFocus(s, f).ticks = s.ticks
  <1>1. CASE s.active = f
    BY <1>1 DEF DomFocus
  <1>2. CASE s.active # f
    <2> DEFINE t == [s EXCEPT !.active = NoView]
               u == [t EXCEPT !.active = f]
    <2>1. t \in KRecord /\ t.stack = s.stack /\ t.ticks = s.ticks
      BY DEF KRecord
    <2>2. Current(t) = f
      BY <2>1 DEF Current
    <2> HIDE DEF t
    <2>3. Blur(s) = t
      BY <1>2, <2>2 DEF Blur, FocusOut, t
    <2>4. u.stack = s.stack /\ u.ticks = s.ticks
      BY <2>1 DEF KRecord
    <2>5. Current(u) = f
      BY <2>4 DEF Current
    <2>6. DomFocus(s, f) = u
      <3>1. FocusIn(u, f) = u
        BY <2>5 DEF FocusIn
      <3>2. QED BY <1>2, <2>3, <3>1 DEF DomFocus
    <2>7. QED BY <2>4, <2>6
  <1>3. QED BY <1>1, <1>2

\* The state mirrors the panels: the last one's level is over a stack that ends
\* at another panel, or on the page.
LEMMA TopSettled ==
    ASSUME IInv, MirrorInv
    PROVE  /\ Settled(kr, Base, Top)
           /\ dom # <<>> => Top \in Panels /\ Top = dom[Len(dom)]
           /\ dom = <<>> => Top = Page
           /\ Top = Page => dom = <<>>
  <1>1. /\ dom \in Seq(Panels) /\ kr \in KRecord /\ underneath \in [Panels -> Seq(Views)]
        /\ \A k, l \in DOMAIN dom : dom[k] = dom[l] => k = l
    BY DEF IInv, DomInv, TypeOK
  <1>2. OnLevel(kr.stack, Base, Top)
    BY DEF MirrorInv
  <1>3. CASE dom = <<>>
    <2>1. Base = <<>> /\ Top = Page /\ <<>> \in Seq(Views)
      BY <1>3 DEF Base, Top
    <2>2. QED BY <1>1, <1>2, <1>3, <2>1 DEF Settled
  <1>4. CASE dom # <<>>
    <2> DEFINE n == Len(dom)
    <2>1. n \in Nat /\ n > 0 /\ DOMAIN dom = 1..n /\ dom[n] \in Panels
      BY <1>1, <1>4
    <2>2. Base = underneath[dom[n]] /\ Top = dom[n] /\ Base \in Seq(Views)
      BY <1>1, <1>4, <2>1 DEF Base, Top
    <2> HIDE DEF n
    <2>3. PICK b, h : OnLevel(Base, b, h) /\ h # dom[n] /\ b \in Seq(Views)
      <3>1. CASE n = 1
        <4>1. OnLevel(Base, <<>>, Page)
          BY <2>1, <2>2, <3>1 DEF MirrorInv, Levels
        <4>2. Page # dom[n] /\ <<>> \in Seq(Views)
          BY <2>1, ViewAssumption
        <4>3. QED BY <4>1, <4>2
      <3>2. CASE n # 1
        <4>1. n - 1 \in DOMAIN dom /\ n \in DOMAIN dom
          BY <2>1, <3>2
        <4>2. OnLevel(Base, underneath[dom[n - 1]], dom[n - 1])
          BY <2>1, <2>2, <3>2, <4>1 DEF MirrorInv, Levels
        <4>3. dom[n - 1] # dom[n] /\ underneath[dom[n - 1]] \in Seq(Views)
          BY <1>1, <2>1, <4>1
        <4>4. QED BY <4>2, <4>3
      <3>3. QED BY <3>1, <3>2
    <2>4. Base = <<>> \/ At(Base[Len(Base)]) # dom[n]
      <3>1. CASE Base = <<>>
        BY <3>1
      <3>2. CASE Base # <<>>
        <4>1. PICK v \in Views : At(v) = h /\ Base = Append(b, v)
          BY <2>3, <3>2 DEF OnLevel
        <4>2. Append(b, v)[Len(Append(b, v))] = v
          BY <2>3
        <4>3. QED BY <2>3, <4>1, <4>2
      <3>3. QED BY <3>1, <3>2
    <2>5. QED
      BY <1>1, <1>2, <1>4, <2>1, <2>2, <2>4, ViewAssumption DEF Settled, n
  <1>5. QED BY <1>3, <1>4

\* Calls on the stack that stay at the last panel keep the mirror.
LEMMA ResponderMirror ==
    ASSUME IInv, MirrorInv, Settled(kr', Base, Top),
           UNCHANGED <<dom, zIndexCounter, zIndex, paneZIndex, underneath>>,
           kr'.ticks = <<>> \/ kr'.ticks = <<Current(kr')>>,
           afterRender' = <<>>
    PROVE  MirrorInv'
  <1>1. Base' = Base /\ Top' = Top
    BY DEF Base, Top
  <1>2. OnLevel(kr.stack, Base, Top)'
    BY <1>1 DEF Settled, OnLevel
  <1>3. Levels' /\ ZOrder'
    BY DEF MirrorInv, Levels, OnLevel, ZOrder
  <1>4. Queues'
    BY DEF Queues, Current
  <1>5. QED BY <1>2, <1>3, <1>4 DEF MirrorInv

\* Making a view of the last panel the responder, with or without focusing its
\* element, when nothing is pending.
LEMMA ReplaceMirror ==
    ASSUME IInv, MirrorInv, kr.ticks = <<>>, NEW v \in Views, At(v) = Top,
           \/ kr' = Replace(kr, v)
           \/ v \in Fields /\ kr' = DomFocus(Replace(kr, v), v)
           \/ v \in Panels /\ kr' = Blur(Replace(kr, v)),
           kr' \in KRecord, afterRender' = <<>>,
           UNCHANGED <<dom, zIndexCounter, zIndex, paneZIndex, underneath>>
    PROVE  MirrorInv'
  <1> DEFINE r == Replace(kr, v)
  <1>1. Settled(kr, Base, Top)
    BY TopSettled
  <1>2. /\ Settled(r, Base, Top) /\ Current(r) = v
        /\ r.ticks = <<>> \/ r.ticks = <<v>>
    BY <1>1, ReplaceSettled
  <1> HIDE DEF r
  <1>3. kr'.stack = r.stack /\ kr'.ticks = r.ticks
    <2>1. CASE kr' = r
      BY <2>1
    <2>2. CASE v \in Fields /\ kr' = DomFocus(r, v)
      BY <1>2, <2>2, FocusCurrent DEF Settled
    <2>3. CASE v \in Panels /\ kr' = Blur(r)
      <3> DEFINE t == [r EXCEPT !.active = NoView]
      <3>1. t.stack = r.stack /\ t.ticks = r.ticks
        BY <1>2 DEF Settled, KRecord
      <3>2. Current(t) = v
        BY <1>2, <3>1 DEF Current
      <3>3. r.active # v
        BY <1>2, <2>3, ViewAssumption DEF Settled, KRecord
      <3> HIDE DEF t
      <3>4. Blur(r) = t
        BY <3>2, <3>3 DEF Blur, FocusOut, t
      <3>5. QED BY <2>3, <3>1, <3>4
    <2>4. QED BY <2>1, <2>2, <2>3 DEF r
  <1>4. Settled(kr', Base, Top) /\ Current(kr') = v
    BY <1>2, <1>3 DEF Settled, Current
  <1>5. QED BY <1>2, <1>3, <1>4, ResponderMirror

\* A panel or field that can be clicked, with every panel modal, is in the last
\* panel; nothing of the page can be clicked while a panel is shown.
LEMMA ReachableIsTop ==
    ASSUME Panels \subseteq Modal, IInv, MirrorInv, NEW h \in Homes,
           h = Page \/ h \in Range(dom), Reachable(h)
    PROVE  h = Top
  <1>1. dom \in Seq(Panels)
    BY DEF IInv, DomInv, TypeOK
  <1>2. CASE dom = <<>>
    BY <1>2 DEF Top, Range
  <1>3. CASE dom # <<>>
    <2> DEFINE n == Len(dom)
    <2>1. n \in Nat /\ n > 0 /\ DOMAIN dom = 1..n /\ dom[n] \in Range(dom) /\ dom[n] \in Panels
      BY <1>1, <1>3 DEF Range
    <2>2. h # Page /\ paneZIndex[dom[n]] < zIndex[h]
      BY <2>1 DEF Reachable
    <2>3. PICK i \in DOMAIN dom : dom[i] = h
      BY <2>2 DEF Range
    <2>4. 100 * n < 100 * i + 10
      BY <2>1, <2>2, <2>3 DEF MirrorInv, ZOrder
    <2>5. i = n
      BY <2>1, <2>3, <2>4
    <2>6. QED BY <1>3, <2>3, <2>5 DEF Top
  <1>4. QED BY <1>2, <1>3

\* Opening a panel puts a level on top.
LEMMA PopupMirror ==
    ASSUME Panels \subseteq Modal \cap KeyPanels, IInv, MirrorInv, Quiet,
           NEW p \in Panels, Popup(p)
    PROVE  MirrorInv'
  <1> DEFINE n == Len(dom)
  <1>1. /\ dom \in Seq(Panels) /\ kr \in KRecord /\ underneath \in [Panels -> Seq(Views)]
        /\ zIndex \in [Panels -> Int] /\ paneZIndex \in [Panels -> Int]
        /\ n \in Nat /\ DOMAIN dom = 1..n
    BY DEF IInv, DomInv, TypeOK
  <1>2. /\ dom' = Append(dom, p) /\ Len(dom') = n + 1 /\ dom'[n + 1] = p /\ dom' # <<>>
        /\ \A i \in 1..n : dom'[i] = dom[i] /\ dom[i] # p /\ dom[i] \in Panels
        /\ DOMAIN dom' = 1..(n + 1)
    <2>1. dom' = Append(dom, p) /\ p \notin Range(dom)
      BY DEF Popup, IsShown
    <2>2. \A i \in 1..n : dom[i] # p /\ dom[i] \in Panels
      BY SMTT(20), <1>1, <2>1 DEF Range
    <2>3. QED BY <1>1, <2>1, <2>2
  <1>3. /\ underneath'[p] = kr.stack
        /\ \A i \in 1..n : underneath'[dom[i]] = underneath[dom[i]]
    BY <1>1, <1>2 DEF Popup
  <1>4. kr' = Push(kr, p) /\ kr'.stack = Append(kr.stack, p) /\ kr'.ticks = kr.ticks
    BY <1>1, ViewAssumption DEF Popup, Push, KRecord
  <1>5. OnLevel(kr.stack, Base, Top)'
    <2>1. Base' = kr.stack /\ Top' = p
      BY <1>2, <1>3 DEF Base, Top
    <2>2. p \in Views /\ At(p) = p
      BY DEF Views, At
    <2>3. QED BY <1>4, <2>1, <2>2 DEF OnLevel
  <1>6. Levels'
    <2> SUFFICES ASSUME NEW i \in 1..(n + 1)
                 PROVE  IF i = 1 THEN OnLevel(underneath'[dom'[i]], <<>>, Page)
                        ELSE OnLevel(underneath'[dom'[i]], underneath'[dom'[i - 1]], dom'[i - 1])
      BY <1>2 DEF Levels, OnLevel
    <2>1. OnLevel(kr.stack, Base, Top) /\ Levels
      BY DEF MirrorInv
    <2>2. CASE i = n + 1 /\ n = 0
      <3>1. dom = <<>>
        BY <1>1, <2>2
      <3>2. QED BY <1>2, <1>3, <2>1, <2>2, <3>1 DEF Base, Top
    <2>3. CASE i = n + 1 /\ n # 0
      <3>1. Base = underneath[dom[n]] /\ Top = dom[n]
        BY <1>1, <2>3 DEF Base, Top
      <3>2. /\ i # 1 /\ i - 1 = n /\ dom'[i] = p /\ dom'[n] = dom[n]
            /\ underneath'[dom[n]] = underneath[dom[n]]
        <4> HIDE DEF n
        <4>1. i # 1 /\ i - 1 = n /\ n \in 1..n
          BY <1>1, <2>3
        <4>2. QED BY <1>2, <1>3, <2>3, <4>1
      <3>3. QED BY <1>3, <2>1, <3>1, <3>2
    <2>4. CASE i # n + 1
      <3>1. /\ i \in 1..n /\ dom'[i] = dom[i] /\ underneath'[dom[i]] = underneath[dom[i]]
            /\ i # 1 => /\ i - 1 \in 1..n /\ dom'[i - 1] = dom[i - 1]
                        /\ underneath'[dom[i - 1]] = underneath[dom[i - 1]]
        <4> HIDE DEF n
        <4>1. i \in 1..n /\ (i # 1 => i - 1 \in 1..n)
          BY <1>1, <2>4
        <4>2. QED BY <1>2, <1>3, <4>1
      <3>2. QED BY <1>1, <2>1, <3>1 DEF Levels
    <2>5. QED BY <2>2, <2>3, <2>4
  <1>7. Queues'
    <2>1. afterRender = <<>> /\ kr.ticks = <<>>
      BY DEF Quiet
    <2>2. afterRender' = <<p>>
      BY <2>1 DEF Popup, Range
    <2>3. QED BY <1>2, <1>4, <2>1, <2>2 DEF Queues
  <1>8. ZOrder'
    <2>1. zIndexCounter = 100 + 100 * n
      BY DEF MirrorInv, ZOrder
    <2>2. /\ zIndexCounter' = zIndexCounter + 100
          /\ zIndex' = [zIndex EXCEPT ![p] = zIndexCounter + 10]
          /\ paneZIndex' = [paneZIndex EXCEPT ![p] = zIndexCounter]
      BY DEF Popup, PanelZIndex
    <2>3. zIndexCounter' = 100 + 100 * (n + 1)
      BY <1>1, <2>1, <2>2
    <2>4. ASSUME NEW i \in 1..(n + 1)
          PROVE  zIndex'[dom'[i]] = 100 * i + 10 /\ paneZIndex'[dom'[i]] = 100 * i
      <3>1. CASE i = n + 1
        <4>1. zIndex'[p] = zIndexCounter + 10 /\ paneZIndex'[p] = zIndexCounter
          BY <1>1, <2>2
        <4>2. QED BY <1>1, <1>2, <2>1, <3>1, <4>1
      <3>2. CASE i # n + 1
        <4>1. i \in 1..n
          BY <1>1, <3>2
        <4>2. /\ dom'[i] = dom[i] /\ zIndex'[dom[i]] = zIndex[dom[i]]
              /\ paneZIndex'[dom[i]] = paneZIndex[dom[i]]
          BY <1>1, <1>2, <2>2, <4>1
        <4>3. QED BY <1>1, <4>1, <4>2 DEF MirrorInv, ZOrder
      <3>3. QED BY <3>1, <3>2
    <2>5. QED BY <1>2, <2>3, <2>4 DEF ZOrder
  <1>9. QED BY <1>5, <1>6, <1>7, <1>8 DEF MirrorInv

\* Closing the last panel takes its level off: the stack is the one it was
\* pushed on.
LEMMA CloseMirror ==
    ASSUME Panels \subseteq KeyPanels, IInv, MirrorInv, Quiet, dom # <<>>,
           NEW p \in Panels, p = Top, Close(p)
    PROVE  MirrorInv' /\ kr'.stack = underneath[p]
  <1> DEFINE n == Len(dom)
  <1>1. /\ dom \in Seq(Panels) /\ kr \in KRecord /\ n \in Nat /\ n > 0 /\ DOMAIN dom = 1..n
        /\ \A k, l \in DOMAIN dom : dom[k] = dom[l] => k = l
        /\ p = dom[n] /\ Base = underneath[p]
    BY DEF IInv, DomInv, TypeOK, Top, Base
  <1>2. dom' = RemoveAt(dom, n)
    <2>1. PICK i \in DOMAIN dom : dom[i] = p /\ dom' = RemoveAt(dom, i)
      BY DEF Close
    <2>2. i = n
      BY <1>1, <2>1
    <2>3. QED BY <2>1, <2>2
  <1> HIDE DEF n
  <1>3. /\ Len(dom') = n - 1 /\ DOMAIN dom' = 1..(n - 1)
        /\ \A k \in 1..(n - 1) : dom'[k] = dom[k]
        /\ n = 1 => dom' = <<>>
        /\ n # 1 => dom' # <<>>
    <2>1. n = Len(dom)
      BY DEF n
    <2>2. dom' = SubSeq(dom, 1, n - 1) \o SubSeq(dom, n + 1, n)
      BY <1>2, <2>1 DEF RemoveAt
    <2>3. QED BY <1>1, <2>1, <2>2
  <1>4. kr'.stack = Base /\ kr'.ticks = <<>>
    <2> DEFINE t == Detach(kr, p)
    <2>1. t \in KRecord /\ t.stack = kr.stack /\ t.ticks = kr.ticks
      BY <1>1 DEF Detach, KRecord
    <2>2. Settled(t, Base, Top)
      BY <2>1, TopSettled DEF Settled
    <2> HIDE DEF t
    <2>3. kr' = Pop(t)
      BY DEF Close, t
    <2>4. QED BY <2>1, <2>2, <2>3, PopSettled DEF Quiet
  <1>5. UNCHANGED <<zIndex, paneZIndex, afterRender, underneath>>
    BY DEF Close
  <1>6. OnLevel(kr.stack, Base, Top)'
    <2>1. Levels
      BY DEF MirrorInv
    <2>2. CASE n = 1
      <3>1. Base' = <<>> /\ Top' = Page
        BY <1>3, <2>2 DEF Base, Top
      <3>2. OnLevel(underneath[p], <<>>, Page)
        BY <1>1, <2>1, <2>2 DEF Levels
      <3>3. QED BY <1>1, <1>4, <3>1, <3>2 DEF OnLevel
    <2>3. CASE n # 1
      <3>1. n - 1 \in 1..(n - 1) /\ n \in DOMAIN dom
        BY <1>1, <2>3
      <3>2. Base' = underneath[dom[n - 1]] /\ Top' = dom[n - 1]
        BY <1>3, <1>5, <2>3, <3>1 DEF Base, Top
      <3>3. OnLevel(underneath[p], underneath[dom[n - 1]], dom[n - 1])
        BY <1>1, <2>1, <2>3, <3>1 DEF Levels
      <3>4. QED BY <1>1, <1>4, <3>2, <3>3 DEF OnLevel
    <2>4. QED BY <2>2, <2>3
  <1>7. Levels'
    <2> SUFFICES ASSUME NEW i \in 1..(n - 1)
                 PROVE  IF i = 1 THEN OnLevel(underneath[dom'[i]], <<>>, Page)
                        ELSE OnLevel(underneath[dom'[i]], underneath[dom'[i - 1]], dom'[i - 1])
      BY <1>3, <1>5 DEF Levels, OnLevel
    <2>1. Levels /\ i \in DOMAIN dom /\ (i # 1 => i - 1 \in 1..(n - 1))
      BY <1>1 DEF MirrorInv
    <2>2. dom'[i] = dom[i] /\ (i # 1 => dom'[i - 1] = dom[i - 1])
      BY <1>3, <2>1
    <2>3. QED BY <2>1, <2>2 DEF Levels
  <1>8. Queues'
    BY <1>4, <1>5 DEF Queues, Quiet
  <1>9. ZOrder'
    <2>1. zIndexCounter = 100 + 100 * n /\ zIndexCounter' = zIndexCounter - 100
      BY DEF MirrorInv, ZOrder, Close, n
    <2>2. zIndexCounter' = 100 + 100 * (n - 1)
      BY <1>1, <2>1
    <2>3. QED BY <1>1, <1>3, <1>5, <2>2 DEF MirrorInv, ZOrder
  <1>10. QED BY <1>1, <1>4, <1>6, <1>7, <1>8, <1>9 DEF MirrorInv

\* Whoever closes a panel, under the discipline it is the last one.
LEMMA ClosesTop ==
    ASSUME Panels \subseteq Modal \cap KeyPanels, IInv, MirrorInv, env = {}, NEW p \in Panels,
           AppClose(p) \/ ClickModalPane(p) \/ CancelKey(p)
    PROVE  p = Top /\ dom # <<>> /\ Quiet /\ Close(p)
  <1>1. Quiet /\ Close(p)
    BY DEF AppClose, ClickModalPane, CancelKey, EventMayCome, CallMayCome
  <1>2. PICK i \in DOMAIN dom : dom[i] = p
    BY <1>1 DEF Close
  <1>3. dom \in Seq(Panels) /\ dom # <<>>
    BY <1>2 DEF IInv, DomInv, TypeOK
  <1>4. CASE AppClose(p)
    BY <1>1, <1>3, <1>4 DEF AppClose, Top
  <1>5. CASE ClickModalPane(p)
    <2> DEFINE n == Len(dom)
    <2>1. n \in Nat /\ n > 0 /\ DOMAIN dom = 1..n /\ dom[n] \in Range(dom) /\ dom[n] \in Panels
      BY <1>3 DEF Range
    <2>2. paneZIndex[dom[n]] <= paneZIndex[p]
      BY <1>5, <2>1 DEF ClickModalPane
    <2>3. 100 * n <= 100 * i
      BY <1>2, <2>1, <2>2 DEF MirrorInv, ZOrder
    <2>4. QED BY <1>1, <1>2, <1>3, <2>1, <2>3 DEF Top
  <1>6. CASE CancelKey(p)
    <2>1. /\ Current(kr) # NoView
          /\ Current(kr) = p \/ (Current(kr) \in Fields /\ Home[Current(kr)] = p)
      BY <1>6 DEF CancelKey
    <2>2. At(Current(kr)) = Top
      BY <2>1, TopSettled, SettledCurrent
    <2>3. QED BY <1>1, <1>3, <2>1, <2>2, ViewAssumption DEF At
  <1>7. QED BY <1>1, <1>3, <1>4, <1>5, <1>6

\* Every step of disciplined use keeps the stack the mirror of the panels.
LEMMA NextMirror ==
    ASSUME Panels \subseteq Modal \cap KeyPanels, IInv, IInv', DisciplineInv, [Next]_vars
    PROVE  DisciplineInv'
  <1>0. env' = env
    BY DEF Next, vars, Popup, AppClose, ClickPanel, ClickModalPane, CancelKey, FocusDefaultInput,
       Tick, ClickField, BrowserTab, ClickPage, PerformTab, WindowFocus, Close, OnlyResponders
  <1> SUFFICES ASSUME env = {}
               PROVE  MirrorInv'
    BY <1>0 DEF DisciplineInv
  <1>1. MirrorInv
    BY DEF DisciplineInv
  <1>2. /\ dom \in Seq(Panels) /\ kr \in KRecord /\ kr' \in KRecord
        /\ afterRender \in Seq(Panels)
    BY DEF IInv, DomInv, TypeOK
  <1>3. /\ Settled(kr, Base, Top)
        /\ dom # <<>> => Top \in Panels /\ Top = dom[Len(dom)]
        /\ dom = <<>> => Top = Page
        /\ Top = Page => dom = <<>>
    BY <1>1, TopSettled
  <1>a. ASSUME NEW p \in Panels, Popup(p)
        PROVE  MirrorInv'
    BY <1>1, <1>a, PopupMirror DEF Popup, CallMayCome
  <1>b. ASSUME NEW p \in Panels, AppClose(p) \/ ClickModalPane(p) \/ CancelKey(p)
        PROVE  MirrorInv'
    BY <1>1, <1>b, ClosesTop, CloseMirror
  <1>c. ASSUME NEW p \in Panels, ClickPanel(p)
        PROVE  MirrorInv'
    <2>1. p = Top
      <3>1. p \in Homes /\ p \in Range(dom)
        BY <1>c DEF ClickPanel, IsShown, Homes
      <3>2. QED BY <1>1, <1>c, <3>1, ReachableIsTop DEF ClickPanel
    <2>2. kr' = Blur(Replace(kr, p)) /\ Quiet /\ OnlyResponders
      BY <1>c DEF ClickPanel, EventMayCome, CallMayCome
    <2>3. QED
      BY <1>1, <1>2, <2>1, <2>2, ReplaceMirror DEF Quiet, OnlyResponders, Views, At
  <1>d. ASSUME FocusDefaultInput
        PROVE  MirrorInv'
    <2>1. /\ kr.ticks = <<>> /\ dom # <<>> /\ afterRender = <<Top>> /\ Top \in Panels
          /\ UNCHANGED <<dom, zIndexCounter, zIndex, paneZIndex, underneath>>
      BY <1>1, <1>3, <1>d DEF FocusDefaultInput, MirrorInv, Queues
    <2>2. kr' = FocusInput(kr, Top) /\ afterRender' = <<>>
      BY <1>d, <2>1 DEF FocusDefaultInput
    <2> DEFINE f == DefaultFocus[Top]
    <2>3. CASE f = NoView
      BY <1>1, <1>3, <2>1, <2>2, <2>3, ResponderMirror DEF FocusInput
    <2>4. CASE f # NoView
      <3>1. f \in Fields /\ Home[f] = Top /\ f \notin Panels
        BY <2>1, <2>4, PanelAssumption, ViewAssumption
      <3>2. kr' = Replace(kr, f)
        BY <2>2, <2>4 DEF FocusInput
      <3>3. QED BY <1>1, <1>2, <2>1, <2>2, <3>1, <3>2, ReplaceMirror DEF Views, At
    <2>5. QED BY <2>3, <2>4
  <1>e. ASSUME Tick
        PROVE  MirrorInv'
    <2> DEFINE f == Head(kr.ticks)
               t == [kr EXCEPT !.ticks = Tail(kr.ticks)]
    <2>1. kr.ticks = <<f>> /\ f = Current(kr) /\ f \in Fields
      BY <1>1, <1>2, <1>e DEF Tick, MirrorInv, Queues, KRecord
    <2>2. t \in KRecord /\ t.stack = kr.stack /\ t.ticks = <<>>
      BY SMTT(20), <1>2, <2>1 DEF KRecord
    <2>3. Current(t) = f
      BY <2>1, <2>2 DEF Current
    <2>4. kr' = t \/ kr' = DomFocus(t, f)
      BY <1>e DEF Tick, RunTick
    <2> HIDE DEF f, t
    <2>5. kr'.stack = kr.stack /\ kr'.ticks = <<>>
      BY <2>1, <2>2, <2>3, <2>4, FocusCurrent
    <2>6. Settled(kr', Base, Top)
      BY <1>2, <1>3, <2>5 DEF Settled
    <2>7. QED BY <1>1, <1>e, <2>5, <2>6, ResponderMirror DEF Tick
  <1>f. ASSUME NEW f \in Fields, ClickField(f)
        PROVE  MirrorInv'
    <2>1. Home[f] = Top
      <3>1. Home[f] \in Homes /\ (Home[f] = Page \/ Home[f] \in Range(dom))
        BY <1>f, ViewAssumption DEF ClickField, InDOM, Homes
      <3>2. QED BY <1>1, <1>f, <3>1, ReachableIsTop DEF ClickField
    <2>2. kr' = DomFocus(Replace(kr, f), f) /\ Quiet /\ OnlyResponders
      BY <1>f DEF ClickField, EventMayCome, CallMayCome
    <2>3. f \in Views /\ At(f) = Top
      BY <2>1, ViewAssumption DEF Views, At
    <2>4. QED
      BY <1>1, <1>2, <2>2, <2>3, ReplaceMirror DEF Quiet, OnlyResponders
  <1>g. ASSUME ClickPage
        PROVE  MirrorInv'
    <2>1. Page \in Homes /\ Reachable(Page) /\ Quiet /\ kr' = Blur(kr) /\ OnlyResponders
      BY <1>g DEF ClickPage, EventMayCome, CallMayCome, Homes
    <2>2. Top = Page /\ dom = <<>> /\ Base = <<>>
      BY <1>1, <1>3, <2>1, ReachableIsTop DEF Base
    <2> DEFINE t == [kr EXCEPT !.active = NoView]
    <2>3. t \in KRecord /\ t.stack = kr.stack /\ t.ticks = <<>>
      BY <1>2, <2>1 DEF KRecord, Quiet
    <2>4. Settled(t, Base, Top)
      BY <1>3, <2>3 DEF Settled
    <2>5. kr' = t \/ kr' = PopHead(t)
      BY <2>1 DEF Blur, FocusOut
    <2> HIDE DEF t
    <2>6. PopHead(t) \in KRecord /\ PopHead(t).stack = <<>> /\ PopHead(t).ticks = <<>>
      BY <2>2, <2>3, <2>4, PopHeadSettled
    <2>7. Settled(PopHead(t), Base, Top)
      BY <2>2, <2>6 DEF Settled, OnLevel
    <2>8. Settled(kr', Base, Top) /\ kr'.ticks = <<>>
      BY <2>3, <2>4, <2>5, <2>6, <2>7
    <2>9. QED BY <1>1, <2>1, <2>8, ResponderMirror DEF OnlyResponders, Quiet
  <1>h. ASSUME NEW direction \in {-1, 1}, PerformTab(direction)
        PROVE  MirrorInv'
    <2> DEFINE form == FormOrder[Home[Current(kr)]]
    <2>1. Current(kr) \in Fields /\ Quiet /\ OnlyResponders
      BY <1>h DEF PerformTab, EventMayCome, CallMayCome
    <2>2. Home[Current(kr)] = Top /\ Top \in Homes
      <3>1. At(Current(kr)) = Top
        BY <1>3, <2>1, SettledCurrent, ViewAssumption
      <3>2. QED BY <2>1, <3>1, ViewAssumption DEF At, Homes
    <2>3. form \in Seq(Fields) /\ \A i \in DOMAIN form : Home[form[i]] = Top
      BY <2>2, PanelAssumption
    <2> HIDE DEF form
    <2>4. PICK m \in 1..Len(form) : kr' = Replace(kr, form[m])
      <3>1. PICK k \in DOMAIN form :
               kr' = Replace(kr, IF k + direction < 1 THEN form[Len(form)]
                                 ELSE IF k + direction > Len(form) THEN form[1]
                                 ELSE form[k + direction])
        BY <1>h DEF PerformTab, form
      <3>2. Len(form) \in Nat /\ k \in 1..Len(form)
        BY <2>3
      <3>3. CASE k + direction < 1
        BY <3>1, <3>2, <3>3
      <3>4. CASE k + direction > Len(form)
        BY <3>1, <3>2, <3>4
      <3>5. CASE k + direction \in 1..Len(form)
        BY <3>1, <3>2, <3>5
      <3>6. QED BY <3>2, <3>3, <3>4, <3>5
    <2>5. form[m] \in Fields /\ Home[form[m]] = Top
      BY <2>3
    <2>6. form[m] \in Views /\ At(form[m]) = Top
      BY <2>5, ViewAssumption DEF Views, At
    <2>7. QED
      BY <1>1, <1>2, <2>1, <2>4, <2>6, ReplaceMirror DEF Quiet, OnlyResponders
  <1>i. ASSUME (\E f \in Fields : BrowserTab(f)) \/ WindowFocus
        PROVE  MirrorInv'
    BY <1>i DEF BrowserTab, WindowFocus
  <1>j. CASE UNCHANGED vars
    BY <1>1, <1>j DEF vars, MirrorInv, OnLevel, Base, Top, Levels, Queues, ZOrder, Current
  <1>4. QED
    BY <1>a, <1>b, <1>c, <1>d, <1>e, <1>f, <1>g, <1>h, <1>i, <1>j DEF Next

\* The mirror holds in every reachable state of disciplined use.
LEMMA Discipline ==
    ASSUME Panels \subseteq Modal \cap KeyPanels
    PROVE  Spec => [](IInv /\ DisciplineInv)
  <1>1. Init => DisciplineInv
    <2> SUFFICES ASSUME Init PROVE MirrorInv
      BY DEF DisciplineInv
    <2>1. /\ dom = <<>> /\ kr.stack = <<>> /\ kr.ticks = <<>> /\ afterRender = <<>>
          /\ zIndexCounter = 100 /\ Len(dom) = 0 /\ DOMAIN dom = {}
      BY DEF Init
    <2>2. OnLevel(kr.stack, Base, Top)
      BY <2>1 DEF OnLevel, Base, Top
    <2>3. QED BY <2>1, <2>2 DEF MirrorInv, Levels, Queues, ZOrder
  <1>2. QED
    BY <1>1, InitIInv, NextIInv, NextMirror, PTL DEF Spec

\* With panels that have the defaults of Panel, and closed last opened, first
\* closed, whatever the user clicks and types, a panel opened later lies with
\* its modal pane above the ones opened before it.
THEOREM LaterOnTopCorrect ==
    ASSUME Panels \subseteq Modal \cap KeyPanels
    PROVE  Spec => []LaterPanelsOnTop
  <1>1. IInv /\ DisciplineInv => LaterPanelsOnTop
    <2> SUFFICES ASSUME IInv, MirrorInv, NEW i \in DOMAIN dom, NEW j \in DOMAIN dom, i < j
                 PROVE  /\ zIndex[dom[i]] < zIndex[dom[j]]
                        /\ zIndex[dom[i]] < paneZIndex[dom[j]]
      BY DEF DisciplineInv, LaterPanelsOnTop
    <2>1. i \in Nat /\ j \in Nat
      BY SMTT(20) DEF IInv, DomInv, TypeOK
    <2>2. QED BY <2>1 DEF MirrorInv, ZOrder
  <1>2. QED BY <1>1, Discipline, PTL

\* And closing one restores the key responder there was when it was opened, with
\* everything below it on the stack: every close() pops what the popup() of the
\* same panel pushed, or what has taken its place.
THEOREM RestoreCorrect ==
    ASSUME Panels \subseteq Modal \cap KeyPanels
    PROVE  Spec => RestoresResponder
  <1>1. IInv /\ DisciplineInv /\ [Next]_vars =>
          [env = {} => \A p \in KeyPanels :
             p \in Range(dom) /\ p \notin Range(dom') => kr'.stack = underneath[p]]_vars
    <2> SUFFICES ASSUME IInv, DisciplineInv, Next, env = {}, NEW p \in KeyPanels,
                        p \in Range(dom), p \notin Range(dom')
                 PROVE  kr'.stack = underneath[p]
      OBVIOUS
    <2>1. MirrorInv
      BY DEF DisciplineInv
    <2>2. \E q \in Panels : AppClose(q) \/ ClickModalPane(q) \/ CancelKey(q)
      <3>1. dom' # dom
        OBVIOUS
      <3>2. ASSUME NEW q \in Panels, Popup(q)
            PROVE  FALSE
        <4>1. dom \in Seq(Panels) /\ dom' = Append(dom, q)
          BY <3>2 DEF Popup, IInv, DomInv, TypeOK
        <4>2. QED BY <4>1, AppendRange
      <3>3. QED
        BY <3>1, <3>2 DEF Next, ClickPanel, FocusDefaultInput, Tick, ClickField, BrowserTab,
           ClickPage, PerformTab, WindowFocus, OnlyResponders
    <2>3. PICK q \in Panels : AppClose(q) \/ ClickModalPane(q) \/ CancelKey(q)
      BY <2>2
    <2>4. q = Top /\ dom # <<>> /\ Quiet /\ Close(q)
      BY <2>1, <2>3, ClosesTop
    <2>5. p = q
      <3>1. PICK i \in DOMAIN dom : dom[i] = q /\ dom' = RemoveAt(dom, i)
        BY <2>4 DEF Close
      <3>2. Range(dom') = Range(dom) \ {q}
        <4>1. dom \in Seq(Panels) /\ \A k, l \in DOMAIN dom : dom[k] = dom[l] => k = l
          BY DEF IInv, DomInv, TypeOK
        <4>2. QED BY <3>1, <4>1, RemoveAtRange
      <3>3. QED BY <3>2
    <2>6. QED BY <2>1, <2>4, <2>5, CloseMirror
  <1>2. QED
    BY <1>1, Discipline, PTL DEF Spec, RestoresResponder
=============================================================================
