---------------------------- MODULE FieldsProofs ----------------------------
(***************************************************************************)
(* Invariance proofs for what a form keeps of its fields.                  *)
(*                                                                         *)
(* AutocompleteField: the menu and the last request belong to what was     *)
(* typed last, for every set of queries, any number of keys and every      *)
(* environment: a delegate that refuses, does not answer or answers late,  *)
(* values set by the application, and a field that is destroyed at any     *)
(* time.                                                                   *)
(*                                                                         *)
(* Validations: what Validatable keeps is right, for any properties,       *)
(* values, rules and couplings.                                            *)
(***************************************************************************)
EXTENDS AutocompleteField, Validations, TLAPS

-----------------------------------------------------------------------------
(* A text field with autocompletion: the inductive invariant *)

\* A query waits only while a request is under way: entering the state idle
\* takes it from the queue.
QueueIsForRequest == state = "idle" => queued = None

\* Only character keys are debounced where no other keys are pressed.
OnlyCharacterKeys == "control" \notin fieldEnv => debounce # "control"

\* The text typed last is not lost between the debounced call and the delegate:
\* once the call was made, the text is the query that waits or else the one that
\* was asked last.
TypedIsUnderWay ==
    "control" \notin fieldEnv /\ alive /\ debounce = None /\ typed =>
        text = IF queued # None THEN queued ELSE asked

\* The typed text is a query; the empty text is none.
TypedIsQuery == typed => text # Empty

\* The properties checked by TLC do not say what a request under way is for, nor
\* what happens to the query that waits for it: these parts do.
FieldInv ==
    /\ MenuIsForLastQuery
    /\ QueueIsForRequest
    /\ OnlyCharacterKeys
    /\ TypedIsUnderWay
    /\ TypedIsQuery

-----------------------------------------------------------------------------
(* Operations *)

\* Initially nothing was typed or asked.
LEMMA InitField == FieldInit => FieldInv
  <1> SUFFICES ASSUME FieldInit PROVE FieldInv
    OBVIOUS
  <1>1. FieldTypeOK
    <2>1. fetched \in BOOLEAN /\ alive \in BOOLEAN /\ typed \in BOOLEAN
      BY Zenon DEF FieldInit
    <2>2. QED
      BY <2>1, FieldAssumption DEF FieldInit, FieldTypeOK, Texts
  <1>2. typed = FALSE /\ menu = None /\ queued = None /\ debounce = None
    BY DEF FieldInit
  <1>3. QED
    BY <1>1, <1>2, FieldAssumption, Zenon DEF FieldInv, MenuIsForLastQuery,
       QueueIsForRequest, OnlyCharacterKeys, TypedIsUnderWay, TypedIsQuery

\* Keys, the delayed value, values set from outside and the end of the field
\* leave requests alone; what they do to the text makes it wait for the
\* debounced call, or makes it one that was not typed.
LEMMA TypingField ==
    ASSUME FieldInv,
           \/ \E t \in Texts : Type(t)
           \/ ControlKey
           \/ ValueTimer
           \/ InsertNewline
           \/ \E v \in Texts : SetFromOutside(v)
           \/ Destroy
    PROVE  FieldInv'
  <1> USE DEF FieldInv, MenuIsForLastQuery, FieldTypeOK, QueueIsForRequest,
              OnlyCharacterKeys, TypedIsUnderWay, TypedIsQuery
  <1>1. CASE \E t \in Texts : Type(t)
    <2>1. PICK t \in Texts : Type(t)
      BY <1>1
    <2>2. FieldTypeOK'
      BY <2>1, FieldAssumption DEF Type, SetValue, Texts
    <2>3. /\ debounce' = "char" /\ text' = t /\ typed' = (t # Empty)
          /\ UNCHANGED <<state, queued, asked, fetched, menu, alive, fieldEnv>>
      BY <2>1 DEF Type
    <2> QED
      BY <2>2, <2>3, FieldAssumption
  <1>2. CASE ControlKey
    BY <1>2, FieldAssumption DEF ControlKey
  <1>3. CASE ValueTimer
    BY <1>3 DEF ValueTimer
  <1>4. CASE InsertNewline
    BY <1>4 DEF InsertNewline
  <1>5. CASE \E v \in Texts : SetFromOutside(v)
    <2>1. PICK v \in Texts : SetFromOutside(v)
      BY <1>5
    <2>2. typed' = FALSE /\ typed' \in BOOLEAN
      BY <2>1, Zenon DEF SetFromOutside
    <2>3. UNCHANGED <<debounce, state, queued, asked, fetched, menu, alive, fieldEnv>>
      BY <2>1 DEF SetFromOutside
    <2>4. FieldTypeOK'
      BY <2>1, <2>2, FieldAssumption DEF SetFromOutside
    <2> QED
      BY <2>2, <2>3, <2>4
  <1>6. CASE Destroy
    BY <1>6, FieldAssumption DEF Destroy, ValueWhenDestroyed
  <1>7. QED
    BY <1>1, <1>2, <1>3, <1>4, <1>5, <1>6

\* A request made in the state idle, taken or refused, closes the menu and
\* leaves a query that is not empty as the one asked last.
LEMMA RequestAsks ==
    ASSUME NEW q \in Texts, RequestWhenIdle(q)
    PROVE  /\ menu' = None
           /\ state' \in {"idle", "requesting"}
           /\ q # Empty => asked' = q /\ fetched' = FALSE
           /\ q = Empty => state' = "idle" /\ asked' = asked /\ fetched' = fetched
  BY DEF RequestWhenIdle

\* The debounced call sends the text, or has it wait.
LEMMA ActionField ==
    ASSUME FieldInv, AutocompleteAction
    PROVE  FieldInv'
  <1> USE DEF FieldInv, MenuIsForLastQuery, FieldTypeOK, QueueIsForRequest,
              OnlyCharacterKeys, TypedIsUnderWay, TypedIsQuery
  <1>1. CASE debounce = "control"
    BY <1>1, FieldAssumption DEF AutocompleteAction
  <1>2. CASE debounce # "control" /\ state = "idle"
    <2>1. RequestWhenIdle(text) /\ UNCHANGED queued
      BY <1>2 DEF AutocompleteAction
    <2>2. UNCHANGED <<text, value, timer, alive, keyCount, typed, fieldEnv>> /\ debounce' = None
      BY DEF AutocompleteAction
    <2>3. QED
      BY <1>2, <2>1, <2>2, RequestAsks, FieldAssumption DEF Texts
  <1>3. CASE debounce # "control" /\ state # "idle"
    BY <1>3, FieldAssumption DEF AutocompleteAction, Queue, Texts
  <1>4. QED
    BY <1>1, <1>2, <1>3

\* Results are shown only if they are for the request under way, and no query
\* waits; they come once.
LEMMA FetchField ==
    ASSUME FieldInv, NEW found \in BOOLEAN, DidFetch(found)
    PROVE  FieldInv'
  BY DEF DidFetch, ShowsResults, FieldInv, MenuIsForLastQuery, FieldTypeOK,
     QueueIsForRequest, OnlyCharacterKeys, TypedIsUnderWay, TypedIsQuery

\* The end of a request sends the query that waits.
LEMMA FinishField ==
    ASSUME FieldInv, DidFinish
    PROVE  FieldInv'
  <1> USE DEF FieldInv, MenuIsForLastQuery, FieldTypeOK, QueueIsForRequest,
              OnlyCharacterKeys, TypedIsUnderWay, TypedIsQuery
  <1>1. UNCHANGED <<text, value, timer, debounce, alive, keyCount, typed, fieldEnv>>
    BY DEF DidFinish
  <1>2. CASE queued = None
    BY <1>1, <1>2 DEF DidFinish
  <1>3. CASE queued # None
    <2>1. queued' = None /\ RequestWhenIdle(queued) /\ queued \in Queries
      BY <1>3 DEF DidFinish
    <2>2. /\ menu' = None /\ asked' = queued /\ fetched' = FALSE
          /\ state' \in {"idle", "requesting"}
      BY <2>1, RequestAsks, FieldAssumption DEF Texts
    <2>3. QED
      BY <1>1, <1>3, <2>1, <2>2, FieldAssumption
  <1>4. QED
    BY <1>2, <1>3

\* Choosing from the menu or leaving it closes it.
LEMMA MenuField ==
    ASSUME FieldInv, (\E t \in Queries : SelectItem(t)) \/ CancelMenu
    PROVE  FieldInv'
  <1> USE DEF FieldInv, MenuIsForLastQuery, FieldTypeOK, QueueIsForRequest,
              OnlyCharacterKeys, TypedIsUnderWay, TypedIsQuery
  <1>1. CASE \E t \in Queries : SelectItem(t)
    BY <1>1 DEF SelectItem, Texts
  <1>2. CASE CancelMenu
    BY <1>2 DEF CancelMenu
  <1>3. QED
    BY <1>1, <1>2

-----------------------------------------------------------------------------
(* The theorem *)

\* Every step of the field keeps the invariant.
LEMMA StepField == FieldInv /\ [FieldNext]_fieldVars => FieldInv'
  <1> SUFFICES ASSUME FieldInv, [FieldNext]_fieldVars
               PROVE  FieldInv'
    OBVIOUS
  <1>1. CASE FieldNext
    BY <1>1, TypingField, ActionField, FetchField, FinishField, MenuField DEF FieldNext
  <1>2. CASE UNCHANGED fieldVars
    BY <1>2 DEF fieldVars, FieldInv, MenuIsForLastQuery, FieldTypeOK, QueueIsForRequest,
       OnlyCharacterKeys, TypedIsUnderWay, TypedIsQuery
  <1>3. QED
    BY <1>1, <1>2

\* The menu never shows the results of an earlier query than the one asked last,
\* and when typing and requests have come to rest the text typed last is the one
\* that was asked last, whatever was debounced, queued, replaced or refused
\* (AutocompleteTextFieldView's states idle and requesting).
THEOREM AnswersCorrect == FieldSpec => []AnswersMatchText
  <1>1. FieldInv => AnswersMatchText
    BY DEF FieldInv, AnswersMatchText, SettledTextWasAsked, QueueIsForRequest, TypedIsUnderWay
  <1>2. QED
    BY InitField, StepField, <1>1, PTL DEF FieldSpec

-----------------------------------------------------------------------------
(* Validatable *)

USE DEF Verdict

\* An auxiliary: isValid agrees with the IsValid properties, which may both be
\* out of date.
IsValidAgrees == isValid # "null" => isValid = Verdict(AllValid(okay, keys))

\* The invariant.  Before anything is made nothing is kept; later, every
\* property with a validation is observed, or the loop will get to it.
MadeInv ==
    /\ made # keys => /\ made = {} /\ isValid = "null"
                      /\ todo = {} /\ pending = {} /\ ~reading
    /\ made = keys => keys \subseteq observed \cup todo
    /\ keys # {} /\ isValid = "null" => made # keys

ClosedInv == \A k \in keys : Deps[k] \subseteq keys \cup Outside

IInv == TypeOK /\ IsValidAgrees /\ MadeInv /\ ClosedInv /\ Fresh

\* It is an invariant of the environment without options.
PlainInv == env = {} => IInv

------------------------------------------------------------------------------
(* Lemmas about the operators. *)

\* If all the IsValid properties are defined, validateProperty defines none.
LEMMA AllMade ==
    ASSUME NEW q, NEW K, NEW ok, NEW vs, NEW rs
    PROVE  ~MakesAll(q, K, ok, vs, rs, K)
BY DEF MakesAll, ReachesUnmade

\* validateProperty validates the property and those coupled to it.
LEMMA UpToAll ==
    ASSUME NEW q \in Props, NEW K
    PROVE  UpTo(q, Len(Coupled[q]), K) = ({q} \cup CoupledSet(q)) \cap K
<1>1. Coupled[q] \in Seq(Props)
  BY ValidationAssumption
<1>2. DOMAIN Coupled[q] = 1 .. Len(Coupled[q])
  BY <1>1
<1>3. QED
  BY <1>2 DEF UpTo, CoupledSet

\* A verdict depends only on the property and its dependencies.
LEMMA SameVerdict ==
    ASSUME NEW k \in Props, NEW v \in Assignments, NEW w \in Assignments,
           NEW rs \in [Props -> Rules], NEW ss \in [Props -> Rules],
           rs[k] = ss[k],
           \A q \in Deps[k] \cup {k} : v[q] = w[q]
    PROVE  Valid(k, v, rs) = Valid(k, w, ss)
<1>1. rs[k] \in Rules
  OBVIOUS
<1>2. (v \in Accepts[<<k, rs[k]>>]) = (w \in Accepts[<<k, rs[k]>>])
  BY <1>1, CouplingAssumption
<1>3. QED
  BY <1>2 DEF Valid

\* What validateProperty does once all the IsValid properties are defined.
LEMMA ValidateEffect ==
    ASSUME NEW q \in Props, NEW ACTION vs, NEW ACTION rs, NEW ACTION K, NEW ACTION ob,
           ValidateProperty(q, vs, rs, K, K, ob)
    PROVE  /\ made' = K /\ observed' = ob
           /\ okay' = Revalidated(okay, ({q} \cup CoupledSet(q)) \cap K, vs, rs)
           /\ isValid' = Verdict(AllValid(okay', K))
BY AllMade, UpToAll DEF ValidateProperty

------------------------------------------------------------------------------
(* What is kept is right, if the application does its part. *)

\* Validating a property keeps everything fresh: what depends on the property
\* is coupled to it, and what is stale otherwise is still waiting.
LEMMA FreshKept ==
    ASSUME TypeOK, Fresh,
           NEW q \in Props \ Outside,
           q \in keys', keys' \subseteq Props, observed' \subseteq keys',
           observed' \subseteq observed \cup {q},
           okay' = Revalidated(okay, ({q} \cup CoupledSet(q)) \cap keys', values', rules'),
           \A k \in observed \ ({q} \cup CoupledSet(q)) :
              \/ Valid(k, values', rules') = Valid(k, values, rules)
              \/ Unnoticed(k)' \/ \E d \in Deps[k] : Unnoticed(d)',
           \A d \in Props \ {q} : Unnoticed(d) => Unnoticed(d)'
    PROVE  Fresh'
<1> SUFFICES ASSUME NEW k \in observed'
             PROVE  \/ okay'[k] = Verdict(Valid(k, values', rules'))
                    \/ Unnoticed(k)'
                    \/ \E d \in Deps[k] : Unnoticed(d)'
  BY DEF Fresh, Valid
<1>1. CASE k \in {q} \cup CoupledSet(q)
  BY <1>1 DEF Revalidated
<1>2. CASE k \notin {q} \cup CoupledSet(q)
  <2>1. k \in observed /\ k \in Props /\ okay'[k] = okay[k]
    BY <1>2 DEF Revalidated
  <2>2. q \notin Deps[k]
    BY <1>2, <2>1, CouplingAssumption
  <2>3. Deps[k] \subseteq Props
    BY <2>1, ValidationAssumption
  <2>4. CASE Unnoticed(k) \/ \E d \in Deps[k] : Unnoticed(d)
    BY <1>2, <2>1, <2>2, <2>3, <2>4
  <2>5. CASE okay[k] = Verdict(Valid(k, values, rules))
    BY <1>2, <2>1, <2>5
  <2>6. QED
    BY <2>1, <2>4, <2>5 DEF Fresh
<1>3. QED
  BY <1>1, <1>2

\* The invariant holds initially.
LEMMA InitIInv == Init => IInv
<1> SUFFICES ASSUME Init PROVE IInv
  OBVIOUS
<1>1. TypeOK
  BY ValidationAssumption DEF Init, TypeOK
<1>2. IsValidAgrees /\ MadeInv /\ Fresh
  BY DEF Init, IsValidAgrees, MadeInv, Fresh
<1>3. ClosedInv
  BY CouplingAssumption, ValidationAssumption DEF Init, ClosedInv
<1>4. QED
  BY <1>1, <1>2, <1>3 DEF IInv

\* Validating keeps the type of what is kept.
LEMMA RevalidatedType ==
    ASSUME NEW ok \in [Props -> {"yes", "no", "unset"}], NEW S, NEW vs, NEW rs
    PROVE  Revalidated(ok, S, vs, rs) \in [Props -> {"yes", "no", "unset"}]
BY DEF Revalidated

\* Setting a property keeps the invariant.
LEMMA SetPropertyIInv ==
    ASSUME IInv, env = {}, NEW p \in Props, NEW x \in Values, SetProperty(p, x)
    PROVE  IInv'
<1> USE DEF IInv
<1>1. p \notin Outside /\ values' \in Assignments /\ UNCHANGED <<env, keys, rules, todo, reading, pending>>
  BY DEF SetProperty, TypeOK, Assignments
<1>2. \A k \in observed : k # p /\ p \notin Deps[k]
          => Valid(k, values', rules') = Valid(k, values, rules)
  <2> SUFFICES ASSUME NEW k \in observed, k # p, p \notin Deps[k]
               PROVE  Valid(k, values', rules) = Valid(k, values, rules)
    BY <1>1
  <2>1. k \in Props /\ values \in Assignments /\ rules \in [Props -> Rules]
    BY DEF TypeOK
  <2>2. Deps[k] \subseteq Props
    BY <2>1, ValidationAssumption
  <2>3. \A q \in Deps[k] \cup {k} : values'[q] = values[q]
    BY <2>1, <2>2 DEF SetProperty, Assignments
  <2>4. QED
    BY <1>1, <2>1, <2>3, SameVerdict
<1>3. CASE p \in observed
  <2>1. made = keys /\ p \in keys
    BY <1>3 DEF MadeInv, TypeOK
  <2>2. /\ made' = keys /\ observed' = observed
        /\ okay' = Revalidated(okay, ({p} \cup CoupledSet(p)) \cap keys, values', rules)
        /\ isValid' = Verdict(AllValid(okay', keys))
    <3>1. ValidateProperty(p, values', rules, keys, keys, observed)
      BY <1>3, <2>1 DEF SetProperty
    <3>2. QED
      BY <3>1, ValidateEffect
  <2>3. TypeOK'
    BY <1>1, <2>1, <2>2, RevalidatedType DEF TypeOK
  <2>4. IsValidAgrees' /\ MadeInv' /\ ClosedInv'
    BY <1>1, <2>1, <2>2 DEF IsValidAgrees, AllValid, MadeInv, ClosedInv
  <2>5. \A d \in Props : Unnoticed(d)' = Unnoticed(d)
    BY <1>1, <2>2 DEF Unnoticed
  <2>6. \A k \in observed \ ({p} \cup CoupledSet(p)) : p \notin Deps[k]
    BY <1>1, CouplingAssumption DEF TypeOK
  <2>7. Fresh'
    BY <1>1, <1>2, <2>1, <2>2, <2>5, <2>6, FreshKept DEF TypeOK
  <2>8. QED
    BY <2>3, <2>4, <2>7
<1>4. CASE p \notin observed
  <2>1. UNCHANGED <<made, observed, okay, isValid>>
    BY <1>4 DEF SetProperty
  <2>2. TypeOK' /\ IsValidAgrees' /\ MadeInv' /\ ClosedInv'
    BY <1>1, <2>1 DEF TypeOK, IsValidAgrees, AllValid, MadeInv, ClosedInv
  <2>3. \A d \in Props : Unnoticed(d)' = Unnoticed(d)
    BY <1>1, <2>1 DEF Unnoticed
  <2>4. \A k \in observed : p \in Deps[k] => Unnoticed(p)
    <3> SUFFICES ASSUME NEW k \in observed, p \in Deps[k] PROVE Unnoticed(p)
      OBVIOUS
    <3>1. k \in keys /\ made = keys
      BY DEF TypeOK, MadeInv
    <3>2. p \in keys
      BY <1>1, <3>1 DEF ClosedInv
    <3>3. QED
      BY <1>4, <3>1, <3>2 DEF MadeInv, Unnoticed
  <2>5. Fresh'
    <3> SUFFICES ASSUME NEW k \in observed
                 PROVE  \/ okay[k] = Verdict(Valid(k, values', rules'))
                        \/ Unnoticed(k) \/ \E d \in Deps[k] : Unnoticed(d)
      <4>1. \A k \in observed : Deps[k] \subseteq Props /\ k \in Props
        BY ValidationAssumption DEF TypeOK
      <4>2. QED
        BY <2>1, <2>3, <4>1 DEF Fresh, Valid
    <3>1. CASE p \in Deps[k]
      BY <2>4, <3>1
    <3>2. CASE p \notin Deps[k]
      BY <1>2, <1>4, <3>2 DEF Fresh
    <3>3. QED
      BY <3>1, <3>2
  <2>6. QED
    BY <2>2, <2>5
<1>5. QED
  BY <1>3, <1>4

\* Setting two properties together keeps the invariant: one observer waits.
LEMMA SetPropertiesIInv ==
    ASSUME IInv, NEW p \in Props, NEW q \in Props, NEW x \in Values, NEW y \in Values,
           SetProperties(p, x, q, y)
    PROVE  IInv'
<1> USE DEF IInv
<1>1. /\ p \in observed /\ q \in observed /\ p \notin Outside /\ q \notin Outside
      /\ values' \in Assignments /\ pending' = {q}
      /\ UNCHANGED <<env, keys, rules, todo, reading>>
  BY DEF SetProperties, TypeOK, Assignments
<1>2. made = keys /\ p \in keys /\ q \in keys
  BY <1>1 DEF MadeInv, TypeOK
<1>3. /\ made' = keys /\ observed' = observed
      /\ okay' = Revalidated(okay, ({p} \cup CoupledSet(p)) \cap keys, values', rules)
      /\ isValid' = Verdict(AllValid(okay', keys))
  <2>1. ValidateProperty(p, values', rules, keys, keys, observed)
    BY <1>2 DEF SetProperties
  <2>2. QED
    BY <2>1, ValidateEffect
<1>4. TypeOK'
  BY <1>1, <1>2, <1>3, RevalidatedType DEF TypeOK
<1>5. IsValidAgrees' /\ MadeInv' /\ ClosedInv'
  BY <1>1, <1>2, <1>3 DEF IsValidAgrees, AllValid, MadeInv, ClosedInv
<1>6. \A d \in Props : Unnoticed(d) => Unnoticed(d)'
  BY <1>1, <1>3 DEF Unnoticed, SetProperties
<1>7. Unnoticed(q)'
  BY <1>1 DEF Unnoticed
<1>8. ASSUME NEW k \in observed \ ({p} \cup CoupledSet(p))
      PROVE  \/ Valid(k, values', rules') = Valid(k, values, rules)
             \/ Unnoticed(k)' \/ \E d \in Deps[k] : Unnoticed(d)'
  <2>1. k \in Props /\ values \in Assignments /\ rules \in [Props -> Rules]
    BY DEF TypeOK
  <2>2. Deps[k] \subseteq Props /\ p \notin Deps[k]
    BY <1>1, <2>1, ValidationAssumption, CouplingAssumption
  <2>3. CASE q = k \/ q \in Deps[k]
    BY <1>7, <2>3
  <2>4. CASE q # k /\ q \notin Deps[k]
    <3>1. \A d \in Deps[k] \cup {k} : values'[d] = values[d]
      BY <2>1, <2>2, <2>4 DEF SetProperties, Assignments
    <3>2. QED
      BY <1>1, <2>1, <3>1, SameVerdict
  <2>5. QED
    BY <2>3, <2>4
<1>9. Fresh'
  BY <1>1, <1>2, <1>3, <1>6, <1>8, FreshKept DEF TypeOK
<1>10. QED
  BY <1>4, <1>5, <1>9

\* Running an observer keeps the invariant.
LEMMA ObserverIInv ==
    ASSUME IInv, NEW q \in Props, ObserverRuns(q)
    PROVE  IInv'
<1> USE DEF IInv
<1>1. /\ q \in pending /\ q \notin Outside /\ pending' = pending \ {q}
      /\ UNCHANGED <<env, values, keys, rules, todo, reading>>
  BY DEF ObserverRuns, TypeOK
<1>2. made = keys /\ q \in keys
  BY <1>1 DEF MadeInv, TypeOK
<1>3. /\ made' = keys /\ observed' = observed
      /\ okay' = Revalidated(okay, ({q} \cup CoupledSet(q)) \cap keys, values, rules)
      /\ isValid' = Verdict(AllValid(okay', keys))
  BY <1>2, ValidateEffect DEF ObserverRuns
<1>4. TypeOK'
  BY <1>1, <1>2, <1>3, RevalidatedType DEF TypeOK
<1>5. IsValidAgrees' /\ MadeInv' /\ ClosedInv'
  BY <1>1, <1>2, <1>3 DEF IsValidAgrees, AllValid, MadeInv, ClosedInv
<1>6. \A d \in Props \ {q} : Unnoticed(d) => Unnoticed(d)'
  BY <1>1, <1>3 DEF Unnoticed
<1>7. \A k \in observed : Valid(k, values', rules') = Valid(k, values, rules)
  BY <1>1 DEF Valid
<1>8. Fresh'
  BY <1>1, <1>2, <1>3, <1>6, <1>7, FreshKept DEF TypeOK
<1>9. QED
  BY <1>4, <1>5, <1>8

\* A round of the loop keeps the invariant, the first one included.
LEMMA RoundIInv ==
    ASSUME IInv, NEW q \in keys, NEW rest \in SUBSET keys, Round(q, rest), reading' \in BOOLEAN,
           \/ made # keys /\ rest = keys \ {q}
           \/ made = keys /\ rest = todo \ {q}
    PROVE  IInv'
<1> USE DEF IInv
<1>1. /\ q \in Props /\ q \notin Outside
      /\ todo' = rest /\ UNCHANGED <<env, values, keys, rules, pending>>
  BY DEF Round, TypeOK
<1>2. /\ made' = keys /\ observed' = observed \cup {q}
      /\ okay' = Revalidated(okay, ({q} \cup CoupledSet(q)) \cap keys, values, rules)
      /\ isValid' = Verdict(AllValid(okay', keys))
  BY <1>1, ValidateEffect DEF Round
<1>3. TypeOK'
  BY <1>1, <1>2, RevalidatedType DEF TypeOK
<1>4. IsValidAgrees' /\ MadeInv' /\ ClosedInv'
  BY <1>1, <1>2 DEF IsValidAgrees, AllValid, MadeInv, ClosedInv, TypeOK
<1>5. \A d \in Props \ {q} : Unnoticed(d) => Unnoticed(d)'
  BY <1>1, <1>2 DEF Unnoticed, MadeInv
<1>6. \A k \in observed : Valid(k, values', rules') = Valid(k, values, rules)
  BY <1>1 DEF Valid
<1>7. Fresh'
  BY <1>1, <1>2, <1>5, <1>6, FreshKept DEF TypeOK
<1>8. QED
  BY <1>3, <1>4, <1>7

\* A new validation keeps the invariant.
LEMMA SetValidationIInv ==
    ASSUME IInv, env = {}, NEW p \in Props, NEW r \in Rules, SetValidationFor(p, r)
    PROVE  IInv'
<1> USE DEF IInv
<1>1. /\ p \notin Outside /\ made = keys /\ Deps[p] \subseteq keys \cup Outside
      /\ keys' = keys \cup {p} /\ rules' = [rules EXCEPT ![p] = r]
      /\ rules' \in [Props -> Rules]
      /\ UNCHANGED <<env, values, todo, reading, pending>>
  BY DEF SetValidationFor, TypeOK
<1>2. /\ made' = keys' /\ observed' = observed \cup {p}
      /\ okay' = Revalidated(okay, ({p} \cup CoupledSet(p)) \cap keys', values, rules')
      /\ isValid' = Verdict(AllValid(okay', keys'))
  <2>1. ValidateProperty(p, values, rules', keys', keys', observed \cup {p})
    BY <1>1 DEF SetValidationFor
  <2>2. QED
    BY <2>1, ValidateEffect
<1>3. TypeOK'
  BY <1>1, <1>2, RevalidatedType DEF TypeOK
<1>4. IsValidAgrees' /\ MadeInv' /\ ClosedInv'
  BY <1>1, <1>2 DEF IsValidAgrees, AllValid, MadeInv, ClosedInv
<1>5. \A d \in Props \ {p} : Unnoticed(d) => Unnoticed(d)'
  BY <1>1, <1>2 DEF Unnoticed
<1>6. \A k \in observed \ {p} : Valid(k, values', rules') = Valid(k, values, rules)
  BY <1>1 DEF Valid, TypeOK
<1>7. Fresh'
  BY <1>1, <1>2, <1>3, <1>5, <1>6, FreshKept DEF TypeOK
<1>8. QED
  BY <1>3, <1>4, <1>7

\* Every step keeps the invariant.
LEMMA NextIInv ==
    ASSUME env = {}
    PROVE  IInv /\ [Next]_vars => IInv'
<1> SUFFICES ASSUME IInv, [Next]_vars PROVE IInv'
  OBVIOUS
<1>1. ASSUME NEW p \in Props, NEW x \in Values, SetProperty(p, x) PROVE IInv'
  BY <1>1, SetPropertyIInv
<1>2. ASSUME NEW p \in Props, NEW q \in Props, NEW x \in Values, NEW y \in Values,
             SetProperties(p, x, q, y)
      PROVE  IInv'
  BY <1>2, SetPropertiesIInv
<1>3. ASSUME NEW q \in Props, ObserverRuns(q) PROVE IInv'
  BY <1>3, ObserverIInv
<1>4. CASE GetUnknown
  <2>1. PICK k \in keys : Round(k, keys \ {k})
    BY <1>4 DEF GetUnknown
  <2>2. made # keys /\ reading' \in BOOLEAN
    BY <1>4 DEF GetUnknown, IInv, TypeOK
  <2>3. QED
    BY <2>1, <2>2, RoundIInv
<1>5. CASE Loop
  <2>1. PICK k \in todo : Round(k, todo \ {k})
    BY <1>5 DEF Loop
  <2>2. made = keys /\ reading' \in BOOLEAN /\ todo \subseteq keys
    BY <1>5, <2>1 DEF Loop, IInv, TypeOK, MadeInv
  <2>3. QED
    BY <2>1, <2>2, RoundIInv
<1>6. CASE GetIsValid
  <2>1. CASE keys = {}
    <3>1. isValid' = "yes" /\ UNCHANGED <<env, values, keys, rules, made, observed, okay, todo, reading, pending>>
      BY <1>6, <2>1 DEF GetIsValid
    <3>2. TypeOK' /\ IsValidAgrees' /\ MadeInv' /\ ClosedInv' /\ Fresh'
      BY <2>1, <3>1 DEF IInv, TypeOK, IsValidAgrees, AllValid, MadeInv, ClosedInv, Fresh
    <3>3. QED
      BY <3>2 DEF IInv
  <2>2. CASE keys # {}
    <3>1. (\E k \in keys : Round(k, keys \ {k})) /\ reading' = TRUE /\ isValid = "null"
      BY <1>6, <2>2 DEF GetIsValid
    <3>2. PICK k \in keys : Round(k, keys \ {k})
      BY <3>1
    <3>3. made # keys
      BY <2>2, <3>1 DEF IInv, MadeInv
    <3>4. QED
      BY <3>1, <3>2, <3>3, RoundIInv
  <2>3. QED
    BY <2>1, <2>2
<1>7. CASE EndOfGetIsValid
  <2>1. /\ isValid' = Verdict(AllValid(okay, keys)) /\ reading' = FALSE
        /\ UNCHANGED <<env, values, keys, rules, made, observed, okay, todo, pending>>
    BY <1>7 DEF EndOfGetIsValid
  <2>2. made = keys
    BY <1>7 DEF EndOfGetIsValid, IInv, MadeInv
  <2>3. TypeOK' /\ IsValidAgrees' /\ MadeInv' /\ ClosedInv'
    BY <2>1, <2>2 DEF IInv, TypeOK, IsValidAgrees, AllValid, MadeInv, ClosedInv
  <2>4. Fresh'
    BY <2>1 DEF IInv, Fresh, Unnoticed, Valid
  <2>5. QED
    BY <2>3, <2>4 DEF IInv
<1>8. ASSUME NEW p \in Props, NEW r \in Rules, SetValidationFor(p, r) PROVE IInv'
  BY <1>8, SetValidationIInv
<1>9. CASE UNCHANGED vars
  <2>1. TypeOK' /\ IsValidAgrees' /\ MadeInv' /\ ClosedInv'
    BY <1>9 DEF vars, IInv, TypeOK, IsValidAgrees, AllValid, MadeInv, ClosedInv
  <2>2. Fresh'
    BY <1>9 DEF vars, IInv, Fresh, Unnoticed, Valid
  <2>3. QED
    BY <2>1, <2>2 DEF IInv
<1>10. QED
  BY <1>1, <1>2, <1>3, <1>4, <1>5, <1>6, <1>7, <1>8, <1>9
     DEF Next, SetPropertyIsValid, SetIsValid

\* The invariant says what was to be shown.
LEMMA IInvCorrect == IInv => IsValidCorrect
<1> SUFFICES ASSUME IInv, todo = {}, pending = {}, isValid # "null"
             PROVE  isValid = Verdict(\A k \in keys : Valid(k, values, rules))
  BY DEF IsValidCorrect
<1>1. keys \subseteq observed
  BY DEF IInv, MadeInv
<1>2. \A q : ~Unnoticed(q)
  BY DEF Unnoticed
<1>3. \A k \in keys : okay[k] = Verdict(Valid(k, values, rules))
  BY <1>1, <1>2 DEF IInv, Fresh
<1>4. AllValid(okay, keys) = (\A k \in keys : Valid(k, values, rules))
  BY <1>3 DEF AllValid
<1>5. QED
  BY <1>4 DEF IInv, IsValidAgrees

\* The options never change, so PlainInv is inductive.
LEMMA NextPlainInv == PlainInv /\ [Next]_vars => PlainInv'
<1> SUFFICES ASSUME PlainInv, [Next]_vars, env' = {}
             PROVE  IInv'
  BY DEF PlainInv
<1>1. env' = env
  BY DEF Next, vars, SetProperty, SetProperties, ObserverRuns, GetUnknown, Loop,
         GetIsValid, EndOfGetIsValid, SetValidationFor, Round, SetPropertyIsValid, SetIsValid
<1>2. QED
  BY <1>1, NextIInv DEF PlainInv

\* When no loop and no notification is under way, isValid is yes exactly if
\* every validation accepts the current values, provided that setValidationFor
\* is not used before the first read, validators read only properties, and the
\* application sets neither isValid nor an IsValid property itself.
THEOREM KeptCorrect == Spec => []IsValidCorrect
<1>1. Init => PlainInv
  BY InitIInv DEF PlainInv
<1>2. PlainInv => IsValidCorrect
  BY IInvCorrect DEF PlainInv, IsValidCorrect
<1>3. QED
  BY <1>1, <1>2, NextPlainInv, PTL DEF Spec

\* Under the same proviso, what is kept for a property is right at every moment
\* unless an observer is still to run.
THEOREM FreshCorrect == Spec => []ValidityIsFresh
<1>1. Init => PlainInv
  BY InitIInv DEF PlainInv
<1>2. PlainInv => ValidityIsFresh
  BY DEF PlainInv, IInv, ValidityIsFresh
<1>3. QED
  BY <1>1, <1>2, NextPlainInv, PTL DEF Spec
=============================================================================
