---------------------------- MODULE Validations ----------------------------
(***************************************************************************)
(* Validatable (validations.js): an object that keeps, for each property   *)
(* with a validation, whether its value is valid (fooIsValid), and whether *)
(* all of them are (isValid).                                              *)
(*                                                                         *)
(* Both are kept, not computed on demand, so they are right only if every  *)
(* change is noticed.  The properties fooIsValid and the observers that    *)
(* renew them are made when one of them is first read, by a loop over the  *)
(* validations.  Every round of the loop notifies observers of isValid,    *)
(* and so does the flush of the changes that setProperties has collected:  *)
(* these observers are the application's, and may change or read the       *)
(* object in the middle.  Hence a round of the loop is one step here, and  *)
(* everything else may happen between two.                                 *)
(*                                                                         *)
(* A validator is what it accepts.  It may read other properties of the    *)
(* object than its own; those have to be coupled to it.  It may also read  *)
(* what is not a property, as the validator of associations does: Outside. *)
(***************************************************************************)
EXTENDS Integers, Sequences, FiniteSets

CONSTANTS
    Props, Values, Rules,
    Outside,      \* what is not a property of the object, but is read
    Classes,      \* the classes: each is the properties it has validations for
    Rank,         \* the order of the validations in the hash
    Deps,         \* the others that the validator of each property reads
    Coupled,      \* coupledProperties of each property
    Accepts,      \* the values that a rule accepts for a property
    FirstRule,    \* the rule of every validation at first
    Environments  \* what may happen besides the usual, as sets of options:
                  \* "early" (setValidationFor before any fooIsValid is read),
                  \* "association" (Outside changes),
                  \* "direct" (the application sets fooIsValid or isValid itself)

Assignments == [Props -> Values]

CoupledSet(p) == {Coupled[p][j] : j \in DOMAIN Coupled[p]}

ASSUME ValidationAssumption ==
    /\ Outside \subseteq Props /\ Classes \subseteq SUBSET (Props \ Outside)
    /\ Rank \in [Props -> Int]
    /\ \A p, q \in Props : Rank[p] = Rank[q] => p = q
    /\ Deps \in [Props -> SUBSET Props]
    /\ Coupled \in [Props -> Seq(Props)]
    /\ Accepts \in [Props \X Rules -> SUBSET Assignments]
    /\ FirstRule \in Rules
    /\ Environments \subseteq SUBSET {"early", "association", "direct"}

\* What the application has to see to: a validator reads nothing but its own
\* property and its dependencies, these have validations themselves, and are
\* coupled to it.
ASSUME CouplingAssumption ==
    /\ \A p \in Props, r \in Rules, v, w \in Assignments :
          (\A q \in Deps[p] \cup {p} : v[q] = w[q])
              => (v \in Accepts[<<p, r>>]) = (w \in Accepts[<<p, r>>])
    /\ \A p \in Props, q \in Props \ Outside : q \in Deps[p] => p \in CoupledSet(q)
    /\ \A C \in Classes : \A p \in C : Deps[p] \subseteq C \cup Outside
    /\ \A p \in Props : p \notin CoupledSet(p)

VARIABLES
    env,       \* the options of this behaviour
    values,    \* the properties
    keys,      \* those with a validation
    rules,     \* the validations
    made,      \* the properties p for which pIsValid is defined
    observed,  \* those that validateProperty observes
    okay,      \* _propertyValidity: "yes", "no" or "unset"
    isValid,   \* _objectIsValid: "yes", "no" or "null"
    todo,      \* the rest of the loop of _createIsValidProperties
    reading,   \* that loop is called by isValid
    pending    \* changed properties whose observer is yet to run

vars == <<env, values, keys, rules, made, observed, okay, isValid, todo, reading, pending>>

Verdict(b) == IF b THEN "yes" ELSE "no"

------------------------------------------------------------------------------
(* Validation. *)

\* validateProperty's verdict on a property: its validators, on its value.
Valid(k, vs, rs) == vs \in Accepts[<<k, rs[k]>>]

AllValid(ok, K) == \A k \in K : ok[k] = "yes"

\* _checkValidity stops at the first property that is not valid; does it get
\* to one whose IsValid property is not defined yet?
ReachesUnmade(mk, ok, K) ==
    \E k \in K \ mk : \A j \in K : Rank[j] < Rank[k] => j \in mk /\ ok[j] = "yes"

Revalidated(ok, S, vs, rs) ==
    [k \in Props |-> IF k \in S THEN Verdict(Valid(k, vs, rs)) ELSE ok[k]]

\* The property and the first i coupled to it.
UpTo(q, i, K) == ({q} \cup {Coupled[q][j] : j \in 1 .. i}) \cap K

\* The validity of the object is checked after each coupled property; this,
\* or setting an IsValid property that is not defined, makes all of them.
MakesAll(q, mk, ok, vs, rs, K) ==
    \/ CoupledSet(q) \cap (K \ mk) # {}
    \/ \E i \in 0 .. Len(Coupled[q]) :
          /\ i = 0 => Coupled[q] = <<>>
          /\ ReachesUnmade(mk, Revalidated(ok, UpTo(q, i, K), vs, rs), K)

\* Mutant of ValidateProperty: coupled properties are not validated.
ValidateOnlyProperty(q, vs, rs, K, mk, ob) ==
    /\ made' = mk /\ observed' = ob
    /\ okay' = Revalidated(okay, {q}, vs, rs)
    /\ isValid' = Verdict(AllValid(okay', K))

\* validateProperty(q), given what the caller changes.  Within it, nobody is
\* notified, so that making all the properties is part of the step.
ValidateProperty(q, vs, rs, K, mk, ob) ==
    LET all == MakesAll(q, mk, okay, vs, rs, K)
    IN  /\ made' = IF all THEN K ELSE mk
        /\ observed' = IF all THEN K ELSE ob
        /\ okay' = Revalidated(okay, IF all THEN K ELSE UpTo(q, Len(Coupled[q]), K), vs, rs)
        /\ isValid' = Verdict(AllValid(okay', K))

------------------------------------------------------------------------------
(* The steps. *)

Init ==
    /\ env \in Environments
    /\ values \in Assignments
    /\ keys \in Classes
    /\ rules = [p \in Props |-> FirstRule]
    /\ made = {} /\ observed = {}
    /\ okay = [p \in Props |-> "unset"]
    /\ isValid = "null"
    /\ todo = {} /\ reading = FALSE /\ pending = {}

\* A property is set, and its observer runs.
SetProperty(p, x) ==
    /\ p \in Outside => "association" \in env
    /\ values[p] # x
    /\ values' = [values EXCEPT ![p] = x]
    /\ \/ /\ p \in observed
          /\ ValidateProperty(p, values', rules, keys, made, observed)
       \/ /\ p \notin observed
          /\ UNCHANGED <<made, observed, okay, isValid>>
    /\ UNCHANGED <<env, keys, rules, todo, reading, pending>>

\* Two properties are set with setProperties: their observers run when both
\* are, first that of p, then (ObserverRuns) that of q.  If one of them is not
\* observed, this is the same as setting that one first.
SetProperties(p, x, q, y) ==
    /\ pending = {} /\ p # q /\ {p, q} \cap Outside = {}
    /\ values[p] # x /\ values[q] # y
    /\ values' = [values EXCEPT ![p] = x, ![q] = y]
    /\ {p, q} \subseteq observed
    /\ ValidateProperty(p, values', rules, keys, made, observed)
    /\ pending' = {q}
    /\ UNCHANGED <<env, keys, rules, todo, reading>>

ObserverRuns(q) ==
    /\ q \in pending
    /\ ValidateProperty(q, values, rules, keys, made, observed)
    /\ pending' = pending \ {q}
    /\ UNCHANGED <<env, values, keys, rules, todo, reading>>

\* Mutant of Round: the observer is not added.
RoundWithoutObserver(k, rest) ==
    /\ ValidateProperty(k, values, rules, keys, keys, observed)
    /\ todo' = rest
    /\ UNCHANGED <<env, values, keys, rules, pending>>

\* A round of the loop of _createIsValidProperties.
Round(k, rest) ==
    /\ ValidateProperty(k, values, rules, keys, keys, observed \cup {k})
    /\ todo' = rest
    /\ UNCHANGED <<env, values, keys, rules, pending>>

First(S, k) == k \in S /\ \A j \in S : Rank[k] <= Rank[j]

\* unknownProperty: an IsValid property that is not defined is read.  All are
\* defined, and the loop begins.
GetUnknown ==
    /\ keys \ made # {}
    /\ \E k \in keys : First(keys, k) /\ Round(k, keys \ {k})
    /\ UNCHANGED reading

Loop ==
    /\ \E k \in todo : First(todo, k) /\ Round(k, todo \ {k})
    /\ UNCHANGED reading

\* isValid is read for the first time.
GetIsValid ==
    /\ isValid = "null"
    /\ \/ /\ keys = {}
          /\ isValid' = "yes"
          /\ UNCHANGED <<env, values, keys, rules, made, observed, okay, todo, reading, pending>>
       \/ /\ \E k \in keys : First(keys, k) /\ Round(k, keys \ {k})
          /\ reading' = TRUE

\* What isValid does once the loop is over.
EndOfGetIsValid ==
    /\ reading /\ todo = {}
    /\ isValid' = Verdict(AllValid(okay, keys))
    /\ reading' = FALSE
    /\ UNCHANGED <<env, values, keys, rules, made, observed, okay, todo, pending>>

\* setValidationFor: a new validation comes last in the hash.
SetValidationFor(p, r) ==
    /\ p \notin Outside
    /\ "early" \in env \/ (keys \subseteq made /\ Deps[p] \subseteq keys \cup Outside)
    /\ p \in keys \/ \A k \in keys : Rank[k] < Rank[p]
    /\ keys' = keys \cup {p}
    /\ rules' = [rules EXCEPT ![p] = r]
    /\ ValidateProperty(p, values, rules', keys', made \cup {p}, observed \cup {p})
    /\ UNCHANGED <<env, values, todo, reading, pending>>

\* The application sets fooIsValid: isValid is not renewed.  (If fooIsValid is
\* not defined, setUnknownProperty first does what GetUnknown does.)
SetPropertyIsValid(k, verdict) ==
    /\ "direct" \in env
    /\ k \in made
    /\ okay' = [okay EXCEPT ![k] = verdict]
    /\ UNCHANGED <<env, values, keys, rules, made, observed, isValid, todo, reading, pending>>

\* The application sets isValid.
SetIsValid(verdict) ==
    /\ "direct" \in env
    /\ isValid' = verdict
    /\ UNCHANGED <<env, values, keys, rules, made, observed, okay, todo, reading, pending>>

Next ==
    \/ \E p \in Props, x \in Values : SetProperty(p, x)
    \/ \E p, q \in Props, x, y \in Values : SetProperties(p, x, q, y)
    \/ \E q \in Props : ObserverRuns(q)
    \/ GetUnknown \/ Loop \/ GetIsValid \/ EndOfGetIsValid
    \/ \E p \in Props, r \in Rules : SetValidationFor(p, r)
    \/ \E k \in Props, b \in BOOLEAN : SetPropertyIsValid(k, Verdict(b))
    \/ \E b \in BOOLEAN : SetIsValid(Verdict(b))

Spec == Init /\ [][Next]_vars

------------------------------------------------------------------------------
(* Properties. *)

\* Every variable has its type.
TypeOK ==
    /\ env \in Environments
    /\ values \in Assignments
    /\ keys \subseteq Props \ Outside /\ rules \in [Props -> Rules]
    /\ made \subseteq keys /\ observed \subseteq made
    /\ okay \in [Props -> {"yes", "no", "unset"}]
    /\ isValid \in {"yes", "no", "null"}
    /\ todo \subseteq keys /\ reading \in BOOLEAN /\ pending \subseteq keys

\* The observer of a property is still to run, or to be added by the loop.
Unnoticed(q) == q \in pending \/ q \in todo \ observed

Fresh ==
    \A k \in observed :
        \/ okay[k] = Verdict(Valid(k, values, rules))
        \/ Unnoticed(k)
        \/ \E q \in Deps[k] : Unnoticed(q)

\* An IsValid property is right for the current values, unless an observer is
\* still to run for it or for a property that is coupled to it.  A validation
\* set before the first read keeps the others from being observed, nothing
\* observes what is not a property, and what the application sets itself stays
\* until the next validation.
ValidityIsFresh == env = {} => TypeOK /\ Fresh

\* When nothing is under way, isValid says whether all properties are valid,
\* with the same exceptions.
IsValidCorrect ==
    (env = {} /\ todo = {} /\ pending = {} /\ isValid # "null")
        => isValid = Verdict(\A k \in keys : Valid(k, values, rules))
=============================================================================
