---------------------------- MODULE LabelRegistry ----------------------------
(***************************************************************************)
(* labels.rs: a registry of labelers, built once and then applied to the   *)
(* resource of every request. A labeler owns one attribute of one resource *)
(* type; applying the registry clears every attribute owned on the         *)
(* resource's type and lets the labelers derive them anew, in the order    *)
(* they were registered.                                                   *)
(*                                                                         *)
(* `twin` is the resource of a second request, labelled in lockstep with   *)
(* the first. The two share nothing but the registry; what one request     *)
(* can learn of another caller's attributes is how the two differ.         *)
(***************************************************************************)
EXTENDS Naturals, Sequences, FiniteSets, SequencesExt

CONSTANTS
    Types, Ids,      \* Cedar types and ids of resources
    Attributes,      \* attribute names
    Strings,         \* string values
    Labels,          \* what a regex rule can yield
    Absent,          \* the value of a missing attribute
    Labelers,
    Target(_),       \* the (type, attribute) a labeler declares
    Derive(_, _),    \* Labeler::derive(labeler, resource)
    Resources,       \* resources of requests
    NoResource,
    MaxLabelers      \* bound on add_labeler calls

Values   == Strings \cup SUBSET Labels
Resource == [ type : Types, id : Ids, attrs : [Attributes -> Values \cup {Absent}] ]

ASSUME LabelConstants ==
    /\ Resources \subseteq Resource
    /\ NoResource \notin Resource
    /\ MaxLabelers \in Nat
    /\ \A l \in Labelers : Target(l) \in [type : Types, attribute : Attributes]

\* Labeler::derive returns an attribute value or none.
ASSUME DeriveType ==
    \A l \in Labelers, r \in Resource : Derive(l, r) \in Values \cup {Absent}

VARIABLES
    phase,      \* "open", "building", "built", "refused", "clearing", "deriving", "done"
    version,    \* the configured version: "none", "empty" or "named"
    added,      \* the builder's labelers
    next,       \* the labeler the loop has come to
    scopes,     \* scopes[t]: the registered labelers of type t, in order
    given,      \* the resource of the request
    labelled,   \* the copy being labelled
    twin,       \* the copy of another request, labelled in lockstep
    first       \* the result of the first of two applications

builder == <<version, added>>
copies  == <<given, labelled, twin, first>>
vars    == <<phase, version, added, next, scopes, given, labelled, twin, first>>

----------------------------------------------------------------------------
(***************************************************************************)
(* Deriving.                                                               *)
(***************************************************************************)

\* RegexLabeler::derive: the labels whose pattern matches the string in the
\* field, or nothing if it holds no string. table[label] is what it matches.
RegexDerive(field, table, r) ==
    IF r.attrs[field] \in Strings
    THEN { label \in DOMAIN table : r.attrs[field] \in table[label] }
    ELSE Absent

Without(r, attribute) == [r EXCEPT !.attrs[attribute] = Absent]

\* RegisteredLabeler::apply: the labeler never sees its own output.
Relabel(l, r) ==
    [r EXCEPT !.attrs[Target(l).attribute] = Derive(l, Without(r, Target(l).attribute))]

----------------------------------------------------------------------------
(***************************************************************************)
(* LabelRegistryBuilder.                                                   *)
(***************************************************************************)

Init ==
    /\ phase = "open"
    /\ version \in {"none", "empty", "named"}
    /\ added = <<>>
    /\ next = 1
    /\ scopes = [t \in Types |-> <<>>]
    /\ given = NoResource /\ labelled = NoResource /\ twin = NoResource
    /\ first = NoResource

AddLabeler(l) ==
    /\ phase = "open" /\ Len(added) < MaxLabelers
    /\ added' = Append(added, l)
    /\ UNCHANGED <<phase, version, next, scopes, copies>>

Build ==
    /\ phase = "open"
    /\ phase' = IF version = "empty" THEN "refused" ELSE "building"
    /\ UNCHANGED <<builder, next, scopes, copies>>

\* Mutant: only the labeler added last is compared with.
TargetJustTaken == next > 1 /\ Target(added[next - 1]) = Target(added[next])

\* The target of the labeler the loop has come to is taken.
TargetTaken == \E i \in 1..(next - 1) : Target(added[i]) = Target(added[next])

RegisterLabeler ==
    /\ phase = "building" /\ next \in DOMAIN added
    /\ ~TargetTaken
    /\ LET type == Target(added[next]).type
       IN  scopes' = [scopes EXCEPT ![type] = Append(@, added[next])]
    /\ next' = next + 1
    /\ UNCHANGED <<phase, builder, copies>>

RefuseDuplicate ==
    /\ phase = "building" /\ next \in DOMAIN added
    /\ TargetTaken
    /\ phase' = "refused"
    /\ UNCHANGED <<builder, next, scopes, copies>>

FinishBuild ==
    /\ phase = "building" /\ next \notin DOMAIN added
    /\ phase' = "built"
    /\ UNCHANGED <<builder, next, scopes, copies>>

----------------------------------------------------------------------------
(***************************************************************************)
(* LabelRegistry::apply.                                                   *)
(***************************************************************************)

OwnedAttributes(t) == { Target(l).attribute : l \in Range(scopes[t]) }

\* Two resources a registry may not tell apart: they differ at most in
\* attributes it owns.
SameInput(r, s) ==
    /\ r.type = s.type /\ r.id = s.id
    /\ \A a \in Attributes \ OwnedAttributes(r.type) : r.attrs[a] = s.attrs[a]

\* A request (and another one) arrives; a type nobody owns anything on is
\* left alone.
Apply(r, s) ==
    /\ phase = "built"
    /\ SameInput(r, s)
    /\ given' = r /\ labelled' = r /\ twin' = s
    /\ next' = 1
    /\ phase' = IF scopes[r.type] = <<>> THEN "done" ELSE "clearing"
    /\ UNCHANGED <<builder, scopes, first>>

\* Mutant: every labeler runs on every resource.
EveryLabeler == added

Scope == scopes[given.type]

\* Step through the scope, then go on to the next phase.
Advance(then) ==
    IF next < Len(Scope) THEN next' = next + 1 /\ UNCHANGED phase
    ELSE next' = 1 /\ phase' = then

\* Mutant: nothing is cleared beforehand.
ClearNothing ==
    /\ phase = "clearing"
    /\ Advance("deriving")
    /\ UNCHANGED <<builder, scopes, copies>>

\* Mutant: only the attribute of the first labeler is cleared.
ClearFirst ==
    /\ phase = "clearing"
    /\ labelled' = Without(labelled, Target(Scope[1]).attribute)
    /\ twin' = Without(twin, Target(Scope[1]).attribute)
    /\ next' = 1 /\ phase' = "deriving"
    /\ UNCHANGED <<builder, scopes, given, first>>

ClearOwned ==
    /\ phase = "clearing"
    /\ labelled' = Without(labelled, Target(Scope[next]).attribute)
    /\ twin' = Without(twin, Target(Scope[next]).attribute)
    /\ Advance("deriving")
    /\ UNCHANGED <<builder, scopes, given, first>>

DeriveOwned ==
    /\ phase = "deriving"
    /\ labelled' = Relabel(Scope[next], labelled)
    /\ twin' = Relabel(Scope[next], twin)
    /\ Advance("done")
    /\ UNCHANGED <<builder, scopes, given, first>>

\* The labelled resource is labelled once more.
Reapply ==
    /\ phase = "done" /\ first = NoResource /\ Scope # <<>>
    /\ first' = labelled
    /\ phase' = "clearing" /\ next' = 1
    /\ UNCHANGED <<builder, scopes, given, labelled, twin>>

Next ==
    \/ \E l \in Labelers : AddLabeler(l)
    \/ Build
    \/ RegisterLabeler
    \/ RefuseDuplicate
    \/ FinishBuild
    \/ \E r, s \in Resources : Apply(r, s)
    \/ ClearOwned
    \/ DeriveOwned
    \/ Reapply

Spec == Init /\ [][Next]_vars

----------------------------------------------------------------------------
(***************************************************************************)
(* Properties.                                                             *)
(***************************************************************************)

Phases == {"open", "building", "built", "refused", "clearing", "deriving", "done"}

TypeOK ==
    /\ phase \in Phases
    /\ version \in {"none", "empty", "named"}
    /\ added \in Seq(Labelers)
    /\ next \in 1..(Len(added) + 1)
    /\ scopes \in [Types -> Seq(Labelers)]
    /\ {given, labelled, twin, first} \subseteq Resource \cup {NoResource}
    /\ phase \in {"clearing", "deriving"} => given # NoResource /\ next \in DOMAIN Scope

(***************************************************************************)
(* Every target has one owner: build() refuses exactly the configurations  *)
(* with an empty version or two labelers of one target, and an accepted    *)
(* registry has every labeler in the scope of its type once, in the order  *)
(* of add_labeler: place[k] is where the k-th of a scope was added.        *)
(***************************************************************************)
InOrder(place) == \A i, j \in DOMAIN place : i < j => place[i] < place[j]

OneOwner ==
    LET clash == \E i, j \in DOMAIN added : i # j /\ Target(added[i]) = Target(added[j])
    IN  /\ phase = "refused" => version = "empty" \/ clash
        /\ phase \notin {"open", "building", "refused"} =>
              /\ version # "empty" /\ ~clash
              /\ \A t \in Types : \E place \in [DOMAIN scopes[t] -> DOMAIN added] :
                    /\ InOrder(place)
                    /\ Range(place) = { k \in DOMAIN added : Target(added[k]).type = t }
                    /\ \A k \in DOMAIN place : scopes[t][k] = added[place[k]]

(***************************************************************************)
(* Owned attributes cannot be forged: the labelled resource does not       *)
(* depend on what the caller put into attributes the registry owns, not    *)
(* even by way of a labeler that reads another labeler's attribute         *)
(* (apply_scope).                                                          *)
(***************************************************************************)
NoForgery == phase = "done" => labelled = twin

(***************************************************************************)
(* Labelling a labelled resource changes nothing (RegexLabeler::new,       *)
(* apply_scope), also when labelers feed one another.                      *)
(***************************************************************************)
Idempotent == phase = "done" /\ first # NoResource => labelled = first

(***************************************************************************)
(* Labelling touches nothing but the attributes owned on the resource's    *)
(* own type: "other types are unchanged", and so are the application's own *)
(* attributes (LabelRegistry::apply), at every step of the way.            *)
(***************************************************************************)
OnlyOwnedChange ==
    labelled # NoResource =>
        /\ labelled.type = given.type /\ labelled.id = given.id
        /\ \A a \in Attributes :
              labelled.attrs[a] = given.attrs[a]
              \/ \E l \in Range(added) :
                    Target(l) = [type |-> given.type, attribute |-> a]
==============================================================================
