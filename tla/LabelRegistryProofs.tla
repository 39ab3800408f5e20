------------------------- MODULE LabelRegistryProofs -------------------------
(***************************************************************************)
(* What holds of every registry: any labelers, any function they derive,   *)
(* any resources.                                                          *)
(***************************************************************************)
EXTENDS LabelRegistry, SequenceTheorems, TLAPS

----------------------------------------------------------------------------
LEMMA RangeOfAppend ==
    ASSUME NEW S, NEW s \in Seq(S), NEW x \in S
    PROVE  Range(Append(s, x)) = Range(s) \cup {x}
<1>1. /\ Append(s, x) \in Seq(S) /\ Len(Append(s, x)) = Len(s) + 1
      /\ \A i \in 1..Len(s) : Append(s, x)[i] = s[i]
      /\ Append(s, x)[Len(s) + 1] = x
  BY AppendProperties
<1>2. Len(s) \in Nat /\ DOMAIN s = 1..Len(s) /\ DOMAIN Append(s, x) = 1..(Len(s) + 1)
  BY <1>1, LenProperties
<1>3. \A i \in 1..(Len(s) + 1) : i \in 1..Len(s) \/ i = Len(s) + 1
  BY <1>2
<1>4. Len(s) + 1 \in 1..(Len(s) + 1) /\ \A i \in 1..Len(s) : i \in 1..(Len(s) + 1)
  BY <1>2
<1>5. Range(s) = { s[i] : i \in 1..Len(s) }
  BY <1>2 DEF Range
<1>6. Range(Append(s, x)) = { Append(s, x)[i] : i \in 1..(Len(s) + 1) }
  BY <1>2 DEF Range
<1> QED BY <1>1, <1>3, <1>4, <1>5, <1>6

----------------------------------------------------------------------------
(***************************************************************************)
(* Resources.                                                              *)
(***************************************************************************)

LEMMA TargetFields ==
    ASSUME NEW l \in Labelers
    PROVE  Target(l).type \in Types /\ Target(l).attribute \in Attributes
BY LabelConstants

LEMMA WithoutFields ==
    ASSUME NEW r \in Resource, NEW a \in Attributes
    PROVE  /\ Without(r, a) \in Resource
           /\ Without(r, a).type = r.type /\ Without(r, a).id = r.id
           /\ Without(r, a).attrs[a] = Absent
           /\ \A b \in Attributes \ {a} : Without(r, a).attrs[b] = r.attrs[b]
BY DEF Without, Resource

LEMMA RelabelFields ==
    ASSUME NEW r \in Resource, NEW l \in Labelers
    PROVE  /\ Relabel(l, r) \in Resource
           /\ Relabel(l, r).type = r.type /\ Relabel(l, r).id = r.id
           /\ \A b \in Attributes \ {Target(l).attribute} :
                 Relabel(l, r).attrs[b] = r.attrs[b]
<1>1. Target(l).attribute \in Attributes
  BY TargetFields
<1>2. Without(r, Target(l).attribute) \in Resource
  BY <1>1, WithoutFields
<1>3. Derive(l, Without(r, Target(l).attribute)) \in Values \cup {Absent}
  BY <1>2, DeriveType
<1> QED BY <1>1, <1>3 DEF Relabel, Resource

LEMMA SameFields ==
    ASSUME NEW r \in Resource, NEW s \in Resource, r.type = s.type, r.id = s.id,
           \A a \in Attributes : r.attrs[a] = s.attrs[a]
    PROVE  r = s
BY DEF Resource

----------------------------------------------------------------------------
(***************************************************************************)
(* The invariant. While a scope is cleared the two copies agree except on  *)
(* attributes still to be cleared; from then on they are the same.         *)
(***************************************************************************)

Scopes ==
    \A t \in Types :
        /\ Len(scopes[t]) <= Len(added)
        /\ phase \in {"open", "building"} => Len(scopes[t]) < next
        /\ \A l \in Range(scopes[t]) : l \in Range(added) /\ Target(l).type = t

Applying == phase \in {"clearing", "deriving", "done"}

Copies ==
    /\ Applying => /\ {given, labelled, twin} \subseteq Resource
                   /\ labelled.type = given.type /\ labelled.id = given.id
                   /\ twin.type = given.type /\ twin.id = given.id
    /\ ~Applying => labelled = NoResource

Cleared ==
    phase = "clearing" =>
        \A a \in Attributes :
            \/ labelled.attrs[a] = twin.attrs[a]
            \/ \E k \in next..Len(Scope) : Target(Scope[k]).attribute = a

Agree == phase \in {"deriving", "done"} => labelled = twin

Inv == TypeOK /\ Scopes /\ Copies /\ Cleared /\ Agree /\ OnlyOwnedChange

LEMMA InitInv ==
    ASSUME Init
    PROVE  Inv
<1>1. \A t \in Types : scopes[t] = <<>> /\ Len(scopes[t]) = 0 /\ Range(scopes[t]) = {}
  BY DEF Init, Range
<1>2. Len(added) = 0 /\ added \in Seq(Labelers) /\ scopes \in [Types -> Seq(Labelers)]
  BY EmptySeq DEF Init
<1>3. TypeOK
  BY <1>2 DEF Init, TypeOK, Phases
<1>4. Scopes
  BY <1>1, <1>2 DEF Init, Scopes
<1> QED BY <1>3, <1>4 DEF Init, Inv, Copies, Applying, Cleared, Agree, OnlyOwnedChange

\* Steps before a resource arrives.
LEMMA BuilderStep ==
    ASSUME Inv, ~Applying, ~Applying', UNCHANGED copies, TypeOK', Scopes'
    PROVE  Inv'
BY DEF Inv, copies, Copies, Applying, Cleared, Agree, OnlyOwnedChange

LEMMA AddLabelerInv ==
    ASSUME Inv, NEW l \in Labelers, AddLabeler(l)
    PROVE  Inv'
<1> USE DEF Inv
<1>1. /\ phase = "open" /\ added' = Append(added, l)
      /\ UNCHANGED <<phase, version, next, scopes, given, labelled, twin, first>>
  BY DEF AddLabeler, copies
<1>2. added' \in Seq(Labelers) /\ Len(added') = Len(added) + 1 /\ Len(added) \in Nat
  BY <1>1, AppendProperties, LenProperties DEF TypeOK
<1>3. Range(added') = Range(added) \cup {l}
  BY <1>1, RangeOfAppend DEF TypeOK
<1>4. \A t \in Types : Len(scopes[t]) \in Nat
  BY LenProperties DEF TypeOK
<1>5. TypeOK'
  BY <1>1, <1>2 DEF TypeOK, Scope
<1>6. Scopes'
  BY <1>1, <1>2, <1>3, <1>4 DEF Scopes
<1> QED BY <1>1, <1>5, <1>6, BuilderStep DEF Applying, copies

LEMMA PhaseInv ==
    ASSUME Inv, Build \/ RefuseDuplicate \/ FinishBuild
    PROVE  Inv'
<1> USE DEF Inv
<1>1. /\ phase \in {"open", "building"} /\ phase' \in {"refused", "building", "built"}
      /\ UNCHANGED <<version, added, next, scopes, given, labelled, twin, first>>
  BY DEF Build, RefuseDuplicate, FinishBuild, builder, copies
<1>2. TypeOK'
  BY <1>1 DEF TypeOK, Phases
<1>3. Scopes'
  BY <1>1 DEF Scopes
<1> QED BY <1>1, <1>2, <1>3, BuilderStep DEF Applying, copies

LEMMA RegisterLabelerInv ==
    ASSUME Inv, RegisterLabeler
    PROVE  Inv'
<1> USE DEF Inv
<1> DEFINE l == added[next]
           type == Target(l).type
<1>1. /\ phase = "building" /\ next \in DOMAIN added /\ next' = next + 1
      /\ scopes' = [scopes EXCEPT ![type] = Append(@, l)]
      /\ UNCHANGED <<phase, version, added, given, labelled, twin, first>>
  BY DEF RegisterLabeler, builder, copies
<1>2. /\ Len(added) \in Nat /\ DOMAIN added = 1..Len(added)
      /\ l \in Labelers /\ l \in Range(added)
  BY <1>1, LenProperties, ElementOfSeq DEF TypeOK, Range
<1>3. type \in Types
  BY <1>2, TargetFields
<1>4. scopes[type] \in Seq(Labelers)
  BY <1>3 DEF TypeOK
<1>5. /\ Append(scopes[type], l) \in Seq(Labelers)
      /\ Len(Append(scopes[type], l)) = Len(scopes[type]) + 1
      /\ Range(Append(scopes[type], l)) = Range(scopes[type]) \cup {l}
  BY <1>2, <1>4, AppendProperties, RangeOfAppend
<1>6. \A t \in Types : scopes'[t] = IF t = type THEN Append(scopes[type], l) ELSE scopes[t]
  BY <1>1, <1>3 DEF TypeOK
<1>7. \A t \in Types : Len(scopes[t]) \in Nat /\ Len(scopes[t]) < next
  BY <1>1, LenProperties DEF TypeOK, Scopes
<1>8. TypeOK'
  <2>1. scopes' \in [Types -> Seq(Labelers)]
    BY <1>1, <1>3, <1>5 DEF TypeOK
  <2> QED BY <1>1, <1>2, <2>1 DEF TypeOK
<1>9. Scopes'
  <2>1. ASSUME NEW t \in Types
        PROVE  /\ Len(scopes'[t]) <= Len(added) /\ Len(scopes'[t]) < next'
               /\ \A m \in Range(scopes'[t]) : m \in Range(added) /\ Target(m).type = t
    <3>1. Len(scopes[t]) \in Nat /\ Len(scopes[t]) < next /\ next \in Nat /\ next <= Len(added)
      BY <1>1, <1>2, <1>7
    <3>2. CASE t = type
      BY <1>1, <1>2, <1>5, <1>6, <3>1, <3>2 DEF Scopes
    <3>3. CASE t # type
      BY <1>1, <1>2, <1>6, <3>1, <3>3 DEF Scopes
    <3> QED BY <3>2, <3>3
  <2> QED BY <1>1, <2>1 DEF Scopes
<1> QED BY <1>1, <1>8, <1>9, BuilderStep DEF Applying, copies

LEMMA ApplyInv ==
    ASSUME Inv, NEW r \in Resources, NEW s \in Resources, Apply(r, s)
    PROVE  Inv'
<1> USE DEF Inv
<1>1. /\ phase = "built" /\ SameInput(r, s)
      /\ given' = r /\ labelled' = r /\ twin' = s /\ next' = 1
      /\ phase' = IF scopes[r.type] = <<>> THEN "done" ELSE "clearing"
      /\ UNCHANGED <<version, added, scopes, first>>
  BY DEF Apply, builder
<1>2. r \in Resource /\ s \in Resource /\ r.type \in Types
  BY LabelConstants DEF Resource
<1>3. scopes[r.type] \in Seq(Labelers) /\ Len(scopes[r.type]) \in Nat
      /\ (scopes[r.type] # <<>> => 1 \in DOMAIN scopes[r.type])
  BY <1>2, LenProperties, EmptySeq DEF TypeOK
<1>4. TypeOK'
  <2>1. Len(added) \in Nat
    BY LenProperties DEF TypeOK
  <2> QED BY <1>1, <1>2, <1>3, <2>1, LabelConstants DEF TypeOK, Phases, Scope
<1>5. Scopes'
  BY <1>1 DEF Scopes
<1>6. Copies'
  BY <1>1, <1>2 DEF Copies, Applying, SameInput
<1>7. ASSUME NEW a \in Attributes, r.attrs[a] # s.attrs[a]
      PROVE  \E k \in 1..Len(scopes[r.type]) : Target(scopes[r.type][k]).attribute = a
  <2>1. a \in OwnedAttributes(r.type)
    BY <1>1, <1>7 DEF SameInput
  <2>2. PICK l \in Range(scopes[r.type]) : Target(l).attribute = a
    BY <2>1 DEF OwnedAttributes
  <2>3. PICK k \in DOMAIN scopes[r.type] : scopes[r.type][k] = l
    BY <2>2 DEF Range
  <2>4. k \in 1..Len(scopes[r.type])
    BY <1>3, <2>3, LenProperties
  <2> QED BY <2>2, <2>3, <2>4
<1>8. Cleared'
  BY <1>1, <1>7 DEF Cleared, Scope
<1>9. Agree'
  <2>1. SUFFICES ASSUME scopes[r.type] = <<>>
                 PROVE  r = s
    BY <1>1 DEF Agree
  <2>2. 1..Len(scopes[r.type]) = {}
    BY <2>1
  <2>3. \A a \in Attributes : r.attrs[a] = s.attrs[a]
    BY <1>7, <2>2
  <2> QED BY <1>1, <1>2, <2>3, SameFields DEF SameInput
<1>10. OnlyOwnedChange'
  BY <1>1 DEF OnlyOwnedChange
<1> QED BY <1>4, <1>5, <1>6, <1>8, <1>9, <1>10

\* What a step within a scope works on.
LEMMA InScope ==
    ASSUME Inv, phase \in {"clearing", "deriving"}
    PROVE  /\ given.type \in Types /\ Scope \in Seq(Labelers)
           /\ Len(Scope) \in Nat /\ next \in 1..Len(Scope)
           /\ Len(Scope) <= Len(added) /\ Len(added) \in Nat
           /\ Scope[next] \in Labelers
           /\ Scope[next] \in Range(added)
           /\ Target(Scope[next]) =
                [type |-> given.type, attribute |-> Target(Scope[next]).attribute]
           /\ Target(Scope[next]).attribute \in Attributes
<1>1. given \in Resource /\ next \in DOMAIN Scope
  BY DEF Inv, Copies, Applying, TypeOK
<1>2. given.type \in Types
  BY <1>1 DEF Resource
<1>3. Scope \in Seq(Labelers) /\ Len(Scope) <= Len(added) /\ added \in Seq(Labelers)
  BY <1>2 DEF Inv, TypeOK, Scopes, Scope
<1>4. Len(Scope) \in Nat /\ next \in 1..Len(Scope) /\ Len(added) \in Nat
  BY <1>1, <1>3, LenProperties
<1>5. Scope[next] \in Labelers /\ Scope[next] \in Range(Scope)
  BY <1>1, <1>3, <1>4, ElementOfSeq DEF Range
<1>6. Scope[next] \in Range(added) /\ Target(Scope[next]).type = given.type
  BY <1>2, <1>5 DEF Inv, Scopes, Scope
<1>7. Target(Scope[next]) \in [type : Types, attribute : Attributes]
  BY <1>5, LabelConstants
<1> QED BY <1>2, <1>3, <1>4, <1>5, <1>6, <1>7

LEMMA AdvanceType ==
    ASSUME Inv, phase \in {"clearing", "deriving"},
           NEW then \in {"deriving", "done"}, Advance(then)
    PROVE  /\ next' \in 1..Len(Scope)
           /\ phase' \in Phases
           /\ \/ phase' = phase /\ next' = next + 1
              \/ phase' = then /\ next = Len(Scope)
BY InScope DEF Advance, Phases

\* Steps within a scope: what they leave alone.
LEMMA ScopeStep ==
    ASSUME Inv, phase \in {"clearing", "deriving"},
           NEW then \in {"deriving", "done"}, Advance(then),
           {labelled', twin'} \subseteq Resource,
           labelled'.type = labelled.type, labelled'.id = labelled.id,
           twin'.type = twin.type, twin'.id = twin.id,
           \A b \in Attributes \ {Target(Scope[next]).attribute} :
               labelled'.attrs[b] = labelled.attrs[b],
           UNCHANGED <<builder, scopes, given, first>>
    PROVE  TypeOK' /\ Scopes' /\ Copies' /\ OnlyOwnedChange' /\ Scope' = Scope
<1> USE DEF Inv
<1>1. /\ next' \in 1..Len(Scope) /\ phase' \in Phases
      /\ phase' \in {phase, then}
  BY AdvanceType
<1>2. UNCHANGED <<version, added, scopes, given, first>>
  BY DEF builder
<1>3. Scope' = Scope /\ DOMAIN Scope = 1..Len(Scope)
  BY <1>2, InScope, LenProperties DEF Scope
<1>4. next' \in 1..(Len(added) + 1)
  BY <1>1, InScope
<1>5. TypeOK'
  BY <1>1, <1>2, <1>3, <1>4 DEF TypeOK, Copies, Applying
<1>6. Scopes'
  BY <1>1, <1>2 DEF Scopes
<1>7. Copies'
  BY <1>1, <1>2 DEF Copies, Applying
<1>8. OnlyOwnedChange'
  <2>1. labelled.type = given.type /\ labelled.id = given.id
    BY DEF Copies, Applying
  <2>2. ASSUME NEW a \in Attributes
        PROVE  \/ labelled'.attrs[a] = given.attrs[a]
               \/ \E l \in Range(added) : Target(l) = [type |-> given.type, attribute |-> a]
    <3>1. CASE a = Target(Scope[next]).attribute
      BY <3>1, InScope
    <3>2. CASE a # Target(Scope[next]).attribute
      <4>1. labelled # NoResource
        BY LabelConstants DEF Copies, Applying
      <4> QED BY <3>2, <4>1 DEF OnlyOwnedChange
    <3> QED BY <3>1, <3>2
  <2> QED BY <1>2, <2>1, <2>2 DEF OnlyOwnedChange
<1> QED BY <1>3, <1>5, <1>6, <1>7, <1>8

LEMMA ClearOwnedInv ==
    ASSUME Inv, ClearOwned
    PROVE  Inv'
<1> DEFINE a == Target(Scope[next]).attribute
<1>1. /\ phase = "clearing" /\ Advance("deriving")
      /\ labelled' = Without(labelled, a) /\ twin' = Without(twin, a)
      /\ UNCHANGED <<builder, scopes, given, first>>
  BY DEF ClearOwned
<1>2. labelled \in Resource /\ twin \in Resource /\ a \in Attributes
      /\ labelled.type = twin.type /\ labelled.id = twin.id
  BY <1>1, InScope DEF Inv, Copies, Applying
<1>3. /\ {labelled', twin'} \subseteq Resource
      /\ labelled'.type = labelled.type /\ labelled'.id = labelled.id
      /\ twin'.type = twin.type /\ twin'.id = twin.id
      /\ labelled'.attrs[a] = twin'.attrs[a]
      /\ \A b \in Attributes \ {a} : /\ labelled'.attrs[b] = labelled.attrs[b]
                                     /\ twin'.attrs[b] = twin.attrs[b]
  BY <1>1, <1>2, WithoutFields
<1>4. TypeOK' /\ Scopes' /\ Copies' /\ OnlyOwnedChange' /\ Scope' = Scope
  BY <1>1, <1>3, ScopeStep
<1>5. /\ \/ phase' = "clearing" /\ next' = next + 1
         \/ phase' = "deriving" /\ next = Len(Scope)
      /\ next \in Nat /\ Len(Scope) \in Nat
  BY <1>1, AdvanceType, InScope
<1>6. ASSUME NEW b \in Attributes
      PROVE  \/ labelled'.attrs[b] = twin'.attrs[b]
             \/ \E k \in (next + 1)..Len(Scope) : Target(Scope[k]).attribute = b
  <2>1. CASE b = a
    BY <1>3, <2>1
  <2>2. CASE b # a
    <3>1. \/ labelled.attrs[b] = twin.attrs[b]
          \/ \E k \in next..Len(Scope) : Target(Scope[k]).attribute = b
      BY <1>1 DEF Inv, Cleared
    <3>2. ASSUME NEW k \in next..Len(Scope), Target(Scope[k]).attribute = b
          PROVE  k \in (next + 1)..Len(Scope)
      BY <1>5, <2>2, <3>2
    <3> QED BY <1>3, <2>2, <3>1, <3>2
  <2> QED BY <2>1, <2>2
<1>7. Cleared'
  BY <1>4, <1>5, <1>6 DEF Cleared
<1>8. Agree'
  <2>1. SUFFICES ASSUME next = Len(Scope)
                 PROVE  labelled' = twin'
    BY <1>5 DEF Agree
  <2>2. (next + 1)..Len(Scope) = {}
    BY <1>5, <2>1
  <2>3. \A b \in Attributes : labelled'.attrs[b] = twin'.attrs[b]
    BY <1>6, <2>2
  <2> QED BY <1>2, <1>3, <2>3, SameFields
<1> QED BY <1>4, <1>7, <1>8 DEF Inv

LEMMA DeriveOwnedInv ==
    ASSUME Inv, DeriveOwned
    PROVE  Inv'
<1>1. /\ phase = "deriving" /\ Advance("done")
      /\ labelled' = Relabel(Scope[next], labelled) /\ twin' = Relabel(Scope[next], twin)
      /\ UNCHANGED <<builder, scopes, given, first>>
  BY DEF DeriveOwned
<1>2. labelled \in Resource /\ twin = labelled /\ Scope[next] \in Labelers
  BY <1>1, InScope DEF Inv, Copies, Applying, Agree
<1>3. /\ {labelled', twin'} \subseteq Resource
      /\ labelled'.type = labelled.type /\ labelled'.id = labelled.id
      /\ twin'.type = twin.type /\ twin'.id = twin.id
      /\ \A b \in Attributes \ {Target(Scope[next]).attribute} :
            labelled'.attrs[b] = labelled.attrs[b]
  BY <1>1, <1>2, RelabelFields
<1>4. TypeOK' /\ Scopes' /\ Copies' /\ OnlyOwnedChange'
  BY <1>1, <1>3, ScopeStep
<1>5. phase' \in {"deriving", "done"}
  BY <1>1, AdvanceType
<1>6. Cleared' /\ Agree'
  BY <1>1, <1>2, <1>5 DEF Cleared, Agree
<1> QED BY <1>4, <1>6 DEF Inv

LEMMA ReapplyInv ==
    ASSUME Inv, Reapply
    PROVE  Inv'
<1> USE DEF Inv
<1>1. /\ phase = "done" /\ phase' = "clearing" /\ next' = 1 /\ first' = labelled
      /\ Scope # <<>> /\ UNCHANGED <<version, added, scopes, given, labelled, twin>>
  BY DEF Reapply, builder
<1>2. given \in Resource /\ given # NoResource /\ labelled \in Resource /\ labelled = twin
  BY <1>1, LabelConstants DEF Copies, Applying, Agree
<1>3. Scope \in Seq(Labelers) /\ Scope' = Scope
  BY <1>1, <1>2 DEF Scope, TypeOK, Resource
<1>4. 1 \in DOMAIN Scope /\ Len(added) \in Nat
  BY <1>1, <1>3, LenProperties, EmptySeq DEF TypeOK
<1>5. TypeOK'
  BY <1>1, <1>2, <1>3, <1>4 DEF TypeOK, Phases
<1>6. Scopes' /\ Copies' /\ OnlyOwnedChange'
  BY <1>1 DEF Scopes, Copies, Applying, OnlyOwnedChange
<1>7. Cleared' /\ Agree'
  BY <1>1, <1>2 DEF Cleared, Agree
<1> QED BY <1>5, <1>6, <1>7

----------------------------------------------------------------------------
(***************************************************************************)
(* Labelling twice. Both applications clear the same resource and then run *)
(* the same labelers on the same inputs: there is one sequence of resources *)
(* that the loop of apply_scope goes through, and the second application   *)
(* goes through it again.                                                  *)
(***************************************************************************)

OwnedBefore(k, a) == \E i \in 1..(k - 1) : Target(Scope[i]).attribute = a

\* The resource without its owned attributes.
Bare == [ type |-> given.type, id |-> given.id,
          attrs |-> [ a \in Attributes |->
                        IF OwnedBefore(Len(Scope) + 1, a) THEN Absent ELSE given.attrs[a] ] ]

\* What the loop goes through on the first n labelers.
Trace(n, trace) ==
    /\ trace \in [0..n -> Resource] /\ trace[0] = Bare
    /\ \A k \in 1..n : trace[k] = Relabel(Scope[k], trace[k - 1])

Unowned ==
    Applying => \A a \in Attributes : \/ labelled.attrs[a] = given.attrs[a]
                                      \/ OwnedBefore(Len(Scope) + 1, a)

ClearedSoFar ==
    phase = "clearing" => \A a \in Attributes : OwnedBefore(next, a) => labelled.attrs[a] = Absent

FirstTime ==
    first = NoResource =>
        /\ phase = "deriving" =>
              \E trace : Trace(next - 1, trace) /\ trace[next - 1] = labelled
        /\ phase = "done" /\ Scope # <<>> =>
              \E trace : Trace(Len(Scope), trace) /\ trace[Len(Scope)] = labelled

SecondTime ==
    first # NoResource =>
        /\ Applying
        /\ \E trace : /\ Trace(Len(Scope), trace) /\ trace[Len(Scope)] = first
                      /\ phase = "deriving" => trace[next - 1] = labelled
                      /\ phase = "done" => labelled = first

Twice == Unowned /\ ClearedSoFar /\ FirstTime /\ SecondTime

LEMMA ScopeFacts ==
    ASSUME Inv, Applying
    PROVE  /\ given \in Resource /\ labelled \in Resource /\ given.type \in Types
           /\ Scope \in Seq(Labelers) /\ Len(Scope) \in Nat
           /\ \A k \in 1..Len(Scope) : Scope[k] \in Labelers
           /\ labelled # NoResource
<1>1. given \in Resource /\ labelled \in Resource
  BY DEF Inv, Copies
<1>2. given.type \in Types
  BY <1>1 DEF Resource
<1>3. Scope \in Seq(Labelers)
  BY <1>2 DEF Inv, TypeOK, Scope
<1>4. Len(Scope) \in Nat /\ \A k \in 1..Len(Scope) : Scope[k] \in Labelers
  BY <1>3, LenProperties, ElementOfSeq
<1> QED BY <1>1, <1>2, <1>3, <1>4, LabelConstants

\* Steps that neither end nor belong to an application.
LEMMA BuilderTwice ==
    ASSUME Inv, Twice, ~Applying, ~Applying', first' = first
    PROVE  Twice'
<1>1. first = NoResource
  BY DEF Twice, SecondTime
<1>2. Unowned' /\ ClearedSoFar' /\ FirstTime' /\ SecondTime'
  BY <1>1 DEF Unowned, ClearedSoFar, FirstTime, SecondTime, Applying
<1> QED BY <1>2 DEF Twice

LEMMA ApplyTwice ==
    ASSUME Inv, Twice, NEW r \in Resources, NEW s \in Resources, Apply(r, s)
    PROVE  Twice'
<1>1. /\ phase = "built" /\ given' = r /\ labelled' = r /\ next' = 1
      /\ phase' = IF scopes[r.type] = <<>> THEN "done" ELSE "clearing"
      /\ scopes' = scopes /\ first' = first
  BY DEF Apply
<1>2. first = NoResource
  BY <1>1 DEF Twice, SecondTime, Applying
<1>3. Scope' = scopes[r.type]
  BY <1>1 DEF Scope
<1>4. Unowned'
  BY <1>1 DEF Unowned
<1>5. ClearedSoFar'
  <2>1. 1..(1 - 1) = {}
    OBVIOUS
  <2> QED BY <1>1, <2>1 DEF ClearedSoFar, OwnedBefore
<1>6. FirstTime' /\ SecondTime'
  BY <1>1, <1>2, <1>3 DEF FirstTime, SecondTime
<1> QED BY <1>4, <1>5, <1>6 DEF Twice

\* Steps within a scope: the trace of a given resource stays a trace.
LEMMA TraceStays ==
    ASSUME given' = given, scopes' = scopes
    PROVE  /\ Scope' = Scope /\ Bare' = Bare
           /\ \A n, trace : Trace(n, trace)' = Trace(n, trace)
           /\ \A k, a : OwnedBefore(k, a)' = OwnedBefore(k, a)
BY DEF Scope, Bare, Trace, OwnedBefore

LEMMA ClearOwnedTwice ==
    ASSUME Inv, Twice, ClearOwned
    PROVE  Twice'
<1> DEFINE a == Target(Scope[next]).attribute
<1>1. /\ phase = "clearing" /\ Advance("deriving") /\ labelled' = Without(labelled, a)
      /\ given' = given /\ scopes' = scopes /\ first' = first
  BY DEF ClearOwned
<1>2. /\ given \in Resource /\ labelled \in Resource /\ a \in Attributes
      /\ Len(Scope) \in Nat /\ next \in 1..Len(Scope)
      /\ labelled.type = given.type /\ labelled.id = given.id
  BY <1>1, ScopeFacts, InScope DEF Applying, Inv, Copies
<1>3. /\ labelled' \in Resource
      /\ labelled'.type = given.type /\ labelled'.id = given.id /\ labelled'.attrs[a] = Absent
      /\ \A b \in Attributes \ {a} : labelled'.attrs[b] = labelled.attrs[b]
  BY <1>1, <1>2, WithoutFields
<1>4. /\ Scope' = Scope /\ Bare' = Bare
      /\ \A n, trace : Trace(n, trace)' = Trace(n, trace)
      /\ \A k, b : OwnedBefore(k, b)' = OwnedBefore(k, b)
  BY <1>1, TraceStays
<1>5. \/ phase' = "clearing" /\ next' = next + 1
      \/ phase' = "deriving" /\ next = Len(Scope) /\ next' = 1
  BY <1>1, <1>2 DEF Advance
<1>6. \A b : OwnedBefore(next + 1, b) <=> OwnedBefore(next, b) \/ b = a
  <2>1. next \in 1..(next + 1 - 1) /\ \A i \in 1..(next + 1 - 1) : i = next \/ i \in 1..(next - 1)
    BY <1>2
  <2>2. \A i \in 1..(next - 1) : i \in 1..(next + 1 - 1)
    BY <1>2
  <2> QED BY <2>1, <2>2 DEF OwnedBefore
<1>7. \A b \in Attributes : OwnedBefore(next + 1, b) => labelled'.attrs[b] = Absent
  BY <1>1, <1>3, <1>6 DEF Twice, ClearedSoFar
<1>8. OwnedBefore(Len(Scope) + 1, a)
  <2>1. next \in 1..(Len(Scope) + 1 - 1)
    BY <1>2
  <2> QED BY <2>1 DEF OwnedBefore
<1>9. \A b \in Attributes : labelled'.attrs[b] = given.attrs[b] \/ OwnedBefore(Len(Scope) + 1, b)
  BY <1>1, <1>3, <1>8 DEF Twice, Unowned, Applying
<1>10. Unowned'
  BY <1>1, <1>4, <1>9 DEF Unowned
<1>11. ClearedSoFar'
  BY <1>4, <1>5, <1>7 DEF ClearedSoFar
<1>12. phase' = "deriving" => labelled' = Bare /\ next' = 1
  <2> SUFFICES ASSUME phase' = "deriving" PROVE labelled' = Bare /\ next' = 1
    OBVIOUS
  <2>1. next = Len(Scope) /\ next' = 1
    BY <1>5
  <2>2. \A b \in Attributes : labelled'.attrs[b] = Bare.attrs[b]
    BY <1>7, <1>9, <2>1 DEF Bare
  <2>3. Bare \in Resource
    <3>1. Absent \in Values \cup {Absent} /\ \A b \in Attributes : given.attrs[b] \in Values \cup {Absent}
      BY <1>2 DEF Resource
    <3>2. Bare.attrs \in [Attributes -> Values \cup {Absent}]
      BY <3>1 DEF Bare
    <3> QED BY <1>2, <3>2 DEF Bare, Resource
  <2>4. Bare.type = given.type /\ Bare.id = given.id
    BY DEF Bare
  <2> QED BY <1>3, <2>1, <2>2, <2>3, <2>4, SameFields
<1>13. FirstTime'
  <2> SUFFICES ASSUME phase' = "deriving"
               PROVE  \E trace : Trace(0, trace) /\ trace[0] = labelled'
    BY <1>4, <1>5, <1>12 DEF FirstTime
  <2>1. Trace(0, [k \in 0..0 |-> labelled'])
    BY <1>3, <1>12 DEF Trace
  <2> QED BY <2>1
<1>14. SecondTime'
  <2> SUFFICES ASSUME first # NoResource
               PROVE  \E trace : /\ Trace(Len(Scope), trace) /\ trace[Len(Scope)] = first
                                 /\ phase' = "deriving" => trace[0] = labelled'
    BY <1>1, <1>4, <1>5, <1>12 DEF SecondTime, Applying
  <2>1. PICK trace : Trace(Len(Scope), trace) /\ trace[Len(Scope)] = first
    BY DEF Twice, SecondTime
  <2>2. trace[0] = Bare
    BY <2>1 DEF Trace
  <2> QED BY <1>12, <2>1, <2>2
<1> QED BY <1>10, <1>11, <1>13, <1>14 DEF Twice

LEMMA DeriveOwnedTwice ==
    ASSUME Inv, Twice, DeriveOwned
    PROVE  Twice'
<1>1. /\ phase = "deriving" /\ Advance("done") /\ labelled' = Relabel(Scope[next], labelled)
      /\ given' = given /\ scopes' = scopes /\ first' = first
  BY DEF DeriveOwned
<1>2. /\ given \in Resource /\ labelled \in Resource /\ Scope[next] \in Labelers
      /\ Len(Scope) \in Nat /\ next \in 1..Len(Scope) /\ next \in Nat
  BY <1>1, ScopeFacts, InScope DEF Applying
<1>3. /\ labelled' \in Resource
      /\ \A b \in Attributes \ {Target(Scope[next]).attribute} :
            labelled'.attrs[b] = labelled.attrs[b]
  BY <1>1, <1>2, RelabelFields
<1>4. /\ Scope' = Scope /\ Bare' = Bare
      /\ \A n, trace : Trace(n, trace)' = Trace(n, trace)
      /\ \A k, b : OwnedBefore(k, b)' = OwnedBefore(k, b)
  BY <1>1, TraceStays
<1>5. \/ phase' = "deriving" /\ next' = next + 1
      \/ phase' = "done" /\ next = Len(Scope)
  BY <1>1, <1>2 DEF Advance
<1>6. Unowned'
  <2>1. OwnedBefore(Len(Scope) + 1, Target(Scope[next]).attribute)
    <3>1. next \in 1..(Len(Scope) + 1 - 1)
      BY <1>2
    <3> QED BY <3>1 DEF OwnedBefore
  <2> QED BY <1>1, <1>3, <1>4, <2>1 DEF Twice, Unowned, Applying
<1>7. ClearedSoFar'
  BY <1>5 DEF ClearedSoFar
<1>8. FirstTime'
  <2> SUFFICES ASSUME first = NoResource
               PROVE  \E trace : Trace(next, trace) /\ trace[next] = labelled'
    BY <1>1, <1>2, <1>4, <1>5 DEF FirstTime
  <2>1. PICK trace : Trace(next - 1, trace) /\ trace[next - 1] = labelled
    BY <1>1 DEF Twice, FirstTime
  <2> DEFINE longer == [k \in 0..next |-> IF k = next THEN labelled' ELSE trace[k]]
  <2>2. \A k \in 0..next : k = next \/ k \in 0..(next - 1)
    BY <1>2
  <2>3. longer \in [0..next -> Resource] /\ longer[next] = labelled'
    BY <1>2, <1>3, <2>1, <2>2 DEF Trace
  <2>4. \A k \in 0..(next - 1) : longer[k] = trace[k]
    BY <1>2
  <2>5. longer[0] = Bare
    BY <1>2, <2>1, <2>4 DEF Trace
  <2>6. ASSUME NEW k \in 1..next
        PROVE  longer[k] = Relabel(Scope[k], longer[k - 1])
    <3>1. k - 1 \in 0..(next - 1) /\ (k = next \/ k \in 1..(next - 1))
      BY <1>2
    <3>2. CASE k = next
      BY <1>1, <2>1, <2>3, <2>4, <3>1, <3>2
    <3>3. CASE k \in 1..(next - 1)
      <4>1. trace[k] = Relabel(Scope[k], trace[k - 1]) /\ k \in 0..(next - 1)
        BY <1>2, <2>1, <3>3 DEF Trace
      <4> QED BY <2>4, <3>1, <4>1
    <3> QED BY <3>1, <3>2, <3>3
  <2>7. Trace(next, longer)
    BY <2>3, <2>5, <2>6 DEF Trace
  <2> QED BY <2>3, <2>7
<1>9. SecondTime'
  <2> SUFFICES ASSUME first # NoResource
               PROVE  \E trace : /\ Trace(Len(Scope), trace) /\ trace[Len(Scope)] = first
                                 /\ phase' = "deriving" => trace[next' - 1] = labelled'
                                 /\ phase' = "done" => labelled' = first
    BY <1>1, <1>4, <1>5 DEF SecondTime, Applying
  <2>1. PICK trace : /\ Trace(Len(Scope), trace) /\ trace[Len(Scope)] = first
                     /\ trace[next - 1] = labelled
    BY <1>1 DEF Twice, SecondTime
  <2>2. trace[next] = labelled'
    BY <1>1, <1>2, <2>1 DEF Trace
  <2>3. phase' = "deriving" => next' - 1 = next
    BY <1>2, <1>5
  <2>4. phase' = "done" => labelled' = first
    BY <1>5, <2>1, <2>2
  <2> QED BY <2>1, <2>2, <2>3, <2>4
<1> QED BY <1>6, <1>7, <1>8, <1>9 DEF Twice

LEMMA ReapplyTwice ==
    ASSUME Inv, Twice, Reapply
    PROVE  Twice'
<1>1. /\ phase = "done" /\ phase' = "clearing" /\ next' = 1 /\ first = NoResource
      /\ first' = labelled /\ Scope # <<>>
      /\ given' = given /\ scopes' = scopes /\ labelled' = labelled
  BY DEF Reapply
<1>2. /\ Scope' = Scope /\ \A n, trace : Trace(n, trace)' = Trace(n, trace)
      /\ \A k, b : OwnedBefore(k, b)' = OwnedBefore(k, b)
  BY <1>1, TraceStays
<1>3. first' # NoResource
  BY <1>1, ScopeFacts DEF Applying
<1>4. Unowned'
  BY <1>1, <1>2 DEF Twice, Unowned, Applying
<1>5. ClearedSoFar'
  <2>1. 1..(1 - 1) = {}
    OBVIOUS
  <2> QED BY <1>1, <2>1 DEF ClearedSoFar, OwnedBefore
<1>6. FirstTime' /\ SecondTime'
  BY <1>1, <1>2, <1>3 DEF Twice, FirstTime, SecondTime, Applying
<1> QED BY <1>4, <1>5, <1>6 DEF Twice

----------------------------------------------------------------------------
(***************************************************************************)
(* Building: while build() loops, the scopes hold the labelers passed.     *)
(***************************************************************************)

\* The scope of type t is made of the first n labelers added.
Sorted(t, n, place) ==
    /\ place \in [1..Len(scopes[t]) -> 1..n] /\ InOrder(place)
    /\ \A k \in 1..n : Target(added[k]).type = t => \E i \in DOMAIN place : place[i] = k
    /\ \A i \in DOMAIN place : /\ scopes[t][i] = added[place[i]]
                               /\ Target(added[place[i]]).type = t

Distinct(n) == \A i, j \in 1..n : i # j => Target(added[i]) # Target(added[j])

Passed ==
    IF phase = "open" THEN 0 ELSE IF phase = "building" THEN next - 1 ELSE Len(added)

Registered ==
    /\ phase = "open" => next = 1 /\ \A t \in Types : scopes[t] = <<>>
    /\ phase \notin {"open", "refused"} => version # "empty"
    /\ phase = "refused" =>
          version = "empty" \/ \E i, j \in DOMAIN added : i # j /\ Target(added[i]) = Target(added[j])
    /\ phase # "refused" =>
          Distinct(Passed) /\ \A t \in Types : \E place : Sorted(t, Passed, place)

LEMMA EmptyScopes ==
    ASSUME NEW t, scopes[t] = <<>>
    PROVE  Sorted(t, 0, [i \in 1..0 |-> 0])
<1>1. Len(scopes[t]) = 0 /\ 1..0 = {}
  OBVIOUS
<1> QED BY <1>1 DEF Sorted, InOrder

LEMMA InitRegistered == Init => Registered
<1> SUFFICES ASSUME Init PROVE Registered
  OBVIOUS
<1>1. phase = "open" /\ next = 1 /\ Passed = 0 /\ \A t \in Types : scopes[t] = <<>>
  BY DEF Init, Passed
<1>2. Distinct(0)
  BY DEF Distinct
<1>3. \A t \in Types : \E place : Sorted(t, 0, place)
  BY <1>1, EmptyScopes
<1> QED BY <1>1, <1>2, <1>3 DEF Registered

LEMMA OpenRegistered ==
    ASSUME Registered, phase = "open", UNCHANGED <<version, next, scopes>>,
           \/ phase' = "open"
           \/ phase' = IF version = "empty" THEN "refused" ELSE "building"
    PROVE  Registered'
<1>1. next' = 1 /\ \A t \in Types : scopes'[t] = <<>>
  BY DEF Registered
<1>2. phase' # "refused" => Passed' = 0
  BY <1>1 DEF Passed
<1>3. Distinct(0)'
  BY DEF Distinct
<1>4. \A t \in Types : \E place : Sorted(t, 0, place)'
  <2> SUFFICES ASSUME NEW t \in Types
               PROVE  Sorted(t, 0, [i \in 1..0 |-> 0])'
    OBVIOUS
  <2>1. scopes'[t] = <<>> /\ Len(scopes'[t]) = 0 /\ 1..0 = {}
    BY <1>1
  <2> QED BY <2>1 DEF Sorted, InOrder
<1> QED BY <1>1, <1>2, <1>3, <1>4 DEF Registered

LEMMA RegisterLabelerRegistered ==
    ASSUME Inv, Registered, RegisterLabeler
    PROVE  Registered'
<1> DEFINE l == added[next]
           type == Target(l).type
<1>1. /\ phase = "building" /\ next \in DOMAIN added /\ ~TargetTaken /\ next' = next + 1
      /\ scopes' = [scopes EXCEPT ![type] = Append(@, l)]
      /\ UNCHANGED <<phase, version, added>>
  BY DEF RegisterLabeler, builder
<1>2. /\ Len(added) \in Nat /\ DOMAIN added = 1..Len(added) /\ next \in 1..Len(added)
      /\ l \in Labelers /\ type \in Types /\ next \in Nat
  BY <1>1, LenProperties, ElementOfSeq, TargetFields DEF Inv, TypeOK
<1>n. PICK m \in Nat : m = next
  BY <1>2
<1>3. Passed = m - 1 /\ Passed' = m
  BY <1>1, <1>2, <1>n DEF Passed
<1>4. (\A i \in 1..m : i = m \/ i \in 1..(m - 1)) /\ m \in 1..m /\ added[m] = l /\ 1..(m - 1) \subseteq 1..m
  BY <1>2, <1>n
<1>5. Distinct(m)'
  <2>1. Distinct(m - 1)
    BY <1>1, <1>3 DEF Registered
  <2> QED BY <1>1, <1>4, <1>n, <2>1 DEF Distinct, TargetTaken
<1>6. ASSUME NEW t \in Types
      PROVE  \E place : Sorted(t, m, place)'
  <2>1. PICK place : Sorted(t, m - 1, place)
    BY <1>1, <1>3 DEF Registered
  <2>2. scopes[t] \in Seq(Labelers) /\ Len(scopes[t]) \in Nat
    BY LenProperties DEF Inv, TypeOK
  <2>3. scopes'[t] = IF t = type THEN Append(scopes[t], l) ELSE scopes[t]
    BY <1>1, <1>2 DEF Inv, TypeOK
  <2>n. PICK n \in Nat : n = Len(scopes[t])
    BY <2>2
  <2>4. /\ place \in [1..n -> 1..(m - 1)] /\ DOMAIN place = 1..n
        /\ \A i, j \in 1..n : i < j => place[i] < place[j]
        /\ \A k \in 1..(m - 1) : Target(added[k]).type = t => \E i \in 1..n : place[i] = k
        /\ \A i \in 1..n : /\ scopes[t][i] = added[place[i]]
                           /\ Target(added[place[i]]).type = t
    BY <2>1, <2>n DEF Sorted, InOrder
  <2>5. CASE t # type
    <3>1. place \in [1..n -> 1..m]
      BY <1>2, <1>4, <2>4
    <3>2. \A k \in 1..m : Target(added[k]).type = t => \E i \in 1..n : place[i] = k
      BY <1>4, <2>4, <2>5
    <3>3. Sorted(t, m, place)'
      BY <1>1, <2>n, <2>3, <2>4, <2>5, <3>1, <3>2 DEF Sorted, InOrder
    <3> QED BY <3>3
  <2>6. CASE t = type
    <3> DEFINE longer == [i \in 1..(n + 1) |-> IF i = n + 1 THEN m ELSE place[i]]
    <3>1. /\ Len(scopes'[t]) = n + 1 /\ scopes'[t][n + 1] = l
          /\ \A i \in 1..n : scopes'[t][i] = scopes[t][i]
      BY <1>2, <2>2, <2>n, <2>3, <2>6, AppendProperties
    <3>2. \A i \in 1..(n + 1) : i = n + 1 \/ i \in 1..n
      BY <2>2
    <3>3. /\ longer[n + 1] = m /\ n + 1 \in 1..(n + 1)
          /\ \A i \in 1..n : longer[i] = place[i] /\ i \in 1..(n + 1) /\ place[i] \in 1..(m - 1)
      BY <2>2, <2>4
    <3> HIDE DEF longer
    <3>4. longer \in [1..(n + 1) -> 1..m] /\ DOMAIN longer = 1..(n + 1)
      <4>1. DOMAIN longer = 1..(n + 1) /\ longer = [i \in 1..(n + 1) |-> longer[i]]
        BY DEF longer
      <4>2. \A i \in 1..(n + 1) : longer[i] \in 1..m
        BY <1>4, <3>2, <3>3
      <4> QED BY <4>1, <4>2
    <3>5. \A i, j \in 1..(n + 1) : i < j => longer[i] < longer[j]
      <4> SUFFICES ASSUME NEW i \in 1..(n + 1), NEW j \in 1..(n + 1), i < j
                   PROVE  longer[i] < longer[j]
        OBVIOUS
      <4>1. i \in 1..n /\ longer[i] = place[i] /\ place[i] \in 1..(m - 1) /\ n \in Nat
        BY <2>2, <3>2, <3>3
      <4>2. CASE j = n + 1
        BY <3>3, <4>1, <4>2
      <4>3. CASE j \in 1..n
        BY <2>4, <3>3, <4>1, <4>3
      <4> QED BY <3>2, <4>2, <4>3
    <3>6. \A k \in 1..m : Target(added[k]).type = t => \E i \in 1..(n + 1) : longer[i] = k
      BY <1>4, <2>4, <3>3
    <3>7. \A i \in 1..(n + 1) : /\ scopes'[t][i] = added[longer[i]]
                                /\ Target(added[longer[i]]).type = t
      <4>1. scopes'[t][n + 1] = added[longer[n + 1]] /\ Target(added[longer[n + 1]]).type = t
        BY <1>4, <2>6, <3>1, <3>3
      <4>2. ASSUME NEW i \in 1..n
            PROVE  scopes'[t][i] = added[longer[i]] /\ Target(added[longer[i]]).type = t
        BY <2>4, <3>1, <3>3
      <4> QED BY <3>2, <4>1, <4>2
    <3>8. Sorted(t, m, longer)'
      BY <1>1, <3>1, <3>4, <3>5, <3>6, <3>7 DEF Sorted, InOrder
    <3> QED BY <3>8
  <2> QED BY <2>5, <2>6
<1> QED BY <1>1, <1>3, <1>5, <1>6 DEF Registered

LEMMA RefuseDuplicateRegistered ==
    ASSUME Inv, Registered, RefuseDuplicate
    PROVE  Registered'
<1>1. /\ phase' = "refused" /\ next \in DOMAIN added /\ TargetTaken
      /\ UNCHANGED <<version, added, next, scopes>>
  BY DEF RefuseDuplicate, builder
<1>2. DOMAIN added = 1..Len(added) /\ Len(added) \in Nat
  BY LenProperties DEF Inv, TypeOK
<1>3. PICK i \in 1..(next - 1) : Target(added[i]) = Target(added[next])
  BY <1>1 DEF TargetTaken
<1>4. i \in DOMAIN added /\ i # next
  BY <1>1, <1>2
<1> QED BY <1>1, <1>3, <1>4 DEF Registered

LEMMA FinishBuildRegistered ==
    ASSUME Inv, Registered, FinishBuild
    PROVE  Registered'
<1>1. /\ phase = "building" /\ phase' = "built" /\ next \notin DOMAIN added
      /\ UNCHANGED <<version, added, next, scopes>>
  BY DEF FinishBuild, builder
<1>2. /\ DOMAIN added = 1..Len(added) /\ Len(added) \in Nat /\ next \in 1..(Len(added) + 1)
  BY LenProperties DEF Inv, TypeOK
<1>3. Passed = Len(added) /\ Passed' = Passed
  BY <1>1, <1>2 DEF Passed
<1> QED BY <1>1, <1>3 DEF Registered, Distinct, Sorted

\* Applying a registry does not change it.
LEMMA ApplyingRegistered ==
    ASSUME Registered, phase \notin {"open", "building", "refused"},
           phase' \notin {"open", "building", "refused"}, UNCHANGED <<version, added, scopes>>
    PROVE  Registered'
<1>1. Passed = Len(added) /\ Passed' = Passed
  BY DEF Passed
<1> QED BY <1>1 DEF Registered, Distinct, Sorted

LEMMA RegisteredOneOwner ==
    ASSUME Inv, Registered
    PROVE  OneOwner
<1>1. DOMAIN added = 1..Len(added) /\ Len(added) \in Nat
  BY LenProperties DEF Inv, TypeOK
<1> SUFFICES ASSUME phase \notin {"open", "building", "refused"}
             PROVE  /\ Distinct(Len(added))
                    /\ \A t \in Types : \E place \in [DOMAIN scopes[t] -> DOMAIN added] :
                          /\ InOrder(place)
                          /\ Range(place) = { k \in DOMAIN added : Target(added[k]).type = t }
                          /\ \A k \in DOMAIN place : scopes[t][k] = added[place[k]]
  BY <1>1 DEF Registered, OneOwner, Distinct
<1>2. Passed = Len(added)
  BY DEF Passed
<1>3. ASSUME NEW t \in Types
      PROVE  \E place \in [DOMAIN scopes[t] -> DOMAIN added] :
                /\ InOrder(place)
                /\ Range(place) = { k \in DOMAIN added : Target(added[k]).type = t }
                /\ \A k \in DOMAIN place : scopes[t][k] = added[place[k]]
  <2>1. PICK place : Sorted(t, Len(added), place)
    BY <1>2 DEF Registered
  <2>2. DOMAIN scopes[t] = 1..Len(scopes[t])
    BY LenProperties DEF Inv, TypeOK
  <2>3. place \in [DOMAIN scopes[t] -> DOMAIN added] /\ InOrder(place)
    BY <1>1, <2>1, <2>2 DEF Sorted
  <2>4. Range(place) = { k \in DOMAIN added : Target(added[k]).type = t }
    BY <1>1, <2>1, <2>3 DEF Sorted, Range
  <2> QED BY <2>1, <2>3, <2>4 DEF Sorted
<1>4. Distinct(Len(added))
  BY <1>2 DEF Registered
<1> QED BY <1>3, <1>4

----------------------------------------------------------------------------
\* Inv with what two applications and the builder have done is inductive.
IInv == Inv /\ Twice /\ Registered

THEOREM Invariance == Spec => []IInv
<1>1. Init => IInv
  <2> SUFFICES ASSUME Init PROVE IInv
    OBVIOUS
  <2>1. phase = "open" /\ first = NoResource
    BY DEF Init
  <2>2. Twice
    BY <2>1 DEF Twice, Unowned, ClearedSoFar, FirstTime, SecondTime, Applying
  <2> QED BY <2>2, InitInv, InitRegistered DEF IInv
<1>2. ASSUME IInv, UNCHANGED vars PROVE IInv'
  <2>1. UNCHANGED <<phase, version, added, next, scopes, given, labelled, twin, first>>
    BY <1>2 DEF vars
  <2>2. Inv'
    BY <1>2, <2>1 DEF IInv, Inv, TypeOK, Scopes, Copies, Applying, Cleared, Agree,
                      OnlyOwnedChange, Scope
  <2>3. /\ Scope' = Scope /\ Applying' = Applying
        /\ \A n, trace : Trace(n, trace)' = Trace(n, trace)
        /\ \A k, a : OwnedBefore(k, a)' = OwnedBefore(k, a)
    BY <2>1, TraceStays DEF Applying
  <2>4. Twice'
    BY <1>2, <2>1, <2>3 DEF IInv, Twice, Unowned, ClearedSoFar, FirstTime, SecondTime
  <2>5. Registered'
    BY <1>2, <2>1 DEF IInv, Registered, Passed, Distinct, Sorted
  <2> QED BY <2>2, <2>4, <2>5 DEF IInv
<1>3. ASSUME IInv, Next PROVE IInv'
  <2> USE DEF IInv
  <2>1. CASE \E l \in Labelers : AddLabeler(l)
    <3>1. /\ phase = "open" /\ phase' = "open" /\ UNCHANGED <<version, next, scopes, first>>
      BY <2>1 DEF AddLabeler, copies
    <3>2. Inv'
      BY <1>3, <2>1, AddLabelerInv
    <3> QED BY <1>3, <3>1, <3>2, OpenRegistered, BuilderTwice DEF Applying
  <2>2. CASE Build
    <3>1. /\ phase = "open" /\ phase' = IF version = "empty" THEN "refused" ELSE "building"
          /\ UNCHANGED <<version, next, scopes, first>>
      BY <2>2 DEF Build, builder, copies
    <3>2. Inv'
      BY <1>3, <2>2, PhaseInv
    <3> QED BY <1>3, <3>1, <3>2, OpenRegistered, BuilderTwice DEF Applying
  <2>3. CASE RegisterLabeler
    <3>1. Inv' /\ Registered' /\ ~Applying /\ ~Applying' /\ first' = first
      BY <1>3, <2>3, RegisterLabelerInv, RegisterLabelerRegistered
      DEF RegisterLabeler, Applying, copies
    <3> QED BY <1>3, <3>1, BuilderTwice
  <2>4. CASE RefuseDuplicate
    <3>1. Inv' /\ Registered' /\ ~Applying /\ ~Applying' /\ first' = first
      BY <1>3, <2>4, PhaseInv, RefuseDuplicateRegistered DEF RefuseDuplicate, Applying, copies
    <3> QED BY <1>3, <3>1, BuilderTwice
  <2>5. CASE FinishBuild
    <3>1. Inv' /\ Registered' /\ ~Applying /\ ~Applying' /\ first' = first
      BY <1>3, <2>5, PhaseInv, FinishBuildRegistered DEF FinishBuild, Applying, copies
    <3> QED BY <1>3, <3>1, BuilderTwice
  <2>6. CASE \E r, s \in Resources : Apply(r, s)
    <3>1. PICK r \in Resources, s \in Resources : Apply(r, s)
      BY <2>6
    <3>2. Registered'
      BY <1>3, <3>1, ApplyingRegistered DEF Apply, builder
    <3> QED BY <1>3, <3>1, <3>2, ApplyInv, ApplyTwice
  <2>7. CASE ClearOwned
    <3>1. Registered'
      BY <1>3, <2>7, ApplyingRegistered DEF ClearOwned, Advance, builder
    <3> QED BY <1>3, <2>7, <3>1, ClearOwnedInv, ClearOwnedTwice
  <2>8. CASE DeriveOwned
    <3>1. Registered'
      BY <1>3, <2>8, ApplyingRegistered DEF DeriveOwned, Advance, builder
    <3> QED BY <1>3, <2>8, <3>1, DeriveOwnedInv, DeriveOwnedTwice
  <2>9. CASE Reapply
    <3>1. Registered'
      BY <1>3, <2>9, ApplyingRegistered DEF Reapply, builder
    <3> QED BY <1>3, <2>9, <3>1, ReapplyInv, ReapplyTwice
  <2> QED BY <1>3, <2>1, <2>2, <2>3, <2>4, <2>5, <2>6, <2>7, <2>8, <2>9 DEF Next
<1> QED BY <1>1, <1>2, <1>3, PTL DEF Spec

----------------------------------------------------------------------------
(***************************************************************************)
(* The theorems.                                                           *)
(***************************************************************************)

\* Type correctness, of the resource at every step of labelling too.
THEOREM TypeCorrect == Spec => []TypeOK
<1>1. IInv => TypeOK
  BY DEF IInv, Inv
<1> QED BY <1>1, Invariance, PTL

\* build() accepts exactly the configurations with one owner per target, and
\* every labeler is in the scope of its type, in the order it was added.
THEOREM TargetsHaveOneOwner == Spec => []OneOwner
<1>1. IInv => OneOwner
  BY RegisteredOneOwner DEF IInv
<1> QED BY <1>1, Invariance, PTL

\* Whatever the labelers compute and read of each other, a labelled resource
\* does not depend on what the caller put into owned attributes (apply_scope).
THEOREM OwnedAttributesUnforgeable == Spec => []NoForgery
<1>1. IInv => NoForgery
  BY DEF IInv, Inv, Agree, NoForgery
<1> QED BY <1>1, Invariance, PTL

\* Labelling a labelled resource changes nothing, even if labelers feed one
\* another (apply_scope).
THEOREM LabellingIdempotent == Spec => []Idempotent
<1>1. IInv => Idempotent
  BY DEF IInv, Twice, SecondTime, Idempotent
<1> QED BY <1>1, Invariance, PTL

\* Labelling changes nothing but attributes that registered labelers own on the
\* resource's own type (LabelRegistry::apply).
THEOREM LabelsStayInScope == Spec => []OnlyOwnedChange
<1>1. IInv => OnlyOwnedChange
  BY DEF IInv, Inv
<1> QED BY <1>1, Invariance, PTL
==============================================================================
