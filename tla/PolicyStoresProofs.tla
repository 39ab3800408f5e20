------------------------- MODULE PolicyStoresProofs --------------------------
(***************************************************************************)
(* Proofs about PolicyStores, for any declarations, policies and requests. *)
(***************************************************************************)
EXTENDS PolicyStores, SequenceTheorems, FiniteSetTheorems, TLAPS

----------------------------------------------------------------------------
(***************************************************************************)
(* Names and prefixes.                                                     *)
(***************************************************************************)

LEMMA PrefixPointwise ==
    ASSUME NEW s \in Seq(Components), NEW t \in Seq(Components)
    PROVE  IsPrefix(s, t) <=>
             Len(s) <= Len(t) /\ \A k \in 1..Len(s) : s[k] = t[k]
<1>1. Len(s) \in Nat /\ Len(t) \in Nat
  BY LenProperties
<1>2. SubSeq(s, 1, Len(s)) = s
  BY <1>1, SubSeqFull
<1>3. ASSUME Len(s) <= Len(t)
      PROVE  /\ SubSeq(t, 1, Len(s)) \in Seq(Components)
             /\ Len(SubSeq(t, 1, Len(s))) = Len(s)
             /\ \A k \in 1..Len(s) : SubSeq(t, 1, Len(s))[k] = t[k]
  BY <1>1, <1>3
<1>4. ASSUME Len(s) <= Len(t), \A k \in 1..Len(s) : s[k] = t[k]
      PROVE  s = SubSeq(t, 1, Len(s))
  BY <1>1, <1>3, <1>4, SeqEqual
<1> QED BY <1>2, <1>3, <1>4 DEF IsPrefix

LEMMA CutIsPrefix ==
    ASSUME NEW name \in Seq(Components), NEW k \in 0..Len(name)
    PROVE  /\ SubSeq(name, 1, k) \in Seq(Components)
           /\ Len(SubSeq(name, 1, k)) = k
           /\ IsPrefix(SubSeq(name, 1, k), name)
<1>1. Len(name) \in Nat
  BY LenProperties
<1>2. /\ SubSeq(name, 1, k) \in Seq(Components)
      /\ Len(SubSeq(name, 1, k)) = k
      /\ \A j \in 1..k : SubSeq(name, 1, k)[j] = name[j]
  BY <1>1
<1>3. k <= Len(name)
  BY <1>1
<1>4. IsPrefix(SubSeq(name, 1, k), name)
  <2> DEFINE cut == SubSeq(name, 1, k)
  <2>1. cut \in Seq(Components) /\ Len(cut) <= Len(name)
            /\ \A j \in 1..Len(cut) : cut[j] = name[j]
    BY <1>2, <1>3
  <2> HIDE DEF cut
  <2>2. IsPrefix(cut, name)
    BY <2>1, PrefixPointwise
  <2> QED BY <2>2 DEF cut
<1> QED BY <1>2, <1>4

LEMMA PrefixIsCut ==
    ASSUME NEW s \in Seq(Components), NEW name \in Seq(Components), IsPrefix(s, name)
    PROVE  Len(s) \in 0..Len(name) /\ SubSeq(name, 1, Len(s)) = s
<1>1. Len(s) \in Nat /\ Len(name) \in Nat
  BY LenProperties
<1>2. SubSeq(s, 1, Len(s)) = s
  BY <1>1, SubSeqFull
<1> QED BY <1>1, <1>2 DEF IsPrefix

\* Of two prefixes of one name, one is a prefix of the other.
LEMMA PrefixesNest ==
    ASSUME NEW s \in Seq(Components), NEW t \in Seq(Components),
           NEW name \in Seq(Components),
           IsPrefix(s, name), IsPrefix(t, name)
    PROVE  IsPrefix(s, t) \/ IsPrefix(t, s)
<1>1. Len(s) \in Nat /\ Len(t) \in Nat /\ Len(name) \in Nat
  BY LenProperties
<1>2. /\ \A k \in 1..Len(s) : s[k] = name[k]
      /\ \A k \in 1..Len(t) : t[k] = name[k]
  BY PrefixPointwise
<1>3. CASE Len(s) <= Len(t)
  BY <1>1, <1>2, <1>3, PrefixPointwise
<1>4. CASE Len(t) <= Len(s)
  BY <1>1, <1>2, <1>4, PrefixPointwise
<1> QED BY <1>1, <1>3, <1>4

LEMMA PrefixReflexive ==
    ASSUME NEW s \in Seq(Components)
    PROVE  IsPrefix(s, s)
BY LenProperties, PrefixPointwise

----------------------------------------------------------------------------
(***************************************************************************)
(* The router.                                                             *)
(***************************************************************************)

\* The stores inserted so far are exactly the marks in the trie ...
Placed ==
    /\ DOMAIN router \subseteq Seq(Components)
    /\ \A path \in Seq(Components) : StoreAt(path) \in StoreIndexes \cup {NoStore}
    /\ \A path \in Seq(Components), i \in StoreIndexes :
          StoreAt(path) = i <=> i < next /\ path = stores[i].namespace

\* ... and do not overlap.
Disjoint ==
    \A i, j \in StoreIndexes :
        i < next /\ j < next /\ Owns(i, stores[j].namespace) => i = j

Progress ==
    /\ phase = "declared" => next = 1 /\ globals = {}
    /\ phase \notin {"declared", "inserting", "invalid"} => next = Len(stores) + 1
    /\ phase \notin {"declared", "invalid"} => stores # <<>> /\ DistinctIds

LayoutInv == LayoutTypeOK /\ Placed /\ Disjoint /\ Progress /\ LayoutVerdict

\* Facts about declarations and indexes.
LEMMA Declarations ==
    ASSUME LayoutTypeOK
    PROVE  /\ stores \in Seq(StoreConfigs)
           /\ Len(stores) \in Nat
           /\ StoreIndexes = 1..Len(stores)
           /\ StoreIndexes \subseteq Nat
           /\ NoStore \notin StoreIndexes
           /\ next \in Nat
           /\ \A i \in StoreIndexes :
                 /\ stores[i].namespace \in Namespaces
                 /\ stores[i].namespace \in Seq(Components)
                 /\ stores[i].namespace # <<>>
<1>1. stores \in Seq(StoreConfigs)
  BY LayoutConstants DEF LayoutTypeOK
<1>2. Len(stores) \in Nat /\ StoreIndexes = 1..Len(stores)
      /\ \A i \in StoreIndexes : stores[i] \in StoreConfigs
  BY <1>1, LenProperties, ElementOfSeq DEF StoreIndexes
<1>3. \A i \in StoreIndexes : stores[i].namespace \in Namespaces
  BY <1>2 DEF StoreConfigs
<1> QED BY <1>1, <1>2, <1>3, LayoutConstants DEF LayoutTypeOK

\* A prefix of a name that is a store's namespace is found by the lookup.
LEMMA OwnerFound ==
    ASSUME LayoutTypeOK, Placed, Disjoint,
           NEW name \in Seq(Components), NEW i \in StoreIndexes,
           i < next, Owns(i, name)
    PROVE  Resolve(name) = i
<1> DEFINE ns == stores[i].namespace
<1>1. ns \in Seq(Components) /\ ns # <<>> /\ NoStore # i
  BY Declarations
<1>2. Len(ns) \in 0..Len(name) /\ SubSeq(name, 1, Len(ns)) = ns
  BY <1>1, PrefixIsCut DEF Owns
<1>3. Len(ns) \in 1..Len(name)
  BY <1>1, <1>2, LenProperties, EmptySeq
<1>4. StoreAt(ns) = i
  BY <1>1 DEF Placed
<1>5. Len(ns) \in Hits(name)
  BY <1>1, <1>2, <1>3, <1>4 DEF Hits
<1>6. ASSUME NEW k \in Hits(name) PROVE k = Len(ns)
  <2> DEFINE cut == SubSeq(name, 1, k)
  <2>1. k \in 0..Len(name) /\ StoreAt(cut) # NoStore
    BY <1>6 DEF Hits
  <2>2. cut \in Seq(Components) /\ Len(cut) = k /\ IsPrefix(cut, name)
    BY <2>1, CutIsPrefix
  <2>3. PICK j \in StoreIndexes : StoreAt(cut) = j
    BY <2>1, <2>2 DEF Placed
  <2>4. j < next /\ cut = stores[j].namespace
    BY <2>2, <2>3 DEF Placed
  <2>5. IsPrefix(ns, cut) \/ IsPrefix(cut, ns)
    BY <1>1, <2>2, PrefixesNest DEF Owns
  <2>6. Owns(i, stores[j].namespace) \/ Owns(j, stores[i].namespace)
    BY <2>4, <2>5 DEF Owns
  <2>7. i = j
    BY <2>4, <2>6 DEF Disjoint
  <2> QED BY <2>2, <2>4, <2>7
<1>7. Hits(name) = {Len(ns)}
  BY <1>5, <1>6
<1>8. Min(Hits(name)) = Len(ns)
  BY <1>2, <1>7 DEF Min
<1> QED BY <1>2, <1>4, <1>7, <1>8 DEF Resolve

\* The lookup finds a store exactly if it is in the trie and owns the name.
LEMMA ResolveOwner ==
    ASSUME LayoutTypeOK, Placed, Disjoint, NEW name \in Seq(Components)
    PROVE  /\ Resolve(name) \in StoreIndexes \cup {NoStore}
           /\ \A i \in StoreIndexes : Resolve(name) = i <=> i < next /\ Owns(i, name)
<1>1. ASSUME Resolve(name) # NoStore
      PROVE  \E j \in StoreIndexes : Resolve(name) = j /\ j < next /\ Owns(j, name)
  <2>1. PICK k \in Hits(name) : TRUE
    BY <1>1 DEF Resolve
  <2> DEFINE cut == SubSeq(name, 1, k)
  <2>2. k \in 0..Len(name) /\ StoreAt(cut) # NoStore
    BY <2>1 DEF Hits
  <2>3. cut \in Seq(Components) /\ IsPrefix(cut, name)
    BY <2>2, CutIsPrefix
  <2>4. PICK j \in StoreIndexes : StoreAt(cut) = j
    BY <2>2, <2>3 DEF Placed
  <2>5. j < next /\ Owns(j, name)
    BY <2>3, <2>4 DEF Placed, Owns
  <2>6. Resolve(name) = j
    BY <2>5, OwnerFound
  <2> QED BY <2>5, <2>6
<1>2. NoStore \notin StoreIndexes
  BY Declarations
<1>3. \A i \in StoreIndexes : i < next /\ Owns(i, name) => Resolve(name) = i
  BY OwnerFound
<1> QED BY <1>1, <1>2, <1>3

\* The overlap check sees every overlap with a store already in the trie.
LEMMA OverlapsIff ==
    ASSUME LayoutTypeOK, Placed, next \in StoreIndexes
    PROVE  Overlaps(stores[next].namespace) <=>
             \E j \in StoreIndexes :
                /\ j < next
                /\ Owns(j, stores[next].namespace) \/ Owns(next, stores[j].namespace)
<1> DEFINE ns == stores[next].namespace
<1>1. ns \in Seq(Components) /\ Len(ns) \in Nat /\ NoStore \notin StoreIndexes
  BY Declarations, LenProperties
<1>2. ASSUME AncestorTaken(ns)
      PROVE  \E j \in StoreIndexes : j < next /\ Owns(j, ns)
  <2>1. PICK k \in 0..(Len(ns) - 1) : StoreAt(SubSeq(ns, 1, k)) # NoStore
    BY <1>2 DEF AncestorTaken
  <2>2. k \in 0..Len(ns)
    BY <1>1, <2>1
  <2>3. SubSeq(ns, 1, k) \in Seq(Components) /\ IsPrefix(SubSeq(ns, 1, k), ns)
    BY <1>1, <2>2, CutIsPrefix
  <2>4. PICK j \in StoreIndexes : StoreAt(SubSeq(ns, 1, k)) = j
    BY <2>1, <2>3 DEF Placed
  <2> QED BY <2>3, <2>4 DEF Placed, Owns
<1>3. ASSUME SubtreeTaken(ns)
      PROVE  \E j \in StoreIndexes : j < next /\ Owns(next, stores[j].namespace)
  <2>1. PICK path \in DOMAIN router : IsPrefix(ns, path) /\ router[path] # NoStore
    BY <1>3 DEF SubtreeTaken
  <2>2. path \in Seq(Components) /\ StoreAt(path) # NoStore
    BY <2>1 DEF Placed, StoreAt
  <2>3. PICK j \in StoreIndexes : StoreAt(path) = j
    BY <2>2 DEF Placed
  <2> QED BY <2>1, <2>2, <2>3 DEF Placed, Owns
<1>4. ASSUME NEW j \in StoreIndexes, j < next
      PROVE  /\ stores[j].namespace \in Seq(Components)
             /\ StoreAt(stores[j].namespace) = j
             /\ stores[j].namespace \in DOMAIN router
             /\ router[stores[j].namespace] # NoStore
  <2>1. stores[j].namespace \in Seq(Components)
    BY Declarations
  <2>2. StoreAt(stores[j].namespace) = j
    BY <1>4, <2>1 DEF Placed
  <2> QED BY <1>1, <2>1, <2>2 DEF StoreAt
<1>5. ASSUME NEW j \in StoreIndexes, j < next, Owns(next, stores[j].namespace)
      PROVE  SubtreeTaken(ns)
  BY <1>4, <1>5 DEF SubtreeTaken, Owns
<1>6. ASSUME NEW j \in StoreIndexes, j < next, Owns(j, ns)
      PROVE  AncestorTaken(ns) \/ SubtreeTaken(ns)
  <2> DEFINE above == stores[j].namespace
  <2>1. above \in Seq(Components) /\ StoreAt(above) = j /\ IsPrefix(above, ns)
    BY <1>4, <1>6 DEF Owns
  <2>2. Len(above) \in 0..Len(ns) /\ SubSeq(ns, 1, Len(above)) = above
    BY <1>1, <2>1, PrefixIsCut
  <2>3. CASE Len(above) = Len(ns)
    <3>1. above = ns
      BY <1>1, <2>2, <2>3, SubSeqFull
    <3>2. IsPrefix(ns, above)
      BY <1>1, <3>1, PrefixReflexive
    <3> QED BY <1>4, <1>6, <3>2 DEF SubtreeTaken
  <2>4. CASE Len(above) # Len(ns)
    <3>1. Len(above) \in 0..(Len(ns) - 1)
      BY <1>1, <2>2, <2>4
    <3>2. StoreAt(SubSeq(ns, 1, Len(above))) # NoStore
      BY <1>1, <2>1, <2>2
    <3> QED BY <3>1, <3>2 DEF AncestorTaken
  <2> QED BY <2>3, <2>4
<1> QED BY <1>2, <1>3, <1>5, <1>6 DEF Overlaps

----------------------------------------------------------------------------
(***************************************************************************)
(* The layout invariant, action by action.                                 *)
(***************************************************************************)

LEMMA LayoutInitInv ==
    ASSUME LayoutInit
    PROVE  LayoutInv
<1>1. stores \in Seq(StoreConfigs)
  BY LayoutConstants DEF LayoutInit
<1>2. Len(stores) \in Nat
  BY <1>1, LenProperties
<1>3. DOMAIN router = {<<>>} /\ router[<<>>] = NoStore
  BY DEF LayoutInit, EmptyRouter
<1>4. \A path : StoreAt(path) = NoStore
  BY <1>3 DEF StoreAt
<1>5. <<>> \in Seq(Components)
  BY EmptySeq
<1>6. LayoutTypeOK
  BY <1>2, <1>3, <1>5 DEF LayoutInit, LayoutTypeOK, Phases
<1>7. Placed
  <2>1. NoStore \notin StoreIndexes /\ StoreIndexes = 1..Len(stores)
    BY <1>6, Declarations
  <2>2. \A i \in StoreIndexes : ~(i < next)
    BY <1>2, <2>1 DEF LayoutInit
  <2> QED BY <1>3, <1>4, <1>5, <2>1, <2>2 DEF Placed
<1>8. Disjoint
  <2>1. StoreIndexes = 1..Len(stores)
    BY <1>6, Declarations
  <2> QED BY <1>2, <2>1 DEF LayoutInit, Disjoint
<1> QED BY <1>6, <1>7, <1>8 DEF LayoutInit, LayoutInv, Progress, LayoutVerdict

\* Steps that leave the trie alone.
LEMMA SameRouter ==
    ASSUME LayoutTypeOK, Placed, Disjoint, UNCHANGED <<stores, next, router>>
    PROVE  Placed' /\ Disjoint'
BY DEF Placed, Disjoint, StoreAt, StoreIndexes, Owns

LEMMA CheckDeclarationInv ==
    ASSUME LayoutInv, CheckDeclaration
    PROVE  LayoutInv'
<1>1. LayoutTypeOK'
  BY DEF LayoutInv, LayoutTypeOK, CheckDeclaration, Phases, StoreIndexes
<1>2. Placed' /\ Disjoint'
  BY SameRouter DEF LayoutInv, CheckDeclaration
<1>3. Progress' /\ LayoutVerdict'
  BY DEF LayoutInv, CheckDeclaration, Progress, LayoutVerdict, DistinctIds,
         StoreIndexes
<1> QED BY <1>1, <1>2, <1>3 DEF LayoutInv

LEMMA InsertNamespaceInv ==
    ASSUME LayoutInv, InsertNamespace
    PROVE  LayoutInv'
<1> DEFINE ns == stores[next].namespace
<1> USE DEF LayoutInv
<1>1. /\ next \in StoreIndexes /\ phase = "inserting"
      /\ router' = WithStore(ns, next) /\ next' = next + 1
      /\ UNCHANGED <<phase, stores, globals>>
  BY DEF InsertNamespace
<1>2. /\ ns \in Seq(Components) /\ Len(ns) \in Nat
      /\ StoreIndexes = 1..Len(stores) /\ Len(stores) \in Nat
      /\ NoStore \notin StoreIndexes /\ next \in Nat
  BY <1>1, Declarations, LenProperties
<1>3. ns \in Prefixes(ns) /\ Prefixes(ns) \subseteq Seq(Components)
  <2>1. Len(ns) \in 0..Len(ns) /\ SubSeq(ns, 1, Len(ns)) = ns
    BY <1>2, SubSeqFull
  <2>2. \A k \in 0..Len(ns) : SubSeq(ns, 1, k) \in Seq(Components)
    BY <1>2, CutIsPrefix
  <2> QED BY <2>1, <2>2 DEF Prefixes
<1>4. DOMAIN router' = DOMAIN router \cup Prefixes(ns)
  BY <1>1 DEF WithStore
<1>5. ASSUME NEW path \in Seq(Components)
      PROVE  StoreAt(path)' = IF path = ns THEN next ELSE StoreAt(path)
  <2>1. CASE path \in DOMAIN router'
    BY <1>1, <1>4, <2>1 DEF WithStore, StoreAt
  <2>2. CASE path \notin DOMAIN router'
    BY <1>3, <1>4, <2>2 DEF StoreAt
  <2> QED BY <2>1, <2>2
<1>6. StoreIndexes' = StoreIndexes /\ \A i, name : Owns(i, name)' = Owns(i, name)
  BY <1>1 DEF StoreIndexes, Owns
<1>7. \A j \in StoreIndexes :
        j < next => ~Owns(j, ns) /\ ~Owns(next, stores[j].namespace)
  BY <1>1, OverlapsIff DEF InsertNamespace
<1>8. \A i \in StoreIndexes : i \in Nat /\ (i < next' <=> i < next \/ i = next)
  BY <1>1, <1>2
<1>9. LayoutTypeOK'
  <2>1. next' \in 1..(Len(stores') + 1)
    BY <1>1, <1>2
  <2>2. DOMAIN router' \subseteq Seq(Components)
    BY <1>3, <1>4 DEF LayoutTypeOK
  <2>3. \A path \in DOMAIN router' : router'[path] \in StoreIndexes \cup {NoStore}
    <3>1. \A path \in DOMAIN router' : router'[path] = StoreAt(path)'
      BY DEF StoreAt
    <3> QED BY <1>1, <1>5, <2>2, <3>1 DEF Placed
  <2> QED BY <1>1, <1>6, <2>1, <2>2, <2>3 DEF LayoutTypeOK
<1>10. Placed'
  <2>1. DOMAIN router' \subseteq Seq(Components)
    BY <1>9 DEF LayoutTypeOK
  <2>2. ASSUME NEW path \in Seq(Components)
        PROVE  StoreAt(path)' \in StoreIndexes \cup {NoStore}
    BY <1>1, <1>5, <2>2 DEF Placed
  <2>3. ASSUME NEW path \in Seq(Components), NEW i \in StoreIndexes
        PROVE  StoreAt(path)' = i <=> i < next' /\ path = stores[i].namespace
    <3>1. CASE path = ns
      <4>1. ~(i < next /\ path = stores[i].namespace)
        <5>1. ASSUME i < next, path = stores[i].namespace PROVE FALSE
          <6>1. ~Owns(i, ns)
            BY <1>7, <5>1
          <6> QED BY <1>2, <3>1, <5>1, <6>1, PrefixReflexive DEF Owns
        <5> QED BY <5>1
      <4> QED BY <1>5, <1>8, <3>1, <4>1
    <3>2. CASE path # ns
      BY <1>5, <1>8, <3>2 DEF Placed
    <3> QED BY <3>1, <3>2
  <2> QED BY <1>1, <1>6, <2>1, <2>2, <2>3 DEF Placed
<1>11. Disjoint'
  <2>1. ASSUME NEW i \in StoreIndexes, NEW j \in StoreIndexes,
               i < next', j < next', Owns(i, stores[j].namespace)
        PROVE  i = j
    <3>1. CASE i < next /\ j < next
      BY <2>1, <3>1 DEF Disjoint
    <3>2. CASE i = next \/ j = next
      BY <1>7, <1>8, <2>1, <3>2
    <3> QED BY <1>8, <2>1, <3>1, <3>2
  <2> QED BY <1>1, <1>6, <2>1 DEF Disjoint
<1>12. Progress' /\ LayoutVerdict'
  BY <1>1, <1>6 DEF Progress, LayoutVerdict, DistinctIds, NoOverlap
<1> QED BY <1>9, <1>10, <1>11, <1>12

LEMMA RefuseOverlapInv ==
    ASSUME LayoutInv, RefuseOverlap
    PROVE  LayoutInv'
<1> USE DEF LayoutInv
<1>1. LayoutTypeOK'
  BY DEF LayoutTypeOK, RefuseOverlap, Phases, StoreIndexes
<1>2. Placed' /\ Disjoint'
  BY SameRouter DEF RefuseOverlap
<1>3. ~NoOverlap
  <2>1. next \in StoreIndexes /\ Overlaps(stores[next].namespace)
    BY DEF RefuseOverlap
  <2>2. PICK j \in StoreIndexes :
           /\ j < next
           /\ Owns(j, stores[next].namespace) \/ Owns(next, stores[j].namespace)
    BY <2>1, OverlapsIff
  <2>3. j # next
    BY <2>2, Declarations
  <2> QED BY <2>1, <2>2, <2>3 DEF NoOverlap
<1>4. Progress' /\ LayoutVerdict'
  BY <1>3 DEF RefuseOverlap, Progress, LayoutVerdict, DistinctIds, NoOverlap, Owns,
              StoreIndexes
<1> QED BY <1>1, <1>2, <1>4

LEMMA FinishLayoutInv ==
    ASSUME LayoutInv, FinishLayout
    PROVE  LayoutInv'
<1> USE DEF LayoutInv
<1>1. LayoutTypeOK'
  BY DEF LayoutTypeOK, FinishLayout, Phases, StoreIndexes
<1>2. Placed' /\ Disjoint'
  BY SameRouter DEF FinishLayout
<1>3. next = Len(stores) + 1 /\ \A i \in StoreIndexes : i < next
  BY Declarations DEF FinishLayout, LayoutTypeOK
<1>4. NoOverlap
  BY <1>3 DEF Disjoint, NoOverlap
<1>5. Progress' /\ LayoutVerdict'
  BY <1>3, <1>4 DEF FinishLayout, Progress, LayoutVerdict, DistinctIds, NoOverlap,
                    Owns, StoreIndexes
<1> QED BY <1>1, <1>2, <1>5

\* Steps of a built layout: only the phase and the global ids change.
LEMMA BuiltLayoutInv ==
    ASSUME LayoutInv, phase \in {"built", "assigning", "serving", "rejected"},
           phase' \in {"built", "assigning", "serving", "rejected"},
           globals' \subseteq PolicyIds, UNCHANGED <<stores, next, router>>
    PROVE  LayoutInv'
<1> USE DEF LayoutInv
<1>1. LayoutTypeOK'
  BY DEF LayoutTypeOK, Phases, StoreIndexes
<1>2. Placed' /\ Disjoint'
  BY SameRouter
<1>3. Progress' /\ LayoutVerdict'
  BY DEF Progress, LayoutVerdict, DistinctIds, NoOverlap, Owns, StoreIndexes
<1> QED BY <1>1, <1>2, <1>3

LEMMA SameLayoutInv ==
    ASSUME LayoutInv, UNCHANGED layoutVars
    PROVE  LayoutInv'
BY DEF layoutVars, LayoutInv, LayoutTypeOK, Placed, Disjoint, Progress, LayoutVerdict,
       StoreAt, StoreIndexes, DistinctIds, NoOverlap, Owns

LEMMA LayoutStep ==
    ASSUME LayoutInv, LayoutNext
    PROVE  LayoutInv'
<1>1. ASSUME NEW id \in PolicyIds, RegisterGlobal(id)
      PROVE  LayoutInv'
  <2>1. globals \subseteq PolicyIds
    BY DEF LayoutInv, LayoutTypeOK
  <2> QED BY <1>1, <2>1, BuiltLayoutInv DEF RegisterGlobal
<1> QED BY <1>1, CheckDeclarationInv, InsertNamespaceInv, RefuseOverlapInv,
           FinishLayoutInv DEF LayoutNext

----------------------------------------------------------------------------
(***************************************************************************)
(* The partition invariant: the loop so far did what the rules say.        *)
(***************************************************************************)

Done == Policies \ pending

SoFar ==
    phase \in {"assigning", "serving"} =>
        /\ \A p \in Done : Assignable(p)
        /\ \A i \in StoreIndexes : installed[i] = { p \in Done : Belongs(p, i) }
        /\ found = { source[p].id : p \in Done } \cap globals

Inv == LayoutInv /\ TypeOK /\ SoFar /\ PartitionFollowsRules

LEMMA PolicyFields ==
    ASSUME TypeOK, NEW p \in Policies
    PROVE  /\ source[p].id \in PolicyIds \cup {NoId}
           /\ source[p].store \in Annotations
           /\ References(p) \subseteq Seq(Components)
<1>1. source[p] \in Policy
  BY StoresConstants DEF TypeOK
<1> QED BY <1>1, LayoutConstants DEF Policy, References, ActionReferences

\* The candidates the router finds are the owners of the references.
LEMMA CandidatesAreOwners ==
    ASSUME LayoutInv, TypeOK, next = Len(stores) + 1, NEW p \in Policies
    PROVE  Candidates(p) = Owners(p)
<1>1. References(p) \subseteq Seq(Components)
  BY PolicyFields
<1>2. \A i \in StoreIndexes : i < next
  BY Declarations DEF LayoutInv
<1>3. ASSUME NEW name \in References(p)
      PROVE  /\ Resolve(name) \in StoreIndexes \cup {NoStore}
             /\ \A i \in StoreIndexes : Resolve(name) = i <=> Owns(i, name)
  BY <1>1, <1>2, ResolveOwner DEF LayoutInv
<1>4. NoStore \notin StoreIndexes
  BY Declarations DEF LayoutInv
<1> QED BY <1>3, <1>4 DEF Candidates, Owners

LEMMA OneElement ==
    ASSUME NEW n \in Nat, NEW S, S \subseteq 1..n
    PROVE  /\ Cardinality(S) \in Nat
           /\ Cardinality(S) = 0 <=> S = {}
           /\ \A x : S \subseteq {x} => Cardinality(S) <= 1
<1>1. IsFiniteSet(1..n)
  BY FS_Interval
<1>2. IsFiniteSet(S)
  BY <1>1, FS_Subset
<1>3. Cardinality(S) \in Nat /\ (Cardinality(S) = 0 <=> S = {})
  BY <1>2, FS_CardinalityType, FS_EmptySet
<1>4. ASSUME NEW x, S \subseteq {x} PROVE Cardinality(S) <= 1
  <2>1. IsFiniteSet({x}) /\ Cardinality({x}) = 1 /\ S \in SUBSET {x}
    BY <1>4, FS_Singleton
  <2>2. Cardinality(S) <= Cardinality({x})
    BY <2>1, FS_Subset
  <2> QED BY <2>1, <2>2
<1> QED BY <1>3, <1>4

\* The checks of one iteration are the documented rules.
LEMMA RulesChecked ==
    ASSUME LayoutInv, TypeOK, phase \in {"assigning", "serving"}, NEW p \in Policies
    PROVE  /\ Misassigned(p) <=> ~Assignable(p)
           /\ ~Misassigned(p) =>
                 \A i \in StoreIndexes : i \in TargetStores(p) <=> Belongs(p, i)
<1>1. next = Len(stores) + 1 /\ DistinctIds
  BY DEF LayoutInv, Progress
<1>2. Candidates(p) = Owners(p)
  BY <1>1, CandidatesAreOwners
<1>3. Len(stores) \in Nat /\ StoreIndexes = 1..Len(stores)
  BY Declarations DEF LayoutInv
<1>4. Owners(p) \subseteq StoreIndexes
  BY DEF Owners
<1>5. /\ Cardinality(Owners(p)) \in Nat
      /\ Cardinality(Owners(p)) = 0 <=> Owners(p) = {}
      /\ \A x : Owners(p) \subseteq {x} => Cardinality(Owners(p)) <= 1
  BY <1>3, <1>4, OneElement
<1>6. Cardinality(Owners(p)) = 1 <=> ~(Cardinality(Owners(p)) > 1) /\ Owners(p) # {}
  BY <1>5
<1>7. source[p].store = AllStores => ~NamesStore(p)
  BY StoresConstants DEF NamesStore
<1>8. CASE ~NamesStore(p)
  BY <1>2, <1>6, <1>7, <1>8 DEF Misassigned, Assignable, TargetStores, Belongs, Global
<1>9. CASE NamesStore(p)
  <2>1. ASSUME NEW i \in StoreIndexes, stores[i].id = source[p].store
        PROVE  ExplicitStore(p) = {i}
    BY <1>1, <2>1 DEF ExplicitStore, DistinctIds
  <2>2. CASE ExplicitStore(p) = {}
    BY <1>7, <1>9, <2>2 DEF Misassigned, Assignable, ExplicitStore, Global
  <2>3. CASE ExplicitStore(p) # {}
    <3>1. PICK i \in StoreIndexes : stores[i].id = source[p].store
      BY <2>3 DEF ExplicitStore
    <3>2. ExplicitStore(p) = {i}
      BY <2>1, <3>1
    <3>3. \A j \in StoreIndexes : stores[j].id = source[p].store <=> j = i
      BY <3>2 DEF ExplicitStore
    <3>4. Global(p) <=> RegisteredGlobal(p)
      BY <1>7, <1>9 DEF Global
    <3>5. Misassigned(p) <=>
            RegisteredGlobal(p) \/ Cardinality(Owners(p)) > 1 \/ ~(Owners(p) \subseteq {i})
      BY <1>2, <1>9, <3>2, <3>4 DEF Misassigned
    <3>6. Owners(p) \subseteq {i} => ~(Cardinality(Owners(p)) > 1)
      BY <1>5
    <3>7. Assignable(p) <=> ~RegisteredGlobal(p) /\ Owners(p) \subseteq {i}
      BY <1>7, <1>9, <3>1, <3>3 DEF Assignable
    <3>8. ~Misassigned(p) => TargetStores(p) = {i}
      BY <1>9, <3>2, <3>4, <3>5 DEF TargetStores
    <3>9. ~Misassigned(p) => \A j \in StoreIndexes : Belongs(p, j) <=> j = i
      BY <1>9, <3>3, <3>4, <3>5 DEF Belongs
    <3> QED BY <3>5, <3>6, <3>7, <3>8, <3>9
  <2> QED BY <2>2, <2>3
<1> QED BY <1>8, <1>9

LEMMA InitInv ==
    ASSUME Init
    PROVE  Inv
<1>1. LayoutInv
  BY LayoutInitInv DEF Init
<1> QED BY <1>1 DEF Init, LayoutInit, PartitionInit, LayoutInv, Inv, TypeOK, SoFar,
                    PartitionFollowsRules

\* What the rules say depends on nothing the loop changes.
LEMMA SameRules ==
    ASSUME UNCHANGED <<stores, globals, source>>
    PROVE  /\ StoreIndexes' = StoreIndexes
           /\ \A p : Assignable(p)' = Assignable(p)
           /\ \A p, i : Belongs(p, i)' = Belongs(p, i)
BY DEF StoreIndexes, Assignable, Belongs, Owners, References, ActionReferences, Owns,
       RegisteredGlobal, NamesStore, Global

LEMMA LayoutNextInv ==
    ASSUME Inv, LayoutNext, UNCHANGED partitionVars
    PROVE  Inv'
<1>1. LayoutInv'
  BY LayoutStep DEF Inv
<1>2. phase' \in {"inserting", "invalid", "built"}
  BY DEF LayoutNext, CheckDeclaration, InsertNamespace, RefuseOverlap, FinishLayout,
         RegisterGlobal
<1>3. TypeOK'
  BY <1>1, <1>2 DEF LayoutInv, Inv, TypeOK, partitionVars
<1> QED BY <1>1, <1>2, <1>3 DEF Inv, SoFar, PartitionFollowsRules

LEMMA StartPartitionInv ==
    ASSUME Inv, StartPartition
    PROVE  Inv'
<1>1. LayoutInv'
  BY BuiltLayoutInv DEF Inv, StartPartition, LayoutInv, LayoutTypeOK
<1>2. StoreIndexes' = StoreIndexes
  BY DEF StartPartition, StoreIndexes
<1>3. TypeOK'
  BY <1>1, <1>2 DEF LayoutInv, Inv, TypeOK, StartPartition
<1>4. Done' = {}
  BY DEF StartPartition, Done
<1>5. SoFar' /\ PartitionFollowsRules'
  BY <1>2, <1>4 DEF StartPartition, SoFar, PartitionFollowsRules
<1> QED BY <1>1, <1>3, <1>5 DEF Inv

LEMMA AssignPolicyInv ==
    ASSUME Inv, NEW p \in Policies, AssignPolicy(p)
    PROVE  Inv'
<1>1. /\ phase = "assigning" /\ phase' = "assigning" /\ p \in pending
      /\ ~Misassigned(p)
      /\ UNCHANGED <<layoutVars, stores, globals, source>>
  BY DEF AssignPolicy, layoutVars
<1>2. LayoutInv'
  BY <1>1, SameLayoutInv DEF Inv
<1>3. /\ StoreIndexes' = StoreIndexes
      /\ \A q : Assignable(q)' = Assignable(q)
      /\ \A q, i : Belongs(q, i)' = Belongs(q, i)
  BY <1>1, SameRules
<1>4. Done' = Done \cup {p} /\ p \notin Done
  BY <1>1 DEF AssignPolicy, Done, Inv, TypeOK
<1>5. /\ Assignable(p)
      /\ \A i \in StoreIndexes : i \in TargetStores(p) <=> Belongs(p, i)
  BY <1>1, RulesChecked DEF Inv
<1>6. TypeOK'
  <2>1. found' \subseteq PolicyIds
    BY DEF AssignPolicy, Inv, TypeOK, LayoutInv, LayoutTypeOK
  <2>2. installed' \in [StoreIndexes -> SUBSET Policies]
    BY <1>1 DEF AssignPolicy, Inv, TypeOK
  <2> QED BY <1>1, <1>2, <1>3, <2>1, <2>2 DEF AssignPolicy, Inv, TypeOK, LayoutInv
<1>7. SoFar'
  <2>1. \A q \in Done' : Assignable(q)'
    BY <1>1, <1>3, <1>4, <1>5 DEF Inv, SoFar
  <2>2. ASSUME NEW i \in StoreIndexes
        PROVE  installed'[i] = { q \in Done' : Belongs(q, i) }
    <3>1. installed[i] = { q \in Done : Belongs(q, i) }
      BY <1>1 DEF Inv, SoFar
    <3>2. installed'[i] = IF i \in TargetStores(p) THEN installed[i] \cup {p} ELSE installed[i]
      BY DEF AssignPolicy
    <3> QED BY <1>4, <1>5, <3>1, <3>2
  <2>3. found' = { source[q].id : q \in Done' } \cap globals
    <3>1. found = { source[q].id : q \in Done } \cap globals
      BY <1>1 DEF Inv, SoFar
    <3>2. found' = found \cup ({source[p].id} \cap globals)
      BY DEF AssignPolicy
    <3> QED BY <1>4, <3>1, <3>2
  <2> QED BY <1>1, <1>3, <2>1, <2>2, <2>3 DEF SoFar
<1>8. PartitionFollowsRules'
  BY <1>1 DEF PartitionFollowsRules
<1> QED BY <1>2, <1>6, <1>7, <1>8 DEF Inv

LEMMA RefusePolicyInv ==
    ASSUME Inv, NEW p \in Policies, RefusePolicy(p)
    PROVE  Inv'
<1>1. /\ phase = "assigning" /\ phase' = "rejected" /\ Misassigned(p)
      /\ UNCHANGED <<stores, next, router, globals, source, pending, found, installed>>
  BY DEF RefusePolicy, partitionVars
<1>2. LayoutInv'
  BY <1>1, BuiltLayoutInv DEF Inv, LayoutInv, LayoutTypeOK
<1>3. ~Assignable(p)
  BY <1>1, RulesChecked DEF Inv
<1>4. ~Assignable(p)'
  BY <1>1, <1>3, SameRules
<1>5. TypeOK'
  BY <1>1, <1>2 DEF Inv, TypeOK, LayoutInv
<1> QED BY <1>1, <1>2, <1>4, <1>5 DEF Inv, SoFar, PartitionFollowsRules

LEMMA FinishPartitionInv ==
    ASSUME Inv, FinishPartition
    PROVE  Inv'
<1>1. /\ phase = "assigning" /\ pending = {}
      /\ phase' = IF globals \subseteq found THEN "serving" ELSE "rejected"
      /\ UNCHANGED <<stores, next, router, globals, source, pending, found, installed>>
  BY DEF FinishPartition, partitionVars
<1>2. LayoutInv'
  BY <1>1, BuiltLayoutInv DEF Inv, LayoutInv, LayoutTypeOK
<1>3. /\ StoreIndexes' = StoreIndexes
      /\ \A q : Assignable(q)' = Assignable(q)
      /\ \A q, i : Belongs(q, i)' = Belongs(q, i)
  BY <1>1, SameRules
<1>4. TypeOK'
  BY <1>1, <1>2, <1>3 DEF Inv, TypeOK, LayoutInv
<1>5. Done = Policies /\ Done' = Done
  BY <1>1 DEF Done
<1>6. SoFar'
  BY <1>1, <1>3, <1>5 DEF Inv, SoFar
<1>7. PartitionFollowsRules'
  <2>1. found = { source[q].id : q \in Policies } \cap globals
    BY <1>1, <1>5 DEF Inv, SoFar
  <2>2. globals \subseteq found <=> globals \subseteq { source[q].id : q \in Policies }
    BY <2>1
  <2> QED BY <1>1, <1>3, <1>5, <2>2 DEF Inv, SoFar, PartitionFollowsRules
<1> QED BY <1>2, <1>4, <1>6, <1>7 DEF Inv

LEMMA StutterInv ==
    ASSUME Inv, UNCHANGED vars
    PROVE  Inv'
<1>1. UNCHANGED layoutVars /\ UNCHANGED <<stores, globals, source>>
      /\ UNCHANGED <<phase, next, router, pending, found, installed>>
  BY DEF vars, layoutVars, partitionVars
<1>2. LayoutInv'
  BY <1>1, SameLayoutInv DEF Inv
<1>3. /\ StoreIndexes' = StoreIndexes
      /\ \A q : Assignable(q)' = Assignable(q)
      /\ \A q, i : Belongs(q, i)' = Belongs(q, i)
  BY <1>1, SameRules
<1>4. TypeOK'
  BY <1>1, <1>2, <1>3 DEF Inv, TypeOK, LayoutInv
<1>5. SoFar' /\ PartitionFollowsRules'
  BY <1>1, <1>3 DEF Inv, SoFar, PartitionFollowsRules, Done
<1> QED BY <1>2, <1>4, <1>5 DEF Inv

\* Inv is an inductive invariant of the specification.
THEOREM Invariance == Spec => []Inv
<1>1. Init => Inv
  BY InitInv
<1>2. Inv /\ [Next]_vars => Inv'
  BY LayoutNextInv, StartPartitionInv, AssignPolicyInv, RefusePolicyInv,
     FinishPartitionInv, StutterInv DEF Next
<1> QED BY <1>1, <1>2, PTL DEF Spec

----------------------------------------------------------------------------
(***************************************************************************)
(* The theorems.                                                           *)
(***************************************************************************)

\* Type correctness of layout construction and partitioning.
THEOREM TypeCorrect == Spec => []TypeOK
<1>1. Inv => TypeOK
  BY DEF Inv
<1> QED BY <1>1, Invariance, PTL

\* At every moment the router resolves a name to the one inserted store that
\* owns it (NamespaceRouter::insert, resolve).
THEOREM RouterCorrect == Spec => []RouterFindsOwner
<1>1. Inv => RouterFindsOwner
  BY ResolveOwner, LayoutConstants DEF Inv, LayoutInv, RouterFindsOwner
<1> QED BY <1>1, Invariance, PTL

\* PolicyStoreLayout::new accepts exactly the nonempty, duplicate-free and
\* overlap-free declarations.
THEOREM LayoutCorrect == Spec => []LayoutVerdict
<1>1. Inv => LayoutVerdict
  BY DEF Inv, LayoutInv
<1> QED BY <1>1, Invariance, PTL

\* partition_policy_set accepts and places exactly as the rules say, in
\* whatever order the policies come.
THEOREM PartitionCorrect == Spec => []PartitionFollowsRules
<1>1. Inv => PartitionFollowsRules
  BY DEF Inv
<1> QED BY <1>1, Invariance, PTL

\* While requests are served, a routed request goes to an existing store.
LEMMA RouteType ==
    ASSUME Inv, NEW r \in Requests, Route(r) # NoStore
    PROVE  Route(r) \in StoreIndexes
<1>1. r.namespace \in Seq(Components) /\ r.resource \in Seq(Components)
  BY LayoutConstants, StoresConstants DEF Request
<1>2. /\ ActionStore(r) \in StoreIndexes \cup {NoStore}
      /\ ResourceStore(r) \in StoreIndexes \cup {NoStore}
  BY <1>1, ResolveOwner DEF Inv, LayoutInv, ActionStore, ResourceStore
<1> QED BY <1>2 DEF Route

\* Where the deciding stores stand when requests are served.
LEMMA Serving ==
    ASSUME Inv, phase = "serving"
    PROVE  /\ \A i \in StoreIndexes : i < next
           /\ \A p \in Policies, i \in StoreIndexes : p \in installed[i] <=> Belongs(p, i)
           /\ \A i \in StoreIndexes : installed[i] \subseteq Policies
<1>1. next = Len(stores) + 1
  BY DEF Inv, LayoutInv, Progress
<1>2. \A i \in StoreIndexes : i < next
  BY <1>1, Declarations DEF Inv, LayoutInv
<1> QED BY <1>2 DEF Inv, PartitionFollowsRules

\* A forbid installed in every store denies every request that satisfies it,
\* wherever the request is routed (evaluate_state).
THEOREM GlobalForbidsCorrect == Spec => []GlobalForbidsPrevail
<1>1. ASSUME Inv PROVE GlobalForbidsPrevail
  <2>1. ASSUME phase = "serving", NEW r \in Requests, NEW p \in Policies,
               Global(p), source[p].effect = "forbid", Satisfied(p, r),
               Route(r) # NoStore
        PROVE  Evaluate(r).decision = "deny" /\ p \in Evaluate(r).reasons
    <3>1. Route(r) \in StoreIndexes
      BY <1>1, <2>1, RouteType
    <3>2. p \in installed[Route(r)]
      BY <1>1, <2>1, <3>1, Serving DEF Belongs
    <3>3. p \in { q \in installed[Route(r)] : source[q].effect = "forbid" /\ Satisfied(q, r) }
      BY <2>1, <3>2
    <3> QED BY <3>3 DEF Evaluate, Decide
  <2> QED BY <2>1 DEF GlobalForbidsPrevail
<1> QED BY <1>1, Invariance, PTL

\* A policy that is anchored in a store is satisfied only by requests that go
\* to that store or nowhere.
LEMMA AnchoredRoutes ==
    ASSUME Inv, phase = "serving", NEW p \in Policies, NEW r \in Requests,
           Anchored(p, r), Satisfied(p, r), Route(r) # NoStore
    PROVE  Belongs(p, Route(r))
<1>1. PICK i \in StoreIndexes :
         /\ Belongs(p, i)
         /\ \/ \E name \in source[p].resource : Owns(i, name)
            \/ /\ ~source[p].anyAction /\ Segmented(r)
               /\ \A name \in source[p].action : Owns(i, Front(name))
  BY DEF Anchored
<1>2. i < next /\ i # NoStore
  BY Serving, Declarations DEF Inv, LayoutInv
<1>3. r.namespace \in Seq(Components) /\ r.resource \in Seq(Components)
  BY LayoutConstants, StoresConstants DEF Request
<1>4. CASE \E name \in source[p].resource : Owns(i, name)
  <2>1. Owns(i, r.resource)
    BY <1>4 DEF Satisfied
  <2>2. ResourceStore(r) = i
    BY <1>2, <1>3, <2>1, ResolveOwner DEF Inv, LayoutInv, ResourceStore
  <2>3. Route(r) = i
    BY <1>2, <2>2 DEF Route
  <2> QED BY <1>1, <2>3
<1>5. CASE /\ ~source[p].anyAction /\ Segmented(r)
           /\ \A name \in source[p].action : Owns(i, Front(name))
  <2>1. Owns(i, Front(ActionType(r)))
    BY <1>5 DEF Satisfied
  <2>2. Owns(i, r.namespace)
    BY <1>5, <2>1 DEF Segmented
  <2>3. ActionStore(r) = i
    BY <1>2, <1>3, <2>2, ResolveOwner DEF Inv, LayoutInv, ActionStore
  <2>4. Route(r) = i
    BY <1>2, <2>3 DEF Route
  <2> QED BY <1>1, <2>4
<1> QED BY <1>1, <1>4, <1>5

\* If every local policy is anchored in its store, by its resource or, for a
\* request whose action namespace is given one identifier at a time, by its
\* actions, routing changes neither the decision nor its reasons.
THEOREM RoutingCorrect == Spec => []RoutingPreservesDecisions
<1>1. ASSUME Inv PROVE RoutingPreservesDecisions
  <2>1. ASSUME phase = "serving", NEW r \in Requests, Route(r) # NoStore,
               \A p \in Policies : Global(p) \/ Anchored(p, r)
        PROVE  Evaluate(r) = Decide(Policies, r)
    <3>1. Route(r) \in StoreIndexes
      BY <1>1, <2>1, RouteType
    <3>2. ASSUME NEW p \in Policies, Satisfied(p, r)
          PROVE  p \in installed[Route(r)]
      <4>1. Belongs(p, Route(r))
        BY <1>1, <2>1, <3>2, AnchoredRoutes DEF Belongs
      <4> QED BY <1>1, <2>1, <3>1, <4>1, Serving
    <3>3. installed[Route(r)] \subseteq Policies
      BY <1>1, <2>1, <3>1, Serving
    <3>4. \A e : { p \in installed[Route(r)] : source[p].effect = e /\ Satisfied(p, r) }
                = { p \in Policies : source[p].effect = e /\ Satisfied(p, r) }
      BY <3>2, <3>3
    <3> QED BY <3>4 DEF Evaluate, Decide
  <2> QED BY <2>1 DEF RoutingPreservesDecisions
<1> QED BY <1>1, Invariance, PTL
==============================================================================
