------------------------- MODULE PolicyListingProofs -------------------------
(***************************************************************************)
(* Proofs about PolicyListing, for any policies, stores, requests and      *)
(* calls, and any publications while a call runs.                          *)
(***************************************************************************)
EXTENDS PolicyListing, TLAPS

----------------------------------------------------------------------------
(***************************************************************************)
(* The call, as far as it has come.                                        *)
(***************************************************************************)

Wanted(p) == p \in seen /\ Matches(p, ask, held.text)

Visited ==
    /\ ~Malformed(ask)
    /\ \A p \in Policies : hits[p] = IF Wanted(p) THEN 1 ELSE 0
    /\ \A i \in DOMAIN held.sets : i < store => held.sets[i] \subseteq seen
    /\ held.sets[store] \ pending \subseteq seen
    /\ store = 1 => pending \cap seen = {}

IInv ==
    /\ current \in Snapshots /\ held \in Snapshots /\ ask \in Asks
    /\ at \in {"idle", "visiting", "listed", "refused"}
    /\ store \in DOMAIN held.sets
    /\ pending \subseteq held.sets[store] /\ seen \subseteq DOMAIN held.text
    /\ hits \in [Policies -> Nat]
    /\ at \in {"visiting", "listed"} => Visited
    /\ at = "listed" => store = Len(held.sets) /\ pending = {}
    /\ CandidatesOnce

LEMMA SnapshotFacts ==
    ASSUME NEW s \in Snapshots
    PROVE  /\ Len(s.sets) \in Nat \ {0} /\ DOMAIN s.sets = 1..Len(s.sets)
           /\ 1 \in DOMAIN s.sets
           /\ \A i \in DOMAIN s.sets : s.sets[i] \subseteq DOMAIN s.text
           /\ DOMAIN s.text \subseteq Policies
           /\ \A p \in DOMAIN s.text : s.text[p] \in Policy
           /\ \A p \in DOMAIN s.text : \E i \in DOMAIN s.sets : p \in s.sets[i]
           /\ ~s.scoped => Len(s.sets) = 1
<1>1. IsSnapshot(s) /\ Len(s.sets) > 0 /\ UNION { s.sets[i] : i \in DOMAIN s.sets } = DOMAIN s.text
  BY ListingConstants, EverythingInstalled
<1>2. s.sets \in Seq(SUBSET DOMAIN s.text) /\ DOMAIN s.text \subseteq Policies
      /\ s.text \in [DOMAIN s.text -> Policy] /\ (~s.scoped => Len(s.sets) = 1)
  BY <1>1 DEF IsSnapshot
<1>3. Len(s.sets) \in Nat /\ DOMAIN s.sets = 1..Len(s.sets)
      /\ \A i \in 1..Len(s.sets) : s.sets[i] \in SUBSET DOMAIN s.text
  BY <1>2
<1> QED BY <1>1, <1>2, <1>3

LEMMA InitInv == Init => IInv
<1> SUFFICES ASSUME Init PROVE IInv
  OBVIOUS
<1>1. (CHOOSE a \in Asks : TRUE) \in Asks
  BY ListingConstants DEF Init
<1> QED BY <1>1, SnapshotFacts DEF Init, IInv, CandidatesOnce

(***************************************************************************)
(* A policy already counted is not counted again: what the code skips has  *)
(* been seen, and where it does not look (an undivided set) nothing comes  *)
(* twice.                                                                  *)
(***************************************************************************)
LEMMA VisitInv ==
    ASSUME IInv, NEW p \in Policies, VisitPolicy(p)
    PROVE  IInv'
<1>1. /\ at = "visiting" /\ p \in pending /\ pending' = pending \ {p} /\ seen' = seen \cup {p}
      /\ UNCHANGED <<current, at, ask, held, store>>
  BY DEF VisitPolicy
<1>2. Visited /\ held \in Snapshots /\ store \in DOMAIN held.sets
      /\ pending \subseteq held.sets[store] /\ hits \in [Policies -> Nat]
  BY <1>1 DEF IInv
<1>3. p \in held.sets[store] /\ p \in DOMAIN held.text
  BY <1>1, <1>2, SnapshotFacts
<1>4. ASSUME ~Repeated(p) PROVE p \notin seen
  <2>1. CASE p \in seen
    <3>1. ~held.scoped
      BY <1>4, <2>1 DEF Repeated
    <3>2. store = 1
      BY <3>1, <1>2, SnapshotFacts
    <3> QED BY <3>2, <1>1, <1>2 DEF Visited
  <2> QED BY <2>1
<1>5. ASSUME Repeated(p) PROVE p \in seen
  BY <1>5 DEF Repeated
<1>6. hits' \in [Policies -> Nat] /\ \A q \in Policies : hits'[q] = IF Wanted(q)' THEN 1 ELSE 0
  <2>1. \A q \in Policies : hits[q] = IF Wanted(q) THEN 1 ELSE 0
    BY <1>2 DEF Visited
  <2>2. \A q \in Policies \ {p} : Wanted(q)' <=> Wanted(q)
    BY <1>1 DEF Wanted
  <2>3. Wanted(p)' <=> Matches(p, ask, held.text)
    BY <1>1 DEF Wanted
  <2>4. CASE ~Repeated(p) /\ Matches(p, ask, held.text)
    <3>1. hits' = [hits EXCEPT ![p] = @ + 1]
      BY <2>4 DEF VisitPolicy
    <3>2. hits[p] = 0
      BY <2>1, <1>4, <2>4 DEF Wanted
    <3> QED BY <3>1, <3>2, <1>2, <2>1, <2>2, <2>3, <2>4
  <2>5. CASE ~(~Repeated(p) /\ Matches(p, ask, held.text))
    <3>1. hits' = hits
      BY <2>5 DEF VisitPolicy
    <3>2. Wanted(p) <=> Wanted(p)'
      BY <2>3, <2>5, <1>5 DEF Wanted
    <3> QED BY <3>1, <3>2, <1>2, <2>1, <2>2
  <2> QED BY <2>4, <2>5
<1>7. Visited'
  <2>1. \A i \in DOMAIN held.sets : i < store => held.sets[i] \subseteq seen'
    BY <1>1, <1>2 DEF Visited
  <2>2. held.sets[store] \ pending' \subseteq seen'
    BY <1>1, <1>2 DEF Visited
  <2>3. store = 1 => pending' \cap seen' = {}
    BY <1>1, <1>2 DEF Visited
  <2>4. ~Malformed(ask)
    BY <1>2 DEF Visited
  <2> QED BY <2>1, <2>2, <2>3, <2>4, <1>1, <1>6 DEF Visited
<1>8. CandidatesOnce'
  BY <1>6 DEF CandidatesOnce
<1> QED BY <1>1, <1>2, <1>3, <1>6, <1>7, <1>8 DEF IInv

LEMMA NextStoreInv ==
    ASSUME IInv, NextStore
    PROVE  IInv'
<1>1. /\ at = "visiting" /\ pending = {} /\ store < Len(held.sets)
      /\ store' = store + 1 /\ pending' = held.sets[store + 1]
      /\ UNCHANGED <<current, at, ask, held, seen, hits>>
  BY DEF NextStore
<1>2. held \in Snapshots /\ store \in 1..Len(held.sets) /\ Len(held.sets) \in Nat
      /\ DOMAIN held.sets = 1..Len(held.sets) /\ Visited
  BY <1>1, SnapshotFacts DEF IInv
<1>3. store + 1 \in DOMAIN held.sets /\ store + 1 # 1
  BY <1>1, <1>2
<1>4. \A i \in DOMAIN held.sets : i < store + 1 => held.sets[i] \subseteq seen
  <2> SUFFICES ASSUME NEW i \in 1..Len(held.sets), i < store + 1
               PROVE  held.sets[i] \subseteq seen
    BY <1>2
  <2>1. i < store \/ i = store
    BY <1>2
  <2> QED BY <2>1, <1>1, <1>2 DEF Visited
<1>5. \A p \in Policies : Wanted(p)' <=> Wanted(p)
  BY <1>1 DEF Wanted
<1>6. Visited'
  BY <1>1, <1>2, <1>3, <1>4, <1>5 DEF Visited
<1> QED BY <1>1, <1>3, <1>6 DEF IInv, CandidatesOnce

LEMMA BeginInv ==
    ASSUME IInv, NEW a \in Asks, at' \in {"visiting", "refused"},
           at' = "visiting" => ~Malformed(a), Fresh(a, current)
    PROVE  IInv'
<1>1. /\ ask' = a /\ held' = current /\ store' = 1 /\ pending' = current.sets[1]
      /\ seen' = {} /\ hits' = [p \in Policies |-> 0] /\ current' = current
  BY DEF Fresh
<1>2. current \in Snapshots
  BY DEF IInv
<1>3. 1 \in DOMAIN current.sets /\ DOMAIN current.sets = 1..Len(current.sets)
  BY <1>2, SnapshotFacts
<1>4. at' = "visiting" => Visited'
  BY <1>1, <1>3 DEF Visited, Wanted
<1> QED BY <1>1, <1>2, <1>3, <1>4 DEF IInv, CandidatesOnce

LEMMA StepInv == IInv /\ [Next]_vars => IInv'
<1> SUFFICES ASSUME IInv, [Next]_vars PROVE IInv'
  OBVIOUS
<1>1. CASE Publish
  <2>1. current' \in Snapshots /\ UNCHANGED callVars
    BY <1>1, ListingConstants DEF Publish
  <2> QED BY <2>1 DEF IInv, callVars, Visited, Wanted, CandidatesOnce
<1>2. ASSUME NEW a \in Asks, RefuseListing(a) PROVE IInv'
  BY <1>2, BeginInv DEF RefuseListing
<1>3. ASSUME NEW a \in Asks, BeginListing(a) PROVE IInv'
  BY <1>3, BeginInv DEF BeginListing
<1>4. ASSUME NEW p \in Policies, VisitPolicy(p) PROVE IInv'
  BY <1>4, VisitInv
<1>5. CASE NextStore
  BY <1>5, NextStoreInv
<1>6. CASE FinishListing
  BY <1>6 DEF FinishListing, IInv, Visited, Wanted, CandidatesOnce
<1>7. CASE Return
  BY <1>7 DEF Return, IInv, CandidatesOnce
<1>8. CASE UNCHANGED vars
  BY <1>8 DEF vars, callVars, IInv, Visited, Wanted, CandidatesOnce
<1> QED BY <1>1, <1>2, <1>3, <1>4, <1>5, <1>6, <1>7, <1>8 DEF Next

THEOREM Invariance == Spec => []IInv
BY InitInv, StepInv, PTL DEF Spec

(***************************************************************************)
(* Every variable of a listing call stays in its type.                     *)
(***************************************************************************)
THEOREM TypeCorrect == Spec => []TypeOK
<1>1. IInv => TypeOK
  <2> SUFFICES ASSUME IInv PROVE TypeOK
    OBVIOUS
  <2>1. IsSnapshot(current) /\ IsSnapshot(held)
    BY ListingConstants DEF IInv
  <2>2. pending \subseteq DOMAIN held.text
    BY SnapshotFacts DEF IInv
  <2> QED BY <2>1, <2>2 DEF IInv, TypeOK
<1> QED BY <1>1, Invariance, PTL

(***************************************************************************)
(* No listing names a policy twice, in however many stores it is           *)
(* installed.                                                              *)
(***************************************************************************)
THEOREM NoRepetition == Spec => []CandidatesOnce
<1>1. IInv => CandidatesOnce
  BY DEF IInv
<1> QED BY <1>1, Invariance, PTL

----------------------------------------------------------------------------
(***************************************************************************)
(* Matching against authorizing.                                           *)
(***************************************************************************)

LEMMA ListedAre ==
    ASSUME IInv, at = "listed"
    PROVE  Listed = { p \in DOMAIN held.text : Matches(p, ask, held.text) }
<1>1. held \in Snapshots /\ Visited /\ store = Len(held.sets) /\ pending = {}
      /\ seen \subseteq DOMAIN held.text /\ store \in DOMAIN held.sets
  BY DEF IInv
<1>2. \A i \in DOMAIN held.sets : held.sets[i] \subseteq seen
  <2> SUFFICES ASSUME NEW i \in DOMAIN held.sets PROVE held.sets[i] \subseteq seen
    OBVIOUS
  <2>1. i < store \/ i = store
    BY <1>1, SnapshotFacts
  <2> QED BY <2>1, <1>1 DEF Visited
<1>3. seen = DOMAIN held.text /\ DOMAIN held.text \subseteq Policies
  BY <1>1, <1>2, SnapshotFacts
<1>4. \A p \in Policies : hits[p] > 0 <=> Wanted(p)
  BY <1>1 DEF Visited
<1> QED BY <1>3, <1>4 DEF Listed, Wanted

LEMMA RequestFacts ==
    ASSUME NEW r \in Requests
    PROVE  /\ r.principal.uid \in Uids /\ r.principal.groups \subseteq Uids
           /\ r.resource \in Uids /\ r.resource # r.principal.uid /\ r.resource # None
           /\ r.action \in Actions /\ r.action # None
BY ListingConstants DEF Request, Principal

\* The asked principal is the request's, with the same `in` relation.
LEMMA SamePrincipal ==
    ASSUME NEW a \in Asks, NEW r \in Requests, Concerns(a, r), a.kind # "all", ~Malformed(a)
    PROVE  /\ PrincipalQuery(a).uid = r.principal.uid
           /\ \A uid : uid = r.principal.uid \/ uid \in PrincipalQuery(a).parents
                          <=> uid \in Ancestors(r, r.principal.uid)
<1>1. CASE a.kind = "request"
  <2>1. a.request = r /\ PrincipalQuery(a) = FromPrincipal(r.principal)
    BY <1>1 DEF Concerns, PrincipalQuery
  <2> QED BY <2>1 DEF FromPrincipal, Ancestors, RequestGroups
<1>2. CASE a.kind = "user"
  <2>1. PrincipalQuery(a) = ForUser(a.user, a.groups, a.namespace)
    BY <1>2 DEF PrincipalQuery
  <2>2. /\ TypedUid(a.user, a.namespace, "User") # None
        /\ \A g \in a.groups : TypedUid(g, a.namespace, "Group") # None
    BY <1>2, <2>1 DEF Malformed, ForUser, GroupUids
  <2>3. /\ TypedUid(a.user, a.namespace, "User") = [type |-> <<a.namespace, "User">>, id |-> a.user]
        /\ \A g \in a.groups :
              TypedUid(g, a.namespace, "Group") = [type |-> <<a.namespace, "Group">>, id |-> g]
    BY <2>2 DEF TypedUid
  <2>4. /\ r.principal.uid = [type |-> <<a.namespace, "User">>, id |-> a.user]
        /\ r.principal.groups = { [type |-> <<a.namespace, "Group">>, id |-> g] : g \in a.groups }
    BY <1>2 DEF Concerns
  <2>5. PrincipalQuery(a).uid = r.principal.uid /\ PrincipalQuery(a).parents = r.principal.groups
    <3>1. PrincipalQuery(a).uid = r.principal.uid
      BY <2>1, <2>3, <2>4 DEF ForUser
    <3>2. PrincipalQuery(a).parents = { TypedUid(g, a.namespace, "Group") : g \in a.groups }
      BY <2>1 DEF ForUser, GroupUids
    <3>3. { TypedUid(g, a.namespace, "Group") : g \in a.groups }
            = { [type |-> <<a.namespace, "Group">>, id |-> g] : g \in a.groups }
      BY <2>3
    <3> QED BY <3>1, <3>2, <3>3, <2>4
  <2>6. RequestGroups(r) = r.principal.groups
    BY <2>4 DEF RequestGroups
  <2> QED BY <2>5, <2>6 DEF Ancestors
<1>3. CASE a.kind = "group"
  <2>1. PrincipalQuery(a) = ForGroup(a.group, a.namespace)
    BY <1>3 DEF PrincipalQuery
  <2>2. TypedUid(a.group, a.namespace, "Group") # None
    BY <1>3, <2>1 DEF Malformed, ForGroup
  <2>3. TypedUid(a.group, a.namespace, "Group") = [type |-> <<a.namespace, "Group">>, id |-> a.group]
    BY <2>2 DEF TypedUid
  <2>4. r.principal.uid = [type |-> <<a.namespace, "Group">>, id |-> a.group]
        /\ r.principal.groups = {}
    BY <1>3 DEF Concerns
  <2> QED BY <2>1, <2>3, <2>4 DEF ForGroup, Ancestors, RequestGroups
<1> QED BY <1>1, <1>2, <1>3 DEF Concerns

LEMMA PrincipalAgrees ==
    ASSUME NEW a \in Asks, NEW r \in Requests, Concerns(a, r), a.kind # "all", ~Malformed(a),
           NEW c \in Constraint
    PROVE  InScope(c, r, r.principal.uid) <=> PrincipalMatches(c, PrincipalQuery(a))
<1>1. c.kind \in {"any", "eq", "in", "is", "isIn"}
  BY DEF Constraint
<1> QED BY <1>1, SamePrincipal DEF InScope, PrincipalMatches

LEMMA ResourceAgrees ==
    ASSUME NEW r \in Requests, NEW c \in Constraint
    PROVE  InScope(c, r, r.resource) <=> ResourceMatches(c, r.resource)
<1>1. c.kind \in {"any", "eq", "in", "is", "isIn"}
  BY DEF Constraint
<1>2. Ancestors(r, r.resource) = {r.resource} /\ r.resource # None
  BY RequestFacts DEF Ancestors
<1> QED BY <1>1, <1>2 DEF InScope, ResourceMatches

\* Whoever a call asks about, a policy they satisfy matches the call.
LEMMA SatisfiedMatch ==
    ASSUME NEW a \in Asks, NEW r \in Requests, Concerns(a, r), ~Malformed(a),
           NEW s \in Snapshots, NEW p \in DOMAIN s.text, Satisfied(s.text, p, r),
           a.kind = "all" \/ MatchesEffect(s.text[p].effect, a.effect)
    PROVE  Matches(p, a, s.text)
<1>1. CASE a.kind = "all"
  BY <1>1 DEF Matches
<1>2. CASE a.kind # "all"
  <2>1. s.text[p].principal \in Constraint /\ s.text[p].resource \in Constraint
    BY SnapshotFacts DEF Policy
  <2>2. PrincipalMatches(s.text[p].principal, PrincipalQuery(a))
    BY <1>2, <2>1, PrincipalAgrees DEF Satisfied
  <2>3. ActionMatches(s.text[p].action, ActionQuery(a))
    BY <1>2 DEF ActionMatches, ActionQuery, Satisfied, Concerns
  <2>4. ResourceMatches(s.text[p].resource, r.resource)
    BY <2>1, ResourceAgrees DEF Satisfied
  <2>5. ResourceQuery(a) \in {None, r.resource}
    BY <1>2 DEF ResourceQuery, Concerns
  <2>6. ResourceMatches(s.text[p].resource, ResourceQuery(a))
    BY <2>4, <2>5 DEF ResourceMatches
  <2> QED BY <1>2, <2>2, <2>3, <2>6 DEF Matches
<1> QED BY <1>1, <1>2

LEMMA ReasonsMatch ==
    ASSUME IInv, at = "listed", NEW r \in Requests, NEW i \in DOMAIN held.sets, Concerns(ask, r),
           NEW p \in Reasons(held.text, held.sets[i], r),
           ask.kind = "all" \/ MatchesEffect(held.text[p].effect, ask.effect)
    PROVE  p \in Listed
<1>1. held \in Snapshots /\ ask \in Asks /\ ~Malformed(ask)
  BY DEF IInv, Visited
<1>2. p \in held.sets[i] /\ Satisfied(held.text, p, r)
  BY DEF Reasons
<1>3. p \in DOMAIN held.text
  BY <1>1, <1>2, SnapshotFacts
<1>4. Matches(p, ask, held.text)
  BY <1>1, <1>2, <1>3, SatisfiedMatch
<1> QED BY <1>3, <1>4, ListedAre

(***************************************************************************)
(* Whatever store a request of the asked principal is routed to, the       *)
(* policies that decide it there are on the list.                          *)
(***************************************************************************)
THEOREM CandidatesComplete == Spec => []NoDecidingPolicyMissing
<1>1. IInv => NoDecidingPolicyMissing
  BY ReasonsMatch DEF NoDecidingPolicyMissing
<1> QED BY <1>1, Invariance, PTL

(***************************************************************************)
(* Every action a permit grants the principal by name is a candidate       *)
(* action.                                                                 *)
(***************************************************************************)
THEOREM ActionsComplete == Spec => []AllowedActionsListed
<1>1. ASSUME IInv, at = "listed", ask.kind \in {"user", "group"}, ask.effect # "forbid",
             NEW r \in Requests, NEW i \in DOMAIN held.sets, Concerns(ask, r),
             Allowed(held.text, held.sets[i], r),
             ~ \E p \in Reasons(held.text, held.sets[i], r) : held.text[p].action.any
      PROVE  r.action \in CandidateActions
  <2>1. PICK p \in Reasons(held.text, held.sets[i], r) : held.text[p].effect = "permit"
    BY <1>1 DEF Allowed
  <2>2. r.action \in held.text[p].action.list /\ ~held.text[p].action.any
    BY <1>1, <2>1 DEF Reasons, Satisfied
  <2>3. ask.effect \in {"any", "permit"}
    BY <1>1, ListingConstants DEF IInv, Ask, Filters
  <2>4. p \in Listed
    BY <1>1, <2>1, <2>3, ReasonsMatch DEF MatchesEffect
  <2> QED BY <2>1, <2>2, <2>4 DEF CandidateActions
<1>2. IInv => AllowedActionsListed
  BY <1>1 DEF AllowedActionsListed
<1> QED BY <1>2, Invariance, PTL

(***************************************************************************)
(* Candidates without clauses decide: on an undivided engine they are the  *)
(* satisfied policies.                                                     *)
(***************************************************************************)
THEOREM UnconditionalCandidatesDecide == Spec => []UnconditionalListingDecides
<1>1. ASSUME IInv, at = "listed", ask.kind = "request", ask.effect = "any", ~held.scoped,
             ~HasNonScopeConstraints
      PROVE  Allowed(held.text, held.sets[1], ask.request) <=>
                /\ \E p \in Listed : held.text[p].effect = "permit"
                /\ \A p \in Listed : held.text[p].effect = "permit"
  <2> DEFINE r == ask.request
             sat == { p \in DOMAIN held.text : Satisfied(held.text, p, r) }
  <2>1. held \in Snapshots /\ ask \in Asks /\ ~Malformed(ask)
    BY <1>1 DEF IInv, Visited
  <2>2. r \in Requests /\ Concerns(ask, r)
    BY <1>1, <2>1, ListingConstants DEF Concerns
  <2>3. held.sets[1] = DOMAIN held.text
    <3>1. DOMAIN held.sets = {1}
      BY <1>1, <2>1, SnapshotFacts
    <3> QED BY <3>1, <2>1, SnapshotFacts
  <2>4. \A p \in DOMAIN held.text : held.text[p] \in Policy
    BY <2>1, SnapshotFacts
  <2>5. Listed = { p \in DOMAIN held.text : Matches(p, ask, held.text) }
    BY <1>1, ListedAre
  <2>6. ASSUME NEW p \in DOMAIN held.text, Satisfied(held.text, p, r)
        PROVE  p \in Listed
    BY <1>1, <2>1, <2>2, <2>5, <2>6, SatisfiedMatch DEF MatchesEffect
  <2>7. ASSUME NEW p \in Listed
        PROVE  Satisfied(held.text, p, r)
    <3>1. p \in DOMAIN held.text /\ Matches(p, ask, held.text) /\ ~held.text[p].conditional
      BY <1>1, <2>5 DEF HasNonScopeConstraints
    <3>2. held.text[p].principal \in Constraint /\ held.text[p].resource \in Constraint
      BY <3>1, <2>4 DEF Policy
    <3>3. InScope(held.text[p].principal, r, r.principal.uid)
      BY <1>1, <2>1, <2>2, <3>1, <3>2, PrincipalAgrees DEF Matches
    <3>4. InScope(held.text[p].resource, r, r.resource)
      BY <1>1, <2>2, <3>1, <3>2, ResourceAgrees DEF Matches, ResourceQuery
    <3>5. held.text[p].action.any \/ r.action \in held.text[p].action.list
      BY <1>1, <2>2, <3>1, RequestFacts DEF Matches, ActionMatches, ActionQuery
    <3> QED BY <3>1, <3>3, <3>4, <3>5 DEF Satisfied
  <2>8. Listed = sat
    BY <2>5, <2>6, <2>7
  <2>9. \A p \in Listed : held.text[p].effect \in {"permit", "forbid"}
    BY <2>4, <2>5 DEF Policy
  <2> HIDE DEF r
  <2>10. Reasons(held.text, held.sets[1], r) =
            IF { p \in Listed : held.text[p].effect = "forbid" } # {}
            THEN { p \in Listed : held.text[p].effect = "forbid" }
            ELSE { p \in Listed : held.text[p].effect = "permit" }
    BY <2>3, <2>8 DEF Reasons
  <2>11. Allowed(held.text, held.sets[1], r) <=>
                /\ \E p \in Listed : held.text[p].effect = "permit"
                /\ \A p \in Listed : held.text[p].effect = "permit"
    BY <2>9, <2>10 DEF Allowed
  <2> QED BY <2>11 DEF r
<1>2. IInv => UnconditionalListingDecides
  BY <1>1 DEF UnconditionalListingDecides
<1> QED BY <1>2, Invariance, PTL
==============================================================================
