---------------------------- MODULE PolicyListing ----------------------------
(***************************************************************************)
(* engine.rs list_policies* and policies(), with policy_match.rs, query.rs *)
(* and types/user_policies.rs: a call captures the published snapshot,     *)
(* visits the policies of every store of it, and returns those whose scope *)
(* matches the query, while other threads publish new snapshots.           *)
(*                                                                         *)
(* The code sorts what it returns by policy id, so the vector is           *)
(* determined by how often each policy is in it (`hits`). What when and    *)
(* unless clauses evaluate to is part of a request: `holds` is the set of  *)
(* policies whose clauses come out in the policy's favour.                 *)
(***************************************************************************)
EXTENDS Naturals, Sequences, FiniteSets

CONSTANTS
    Policies,      \* Cedar policy ids
    Namespaces,    \* namespace paths, those that parse and those that do not
    Parsable,      \* the namespaces Cedar accepts
    Ids,           \* entity ids
    EmptyId,       \* the empty string
    Actions,       \* action entities
    Resources,     \* resource entities
    Snapshots,     \* contents of the engine's cell
    Reloads,       \* those published later
    Requests,      \* requests, as evaluate takes them
    Asks,          \* listing calls
    None           \* no uid, no action, no resource

Types  == Namespaces \X {"User", "Group"}
Uids   == [type : Types \cup {"Document"}, id : Ids]

Constraint == [kind : {"any", "eq", "in", "is", "isIn"},
               type : Types \cup {"Document", None},
               uid  : Uids \cup {None}]

Policy == [ effect      : {"permit", "forbid"},
            principal   : Constraint,
            action      : [any : BOOLEAN, list : SUBSET Actions],
            resource    : Constraint,
            conditional : BOOLEAN ]

\* One set of policies, or one per store; global policies are in every store.
IsSnapshot(s) ==
    /\ s.scoped \in BOOLEAN /\ (~s.scoped => Len(s.sets) = 1)
    /\ s.sets \in Seq(SUBSET DOMAIN s.text)
    /\ DOMAIN s.text \subseteq Policies
    /\ s.text \in [DOMAIN s.text -> Policy]

Principal == [uid : Uids, groups : SUBSET Uids]

\* evaluate refuses a request whose resource is its principal: the entities
\* it builds for the two clash.
Request == [principal : Principal, action : Actions, resource : Resources,
            holds : SUBSET Policies]

Filters == {"any", "permit", "forbid"}

Ask ==
    [kind : {"request"}, request : Request, effect : Filters]
    \cup [kind : {"user"}, user : Ids, groups : SUBSET Ids, namespace : Namespaces,
          resource : Resources \cup {None}, effect : Filters]
    \cup [kind : {"group"}, group : Ids, namespace : Namespaces,
          resource : Resources \cup {None}, effect : Filters]
    \cup [kind : {"all"}]

ASSUME ListingConstants ==
    /\ Parsable \subseteq Namespaces /\ EmptyId \in Ids /\ Resources \subseteq Uids
    /\ (\A s \in Snapshots : IsSnapshot(s)) /\ Reloads \subseteq Snapshots
    /\ Requests \subseteq Request /\ Asks \subseteq Ask /\ Asks # {}
    /\ \A a \in Asks : a.kind = "request" => a.request \in Requests
    /\ \A r \in Requests : r.resource # r.principal.uid
    /\ None \notin Uids \cup Resources \cup Actions

\* Partitioning installs every policy of the source in some store
\* (PolicyStores, PartitionFollowsRules), and an engine has a store.
ASSUME EverythingInstalled ==
    \A s \in Snapshots : /\ Len(s.sets) > 0
                         /\ UNION { s.sets[i] : i \in DOMAIN s.sets } = DOMAIN s.text

VARIABLES
    current,   \* the published snapshot
    at,        \* where the call is
    ask,       \* its arguments
    held,      \* the snapshot it captured
    store,     \* the store it visits
    pending,   \* policies of that store it has not visited
    seen,      \* seen_policy_ids
    hits       \* hits[p]: how often p was put on the result

callVars == <<at, ask, held, store, pending, seen, hits>>
vars == <<current, callVars>>

----------------------------------------------------------------------------
(***************************************************************************)
(* Queries.                                                                *)
(***************************************************************************)

\* None stands for the InvalidFormat error.
TypedUid(id, namespace, type) ==
    IF id = EmptyId \/ namespace \notin Parsable THEN None
    ELSE [type |-> <<namespace, type>>, id |-> id]

\* Mutant: the groups of a namespaced user are looked up without namespace.
GroupUidsAnywhere(groups, namespace) ==
    { TypedUid(g, CHOOSE n \in Parsable : n # namespace, "Group") : g \in groups }

GroupUids(groups, namespace) == { TypedUid(g, namespace, "Group") : g \in groups }

ForUser(user, groups, namespace) ==
    [uid |-> TypedUid(user, namespace, "User"), parents |-> GroupUids(groups, namespace)]

ForGroup(group, namespace) ==
    LET uid == TypedUid(group, namespace, "Group")
    IN  [uid |-> uid, parents |-> {uid}]

\* Mutant: listing for a principal forgets its groups.
FromPrincipalAlone(principal) == [uid |-> principal.uid, parents |-> {}]

FromPrincipal(principal) ==
    [uid |-> principal.uid,
     parents |-> IF principal.uid.type[2] = "Group" THEN {principal.uid}
                 ELSE principal.groups]

PrincipalQuery(a) ==
    CASE a.kind = "request" -> FromPrincipal(a.request.principal)
      [] a.kind = "user"    -> ForUser(a.user, a.groups, a.namespace)
      [] a.kind = "group"   -> ForGroup(a.group, a.namespace)

ActionQuery(a) == IF a.kind = "request" THEN a.request.action ELSE None

ResourceQuery(a) == IF a.kind = "request" THEN a.request.resource ELSE a.resource

Malformed(a) ==
    a.kind \in {"user", "group"} /\ None \in {PrincipalQuery(a).uid} \cup PrincipalQuery(a).parents

----------------------------------------------------------------------------
(***************************************************************************)
(* Matching scope constraints: policy_match.rs.                            *)
(***************************************************************************)

PrincipalMatches(c, query) ==
    LET within == c.uid = query.uid \/ c.uid \in query.parents
    IN  \/ c.kind = "any"
        \/ c.kind = "eq" /\ c.uid = query.uid
        \/ c.kind = "in" /\ within
        \/ c.kind = "is" /\ c.type = query.uid.type
        \/ c.kind = "isIn" /\ c.type = query.uid.type /\ within

\* A constraint is not applied when the query leaves the part open.
ResourceMatches(c, uid) ==
    \/ uid = None
    \/ c.kind = "any"
    \/ c.kind \in {"eq", "in"} /\ c.uid = uid
    \/ c.kind = "is" /\ c.type = uid.type
    \/ c.kind = "isIn" /\ c.type = uid.type /\ c.uid = uid

ActionMatches(c, action) == action = None \/ c.any \/ action \in c.list

MatchesEffect(effect, filter) == filter \in {"any", effect}

Matches(p, a, text) ==
    \/ a.kind = "all"
    \/ /\ MatchesEffect(text[p].effect, a.effect)
       /\ PrincipalMatches(text[p].principal, PrincipalQuery(a))
       /\ ActionMatches(text[p].action, ActionQuery(a))
       /\ ResourceMatches(text[p].resource, ResourceQuery(a))

----------------------------------------------------------------------------
(***************************************************************************)
(* A listing call.                                                         *)
(***************************************************************************)

Init ==
    /\ current \in Snapshots
    /\ at = "idle"
    /\ ask = CHOOSE a \in Asks : TRUE
    /\ held = current
    /\ store = 1 /\ pending = {} /\ seen = {}
    /\ hits = [p \in Policies |-> 0]

\* A reload or a label replacement by another thread.
Publish ==
    /\ current' \in Reloads
    /\ UNCHANGED callVars

Fresh(a, s) ==
    /\ ask' = a /\ held' = s /\ store' = 1 /\ pending' = s.sets[1]
    /\ seen' = {} /\ hits' = [p \in Policies |-> 0]
    /\ UNCHANGED current

\* The query is built before the snapshot is loaded.
RefuseListing(a) ==
    /\ at = "idle" /\ Malformed(a)
    /\ at' = "refused"
    /\ Fresh(a, current)

BeginListing(a) ==
    /\ at = "idle" /\ ~Malformed(a)
    /\ at' = "visiting"
    /\ Fresh(a, current)

\* Mutant: no memory of the stores already visited.
NeverRepeated(p) == FALSE

\* policies() on a monolithic engine collects without looking for repetitions.
Repeated(p) == p \in seen /\ (held.scoped \/ ask.kind # "all")

\* Mutant: the call takes the snapshot of the moment.
VisitCurrent(p) ==
    /\ at = "visiting" /\ p \in pending
    /\ pending' = pending \ {p}
    /\ seen' = seen \cup {p}
    /\ hits' = IF ~Repeated(p) /\ p \in DOMAIN current.text /\ Matches(p, ask, current.text)
               THEN [hits EXCEPT ![p] = @ + 1] ELSE hits
    /\ UNCHANGED <<current, at, ask, held, store>>

\* PolicySet::policies() has no defined order.
VisitPolicy(p) ==
    /\ at = "visiting" /\ p \in pending
    /\ pending' = pending \ {p}
    /\ seen' = seen \cup {p}
    /\ hits' = IF ~Repeated(p) /\ Matches(p, ask, held.text)
               THEN [hits EXCEPT ![p] = @ + 1] ELSE hits
    /\ UNCHANGED <<current, at, ask, held, store>>

NextStore ==
    /\ at = "visiting" /\ pending = {} /\ store < Len(held.sets)
    /\ store' = store + 1
    /\ pending' = held.sets[store + 1]
    /\ UNCHANGED <<current, at, ask, held, seen, hits>>

FinishListing ==
    /\ at = "visiting" /\ pending = {} /\ store = Len(held.sets)
    /\ at' = "listed"
    /\ UNCHANGED <<current, ask, held, store, pending, seen, hits>>

Return ==
    /\ at \in {"listed", "refused"}
    /\ at' = "idle"
    /\ UNCHANGED <<current, ask, held, store, pending, seen, hits>>

Next ==
    \/ Publish
    \/ \E a \in Asks : RefuseListing(a) \/ BeginListing(a)
    \/ \E p \in Policies : VisitPolicy(p)
    \/ NextStore \/ FinishListing \/ Return

Spec == Init /\ [][Next]_vars

----------------------------------------------------------------------------
(***************************************************************************)
(* What a finished call returned.                                          *)
(***************************************************************************)

Listed == { p \in Policies : hits[p] > 0 }

CandidateActions ==
    UNION { held.text[p].action.list : p \in { q \in Listed :
                held.text[q].effect = "permit" /\ ~held.text[q].action.any } }

HasNonScopeConstraints == \E p \in Listed : held.text[p].conditional

----------------------------------------------------------------------------
(***************************************************************************)
(* Authorization of a request over the entities evaluate builds for it:    *)
(* the principal is in its groups, every entity is in itself, a group and  *)
(* a resource are in nothing else.                                         *)
(***************************************************************************)

RequestGroups(r) == IF r.principal.uid.type[2] = "Group" THEN {} ELSE r.principal.groups

Ancestors(r, uid) == {uid} \cup IF uid = r.principal.uid THEN RequestGroups(r) ELSE {}

InScope(c, r, uid) ==
    /\ c.kind \in {"is", "isIn"} => uid.type = c.type
    /\ c.kind = "eq" => uid = c.uid
    /\ c.kind \in {"in", "isIn"} => c.uid \in Ancestors(r, uid)

Satisfied(text, p, r) ==
    /\ InScope(text[p].principal, r, r.principal.uid)
    /\ text[p].action.any \/ r.action \in text[p].action.list
    /\ InScope(text[p].resource, r, r.resource)
    /\ text[p].conditional => p \in r.holds

\* The policies that decide: the satisfied forbids, or else the permits.
Reasons(text, set, r) ==
    LET satisfied(e) == { p \in set : text[p].effect = e /\ Satisfied(text, p, r) }
    IN  IF satisfied("forbid") # {} THEN satisfied("forbid") ELSE satisfied("permit")

Allowed(text, set, r) == \E p \in Reasons(text, set, r) : text[p].effect = "permit"

\* The requests a call asks about: a user is the user in those groups, with
\* the identifiers the request types build for it.
Concerns(a, r) ==
    \/ a.kind = "all"
    \/ a.kind = "request" /\ r = a.request
    \/ /\ a.kind = "user"
       /\ r.principal = [ uid    |-> [type |-> <<a.namespace, "User">>, id |-> a.user],
                          groups |-> { [type |-> <<a.namespace, "Group">>, id |-> g] : g \in a.groups } ]
       /\ a.resource \in {None, r.resource}
    \/ /\ a.kind = "group"
       /\ r.principal = [uid |-> [type |-> <<a.namespace, "Group">>, id |-> a.group], groups |-> {}]
       /\ a.resource \in {None, r.resource}

----------------------------------------------------------------------------
(***************************************************************************)
(* Properties.                                                             *)
(***************************************************************************)

TypeOK ==
    /\ IsSnapshot(current) /\ IsSnapshot(held) /\ ask \in Asks
    /\ at \in {"idle", "visiting", "listed", "refused"}
    /\ store \in DOMAIN held.sets
    /\ pending \subseteq DOMAIN held.text /\ seen \subseteq DOMAIN held.text
    /\ hits \in [Policies -> Nat]

(***************************************************************************)
(* Although a global policy is installed in every store, a listing names   *)
(* no policy twice (seen_policy_ids in list_policies_dispatch and          *)
(* policies()).                                                            *)
(***************************************************************************)
CandidatesOnce == \A p \in Policies : hits[p] <= 1

(***************************************************************************)
(* A candidate is never missing: whatever store a request of the asked     *)
(* principal is routed to, each policy that decides it there is on the     *)
(* list, unless the effect filter excludes it, and even though another     *)
(* thread may publish while the call runs (list_policies_dispatch against  *)
(* evaluate_state and build_entities).                                     *)
(***************************************************************************)
NoDecidingPolicyMissing ==
    at = "listed" =>
        \A r \in Requests, i \in DOMAIN held.sets : Concerns(ask, r) =>
            \A p \in Reasons(held.text, held.sets[i], r) :
                ask.kind = "all" \/ MatchesEffect(held.text[p].effect, ask.effect)
                => p \in Listed

(***************************************************************************)
(* candidate_actions() names every action that a permit allows the         *)
(* principal by naming it; only unconstrained permits allow more.          *)
(***************************************************************************)
AllowedActionsListed ==
    at = "listed" /\ ask.kind \in {"user", "group"} =>
        \A r \in Requests, i \in DOMAIN held.sets :
            /\ Concerns(ask, r) /\ ask.effect # "forbid"
            /\ Allowed(held.text, held.sets[i], r)
            => \/ r.action \in CandidateActions
               \/ \E p \in Reasons(held.text, held.sets[i], r) : held.text[p].action.any

(***************************************************************************)
(* When has_non_scope_constraints() says that no candidate has a clause,   *)
(* the candidates of a request are all that decides: an undivided engine   *)
(* allows exactly if they include a permit and no forbid                   *)
(* (list_policies_with_effect, PolicyCandidates).                          *)
(***************************************************************************)
UnconditionalListingDecides ==
    /\ at = "listed" /\ ask.kind = "request" /\ ask.effect = "any"
    /\ ~held.scoped /\ ~HasNonScopeConstraints
    => ( Allowed(held.text, held.sets[1], ask.request) <=>
            /\ \E p \in Listed : held.text[p].effect = "permit"
            /\ \A p \in Listed : held.text[p].effect = "permit" )
==============================================================================
