---------------------------- MODULE PolicyStores -----------------------------
(***************************************************************************)
(* engine.rs partition_policy_set and policy_store.rs: a finished layout   *)
(* distributes the policies of a source over one PolicySet per store, and  *)
(* a request is decided by the policies of the store it is routed to.      *)
(*                                                                         *)
(* What a policy tests about a request is abstracted to entity types: a    *)
(* scope constraint is the set of types it names, and `condition` is the   *)
(* set of types its when and unless clauses name. A clause is a test of    *)
(* its own, so a request says for which types it comes out in the          *)
(* policy's favour (`facts`); a constraint on one entity of a type is the  *)
(* constraint on the type with a condition.                                *)
(***************************************************************************)
EXTENDS PolicyStoreLayout

CONSTANTS
    Parsed,         \* Parsed[c]: the identifiers in a text; several if it has ::
    Policies,       \* the policies of a source, by their Cedar id
    Sources,        \* contents of the policy sources to load
    Requests,       \* requests to decide
    NoId,           \* a policy without @id
    NoAnnotation,   \* a policy without @treetop_store
    AllStores       \* @treetop_store("*")

Annotations == StoreIds \cup {AllStores, NoAnnotation}

\* The principal and the resource must be of every type named; the action is
\* unconstrained or one of those listed.
Policy == [ id        : PolicyIds \cup {NoId},
            store     : Annotations,
            effect    : {"permit", "forbid"},
            principal : SUBSET Names,
            anyAction : BOOLEAN,
            action    : SUBSET Names,
            resource  : SUBSET Names,
            condition : SUBSET Names ]

\* The principal has its own type and those of the groups it is in. The
\* action's namespace is the list of texts it was given as.
Request == [ principal : SUBSET Names,
             namespace : Seq(Components),
             resource  : Names,
             facts     : SUBSET Names ]

ASSUME StoresConstants ==
    /\ Sources \subseteq [Policies -> Policy]
    /\ Requests \subseteq Request
    /\ Parsed \in [Components -> Seq(Components)]
    /\ NoId \notin PolicyIds
    /\ {AllStores, NoAnnotation} \cap StoreIds = {} /\ AllStores # NoAnnotation

VARIABLES
    source,    \* the parsed policy source, once loaded
    pending,   \* policies the loop has not come to yet
    found,     \* registered global ids seen so far
    installed  \* installed[i]: the PolicySet of store i

partitionVars == <<source, pending, found, installed>>
vars == <<layoutVars, partitionVars>>

----------------------------------------------------------------------------
(***************************************************************************)
(* Assignment.                                                             *)
(***************************************************************************)

ActionReferences(p) == IF source[p].anyAction THEN {} ELSE source[p].action

\* Every entity type the policy names, in scope and conditions.
References(p) ==
    source[p].principal \cup ActionReferences(p) \cup source[p].resource
        \cup source[p].condition

Candidates(p) == { Resolve(name) : name \in References(p) } \ {NoStore}

RegisteredGlobal(p) == source[p].id \in globals

NamesStore(p) == source[p].store \in StoreIds

\* The stores an annotation names: none if no declared store has the id.
ExplicitStore(p) == { i \in StoreIndexes : stores[i].id = source[p].store }

Global(p) == RegisteredGlobal(p) \/ source[p].store = AllStores

Misassigned(p) ==
    \/ NamesStore(p) /\ ExplicitStore(p) = {}
    \/ NamesStore(p) /\ RegisteredGlobal(p)
    \/ /\ ~Global(p)
       /\ \/ Cardinality(Candidates(p)) > 1
          \/ NamesStore(p) /\ ~(Candidates(p) \subseteq ExplicitStore(p))
          \/ ~NamesStore(p) /\ Candidates(p) = {}

\* Mutant: a global policy goes only to the store its references name.
TargetCandidates(p) ==
    IF Global(p) /\ Candidates(p) = {} THEN StoreIndexes
    ELSE IF NamesStore(p) THEN ExplicitStore(p)
    ELSE Candidates(p)

TargetStores(p) ==
    IF Global(p) THEN StoreIndexes
    ELSE IF NamesStore(p) THEN ExplicitStore(p)
    ELSE Candidates(p)

PartitionInit ==
    /\ source \in Sources
    /\ pending = {} /\ found = {} /\ installed = <<>>

StartPartition ==
    /\ phase = "built"
    /\ phase' = "assigning"
    /\ pending' = Policies
    /\ found' = {}
    /\ installed' = [ i \in StoreIndexes |-> {} ]
    /\ UNCHANGED <<stores, next, router, globals, source>>

\* One iteration of the loop; PolicySet::policies() has no defined order.
AssignPolicy(p) ==
    /\ phase = "assigning" /\ p \in pending
    /\ ~Misassigned(p)
    /\ pending' = pending \ {p}
    /\ found' = found \cup ({source[p].id} \cap globals)
    /\ installed' = [ i \in StoreIndexes |->
                        IF i \in TargetStores(p) THEN installed[i] \cup {p}
                        ELSE installed[i] ]
    /\ UNCHANGED <<layoutVars, source>>

RefusePolicy(p) ==
    /\ phase = "assigning" /\ p \in pending
    /\ Misassigned(p)
    /\ phase' = "rejected"
    /\ UNCHANGED <<stores, next, router, globals, partitionVars>>

\* Mutant: registered ids that no policy carries go unnoticed.
FinishUnchecked ==
    /\ phase = "assigning" /\ pending = {}
    /\ phase' = "serving"
    /\ UNCHANGED <<stores, next, router, globals, partitionVars>>

\* Every registered global id must have occurred.
FinishPartition ==
    /\ phase = "assigning" /\ pending = {}
    /\ phase' = IF globals \subseteq found THEN "serving" ELSE "rejected"
    /\ UNCHANGED <<stores, next, router, globals, partitionVars>>

Init == LayoutInit /\ PartitionInit

Next ==
    \/ LayoutNext /\ UNCHANGED partitionVars
    \/ StartPartition
    \/ \E p \in Policies : AssignPolicy(p) \/ RefusePolicy(p)
    \/ FinishPartition

Spec == Init /\ [][Next]_vars

----------------------------------------------------------------------------
(***************************************************************************)
(* Routing and decision.                                                   *)
(***************************************************************************)

\* The type of the action's UID: the texts of its namespace are joined with ::
\* and parsed again.
ActionType(r) ==
    Append(FlattenSeq([ k \in DOMAIN r.namespace |-> Parsed[r.namespace[k]] ]), "Action")

\* Routing follows the texts as they were given.
ActionStore(r)   == Resolve(r.namespace)
ResourceStore(r) == Resolve(r.resource)

\* Mutant: the action's store wins over the resource's.
RouteByAction(r) ==
    IF ActionStore(r) = NoStore THEN ResourceStore(r) ELSE ActionStore(r)

\* resolve_request; NoStore stands for the routing error.
Route(r) ==
    IF ActionStore(r) = NoStore THEN ResourceStore(r)
    ELSE IF ResourceStore(r) \in {NoStore, ActionStore(r)} THEN ActionStore(r)
    ELSE NoStore

Satisfied(p, r) ==
    /\ source[p].principal \subseteq r.principal
    /\ source[p].anyAction \/ ActionType(r) \in source[p].action
    /\ source[p].resource \subseteq {r.resource}
    /\ source[p].condition \subseteq r.facts

\* Cedar: a satisfied forbid denies, otherwise a satisfied permit allows; the
\* reasons are the satisfied policies of the deciding effect.
Decide(policySet, r) ==
    LET reasons(e) == { p \in policySet : source[p].effect = e /\ Satisfied(p, r) }
    IN  IF reasons("forbid") # {}
        THEN [decision |-> "deny", reasons |-> reasons("forbid")]
        ELSE [decision |-> IF reasons("permit") = {} THEN "deny" ELSE "allow",
              reasons |-> reasons("permit")]

Evaluate(r) == Decide(installed[Route(r)], r)

----------------------------------------------------------------------------
(***************************************************************************)
(* Properties.                                                             *)
(***************************************************************************)

TypeOK ==
    /\ LayoutTypeOK
    /\ source \in Sources
    /\ pending \subseteq Policies
    /\ found \subseteq PolicyIds
    /\ phase \in {"assigning", "serving"} => installed \in [StoreIndexes -> SUBSET Policies]

\* Where the documentation puts a policy: the owners of its references,
\* stated on the declarations instead of on the router.
Owners(p) == { i \in StoreIndexes : \E name \in References(p) : Owns(i, name) }

Assignable(p) ==
    \/ RegisteredGlobal(p) /\ ~NamesStore(p)
    \/ source[p].store = AllStores
    \/ /\ ~RegisteredGlobal(p) /\ NamesStore(p)
       /\ \E i \in StoreIndexes : stores[i].id = source[p].store /\ Owners(p) \subseteq {i}
    \/ ~Global(p) /\ ~NamesStore(p) /\ Cardinality(Owners(p)) = 1

Belongs(p, i) ==
    \/ Global(p)
    \/ NamesStore(p) /\ stores[i].id = source[p].store
    \/ ~NamesStore(p) /\ i \in Owners(p)

(***************************************************************************)
(* The verdict on a source and the contents of every store are functions   *)
(* of the source and the layout: partition_policy_set accepts exactly the  *)
(* sources all of whose policies the rules can place and which contain     *)
(* every registered global id, and then installs each policy exactly where *)
(* the rules say, in whatever order the policies come.                     *)
(***************************************************************************)
PartitionFollowsRules ==
    LET acceptable == /\ \A p \in Policies : Assignable(p)
                      /\ globals \subseteq { source[p].id : p \in Policies }
    IN  /\ phase = "rejected" => ~acceptable
        /\ phase = "serving" =>
              /\ acceptable
              /\ \A i \in StoreIndexes :
                    installed[i] = { p \in Policies : Belongs(p, i) }

(***************************************************************************)
(* Global forbids keep their precedence: a request that satisfies a global *)
(* forbid is denied by whichever store it is routed to                     *)
(* (docs/PolicyStores.md, evaluate_state).                                 *)
(***************************************************************************)
GlobalForbidsPrevail ==
    phase = "serving" =>
        \A r \in Requests, p \in Policies :
            /\ Global(p) /\ source[p].effect = "forbid" /\ Satisfied(p, r)
            /\ Route(r) # NoStore
            => Evaluate(r).decision = "deny" /\ p \in Evaluate(r).reasons

\* The action's namespace was given one identifier at a time.
Segmented(r) == r.namespace = Front(ActionType(r))

\* If the request satisfies the policy, it is one of the policy's own store:
\* the resource is of a type the store owns, or all the actions the policy
\* admits are and the request's is routed by its identifiers.
Anchored(p, r) ==
    \E i \in StoreIndexes :
        /\ Belongs(p, i)
        /\ \/ \E name \in source[p].resource : Owns(i, name)
           \/ /\ ~source[p].anyAction /\ Segmented(r)
              /\ \A name \in source[p].action : Owns(i, Front(name))

(***************************************************************************)
(* Routing preserves decisions: if every policy that is not global can     *)
(* match a request only in its own store, and what counts as own is seen   *)
(* by routing too, a routed request gets the decision and the reasons the  *)
(* undivided policy set would give. A policy held to its store by its      *)
(* resource is enough whatever the action's namespace looks like; one held *)
(* by its actions needs a namespace of single identifiers                  *)
(* (resolve_request, partition_policy_set, evaluate_state).                *)
(***************************************************************************)
RoutingPreservesDecisions ==
    phase = "serving" =>
        \A r \in Requests :
            /\ Route(r) # NoStore
            /\ \A p \in Policies : Global(p) \/ Anchored(p, r)
            => Evaluate(r) = Decide(Policies, r)

(***************************************************************************)
(* docs/PolicyStores.md: "Policy stores are an optimization boundary, not  *)
(* a change to Cedar authorization semantics." Read for every source the   *)
(* code accepts: a routed request gets the decision of the undivided set.  *)
(***************************************************************************)
OptimizationBoundary ==
    phase = "serving" =>
        \A r \in Requests :
            Route(r) # NoStore => Evaluate(r).decision = Decide(Policies, r).decision

(***************************************************************************)
(* docs/PolicyStores.md, the table of request routing: an action namespace *)
(* and a resource type of "Different configured stores" "Fail closed".     *)
(* Read for the action's namespace as Cedar and the policies know it.      *)
(***************************************************************************)
ConflictingNamespacesFailClosed ==
    phase = "serving" =>
        \A r \in Requests, i, j \in StoreIndexes :
            Owns(i, Front(ActionType(r))) /\ Owns(j, r.resource) /\ i # j
            => Route(r) = NoStore
==============================================================================
