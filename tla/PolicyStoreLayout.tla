-------------------------- MODULE PolicyStoreLayout --------------------------
(***************************************************************************)
(* policy_store.rs: building a PolicyStoreLayout. Stores are declared in a *)
(* sequence; their namespaces go one by one into a trie, the               *)
(* NamespaceRouter, which refuses a namespace that overlaps one already    *)
(* there and later finds the store that owns a qualified name.             *)
(*                                                                         *)
(* A qualified name is the sequence of its components, each a text between *)
(* two "::"; the trie compares them as texts. The trie is the              *)
(* function from its nodes, named by the path from the root, to the store  *)
(* index at the node, if any.                                              *)
(***************************************************************************)
EXTENDS Naturals, Sequences, FiniteSets, SequencesExt

CONSTANTS
    Components,   \* texts that names, and namespaces given as lists, are made of
    Names,        \* qualified names policies and requests mention
    Namespaces,   \* namespaces a store may declare
    StoreIds,     \* ids a store may declare
    Layouts,      \* sequences of declared stores to build from
    PolicyIds,    \* values of a policy's @id annotation
    NoStore

StoreConfigs == [ id : StoreIds, namespace : Namespaces ]

ASSUME LayoutConstants ==
    /\ Names \subseteq Seq(Components)
    /\ Namespaces \subseteq Seq(Components) \ {<<>>}
    /\ Layouts \subseteq Seq(StoreConfigs)
    /\ NoStore \notin Nat

VARIABLES
    phase,    \* how far construction is
    stores,   \* the declared stores, in declaration order
    next,     \* the store whose namespace is inserted next
    router,   \* the namespace trie
    globals   \* @id values registered as global

layoutVars == <<phase, stores, next, router, globals>>

StoreIndexes == DOMAIN stores

----------------------------------------------------------------------------
(***************************************************************************)
(* The router.                                                             *)
(***************************************************************************)

EmptyRouter == [ path \in {<<>>} |-> NoStore ]

StoreAt(path) == IF path \in DOMAIN router THEN router[path] ELSE NoStore

\* Lengths of the prefixes of a name that carry a store.
Hits(name) == { k \in 1..Len(name) : StoreAt(SubSeq(name, 1, k)) # NoStore }

\* Follow the components of the name down to the first node with a store.
Resolve(name) ==
    IF Hits(name) = {} THEN NoStore ELSE StoreAt(SubSeq(name, 1, Min(Hits(name))))

\* A store on the way down to the namespace's node.
AncestorTaken(namespace) ==
    \E k \in 0..(Len(namespace) - 1) : StoreAt(SubSeq(namespace, 1, k)) # NoStore

\* A store at the namespace's node or below it.
SubtreeTaken(namespace) ==
    \E path \in DOMAIN router : IsPrefix(namespace, path) /\ router[path] # NoStore

\* Mutant: only look at the nodes on the way down.
OverlapsAncestor(namespace) == AncestorTaken(namespace)

\* Mutant: only look at the node itself and below.
OverlapsSubtree(namespace) == SubtreeTaken(namespace)

Overlaps(namespace) == AncestorTaken(namespace) \/ SubtreeTaken(namespace)

\* The trie with the namespace's path in it and the store at its end.
WithStore(namespace, index) ==
    [ path \in DOMAIN router \cup Prefixes(namespace) |->
        IF path = namespace THEN index ELSE StoreAt(path) ]

----------------------------------------------------------------------------
(***************************************************************************)
(* PolicyStoreLayout::new and with_global_policy_ids.                      *)
(***************************************************************************)

LayoutInit ==
    /\ phase = "declared"
    /\ stores \in Layouts
    /\ next = 1
    /\ router = EmptyRouter
    /\ globals = {}

DistinctIds == \A i, j \in StoreIndexes : stores[i].id = stores[j].id => i = j

\* An empty layout or a repeated store id is refused before anything is built.
CheckDeclaration ==
    /\ phase = "declared"
    /\ phase' = IF stores # <<>> /\ DistinctIds THEN "inserting" ELSE "invalid"
    /\ UNCHANGED <<stores, next, router, globals>>

InsertNamespace ==
    /\ phase = "inserting" /\ next \in StoreIndexes
    /\ ~Overlaps(stores[next].namespace)
    /\ router' = WithStore(stores[next].namespace, next)
    /\ next' = next + 1
    /\ UNCHANGED <<phase, stores, globals>>

RefuseOverlap ==
    /\ phase = "inserting" /\ next \in StoreIndexes
    /\ Overlaps(stores[next].namespace)
    /\ phase' = "invalid"
    /\ UNCHANGED <<stores, next, router, globals>>

FinishLayout ==
    /\ phase = "inserting" /\ next \notin StoreIndexes
    /\ phase' = "built"
    /\ UNCHANGED <<stores, next, router, globals>>

\* with_global_policy_ids, one id; calls accumulate.
RegisterGlobal(id) ==
    /\ phase = "built"
    /\ globals' = globals \cup {id}
    /\ UNCHANGED <<phase, stores, next, router>>

LayoutNext ==
    \/ CheckDeclaration
    \/ InsertNamespace
    \/ RefuseOverlap
    \/ FinishLayout
    \/ \E id \in PolicyIds : RegisterGlobal(id)

LayoutSpec == LayoutInit /\ [][LayoutNext]_layoutVars

----------------------------------------------------------------------------
(***************************************************************************)
(* Properties.                                                             *)
(***************************************************************************)

Phases == {"declared", "inserting", "built", "assigning", "serving",
           "invalid", "rejected"}

LayoutTypeOK ==
    /\ phase \in Phases
    /\ stores \in Layouts
    /\ next \in 1..(Len(stores) + 1)
    /\ DOMAIN router \subseteq Seq(Components)
    /\ \A path \in DOMAIN router : router[path] \in StoreIndexes \cup {NoStore}
    /\ globals \subseteq PolicyIds

\* A store owns its namespace and everything below it (docs/PolicyStores.md).
Owns(i, name) == IsPrefix(stores[i].namespace, name)

(***************************************************************************)
(* The router is right at every moment of its construction: it resolves a  *)
(* name to a store exactly if that store has been inserted and owns the    *)
(* name, and so to one store at most (NamespaceRouter::insert and resolve).*)
(***************************************************************************)
RouterFindsOwner ==
    \A i \in StoreIndexes, name \in Names :
        Resolve(name) = i <=> i < next /\ Owns(i, name)

NoOverlap ==
    \A i, j \in StoreIndexes : Owns(i, stores[j].namespace) => i = j

(***************************************************************************)
(* PolicyStoreLayout::new accepts a declaration exactly if it is nonempty, *)
(* its ids are distinct and no store owns another store's namespace, in    *)
(* whatever order the stores are declared.                                 *)
(***************************************************************************)
LayoutVerdict ==
    /\ phase \notin {"declared", "inserting", "invalid"} =>
            stores # <<>> /\ DistinctIds /\ NoOverlap
    /\ phase = "invalid" => ~(stores # <<>> /\ DistinctIds /\ NoOverlap)
==============================================================================
