----------------------------- MODULE PolicyLoader ----------------------------
(***************************************************************************)
(* loader.rs and PolicySnapshot::from_policy_text_with_schema_and_stores:  *)
(* a policy text is parsed, validated if there is a schema, its metadata   *)
(* is computed from the undivided set, and the set is divided over the     *)
(* stores. The first step that fails decides the error.                    *)
(*                                                                         *)
(* A policy is what these steps find out about it: its effect, its @id,    *)
(* the validator's verdict, whether it can be written as JSON, and the     *)
(* stores it is assigned to (none: assignment fails; see PolicyStores).    *)
(***************************************************************************)
EXTENDS Naturals, FiniteSets

CONSTANTS
    Policies,     \* Cedar policy ids, as strings
    Names,        \* values of @id; some may read like Cedar ids
    NoName,       \* a policy without @id
    Stores,       \* the stores of a layout
    Whole,        \* stands for the one set of an undivided engine
    Registrations,\* sets of @id values a layout may register as global
    Texts         \* policy texts

Verdicts == {"valid", "warning", "invalidAction", "invalid"}

Policy == [ effect  : {"permit", "forbid"},
            name    : Names \cup {NoName},
            verdict : Verdicts,
            json    : BOOLEAN,
            stores  : SUBSET Stores ]

IsText(t) ==
    /\ t.parses \in BOOLEAN
    /\ DOMAIN t.policies \subseteq Policies
    /\ t.policies \in [DOMAIN t.policies -> Policy]

ASSUME LoaderConstants ==
    /\ \A t \in Texts : IsText(t)
    /\ \A ids \in Registrations : ids \subseteq Names
    /\ NoName \notin Names \cup Policies /\ Whole \notin Stores /\ Stores # {}
    /\ IsFiniteSet(Policies)

VARIABLES
    text,        \* the policy text
    enforcing,   \* a schema is given
    scoped,      \* a layout is given
    registered,  \* the ids it registers as global
    phase,       \* how far loading has come
    error,       \* why it failed
    permits,     \* precomputed permit metadata, by Cedar id
    forbids,     \* precomputed names of forbids, by Cedar id
    sets         \* sets[s]: the policies of store s

loaderVars == <<text, enforcing, scoped, registered, phase, error, permits, forbids, sets>>

----------------------------------------------------------------------------
Ids == DOMAIN text.policies
Of(effect) == { p \in Ids : text.policies[p].effect = effect }

\* PermitPolicy::id, and the best available id of a forbid.
BestName(p) == IF text.policies[p].name = NoName THEN p ELSE text.policies[p].name

Fail(kind) ==
    /\ phase' = "failed" /\ error' = kind
    /\ UNCHANGED <<text, enforcing, scoped, registered, permits, forbids, sets>>

Proceed(next) ==
    /\ phase' = next
    /\ UNCHANGED <<text, enforcing, scoped, registered, error>>

\* A policy with a registered id goes to all stores, or cannot be assigned.
LoaderInit ==
    /\ text \in Texts
    /\ enforcing \in BOOLEAN /\ scoped \in BOOLEAN
    /\ registered \in IF scoped THEN Registrations ELSE {{}}
    /\ \A p \in Ids : text.policies[p].name \in registered =>
                        text.policies[p].stores \in {Stores, {}}
    /\ phase = "compile" /\ error = "none"
    /\ permits = <<>> /\ forbids = <<>> /\ sets = <<>>

CompilePolicy ==
    /\ phase = "compile"
    /\ IF text.parses
       THEN Proceed("validate") /\ UNCHANGED <<permits, forbids, sets>>
       ELSE Fail("ParseError")

\* Mutant: what Cedar reports as a warning is no reason to refuse.
Passing(verdict) == verdict # "invalid"

\* Cedar 4.13 reports an inapplicable action as a warning; it stays an error
\* here, other warnings do not.
Acceptable(verdict) == verdict \in {"valid", "warning"}

ValidatePolicies ==
    /\ phase = "validate"
    /\ IF enforcing /\ \E p \in Ids : ~Acceptable(text.policies[p].verdict)
       THEN Fail("ParseError")
       ELSE Proceed("metadata") /\ UNCHANGED <<permits, forbids, sets>>

\* Mutant: metadata by name instead of by Cedar id.
NamedMetadata(effect) ==
    [ n \in { BestName(p) : p \in Of(effect) } |-> n ]

Metadata(effect) == [ p \in Of(effect) |-> BestName(p) ]

PrecomputeMetadata ==
    /\ phase = "metadata"
    /\ IF \E p \in Of("permit") : ~text.policies[p].json
       THEN Fail("EvalError")
       ELSE /\ Proceed("partition")
            /\ permits' = Metadata("permit")
            /\ forbids' = Metadata("forbid")
            /\ UNCHANGED sets

Partition ==
    /\ phase = "partition"
    /\ IF scoped /\ \/ \E p \in Ids : text.policies[p].stores = {}
                    \/ ~(registered \subseteq { text.policies[p].name : p \in Ids })
       THEN Fail("PolicyStoreConfigError")
       ELSE /\ Proceed("loaded")
            /\ sets' = IF scoped THEN [ s \in Stores |-> { p \in Ids : s \in text.policies[p].stores } ]
                       ELSE [ s \in {Whole} |-> Ids ]
            /\ UNCHANGED <<permits, forbids>>

LoaderNext == CompilePolicy \/ ValidatePolicies \/ PrecomputeMetadata \/ Partition

----------------------------------------------------------------------------
LoaderTypeOK ==
    /\ text \in Texts /\ enforcing \in BOOLEAN /\ scoped \in BOOLEAN
    /\ registered \subseteq Names
    /\ phase \in {"compile", "validate", "metadata", "partition", "loaded", "failed"}
    /\ error \in {"none", "ParseError", "EvalError", "PolicyStoreConfigError"}
    /\ DOMAIN permits \cup DOMAIN forbids \subseteq Policies
    /\ phase = "loaded" => \A s \in DOMAIN sets : sets[s] \subseteq Policies

(***************************************************************************)
(* A schema-enforcing engine never serves a policy whose action cannot     *)
(* apply, although the validator only warns of it, and still serves        *)
(* policies with other warnings; without a schema nothing is refused for   *)
(* its types (validate_policy_set_with_schema).                            *)
(***************************************************************************)
OnlyValidPoliciesServed ==
    /\ phase = "loaded" /\ enforcing =>
          \A p \in Ids : text.policies[p].verdict \notin {"invalid", "invalidAction"}
    /\ phase = "failed" /\ error = "ParseError" /\ text.parses =>
          enforcing /\ \E p \in Ids : text.policies[p].verdict \notin {"valid", "warning"}
==============================================================================
