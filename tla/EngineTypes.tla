----------------------------- MODULE EngineTypes -----------------------------
(***************************************************************************)
(* The vocabulary shared by the engine as it is implemented (PolicyEngine) *)
(* and the engine as it is promised (AtomicEngine): what a caller may ask, *)
(* what an immutable engine state is made of, and the three pure functions *)
(* of the code the concurrency depends on - whether a policy text compiles *)
(* under a schema and a layout, whether a request can be decided under     *)
(* them and a label registry, and how the generation counter advances.                          *)
(***************************************************************************)
EXTENDS Naturals

CONSTANTS
    Threads,        \* callers of the engine handle (clones share one ArcSwap)
    Texts,          \* Cedar policy sources
    Schemas,        \* Cedar schemas
    NoSchema,       \* PolicySnapshot.schema = None
    Layouts,        \* policy-store layouts, the monolithic one included
    Registries,     \* label registries
    NoRegistry,     \* EngineState.label_registry = None
    Requests,       \* authorization requests
    Enforcing,      \* TRUE for PolicyEngine<SchemaEnforcing>
    Accepts,        \* <<text, schema, layout>> that compile without error
    Serves,         \* <<request, schema, layout, registry>> that can be decided
    Menu,           \* the calls each thread makes
    MaxGeneration,  \* u64::MAX in the code: where saturating_add stops
    NoJob, NoView

\* The schemas an engine of this mode can hold: SchemaFree never has one,
\* SchemaEnforcing always has one.
EngineSchemas == IF Enforcing THEN Schemas ELSE {NoSchema}

\* The calls the public interface offers. The schema-replacing reload exists
\* only on PolicyEngine<SchemaEnforcing>.
SetLabelsJob    == [kind : {"setLabels"}, registry : Registries]
ReloadJob       == [kind : {"reload"}, text : Texts]
SchemaReloadJob == [kind : {"schemaReload"}, text : Texts, schema : Schemas]
EvaluateJob     == [kind : {"evaluate"}, request : Requests]
SessionJob      == [kind : {"session"}]

Job == UNION { SetLabelsJob, ReloadJob, EvaluateJob, SessionJob,
               IF Enforcing THEN SchemaReloadJob ELSE {} }

\* What one generation of the engine fixes, without the pointers.
View == [ text       : Texts,
          schema     : EngineSchemas,
          layout     : Layouts,
          registry   : Registries \cup {NoRegistry},
          generation : 1 .. MaxGeneration ]

Generations == 1 .. MaxGeneration

\* The answer of a call: "ok" or "err" for the operations that return
\* Result<(), _>; a decision carries the view it was taken on.
Outcome == [ status : {"none", "ok", "err"}, view : View \cup {NoView} ]

NoOutcome   == [status |-> "none", view |-> NoView]
Success     == [status |-> "ok",   view |-> NoView]
Failure     == [status |-> "err",  view |-> NoView]
Decided(v)  == [status |-> "ok",   view |-> v]

\* PolicySnapshot::from_policy_text_with_schema_and_stores returns Ok.
Compiles(text, schema, layout) == <<text, schema, layout>> \in Accepts

\* PolicySets::resolve and PolicyEngine::prepare both return Ok: the request is
\* routed, and with the labels of the registry on it passes the schema.
Answerable(request, schema, layout, registry) ==
    <<request, schema, layout, registry>> \in Serves

\* Mutant: generation.wrapping_add(1).
WrappingGeneration(g) == IF g < MaxGeneration THEN g + 1 ELSE 1

\* generation.saturating_add(1)
NextGeneration(g) == IF g < MaxGeneration THEN g + 1 ELSE MaxGeneration

ASSUME EngineConstants ==
    /\ MaxGeneration \in Nat \ {0}
    /\ Enforcing \in BOOLEAN
    /\ NoSchema \notin Schemas
    /\ NoRegistry \notin Registries
    /\ NoJob \notin Job
    /\ NoView \notin View
    /\ Menu \in [Threads -> SUBSET Job]
==============================================================================
