# A formal model of treetop-core

treetop-core is a library that answers authorization requests with the Cedar
policy engine. This directory holds TLA+ modules that model it, TLC
configurations that check them on small instances, and theorems about them
that TLAPS checks for every value of the constants. File and line references
are to the repository this directory accompanies (`src/engine.rs` and so on).

## 1. Inventory

| Component (code) | State it keeps | Operations | Meets the others through |
| --- | --- | --- | --- |
| **Engine handle** (`engine.rs`) | one `ArcSwap<EngineState>` shared by all clones; a state is a policy snapshot, a label registry and a generation, all immutable | `new_from_str*`, `set_label_registry`, `reload_from_str*`, `evaluate*`, `session`, `current_version`, listings | every call loads the cell; updates publish with compare-and-swap |
| **Policy stores** (`policy_store.rs`, `partition_policy_set`) | an immutable layout (stores, global ids, namespace router) and one `PolicySet` per store | build a layout, assign policies, route a request | built inside a reload, consulted first by every evaluation |
| **Label registry** (`labels.rs`) | immutable labelers by resource type | `build`, `apply` | replaced by `set_label_registry`; applied during `prepare` |
| **Metrics sink** (`metrics.rs`) | one process-wide `ArcSwap` of the sink | `set_sink`, `record_*` | an evaluation captures the sink when it prepares its request, a reload loads it after it published; sink callbacks may panic |
| **Candidate listing** (`policy_match.rs`, `query.rs`, `types/user_policies.rs`, `list_policies_dispatch`) | none | match scope constraints, deduplicate over stores, derive the candidates' actions | reads one snapshot, must agree with evaluation on it |
| **Loader** (`loader.rs`) | none | parse, validate, precompute permit metadata and forbid ids | called by snapshot construction; evaluation looks its metadata up |
| **Evaluation of one request** (`evaluate_state`, `timers.rs`, `error.rs`, `types/decision.rs`) | the timers and the Cedar response of the call | route, label, build the Cedar request and entities, authorize, name the evidence, observe | reads one snapshot, tells the captured sink |
| **Request types** (`types/*`, `traits.rs`) | a cached UID per value | construct, parse, display, (de)serialize, hand to Cedar | values passed to evaluation and listings |
| **Build information** (`build.rs`, `build_info.rs`) | what the last run of the script left to Cargo | list the paths to watch, ask Git, embed | Git, the file system and Cargo |
| JSON metadata of policies, benchmark helpers | none | formatting, generating inputs | |

### Where it is hard

* **Optimistic publication.** An update loads the state, works (a compilation
  takes long) and publishes with a compare-and-swap on the pointer. What it
  does when it lost the race differs per operation: `set_label_registry` and
  the schema-replacing reload re-apply themselves to whatever won
  (`ArcSwap::rcu`), the plain reload keeps its compiled snapshot when only
  labels changed and compiles again when the policies changed, because it
  compiled under a schema that may be superseded by now (`engine.rs:714-742`).
* **Pointer comparison.** "Only labels changed" and "still current" are
  `Arc::ptr_eq`: right only as long as an address cannot be reused while
  somebody still compares with it.
* **Coherent decisions.** Routing, labels, schema validation, authorization
  and the reported version are separate steps while others publish.
* **Counters.** The generation saturates; until then it must identify what
  decided.
* **Partial failure.** A reload can fail at its first or at a later
  compilation, and must leave no trace.
* **Progress.** The retry loops are unbounded.
* **Two ways to find a store.** Policies are placed by everything they
  reference, requests by their action and resource only; decisions survive
  partitioning only where the two agree (`policy_store.rs:254,326`).
* **Labelers that read attributes** see other labelers' outputs and, unless
  those were cleared first, the caller's forgeries (`labels.rs:328`).
* **Two implementations of one relation.** A listing matches scope constraints
  by its own code, over typed names; evaluation asks Cedar, over an entity
  hierarchy built from the request (`policy_match.rs`, `engine.rs:493`).
* **Metadata computed from another set.** Permit metadata and forbid names come
  from the undivided set before it is partitioned, and answer for what Cedar
  names in a store (`loader.rs:50`, `engine.rs:368-404`).
* **Quoting.** A user's groups, a UID, a shorthand and an unqualified id are
  told apart by quotes, escapes, brackets and separators in one text.
* **Watching while the world moves.** The build script lists paths and asks Git
  four times while the developer works.
* **Foreign code.** Sinks run inside evaluations and after publications, may
  panic anywhere, and are replaced while calls are under way.

### What makes each component correct

* Engine: calls are linearizable; updates compose and none is lost; a plain
  reload never restores a superseded schema; the published policies compile
  under the published schema; equal generations mean equal states; a caller's
  decisions never go back; sessions are frozen; the retry loops are lock-free
  and evaluations finish.
* Stores: no two stores own one name; every policy is installed in exactly one
  store or in all; a request is decided by the policies that could match it.
* Labels: an owned attribute is never the caller's; application is idempotent
  and independent of what callers put in owned attributes.
* Metrics: one evaluation reports to one sink, and no sink can disturb a
  decision or a reload.
* Listing: each policy at most once, no candidate that authorization would use
  is missing, and a listing without clauses decides by itself.
* Loader and evaluation: a schema keeps out what is invalid or cannot apply and
  nothing else; the answer, its evidence, its diagnostics and what a sink is
  told are those of the source text; measured phases never overlap.
* Request types: a text means one thing, that of a grammar; the UID and the
  attributes Cedar sees are those of the value; what is written reads back.
* Build information: metadata Cargo considers fresh is current, and builds
  settle.

## 2. Modules

| Module | What it is | Code |
| --- | --- | --- |
| `EngineTypes` | vocabulary: jobs, views, outcomes, `Compiles`, `Answerable`, `NextGeneration` | `engine.rs`, `types/decision.rs` |
| `AtomicEngine` | the abstract specification: each call takes effect in one step | what `engine.rs` and its docs promise |
| `PolicyEngine` | the engine handle, step by step, for any number of callers; its properties and the refinement mapping to `AtomicEngine` | `engine.rs` |
| `MCPolicyEngine` | instances for TLC | |
| `PolicyEngineProofs` | its safety invariants, and that it implements `AtomicEngine`, proved | |
| `PolicyStoreLayout` | building a layout: the namespace trie, overlaps, global ids | `policy_store.rs` |
| `PolicyStores` | extends it with partitioning a source, routing and deciding | `policy_store.rs`, `engine.rs` |
| `MCPolicyStores` | instances: nested layouts; two stores with marked policies | |
| `PolicyStoresProofs` | the invariants of both, proved | |
| `LabelRegistry` | the builder and the application of a registry | `labels.rs` |
| `MCLabelRegistry` | an instance: five labelers on two types | |
| `LabelRegistryProofs` | its invariants, proved | |
| `MetricsSink` | the process-wide sink and every call that reports to it | `metrics.rs`, `engine.rs` |
| `MCMetricsSink` | instances: two threads, two kinds of sinks | |
| `MetricsSinkProofs` | its invariants and `ResultStands`, proved | |
| `PolicyListing` | a listing call, policy by policy, beside publications; matching, queries, candidates' actions | `policy_match.rs`, `query.rs`, `types/user_policies.rs`, `types/entity_uid.rs`, `engine.rs` |
| `MCPolicyListing` | an instance: two policies, undivided or in two stores, one reload | |
| `PolicyListingProofs` | its invariants, proved | |
| `PolicyLoader` | from a policy text to a snapshot, with the error of the first step that fails | `loader.rs`, `engine.rs` |
| `Evaluation` | extends it with one evaluation, step by step, timers and observation included | `engine.rs`, `timers.rs`, `error.rs`, `metrics.rs`, `types/decision.rs` |
| `MCEvaluation` | an instance: texts that load in every way and texts that fail in every way | |
| `EvaluationProofs` | the invariants of both, proved | |
| `IdentifierText` | pure: what the request types make of a text and of parts | `types/resource.rs`, `types/user.rs`, `types/qualified_id.rs`, `types/group.rs`, `types/action.rs` |
| `Identifiers` | texts typed character by character, and the grammar they are compared with | the same |
| `RequestTypes` | extends it with values made from parts, JSON or text, changed, and handed to Cedar | `types/*` |
| `MCRequestTypes` | an instance: eleven beginnings of texts, ids with quotes, malformed namespaces | |
| `RequestTypesProofs` | what texts are read as, by induction on their length, and the invariants of both, proved | |
| `BuildMetadata` | the build script, Cargo's rule, and a developer who edits, moves and uses Git | `build.rs`, `build_info.rs` |
| `MCBuildMetadata` | an instance: one file, two branches, a tag | |
| `BuildMetadataProofs` | `FreshMetadataIsCurrent`, proved | |

### PolicyEngine

A thread of `Threads` is a caller of one clone of the handle; it makes the
calls of its `Menu`, one at a time. `current` is the content of the `ArcSwap`.
An `Arc` is a record with an `id`, its address: contents are immutable, so a
held `Arc` is the record itself, and `PtrEq` compares only addresses, as the
code does. The allocator hands out any address no live owner occupies
(`FreeStateIds`, `FreePolicyIds`), so reuse happens as soon as an `Arc` is
dropped; `Allocate` narrows the choice for TLC and is arbitrary in the proofs.

| Call | Steps |
| --- | --- |
| `set_label_registry` | `SetLabelsLoad`, then `SetLabelsSwap`, or `RcuRetry` when the compare-and-swap lost |
| `reload_from_str` | `ReloadLoad`, `ReloadCompile`, then `ReloadPublish`, `ReloadRetry` (a label-only update won) or `ReloadRecompile` (another policy won) |
| `reload_from_str_with_schema` | `SchemaReloadLoad`, `SchemaReloadCompile`, `InstallLoad`, then `InstallSwap` or `RcuRetry` |
| `evaluate*` | `EvaluateLoad`, `EvaluatePrepare`, `Authorize` |
| `session()` and its evaluations | `OpenSession`, any number of `SessionPrepare`, `Authorize`, then `CloseSession` |

A step that fails to compile or to prepare records `Failure` and returns;
`Return` drops what the call owned. Abstractions, each an over-approximation
or a fold of an immutable computation:

* A text, a schema, a request, a registry is a value; `Accepts` says which
  texts compile under which schema and layout (`PolicySnapshot::
  from_policy_text_with_schema_and_stores`, including the parse of a schema
  given as text), `Serves` which requests are routed under which layout and
  pass which schema with the labels of which registry on their resource. Both
  are arbitrary relations.
* The decision itself is a function of what `prepare` and `is_authorized` saw,
  so the model records what they saw: the view of the held state, with the
  schema and registry `prepare` actually used (`seen`).
* `reload_from_str_with_schema` also holds the state it loaded first until it
  returns; the model releases it at `InstallLoad`, which only makes more
  addresses reusable. A replacement allocated for a compare-and-swap that
  loses is freed at once and is not modelled.
* `load_full`, `rcu`'s compare-and-swap and `compare_and_swap` are atomic:
  that is what `arc-swap` provides, and a lost compare-and-swap returns the
  state that won in the same step.
* Read-only calls that load the cell once and report (`current_version`,
  `label_registry`, `policies`, listings) are evaluations without the later
  steps and are not repeated.

### AtomicEngine and the refinement

`AtomicEngine` has no pointers, retries or interleaving: `SetLabels` changes
the registry, `Reload` the text, `SchemaReload` text and schema, `Evaluate`
answers on the engine of that instant, `OpenSession` freezes it. The mapping
in `PolicyEngine` places the effect of a call at its successful
compare-and-swap, or, for calls that answer or fail, at the load they decided
on. `ImplementsAtomicEngine` says every behaviour of the detailed engine is
one of the atomic engine.

### PolicyStoreLayout and PolicyStores

A qualified name is the sequence of its components, each a text between two
`::`, and the trie compares them as texts. `router` is the trie: a
function from the paths of its nodes to the store index at the node, or
`NoStore`. `PolicyStoreLayout::new` is `CheckDeclaration`, one
`InsertNamespace` or `RefuseOverlap` per store, and `FinishLayout`;
`RegisterGlobal` is `with_global_policy_ids`. `Resolve` walks down to the
first node that carries a store, as `NamespaceRouter::resolve` does.

`partition_policy_set` is `StartPartition`, one `AssignPolicy` or
`RefusePolicy` per policy in any order (`PolicySet::policies()` has none), and
`FinishPartition`, which compares the registered ids with those found.
`Route` is `resolve_request`; it resolves the resource by its whole type name
and the action by its namespace as the caller gave it, a list of texts. Cedar
and the policies know the action by another name: `ActionType` joins those texts
with `::` and parses the result (`validate_namespace_with_type`), so that a text
that holds `::` itself (`Parsed` says which identifiers are in a text) stands
for several components there and for none of the trie's edges here.
Abstractions:

* A policy is reduced to its effect, its marks (`@id`, `@treetop_store`) and
  the entity types it names per scope part and in its clauses: assignment reads
  nothing else. A scope constraint on one entity counts as its type plus a
  condition. What a clause evaluates to is part of the request (`facts`), the
  same for both sides of any comparison, so clauses stay arbitrary.
* `action in []` references nothing and matches nothing: `anyAction = FALSE`
  with an empty list.
* `Satisfied` and `Decide` stand for Cedar's authorizer: a satisfied forbid
  denies, otherwise a satisfied permit allows.
* Rejections of malformed strings (empty ids, unparsable namespaces) and
  failures of `to_pst` and of `PolicySet::add`, none of which depends on a
  layout, are left out. Policy templates are not modelled: no source file treats them separately.

### LabelRegistry

`AddLabeler` and `Build` are the builder; `build()` visits the labelers in
order (`RegisterLabeler`, `RefuseDuplicate`, `FinishBuild`). `Apply` starts
labelling a resource, `ClearOwned` and `DeriveOwned` are the iterations of the
two loops of `apply_scope`, `Reapply` labels the result again. `Derive` is an
arbitrary function of labeler and resource, which is what `Labeler::derive`
demands of implementations ("deterministic, side-effect-free"); `RegexDerive`
is the built-in one, used in the instance.

"Does not depend on the caller's values" compares two runs, so the module
labels two resources in lockstep: `labelled` and `twin`, which differ only in
attributes the registry owns. They share nothing.

### MetricsSink

`installed` is the history of the `SINK` cell; every `set_sink` allocates, so a
captured sink is the index of its installation, and two installations of one
sink are told apart. `call[t]` is the call thread `t` is in: the place it has
come to, the captured installation (`guard`), the installation whose
`enabled()` said yes (`wants`), the settled result and the callbacks made.
`SetSink` may happen at any moment, from a callback too. `Answers` and `Panics`
let a sink answer anything and panic in every callback; `Unwind` is what
`catch_unwind` leaves of it. A sink either keeps the default adapter
(`on_evaluation`, then `on_evaluation_phases`) or overrides the observation.
An evaluation can fail while routing, preparing, or when an Allow comes without
permit metadata; a reload while compiling. What the engine does in between is
`PolicyEngine`'s business: the two modules share no state, as the two cells in
the code share none. A sink that calls back into the engine makes a call of
its own, which is like another thread's.

### PolicyListing

`BeginListing` captures the published snapshot or `RefuseListing` rejects the
names; `VisitPolicy` takes any policy of the current store next, `NextStore`
moves on, `FinishListing` returns, while `Publish` replaces the snapshot at any
moment. The order in which a policy set is visited is arbitrary, and the final
sort by id makes the result a multiset, so `hits` counts how often each policy
was returned. `PrincipalMatches`, `ActionMatches` and `ResourceMatches` are
`policy_match.rs`; `ForUser`, `ForGroup` and `FromPrincipal` the queries. The
properties compare them with `Satisfied`: Cedar's scope constraints over the
entities `build_entities` makes. What a policy's clauses evaluate to is part of
the request. Both namespaces Cedar parses and those it refuses, and empty ids,
are among the inputs.

### PolicyLoader and Evaluation

A policy is what the loader finds out about it: effect, `@id`, the validator's
verdict, whether it can be written as JSON, and the stores it is assigned to;
`registered` are the ids the layout registers as global.
`CompilePolicy`, `ValidatePolicies`, `PrecomputeMetadata` and `Partition` are
the steps of `PolicySnapshot::from_policy_text_with_schema_and_stores`.
Evaluation begins on a loaded snapshot and is `Resolve`, `ApplyLabels`,
`BuildContext`, `BuildRequest`, `ResolveGroups`, `BuildEntities`, `Authorize`,
`Conclude`, `Record`; every step may take time, and `Timed` is a `PhaseTimer`
that is dropped when the step ends, on an early return too. A vector of names
that the code sorts or deduplicates is a function from names to occurrences.
Two forbids may share an `@id`, and an `@id` may read like another policy's
Cedar id.

### IdentifierText, Identifiers and RequestTypes

Texts are sequences of characters, except that a word of Cedar's syntax
(`User`, `Group`, `Action`) and `::` count as one character. `Parts` is
`split_string_into_cedar_parts`, `UserAndGroups` is `split_user_and_groups`,
whose scanner of quotes and escapes is the function `Quoting`. The text a value
is read from is typed one character at a time, so that every state checks one
text; `ReadAsGrammar` compares the verdict and the result with a grammar that
says what a name and a user are, not how to find their ends. `RequestTypes`
makes users, groups, actions, resources and contexts in each of their ways,
changes them and checks what Cedar sees. Cedar's parser is modelled as used:
type names are words between separators, literals know the escapes of quote and
backslash; reserved words and other escapes are left out.

A segment of a namespace may itself hold `::`, so `["A::B"]` and `["A", "B"]`
give the same UID but unequal values. Groups in a text are taken literally,
quotes included. Both are what the code does, and both differ from what a
document says (section 5).

### BuildMetadata

The repository is its commits, refs (loose or packed), index and work tree;
`changed` is the modification time of each path, `Touch` what an operation
modifies. `CargoBuild` starts the script when a watched path is missing or
newer than the last run's start; `EmitWatchPaths`, `EmitDescribe`, `EmitSha`,
`EmitBranch` and `EmitDirty` are its calls to Git, between any two of which the
developer may act. `git describe --dirty` and `git status` may rewrite the
index, which is watched. Git and Cargo are external and modelled as far as the
script depends on them: one work tree at the repository's root, no worktrees or
submodules, and a clock on which no two modifications coincide.

## 3. Runs

| Run | Question | Bounds |
| --- | --- | --- |
| `engine_writers` | do concurrent updates compose, is every call atomic? | one plain reloader, one label replacer, one schema-replacing reloader; 2 texts, 2 schemas, one of the texts invalid under one schema; generations to 4 |
| `engine_readers` | are decisions coherent, identified and monotone? | one caller that evaluates and opens sessions, one that makes every kind of update; 2 registries, 2 requests, one refused by one schema and, with the labels of one registry, by the other too |
| `engine_liveness` | are the loops lock-free and evaluations wait-free? | 2 callers, generations to 2 |
| `stores` | does the router find owners, are exactly the bad declarations refused, do policies land where the rules say, do decisions survive? | all sequences of up to 3 stores over 3 ids and 4 namespaces: a root, a child, a grandchild, a sibling; and, for 2 stores, also with one rooted at an action type, a permit and a forbid in all combinations of marks and named types; 48 requests, 12 of them with a joined action namespace |
| `store_boundary` | does partitioning ever change a decision? (yes: section 5) | 2 stores, sources without marks, segmented requests |
| `store_conflicts` | are conflicting namespaces always refused? (no: section 5) | the same with all requests |
| `labels` | can owned attributes be forged, is labelling idempotent and local? | up to 3 of 5 labelers, 2 of them with one target, 3 feeding one another; 54 resources |
| `sinks` | does every call report once, truly, to the right sink, and return? | 2 threads, 3 installations, both kinds of sinks |
| `listing` | does a listing name each candidate once, and all of them? | 2 policies in all forms of scope constraints, undivided or in 2 stores; users, groups and requests; one reload |
| `evaluation` | is the answer that of the text, for everyone who hears it? | 3 policies, 2 stores, every way a text or a request can fail; steps of 0 or 1 time units |
| `request_types` | does a text mean what the grammar says, does Cedar see what was given? | every text of up to 3 characters after 11 beginnings, ids up to 2 characters, 7 namespaces, 2 attributes |
| `build` | is fresh metadata current, do builds settle? | 1 file, 2 branches, 1 tag, 2 commits, 3 changes while anything is built |

The type invariants that section 4 proves are not checked again by the runs.

Three writers are one of each update loop, so every pair of loops races and a
third can intervene in any race; generation 4 allows three publications before
the counter saturates, more than any one retry decision looks back over, and
reaching the bound exercises saturation itself. Once saturated the model keeps
publishing, so the runs still cover unbounded numbers of updates. One text is
valid only under one schema, so a reload can pass at its first compilation and
fail at the second. Addresses: as many as owners can hold at once, so `Allocate`
never blocks, handed out lowest-first so that every freed address is reused
immediately.

The `VIEW`s of the safety runs replace addresses by the sharing structure of
the live `Arc`s (addresses are only compared, so renaming them changes
nothing); `WritersView` also drops the answers of completed calls, which no
property of that run reads once the call has returned. The liveness run has no
view.

An overlap involves two stores; a third shows that one inserted in between
does not hide it. A decision depends on at most one deciding forbid and the
permit it overrides, hence two policies; `RoutingPreservesDecisions` is about
requests that pass both routings, with an action namespace joined in one text
among them, and the second layout, rooted at an action
type, makes policies reference a store that no request's action namespace
does. `MCSpec` starts either with any layout and one source, whose policies go
everywhere, or with one of the two layouts of two stores and any source: the
product of both would ask nothing new. Three labelers make a chain in which one reads what the next writes and
the next reads a third, in both registration orders. A call captures one
installation: one before, one captured and one later are all it can tell
apart. Two policies are enough for a listing to
find one and miss or repeat the other, and one reload during a call is what
`held` must withstand. Three policies let two forbids share a name beside a
permit. The eleven beginnings put every special character after every state
of the scanner, inside and behind quotes; three more characters close a quote,
escape or bracket and add one that must be refused. A stale field needs one
change after it was read; three changes allow an edit to be staged and
committed, or a ref to be made, packed and removed, around any step of the
script. Building a layout or a registry, an evaluation, and a developer's
changes may end, so those runs do not check for deadlock.

**Fairness.** `FairSpec` assumes weak fairness of each thread's next step once
it has made a call: the operating system keeps scheduling runnable threads,
and nothing in the code blocks. Nobody is forced to make or to stop making
calls, to evaluate on or to close a session. An update counts as pending from
its call to its return (`UpdatePending`), through all its compilations and
retries: `UpdatesLockFree` says that one which never returns is overtaken by
infinitely many publications. `MetricsSink`'s `FairSpec` is the
same: callbacks are assumed to return or to panic, which the code cannot
enforce ("should return quickly"), and `set_sink` is never forced.
`BuildMetadata`'s assumes that Cargo is called again and again and that a
started script goes on; the developer is never forced.

## 4. Proofs

`PolicyEngineProofs` proves, for any threads, texts, schemas, layouts,
registries, requests, `Accepts`, `Serves`, menus, allocator and
`MaxGeneration`, under the constants' assumptions in `EngineTypes` and
`PolicyEngine`:

| Theorem | Property |
| --- | --- |
| `TypeCorrect` | `TypeOK` |
| `NoABA` | `ArcIdentity` |
| `PublishedCompiles` | `CurrentCompiles` |
| `UpdatesCompose` | `NoLostUpdate` |
| `NoSupersededSchema` | `SchemaOnlyBySchemaReload` |
| `VersionIdentifies` | `GenerationIdentifiesState` |
| `MonotoneReads` | `ReadsNeverGoBack` |

The inductive invariant is `IInv`: the properties themselves plus, per thread,
what it owns at each step (`Owns`), which call it runs (`Runs`), what the
snapshot it compiled is (`Compiled`) and that `prepare` saw the held state
(`SawHeld`). Ownership is what makes `ArcIdentity` inductive, and
`ArcIdentity` is what turns "the addresses are equal" into "the held state is
the current one" (`SwapHolds`), on which every publication argument rests.
`GInv` adds that nothing which decided or may decide is newer than the cell.

The module also proves `Linearizable`: `Spec => ImplementsAtomicEngine`. The
invariant of that proof adds to `IInv` that a compiled snapshot was compiled for the job
at hand (`Prepared`). Each action has a lemma: it either leaves the mapped
variables alone (`Stutters`) or takes the effect of one abstract call
(`TakesEffect`); at a publication `SwapHolds` again supplies that the state
built on is the current one.

`PolicyStoresProofs`, for any components, namespaces of any depth, layouts,
sources and requests:

| Theorem | Property |
| --- | --- |
| `TypeCorrect` | `TypeOK` |
| `RouterCorrect` | `RouterFindsOwner` |
| `LayoutCorrect` | `LayoutVerdict` |
| `PartitionCorrect` | `PartitionFollowsRules` |
| `GlobalForbidsCorrect` | `GlobalForbidsPrevail` |
| `RoutingCorrect` | `RoutingPreservesDecisions` |

The trie carries store `i` exactly at the namespace of each inserted store and
those namespaces are pairwise disjoint; from that, and from how prefixes of one
name compare, follows what `Resolve` and `Overlaps` return. `SoFar` says the
stores hold exactly the placed policies among those the loop has passed. The
last two theorems are consequences: an anchored policy that a routed request
satisfies lives in the store the request is routed to. A policy is anchored by
its resource for every request, by its actions only for those whose action
namespace is given one identifier at a time (`Segmented`); `store_conflicts`
shows why.

`LabelRegistryProofs`, for any types, attributes, labelers, resources and any
`Derive`: `TypeCorrect` (`TypeOK`), `TargetsHaveOneOwner` (`OneOwner`),
`OwnedAttributesUnforgeable` (`NoForgery`), `LabellingIdempotent`
(`Idempotent`), `LabelsStayInScope` (`OnlyOwnedChange`). The invariant: while
clearing, the two copies agree except on attributes still to be cleared; from
then on they are equal, and a function gives equal results on equal arguments.
For idempotence, `Twice` says there is one sequence of resources (`Trace`) that
the deriving loop goes through from the cleared resource, and that the second
application goes through it again. `Registered` says that the scopes are the
passed labelers, by type and in order (`Sorted`), and those have distinct
targets.

`MetricsSinkProofs`, for any threads and sinks and any number of
replacements: `TypeCorrect` (`TypeOK`), `AskedSinkHears`
(`ReportsToAskedSink`), `RetiredSinksRest` (`NoStaleSink`), `TrueReportOnce`
(`OneTrueReport`), `SinksCannotInterfere` (`ResultStands`). `CallInv` says of
one call, place by place, what it has captured and told; a step of one call
disturbs no other (`OneCall`), and an installation only appends (`SetSinkInv`).

`PolicyListingProofs`, for any policies, snapshots, requests and listing calls,
under `ListingConstants` and `EverythingInstalled` (every policy is in some
store, which `PolicyStores` proves of partitioning):

| Theorem | Property |
| --- | --- |
| `TypeCorrect` | `TypeOK` |
| `NoRepetition` | `CandidatesOnce` |
| `CandidatesComplete` | `NoDecidingPolicyMissing` |
| `ActionsComplete` | `AllowedActionsListed` |
| `UnconditionalCandidatesDecide` | `UnconditionalListingDecides` |

The invariant (`Visited`): a policy was returned once exactly if it was seen
and matches, the stores passed have been seen, and where the code keeps no set
of ids, because there is one store, nothing visited is still pending. The rest
is that every scope constraint Cedar satisfies on the built entities matches
the query.

`EvaluationProofs`, for any texts, names, stores, requests and durations, under
`LoaderConstants` and `EvaluationConstants`:

| Theorem | Property |
| --- | --- |
| `TypeCorrect` | `TypeOK` |
| `ValidPoliciesServed` | `OnlyValidPoliciesServed` |
| `AnswersCorrect` | `AnswersFromText` |
| `DiagnosticsCorrect` | `DiagnosticsNameForbids` |
| `StatsCorrect` | `StatsMatchDecision` |
| `PhasesCorrect` | `PhasesFit` |

`LoaderInv` ties metadata and sets to the text, `TimersInv` says the phases so
far took no longer than the clock has moved since the start, and `CallInv`
says, place by place, which refusals are ruled out and what the response and
the result are.

`RequestTypesProofs`, for texts of any length, any ids, namespaces, types and
attributes and any number of changes, under `TextConstants`,
`IdentifierConstants` and `RequestConstants`:

| Theorem | Property |
| --- | --- |
| `GrammarFollowed` | `ReadAsGrammar` |
| `RenderingsReadBack` | `ReadsBack` |
| `NamesMatchValues` | `NamesAndValuesAgree` |
| `GroupsStayInNamespace` | `GroupsInUsersNamespace` |
| `IdCanonical` | `CanonicalId` |

What a scanner makes of a text is a function of positions, each of whose values
is defined from the one before. The first half of the module is about such
functions. Induction is over a set of positions (`Induction`, from the
library's theorem on least elements), because a theorem about a predicate
cannot be instantiated by the provers; that a recursive function satisfies its
own equation is proved by constructing it (`Recursion`). From these follow what
splitting at separators, joining, escaping and undoing escapes return for every
text, and that the scanner of quotes passes over what is shown of an
identifier and is outside quotes behind it (`Quiet`). `GrammarFollowed` compares the
places the code looks for, the first bracket outside quotes and the last
separators, with the grammar, which names no places: a text has at most one
name of each form. The invariant of the second half, `Inv`, says that each
value is one that a constructor, a text or JSON can give and was only changed
by the setters. `TextConstants` demands that letters are no marks or words of
Cedar's syntax, and that `Refused`, which stands for an error, is none of the
values a text is read as.

`BuildMetadataProofs`, for any files, contents, branches and tags and any
number of commits and changes, under `BuildConstants` (names of files, refs,
commits and Git's own paths are told apart): `FreshIsCurrent`
(`FreshMetadataIsCurrent`). The invariant is not about fresh metadata but about
every run, the one under way and the last, and every state of the
checkout. As long as no watched path was modified since the run began and no
watched file was missing at a moment of the run (`Kept`), the watched paths
and the missed files stand for all the metadata depends on (`Covers`), and what
the steps so far took down is what the checkout is, but for files moved aside
since (`Captured`, which compares a watched file at its `Home`, wherever it was
moved). Each change of the developer's either modifies a path that is always
watched (`GitSeen`) or leaves all that the metadata depends on (`Steady`). A
file that was missing when the script began and came back before it asked is to
be looked at again by Git (`Running`), which then writes the index, a watched
path: such a run is repeated. TLC checked this invariant, also with two files,
before it was proved.

With these, every safety invariant and every action property that a run
checks is proved. Only model-checked is liveness (`UpdatesLockFree`,
`EvaluationsFinish`, `CallsReturn`, `BuildsSettle`): weak fairness is about
when an action is enabled, which is beyond the prover.

## 5. Where the documentation and the code differ

`store_boundary` refutes `OptimizationBoundary`. `docs/PolicyStores.md:8` says
that policy stores are "an optimization boundary, not a change to Cedar
authorization semantics". The code places a policy by all its references, its
principal's included (`policy_store.rs:264-276`), and routes a request by
action and resource (`policy_store.rs:331-336`). So a forbid whose only
reference is a principal type of one store is installed there alone, and the
same principal's request to another store is allowed, though the undivided set
denies it. The document asks authors to keep stores independent and to mark
organization-wide policies global (lines 150-153); construction does not check
the former. `RoutingPreservesDecisions` states a sufficient condition under
which the sentence is true, and is proved.

`store_conflicts` refutes `ConflictingNamespacesFailClosed`.
`docs/PolicyStores.md:119` says that a request whose action namespace and
resource type are of different configured stores fails closed. The code routes
the action by the segments of its namespace as given (`policy_store.rs:331-333`)
but makes its UID from the joined and parsed text (`qualified_id.rs:152-161`).
`Action::new("x", Some(vec!["Co::DNS"]))` is `Co::DNS::Action::"x"` to Cedar and
to every policy, while its one segment leads nowhere in the trie: with a
resource of another store the request is decided by that store, and policies
that the DNS store holds for this action are not asked. JSON takes the same
path; an action read from text never has such a segment. Given as
`["Co", "DNS"]` the same action is refused.

`Changelog.md:541` calls the groups in the text of a user "unquoted". The code
does not refuse quotes there (`user.rs:176-188`): it takes them, like backslashes
and `::`, as part of the id, so `User::alice["x"]` is a user in a group whose id
is `"x"` with the quotes. The grammar of `Identifiers` says what the code does
(a group is any text without commas and brackets) and `ReadAsGrammar` is about
that grammar.

`Changelog.md:252` says that build metadata "refreshes when Git refs, the index,
tags, or tracked worktree inputs change". `FreshMetadataIsCurrent` needs one
exception: the script watches only files that exist (`build.rs:82-90`), so a
tracked file that is missing while the script runs and is then moved back with
its old modification time leaves `dirty` set until something else changes. The
alternative, watching missing paths, is what `BuildsSettle` excludes.

## 6. Plan

Modelled first was what concurrent callers can break, then what decides which
policies count, then what decides on which attributes, then what runs foreign
code; then listings, loading and evaluating a request, the request types, and
the build script. What could follow:

1. An instance of `PolicyEngine` whose `Accepts` and `Serves` are computed by
   `PolicyLoader` and `PolicyStores` instead of chosen freely. Nothing depends
   on it: the properties hold for arbitrary relations.
2. That a source with registered global ids that loads keeps every
   organization-wide forbid in every store across reloads.
3. That partitioning gives what `PolicyListing` and `Evaluation` assume of the
   stores (every policy is installed), as a theorem about the modules together
   and not, as now, of each.

Not modelled, and why: JSON metadata of permit policies (`policy_json.rs`, a
pure conversion that keeps nothing and decides nothing beyond whether it
succeeds, which `PolicyLoader` has); the wording of errors, of a listing's
reasons and of the version; the parsing of versions in `build_support.rs` and
the environment variables of `build.rs`; benchmark helpers (generators of
inputs, no behaviour of the library); Cedar, Git and Cargo themselves
(external, modelled where used).
