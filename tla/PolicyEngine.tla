---------------------------- MODULE PolicyEngine -----------------------------
(***************************************************************************)
(* engine.rs: the engine handle. One ArcSwap cell points to an immutable   *)
(* EngineState, which points to an immutable PolicySnapshot. Callers load  *)
(* the pointer, work on what they loaded, and publish with compare-and-    *)
(* swap on the pointer; between two of these steps other threads run.      *)
(*                                                                         *)
(* An Arc is a record with an `id`, its address. Contents are immutable,   *)
(* so a held Arc is the record itself; an address is unavailable to the    *)
(* allocator exactly while some owner still holds the Arc, and is reused   *)
(* as soon as the last owner lets go.                                      *)
(***************************************************************************)
EXTENDS EngineTypes

CONSTANTS
    StateIds,    \* addresses an Arc<EngineState> can get
    PolicyIds,   \* addresses an Arc<PolicySnapshot> can get
    Allocate(_), \* the free addresses the allocator may hand out, of a set
    NoState, NoPolicy

VARIABLES
    current,   \* the Arc<EngineState> in the ArcSwap cell
    pc,        \* pc[t]: the step thread t is about to take
    job,       \* job[t]: the call in progress
    held,      \* held[t]: the Arc<EngineState> t loaded last and still owns
    compiled,  \* compiled[t]: the Arc<PolicySnapshot> t built and still owns
    seen,      \* seen[t]: what prepare() used of the held state
    outcome    \* outcome[t]: the answer of t's latest completed operation

vars == <<current, pc, job, held, compiled, seen, outcome>>

Snapshot == [ id : PolicyIds, text : Texts, schema : EngineSchemas, layout : Layouts ]

EngineState == [ id         : StateIds,
                 policy     : Snapshot,
                 registry   : Registries \cup {NoRegistry},
                 generation : Generations ]

Seen == [ schema : EngineSchemas \cup {NoSchema}, registry : Registries \cup {NoRegistry} ]

NothingSeen == [schema |-> NoSchema, registry |-> NoRegistry]

ASSUME PointerConstants ==
    /\ NoState \notin EngineState
    /\ NoPolicy \notin Snapshot
    /\ \A S \in (SUBSET StateIds) \cup (SUBSET PolicyIds) : Allocate(S) \subseteq S

\* Arc::ptr_eq
PtrEq(a, b) == a.id = b.id

Holders   == { t \in Threads : held[t] # NoState }
Compilers == { t \in Threads : compiled[t] # NoPolicy }

\* Mutant: a thread remembers the address it loaded but does not own the Arc.
UnownedStateIds == StateIds \ {current.id}

\* Addresses no live Arc occupies.
FreeStateIds ==
    StateIds \ ({current.id} \cup { held[t].id : t \in Holders })

FreePolicyIds ==
    PolicyIds \ ( {current.policy.id}
                  \cup { held[t].policy.id : t \in Holders }
                  \cup { compiled[t].id : t \in Compilers } )

ViewOf(s) == [ text       |-> s.policy.text,
               schema     |-> s.policy.schema,
               layout     |-> s.policy.layout,
               registry   |-> s.registry,
               generation |-> s.generation ]

Goto(t, label) == pc' = [pc EXCEPT ![t] = label]

\* PolicyEngine::from_snapshot: every constructor compiles first.
Init ==
    /\ current \in { s \in EngineState :
                        /\ s.id \in Allocate(StateIds)
                        /\ s.policy.id \in Allocate(PolicyIds)
                        /\ Compiles(s.policy.text, s.policy.schema, s.policy.layout)
                        /\ s.registry = NoRegistry
                        /\ s.generation = 1 }
    /\ pc       = [t \in Threads |-> "idle"]
    /\ job      = [t \in Threads |-> NoJob]
    /\ held     = [t \in Threads |-> NoState]
    /\ compiled = [t \in Threads |-> NoPolicy]
    /\ seen     = [t \in Threads |-> NothingSeen]
    /\ outcome  = [t \in Threads |-> NoOutcome]

Invoke(t) ==
    /\ pc[t] = "idle"
    /\ \E j \in Menu[t] : job' = [job EXCEPT ![t] = j]
    /\ Goto(t, "called")
    /\ UNCHANGED <<current, held, compiled, seen, outcome>>

\* ArcSwap::load_full, the first step of every call.
Load(t, kind, next) ==
    /\ pc[t] = "called"
    /\ job[t].kind = kind
    /\ held' = [held EXCEPT ![t] = current]
    /\ Goto(t, next)
    /\ UNCHANGED <<current, job, compiled, seen, outcome>>

\* The cell takes a new Arc; the publishing thread's call has succeeded.
Install(t, s) ==
    /\ current' = s
    /\ outcome' = [outcome EXCEPT ![t] = Success]
    /\ Goto(t, "returning")
    /\ UNCHANGED <<job, held, compiled, seen>>

------------------------------------------------------------------------------
\* set_label_registry: ArcSwap::rcu over the loaded state.

SetLabelsLoad(t) == Load(t, "setLabels", "labelSwap")

\* Mutant: replacing labels is not a new generation.
WithRegistrySameGeneration(s, i, r) ==
    [ id |-> i, policy |-> s.policy, registry |-> r, generation |-> s.generation ]

WithRegistry(s, i, r) ==
    [ id |-> i, policy |-> s.policy, registry |-> r,
      generation |-> NextGeneration(s.generation) ]

\* Mutant: a plain store of the new state instead of a compare-and-swap.
SetLabelsStore(t) ==
    /\ pc[t] = "labelSwap"
    /\ \E i \in Allocate(FreeStateIds) : Install(t, WithRegistry(held[t], i, job[t].registry))

SetLabelsSwap(t) ==
    /\ pc[t] = "labelSwap"
    /\ PtrEq(held[t], current)
    /\ \E i \in Allocate(FreeStateIds) : Install(t, WithRegistry(held[t], i, job[t].registry))

------------------------------------------------------------------------------
\* reload_from_str

ReloadLoad(t) == Load(t, "reload", "compile")

\* A fresh snapshot of the text under the schema; the layout is the loaded one.
CompileInto(t, text, schema, next) ==
    LET layout == held[t].policy.layout IN
    \/ /\ Compiles(text, schema, layout)
       /\ \E p \in Allocate(FreePolicyIds) :
             compiled' = [compiled EXCEPT ![t] =
                 [id |-> p, text |-> text, schema |-> schema, layout |-> layout]]
       /\ Goto(t, next)
       /\ UNCHANGED outcome
    \/ /\ ~ Compiles(text, schema, layout)
       /\ outcome' = [outcome EXCEPT ![t] = Failure]
       /\ Goto(t, "returning")
       /\ UNCHANGED compiled

ReloadCompile(t) ==
    /\ pc[t] = "compile"
    /\ CompileInto(t, job[t].text, held[t].policy.schema, "publish")
    /\ UNCHANGED <<current, job, held, seen>>

\* Mutant: the engine keeps its schema when the policies are replaced.
WithPolicyOldSchema(s, i, p) ==
    [ id |-> i, policy |-> [p EXCEPT !.schema = s.policy.schema],
      registry |-> s.registry, generation |-> NextGeneration(s.generation) ]

WithPolicy(s, i, p) ==
    [ id |-> i, policy |-> p, registry |-> s.registry,
      generation |-> NextGeneration(s.generation) ]

\* install_policy_if_current: the state compiled against is still current.
ReloadPublish(t) ==
    /\ pc[t] = "publish"
    /\ PtrEq(held[t], current)
    /\ \E i \in Allocate(FreeStateIds) : Install(t, WithPolicy(held[t], i, compiled[t]))

\* Mutant: the retry keeps the labels the reload started from.
ReloadRetryOldLabels(t) ==
    /\ pc[t] = "publish"
    /\ ~ PtrEq(held[t], current)
    /\ PtrEq(held[t].policy, current.policy)
    /\ held' = [held EXCEPT ![t] = [current EXCEPT !.registry = held[t].registry]]
    /\ UNCHANGED <<current, pc, job, compiled, seen, outcome>>

\* A label-only update won: keep the snapshot, adopt the newer state.
ReloadRetry(t) ==
    /\ pc[t] = "publish"
    /\ ~ PtrEq(held[t], current)
    /\ PtrEq(held[t].policy, current.policy)
    /\ held' = [held EXCEPT ![t] = current]
    /\ UNCHANGED <<current, pc, job, compiled, seen, outcome>>

\* Mutant: publish the snapshot already compiled whatever won.
ReloadNeverRecompiles(t) ==
    /\ pc[t] = "publish"
    /\ ~ PtrEq(held[t], current)
    /\ ~ PtrEq(held[t].policy, current.policy)
    /\ held' = [held EXCEPT ![t] = current]
    /\ UNCHANGED <<current, pc, job, compiled, seen, outcome>>

\* Mutant: the state is loaded once, before the loop that compiles.
ReloadRecompileSameState(t) ==
    /\ pc[t] = "publish"
    /\ ~ PtrEq(held[t], current)
    /\ ~ PtrEq(held[t].policy, current.policy)
    /\ compiled' = [compiled EXCEPT ![t] = NoPolicy]
    /\ Goto(t, "compile")
    /\ UNCHANGED <<current, job, held, seen, outcome>>

\* Another policy generation won: drop the snapshot and compile again.
ReloadRecompile(t) ==
    /\ pc[t] = "publish"
    /\ ~ PtrEq(held[t], current)
    /\ ~ PtrEq(held[t].policy, current.policy)
    /\ held'     = [held EXCEPT ![t] = NoState]
    /\ compiled' = [compiled EXCEPT ![t] = NoPolicy]
    /\ Goto(t, "called")
    /\ UNCHANGED <<current, job, seen, outcome>>

------------------------------------------------------------------------------
\* reload_from_str_with_schema, then install_policy: an unconditional rcu.

SchemaReloadLoad(t) == Load(t, "schemaReload", "schemaCompile")

SchemaReloadCompile(t) ==
    /\ pc[t] = "schemaCompile"
    /\ CompileInto(t, job[t].text, job[t].schema, "install")
    /\ UNCHANGED <<current, job, held, seen>>

InstallLoad(t) ==
    /\ pc[t] = "install"
    /\ held' = [held EXCEPT ![t] = current]
    /\ Goto(t, "policySwap")
    /\ UNCHANGED <<current, job, compiled, seen, outcome>>

InstallSwap(t) ==
    /\ pc[t] = "policySwap"
    /\ PtrEq(held[t], current)
    /\ \E i \in Allocate(FreeStateIds) : Install(t, WithPolicy(held[t], i, compiled[t]))

\* A lost compare-and-swap hands rcu the state that won, to try again on.
RcuRetry(t) ==
    /\ pc[t] \in {"labelSwap", "policySwap"}
    /\ ~ PtrEq(held[t], current)
    /\ held' = [held EXCEPT ![t] = current]
    /\ UNCHANGED <<current, pc, job, compiled, seen, outcome>>

------------------------------------------------------------------------------
\* evaluate*: one load, then evaluate_state on what was loaded.

EvaluateLoad(t) == Load(t, "evaluate", "prepare")

\* Mutant: the labels are read from the engine again, after the load.
PrepareWithCurrentLabels(t, request, refused) ==
    LET policy == held[t].policy IN
    \/ /\ Answerable(request, policy.schema, policy.layout, current.registry)
       /\ seen' = [seen EXCEPT ![t] = [schema   |-> policy.schema,
                                       registry |-> current.registry]]
       /\ Goto(t, "authorize")
       /\ UNCHANGED outcome
    \/ /\ ~ Answerable(request, policy.schema, policy.layout, current.registry)
       /\ outcome' = [outcome EXCEPT ![t] = Failure]
       /\ Goto(t, refused)
       /\ UNCHANGED seen

\* Route, apply the labels, build and validate the Cedar request.
PrepareInto(t, request, refused) ==
    LET policy == held[t].policy IN
    \/ /\ Answerable(request, policy.schema, policy.layout, held[t].registry)
       /\ seen' = [seen EXCEPT ![t] = [schema   |-> policy.schema,
                                       registry |-> held[t].registry]]
       /\ Goto(t, "authorize")
       /\ UNCHANGED outcome
    \/ /\ ~ Answerable(request, policy.schema, policy.layout, held[t].registry)
       /\ outcome' = [outcome EXCEPT ![t] = Failure]
       /\ Goto(t, refused)
       /\ UNCHANGED seen

\* Mutant: an evaluation starts over when the engine has moved on.
EvaluatePrepareIfCurrent(t) ==
    /\ pc[t] = "prepare"
    /\ \/ /\ PtrEq(held[t], current)
          /\ PrepareInto(t, job[t].request, "returning")
          /\ UNCHANGED <<current, job, held, compiled>>
       \/ /\ ~ PtrEq(held[t], current)
          /\ Goto(t, "called")
          /\ UNCHANGED <<current, job, held, compiled, seen, outcome>>

EvaluatePrepare(t) ==
    /\ pc[t] = "prepare"
    /\ PrepareInto(t, job[t].request, "returning")
    /\ UNCHANGED <<current, job, held, compiled>>

\* Authorize against the routed policy set and report the state's version.
Authorize(t) ==
    /\ pc[t] = "authorize"
    /\ outcome' = [outcome EXCEPT ![t] = Decided(
           [ViewOf(held[t]) EXCEPT !.schema   = seen[t].schema,
                                   !.registry = seen[t].registry])]
    /\ seen' = [seen EXCEPT ![t] = NothingSeen]
    /\ Goto(t, IF job[t].kind = "session" THEN "session" ELSE "returning")
    /\ UNCHANGED <<current, job, held, compiled>>

------------------------------------------------------------------------------
\* session(): the caller keeps the loaded state and evaluates on it.

OpenSession(t) == Load(t, "session", "session")

SessionPrepare(t) ==
    /\ pc[t] = "session"
    /\ \E r \in Requests : PrepareInto(t, r, "session")
    /\ UNCHANGED <<current, job, held, compiled>>

\* What a finished call owned is dropped.
Release(t) ==
    /\ held'     = [held EXCEPT ![t] = NoState]
    /\ compiled' = [compiled EXCEPT ![t] = NoPolicy]
    /\ job'      = [job EXCEPT ![t] = NoJob]
    /\ Goto(t, "idle")
    /\ UNCHANGED <<current, seen, outcome>>

CloseSession(t) == pc[t] = "session" /\ Release(t)

Return(t) == pc[t] = "returning" /\ Release(t)

------------------------------------------------------------------------------
\* The steps a call takes on its own once it is made.
Step(t) ==
    \/ SetLabelsLoad(t) \/ SetLabelsSwap(t)
    \/ ReloadLoad(t) \/ ReloadCompile(t)
    \/ ReloadPublish(t) \/ ReloadRetry(t) \/ ReloadRecompile(t)
    \/ SchemaReloadLoad(t) \/ SchemaReloadCompile(t)
    \/ InstallLoad(t) \/ InstallSwap(t) \/ RcuRetry(t)
    \/ EvaluateLoad(t) \/ EvaluatePrepare(t) \/ Authorize(t)
    \/ OpenSession(t)
    \/ Return(t)

Next ==
    \E t \in Threads :
        \/ Invoke(t)
        \/ Step(t)
        \/ SessionPrepare(t)
        \/ CloseSession(t)

Spec == Init /\ [][Next]_vars

\* A running thread is scheduled again; nobody has to make a call.
FairSpec == Spec /\ \A t \in Threads : WF_vars(Step(t))

------------------------------------------------------------------------------
(***************************************************************************)
(* Properties                                                              *)
(***************************************************************************)

\* Every variable keeps its type; a thread between two steps of a call owns
\* the Arcs those steps use.
TypeOK ==
    /\ current \in EngineState
    /\ pc \in [Threads -> {"idle", "called", "labelSwap", "compile", "publish",
                            "schemaCompile", "install", "policySwap", "prepare",
                            "authorize", "session", "returning"}]
    /\ job \in [Threads -> Job \cup {NoJob}]
    /\ held \in [Threads -> EngineState \cup {NoState}]
    /\ compiled \in [Threads -> Snapshot \cup {NoPolicy}]
    /\ seen \in [Threads -> Seen]
    /\ outcome \in [Threads -> Outcome]

\* The live Arcs, over all their owners.
LiveStates   == {current} \cup { held[t] : t \in Holders }
LivePolicies == { s.policy : s \in LiveStates } \cup { compiled[t] : t \in Compilers }

\* compare_and_swap and ptr_eq compare addresses where the code means
\* contents: two live Arcs with one address are one Arc, so an address that
\* was freed and reused is never mistaken for the state or the snapshot a
\* thread loaded (no ABA in install_policy_if_current, rcu and the
\* label-only retry of reload_from_str).
ArcIdentity ==
    /\ \A a, b \in LiveStates   : PtrEq(a, b) => a = b
    /\ \A a, b \in LivePolicies : PtrEq(a, b) => a = b

\* The states that decided something or may still decide something.
Views == { ViewOf(s) : s \in LiveStates }
         \cup { outcome[t].view : t \in { u \in Threads : outcome[u].view # NoView } }

\* A version identifies what decided: two decisions, or a decision and the
\* engine, that report one generation used the same policies, schema, layout
\* and labels (PolicyVersion.generation, until the counter saturates).
GenerationIdentifiesState ==
    \A v, w \in Views :
        v.generation = w.generation /\ v.generation < MaxGeneration => v = w

\* The published policies were compiled under the published schema and the
\* published layout: no race pairs a snapshot with another reload's schema.
CurrentCompiles ==
    Compiles(current.policy.text, current.policy.schema, current.policy.layout)

\* No update is lost: whatever races with it, a publication replaces either
\* the policies or the registry of the state it displaces and keeps the
\* other, and counts exactly one generation on top of it.
NoLostUpdate ==
    [][ current' # current =>
          /\ \/ current'.policy = current.policy
             \/ current'.registry = current.registry
          /\ current'.generation = NextGeneration(current.generation) ]_vars

\* A plain reload never restores a superseded schema (reload_from_str's
\* recompile loop): only a schema-replacing reload changes the schema, to
\* its own, and nothing ever changes the store layout.
SchemaOnlyBySchemaReload ==
    [][ /\ current'.policy.layout = current.policy.layout
        /\ current'.policy.schema # current.policy.schema =>
             \E t \in Threads : /\ pc[t] # pc'[t]
                                /\ job[t].kind = "schemaReload"
                                /\ current'.policy.schema = job[t].schema ]_vars

\* One caller's successive decisions on the live engine never go back to an
\* older generation, unless it opened a session to stay on one.
ReadsNeverGoBack ==
    [][ \A t \in Threads :
          /\ outcome[t].view # NoView
          /\ outcome'[t].view # NoView
          /\ job[t] # NoJob
          /\ job[t].kind = "evaluate"
          => outcome'[t].view.generation >= outcome[t].view.generation ]_vars

------------------------------------------------------------------------------
(***************************************************************************)
(* Refinement. A call takes effect                                         *)
(*   - at its successful compare-and-swap, when it publishes;              *)
(*   - at the load it decided on, when it answers a request, opens a       *)
(*     session or turns out not to compile.                                *)
(***************************************************************************)
InSession(t) == pc[t] = "session" \/ (pc[t] = "authorize" /\ job[t].kind = "session")

WillNotCompile(t) ==
    \/ pc[t] = "compile"
       /\ ~ Compiles(job[t].text, held[t].policy.schema, held[t].policy.layout)
    \/ pc[t] = "schemaCompile"
       /\ ~ Compiles(job[t].text, job[t].schema, held[t].policy.layout)

Deciding(t) ==
    \/ pc[t] = "prepare"
    \/ pc[t] = "authorize" /\ job[t].kind = "evaluate"

AbstractPhase(t) ==
    CASE pc[t] = "idle"                       -> "idle"
      [] InSession(t)                         -> "session"
      [] pc[t] = "returning"                  -> "done"
      [] WillNotCompile(t) \/ Deciding(t)     -> "done"
      [] OTHER                                -> "called"

AbstractOutcome(t) ==
    CASE WillNotCompile(t) -> Failure
      [] pc[t] = "prepare" ->
           IF Answerable(job[t].request, held[t].policy.schema, held[t].policy.layout,
                         held[t].registry)
           THEN Decided(ViewOf(held[t])) ELSE Failure
      [] pc[t] = "authorize" /\ job[t].kind = "evaluate" ->
           Decided([ViewOf(held[t]) EXCEPT !.schema   = seen[t].schema,
                                           !.registry = seen[t].registry])
      [] OTHER -> outcome[t]

Atomic == INSTANCE AtomicEngine WITH
    engine  <- ViewOf(current),
    phase   <- [t \in Threads |-> AbstractPhase(t)],
    session <- [t \in Threads |-> IF InSession(t) THEN ViewOf(held[t]) ELSE NoView],
    outcome <- [t \in Threads |-> AbstractOutcome(t)]

\* Every behaviour of the engine is one of the atomic engine: calls are
\* linearizable, decisions coherent, sessions frozen, failed reloads without
\* effect.
ImplementsAtomicEngine == Atomic!Spec

------------------------------------------------------------------------------
(***************************************************************************)
(* Liveness, under FairSpec                                                *)
(***************************************************************************)
\* From the call to the return, whatever the update is doing in between:
\* compiling again after a lost race is no progress.
UpdatePending(t) ==
    job[t] # NoJob /\ job[t].kind \in {"setLabels", "reload", "schemaReload"}

\* The update loops are lock-free: a call that never returns can only be
\* overtaken again and again by updates that take effect; otherwise both the
\* swaps and the compilations of it come to an end (reload_from_str, rcu).
UpdatesLockFree ==
    \A t \in Threads :
        []<>(~ UpdatePending(t)) \/ []<><<current' # current>>_vars

\* Evaluation never waits for an update, however many there are.
EvaluationsFinish ==
    \A t \in Threads :
        job[t] # NoJob /\ job[t].kind = "evaluate" ~> job[t] = NoJob
==============================================================================
