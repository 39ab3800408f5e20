------------------------- MODULE PolicyEngineProofs --------------------------
(***************************************************************************)
(* What holds of the engine for any number of callers, any texts, schemas, *)
(* registries and layouts, any allocator and any calls.                    *)
(***************************************************************************)
EXTENDS PolicyEngine, TLAPS

\* What a thread owns and what it knows of it, step by step.
Owns(t) ==
    /\ pc[t] \in {"idle", "called"} => held[t] = NoState
    /\ pc[t] \notin {"idle", "called", "returning"} => held[t] \in EngineState
    /\ pc[t] \notin {"publish", "install", "policySwap", "returning"} =>
           compiled[t] = NoPolicy
    /\ pc[t] \in {"publish", "install", "policySwap"} => compiled[t] \in Snapshot

Runs(t) ==
    /\ pc[t] = "idle" <=> job[t] = NoJob
    /\ pc[t] = "labelSwap" => job[t] \in SetLabelsJob
    /\ pc[t] \in {"compile", "publish"} => job[t] \in ReloadJob
    /\ pc[t] \in {"schemaCompile", "install", "policySwap"} =>
           Enforcing /\ job[t] \in SchemaReloadJob
    /\ pc[t] = "prepare"   => job[t] \in EvaluateJob
    /\ pc[t] = "session"   => job[t] \in SessionJob
    /\ pc[t] = "authorize" => job[t] \in EvaluateJob \cup SessionJob

\* The snapshot about to be published is the one its reload asked for.
Compiled(t) ==
    /\ pc[t] \in {"publish", "install", "policySwap"} =>
           /\ compiled[t].text = job[t].text
           /\ compiled[t].layout = current.policy.layout
           /\ Compiles(compiled[t].text, compiled[t].schema, compiled[t].layout)
    /\ pc[t] = "publish" => compiled[t].schema = held[t].policy.schema
    /\ pc[t] \in {"install", "policySwap"} => compiled[t].schema = job[t].schema

\* prepare() looked at nothing but the held state, which has the one layout.
SawHeld(t) ==
    /\ held[t] # NoState => held[t].policy.layout = current.policy.layout
    /\ pc[t] = "authorize" =>
           seen[t] = [schema |-> held[t].policy.schema, registry |-> held[t].registry]

ThreadInv == \A t \in Threads : Owns(t) /\ Runs(t) /\ Compiled(t) /\ SawHeld(t)

IInv == TypeOK /\ ThreadInv /\ ArcIdentity /\ CurrentCompiles

------------------------------------------------------------------------------
LEMMA JobKinds ==
    ASSUME NEW j \in Job
    PROVE  /\ j.kind = "setLabels" => j \in SetLabelsJob
           /\ j.kind = "reload" => j \in ReloadJob
           /\ j.kind = "schemaReload" => Enforcing /\ j \in SchemaReloadJob
           /\ j.kind = "evaluate" => j \in EvaluateJob
           /\ j.kind = "session" => j \in SessionJob
  BY DEF Job, SetLabelsJob, ReloadJob, SchemaReloadJob, EvaluateJob, SessionJob

LEMMA NextGenerationType ==
    ASSUME NEW g \in Generations
    PROVE  NextGeneration(g) \in Generations
  BY EngineConstants DEF NextGeneration, Generations

\* Outcomes of the right type.
LEMMA OutcomeTypes ==
    /\ NoOutcome \in Outcome /\ Success \in Outcome /\ Failure \in Outcome
    /\ \A v \in View : Decided(v) \in Outcome
  BY DEF NoOutcome, Success, Failure, Decided, Outcome

LEMMA ViewType ==
    ASSUME NEW s \in EngineState
    PROVE  ViewOf(s) \in View
  BY DEF ViewOf, View, EngineState, Snapshot, Generations

\* A record read off its declared set.
LEMMA StateFields ==
    ASSUME NEW s \in EngineState
    PROVE  /\ s.id \in StateIds
           /\ s.policy \in Snapshot
           /\ s.registry \in Registries \cup {NoRegistry}
           /\ s.generation \in Generations
           /\ s.policy.id \in PolicyIds
           /\ s.policy.text \in Texts
           /\ s.policy.schema \in EngineSchemas
           /\ s.policy.layout \in Layouts
  BY DEF EngineState, Snapshot

LEMMA FreshState ==
    ASSUME NEW i \in Allocate(FreeStateIds)
    PROVE  /\ i \in StateIds
           /\ \A s \in LiveStates : s.id # i
  <1>1. FreeStateIds \in SUBSET StateIds
    BY DEF FreeStateIds
  <1>2. i \in FreeStateIds
    BY <1>1, PointerConstants
  <1>. QED BY <1>2 DEF FreeStateIds, LiveStates

LEMMA FreshPolicy ==
    ASSUME NEW p \in Allocate(FreePolicyIds)
    PROVE  /\ p \in PolicyIds
           /\ \A q \in LivePolicies : q.id # p
  <1>1. FreePolicyIds \in SUBSET PolicyIds
    BY DEF FreePolicyIds
  <1>2. p \in FreePolicyIds
    BY <1>1, PointerConstants
  <1>. QED BY <1>2 DEF FreePolicyIds, LivePolicies, LiveStates

LEMMA InitIInv == Init => IInv
  <1> SUFFICES ASSUME Init PROVE IInv
    OBVIOUS
  <1>1. TypeOK
    BY OutcomeTypes DEF Init, TypeOK, NothingSeen, Seen
  <1>2. ThreadInv
    BY DEF Init, ThreadInv, Owns, Runs, Compiled, SawHeld
  <1>3. LiveStates = {current} /\ LivePolicies = {current.policy}
    BY DEF Init, LiveStates, LivePolicies, Holders, Compilers
  <1>4. ArcIdentity /\ CurrentCompiles
    BY <1>3 DEF Init, ArcIdentity, CurrentCompiles
  <1>. QED BY <1>1, <1>2, <1>4 DEF IInv

------------------------------------------------------------------------------
\* One thread moves, the store layout stays: the others keep what they knew.
LEMMA ThreadInvStep ==
    ASSUME ThreadInv, NEW t \in Threads,
           \A u \in Threads \ {t} :
               /\ pc'[u] = pc[u] /\ job'[u] = job[u] /\ held'[u] = held[u]
               /\ compiled'[u] = compiled[u] /\ seen'[u] = seen[u],
           current'.policy.layout = current.policy.layout,
           Owns(t)' /\ Runs(t)' /\ Compiled(t)' /\ SawHeld(t)'
    PROVE  ThreadInv'
  <1> SUFFICES ASSUME NEW u \in Threads
               PROVE  (Owns(u) /\ Runs(u) /\ Compiled(u) /\ SawHeld(u))'
    BY DEF ThreadInv
  <1>1. CASE u = t
    BY <1>1
  <1>2. CASE u # t
    <2>1. Owns(u) /\ Runs(u) /\ Compiled(u) /\ SawHeld(u)
      BY DEF ThreadInv
    <2>2. Owns(u)'
      BY <1>2, <2>1 DEF Owns
    <2>3. Runs(u)'
      BY <1>2, <2>1 DEF Runs
    <2>4. Compiled(u)'
      BY <1>2, <2>1 DEF Compiled, Compiles
    <2>5. SawHeld(u)'
      BY <1>2, <2>1 DEF SawHeld
    <2>. QED BY <2>2, <2>3, <2>4, <2>5
  <1>. QED BY <1>1, <1>2

\* A step that changes what one thread owns, and the cell, adds at most that.
LEMMA LiveStep ==
    ASSUME NEW t \in Threads, NEW x, NEW y,
           held \in [Threads -> EngineState \cup {NoState}],
           compiled \in [Threads -> Snapshot \cup {NoPolicy}],
           held' = [held EXCEPT ![t] = x],
           compiled' = [compiled EXCEPT ![t] = y]
    PROVE  /\ LiveStates' \subseteq LiveStates \cup {current'} \cup ({x} \ {NoState})
           /\ LivePolicies' \subseteq
                  LivePolicies \cup {current'.policy} \cup ({y} \ {NoPolicy})
                  \cup {z.policy : z \in {x} \ {NoState}}
  <1>1. ASSUME NEW s \in LiveStates'
        PROVE  s \in LiveStates \cup {current'} \cup ({x} \ {NoState})
    <2>1. CASE s = current'
      BY <2>1
    <2>2. CASE \E u \in Threads : held'[u] # NoState /\ s = held'[u]
      <3>1. PICK u \in Threads : held'[u] # NoState /\ s = held'[u]
        BY <2>2
      <3>2. CASE u = t
        BY <3>1, <3>2
      <3>3. CASE u # t
        BY <3>1, <3>3 DEF LiveStates, Holders
      <3>. QED BY <3>2, <3>3
    <2>. QED BY <1>1, <2>1, <2>2 DEF LiveStates, Holders
  <1>2. ASSUME NEW p \in LivePolicies'
        PROVE  p \in LivePolicies \cup {current'.policy} \cup ({y} \ {NoPolicy})
                     \cup {z.policy : z \in {x} \ {NoState}}
    <2>1. CASE \E s \in LiveStates' : p = s.policy
      <3>1. PICK s \in LiveStates' : p = s.policy
        BY <2>1
      <3>. QED BY <3>1, <1>1 DEF LivePolicies
    <2>2. CASE \E u \in Threads : compiled'[u] # NoPolicy /\ p = compiled'[u]
      <3>1. PICK u \in Threads : compiled'[u] # NoPolicy /\ p = compiled'[u]
        BY <2>2
      <3>2. CASE u = t
        BY <3>1, <3>2
      <3>3. CASE u # t
        BY <3>1, <3>3 DEF LivePolicies, Compilers
      <3>. QED BY <3>2, <3>3
    <2>. QED BY <1>2, <2>1, <2>2 DEF LivePolicies, Compilers
  <1>. QED BY <1>1, <1>2

\* A step after which the threads own nothing that was not live before.
LEMMA QuietStep ==
    ASSUME TypeOK, ArcIdentity, CurrentCompiles, NEW t \in Threads, NEW x, NEW y,
           current' = current,
           x = NoState \/ x \in LiveStates,
           y = NoPolicy \/ y \in LivePolicies,
           held' = [held EXCEPT ![t] = x],
           compiled' = [compiled EXCEPT ![t] = y]
    PROVE  ArcIdentity' /\ CurrentCompiles'
  <1>a. current \in LiveStates /\ \A s \in LiveStates : s.policy \in LivePolicies
    BY DEF LiveStates, LivePolicies
  <1>b. /\ held \in [Threads -> EngineState \cup {NoState}]
        /\ compiled \in [Threads -> Snapshot \cup {NoPolicy}]
    BY DEF TypeOK
  <1>c. /\ LiveStates' \subseteq LiveStates \cup {current'} \cup ({x} \ {NoState})
        /\ LivePolicies' \subseteq
               LivePolicies \cup {current'.policy} \cup ({y} \ {NoPolicy})
               \cup {z.policy : z \in {x} \ {NoState}}
    BY <1>b, LiveStep
  <1>1. LiveStates' \subseteq LiveStates
    BY <1>a, <1>c
  <1>2. LivePolicies' \subseteq LivePolicies
    BY <1>a, <1>c
  <1>3. ArcIdentity'
    BY <1>1, <1>2 DEF ArcIdentity, PtrEq
  <1>4. CurrentCompiles'
    BY DEF CurrentCompiles, Compiles
  <1>. QED BY <1>3, <1>4

------------------------------------------------------------------------------
\* One lemma per kind of step.

LEMMA InvokeStep ==
    ASSUME IInv, NEW t \in Threads, Invoke(t)
    PROVE  IInv'
  <1> USE DEF IInv, Invoke, Goto
  <1>1. PICK j \in Menu[t] : job' = [job EXCEPT ![t] = j]
    OBVIOUS
  <1>2. j \in Job /\ j # NoJob
    BY EngineConstants
  <1>3. TypeOK'
    BY <1>1, <1>2 DEF TypeOK
  <1>4. Owns(t) /\ Runs(t) /\ Compiled(t) /\ SawHeld(t)
    BY DEF ThreadInv
  <1>5. Owns(t)' /\ Runs(t)' /\ Compiled(t)' /\ SawHeld(t)'
    BY <1>1, <1>2, <1>4 DEF TypeOK, Owns, Runs, Compiled, SawHeld
  <1>6. ThreadInv'
    BY <1>1, <1>5, ThreadInvStep DEF TypeOK
  <1>7. ArcIdentity' /\ CurrentCompiles'
    BY DEF ArcIdentity, CurrentCompiles, LiveStates, LivePolicies, Holders,
           Compilers, PtrEq, Compiles
  <1>. QED BY <1>3, <1>6, <1>7

LEMMA LoadStep ==
    ASSUME IInv, NEW t \in Threads, NEW k,
           NEW next \in {"labelSwap", "compile", "schemaCompile", "prepare", "session"},
           Load(t, k, next),
           /\ next = "labelSwap" => k = "setLabels"
           /\ next = "compile" => k = "reload"
           /\ next = "schemaCompile" => k = "schemaReload"
           /\ next = "prepare" => k = "evaluate"
           /\ next = "session" => k = "session"
    PROVE  IInv'
  <1> USE DEF IInv, Load, Goto
  <1>1. TypeOK'
    BY DEF TypeOK
  <1>2. Owns(t) /\ Runs(t) /\ Compiled(t) /\ SawHeld(t)
    BY DEF ThreadInv
  <1>3. job[t] \in Job
    BY <1>2 DEF TypeOK, Runs
  <1>4. current \in EngineState /\ current # NoState
    BY PointerConstants DEF TypeOK
  <1>5. Owns(t)' /\ Compiled(t)' /\ SawHeld(t)'
    BY <1>2, <1>4 DEF TypeOK, Owns, Compiled, SawHeld
  <1>6. Runs(t)'
    BY <1>2, <1>3, JobKinds DEF TypeOK, Runs
  <1>7. ThreadInv'
    BY <1>5, <1>6, ThreadInvStep DEF TypeOK
  <1>8. current \in LiveStates
    BY DEF LiveStates
  <1>9. compiled' = [compiled EXCEPT ![t] = NoPolicy]
    BY <1>2 DEF TypeOK, Owns
  <1>10. ArcIdentity' /\ CurrentCompiles'
    BY <1>8, <1>9, QuietStep
  <1>. QED BY <1>1, <1>7, <1>10

\* The cell takes a freshly addressed state over a live, accepted snapshot.
LEMMA InstallStep ==
    ASSUME IInv, NEW t \in Threads, NEW s \in EngineState, Install(t, s),
           pc[t] \in {"labelSwap", "publish", "policySwap"},
           \A a \in LiveStates : a.id # s.id,
           s.policy \in LivePolicies,
           s.policy.layout = current.policy.layout,
           Compiles(s.policy.text, s.policy.schema, s.policy.layout)
    PROVE  IInv'
  <1> USE DEF IInv, Install, Goto
  <1>1. TypeOK'
    BY OutcomeTypes DEF TypeOK
  <1>2. Owns(t) /\ Runs(t) /\ Compiled(t) /\ SawHeld(t)
    BY DEF ThreadInv
  <1>3. Owns(t)' /\ Runs(t)' /\ Compiled(t)' /\ SawHeld(t)'
    BY <1>2 DEF TypeOK, Owns, Runs, Compiled, SawHeld
  <1>4. ThreadInv'
    BY <1>3, ThreadInvStep DEF TypeOK
  <1>5. CurrentCompiles'
    BY DEF CurrentCompiles, Compiles
  <1>6. /\ LiveStates' \subseteq LiveStates \cup {s}
        /\ LivePolicies' \subseteq LivePolicies
    BY DEF LiveStates, LivePolicies, Holders, Compilers
  <1>7. ArcIdentity'
    BY <1>6 DEF ArcIdentity, PtrEq
  <1>. QED BY <1>1, <1>4, <1>5, <1>7

\* A compare-and-swap that succeeds replaces the very state the thread holds.
LEMMA SwapHolds ==
    ASSUME IInv, NEW t \in Threads, held[t] \in EngineState, PtrEq(held[t], current)
    PROVE  held[t] = current
  <1>1. held[t] \in LiveStates /\ current \in LiveStates
    BY PointerConstants DEF LiveStates, Holders
  <1>. QED BY <1>1 DEF IInv, ArcIdentity

LEMMA SetLabelsSwapStep ==
    ASSUME IInv, NEW t \in Threads, SetLabelsSwap(t)
    PROVE  IInv'
  <1> USE DEF SetLabelsSwap
  <1>1. PICK i \in Allocate(FreeStateIds) : Install(t, WithRegistry(held[t], i, job[t].registry))
    OBVIOUS
  <1>2. held[t] \in EngineState /\ job[t] \in SetLabelsJob
    BY DEF IInv, ThreadInv, Owns, Runs
  <1>3. held[t] = current
    BY <1>2, SwapHolds
  <1>4. i \in StateIds /\ \A a \in LiveStates : a.id # i
    BY FreshState
  <1> DEFINE s == WithRegistry(held[t], i, job[t].registry)
  <1>5. /\ s \in EngineState
        /\ s.id = i
        /\ s.policy = current.policy
    BY <1>2, <1>3, <1>4, StateFields, NextGenerationType
       DEF WithRegistry, EngineState, SetLabelsJob
  <1>6. current.policy \in LivePolicies
    BY DEF LivePolicies, LiveStates
  <1>7. Compiles(current.policy.text, current.policy.schema, current.policy.layout)
    BY DEF IInv, CurrentCompiles
  <1> HIDE DEF s
  <1>. QED BY <1>1, <1>4, <1>5, <1>6, <1>7, InstallStep DEF s

LEMMA PolicySwapStep ==
    ASSUME IInv, NEW t \in Threads, ReloadPublish(t) \/ InstallSwap(t)
    PROVE  IInv'
  <1> USE DEF ReloadPublish, InstallSwap
  <1>1. PICK i \in Allocate(FreeStateIds) : Install(t, WithPolicy(held[t], i, compiled[t]))
    OBVIOUS
  <1>2. /\ held[t] \in EngineState
        /\ compiled[t] \in Snapshot
        /\ compiled[t].layout = current.policy.layout
        /\ Compiles(compiled[t].text, compiled[t].schema, compiled[t].layout)
    BY DEF IInv, ThreadInv, Owns, Compiled
  <1>3. held[t] = current
    BY <1>2, SwapHolds
  <1>4. i \in StateIds /\ \A a \in LiveStates : a.id # i
    BY FreshState
  <1> DEFINE s == WithPolicy(held[t], i, compiled[t])
  <1>5. /\ s \in EngineState
        /\ s.id = i
        /\ s.policy = compiled[t]
    BY <1>2, <1>3, <1>4, StateFields, NextGenerationType DEF WithPolicy, EngineState
  <1>6. compiled[t] \in LivePolicies
    BY <1>2, PointerConstants DEF LivePolicies, Compilers
  <1> HIDE DEF s
  <1>. QED BY <1>1, <1>2, <1>4, <1>5, <1>6, InstallStep DEF s

\* Compiling adds one freshly addressed snapshot, or fails and adds nothing.
LEMMA CompileStep ==
    ASSUME IInv, NEW t \in Threads, ReloadCompile(t) \/ SchemaReloadCompile(t)
    PROVE  IInv'
  <1> DEFINE text   == job[t].text
             schema == IF pc[t] = "compile" THEN held[t].policy.schema ELSE job[t].schema
             next   == IF pc[t] = "compile" THEN "publish" ELSE "install"
  <1>1. /\ pc[t] \in {"compile", "schemaCompile"}
        /\ CompileInto(t, text, schema, next)
        /\ UNCHANGED <<current, job, held, seen>>
    BY DEF ReloadCompile, SchemaReloadCompile
  <1>2. Owns(t) /\ Runs(t) /\ Compiled(t) /\ SawHeld(t)
    BY DEF IInv, ThreadInv
  <1>3. /\ held[t] \in EngineState
        /\ compiled[t] = NoPolicy
        /\ held[t].policy.layout = current.policy.layout
        /\ text \in Texts
        /\ schema \in EngineSchemas
        /\ held[t].policy.layout \in Layouts
    BY <1>1, <1>2, StateFields, PointerConstants
       DEF Owns, Runs, SawHeld, ReloadJob, SchemaReloadJob, EngineSchemas
  <1>4. CASE ~ Compiles(text, schema, held[t].policy.layout)
    <2>1. /\ outcome' = [outcome EXCEPT ![t] = Failure]
          /\ pc' = [pc EXCEPT ![t] = "returning"]
          /\ UNCHANGED <<current, job, held, seen, compiled>>
      BY <1>1, <1>4 DEF CompileInto, Goto
    <2>2. TypeOK'
      BY <2>1, OutcomeTypes DEF IInv, TypeOK
    <2>3. Owns(t)' /\ Runs(t)' /\ Compiled(t)' /\ SawHeld(t)'
      BY <1>1, <1>2, <2>1 DEF IInv, TypeOK, Owns, Runs, Compiled, SawHeld
    <2>4. ThreadInv'
      BY <2>1, <2>3, ThreadInvStep DEF IInv, TypeOK
    <2>5. ArcIdentity' /\ CurrentCompiles'
      BY <2>1 DEF IInv, ArcIdentity, CurrentCompiles, LiveStates, LivePolicies,
                  Holders, Compilers, PtrEq, Compiles
    <2>. QED BY <2>2, <2>4, <2>5 DEF IInv
  <1>5. CASE Compiles(text, schema, held[t].policy.layout)
    <2>1. PICK p \in Allocate(FreePolicyIds) :
              compiled' = [compiled EXCEPT ![t] =
                  [id |-> p, text |-> text, schema |-> schema,
                   layout |-> held[t].policy.layout]]
      BY <1>1, <1>5 DEF CompileInto
    <2>2. /\ pc' = [pc EXCEPT ![t] = next]
          /\ UNCHANGED <<current, job, held, seen, outcome>>
      BY <1>1, <1>5 DEF CompileInto, Goto
    <2> DEFINE n == [id |-> p, text |-> text, schema |-> schema,
                     layout |-> held[t].policy.layout]
    <2>3. p \in PolicyIds /\ \A q \in LivePolicies : q.id # p
      BY FreshPolicy
    <2>4. /\ n \in Snapshot /\ n # NoPolicy
          /\ n.id = p /\ n.text = text /\ n.schema = schema
          /\ n.layout = held[t].policy.layout
      BY <1>3, <2>3, PointerConstants DEF Snapshot
    <2> HIDE DEF n
    <2>5. compiled' = [compiled EXCEPT ![t] = n]
      BY <2>1 DEF n
    <2>6. TypeOK'
      BY <2>2, <2>4, <2>5 DEF IInv, TypeOK
    <2>7. Owns(t)'
      BY <1>1, <1>2, <1>3, <2>2, <2>4, <2>5 DEF IInv, TypeOK, Owns
    <2>8. Runs(t)'
      BY <1>1, <1>2, <2>2 DEF IInv, TypeOK, Runs
    <2>9. Compiled(t)'
      BY <1>1, <1>3, <1>5, <2>2, <2>4, <2>5 DEF IInv, TypeOK, Compiled, Compiles
    <2>10. SawHeld(t)'
      BY <1>1, <1>2, <2>2 DEF IInv, TypeOK, SawHeld
    <2>11. ThreadInv'
      BY <2>2, <2>5, <2>7, <2>8, <2>9, <2>10, ThreadInvStep DEF IInv, TypeOK
    <2>12. LiveStates' = LiveStates
      BY <2>2 DEF LiveStates, Holders
    <2>13. LivePolicies' \subseteq LivePolicies \cup {n}
      <3>1. held' = [held EXCEPT ![t] = held[t]]
        BY <2>2 DEF IInv, TypeOK
      <3>2. /\ current' \in LiveStates /\ held[t] \in LiveStates
            /\ \A s \in LiveStates : s.policy \in LivePolicies
        BY <1>3, <2>2, PointerConstants DEF LiveStates, Holders, LivePolicies
      <3>3. /\ held \in [Threads -> EngineState \cup {NoState}]
            /\ compiled \in [Threads -> Snapshot \cup {NoPolicy}]
        BY DEF IInv, TypeOK
      <3>4. LivePolicies' \subseteq
                LivePolicies \cup {current'.policy} \cup ({n} \ {NoPolicy})
                \cup {z.policy : z \in {held[t]} \ {NoState}}
        BY <2>5, <3>1, <3>3, LiveStep
      <3>. QED BY <3>2, <3>4
    <2>14. ArcIdentity'
      <3>1. \A a, b \in LiveStates' : PtrEq(a, b) => a = b
        BY <2>12 DEF IInv, ArcIdentity, PtrEq
      <3>2. \A a, b \in LivePolicies' : PtrEq(a, b) => a = b
        BY <2>3, <2>4, <2>13 DEF IInv, ArcIdentity, PtrEq
      <3>. QED BY <3>1, <3>2 DEF ArcIdentity, PtrEq
    <2>15. CurrentCompiles'
      BY <2>2 DEF IInv, CurrentCompiles, Compiles
    <2>. QED BY <2>6, <2>11, <2>14, <2>15 DEF IInv
  <1>. QED BY <1>4, <1>5

\* The retries, and the load of an unconditional install, adopt the cell's state.
LEMMA AdoptStep ==
    ASSUME IInv, NEW t \in Threads, ReloadRetry(t) \/ InstallLoad(t) \/ RcuRetry(t)
    PROVE  IInv'
  <1>1. /\ pc[t] \in {"publish", "install", "labelSwap", "policySwap"}
        /\ pc[t] = "publish" => PtrEq(held[t].policy, current.policy)
        /\ held' = [held EXCEPT ![t] = current]
        /\ \/ pc' = pc
           \/ pc[t] = "install" /\ pc' = [pc EXCEPT ![t] = "policySwap"]
        /\ UNCHANGED <<current, job, compiled, seen, outcome>>
    BY DEF ReloadRetry, InstallLoad, RcuRetry, Goto
  <1>2. Owns(t) /\ Runs(t) /\ Compiled(t) /\ SawHeld(t)
    BY DEF IInv, ThreadInv
  <1>3. current \in EngineState /\ current # NoState
    BY PointerConstants DEF IInv, TypeOK
  <1>4. pc[t] = "publish" => held[t].policy = current.policy
    <2>1. SUFFICES ASSUME pc[t] = "publish" PROVE held[t].policy = current.policy
      OBVIOUS
    <2>2. held[t] \in LiveStates /\ current \in LiveStates
      BY <1>2, <2>1, PointerConstants DEF Owns, LiveStates, Holders
    <2>3. held[t].policy \in LivePolicies /\ current.policy \in LivePolicies
      BY <2>2 DEF LivePolicies
    <2>. QED BY <1>1, <2>1, <2>3 DEF IInv, ArcIdentity
  <1>5. TypeOK'
    BY <1>1 DEF IInv, TypeOK
  <1>6. Owns(t)'
    BY <1>1, <1>2, <1>3 DEF IInv, TypeOK, Owns
  <1>7. Runs(t)'
    BY <1>1, <1>2 DEF IInv, TypeOK, Runs
  <1>8. Compiled(t)'
    BY <1>1, <1>2, <1>4 DEF IInv, TypeOK, Compiled, Compiles
  <1>9. SawHeld(t)'
    BY <1>1, <1>2 DEF IInv, TypeOK, SawHeld
  <1>10. ThreadInv'
    BY <1>1, <1>6, <1>7, <1>8, <1>9, ThreadInvStep DEF IInv, TypeOK
  <1>11. /\ current \in LiveStates
         /\ compiled' = [compiled EXCEPT ![t] = compiled[t]]
         /\ compiled[t] = NoPolicy \/ compiled[t] \in LivePolicies
    BY <1>1 DEF IInv, TypeOK, LiveStates, LivePolicies, Compilers
  <1>12. ArcIdentity' /\ CurrentCompiles'
    BY <1>1, <1>11, QuietStep DEF IInv
  <1>. QED BY <1>5, <1>10, <1>12 DEF IInv

\* Giving up a snapshot to compile again, or returning, drops what is owned.
LEMMA DropStep ==
    ASSUME IInv, NEW t \in Threads, ReloadRecompile(t) \/ CloseSession(t) \/ Return(t)
    PROVE  IInv'
  <1>1. /\ held' = [held EXCEPT ![t] = NoState]
        /\ compiled' = [compiled EXCEPT ![t] = NoPolicy]
        /\ \/ /\ pc[t] = "publish"
              /\ pc' = [pc EXCEPT ![t] = "called"]
              /\ job' = job
           \/ /\ pc' = [pc EXCEPT ![t] = "idle"]
              /\ job' = [job EXCEPT ![t] = NoJob]
        /\ UNCHANGED <<current, seen, outcome>>
    BY DEF ReloadRecompile, CloseSession, Return, Release, Goto
  <1>2. Owns(t) /\ Runs(t) /\ Compiled(t) /\ SawHeld(t)
    BY DEF IInv, ThreadInv
  <1>3. TypeOK'
    BY <1>1 DEF IInv, TypeOK
  <1>4. Owns(t)' /\ Compiled(t)' /\ SawHeld(t)'
    BY <1>1 DEF IInv, TypeOK, Owns, Compiled, SawHeld
  <1>5. Runs(t)'
    BY <1>1, <1>2 DEF IInv, TypeOK, Runs
  <1>6. ThreadInv'
    BY <1>1, <1>4, <1>5, ThreadInvStep DEF IInv, TypeOK
  <1>7. ArcIdentity' /\ CurrentCompiles'
    BY <1>1, QuietStep DEF IInv
  <1>. QED BY <1>3, <1>6, <1>7 DEF IInv

\* Preparing and authorizing read the held state and write the answer only.
LEMMA DecideStep ==
    ASSUME IInv, NEW t \in Threads, EvaluatePrepare(t) \/ SessionPrepare(t) \/ Authorize(t)
    PROVE  IInv'
  <1>1. /\ pc[t] \in {"prepare", "session", "authorize"}
        /\ UNCHANGED <<current, job, held, compiled>>
    BY DEF EvaluatePrepare, SessionPrepare, Authorize
  <1>2. Owns(t) /\ Runs(t) /\ Compiled(t) /\ SawHeld(t)
    BY DEF IInv, ThreadInv
  <1>3. /\ held[t] \in EngineState
        /\ held[t].policy.schema \in EngineSchemas
        /\ held[t].registry \in Registries \cup {NoRegistry}
        /\ ViewOf(held[t]) \in View
    BY <1>1, <1>2, StateFields, ViewType DEF Owns
  <1>4. \/ /\ pc[t] \in {"prepare", "session"}
           /\ seen' = [seen EXCEPT ![t] = [schema   |-> held[t].policy.schema,
                                           registry |-> held[t].registry]]
           /\ pc' = [pc EXCEPT ![t] = "authorize"]
           /\ outcome' = outcome
        \/ /\ seen' = seen
           /\ \/ pc[t] = "prepare" /\ pc' = [pc EXCEPT ![t] = "returning"]
              \/ pc[t] = "session" /\ pc' = [pc EXCEPT ![t] = "session"]
           /\ outcome' = [outcome EXCEPT ![t] = Failure]
        \/ /\ pc[t] = "authorize"
           /\ seen' = [seen EXCEPT ![t] = NothingSeen]
           /\ outcome' = [outcome EXCEPT ![t] = Decided(
                 [ViewOf(held[t]) EXCEPT !.schema   = seen[t].schema,
                                         !.registry = seen[t].registry])]
           /\ \/ job[t].kind = "session" /\ pc' = [pc EXCEPT ![t] = "session"]
              \/ job[t].kind # "session" /\ pc' = [pc EXCEPT ![t] = "returning"]
    BY DEF EvaluatePrepare, SessionPrepare, Authorize, PrepareInto, Goto
  <1>5. pc[t] = "authorize" =>
            [ViewOf(held[t]) EXCEPT !.schema   = seen[t].schema,
                                    !.registry = seen[t].registry] = ViewOf(held[t])
    <2>1. pc[t] = "authorize" => /\ seen[t].schema   = ViewOf(held[t]).schema
                                 /\ seen[t].registry = ViewOf(held[t]).registry
      BY <1>2 DEF SawHeld, ViewOf
    <2>2. \A v \in View : [v EXCEPT !.schema = v.schema, !.registry = v.registry] = v
      BY DEF View
    <2>. QED BY <1>3, <2>1, <2>2
  <1>6. TypeOK'
    <2>1. outcome' \in [Threads -> Outcome]
      BY <1>3, <1>4, <1>5, OutcomeTypes DEF IInv, TypeOK
    <2>2. seen' \in [Threads -> Seen]
      BY <1>3, <1>4 DEF IInv, TypeOK, Seen, NothingSeen
    <2>. QED BY <1>1, <1>4, <2>1, <2>2 DEF IInv, TypeOK
  <1>7. Owns(t)' /\ Compiled(t)' /\ SawHeld(t)'
    BY <1>1, <1>2, <1>4 DEF IInv, TypeOK, Owns, Compiled, SawHeld
  <1>8. Runs(t)'
    <2>1. job[t].kind = "session" /\ pc[t] = "authorize" => job[t] \in SessionJob
      BY <1>2 DEF Runs, EvaluateJob, SessionJob
    <2>. QED BY <1>1, <1>2, <1>4, <2>1 DEF IInv, TypeOK, Runs
  <1>9. ThreadInv'
    BY <1>1, <1>4, <1>7, <1>8, ThreadInvStep DEF IInv, TypeOK
  <1>10. ArcIdentity' /\ CurrentCompiles'
    BY <1>1 DEF IInv, ArcIdentity, CurrentCompiles, LiveStates, LivePolicies,
                Holders, Compilers, PtrEq, Compiles
  <1>. QED BY <1>6, <1>9, <1>10 DEF IInv

LEMMA NextIInv == IInv /\ [Next]_vars => IInv'
  <1> SUFFICES ASSUME IInv, [Next]_vars PROVE IInv'
    OBVIOUS
  <1>1. CASE UNCHANGED vars
    BY <1>1 DEF vars, IInv, TypeOK, ThreadInv, Owns, Runs, Compiled, SawHeld, ArcIdentity,
                CurrentCompiles, LiveStates, LivePolicies, Holders, Compilers, PtrEq, Compiles
  <1>2. CASE Next
    <2>1. PICK t \in Threads : Invoke(t) \/ Step(t) \/ SessionPrepare(t) \/ CloseSession(t)
      BY <1>2 DEF Next
    <2>2. CASE Invoke(t)
      BY <2>2, InvokeStep
    <2>3. CASE SetLabelsLoad(t) \/ ReloadLoad(t) \/ SchemaReloadLoad(t)
               \/ EvaluateLoad(t) \/ OpenSession(t)
      BY <2>3, LoadStep DEF SetLabelsLoad, ReloadLoad, SchemaReloadLoad, EvaluateLoad,
                            OpenSession
    <2>4. CASE SetLabelsSwap(t)
      BY <2>4, SetLabelsSwapStep
    <2>5. CASE ReloadPublish(t) \/ InstallSwap(t)
      BY <2>5, PolicySwapStep
    <2>6. CASE ReloadCompile(t) \/ SchemaReloadCompile(t)
      BY <2>6, CompileStep
    <2>7. CASE ReloadRetry(t) \/ InstallLoad(t) \/ RcuRetry(t)
      BY <2>7, AdoptStep
    <2>8. CASE ReloadRecompile(t) \/ CloseSession(t) \/ Return(t)
      BY <2>8, DropStep
    <2>9. CASE EvaluatePrepare(t) \/ SessionPrepare(t) \/ Authorize(t)
      BY <2>9, DecideStep
    <2>. QED BY <2>1, <2>2, <2>3, <2>4, <2>5, <2>6, <2>7, <2>8, <2>9 DEF Step
  <1>. QED BY <1>1, <1>2

LEMMA Inductive == Spec => []IInv
  <1>. QED BY InitIInv, NextIInv, PTL DEF Spec

------------------------------------------------------------------------------
(***************************************************************************)
(* Theorems                                                                *)
(***************************************************************************)

\* Every variable keeps its type, with any number of racing callers.
THEOREM TypeCorrect == Spec => []TypeOK
  <1>1. IInv => TypeOK
    BY DEF IInv
  <1>. QED BY <1>1, Inductive, PTL

\* Pointer comparison never confuses two states or two snapshots, however
\* eagerly the allocator reuses addresses.
THEOREM NoABA == Spec => []ArcIdentity
  <1>1. IInv => ArcIdentity
    BY DEF IInv
  <1>. QED BY <1>1, Inductive, PTL

\* The published policies always compile under the published schema and layout.
THEOREM PublishedCompiles == Spec => []CurrentCompiles
  <1>1. IInv => CurrentCompiles
    BY DEF IInv
  <1>. QED BY <1>1, Inductive, PTL

\* Every step that changes the cell is one of three compare-and-swaps, and
\* each of them displaces the state its thread holds.
LEMMA Publications ==
    ASSUME IInv, [Next]_vars, current' # current
    PROVE  \E t \in Threads :
              /\ pc'[t] # pc[t]
              /\ held[t] = current
              /\ \/ /\ pc[t] = "labelSwap"
                    /\ current'.policy = current.policy
                 \/ /\ pc[t] \in {"publish", "policySwap"}
                    /\ current'.policy = compiled[t]
                    /\ current'.registry = current.registry
              /\ current'.generation = NextGeneration(current.generation)
  <1>1. PICK t \in Threads : SetLabelsSwap(t) \/ ReloadPublish(t) \/ InstallSwap(t)
    BY DEF vars, Next, Step, Invoke, Load, SetLabelsLoad, ReloadLoad, ReloadCompile,
           ReloadRetry, ReloadRecompile, SchemaReloadLoad, SchemaReloadCompile,
           InstallLoad, RcuRetry, EvaluateLoad, EvaluatePrepare, Authorize,
           OpenSession, SessionPrepare, CloseSession, Return, Release
  <1>2. held[t] \in EngineState /\ PtrEq(held[t], current)
    BY <1>1 DEF IInv, ThreadInv, Owns, SetLabelsSwap, ReloadPublish, InstallSwap
  <1>3. held[t] = current
    BY <1>2, SwapHolds
  <1>4. pc'[t] # pc[t]
    BY <1>1 DEF IInv, TypeOK, SetLabelsSwap, ReloadPublish, InstallSwap, Install, Goto
  <1>5. CASE SetLabelsSwap(t)
    BY <1>3, <1>4, <1>5 DEF SetLabelsSwap, Install, WithRegistry
  <1>6. CASE ReloadPublish(t) \/ InstallSwap(t)
    BY <1>3, <1>4, <1>6 DEF ReloadPublish, InstallSwap, Install, WithPolicy
  <1>. QED BY <1>1, <1>5, <1>6

\* No publication loses what it does not replace, whatever it raced with.
THEOREM UpdatesCompose == Spec => NoLostUpdate
  <1>1. IInv /\ [Next]_vars =>
          [ current' # current =>
                /\ \/ current'.policy = current.policy
                   \/ current'.registry = current.registry
                /\ current'.generation = NextGeneration(current.generation) ]_vars
    BY Publications
  <1>. QED BY <1>1, Inductive, PTL DEF Spec, NoLostUpdate

\* A plain reload never reinstates a schema another reload has replaced, and
\* no reload changes the store layout.
THEOREM NoSupersededSchema == Spec => SchemaOnlyBySchemaReload
  <1>1. ASSUME IInv, [Next]_vars
        PROVE  /\ current'.policy.layout = current.policy.layout
               /\ current'.policy.schema # current.policy.schema =>
                     \E t \in Threads : /\ pc[t] # pc'[t]
                                        /\ job[t].kind = "schemaReload"
                                        /\ current'.policy.schema = job[t].schema
    <2>1. CASE current' = current
      BY <2>1
    <2>2. CASE current' # current
      <3>1. PICK t \in Threads :
              /\ pc'[t] # pc[t]
              /\ held[t] = current
              /\ \/ /\ pc[t] = "labelSwap"
                    /\ current'.policy = current.policy
                 \/ /\ pc[t] \in {"publish", "policySwap"}
                    /\ current'.policy = compiled[t]
        BY <1>1, <2>2, Publications
      <3>2. Owns(t) /\ Runs(t) /\ Compiled(t)
        BY <1>1 DEF IInv, ThreadInv
      <3>3. CASE pc[t] = "labelSwap"
        BY <3>1, <3>3
      <3>4. CASE pc[t] = "publish"
        BY <3>1, <3>2, <3>4 DEF Compiled
      <3>5. CASE pc[t] = "policySwap"
        BY <3>1, <3>2, <3>5 DEF Compiled, Runs, SchemaReloadJob
      <3>. QED BY <3>1, <3>3, <3>4, <3>5
    <2>. QED BY <2>1, <2>2
  <1>2. IInv /\ [Next]_vars =>
          [ /\ current'.policy.layout = current.policy.layout
            /\ current'.policy.schema # current.policy.schema =>
                 \E t \in Threads : /\ pc[t] # pc'[t]
                                    /\ job[t].kind = "schemaReload"
                                    /\ current'.policy.schema = job[t].schema ]_vars
    BY <1>1
  <1>. QED BY <1>2, Inductive, PTL DEF Spec, SchemaOnlyBySchemaReload

------------------------------------------------------------------------------
(***************************************************************************)
(* Generations. The invariant behind both theorems: nothing that decided   *)
(* or may decide is newer than the cell, and what a thread is deciding on  *)
(* is no older than its previous decision.                                 *)
(***************************************************************************)
NoneNewer == \A v \in Views : v.generation <= current.generation

DecidingOnNewer ==
    \A t \in Threads :
        /\ pc[t] \in {"prepare", "authorize"}
        /\ job[t].kind = "evaluate"
        /\ outcome[t].view # NoView
        => outcome[t].view.generation <= held[t].generation

GInv == NoneNewer /\ GenerationIdentifiesState /\ DecidingOnNewer

\* What a step does to one thread's state and answer.
LEMMA ThreadMoves ==
    ASSUME IInv, [Next]_vars, NEW u \in Threads
    PROVE  /\ held'[u] \in {held[u], current, NoState}
           /\ \/ outcome'[u] = outcome[u]
              \/ outcome'[u].view = NoView
              \/ /\ pc[u] = "authorize" /\ held[u] \in EngineState
                 /\ outcome'[u].view = ViewOf(held[u])
  <1>1. CASE UNCHANGED vars
    BY <1>1 DEF vars
  <1>2. CASE Next
    <2>1. PICK t \in Threads : Invoke(t) \/ Step(t) \/ SessionPrepare(t) \/ CloseSession(t)
      BY <1>2 DEF Next
    <2>2. CASE \E k, next : Load(t, k, next)
      BY <2>2 DEF Load, IInv, TypeOK
    <2>3. CASE Invoke(t) \/ CloseSession(t) \/ Return(t)
      BY <2>3 DEF Invoke, CloseSession, Return, Release, IInv, TypeOK
    <2>4. CASE \E s : Install(t, s)
      BY <2>4 DEF Install, Success, IInv, TypeOK
    <2>5. CASE ReloadCompile(t) \/ SchemaReloadCompile(t)
      BY <2>5 DEF ReloadCompile, SchemaReloadCompile, CompileInto, Failure, IInv, TypeOK
    <2>6. CASE ReloadRetry(t) \/ InstallLoad(t) \/ RcuRetry(t) \/ ReloadRecompile(t)
      BY <2>6 DEF ReloadRetry, InstallLoad, RcuRetry, ReloadRecompile, IInv, TypeOK
    <2>7. CASE EvaluatePrepare(t) \/ SessionPrepare(t)
      BY <2>7 DEF EvaluatePrepare, SessionPrepare, PrepareInto, Failure, IInv, TypeOK
    <2>8. CASE Authorize(t)
      <3>1. /\ pc[t] = "authorize"
            /\ held[t] \in EngineState
            /\ seen[t] = [schema |-> held[t].policy.schema, registry |-> held[t].registry]
        BY <2>8 DEF Authorize, IInv, ThreadInv, Owns, SawHeld
      <3>2. \A v \in View : [v EXCEPT !.schema = v.schema, !.registry = v.registry] = v
        BY DEF View
      <3>3. ViewOf(held[t]) \in View
        BY <3>1, ViewType
      <3>4. /\ seen[t].schema = ViewOf(held[t]).schema
            /\ seen[t].registry = ViewOf(held[t]).registry
        BY <3>1 DEF ViewOf
      <3>5. [ViewOf(held[t]) EXCEPT !.schema = seen[t].schema, !.registry = seen[t].registry]
                = ViewOf(held[t])
        BY <3>2, <3>3, <3>4
      <3>6. /\ held' = held
            /\ outcome' = [outcome EXCEPT ![t] = Decided(ViewOf(held[t]))]
        BY <2>8, <3>5 DEF Authorize
      <3>. QED BY <3>1, <3>6 DEF Decided, IInv, TypeOK
    <2>. QED BY <2>1, <2>2, <2>3, <2>4, <2>5, <2>6, <2>7, <2>8
         DEF Step, SetLabelsLoad, ReloadLoad, SchemaReloadLoad, EvaluateLoad, OpenSession,
             SetLabelsSwap, ReloadPublish, InstallSwap
  <1>. QED BY <1>1, <1>2

\* The only view a step can add is that of the state it publishes.
LEMMA ViewsStep ==
    ASSUME IInv, [Next]_vars
    PROVE  Views' \subseteq Views \cup {ViewOf(current')}
  <1>1. ASSUME NEW s \in LiveStates'
        PROVE  s \in LiveStates \cup {current'}
    BY <1>1, ThreadMoves DEF LiveStates, Holders
  <1>2. ASSUME NEW u \in Threads, outcome'[u].view # NoView
        PROVE  outcome'[u].view \in Views
    <2>1. CASE outcome'[u] = outcome[u]
      BY <1>2, <2>1 DEF Views
    <2>2. CASE held[u] \in EngineState /\ outcome'[u].view = ViewOf(held[u])
      BY <2>2, PointerConstants DEF Views, LiveStates, Holders
    <2>. QED BY <1>2, <2>1, <2>2, ThreadMoves
  <1>3. ASSUME NEW s \in LiveStates'
        PROVE  ViewOf(s)' = ViewOf(s) /\ ViewOf(s) \in Views \cup {ViewOf(current')}
    BY <1>1, <1>3 DEF Views, ViewOf
  <1>. QED BY <1>2, <1>3 DEF Views, ViewOf

LEMMA ViewGenerations ==
    ASSUME IInv
    PROVE  \A v \in Views : v.generation \in Generations
  <1>1. \A s \in LiveStates : s \in EngineState
    BY DEF IInv, TypeOK, LiveStates, Holders
  <1>2. \A s \in LiveStates : ViewOf(s).generation \in Generations
    BY <1>1, StateFields DEF ViewOf
  <1>3. \A u \in Threads : outcome[u].view \in View \cup {NoView}
    BY DEF IInv, TypeOK, Outcome
  <1>. QED BY <1>2, <1>3 DEF Views, View, Generations

LEMMA NextIsNewer ==
    ASSUME NEW g \in Generations
    PROVE  /\ NextGeneration(g) >= g
           /\ NextGeneration(g) < MaxGeneration => NextGeneration(g) > g
  BY EngineConstants DEF NextGeneration, Generations

LEMMA NextGInv == IInv /\ IInv' /\ GInv /\ [Next]_vars => GInv'
  <1> SUFFICES ASSUME IInv, IInv', GInv, [Next]_vars PROVE GInv'
    OBVIOUS
  <1>1. /\ current.generation \in Generations /\ current.generation \in Nat
        /\ current'.generation \in Generations /\ current'.generation \in Nat
        /\ ViewOf(current').generation = current'.generation
        /\ MaxGeneration \in Nat
    <2>1. current \in EngineState /\ current' \in EngineState
      BY DEF IInv, TypeOK
    <2>2. current.generation \in Generations /\ current'.generation \in Generations
      BY <2>1, StateFields
    <2>3. ViewOf(current').generation = current'.generation
      BY DEF ViewOf
    <2>. QED BY <2>2, <2>3, EngineConstants DEF Generations
  <1>2. \A v \in Views : v.generation \in Nat
    BY <1>1, ViewGenerations DEF Generations
  <1>3. \/ current' = current
        \/ current'.generation = NextGeneration(current.generation)
    BY Publications
  <1>4. current'.generation >= current.generation
    BY <1>1, <1>3, NextIsNewer
  <1>5. NoneNewer'
    <2>1. \A v \in Views : v.generation <= current'.generation
      BY <1>1, <1>2, <1>4 DEF GInv, NoneNewer
    <2>2. \A v \in Views' : v.generation <= current'.generation
      BY <1>1, <2>1, ViewsStep
    <2>. QED BY <2>2 DEF NoneNewer
  <1>6. GenerationIdentifiesState'
    <2>1. CASE current' = current
      <3>1. ViewOf(current') \in Views
        BY <2>1 DEF Views, LiveStates
      <3>. QED BY <3>1, ViewsStep DEF GInv, GenerationIdentifiesState
    <2>2. CASE current'.generation = NextGeneration(current.generation)
      <3>1. \A v \in Views : current'.generation < MaxGeneration =>
                v.generation # current'.generation
        BY <1>1, <1>2, <2>2, NextIsNewer DEF GInv, NoneNewer
      <3>2. \A v, w \in Views \cup {ViewOf(current')} :
                v.generation = w.generation /\ v.generation < MaxGeneration => v = w
        BY <1>1, <3>1 DEF GInv, GenerationIdentifiesState
      <3>. QED BY <3>2, ViewsStep DEF GenerationIdentifiesState
    <2>. QED BY <1>3, <2>1, <2>2
  <1>7. DecidingOnNewer'
    <2>1. SUFFICES ASSUME NEW u \in Threads,
                          pc'[u] \in {"prepare", "authorize"},
                          job'[u].kind = "evaluate",
                          outcome'[u].view # NoView
                   PROVE  outcome'[u].view.generation <= held'[u].generation
      BY DEF DecidingOnNewer
    <2>2. /\ pc[u] \in {"called", "prepare", "session", "authorize"}
          /\ pc[u] \in {"prepare", "authorize"} =>
                  held'[u] = held[u] /\ outcome'[u] = outcome[u] /\ job'[u] = job[u]
          /\ pc[u] = "called" =>
                  held'[u] = current /\ outcome'[u] = outcome[u]
          /\ pc[u] = "session" => job[u] = job'[u]
      <3>1. CASE UNCHANGED vars
        BY <2>1, <3>1 DEF vars
      <3>2. CASE Next
        <4>1. PICK t \in Threads :
                  Invoke(t) \/ Step(t) \/ SessionPrepare(t) \/ CloseSession(t)
          BY <3>2 DEF Next
        <4>2. CASE t # u
          BY <2>1, <4>1, <4>2
             DEF IInv, TypeOK, Goto, Invoke, Step, Load, SetLabelsLoad, ReloadLoad,
                 ReloadCompile, ReloadRetry, ReloadRecompile, SchemaReloadLoad,
                 SchemaReloadCompile, CompileInto, InstallLoad, RcuRetry, EvaluateLoad,
                 EvaluatePrepare, PrepareInto, Authorize, OpenSession, SessionPrepare,
                 CloseSession, Return, Release, SetLabelsSwap, ReloadPublish, InstallSwap,
                 Install
        <4>3. CASE t = u
          BY <2>1, <4>1, <4>3
             DEF IInv, TypeOK, Goto, Invoke, Step, Load, SetLabelsLoad, ReloadLoad,
                 ReloadCompile, ReloadRetry, ReloadRecompile, SchemaReloadLoad,
                 SchemaReloadCompile, CompileInto, InstallLoad, RcuRetry, EvaluateLoad,
                 EvaluatePrepare, PrepareInto, Authorize, OpenSession, SessionPrepare,
                 CloseSession, Return, Release, SetLabelsSwap, ReloadPublish, InstallSwap,
                 Install
        <4>. QED BY <4>2, <4>3
      <3>. QED BY <3>1, <3>2
    <2>3. CASE pc[u] \in {"prepare", "authorize"}
      BY <2>1, <2>2, <2>3 DEF GInv, DecidingOnNewer
    <2>4. CASE pc[u] = "called"
      <3>1. outcome[u].view \in Views
        BY <2>1, <2>2, <2>4 DEF Views
      <3>. QED BY <2>2, <2>4, <3>1 DEF GInv, NoneNewer
    <2>5. CASE pc[u] = "session"
      BY <2>1, <2>2, <2>5 DEF IInv, ThreadInv, Runs, SessionJob
    <2>. QED BY <2>2, <2>3, <2>4, <2>5
  <1>. QED BY <1>5, <1>6, <1>7 DEF GInv

LEMMA InitGInv == Init => GInv
  <1> SUFFICES ASSUME Init PROVE GInv
    OBVIOUS
  <1>1. Views = {ViewOf(current)}
    BY DEF Init, Views, LiveStates, Holders, NoOutcome
  <1>2. current.generation = 1 /\ ViewOf(current).generation = 1
    BY DEF Init, ViewOf
  <1>. QED BY <1>1, <1>2 DEF Init, GInv, NoneNewer, GenerationIdentifiesState, DecidingOnNewer

LEMMA GInductive == Spec => []GInv
  <1>1. Spec => []IInv
    BY Inductive
  <1>. QED BY <1>1, InitGInv, NextGInv, PTL DEF Spec

\* Until the counter saturates, the generation a decision reports identifies
\* everything the decision was taken on.
THEOREM VersionIdentifies == Spec => []GenerationIdentifiesState
  <1>1. GInv => GenerationIdentifiesState
    BY DEF GInv
  <1>. QED BY <1>1, GInductive, PTL

\* A caller's decisions on the live engine never go back in generations.
THEOREM MonotoneReads == Spec => ReadsNeverGoBack
  <1>1. ASSUME IInv, GInv, [Next]_vars, NEW t \in Threads,
               outcome[t].view # NoView, outcome'[t].view # NoView,
               job[t] # NoJob, job[t].kind = "evaluate"
        PROVE  outcome'[t].view.generation >= outcome[t].view.generation
    <2>1. outcome[t].view \in Views
      BY <1>1 DEF Views
    <2>2. outcome[t].view.generation \in Nat
      BY <1>1, <2>1, ViewGenerations DEF Generations
    <2>3. CASE outcome'[t] = outcome[t]
      BY <2>2, <2>3
    <2>4. CASE /\ pc[t] = "authorize" /\ held[t] \in EngineState
               /\ outcome'[t].view = ViewOf(held[t])
      <3>1. /\ outcome'[t].view.generation = held[t].generation
            /\ held[t].generation \in Nat
        BY <2>4, StateFields DEF ViewOf, Generations
      <3>. QED BY <1>1, <2>2, <2>4, <3>1 DEF GInv, DecidingOnNewer
    <2>. QED BY <1>1, <2>3, <2>4, ThreadMoves
  <1>2. IInv /\ GInv /\ [Next]_vars =>
          [ \A t \in Threads :
              /\ outcome[t].view # NoView
              /\ outcome'[t].view # NoView
              /\ job[t] # NoJob
              /\ job[t].kind = "evaluate"
              => outcome'[t].view.generation >= outcome[t].view.generation ]_vars
    BY <1>1
  <1>. QED BY <1>2, Inductive, GInductive, PTL DEF Spec, ReadsNeverGoBack
------------------------------------------------------------------------------
(***************************************************************************)
(* The engine implements the atomic engine, for any callers, contents and  *)
(* allocator: the refinement mapping of PolicyEngine, step by step.        *)
(***************************************************************************)
\* A request being authorized was one prepare() accepted.
Prepared ==
    \A t \in Threads :
        pc[t] = "authorize" =>
            \E r \in Requests :
                Answerable(r, held[t].policy.schema, held[t].policy.layout, held[t].registry)

RInv == IInv /\ Prepared

\* The abstract state functions of the mapping.
Phases   == [t \in Threads |-> AbstractPhase(t)]
Sessions == [t \in Threads |-> IF InSession(t) THEN ViewOf(held[t]) ELSE NoView]
Outcomes == [t \in Threads |-> AbstractOutcome(t)]

\* The two specifications share their vocabulary.
LEMMA SameVocabulary ==
    /\ Atomic!Success = Success /\ Atomic!Failure = Failure
    /\ Atomic!NoOutcome = NoOutcome /\ Atomic!View = View
    /\ \A v : Atomic!Decided(v) = Decided(v)
    /\ \A g : Atomic!NextGeneration(g) = NextGeneration(g)
    /\ \A a, b, c : Atomic!Compiles(a, b, c) = Compiles(a, b, c)
    /\ \A a, b, c, d : Atomic!Answerable(a, b, c, d) = Answerable(a, b, c, d)
  BY DEF Atomic!Success, Success, Atomic!Failure, Failure, Atomic!NoOutcome, NoOutcome,
         Atomic!View, View, Atomic!EngineSchemas, EngineSchemas, Atomic!Decided, Decided,
         Atomic!NextGeneration, NextGeneration, Atomic!Compiles, Compiles,
         Atomic!Answerable, Answerable

------------------------------------------------------------------------------
\* Only thread t takes part in the step.
OnlyMoves(t) ==
    \A u \in Threads \ {t} :
        /\ pc'[u] = pc[u] /\ job'[u] = job[u] /\ held'[u] = held[u]
        /\ seen'[u] = seen[u] /\ outcome'[u] = outcome[u]

Session(t) == IF InSession(t) THEN ViewOf(held[t]) ELSE NoView

\* The abstract state of the other threads does not depend on the step.
LEMMA Frame ==
    ASSUME NEW t \in Threads, OnlyMoves(t)
    PROVE  /\ Phases'   = [Phases   EXCEPT ![t] = AbstractPhase(t)']
           /\ Sessions' = [Sessions EXCEPT ![t] = Session(t)']
           /\ Outcomes' = [Outcomes EXCEPT ![t] = AbstractOutcome(t)']
  <1>1. ASSUME NEW u \in Threads \ {t}
        PROVE  AbstractPhase(u)' = AbstractPhase(u)
    BY DEF OnlyMoves, AbstractPhase, InSession, WillNotCompile, Deciding, Compiles
  <1>2. ASSUME NEW u \in Threads \ {t}
        PROVE  Session(u)' = Session(u)
    BY DEF OnlyMoves, Session, InSession, ViewOf
  <1>3. ASSUME NEW u \in Threads \ {t}
        PROVE  AbstractOutcome(u)' = AbstractOutcome(u)
    BY DEF OnlyMoves, AbstractOutcome, WillNotCompile, Compiles, Answerable, Decided,
           Failure, ViewOf
  <1>4. Phases' = [Phases EXCEPT ![t] = AbstractPhase(t)']
    BY <1>1 DEF Phases
  <1>5. Sessions' = [Sessions EXCEPT ![t] = Session(t)']
    BY <1>2 DEF Sessions, Session
  <1>6. Outcomes' = [Outcomes EXCEPT ![t] = AbstractOutcome(t)']
    BY <1>3 DEF Outcomes
  <1>. QED BY <1>4, <1>5, <1>6

\* A step of one thread that its abstract state does not show is a stutter.
LEMMA Stutters ==
    ASSUME NEW t \in Threads, OnlyMoves(t),
           job' = job,
           current' = current,
           AbstractPhase(t)' = AbstractPhase(t),
           Session(t)' = Session(t),
           AbstractOutcome(t)' = AbstractOutcome(t)
    PROVE  UNCHANGED Atomic!vars
  <1>1. Phases' = Phases
    BY Frame DEF Phases
  <1>2. Sessions' = Sessions
    BY Frame DEF Sessions, Session
  <1>3. Outcomes' = Outcomes
    BY Frame DEF Outcomes
  <1>4. ViewOf(current)' = ViewOf(current)
    BY DEF ViewOf
  <1>. QED BY <1>1, <1>2, <1>3, <1>4 DEF Atomic!vars, Phases, Sessions, Outcomes, Session

\* A step after which one call has taken effect.
LEMMA TakesEffect ==
    ASSUME NEW t \in Threads, OnlyMoves(t), NEW k, NEW o,
           job' = job,
           job[t].kind = k,
           AbstractPhase(t) = "called", AbstractPhase(t)' = "done",
           ~ InSession(t), ~ InSession(t)',
           AbstractOutcome(t)' = o
    PROVE  Atomic!Effect(t, k, o)
  <1>1. Sessions' = Sessions
    BY Frame DEF Sessions, Session
  <1>2. Phases[t] = "called"
    BY DEF Phases
  <1>. QED BY <1>1, <1>2, Frame DEF Atomic!Effect, Phases, Sessions, Outcomes

------------------------------------------------------------------------------
\* Invocation, and the loads that start a call.

LEMMA InvokeRefines ==
    ASSUME RInv, NEW t \in Threads, Invoke(t)
    PROVE  Atomic!Invoke(t)
  <1>1. OnlyMoves(t) /\ pc[t] = "idle" /\ pc'[t] = "called" /\ outcome'[t] = outcome[t]
    BY DEF Invoke, Goto, RInv, IInv, TypeOK, OnlyMoves
  <1>2. AbstractPhase(t) = "idle" /\ AbstractPhase(t)' = "called"
    BY <1>1 DEF AbstractPhase, InSession, WillNotCompile, Deciding
  <1>3. Session(t)' = Session(t) /\ AbstractOutcome(t)' = AbstractOutcome(t)
    BY <1>1 DEF Session, InSession, AbstractOutcome, WillNotCompile
  <1>4. /\ Phases[t] = "idle"
        /\ Phases' = [Phases EXCEPT ![t] = "called"]
        /\ Sessions' = Sessions /\ Outcomes' = Outcomes
    BY <1>1, <1>2, <1>3, Frame DEF Phases, Sessions, Outcomes, Session
  <1>5. ViewOf(current)' = ViewOf(current)
    BY DEF Invoke, ViewOf
  <1>6. \E j \in Menu[t] : job' = [job EXCEPT ![t] = j]
    BY DEF Invoke
  <1>. QED BY <1>4, <1>5, <1>6 DEF Atomic!Invoke, Phases, Sessions, Outcomes, Session

\* What a load leaves behind.
LEMMA Loaded ==
    ASSUME RInv, NEW t \in Threads, NEW k, NEW next, Load(t, k, next)
    PROVE  /\ OnlyMoves(t)
           /\ pc[t] = "called" /\ pc'[t] = next
           /\ job' = job /\ job[t].kind = k
           /\ current' = current /\ held'[t] = current
           /\ outcome'[t] = outcome[t]
           /\ ViewOf(current)' = ViewOf(current)
           /\ AbstractPhase(t) = "called" /\ ~ InSession(t)
           /\ AbstractOutcome(t) = outcome[t]
  <1>1. /\ OnlyMoves(t) /\ pc[t] = "called" /\ pc'[t] = next
        /\ job' = job /\ job[t].kind = k /\ current' = current /\ held'[t] = current
        /\ outcome'[t] = outcome[t]
    BY DEF Load, Goto, RInv, IInv, TypeOK, OnlyMoves
  <1>. QED BY <1>1 DEF AbstractPhase, InSession, WillNotCompile, Deciding, AbstractOutcome, ViewOf

LEMMA SetLabelsLoadRefines ==
    ASSUME RInv, NEW t \in Threads, SetLabelsLoad(t)
    PROVE  UNCHANGED Atomic!vars
  <1>a. Load(t, "setLabels", "labelSwap")
    BY DEF SetLabelsLoad
  <1>b. pc'[t] = "labelSwap" /\ outcome'[t] = outcome[t]
    BY <1>a, Loaded
  <1>1. /\ AbstractPhase(t)' = "called" /\ ~ InSession(t)'
        /\ AbstractOutcome(t)' = outcome[t]
    BY <1>b DEF AbstractPhase, InSession, WillNotCompile, Deciding, AbstractOutcome
  <1>. QED BY <1>a, <1>1, Loaded, Stutters DEF Session

\* A plain reload that will not compile has failed at its load.
LEMMA ReloadLoadRefines ==
    ASSUME RInv, NEW t \in Threads, ReloadLoad(t)
    PROVE  Atomic!ReloadFails(t) \/ UNCHANGED Atomic!vars
  <1> DEFINE ok == Compiles(job[t].text, current.policy.schema, current.policy.layout)
  <1>a. Load(t, "reload", "compile")
    BY DEF ReloadLoad
  <1>b. /\ pc'[t] = "compile" /\ outcome'[t] = outcome[t]
        /\ job'[t] = job[t] /\ held'[t] = current
    BY <1>a, Loaded
  <1>1. CASE ok
    <2>1. /\ AbstractPhase(t)' = "called" /\ ~ InSession(t)'
          /\ AbstractOutcome(t)' = outcome[t]
      BY <1>1, <1>b DEF AbstractPhase, InSession, WillNotCompile, Deciding,
         AbstractOutcome, Compiles
    <2>. QED BY <1>a, <2>1, Loaded, Stutters DEF Session
  <1>2. CASE ~ ok
    <2>1. /\ AbstractPhase(t)' = "done" /\ ~ InSession(t)'
          /\ AbstractOutcome(t)' = Failure
      BY <1>2, <1>b DEF AbstractPhase, InSession, WillNotCompile, Deciding,
         AbstractOutcome, Compiles, Failure
    <2>2. Atomic!Effect(t, "reload", Failure)
      BY <1>a, <2>1, Loaded, TakesEffect
    <2>3. ViewOf(current)' = ViewOf(current)
      BY <1>a, Loaded
    <2>. QED BY <1>2, <2>2, <2>3, SameVocabulary DEF Atomic!ReloadFails, ViewOf
  <1>. QED BY <1>1, <1>2

LEMMA SchemaReloadLoadRefines ==
    ASSUME RInv, NEW t \in Threads, SchemaReloadLoad(t)
    PROVE  Atomic!SchemaReloadFails(t) \/ UNCHANGED Atomic!vars
  <1> DEFINE ok == Compiles(job[t].text, job[t].schema, current.policy.layout)
  <1>a. Load(t, "schemaReload", "schemaCompile")
    BY DEF SchemaReloadLoad
  <1>b. /\ pc'[t] = "schemaCompile" /\ outcome'[t] = outcome[t]
        /\ job'[t] = job[t] /\ held'[t] = current
    BY <1>a, Loaded
  <1>1. CASE ok
    <2>1. /\ AbstractPhase(t)' = "called" /\ ~ InSession(t)'
          /\ AbstractOutcome(t)' = outcome[t]
      BY <1>1, <1>b DEF AbstractPhase, InSession, WillNotCompile, Deciding,
         AbstractOutcome, Compiles
    <2>. QED BY <1>a, <2>1, Loaded, Stutters DEF Session
  <1>2. CASE ~ ok
    <2>1. /\ AbstractPhase(t)' = "done" /\ ~ InSession(t)'
          /\ AbstractOutcome(t)' = Failure
      BY <1>2, <1>b DEF AbstractPhase, InSession, WillNotCompile, Deciding,
         AbstractOutcome, Compiles, Failure
    <2>2. Atomic!Effect(t, "schemaReload", Failure)
      BY <1>a, <2>1, Loaded, TakesEffect
    <2>3. ViewOf(current)' = ViewOf(current)
      BY <1>a, Loaded
    <2>. QED BY <1>2, <2>2, <2>3, SameVocabulary DEF Atomic!SchemaReloadFails, ViewOf
  <1>. QED BY <1>1, <1>2

\* An evaluation is decided by the state it loads.
LEMMA EvaluateLoadRefines ==
    ASSUME RInv, NEW t \in Threads, EvaluateLoad(t)
    PROVE  Atomic!Evaluate(t)
  <1> DEFINE answer == IF Answerable(job[t].request, current.policy.schema, current.policy.layout,
                                      current.registry)
                       THEN Decided(ViewOf(current)) ELSE Failure
  <1>a. Load(t, "evaluate", "prepare")
    BY DEF EvaluateLoad
  <1>b. /\ pc'[t] = "prepare" /\ job'[t] = job[t] /\ held'[t] = current
        /\ ViewOf(current)' = ViewOf(current)
    BY <1>a, Loaded
  <1>1. AbstractPhase(t)' = "done" /\ ~ InSession(t)'
    BY <1>b DEF AbstractPhase, InSession, WillNotCompile, Deciding
  <1>2. AbstractOutcome(t)' = answer
    BY <1>b DEF AbstractOutcome, WillNotCompile, Answerable, Decided, Failure, ViewOf
  <1>3. Atomic!Effect(t, "evaluate", answer)
    BY <1>a, <1>1, <1>2, Loaded, TakesEffect
  <1>4. Atomic!Answer(job[t].request, ViewOf(current)) = answer
    BY SameVocabulary DEF Atomic!Answer, ViewOf
  <1>. QED BY <1>b, <1>3, <1>4 DEF Atomic!Evaluate

LEMMA OpenSessionRefines ==
    ASSUME RInv, NEW t \in Threads, OpenSession(t)
    PROVE  Atomic!OpenSession(t)
  <1>a. Load(t, "session", "session")
    BY DEF OpenSession
  <1>b. /\ pc'[t] = "session" /\ outcome'[t] = outcome[t] /\ held'[t] = current
        /\ job' = job /\ job[t].kind = "session"
        /\ OnlyMoves(t) /\ ViewOf(current)' = ViewOf(current)
    BY <1>a, Loaded
  <1>1. /\ AbstractPhase(t)' = "session" /\ Session(t)' = ViewOf(current)
        /\ AbstractOutcome(t)' = outcome[t]
    <2>1. AbstractPhase(t)' = "session" /\ Session(t)' = ViewOf(current)
      BY <1>b DEF AbstractPhase, InSession, WillNotCompile, Deciding, Session, ViewOf
    <2>2. AbstractOutcome(t)' = outcome[t]
      BY <1>b DEF AbstractOutcome, WillNotCompile
    <2>. QED BY <2>1, <2>2
  <1>2. AbstractPhase(t) = "called" /\ AbstractOutcome(t) = outcome[t]
    BY <1>a, Loaded
  <1>3. /\ Phases' = [Phases EXCEPT ![t] = "session"]
        /\ Sessions' = [Sessions EXCEPT ![t] = ViewOf(current)]
        /\ Outcomes' = [Outcomes EXCEPT ![t] = outcome[t]]
    BY <1>1, <1>b, Frame
  <1>4. Phases[t] = "called" /\ Outcomes' = Outcomes
    BY <1>2, <1>3 DEF Phases, Outcomes
  <1>. QED BY <1>3, <1>4, <1>b DEF Atomic!OpenSession, Phases, Sessions, Outcomes, Session

------------------------------------------------------------------------------
\* Publications: a successful compare-and-swap is the call's effect.

LEMMA Published ==
    ASSUME RInv, NEW t \in Threads, NEW s, Install(t, s),
           pc[t] \in {"labelSwap", "publish", "policySwap"}, NEW k, job[t].kind = k
    PROVE  Atomic!Effect(t, k, Success) /\ current' = s
  <1>1. /\ OnlyMoves(t) /\ pc'[t] = "returning" /\ outcome'[t] = Success
        /\ job' = job /\ current' = s
    BY DEF Install, Goto, RInv, IInv, TypeOK, OnlyMoves
  <1>2. AbstractPhase(t) = "called" /\ ~ InSession(t)
    BY DEF AbstractPhase, InSession, WillNotCompile, Deciding
  <1>3. /\ AbstractPhase(t)' = "done" /\ ~ InSession(t)'
        /\ AbstractOutcome(t)' = Success
    BY <1>1 DEF AbstractPhase, InSession, WillNotCompile, Deciding, AbstractOutcome
  <1>. QED BY <1>1, <1>2, <1>3, TakesEffect

\* A view that differs from another only where an update changes it.
LEMMA ViewEdits ==
    ASSUME NEW v \in View, NEW w \in View, w.layout = v.layout
    PROVE  /\ w.text = v.text /\ w.schema = v.schema =>
                  w = [v EXCEPT !.registry = w.registry, !.generation = w.generation]
           /\ w.schema = v.schema /\ w.registry = v.registry =>
                  w = [v EXCEPT !.text = w.text, !.generation = w.generation]
           /\ w.registry = v.registry =>
                  w = [v EXCEPT !.text = w.text, !.schema = w.schema,
                                !.generation = w.generation]
  BY DEF View

LEMMA EngineViews ==
    ASSUME RInv, IInv'
    PROVE  ViewOf(current) \in View /\ ViewOf(current') \in View
  <1>1. current \in EngineState /\ current' \in EngineState
    BY DEF RInv, IInv, TypeOK
  <1>. QED BY <1>1, ViewType

LEMMA SetLabelsSwapRefines ==
    ASSUME RInv, IInv', NEW t \in Threads, SetLabelsSwap(t)
    PROVE  Atomic!SetLabels(t)
  <1>1. PICK i \in Allocate(FreeStateIds) : Install(t, WithRegistry(held[t], i, job[t].registry))
    BY DEF SetLabelsSwap
  <1>2. /\ pc[t] = "labelSwap" /\ PtrEq(held[t], current)
        /\ held[t] \in EngineState /\ job[t].kind = "setLabels"
    BY DEF SetLabelsSwap, RInv, IInv, ThreadInv, Owns, Runs, SetLabelsJob
  <1>3. held[t] = current
    BY <1>2, SwapHolds DEF RInv
  <1>4. /\ Atomic!Effect(t, "setLabels", Success)
        /\ current' = WithRegistry(current, i, job[t].registry)
    BY <1>1, <1>2, <1>3, Published
  <1>5. ViewOf(current)' = [ViewOf(current) EXCEPT !.registry   = job[t].registry,
                                                   !.generation = NextGeneration(@)]
    <2>1. /\ ViewOf(current').text = ViewOf(current).text
          /\ ViewOf(current').schema = ViewOf(current).schema
          /\ ViewOf(current').layout = ViewOf(current).layout
          /\ ViewOf(current').registry = job[t].registry
          /\ ViewOf(current').generation = NextGeneration(ViewOf(current).generation)
      BY <1>4 DEF ViewOf, WithRegistry
    <2>2. ViewOf(current)' = ViewOf(current')
      BY DEF ViewOf
    <2>. QED BY <2>1, <2>2, EngineViews, ViewEdits
  <1>. QED BY <1>4, <1>5, SameVocabulary DEF Atomic!SetLabels

LEMMA ReloadPublishRefines ==
    ASSUME RInv, IInv', NEW t \in Threads, ReloadPublish(t)
    PROVE  Atomic!Reload(t)
  <1>1. PICK i \in Allocate(FreeStateIds) : Install(t, WithPolicy(held[t], i, compiled[t]))
    BY DEF ReloadPublish
  <1>2. /\ pc[t] = "publish" /\ PtrEq(held[t], current)
        /\ held[t] \in EngineState /\ job[t].kind = "reload"
        /\ compiled[t].text = job[t].text
        /\ compiled[t].layout = current.policy.layout
        /\ compiled[t].schema = held[t].policy.schema
        /\ Compiles(compiled[t].text, compiled[t].schema, compiled[t].layout)
    BY DEF ReloadPublish, RInv, IInv, ThreadInv, Owns, Runs, Compiled, ReloadJob
  <1>3. held[t] = current
    BY <1>2, SwapHolds DEF RInv
  <1>4. /\ Atomic!Effect(t, "reload", Success)
        /\ current' = WithPolicy(current, i, compiled[t])
    BY <1>1, <1>2, <1>3, Published
  <1>5. ViewOf(current)' = [ViewOf(current) EXCEPT !.text = job[t].text,
                                                   !.generation = NextGeneration(@)]
    <2>1. /\ ViewOf(current').text = job[t].text
          /\ ViewOf(current').schema = ViewOf(current).schema
          /\ ViewOf(current').layout = ViewOf(current).layout
          /\ ViewOf(current').registry = ViewOf(current).registry
          /\ ViewOf(current').generation = NextGeneration(ViewOf(current).generation)
      BY <1>2, <1>3, <1>4 DEF ViewOf, WithPolicy
    <2>2. ViewOf(current)' = ViewOf(current')
      BY DEF ViewOf
    <2>. QED BY <2>1, <2>2, EngineViews, ViewEdits
  <1>6. Compiles(job[t].text, ViewOf(current).schema, ViewOf(current).layout)
    BY <1>2, <1>3 DEF ViewOf
  <1>. QED BY <1>4, <1>5, <1>6, SameVocabulary DEF Atomic!Reload

LEMMA InstallSwapRefines ==
    ASSUME RInv, IInv', NEW t \in Threads, InstallSwap(t)
    PROVE  Atomic!SchemaReload(t)
  <1>1. PICK i \in Allocate(FreeStateIds) : Install(t, WithPolicy(held[t], i, compiled[t]))
    BY DEF InstallSwap
  <1>2. /\ pc[t] = "policySwap" /\ PtrEq(held[t], current)
        /\ held[t] \in EngineState /\ job[t].kind = "schemaReload"
        /\ compiled[t].text = job[t].text
        /\ compiled[t].layout = current.policy.layout
        /\ compiled[t].schema = job[t].schema
        /\ Compiles(compiled[t].text, compiled[t].schema, compiled[t].layout)
    BY DEF InstallSwap, RInv, IInv, ThreadInv, Owns, Runs, Compiled, SchemaReloadJob
  <1>3. held[t] = current
    BY <1>2, SwapHolds DEF RInv
  <1>4. /\ Atomic!Effect(t, "schemaReload", Success)
        /\ current' = WithPolicy(current, i, compiled[t])
    BY <1>1, <1>2, <1>3, Published
  <1>5. ViewOf(current)' = [ViewOf(current) EXCEPT !.text = job[t].text,
                                                   !.schema = job[t].schema,
                                                   !.generation = NextGeneration(@)]
    <2>1. /\ ViewOf(current').text = job[t].text
          /\ ViewOf(current').schema = job[t].schema
          /\ ViewOf(current').layout = ViewOf(current).layout
          /\ ViewOf(current').registry = ViewOf(current).registry
          /\ ViewOf(current').generation = NextGeneration(ViewOf(current).generation)
      BY <1>2, <1>4 DEF ViewOf, WithPolicy
    <2>2. ViewOf(current)' = ViewOf(current')
      BY DEF ViewOf
    <2>3. ViewOf(current') =
              [ViewOf(current) EXCEPT !.text = ViewOf(current').text,
                                      !.schema = ViewOf(current').schema,
                                      !.generation = ViewOf(current').generation]
      BY <2>1, EngineViews, ViewEdits
    <2>. QED BY <2>1, <2>2, <2>3
  <1>6. Compiles(job[t].text, job[t].schema, ViewOf(current).layout)
    BY <1>2 DEF ViewOf
  <1>. QED BY <1>4, <1>5, <1>6, SameVocabulary DEF Atomic!SchemaReload

------------------------------------------------------------------------------
\* Steps the caller cannot see: compilations, lost compare-and-swaps.

LEMMA ReloadCompileRefines ==
    ASSUME RInv, NEW t \in Threads, ReloadCompile(t)
    PROVE  UNCHANGED Atomic!vars
  <1> DEFINE ok == Compiles(job[t].text, held[t].policy.schema, held[t].policy.layout)
  <1>1. /\ OnlyMoves(t) /\ pc[t] = "compile" /\ job' = job /\ current' = current
        /\ ok => pc'[t] = "publish" /\ outcome'[t] = outcome[t]
        /\ ~ ok => pc'[t] = "returning" /\ outcome'[t] = Failure
    BY DEF ReloadCompile, CompileInto, Goto, RInv, IInv, TypeOK, OnlyMoves
  <1>2. CASE ok
    <2>1. /\ AbstractPhase(t) = "called" /\ ~ InSession(t)
          /\ AbstractOutcome(t) = outcome[t]
      BY <1>1, <1>2 DEF AbstractPhase, InSession, WillNotCompile, Deciding, AbstractOutcome
    <2>2. /\ AbstractPhase(t)' = "called" /\ ~ InSession(t)'
          /\ AbstractOutcome(t)' = outcome[t]
      BY <1>1, <1>2 DEF AbstractPhase, InSession, WillNotCompile, Deciding, AbstractOutcome
    <2>. QED BY <1>1, <2>1, <2>2, Stutters DEF Session
  <1>3. CASE ~ ok
    <2>1. /\ AbstractPhase(t) = "done" /\ ~ InSession(t)
          /\ AbstractOutcome(t) = Failure
      BY <1>1, <1>3 DEF AbstractPhase, InSession, WillNotCompile, Deciding, AbstractOutcome
    <2>2. /\ AbstractPhase(t)' = "done" /\ ~ InSession(t)'
          /\ AbstractOutcome(t)' = Failure
      BY <1>1, <1>3 DEF AbstractPhase, InSession, WillNotCompile, Deciding, AbstractOutcome
    <2>. QED BY <1>1, <2>1, <2>2, Stutters DEF Session
  <1>. QED BY <1>2, <1>3

LEMMA SchemaReloadCompileRefines ==
    ASSUME RInv, NEW t \in Threads, SchemaReloadCompile(t)
    PROVE  UNCHANGED Atomic!vars
  <1> DEFINE ok == Compiles(job[t].text, job[t].schema, held[t].policy.layout)
  <1>1. /\ OnlyMoves(t) /\ pc[t] = "schemaCompile" /\ job' = job /\ current' = current
        /\ ok => pc'[t] = "install" /\ outcome'[t] = outcome[t]
        /\ ~ ok => pc'[t] = "returning" /\ outcome'[t] = Failure
    BY DEF SchemaReloadCompile, CompileInto, Goto, RInv, IInv, TypeOK, OnlyMoves
  <1>2. CASE ok
    <2>1. /\ AbstractPhase(t) = "called" /\ ~ InSession(t)
          /\ AbstractOutcome(t) = outcome[t]
      BY <1>1, <1>2 DEF AbstractPhase, InSession, WillNotCompile, Deciding, AbstractOutcome
    <2>2. /\ AbstractPhase(t)' = "called" /\ ~ InSession(t)'
          /\ AbstractOutcome(t)' = outcome[t]
      BY <1>1, <1>2 DEF AbstractPhase, InSession, WillNotCompile, Deciding, AbstractOutcome
    <2>. QED BY <1>1, <2>1, <2>2, Stutters DEF Session
  <1>3. CASE ~ ok
    <2>1. /\ AbstractPhase(t) = "done" /\ ~ InSession(t)
          /\ AbstractOutcome(t) = Failure
      BY <1>1, <1>3 DEF AbstractPhase, InSession, WillNotCompile, Deciding, AbstractOutcome
    <2>2. /\ AbstractPhase(t)' = "done" /\ ~ InSession(t)'
          /\ AbstractOutcome(t)' = Failure
      BY <1>1, <1>3 DEF AbstractPhase, InSession, WillNotCompile, Deciding, AbstractOutcome
    <2>. QED BY <1>1, <2>1, <2>2, Stutters DEF Session
  <1>. QED BY <1>2, <1>3

LEMMA RetryRefines ==
    ASSUME RInv, NEW t \in Threads,
           ReloadRetry(t) \/ ReloadRecompile(t) \/ InstallLoad(t) \/ RcuRetry(t)
    PROVE  UNCHANGED Atomic!vars
  <1>1. /\ OnlyMoves(t) /\ job' = job /\ current' = current
        /\ outcome'[t] = outcome[t]
        /\ pc[t] \in {"publish", "install", "labelSwap", "policySwap"}
        /\ pc'[t] \in {"publish", "called", "labelSwap", "policySwap"}
    BY DEF ReloadRetry, ReloadRecompile, InstallLoad, RcuRetry, Goto, RInv, IInv,
           TypeOK, OnlyMoves
  <1>2. /\ AbstractPhase(t) = "called" /\ ~ InSession(t)
        /\ AbstractOutcome(t) = outcome[t]
    BY <1>1 DEF AbstractPhase, InSession, WillNotCompile, Deciding, AbstractOutcome
  <1>3. /\ AbstractPhase(t)' = "called" /\ ~ InSession(t)'
        /\ AbstractOutcome(t)' = outcome[t]
    BY <1>1 DEF AbstractPhase, InSession, WillNotCompile, Deciding, AbstractOutcome
  <1>. QED BY <1>1, <1>2, <1>3, Stutters DEF Session

------------------------------------------------------------------------------
\* Evaluations, live and in a session.

\* What prepare() saw is the held state.
LEMMA SeenView ==
    ASSUME RInv, NEW t \in Threads, pc[t] = "authorize"
    PROVE  /\ held[t] \in EngineState
           /\ [ViewOf(held[t]) EXCEPT !.schema = seen[t].schema, !.registry = seen[t].registry]
                  = ViewOf(held[t])
  <1>1. /\ held[t] \in EngineState
        /\ seen[t] = [schema |-> held[t].policy.schema, registry |-> held[t].registry]
    BY DEF RInv, IInv, ThreadInv, Owns, SawHeld
  <1>2. \A v \in View : [v EXCEPT !.schema = v.schema, !.registry = v.registry] = v
    BY DEF View
  <1>3. ViewOf(held[t]) \in View
    BY <1>1, ViewType
  <1>4. /\ seen[t].schema = ViewOf(held[t]).schema
        /\ seen[t].registry = ViewOf(held[t]).registry
    BY <1>1 DEF ViewOf
  <1>. QED BY <1>1, <1>2, <1>3, <1>4

LEMMA SessionEffect ==
    ASSUME RInv, NEW t \in Threads, OnlyMoves(t), job' = job, current' = current,
           AbstractPhase(t) = "session", AbstractPhase(t)' = "session",
           InSession(t), InSession(t)', held'[t] = held[t],
           NEW r \in Requests,
           AbstractOutcome(t)' = Atomic!Answer(r, ViewOf(held[t]))
    PROVE  Atomic!SessionEvaluate(t)
  <1>1. Session(t) = ViewOf(held[t]) /\ Session(t)' = ViewOf(held[t])
    BY DEF Session, ViewOf
  <1>2. /\ Phases[t] = "session" /\ Phases' = Phases
        /\ Sessions[t] = ViewOf(held[t]) /\ Sessions' = Sessions
    BY <1>1, Frame DEF Phases, Sessions, Session
  <1>3. Outcomes' = [Outcomes EXCEPT ![t] = Atomic!Answer(r, Sessions[t])]
    BY <1>2, Frame
  <1>4. ViewOf(current)' = ViewOf(current)
    BY DEF ViewOf
  <1>. QED BY <1>2, <1>3, <1>4 DEF Atomic!SessionEvaluate, Phases, Sessions, Outcomes, Session

LEMMA EvaluatePrepareRefines ==
    ASSUME RInv, NEW t \in Threads, EvaluatePrepare(t)
    PROVE  UNCHANGED Atomic!vars
  <1> DEFINE ok == Answerable(job[t].request, held[t].policy.schema, held[t].policy.layout, held[t].registry)
  <1> DEFINE sees == [schema |-> held[t].policy.schema, registry |-> held[t].registry]
  <1>1. /\ OnlyMoves(t) /\ pc[t] = "prepare" /\ job' = job /\ current' = current
        /\ held' = held
        /\ ok => pc'[t] = "authorize" /\ seen'[t] = sees
        /\ ~ ok => pc'[t] = "returning" /\ outcome'[t] = Failure
    BY DEF EvaluatePrepare, PrepareInto, Goto, RInv, IInv, TypeOK, OnlyMoves
  <1>2. held[t] \in EngineState /\ job[t].kind = "evaluate"
    BY <1>1 DEF RInv, IInv, ThreadInv, Owns, Runs, EvaluateJob
  <1>3. /\ AbstractPhase(t) = "done" /\ ~ InSession(t)
        /\ AbstractOutcome(t) = IF ok THEN Decided(ViewOf(held[t])) ELSE Failure
    BY <1>1 DEF AbstractPhase, InSession, WillNotCompile, Deciding, AbstractOutcome
  <1>4. CASE ok
    <2>1. AbstractPhase(t)' = "done" /\ ~ InSession(t)'
      BY <1>1, <1>2, <1>4 DEF AbstractPhase, InSession, WillNotCompile, Deciding
    <2>2. \A v \in View : [v EXCEPT !.schema = v.schema, !.registry = v.registry] = v
      BY DEF View
    <2>3. ViewOf(held[t]) \in View
      BY <1>2, ViewType
    <2>4. /\ seen'[t].schema = ViewOf(held[t]).schema
          /\ seen'[t].registry = ViewOf(held[t]).registry
      BY <1>1, <1>4 DEF ViewOf
    <2>5. [ViewOf(held[t]) EXCEPT !.schema = seen'[t].schema, !.registry = seen'[t].registry]
              = ViewOf(held[t])
      BY <2>2, <2>3, <2>4
    <2>6. ViewOf(held[t])' = ViewOf(held[t])
      BY <1>1 DEF ViewOf
    <2>7. AbstractOutcome(t)' =
              Decided([ViewOf(held[t]) EXCEPT !.schema = seen'[t].schema,
                                              !.registry = seen'[t].registry])
      BY <1>1, <1>2, <1>4, <2>6 DEF AbstractOutcome, WillNotCompile, Decided
    <2>8. AbstractOutcome(t)' = Decided(ViewOf(held[t]))
      BY <2>5, <2>7
    <2>. QED BY <1>1, <1>3, <1>4, <2>1, <2>8, Stutters DEF Session
  <1>5. CASE ~ ok
    <2>1. /\ AbstractPhase(t)' = "done" /\ ~ InSession(t)'
          /\ AbstractOutcome(t)' = Failure
      BY <1>1, <1>5 DEF AbstractPhase, InSession, WillNotCompile, Deciding, AbstractOutcome
    <2>. QED BY <1>1, <1>3, <1>5, <2>1, Stutters DEF Session
  <1>. QED BY <1>4, <1>5

\* A session's refused request is answered at once; an accepted one later.
LEMMA SessionPrepareRefines ==
    ASSUME RInv, NEW t \in Threads, SessionPrepare(t)
    PROVE  Atomic!SessionEvaluate(t) \/ UNCHANGED Atomic!vars
  <1>1. PICK r \in Requests : PrepareInto(t, r, "session")
    BY DEF SessionPrepare
  <1> DEFINE ok == Answerable(r, held[t].policy.schema, held[t].policy.layout, held[t].registry)
  <1>2. /\ OnlyMoves(t) /\ pc[t] = "session" /\ job' = job /\ current' = current
        /\ held' = held
        /\ ok => pc'[t] = "authorize" /\ outcome'[t] = outcome[t]
        /\ ~ ok => pc'[t] = "session" /\ outcome'[t] = Failure
    BY <1>1 DEF SessionPrepare, PrepareInto, Goto, RInv, IInv, TypeOK, OnlyMoves
  <1>3. job[t].kind = "session"
    BY <1>2 DEF RInv, IInv, ThreadInv, Runs, SessionJob
  <1>4. /\ AbstractPhase(t) = "session" /\ InSession(t)
        /\ AbstractOutcome(t) = outcome[t]
    BY <1>2 DEF AbstractPhase, InSession, WillNotCompile, Deciding, AbstractOutcome
  <1>5. AbstractPhase(t)' = "session" /\ InSession(t)'
    BY <1>2, <1>3 DEF AbstractPhase, InSession, WillNotCompile, Deciding
  <1>6. AbstractOutcome(t)' = outcome'[t]
    BY <1>2, <1>3 DEF AbstractOutcome, WillNotCompile
  <1>7. CASE ok
    <2>1. Session(t)' = Session(t)
      BY <1>2, <1>4, <1>5 DEF Session, ViewOf
    <2>. QED BY <1>2, <1>4, <1>5, <1>6, <1>7, <2>1, Stutters
  <1>8. CASE ~ ok
    <2>1. Atomic!Answer(r, ViewOf(held[t])) = Failure
      BY <1>8, SameVocabulary DEF Atomic!Answer, ViewOf
    <2>. QED BY <1>2, <1>4, <1>5, <1>6, <1>8, <2>1, SessionEffect
  <1>. QED BY <1>7, <1>8

LEMMA AuthorizeRefines ==
    ASSUME RInv, NEW t \in Threads, Authorize(t)
    PROVE  Atomic!SessionEvaluate(t) \/ UNCHANGED Atomic!vars
  <1>1. /\ OnlyMoves(t) /\ pc[t] = "authorize" /\ job' = job /\ current' = current
        /\ held' = held
        /\ pc'[t] = IF job[t].kind = "session" THEN "session" ELSE "returning"
        /\ outcome'[t] = Decided([ViewOf(held[t]) EXCEPT !.schema   = seen[t].schema,
                                                         !.registry = seen[t].registry])
    BY DEF Authorize, Goto, RInv, IInv, TypeOK, OnlyMoves
  <1>2. /\ job[t].kind \in {"evaluate", "session"}
        /\ \E r \in Requests : Answerable(r, held[t].policy.schema, held[t].policy.layout, held[t].registry)
    BY <1>1 DEF RInv, IInv, Prepared, ThreadInv, Runs, SessionJob, EvaluateJob
  <1>3. CASE job[t].kind = "evaluate"
    <2>1. AbstractPhase(t) = "done" /\ ~ InSession(t)
      BY <1>1, <1>3 DEF AbstractPhase, InSession, WillNotCompile, Deciding
    <2>2. AbstractOutcome(t) = outcome'[t]
      BY <1>1, <1>3 DEF AbstractOutcome, WillNotCompile
    <2>3. /\ AbstractPhase(t)' = "done" /\ ~ InSession(t)'
          /\ AbstractOutcome(t)' = outcome'[t]
      BY <1>1, <1>3 DEF AbstractPhase, InSession, WillNotCompile, Deciding, AbstractOutcome
    <2>. QED BY <1>1, <2>1, <2>2, <2>3, Stutters DEF Session
  <1>4. CASE job[t].kind = "session"
    <2>1. AbstractPhase(t) = "session" /\ InSession(t)
      BY <1>1, <1>4 DEF AbstractPhase, InSession, WillNotCompile, Deciding
    <2>2. /\ AbstractPhase(t)' = "session" /\ InSession(t)'
          /\ AbstractOutcome(t)' = outcome'[t]
      BY <1>1, <1>4 DEF AbstractPhase, InSession, WillNotCompile, Deciding, AbstractOutcome
    <2>3. PICK r \in Requests : Answerable(r, held[t].policy.schema, held[t].policy.layout, held[t].registry)
      BY <1>2
    <2>4. Atomic!Answer(r, ViewOf(held[t])) = Decided(ViewOf(held[t]))
      BY <2>3, SameVocabulary DEF Atomic!Answer, ViewOf
    <2>5. outcome'[t] = Decided(ViewOf(held[t]))
      BY <1>1, SeenView
    <2>. QED BY <1>1, <2>1, <2>2, <2>4, <2>5, SessionEffect
  <1>. QED BY <1>2, <1>3, <1>4

------------------------------------------------------------------------------
\* Returns.

LEMMA CloseSessionRefines ==
    ASSUME RInv, NEW t \in Threads, CloseSession(t)
    PROVE  Atomic!CloseSession(t)
  <1>1. /\ OnlyMoves(t) /\ pc[t] = "session" /\ pc'[t] = "idle"
        /\ job' = [job EXCEPT ![t] = NoJob] /\ current' = current
        /\ outcome'[t] = outcome[t]
    BY DEF CloseSession, Release, Goto, RInv, IInv, TypeOK, OnlyMoves
  <1>2. /\ AbstractPhase(t) = "session" /\ AbstractOutcome(t) = outcome[t]
    BY <1>1 DEF AbstractPhase, InSession, WillNotCompile, Deciding, AbstractOutcome
  <1>3. /\ AbstractPhase(t)' = "idle" /\ Session(t)' = NoView
        /\ AbstractOutcome(t)' = outcome[t]
    BY <1>1 DEF AbstractPhase, InSession, WillNotCompile, Deciding, AbstractOutcome, Session
  <1>4. /\ Phases[t] = "session"
        /\ Phases' = [Phases EXCEPT ![t] = "idle"]
        /\ Sessions' = [Sessions EXCEPT ![t] = NoView]
        /\ Outcomes' = Outcomes
    BY <1>1, <1>2, <1>3, Frame DEF Phases, Outcomes
  <1>5. ViewOf(current)' = ViewOf(current)
    BY <1>1 DEF ViewOf
  <1>. QED BY <1>1, <1>4, <1>5 DEF Atomic!CloseSession, Phases, Sessions, Outcomes, Session

LEMMA ReturnRefines ==
    ASSUME RInv, NEW t \in Threads, Return(t)
    PROVE  Atomic!Return(t)
  <1>1. /\ OnlyMoves(t) /\ pc[t] = "returning" /\ pc'[t] = "idle"
        /\ job' = [job EXCEPT ![t] = NoJob] /\ current' = current
        /\ outcome'[t] = outcome[t]
    BY DEF Return, Release, Goto, RInv, IInv, TypeOK, OnlyMoves
  <1>2. /\ AbstractPhase(t) = "done" /\ Session(t) = NoView
        /\ AbstractOutcome(t) = outcome[t]
    BY <1>1 DEF AbstractPhase, InSession, WillNotCompile, Deciding, AbstractOutcome, Session
  <1>3. /\ AbstractPhase(t)' = "idle" /\ Session(t)' = NoView
        /\ AbstractOutcome(t)' = outcome[t]
    BY <1>1 DEF AbstractPhase, InSession, WillNotCompile, Deciding, AbstractOutcome, Session
  <1>4. /\ Phases[t] = "done"
        /\ Phases' = [Phases EXCEPT ![t] = "idle"]
        /\ Sessions' = Sessions
        /\ Outcomes' = Outcomes
    BY <1>1, <1>2, <1>3, Frame DEF Phases, Sessions, Outcomes, Session
  <1>5. ViewOf(current)' = ViewOf(current)
    BY <1>1 DEF ViewOf
  <1>. QED BY <1>1, <1>4, <1>5 DEF Atomic!Return, Phases, Sessions, Outcomes, Session

------------------------------------------------------------------------------
LEMMA InitRefines == Init => Atomic!Init
  <1> SUFFICES ASSUME Init PROVE Atomic!Init
    OBVIOUS
  <1>1. /\ ViewOf(current) \in View
        /\ Compiles(ViewOf(current).text, ViewOf(current).schema, ViewOf(current).layout)
        /\ ViewOf(current).registry = NoRegistry
        /\ ViewOf(current).generation = 1
    BY ViewType DEF Init, ViewOf
  <1>2. ASSUME NEW t \in Threads
        PROVE  /\ AbstractPhase(t) = "idle" /\ Session(t) = NoView
               /\ AbstractOutcome(t) = NoOutcome
    BY DEF Init, AbstractPhase, InSession, WillNotCompile, Deciding, AbstractOutcome, Session
  <1>3. /\ Phases = [t \in Threads |-> "idle"]
        /\ Sessions = [t \in Threads |-> NoView]
        /\ Outcomes = [t \in Threads |-> NoOutcome]
    BY <1>2 DEF Phases, Sessions, Outcomes, Session
  <1>4. job = [t \in Threads |-> NoJob]
    BY DEF Init
  <1>. QED BY <1>1, <1>3, <1>4, SameVocabulary
       DEF Atomic!Init, Phases, Sessions, Outcomes, Session

LEMMA StepRefines ==
    ASSUME RInv, IInv', [Next]_vars
    PROVE  [Atomic!Next]_Atomic!vars
  <1>1. CASE UNCHANGED vars
    <2>1. ASSUME NEW t \in Threads
          PROVE  /\ AbstractPhase(t)' = AbstractPhase(t) /\ Session(t)' = Session(t)
                 /\ AbstractOutcome(t)' = AbstractOutcome(t)
      BY <1>1 DEF vars, AbstractPhase, InSession, WillNotCompile, Deciding,
         AbstractOutcome, Session, Compiles, Answerable, Decided, Failure, ViewOf
    <2>2. Phases' = Phases /\ Sessions' = Sessions /\ Outcomes' = Outcomes
      BY <2>1 DEF Phases, Sessions, Outcomes, Session
    <2>3. ViewOf(current)' = ViewOf(current) /\ job' = job
      BY <1>1 DEF vars, ViewOf
    <2>. QED BY <2>2, <2>3 DEF Atomic!vars, Phases, Sessions, Outcomes, Session
  <1>2. ASSUME NEW t \in Threads,
               Invoke(t) \/ Step(t) \/ SessionPrepare(t) \/ CloseSession(t)
        PROVE  [Atomic!Next]_Atomic!vars
    <2>1. CASE Invoke(t)
      BY <2>1, InvokeRefines DEF Atomic!Next
    <2>2. CASE SetLabelsLoad(t)
      BY <2>2, SetLabelsLoadRefines
    <2>3. CASE SetLabelsSwap(t)
      BY <2>3, SetLabelsSwapRefines DEF Atomic!Next
    <2>4. CASE ReloadLoad(t)
      BY <2>4, ReloadLoadRefines DEF Atomic!Next
    <2>5. CASE ReloadCompile(t)
      BY <2>5, ReloadCompileRefines
    <2>6. CASE ReloadPublish(t)
      BY <2>6, ReloadPublishRefines DEF Atomic!Next
    <2>7. CASE ReloadRetry(t) \/ ReloadRecompile(t) \/ InstallLoad(t) \/ RcuRetry(t)
      BY <2>7, RetryRefines
    <2>8. CASE SchemaReloadLoad(t)
      BY <2>8, SchemaReloadLoadRefines DEF Atomic!Next
    <2>9. CASE SchemaReloadCompile(t)
      BY <2>9, SchemaReloadCompileRefines
    <2>10. CASE InstallSwap(t)
      BY <2>10, InstallSwapRefines DEF Atomic!Next
    <2>11. CASE EvaluateLoad(t)
      BY <2>11, EvaluateLoadRefines DEF Atomic!Next
    <2>12. CASE EvaluatePrepare(t)
      BY <2>12, EvaluatePrepareRefines
    <2>13. CASE Authorize(t)
      BY <2>13, AuthorizeRefines DEF Atomic!Next
    <2>14. CASE OpenSession(t)
      BY <2>14, OpenSessionRefines DEF Atomic!Next
    <2>15. CASE SessionPrepare(t)
      BY <2>15, SessionPrepareRefines DEF Atomic!Next
    <2>16. CASE CloseSession(t)
      BY <2>16, CloseSessionRefines DEF Atomic!Next
    <2>17. CASE Return(t)
      BY <2>17, ReturnRefines DEF Atomic!Next
    <2>. QED BY <1>2, <2>1, <2>2, <2>3, <2>4, <2>5, <2>6, <2>7, <2>8, <2>9, <2>10, <2>11,
                <2>12, <2>13, <2>14, <2>15, <2>16, <2>17 DEF Step
  <1>. QED BY <1>1, <1>2 DEF Next

LEMMA InitPrepared == Init => Prepared
  BY DEF Init, Prepared

LEMMA NextPrepared ==
    ASSUME RInv, [Next]_vars
    PROVE  Prepared'
  <1> SUFFICES ASSUME NEW u \in Threads, pc'[u] = "authorize"
               PROVE  \E r \in Requests :
                         Answerable(r, held[u].policy.schema, held[u].policy.layout, held[u].registry)'
    BY DEF Prepared
  <1>1. CASE pc[u] = "authorize" /\ held'[u] = held[u]
    BY <1>1 DEF RInv, Prepared, Answerable
  <1>2. CASE \E r \in Requests : PrepareInto(u, r, "session") /\ held' = held
    BY <1>2 DEF PrepareInto, Goto, RInv, IInv, TypeOK, Answerable
  <1>3. CASE EvaluatePrepare(u)
    <2>1. job[u].request \in Requests
      BY <1>3 DEF EvaluatePrepare, RInv, IInv, ThreadInv, Runs, EvaluateJob
    <2>. QED BY <1>3, <2>1 DEF EvaluatePrepare, PrepareInto, Goto, RInv, IInv, TypeOK, Answerable
  <1>4. \/ pc[u] = "authorize" /\ held'[u] = held[u]
        \/ SessionPrepare(u) \/ EvaluatePrepare(u)
    <2>1. CASE UNCHANGED vars
      BY <2>1 DEF vars
    <2>2. ASSUME NEW t \in Threads,
                 Invoke(t) \/ Step(t) \/ SessionPrepare(t) \/ CloseSession(t)
          PROVE  \/ pc[u] = "authorize" /\ held'[u] = held[u]
                 \/ SessionPrepare(u) \/ EvaluatePrepare(u)
      <3>1. CASE SessionPrepare(t) \/ EvaluatePrepare(t)
        BY <3>1 DEF SessionPrepare, EvaluatePrepare, PrepareInto, Goto, RInv, IInv, TypeOK
      <3>2. CASE ~ (SessionPrepare(t) \/ EvaluatePrepare(t))
        BY <2>2, <3>2
           DEF RInv, IInv, TypeOK, Goto, Invoke, Step, Load, SetLabelsLoad, ReloadLoad,
               ReloadCompile, ReloadRetry, ReloadRecompile, SchemaReloadLoad,
               SchemaReloadCompile, CompileInto, InstallLoad, RcuRetry, EvaluateLoad,
               Authorize, OpenSession, CloseSession, Return, Release, SetLabelsSwap,
               ReloadPublish, InstallSwap, Install
      <3>. QED BY <3>1, <3>2
    <2>. QED BY <2>1, <2>2 DEF Next
  <1>. QED BY <1>1, <1>2, <1>3, <1>4 DEF SessionPrepare

\* Every behaviour of the engine is a behaviour of the atomic engine: updates,
\* evaluations and sessions are linearizable, whoever makes them.
THEOREM Linearizable == Spec => ImplementsAtomicEngine
  <1>1. Init => RInv
    BY InitIInv, InitPrepared DEF RInv
  <1>2. RInv /\ [Next]_vars => RInv'
    BY NextIInv, NextPrepared DEF RInv
  <1>3. RInv /\ RInv' /\ [Next]_vars => [Atomic!Next]_Atomic!vars
    BY StepRefines DEF RInv
  <1>. QED BY <1>1, <1>2, <1>3, InitRefines, PTL DEF Spec, ImplementsAtomicEngine, Atomic!Spec
==============================================================================
