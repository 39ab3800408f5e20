---------------------------- MODULE AtomicEngine -----------------------------
(***************************************************************************)
(* What PolicyEngine promises its callers, with no pointer, no retry and   *)
(* no interleaving inside a call: every call takes effect in one step      *)
(* between its invocation and its return (it is linearizable), an update   *)
(* changes only its own part of the engine state, a rejected reload        *)
(* changes nothing, and a session keeps the state it was opened on.        *)
(***************************************************************************)
EXTENDS EngineTypes

VARIABLES
    engine,   \* the published state
    phase,    \* phase[t]: where thread t's call is
    job,      \* job[t]: the call in progress
    session,  \* session[t]: the state t's session is frozen on
    outcome   \* outcome[t]: the answer of t's latest completed operation

vars == <<engine, phase, job, session, outcome>>

Init ==
    /\ engine \in { v \in View : /\ Compiles(v.text, v.schema, v.layout)
                                 /\ v.registry = NoRegistry
                                 /\ v.generation = 1 }
    /\ phase   = [t \in Threads |-> "idle"]
    /\ job     = [t \in Threads |-> NoJob]
    /\ session = [t \in Threads |-> NoView]
    /\ outcome = [t \in Threads |-> NoOutcome]

Invoke(t) ==
    /\ phase[t] = "idle"
    /\ \E j \in Menu[t] : job' = [job EXCEPT ![t] = j]
    /\ phase' = [phase EXCEPT ![t] = "called"]
    /\ UNCHANGED <<engine, session, outcome>>

\* The call of kind k in progress takes effect and is answered by o.
Effect(t, k, o) ==
    /\ phase[t] = "called"
    /\ job[t].kind = k
    /\ phase'   = [phase EXCEPT ![t] = "done"]
    /\ outcome' = [outcome EXCEPT ![t] = o]
    /\ UNCHANGED <<job, session>>

\* Only the registry changes.
SetLabels(t) ==
    /\ Effect(t, "setLabels", Success)
    /\ engine' = [engine EXCEPT !.registry   = job[t].registry,
                                !.generation = NextGeneration(@)]

\* Only the policies change: they are those of the text, under the schema
\* and the layout the engine has at this very moment.
Reload(t) ==
    /\ Effect(t, "reload", Success)
    /\ Compiles(job[t].text, engine.schema, engine.layout)
    /\ engine' = [engine EXCEPT !.text = job[t].text,
                                !.generation = NextGeneration(@)]

ReloadFails(t) ==
    /\ Effect(t, "reload", Failure)
    /\ ~ Compiles(job[t].text, engine.schema, engine.layout)
    /\ UNCHANGED engine

\* Policies and schema change together.
SchemaReload(t) ==
    /\ Effect(t, "schemaReload", Success)
    /\ Compiles(job[t].text, job[t].schema, engine.layout)
    /\ engine' = [engine EXCEPT !.text = job[t].text,
                                !.schema = job[t].schema,
                                !.generation = NextGeneration(@)]

SchemaReloadFails(t) ==
    /\ Effect(t, "schemaReload", Failure)
    /\ ~ Compiles(job[t].text, job[t].schema, engine.layout)
    /\ UNCHANGED engine

\* Everything a decision depends on, and the version it reports, is the
\* engine state of one instant.
Answer(request, v) ==
    IF Answerable(request, v.schema, v.layout, v.registry) THEN Decided(v) ELSE Failure

Evaluate(t) ==
    /\ Effect(t, "evaluate", Answer(job[t].request, engine))
    /\ UNCHANGED engine

OpenSession(t) ==
    /\ phase[t] = "called"
    /\ job[t].kind = "session"
    /\ phase'   = [phase EXCEPT ![t] = "session"]
    /\ session' = [session EXCEPT ![t] = engine]
    /\ UNCHANGED <<engine, job, outcome>>

SessionEvaluate(t) ==
    /\ phase[t] = "session"
    /\ \E r \in Requests : outcome' = [outcome EXCEPT ![t] = Answer(r, session[t])]
    /\ UNCHANGED <<engine, phase, job, session>>

CloseSession(t) ==
    /\ phase[t] = "session"
    /\ phase'   = [phase EXCEPT ![t] = "idle"]
    /\ job'     = [job EXCEPT ![t] = NoJob]
    /\ session' = [session EXCEPT ![t] = NoView]
    /\ UNCHANGED <<engine, outcome>>

Return(t) ==
    /\ phase[t] = "done"
    /\ phase' = [phase EXCEPT ![t] = "idle"]
    /\ job'   = [job EXCEPT ![t] = NoJob]
    /\ UNCHANGED <<engine, session, outcome>>

Next ==
    \E t \in Threads :
        \/ Invoke(t)
        \/ SetLabels(t)
        \/ Reload(t) \/ ReloadFails(t)
        \/ SchemaReload(t) \/ SchemaReloadFails(t)
        \/ Evaluate(t)
        \/ OpenSession(t) \/ SessionEvaluate(t) \/ CloseSession(t)
        \/ Return(t)

Spec == Init /\ [][Next]_vars
==============================================================================
