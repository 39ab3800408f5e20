----------------------------- MODULE MetricsSink -----------------------------
(***************************************************************************)
(* metrics.rs and its call sites in engine.rs: one sink for the process,   *)
(* replaced at any time by any thread (a callback included), while         *)
(* evaluations and reloads of any engine report to it. An evaluation       *)
(* captures the sink when it prepares its request, asks it whether it      *)
(* wants metrics, and reports to it when the decision is made; a reload    *)
(* captures the sink when it has published. Sinks are code of the          *)
(* application: they answer as they like and may panic.                    *)
(***************************************************************************)
EXTENDS Naturals, Sequences

CONSTANTS
    Threads,
    Sinks,      \* the application's sinks
    NoOp,       \* the default sink
    Adapters,   \* sinks that keep the default on_evaluation_observation
    MaxSinks    \* bound on installations, the default one included

ASSUME SinkConstants ==
    /\ NoOp \notin Sinks
    /\ Adapters \subseteq Sinks
    /\ MaxSinks \in Nat \ {0}

VARIABLES
    installed,  \* SINK's contents so far; the last one is current
    call        \* call[t]: the call thread t is in

vars == <<installed, call>>

\* A captured sink is known by its installation: every set_sink makes a new Arc.
Current == Len(installed)

Callbacks == { "on_evaluation_observation", "on_evaluation",
               "on_evaluation_phases", "on_reload" }
Outcomes  == { "allow", "deny", "reloaded", "error" }
Places    == { "idle", "route", "capture", "ask", "prepare", "authorize", "report",
               "phases", "compile", "load_sink", "on_reload", "return" }
Event     == [ callback : Callbacks, to : Nat \ {0}, says : Outcomes ]

Idle ==
    [ op |-> "none", pc |-> "idle",
      since |-> 0,           \* what was current when the call (a reload: its publication) began
      guard |-> 0,           \* the captured installation
      wants |-> 0,           \* the installation whose enabled() said yes, if any
      outcome |-> "none",    \* what the call is going to return
      told |-> <<>> ]        \* the callbacks made, in order

Init ==
    /\ installed = <<NoOp>>
    /\ call = [t \in Threads |-> Idle]

----------------------------------------------------------------------------
At(t, pc)     == call[t].pc = pc
Become(t, c)  == call' = [call EXCEPT ![t] = c] /\ UNCHANGED installed
GoTo(t, pc)   == Become(t, [call[t] EXCEPT !.pc = pc])
Settle(t, outcome, pc) == Become(t, [call[t] EXCEPT !.outcome = outcome, !.pc = pc])
Sink(t)       == installed[call[t].guard]

SetSink(s) ==
    /\ Len(installed) < MaxSinks
    /\ installed' = Append(installed, s)
    /\ UNCHANGED call

Return(t) == At(t, "return") /\ Become(t, Idle)

----------------------------------------------------------------------------
(***************************************************************************)
(* Sinks. The engine survives a panic: enabled() counts as no, a callback  *)
(* as made, and what the callback would have called next is not called.    *)
(***************************************************************************)

Answers(s) == IF s = NoOp THEN {"no"} ELSE {"yes", "no", "panic"}
Panics(s)  == IF s = NoOp THEN {FALSE} ELSE BOOLEAN

Made(c, callback) ==
    [c EXCEPT !.told = Append(@, [callback |-> callback, to |-> c.guard,
                                  says |-> c.outcome])]

\* Mutant: a panic in a callback becomes the result of the call.
UnwindEscapes(c) == [c EXCEPT !.pc = "return", !.outcome = "error"]

Unwind(c) == [c EXCEPT !.pc = "return"]

----------------------------------------------------------------------------
(***************************************************************************)
(* evaluate and its variants, of the engine and of sessions.               *)
(***************************************************************************)

Evaluate(t) ==
    /\ At(t, "idle")
    /\ Become(t, [Idle EXCEPT !.op = "evaluate", !.pc = "route", !.since = Current])

Route(t)      == At(t, "route") /\ GoTo(t, "capture")
RouteFails(t) == At(t, "route") /\ Settle(t, "error", "return")

CaptureSink(t) ==
    /\ At(t, "capture")
    /\ Become(t, [call[t] EXCEPT !.guard = Current, !.pc = "ask"])

AskEnabled(t) ==
    /\ At(t, "ask")
    /\ \E answer \in Answers(Sink(t)) :
          Become(t, [call[t] EXCEPT !.wants = IF answer = "yes" THEN call[t].guard ELSE 0,
                                    !.pc = "prepare"])

Prepare(t)      == At(t, "prepare") /\ GoTo(t, "authorize")
PrepareFails(t) == At(t, "prepare") /\ Settle(t, "error", "return")

\* Mutant: the sink is told before the conversion of the response can fail.
AuthorizeReportsFirst(t) ==
    /\ At(t, "authorize")
    /\ \E outcome \in {"allow", "deny", "error"} :
          Settle(t, outcome, IF call[t].wants # 0 THEN "report" ELSE "return")

\* An Allow without permit metadata is an error and is not reported.
Authorize(t) ==
    /\ At(t, "authorize")
    /\ \E outcome \in {"allow", "deny", "error"} :
          Settle(t, outcome,
                 IF call[t].wants # 0 /\ outcome # "error" THEN "report" ELSE "return")

\* Mutant: the report goes to the sink that is current by then.
ReportToCurrent(t) ==
    /\ At(t, "report")
    /\ Become(t, [call[t] EXCEPT
                    !.told = <<[callback |-> "on_evaluation_observation",
                                to |-> Current, says |-> call[t].outcome]>>,
                    !.pc = "return"])

\* Mutant: wait for a sink that may have been replaced.
ReportIfCurrent(t) ==
    /\ At(t, "report")
    /\ IF call[t].guard = Current
       THEN Become(t, [Made(call[t], "on_evaluation_observation") EXCEPT !.pc = "return"])
       ELSE UNCHANGED vars

Report(t) ==
    /\ At(t, "report")
    /\ \E panics \in Panics(Sink(t)) :
          IF Sink(t) \in Adapters
          THEN LET c == Made(call[t], "on_evaluation")
               IN  Become(t, IF panics THEN Unwind(c) ELSE [c EXCEPT !.pc = "phases"])
          ELSE LET c == Made(call[t], "on_evaluation_observation")
               IN  Become(t, IF panics THEN Unwind(c) ELSE [c EXCEPT !.pc = "return"])

ReportPhases(t) ==
    /\ At(t, "phases")
    /\ LET c == Made(call[t], "on_evaluation_phases")
       IN  \E panics \in Panics(Sink(t)) :
              Become(t, IF panics THEN Unwind(c) ELSE [c EXCEPT !.pc = "return"])

----------------------------------------------------------------------------
(***************************************************************************)
(* reload_from_str and reload_from_str_with_schema.                        *)
(***************************************************************************)

Reload(t) ==
    /\ At(t, "idle")
    /\ Become(t, [Idle EXCEPT !.op = "reload", !.pc = "compile"])

CompileFails(t) == At(t, "compile") /\ Settle(t, "error", "return")

\* The new policies are current from here on.
Publish(t) ==
    /\ At(t, "compile")
    /\ Become(t, [call[t] EXCEPT !.outcome = "reloaded", !.since = Current,
                                 !.pc = "load_sink"])

\* Mutant: the sink found at the first use of the process is kept.
LoadFirst(t) ==
    /\ At(t, "load_sink")
    /\ Become(t, [call[t] EXCEPT !.guard = 1, !.pc = "on_reload"])

LoadSink(t) ==
    /\ At(t, "load_sink")
    /\ Become(t, [call[t] EXCEPT !.guard = Current, !.pc = "on_reload"])

\* Mutant: only a sink that wants evaluations hears of reloads.
OnReloadIfEnabled(t) ==
    /\ At(t, "on_reload")
    /\ \E answer \in Answers(Sink(t)) :
          IF answer = "yes"
          THEN Become(t, [Made(call[t], "on_reload") EXCEPT !.pc = "return"])
          ELSE GoTo(t, "return")

\* Whether the sink is enabled does not matter here.
OnReload(t) ==
    /\ At(t, "on_reload")
    /\ LET c == Made(call[t], "on_reload")
       IN  \E panics \in Panics(Sink(t)) :
              Become(t, IF panics THEN Unwind(c) ELSE [c EXCEPT !.pc = "return"])

----------------------------------------------------------------------------
\* What a call does once it has begun; all of it is the work of its thread.
Proceed(t) ==
    \/ Route(t) \/ RouteFails(t) \/ CaptureSink(t) \/ AskEnabled(t)
    \/ Prepare(t) \/ PrepareFails(t) \/ Authorize(t) \/ Report(t) \/ ReportPhases(t)
    \/ CompileFails(t) \/ Publish(t) \/ LoadSink(t) \/ OnReload(t)
    \/ Return(t)

Next ==
    \/ \E s \in Sinks : SetSink(s)
    \/ \E t \in Threads : Evaluate(t) \/ Reload(t) \/ Proceed(t)

Spec     == Init /\ [][Next]_vars
FairSpec == Spec /\ \A t \in Threads : WF_vars(Proceed(t))

----------------------------------------------------------------------------
(***************************************************************************)
(* Properties.                                                             *)
(***************************************************************************)

Calls ==
    [ op : {"none", "evaluate", "reload"}, pc : Places, since : Nat, guard : Nat,
      wants : Nat, outcome : Outcomes \cup {"none"}, told : Seq(Event) ]

TypeOK ==
    /\ installed \in Seq(Sinks \cup {NoOp}) /\ installed # <<>>
    /\ call \in [Threads -> Calls]

Told(t) == call[t].told

(***************************************************************************)
(* One evaluation, one sink: all its callbacks go to the installation that *)
(* was asked whether it wants metrics and said yes, whatever set_sink does *)
(* in between (PreparedRequest::sink, record_evaluation_observation).      *)
(***************************************************************************)
ReportsToAskedSink ==
    \A t \in Threads, i \in 1..2 :
        call[t].op = "evaluate" /\ i \in DOMAIN Told(t) =>
            Told(t)[i].to = call[t].wants /\ installed[call[t].wants] # NoOp

(***************************************************************************)
(* "All new evaluations will use the test sink" (set_sink): what begins    *)
(* after a set_sink, an evaluation or the publication of a reload, never   *)
(* reports to a sink replaced before.                                      *)
(***************************************************************************)
NoStaleSink ==
    \A t \in Threads, i \in 1..2 :
        i \in DOMAIN Told(t) => call[t].since <= Told(t)[i].to /\ Told(t)[i].to <= Current

(***************************************************************************)
(* "Called once after each evaluation", "after a successful call": when a  *)
(* call returns, a failed one has reported nothing, a reload once, an      *)
(* evaluation once if its sink wanted it (in two callbacks for the default *)
(* adapter unless the first panicked), and the sinks heard the very result *)
(* that is returned.                                                       *)
(***************************************************************************)
Reports(t) ==
    LET said(cb) == [callback |-> cb, to |-> call[t].guard, says |-> call[t].outcome]
    IN  IF call[t].outcome = "error" \/ (call[t].op = "evaluate" /\ call[t].wants = 0)
        THEN { <<>> }
        ELSE IF call[t].op = "reload"
        THEN { <<said("on_reload")>> }
        ELSE IF Sink(t) \in Adapters
        THEN { <<said("on_evaluation")>>,
               <<said("on_evaluation"), said("on_evaluation_phases")>> }
        ELSE { <<said("on_evaluation_observation")>> }

OneTrueReport == \A t \in Threads : At(t, "return") => Told(t) \in Reports(t)

(***************************************************************************)
(* "Panics raised by a sink ... do not alter authorization or reload       *)
(* results" (MetricsSink): once the engine has settled the result of a     *)
(* call, that is what the call returns.                                    *)
(***************************************************************************)
ResultStands ==
    [][ \A t \in Threads :
          call[t].outcome # "none" =>
              \/ call'[t].outcome = call[t].outcome
              \/ At(t, "return") /\ call'[t] = Idle ]_vars

(***************************************************************************)
(* Every call returns, however often sinks are replaced or panic: no call  *)
(* waits for a sink or for another call.                                   *)
(***************************************************************************)
CallsReturn == \A t \in Threads : ~At(t, "idle") ~> At(t, "idle")
==============================================================================
