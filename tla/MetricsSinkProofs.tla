-------------------------- MODULE MetricsSinkProofs --------------------------
(***************************************************************************)
(* What holds of any number of threads and sinks, however often the sink   *)
(* is replaced. The invariant says of one call, place by place, what it    *)
(* has captured, what it has told, and to whom; calls share nothing but    *)
(* the cell, so it is kept call by call.                                   *)
(***************************************************************************)
EXTENDS MetricsSink, SequenceTheorems, TLAPS

----------------------------------------------------------------------------
Said(c, callback) == [callback |-> callback, to |-> c.guard, says |-> c.outcome]

\* The call has captured an installation no older than itself.
Captured(c) == c.guard # 0 /\ c.since <= c.guard

Reported(c) ==
    /\ Captured(c)
    /\ \/ /\ c.op = "reload" /\ c.outcome = "reloaded"
          /\ c.told = <<Said(c, "on_reload")>>
       \/ /\ c.op = "evaluate" /\ c.outcome \in {"allow", "deny"} /\ c.wants # 0
          /\ installed[c.guard] \in Adapters
          /\ \/ c.told = <<Said(c, "on_evaluation")>>
             \/ c.told = <<Said(c, "on_evaluation"), Said(c, "on_evaluation_phases")>>
       \/ /\ c.op = "evaluate" /\ c.outcome \in {"allow", "deny"} /\ c.wants # 0
          /\ installed[c.guard] \notin Adapters
          /\ c.told = <<Said(c, "on_evaluation_observation")>>

Unreported(c) ==
    /\ c.told = <<>>
    /\ \/ c.op \in {"evaluate", "reload"} /\ c.outcome = "error"
       \/ c.op = "evaluate" /\ c.outcome \in {"allow", "deny"} /\ c.wants = 0

CallInv(c) ==
    /\ c.guard <= Current /\ c.since <= Current
    /\ c.wants # 0 => c.wants = c.guard /\ installed[c.guard] # NoOp
    /\ c.pc \in {"route", "capture", "compile", "load_sink"} => c.wants = 0
    /\ c.pc = "idle" => c = Idle
    /\ c.pc \in {"route", "capture", "ask", "prepare", "authorize", "report", "phases"} =>
          c.op = "evaluate"
    /\ c.pc \in {"compile", "load_sink", "on_reload"} => c.op = "reload"
    /\ c.pc \in {"ask", "prepare", "authorize", "report", "phases", "on_reload"} =>
          Captured(c)
    /\ c.pc \in {"report", "phases"} => c.wants # 0 /\ c.outcome \in {"allow", "deny"}
    /\ c.pc \in {"load_sink", "on_reload"} => c.outcome = "reloaded"
    /\ c.pc \in {"route", "capture", "ask", "prepare", "authorize", "compile"} =>
          c.outcome = "none"
    /\ c.pc \notin {"phases", "return"} => c.told = <<>>
    /\ c.pc = "phases" =>
          installed[c.guard] \in Adapters /\ c.told = <<Said(c, "on_evaluation")>>
    /\ c.pc = "return" => Reported(c) \/ Unreported(c)

Inv == TypeOK /\ \A t \in Threads : CallInv(call[t])

----------------------------------------------------------------------------
LEMMA CurrentType ==
    ASSUME TypeOK
    PROVE  Current \in Nat \ {0} /\ DOMAIN installed = 1..Current
BY EmptySeq, LenProperties DEF TypeOK, Current

LEMMA IdleInv == ASSUME TypeOK PROVE Idle \in Calls /\ CallInv(Idle)
<1>1. <<>> \in Seq(Event)
  BY EmptySeq
<1> QED BY <1>1, CurrentType DEF Idle, Calls, Places, CallInv

LEMMA InitInv == ASSUME Init PROVE Inv
<1>1. TypeOK
  <2>1. <<>> \in Seq(Event)
    BY EmptySeq
  <2> QED BY <2>1 DEF Init, TypeOK, Idle, Calls, Places
<1> QED BY <1>1, IdleInv DEF Init, Inv

\* A step of one call disturbs no other.
LEMMA OneCall ==
    ASSUME Inv, NEW t \in Threads, NEW STATE c, Become(t, c), c \in Calls, CallInv(c)
    PROVE  Inv'
<1>1. installed' = installed /\ call' = [call EXCEPT ![t] = c]
  BY DEF Become
<1>2. TypeOK'
  BY <1>1 DEF Inv, TypeOK
<1>3. ASSUME NEW u \in Threads PROVE CallInv(call[u])'
  <2>1. call'[u] = IF u = t THEN c ELSE call[u]
    BY <1>1 DEF Inv, TypeOK
  <2>2. CallInv(call'[u])
    BY <2>1 DEF Inv
  <2> QED BY <1>1, <2>2 DEF CallInv, Current, Captured, Reported, Unreported, Said
<1> QED BY <1>2, <1>3 DEF Inv

\* A new sink disturbs no call: what they have captured is still there.
LEMMA SetSinkInv ==
    ASSUME Inv, NEW s \in Sinks, SetSink(s)
    PROVE  Inv'
<1>1. call' = call /\ installed' = Append(installed, s)
  BY DEF SetSink
<1>2. /\ installed' \in Seq(Sinks \cup {NoOp}) /\ installed' # <<>>
      /\ Current' = Current + 1
      /\ \A i \in 1..Current : installed'[i] = installed[i]
  BY <1>1, AppendProperties, EmptySeq DEF Inv, TypeOK, Current
<1>3. TypeOK'
  BY <1>1, <1>2 DEF Inv, TypeOK
<1>4. ASSUME NEW t \in Threads PROVE CallInv(call[t])'
  <2> DEFINE c == call[t]
  <2>1. c \in Calls /\ CallInv(c) /\ c' = c
    BY <1>1 DEF Inv, TypeOK
  <2>2. c.guard \in Nat /\ c.since \in Nat /\ c.guard <= Current /\ c.since <= Current
        /\ Current \in Nat
    BY <2>1, CurrentType DEF Inv, Calls, CallInv
  <2>3. c.guard # 0 => installed'[c.guard] = installed[c.guard]
    BY <1>2, <2>2
  <2>4. c.guard <= Current' /\ c.since <= Current'
    BY <1>2, <2>2
  <2> HIDE DEF c
  <2>5. CallInv(c)'
    BY <2>1, <2>3, <2>4 DEF CallInv, Captured, Reported, Unreported, Said
  <2> QED BY <2>5 DEF c
<1> QED BY <1>3, <1>4 DEF Inv

----------------------------------------------------------------------------
LEMMA CallType ==
    ASSUME Inv, NEW t \in Threads
    PROVE  call[t] \in Calls /\ CallInv(call[t]) /\ Current \in Nat \ {0}
BY CurrentType DEF Inv, TypeOK

LEMMA BeginInv ==
    ASSUME Inv, NEW t \in Threads, Evaluate(t) \/ Reload(t) \/ Return(t)
    PROVE  Inv'
<1>1. TypeOK /\ Current \in Nat /\ <<>> \in Seq(Event)
  BY CallType, EmptySeq DEF Inv
<1>2. CASE Return(t)
  BY <1>1, <1>2, IdleInv, OneCall DEF Return
<1>3. CASE Evaluate(t)
  <2> DEFINE c == [Idle EXCEPT !.op = "evaluate", !.pc = "route", !.since = Current]
  <2>1. /\ c.op = "evaluate" /\ c.pc = "route" /\ c.since = Current /\ c.guard = 0
        /\ c.wants = 0 /\ c.outcome = "none" /\ c.told = <<>>
    BY DEF Idle
  <2>2. c \in Calls
    BY <1>1, IdleInv DEF Calls, Places
  <2> HIDE DEF c
  <2>3. CallInv(c)
    BY <1>1, <2>1 DEF CallInv
  <2> QED BY <1>3, <2>2, <2>3, OneCall DEF c, Evaluate
<1>4. CASE Reload(t)
  <2> DEFINE c == [Idle EXCEPT !.op = "reload", !.pc = "compile"]
  <2>1. /\ c.op = "reload" /\ c.pc = "compile" /\ c.since = 0 /\ c.guard = 0
        /\ c.wants = 0 /\ c.outcome = "none" /\ c.told = <<>>
    BY DEF Idle
  <2>2. c \in Calls
    BY <1>1, IdleInv DEF Calls, Places
  <2> HIDE DEF c
  <2>3. CallInv(c)
    BY <1>1, <2>1 DEF CallInv
  <2> QED BY <1>4, <2>2, <2>3, OneCall DEF c, Reload
<1> QED BY <1>2, <1>3, <1>4

LEMMA GoOnInv ==
    ASSUME Inv, NEW t \in Threads, Route(t) \/ Prepare(t)
    PROVE  Inv'
<1>1. PICK pc \in {"capture", "authorize"} :
         /\ Become(t, [call[t] EXCEPT !.pc = pc])
         /\ call[t].pc = IF pc = "capture" THEN "route" ELSE "prepare"
  BY DEF Route, Prepare, GoTo, At
<1> DEFINE c == [call[t] EXCEPT !.pc = pc]
<1>2. c \in Calls /\ CallInv(c)
  BY <1>1, CallType DEF Calls, Places, CallInv, Captured
<1> QED BY <1>1, <1>2, OneCall

LEMMA FailInv ==
    ASSUME Inv, NEW t \in Threads, RouteFails(t) \/ PrepareFails(t) \/ CompileFails(t)
    PROVE  Inv'
<1>1. /\ Become(t, [call[t] EXCEPT !.outcome = "error", !.pc = "return"])
      /\ call[t].pc \in {"route", "prepare", "compile"}
  BY DEF RouteFails, PrepareFails, CompileFails, Settle, At
<1> DEFINE c == [call[t] EXCEPT !.outcome = "error", !.pc = "return"]
<1>2. c \in Calls /\ CallInv(c)
  BY <1>1, CallType DEF Calls, Places, Outcomes, CallInv, Unreported
<1> QED BY <1>1, <1>2, OneCall

LEMMA CaptureInv ==
    ASSUME Inv, NEW t \in Threads, CaptureSink(t) \/ LoadSink(t)
    PROVE  Inv'
<1>1. PICK pc \in {"ask", "on_reload"} :
         /\ Become(t, [call[t] EXCEPT !.guard = Current, !.pc = pc])
         /\ call[t].pc = IF pc = "ask" THEN "capture" ELSE "load_sink"
  BY DEF CaptureSink, LoadSink, At
<1> DEFINE c == [call[t] EXCEPT !.guard = Current, !.pc = pc]
<1>2. /\ c.pc = pc /\ c.guard = Current /\ c.op = call[t].op /\ c.since = call[t].since
      /\ c.wants = call[t].wants /\ c.outcome = call[t].outcome /\ c.told = call[t].told
      /\ c \in Calls
  BY <1>1, CallType DEF Calls, Places
<1> HIDE DEF c
<1>3. CallInv(c)
  BY <1>1, <1>2, CallType DEF CallInv, Captured
<1> QED BY <1>1, <1>2, <1>3, OneCall DEF c

LEMMA AskInv ==
    ASSUME Inv, NEW t \in Threads, AskEnabled(t)
    PROVE  Inv'
<1>1. PICK answer \in Answers(Sink(t)) :
         /\ call[t].pc = "ask"
         /\ Become(t, [call[t] EXCEPT !.wants = IF answer = "yes" THEN call[t].guard ELSE 0,
                                      !.pc = "prepare"])
  BY DEF AskEnabled, At
<1> DEFINE c == [call[t] EXCEPT !.wants = IF answer = "yes" THEN call[t].guard ELSE 0,
                                !.pc = "prepare"]
<1>2. answer = "yes" => installed[call[t].guard] # NoOp
  BY <1>1 DEF Answers, Sink
<1>3. c \in Calls /\ CallInv(c)
  BY <1>1, <1>2, CallType DEF Calls, Places, CallInv, Captured
<1> QED BY <1>1, <1>3, OneCall

LEMMA AuthorizeInv ==
    ASSUME Inv, NEW t \in Threads, Authorize(t)
    PROVE  Inv'
<1>1. PICK outcome \in {"allow", "deny", "error"} :
         /\ call[t].pc = "authorize"
         /\ Become(t, [call[t] EXCEPT !.outcome = outcome,
                         !.pc = IF call[t].wants # 0 /\ outcome # "error"
                                THEN "report" ELSE "return"])
  BY DEF Authorize, Settle, At
<1> DEFINE pc == IF call[t].wants # 0 /\ outcome # "error" THEN "report" ELSE "return"
           c  == [call[t] EXCEPT !.outcome = outcome, !.pc = pc]
<1>2. /\ c.pc = pc /\ c.guard = call[t].guard /\ c.op = call[t].op
      /\ c.since = call[t].since /\ c.wants = call[t].wants
      /\ c.outcome = outcome /\ c.told = call[t].told /\ c \in Calls
  BY <1>1, CallType DEF Calls, Places, Outcomes
<1> HIDE DEF c
<1>3. CallInv(c)
  BY <1>1, <1>2, CallType DEF CallInv, Captured, Unreported
<1> QED BY <1>1, <1>2, <1>3, OneCall DEF c

LEMMA PublishInv ==
    ASSUME Inv, NEW t \in Threads, Publish(t)
    PROVE  Inv'
<1> DEFINE c == [call[t] EXCEPT !.outcome = "reloaded", !.since = Current, !.pc = "load_sink"]
<1>1. call[t].pc = "compile" /\ Become(t, c)
  BY DEF Publish, At
<1>2. /\ c.pc = "load_sink" /\ c.guard = call[t].guard /\ c.op = call[t].op
      /\ c.since = Current /\ c.wants = call[t].wants
      /\ c.outcome = "reloaded" /\ c.told = call[t].told /\ c \in Calls
  BY <1>1, CallType DEF Calls, Places, Outcomes
<1> HIDE DEF c
<1>3. CallInv(c)
  BY <1>1, <1>2, CallType DEF CallInv, Captured
<1> QED BY <1>1, <1>2, <1>3, OneCall DEF c

\* What a callback adds to the call.
LEMMA MadeFields ==
    ASSUME NEW c \in Calls, NEW callback \in Callbacks,
           c.guard # 0, c.outcome \in Outcomes
    PROVE  /\ Made(c, callback) \in Calls
           /\ Made(c, callback).guard = c.guard /\ Made(c, callback).op = c.op
           /\ Made(c, callback).since = c.since /\ Made(c, callback).wants = c.wants
           /\ Made(c, callback).outcome = c.outcome
           /\ Made(c, callback).told = Append(c.told, Said(c, callback))
<1>1. Said(c, callback) \in Event
  BY DEF Said, Event, Calls
<1>2. Append(c.told, Said(c, callback)) \in Seq(Event)
  BY <1>1, AppendProperties DEF Calls
<1> QED BY <1>2 DEF Made, Said, Calls

LEMMA OnReloadInv ==
    ASSUME Inv, NEW t \in Threads, OnReload(t)
    PROVE  Inv'
<1> DEFINE c == [Made(call[t], "on_reload") EXCEPT !.pc = "return"]
<1>1. call[t].pc = "on_reload" /\ Become(t, c)
  BY DEF OnReload, Unwind, At
<1>2. /\ call[t].op = "reload" /\ call[t].guard # 0 /\ call[t].outcome = "reloaded"
      /\ call[t].told = <<>> /\ Captured(call[t])
  BY <1>1, CallType DEF CallInv, Captured
<1>3. "on_reload" \in Callbacks /\ "return" \in Places /\ "reloaded" \in Outcomes
  BY DEF Callbacks, Places, Outcomes
<1> DEFINE m == Made(call[t], "on_reload")
<1>4. /\ m \in Calls /\ m.guard = call[t].guard /\ m.op = call[t].op
      /\ m.since = call[t].since /\ m.wants = call[t].wants
      /\ m.outcome = call[t].outcome /\ m.told = Append(call[t].told, Said(call[t], "on_reload"))
  <2>1. call[t] \in Calls
    BY CallType
  <2> QED BY <1>2, <1>3, <2>1, MadeFields
<1>5. /\ c.pc = "return" /\ c.guard = m.guard /\ c.op = m.op /\ c.since = m.since
      /\ c.wants = m.wants /\ c.outcome = m.outcome /\ c.told = m.told /\ c \in Calls
      /\ \A cb : Said(c, cb) = Said(call[t], cb)
  BY <1>3, <1>4 DEF Calls, Said
<1> HIDE DEF c
<1>6. c.told = <<Said(c, "on_reload")>>
  BY <1>2, <1>4, <1>5
<1>7. CallInv(c)
  BY <1>1, <1>2, <1>4, <1>5, <1>6, CallType DEF CallInv, Captured, Reported
<1> QED BY <1>1, <1>4, <1>5, <1>7, OneCall DEF c

LEMMA ReportInv ==
    ASSUME Inv, NEW t \in Threads, Report(t)
    PROVE  Inv'
<1> DEFINE callback == IF Sink(t) \in Adapters THEN "on_evaluation"
                       ELSE "on_evaluation_observation"
<1>1. PICK pc \in {"phases", "return"} :
         /\ call[t].pc = "report" /\ (pc = "phases" => Sink(t) \in Adapters)
         /\ Become(t, [Made(call[t], callback) EXCEPT !.pc = pc])
  BY DEF Report, Unwind, At
<1> DEFINE c == [Made(call[t], callback) EXCEPT !.pc = pc]
<1>2. /\ call[t].op = "evaluate" /\ call[t].guard # 0 /\ call[t].wants # 0
      /\ call[t].outcome \in {"allow", "deny"}
      /\ call[t].told = <<>> /\ Captured(call[t])
  BY <1>1, CallType DEF CallInv, Captured
<1>3. callback \in Callbacks /\ pc \in Places /\ call[t].outcome \in Outcomes
  BY <1>2 DEF Callbacks, Places, Outcomes
<1> DEFINE m == Made(call[t], callback)
<1>4. /\ m \in Calls /\ m.guard = call[t].guard /\ m.op = call[t].op
      /\ m.since = call[t].since /\ m.wants = call[t].wants
      /\ m.outcome = call[t].outcome /\ m.told = Append(call[t].told, Said(call[t], callback))
  <2>1. call[t] \in Calls
    BY CallType
  <2> QED BY <1>2, <1>3, <2>1, MadeFields
<1>5. /\ c.pc = pc /\ c.guard = m.guard /\ c.op = m.op /\ c.since = m.since
      /\ c.wants = m.wants /\ c.outcome = m.outcome /\ c.told = m.told /\ c \in Calls
      /\ \A cb : Said(c, cb) = Said(call[t], cb)
  BY <1>3, <1>4 DEF Calls, Said
<1> HIDE DEF c
<1>6. c.told = <<Said(c, callback)>>
  BY <1>2, <1>4, <1>5
<1>7. /\ Sink(t) \in Adapters => c.told = <<Said(c, "on_evaluation")>>
      /\ Sink(t) \notin Adapters => c.told = <<Said(c, "on_evaluation_observation")>>
      /\ installed[c.guard] = Sink(t)
  BY <1>4, <1>5, <1>6 DEF Sink
<1>8. CallInv(c)
  BY <1>1, <1>2, <1>4, <1>5, <1>7, CallType DEF CallInv, Captured, Reported
<1> QED BY <1>1, <1>5, <1>8, OneCall DEF c

LEMMA ReportPhasesInv ==
    ASSUME Inv, NEW t \in Threads, ReportPhases(t)
    PROVE  Inv'
<1> DEFINE c == [Made(call[t], "on_evaluation_phases") EXCEPT !.pc = "return"]
<1>1. call[t].pc = "phases" /\ Become(t, c)
  BY DEF ReportPhases, Unwind, At
<1>2. /\ call[t].op = "evaluate" /\ call[t].guard # 0 /\ call[t].wants # 0
      /\ call[t].outcome \in {"allow", "deny"} /\ Captured(call[t])
      /\ installed[call[t].guard] \in Adapters
      /\ call[t].told = <<Said(call[t], "on_evaluation")>>
  BY <1>1, CallType DEF CallInv, Captured
<1>3. /\ "on_evaluation_phases" \in Callbacks /\ "return" \in Places
      /\ call[t].outcome \in Outcomes
  BY <1>2 DEF Callbacks, Places, Outcomes
<1> DEFINE m == Made(call[t], "on_evaluation_phases")
<1>4. /\ m \in Calls /\ m.guard = call[t].guard /\ m.op = call[t].op
      /\ m.since = call[t].since /\ m.wants = call[t].wants
      /\ m.outcome = call[t].outcome /\ m.told = Append(call[t].told, Said(call[t], "on_evaluation_phases"))
  <2>1. call[t] \in Calls
    BY CallType
  <2> QED BY <1>2, <1>3, <2>1, MadeFields
<1>5. /\ c.pc = "return" /\ c.guard = m.guard /\ c.op = m.op /\ c.since = m.since
      /\ c.wants = m.wants /\ c.outcome = m.outcome /\ c.told = m.told /\ c \in Calls
      /\ \A cb : Said(c, cb) = Said(call[t], cb)
  BY <1>3, <1>4 DEF Calls, Said
<1> HIDE DEF c
<1>6. c.told = <<Said(c, "on_evaluation"), Said(c, "on_evaluation_phases")>>
  BY <1>2, <1>4, <1>5
<1>7. CallInv(c)
  BY <1>1, <1>2, <1>4, <1>5, <1>6, CallType DEF CallInv, Captured, Reported
<1> QED BY <1>1, <1>5, <1>7, OneCall DEF c

----------------------------------------------------------------------------
LEMMA NextInv == ASSUME Inv, Next PROVE Inv'
BY SetSinkInv, BeginInv, GoOnInv, FailInv, CaptureInv, AskInv, AuthorizeInv, PublishInv,
   OnReloadInv, ReportInv, ReportPhasesInv DEF Next, Proceed

\* Inv is an inductive invariant of the specification.
THEOREM Invariance == Spec => []Inv
<1>1. Init => Inv
  BY InitInv
<1>2. ASSUME Inv, UNCHANGED vars PROVE Inv'
  BY <1>2 DEF vars, Inv, TypeOK, CallInv, Current, Captured, Reported, Unreported, Said
<1>3. Inv /\ [Next]_vars => Inv'
  BY <1>2, NextInv
<1> QED BY <1>1, <1>3, PTL DEF Spec

----------------------------------------------------------------------------
(***************************************************************************)
(* The theorems.                                                           *)
(***************************************************************************)

\* Type correctness, of the callbacks made too.
THEOREM TypeCorrect == Spec => []TypeOK
<1>1. Inv => TypeOK
  BY DEF Inv
<1> QED BY <1>1, Invariance, PTL

\* What a call has told at any place: nothing, or one or two callbacks to the
\* installation it captured.
LEMMA WhatIsTold ==
    ASSUME Inv, NEW t \in Threads, NEW i \in 1..2, i \in DOMAIN Told(t)
    PROVE  /\ Told(t)[i].to = call[t].guard /\ Captured(call[t])
           /\ call[t].op = "evaluate" => call[t].wants # 0
<1>1. Told(t) # <<>>
  OBVIOUS
<1>2. call[t].pc = "phases" \/ (call[t].pc = "return" /\ Reported(call[t]))
  BY <1>1, CallType DEF CallInv, Unreported, Told
<1>3. CASE call[t].pc = "phases"
  <2>1. /\ Captured(call[t]) /\ call[t].wants # 0
        /\ Told(t) = <<Said(call[t], "on_evaluation")>>
    BY <1>3, CallType DEF CallInv, Told
  <2>2. i = 1
    BY <2>1
  <2> QED BY <2>1, <2>2 DEF Said
<1>4. CASE Reported(call[t])
  <2>1. Captured(call[t]) /\ (call[t].op = "evaluate" => call[t].wants # 0)
    BY <1>4 DEF Reported
  <2>2. \E x, y : /\ x.to = call[t].guard /\ y.to = call[t].guard
                  /\ Told(t) = <<x>> \/ Told(t) = <<x, y>>
    <3> DEFINE x == Told(t)[1]
               y == IF 2 \in DOMAIN Told(t) THEN Told(t)[2] ELSE Told(t)[1]
    <3>1. x.to = call[t].guard /\ y.to = call[t].guard
          /\ (Told(t) = <<x>> \/ Told(t) = <<x, y>>)
      BY <1>4 DEF Reported, Said, Told
    <3> QED BY <3>1
  <2>3. i = 1 \/ i = 2
    OBVIOUS
  <2> QED BY <2>1, <2>2, <2>3
<1> QED BY <1>2, <1>3, <1>4

\* The callbacks of an evaluation go to the installation that was asked and
\* wanted them, whatever set_sink does meanwhile.
THEOREM AskedSinkHears == Spec => []ReportsToAskedSink
<1>1. Inv => ReportsToAskedSink
  BY WhatIsTold, CallType DEF ReportsToAskedSink, CallInv
<1> QED BY <1>1, Invariance, PTL

\* What begins after a set_sink reports to no sink replaced before.
THEOREM RetiredSinksRest == Spec => []NoStaleSink
<1>1. Inv => NoStaleSink
  BY WhatIsTold, CallType DEF NoStaleSink, CallInv, Captured
<1> QED BY <1>1, Invariance, PTL

\* A call that returns has reported its very result, once, or has nothing to
\* report.
THEOREM TrueReportOnce == Spec => []OneTrueReport
<1>1. ASSUME Inv, NEW t \in Threads, At(t, "return") PROVE Told(t) \in Reports(t)
  <2>1. Reported(call[t]) \/ Unreported(call[t])
    BY <1>1, CallType DEF CallInv, At
  <2>2. CASE Unreported(call[t])
    BY <2>2 DEF Unreported, Reports, Told
  <2>3. CASE Reported(call[t])
    BY <2>3 DEF Reported, Reports, Told, Said, Sink
  <2> QED BY <2>1, <2>2, <2>3
<1>2. Inv => OneTrueReport
  BY <1>1 DEF OneTrueReport
<1> QED BY <1>2, Invariance, PTL

\* No sink changes a result: once settled, it is what the call returns.
THEOREM SinksCannotInterfere == Spec => ResultStands
<1> DEFINE Stands(t) == call[t].outcome # "none" =>
              \/ call'[t].outcome = call[t].outcome
              \/ At(t, "return") /\ call'[t] = Idle
<1>1. ASSUME Inv, Next, NEW t \in Threads, call[t].outcome # "none"
      PROVE  call'[t].outcome = call[t].outcome \/ (At(t, "return") /\ call'[t] = Idle)
  <2>1. call[t].pc \in {"report", "phases", "load_sink", "on_reload", "return"}
    <3>1. call[t].pc \in Places /\ (call[t].pc = "idle" => call[t].outcome = "none")
      <4>1. Idle.outcome = "none"
        BY DEF Idle
      <4> QED BY <1>1, <4>1, CallType DEF Calls, CallInv
    <3> QED BY <1>1, <3>1, CallType DEF CallInv, Places
  <2>2. call \in [Threads -> Calls]
    BY <1>1 DEF Inv, TypeOK
  <2>3. CASE UNCHANGED call
    BY <2>3
  <2>4. ASSUME NEW u \in Threads, Evaluate(u) \/ Reload(u) \/ Proceed(u), u # t
        PROVE  call'[t] = call[t]
    BY <2>2, <2>4 DEF Evaluate, Reload, Proceed, Route, RouteFails, CaptureSink,
       AskEnabled, Prepare, PrepareFails, Authorize, Report, ReportPhases, CompileFails,
       Publish, LoadSink, OnReload, Return, Settle, GoTo, Become
  <2>5. ASSUME Proceed(t) \/ Evaluate(t) \/ Reload(t)
        PROVE  \/ Report(t) \/ ReportPhases(t) \/ LoadSink(t) \/ OnReload(t)
               \/ Return(t)
    BY <2>1, <2>5 DEF Evaluate, Reload, Proceed, Route, RouteFails, CaptureSink,
       AskEnabled, Prepare, PrepareFails, Authorize, CompileFails, Publish, At
  <2>6. CASE Report(t) \/ ReportPhases(t) \/ LoadSink(t) \/ OnReload(t)
    BY <2>2, <2>6 DEF Report, ReportPhases, LoadSink, OnReload, Become, Made, Unwind, Calls
  <2>7. CASE Return(t)
    BY <2>2, <2>7 DEF Return, Become
  <2> QED BY <1>1, <2>3, <2>4, <2>5, <2>6, <2>7 DEF Next, SetSink
<1>2. Inv /\ [Next]_vars => [\A t \in Threads : Stands(t)]_vars
  BY <1>1
<1> QED BY <1>2, Invariance, PTL DEF Spec, ResultStands
==============================================================================
