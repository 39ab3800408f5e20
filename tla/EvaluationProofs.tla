--------------------------- MODULE EvaluationProofs --------------------------
(***************************************************************************)
(* Proofs about PolicyLoader and Evaluation, for any policies, texts,      *)
(* layouts and requests, and steps of any length.                          *)
(***************************************************************************)
EXTENDS Evaluation, TLAPS

----------------------------------------------------------------------------
(***************************************************************************)
(* Loading, as far as it has come.                                         *)
(***************************************************************************)

Stored == IF scoped THEN [ s \in Stores |-> { p \in Ids : s \in text.policies[p].stores } ]
          ELSE [ s \in {Whole} |-> Ids ]

LoaderInv ==
    /\ text \in Texts /\ enforcing \in BOOLEAN /\ scoped \in BOOLEAN
    /\ registered \subseteq Names
    /\ phase \in {"compile", "validate", "metadata", "partition", "loaded", "failed"}
    /\ error \in {"none", "ParseError", "EvalError", "PolicyStoreConfigError"}
    /\ DOMAIN permits \cup DOMAIN forbids \subseteq Policies
    /\ phase \in {"metadata", "partition", "loaded"} /\ enforcing =>
          \A p \in Ids : Acceptable(text.policies[p].verdict)
    /\ phase \in {"partition", "loaded"} =>
          permits = Metadata("permit") /\ forbids = Metadata("forbid")
    /\ phase = "loaded" => sets = Stored
    /\ phase = "failed" /\ error = "ParseError" /\ text.parses =>
          enforcing /\ \E p \in Ids : ~Acceptable(text.policies[p].verdict)

LEMMA TextFacts ==
    ASSUME NEW t \in Texts
    PROVE  /\ DOMAIN t.policies \subseteq Policies
           /\ \A p \in DOMAIN t.policies : t.policies[p] \in Policy
BY LoaderConstants DEF IsText

LEMMA LoaderInitInv == LoaderInit => LoaderInv
BY LoaderConstants DEF LoaderInit, LoaderInv

LEMMA CompileInv == LoaderInv /\ CompilePolicy => LoaderInv'
BY DEF LoaderInv, CompilePolicy, Proceed, Fail, Ids, Acceptable, Metadata, Of, BestName, Stored

LEMMA ValidateInv == LoaderInv /\ ValidatePolicies => LoaderInv'
BY DEF LoaderInv, ValidatePolicies, Proceed, Fail, Ids, Acceptable, Metadata, Of, BestName, Stored

LEMMA MetadataInv == LoaderInv /\ PrecomputeMetadata => LoaderInv'
<1> SUFFICES ASSUME LoaderInv, PrecomputeMetadata PROVE LoaderInv'
  OBVIOUS
<1>1. DOMAIN Metadata("permit") \subseteq Policies /\ DOMAIN Metadata("forbid") \subseteq Policies
  BY TextFacts DEF Metadata, Of, Ids, LoaderInv
<1>2. /\ text' = text /\ enforcing' = enforcing /\ scoped' = scoped
      /\ registered' = registered /\ Ids' = Ids
      /\ Metadata("permit")' = Metadata("permit") /\ Metadata("forbid")' = Metadata("forbid")
  BY DEF PrecomputeMetadata, Proceed, Fail, Ids, Metadata, Of, BestName
<1>3. CASE Proceed("partition") /\ permits' = Metadata("permit") /\ forbids' = Metadata("forbid")
  BY <1>1, <1>2, <1>3 DEF LoaderInv, PrecomputeMetadata, Proceed, Acceptable
<1>4. CASE Fail("EvalError")
  BY <1>2, <1>4 DEF LoaderInv, Fail
<1> QED BY <1>3, <1>4 DEF PrecomputeMetadata

LEMMA PartitionInv == LoaderInv /\ Partition => LoaderInv'
<1> SUFFICES ASSUME LoaderInv, Partition PROVE LoaderInv'
  OBVIOUS
<1>1. /\ text' = text /\ enforcing' = enforcing /\ scoped' = scoped
      /\ registered' = registered /\ Ids' = Ids
      /\ permits' = permits /\ forbids' = forbids
      /\ Metadata("permit")' = Metadata("permit") /\ Metadata("forbid")' = Metadata("forbid")
  BY DEF Partition, Proceed, Fail, Ids, Metadata, Of, BestName
<1>2. CASE Proceed("loaded") /\ sets' = Stored
  <2>1. Stored' = Stored
    BY <1>1 DEF Stored
  <2> QED BY <1>1, <1>2, <2>1 DEF LoaderInv, Partition, Proceed, Acceptable
<1>3. CASE Fail("PolicyStoreConfigError")
  BY <1>1, <1>3 DEF LoaderInv, Fail
<1> QED BY <1>2, <1>3 DEF Partition, Stored

LEMMA LoaderNextInv == LoaderInv /\ LoaderNext => LoaderInv'
BY CompileInv, ValidateInv, MetadataInv, PartitionInv DEF LoaderNext

LEMMA LoaderKept == LoaderInv /\ UNCHANGED loaderVars => LoaderInv'
BY DEF LoaderInv, loaderVars, Ids, Acceptable, Metadata, Of, BestName, Stored

----------------------------------------------------------------------------
(***************************************************************************)
(* What the policies of the request's store answer.                        *)
(***************************************************************************)

DueNames == { BestName(p) : p \in Due("forbid") }
Permitted == Due("forbid") = {} /\ Due("permit") # {}

Answer ==
    [ kind    |-> IF Permitted THEN "allow" ELSE "deny",
      permits |-> IF Permitted THEN Due("permit") ELSE {},
      forbids |-> IF ~Permitted /\ flags.diagnostics THEN DueNames ELSE {} ]

Matched ==
    [n \in KnownNames |->
        IF Permitted THEN Cardinality({ p \in Due("permit") : BestName(p) = n })
        ELSE IF \E p \in Due("forbid") : BestName(p) = n THEN 1 ELSE 0]

LEMMA RequestFacts ==
    ASSUME NEW r \in Requests
    PROVE  r.store \in Stores \cup {Whole} /\ r.context \in {"none", "good", "bad"}
           /\ r.entities \in {"good", "attribute", "clash"}
BY EvaluationConstants DEF Request

LEMMA TargetRouted ==
    ASSUME LoaderInv, phase = "loaded", request \in Requests, ~(scoped /\ request.store = Whole)
    PROVE  sets[Target] = Routed
<1>1. sets = Stored /\ scoped \in BOOLEAN
  BY DEF LoaderInv
<1>2. CASE scoped
  <2>1. Target = request.store /\ request.store \in Stores
    BY <1>2, RequestFacts DEF Target
  <2> QED BY <1>1, <1>2, <2>1 DEF Stored, Routed
<1>3. CASE ~scoped
  BY <1>1, <1>3 DEF Stored, Routed, Target
<1> QED BY <1>2, <1>3

LEMMA EffectFacts ==
    ASSUME LoaderInv, NEW p \in Ids
    PROVE  text.policies[p].effect \in {"permit", "forbid"} /\ p \in Policies
BY TextFacts DEF LoaderInv, Ids, Policy

LEMMA RespondFacts ==
    ASSUME LoaderInv, phase = "loaded", response = Respond(Routed)
    PROVE  /\ response = IF Due("forbid") # {} THEN Due("forbid") ELSE Due("permit")
           /\ Allows <=> Permitted
           /\ Permitted => Evidence = Due("permit")
           /\ ~Permitted => ForbidNames = DueNames
           /\ \A p \in Due("permit") : permits[p] = BestName(p)
           /\ response \subseteq Policies
<1>0. Routed \subseteq Ids
  BY DEF Routed
<1>1. \A e \in {"permit", "forbid"} : Routed \cap request.satisfied \cap Of(e) = Due(e)
  BY <1>0 DEF Due, Of
<1>2. response = IF Due("forbid") # {} THEN Due("forbid") ELSE Due("permit")
  BY <1>1 DEF Respond
<1>3. /\ \A p \in Due("permit") : p \in Of("permit") /\ text.policies[p].effect = "permit"
      /\ \A p \in Due("forbid") : p \in Of("forbid") /\ text.policies[p].effect = "forbid"
  BY <1>0 DEF Due, Of
<1>4. permits = Metadata("permit") /\ forbids = Metadata("forbid")
  BY DEF LoaderInv
<1>5. DOMAIN permits = Of("permit") /\ DOMAIN forbids = Of("forbid")
      /\ (\A p \in Of("permit") : permits[p] = BestName(p))
      /\ (\A p \in Of("forbid") : forbids[p] = BestName(p))
  BY <1>4 DEF Metadata
<1>6. Allows <=> Permitted
  BY <1>2, <1>3 DEF Allows, Permitted
<1>7. Permitted => Evidence = Due("permit")
  BY <1>2, <1>3, <1>5, <1>6 DEF Evidence, Permitted
<1>8. ASSUME ~Permitted PROVE ForbidNames = DueNames
  <2>1. response = Due("forbid")
    BY <1>2, <1>8 DEF Permitted
  <2>2. response \cap DOMAIN forbids = Due("forbid")
    BY <2>1, <1>3, <1>5
  <2>3. \A p \in Due("forbid") : forbids[p] = BestName(p)
    BY <1>3, <1>5
  <2>4. ForbidNames = { forbids[p] : p \in Due("forbid") }
    BY <1>6, <1>8, <2>2 DEF ForbidNames
  <2> QED BY <2>3, <2>4 DEF DueNames
<1>9. \A p \in Due("permit") : permits[p] = BestName(p)
  BY <1>3, <1>5
<1>10. response \subseteq Policies
  BY <1>0, <1>2, EffectFacts DEF Due
<1> QED BY <1>2, <1>6, <1>7, <1>8, <1>9, <1>10

LEMMA MatchedFacts ==
    ASSUME LoaderInv, phase = "loaded", response = Respond(Routed)
    PROVE  MatchedPolicies = Matched
<1>1. CASE Permitted
  <2>1. Allows /\ Evidence = Due("permit") /\ \A p \in Due("permit") : permits[p] = BestName(p)
    BY <1>1, RespondFacts
  <2>2. \A n \in KnownNames : { p \in Evidence : permits[p] = n } = { p \in Due("permit") : BestName(p) = n }
    BY <2>1
  <2> QED BY <1>1, <2>1, <2>2 DEF MatchedPolicies, Occurrences, Matched
<1>2. CASE ~Permitted
  <2>1. ~Allows /\ ForbidNames = DueNames
    BY <1>2, RespondFacts
  <2>2. \A n \in KnownNames : n \in ForbidNames <=> \E p \in Due("forbid") : BestName(p) = n
    BY <2>1 DEF DueNames
  <2> QED BY <1>2, <2>1, <2>2 DEF MatchedPolicies, Matched
<1> QED BY <1>1, <1>2

----------------------------------------------------------------------------
(***************************************************************************)
(* The evaluation, as far as it has come: it passed every check before the *)
(* step it is at, and the phases so far do not overlap.                    *)
(***************************************************************************)

Later == {"authorize", "conclude", "record"}
PastRequest == {"groups", "entities"} \cup Later
PastContext == {"request"} \cup PastRequest
PastRouting == {"labels", "context"} \cup PastContext
Places == {"idle", "resolve", "finished"} \cup PastRouting

Timers == [started : Nat, phase : [Phases -> Nat]]

Spent == timers.phase["labels"] + timers.phase["construct_req"] + timers.phase["groups"]
           + timers.phase["entities"] + timers.phase["authz"]

TimersInv ==
    /\ clock \in Nat /\ timers \in Timers /\ timers.started <= clock
    /\ at \in PastRouting => Spent <= clock - timers.started
    /\ ~Measured => timers.phase = NoTimers.phase

Reported ==
    /\ observed.kind = result.kind /\ observed.matched = Matched
    /\ observed.phase \in [Phases \ {"construct_req"} -> Nat]
    /\ observed.phase["labels"] + observed.phase["groups"] + observed.phase["entities"]
          + observed.phase["authz"] <= observed.total

CallInv ==
    /\ at \in Places /\ request \in Requests /\ flags \in Flags /\ response \subseteq Policies
    /\ at # "idle" => phase = "loaded"
    /\ at \in PastRouting => ~(scoped /\ request.store = Whole)
    /\ at \in PastContext => request.context # "bad"
    /\ at \in PastRequest => ~(enforcing /\ ~request.admitted)
    /\ at \in Later => request.entities = "good"
    /\ at \in {"conclude", "record"} => response = Respond(Routed)
    /\ at = "record" => result = Answer
    /\ at # "finished" => observed = NoResult
    /\ at = "finished" =>
          \/ Refusal # "none" /\ result = Err(Refusal) /\ observed = NoResult
          \/ Refusal = "none" /\ result = Answer /\ (observed = NoResult \/ Reported)

IInv == LoaderInv /\ TimersInv /\ CallInv

LEMMA NoTimersType == NoTimers \in Timers /\ \A ph \in Phases : NoTimers.phase[ph] = 0
BY DEF NoTimers, Timers, Phases

LEMMA RestFacts ==
    /\ Rest.request \in Requests /\ Rest.flags \in Flags /\ Rest.clock = 0
    /\ Rest.response = {}
BY EvaluationConstants DEF Rest, Flags

LEMMA InitInv == Init => IInv
<1> SUFFICES ASSUME Init PROVE IInv
  OBVIOUS
<1>1. LoaderInv
  BY LoaderInitInv DEF Init
<1>2. TimersInv
  BY NoTimersType, RestFacts DEF Init, TimersInv, PastRouting, PastContext, PastRequest, Later, NoTimers
<1>3. CallInv
  BY RestFacts DEF Init, CallInv, Places, PastRouting, PastContext, PastRequest, Later
<1> QED BY <1>1, <1>2, <1>3 DEF IInv

(***************************************************************************)
(* A timed step adds to one phase what it adds to the clock; an untimed    *)
(* one adds to the clock alone.                                            *)
(***************************************************************************)
LEMMA TimedInv ==
    ASSUME TimersInv, NEW ph \in Phases, NEW d \in Nat, Timed(ph, d),
           at \in PastRouting, flags' = flags
    PROVE  TimersInv'
<1>1. clock' = clock + d /\ clock \in Nat /\ timers \in Timers
  BY DEF Timed, TimersInv
<1>2. Measured' = Measured /\ NoTimers.phase' = NoTimers.phase
  BY DEF Measured, NoTimers, Phases
<1>3. CASE ~Measured
  <2>1. timers' = timers
    BY <1>3 DEF Timed
  <2> QED BY <1>1, <1>2, <1>3, <2>1 DEF TimersInv, Spent, Timers, Phases
<1>4. CASE Measured
  <2>1. timers' = [timers EXCEPT !.phase[ph] = @ + d]
    BY <1>4 DEF Timed
  <2>2. timers'.started = timers.started
        /\ timers'.phase = [timers.phase EXCEPT ![ph] = timers.phase[ph] + d]
        /\ timers' = [started |-> timers.started, phase |-> timers'.phase]
    BY <2>1, <1>1 DEF Timers
  <2>3. timers' \in Timers
    BY <2>2, <1>1 DEF Timers
  <2>4. Spent' = Spent + d
    BY <2>2, <1>1 DEF Spent, Timers, Phases
  <2>5. Spent \in Nat
    BY <1>1 DEF Spent, Timers, Phases
  <2> QED BY <1>1, <1>2, <1>4, <2>2, <2>3, <2>4, <2>5 DEF TimersInv, Timers
<1> QED BY <1>3, <1>4

LEMMA UntimedInv ==
    ASSUME TimersInv, NEW d \in Nat, Untimed(d), at \in PastRouting, flags' = flags
    PROVE  TimersInv'
<1>1. clock' = clock + d /\ clock \in Nat /\ timers \in Timers /\ timers' = timers
  BY DEF Untimed, TimersInv
<1>2. Spent \in Nat /\ Spent' = Spent
  BY <1>1 DEF Spent, Timers, Phases
<1> QED BY <1>1, <1>2 DEF TimersInv, Timers, Measured

(***************************************************************************)
(* A step of a call that is under way leaves alone what its answer is      *)
(* derived from.                                                           *)
(***************************************************************************)
LEMMA KeptFacts ==
    ASSUME UNCHANGED <<loaderVars, request, flags>>
    PROVE  /\ text' = text /\ enforcing' = enforcing /\ scoped' = scoped /\ phase' = phase
           /\ Refusal' = Refusal /\ Answer' = Answer /\ Matched' = Matched
           /\ Respond(Routed)' = Respond(Routed)
BY DEF loaderVars, Refusal, Answer, Permitted, DueNames, Due, Routed, BestName, Ids, Matched, Respond, Of

LEMMA ApplyLabelsInv ==
    ASSUME IInv, NEW d \in Nat, ApplyLabels(d)
    PROVE  IInv'
<1>1. LoaderInv' /\ Refusal' = Refusal /\ UNCHANGED <<text, enforcing, scoped, phase, request, flags, observed, response>>
  BY LoaderKept, KeptFacts DEF IInv, ApplyLabels, Kept, loaderVars
<1>2. TimersInv'
  BY TimedInv DEF IInv, ApplyLabels, Kept, Phases, PastRouting, PastContext, PastRequest, Later
<1>3. CallInv'
  BY <1>1, RequestFacts DEF IInv, CallInv, ApplyLabels, GoOn, Finish, Refusal, Places, PastRouting, PastContext, PastRequest, Later
<1> QED BY <1>1, <1>2, <1>3 DEF IInv

LEMMA BuildContextInv ==
    ASSUME IInv, NEW d \in Nat, BuildContext(d)
    PROVE  IInv'
<1>1. LoaderInv' /\ Refusal' = Refusal /\ UNCHANGED <<text, enforcing, scoped, phase, request, flags, observed, response>>
  BY LoaderKept, KeptFacts DEF IInv, BuildContext, Kept, loaderVars
<1>2. TimersInv'
  BY UntimedInv DEF IInv, BuildContext, Kept, Phases, PastRouting, PastContext, PastRequest, Later
<1>3. CallInv'
  <2>1. CASE request.context = "bad"
    <3>1. Refusal' = "ContextError" /\ at' = "finished" /\ result' = Err("ContextError")
      <4>1. at = "context" /\ ~(scoped /\ request.store = Whole)
        BY DEF IInv, CallInv, BuildContext, PastRouting, PastContext, PastRequest, Later
      <4>2. Refusal = "ContextError"
        BY <4>1, <2>1 DEF Refusal
      <4>3. at' = "finished" /\ result' = Err("ContextError")
        BY <2>1 DEF BuildContext, Finish
      <4> QED BY <4>2, <4>3, <1>1
    <3>2. result' = Err(Refusal)' /\ Refusal' # "none"
      BY <3>1 DEF Err
    <3>3. observed' = NoResult' /\ request' \in Requests /\ flags' \in Flags /\ response' \subseteq Policies
          /\ phase' = "loaded"
      BY <1>1 DEF IInv, CallInv, BuildContext, NoResult
    <3> QED BY <3>1, <3>2, <3>3 DEF CallInv, Places, PastRouting, PastContext, PastRequest, Later
  <2>2. CASE ~(request.context = "bad")
    BY <1>1, <2>2 DEF IInv, CallInv, BuildContext, GoOn, Places, PastRouting, PastContext, PastRequest, Later
  <2> QED BY <2>1, <2>2
<1> QED BY <1>1, <1>2, <1>3 DEF IInv

LEMMA BuildRequestInv ==
    ASSUME IInv, NEW d \in Nat, BuildRequest(d)
    PROVE  IInv'
<1>1. LoaderInv' /\ Refusal' = Refusal /\ UNCHANGED <<text, enforcing, scoped, phase, request, flags, observed, response>>
  BY LoaderKept, KeptFacts DEF IInv, BuildRequest, Kept, loaderVars
<1>2. TimersInv'
  BY TimedInv DEF IInv, BuildRequest, Kept, Phases, PastRouting, PastContext, PastRequest, Later
<1>3. CallInv'
  <2>1. CASE enforcing /\ ~request.admitted
    <3>1. Refusal' = "RequestValidationError" /\ at' = "finished" /\ result' = Err("RequestValidationError")
      <4>1. at = "request" /\ ~(scoped /\ request.store = Whole) /\ request.context # "bad"
        BY DEF IInv, CallInv, BuildRequest, PastRouting, PastContext, PastRequest, Later
      <4>2. Refusal = "RequestValidationError"
        BY <4>1, <2>1 DEF Refusal
      <4>3. at' = "finished" /\ result' = Err("RequestValidationError")
        BY <2>1 DEF BuildRequest, Finish
      <4> QED BY <4>2, <4>3, <1>1
    <3>2. result' = Err(Refusal)' /\ Refusal' # "none"
      BY <3>1 DEF Err
    <3>3. observed' = NoResult' /\ request' \in Requests /\ flags' \in Flags /\ response' \subseteq Policies
          /\ phase' = "loaded"
      BY <1>1 DEF IInv, CallInv, BuildRequest, NoResult
    <3> QED BY <3>1, <3>2, <3>3 DEF CallInv, Places, PastRouting, PastContext, PastRequest, Later
  <2>2. CASE ~(enforcing /\ ~request.admitted)
    BY <1>1, <2>2 DEF IInv, CallInv, BuildRequest, GoOn, Places, PastRouting, PastContext, PastRequest, Later
  <2> QED BY <2>1, <2>2
<1> QED BY <1>1, <1>2, <1>3 DEF IInv

LEMMA ResolveGroupsInv ==
    ASSUME IInv, NEW d \in Nat, ResolveGroups(d)
    PROVE  IInv'
<1>1. LoaderInv' /\ Refusal' = Refusal /\ UNCHANGED <<text, enforcing, scoped, phase, request, flags, observed, response>>
  BY LoaderKept, KeptFacts DEF IInv, ResolveGroups, Kept, loaderVars
<1>2. TimersInv'
  BY TimedInv DEF IInv, ResolveGroups, Kept, Phases, PastRouting, PastContext, PastRequest, Later
<1>3. CallInv'
  BY <1>1, RequestFacts DEF IInv, CallInv, ResolveGroups, GoOn, Finish, Refusal, Places, PastRouting, PastContext, PastRequest, Later
<1> QED BY <1>1, <1>2, <1>3 DEF IInv

LEMMA BuildEntitiesInv ==
    ASSUME IInv, NEW d \in Nat, BuildEntities(d)
    PROVE  IInv'
<1>1. LoaderInv' /\ Refusal' = Refusal /\ UNCHANGED <<text, enforcing, scoped, phase, request, flags, observed, response>>
  BY LoaderKept, KeptFacts DEF IInv, BuildEntities, Kept, loaderVars
<1>2. TimersInv'
  BY TimedInv DEF IInv, BuildEntities, Kept, Phases, PastRouting, PastContext, PastRequest, Later
<1>3. CallInv'
  BY <1>1, RequestFacts DEF IInv, CallInv, BuildEntities, GoOn, Finish, Refusal, Places, PastRouting, PastContext, PastRequest, Later
<1> QED BY <1>1, <1>2, <1>3 DEF IInv

LEMMA ResolveInv ==
    ASSUME IInv, NEW d \in Nat, Resolve(d)
    PROVE  IInv'
<1>1. LoaderInv' /\ Refusal' = Refusal /\ UNCHANGED <<text, enforcing, scoped, phase, request, flags, observed, response>>
  BY LoaderKept, KeptFacts DEF IInv, Resolve, Kept, loaderVars
<1>2. TimersInv'
  <2>1. clock \in Nat /\ clock' = clock + d /\ Measured' = Measured
    BY <1>1 DEF IInv, TimersInv, Resolve, Measured
  <2>2. CASE at' = "finished" /\ timers' = timers
    BY <2>1, <2>2 DEF IInv, TimersInv, Timers, NoTimers, PastRouting, PastContext, PastRequest, Later
  <2>3. CASE timers' = [NoTimers EXCEPT !.started = clock']
    <3>1. timers'.started = clock' /\ timers'.phase = NoTimers.phase /\ timers' \in Timers
      BY <2>1, <2>3, NoTimersType DEF NoTimers, Timers
    <3>2. Spent' = 0
      BY <3>1, NoTimersType DEF Spent, Phases
    <3> QED BY <2>1, <3>1, <3>2 DEF TimersInv, NoTimers
  <2> QED BY <2>2, <2>3 DEF Resolve, Finish
<1>3. CallInv'
  <2>1. CASE scoped /\ request.store = Whole
    <3>1. Refusal' = "PolicyStoreRoutingError" /\ at' = "finished" /\ result' = Err("PolicyStoreRoutingError")
      <4>1. at = "resolve" /\ TRUE
        BY DEF IInv, CallInv, Resolve, PastRouting, PastContext, PastRequest, Later
      <4>2. Refusal = "PolicyStoreRoutingError"
        BY <4>1, <2>1 DEF Refusal
      <4>3. at' = "finished" /\ result' = Err("PolicyStoreRoutingError")
        BY <2>1 DEF Resolve, Finish
      <4> QED BY <4>2, <4>3, <1>1
    <3>2. result' = Err(Refusal)' /\ Refusal' # "none"
      BY <3>1 DEF Err
    <3>3. observed' = NoResult' /\ request' \in Requests /\ flags' \in Flags /\ response' \subseteq Policies
          /\ phase' = "loaded"
      BY <1>1 DEF IInv, CallInv, Resolve, NoResult
    <3> QED BY <3>1, <3>2, <3>3 DEF CallInv, Places, PastRouting, PastContext, PastRequest, Later
  <2>2. CASE ~(scoped /\ request.store = Whole)
    BY <1>1, <2>2 DEF IInv, CallInv, Resolve, GoOn, Places, PastRouting, PastContext, PastRequest, Later
  <2> QED BY <2>1, <2>2
<1> QED BY <1>1, <1>2, <1>3 DEF IInv

(***************************************************************************)
(* Cedar decides on the policies of the store that was routed to.          *)
(***************************************************************************)
LEMMA AuthorizeInv ==
    ASSUME IInv, NEW d \in Nat, Authorize(d)
    PROVE  IInv'
<1>1. LoaderInv' /\ UNCHANGED <<text, enforcing, scoped, phase, request, flags, observed>>
      /\ Respond(Routed)' = Respond(Routed) /\ phase = "loaded"
  BY LoaderKept, KeptFacts DEF IInv, CallInv, Authorize, Kept, loaderVars
<1>2. TimersInv'
  BY TimedInv DEF IInv, Authorize, Kept, Phases, PastRouting, PastContext, PastRequest, Later
<1>3. response' = Respond(Routed)'
  BY <1>1, TargetRouted DEF IInv, CallInv, Authorize, PastRouting, PastContext, PastRequest, Later
<1>4. response' \subseteq Policies
  <2>1. LoaderInv' /\ phase' = "loaded"
    BY <1>1
  <2>2. Respond(Routed) \subseteq Policies
    BY <1>1, EffectFacts DEF IInv, Respond, Routed, Of
  <2> QED BY <1>1, <1>3, <2>2
<1>5. CallInv'
  BY <1>1, <1>3, <1>4 DEF IInv, CallInv, Authorize, GoOn, Places, PastRouting, PastContext, PastRequest, Later
<1> QED BY <1>1, <1>2, <1>5 DEF IInv

LEMMA ConcludeInv ==
    ASSUME IInv, Conclude
    PROVE  IInv'
<1>1. LoaderInv' /\ UNCHANGED <<text, enforcing, scoped, phase, request, flags, observed, clock, timers, response>>
      /\ Respond(Routed)' = Respond(Routed) /\ Answer' = Answer /\ Measured' = Measured
  BY LoaderKept, KeptFacts DEF IInv, Conclude, Kept, loaderVars, Measured
<1>2. at = "conclude" /\ phase = "loaded" /\ response = Respond(Routed)
  BY DEF IInv, CallInv, Conclude
<1>3. /\ Allows <=> Permitted
      /\ Permitted => Evidence = Due("permit")
      /\ ~Permitted => ForbidNames = DueNames
      /\ Permitted => Due("permit") # {}
  BY <1>2, RespondFacts DEF IInv, Permitted
<1>4. ~(Allows /\ Evidence = {})
  BY <1>3
<1>5. at' = "record" /\ result' = Answer
  <2>1. /\ at' = "record"
        /\ result' = [ kind    |-> IF Allows THEN "allow" ELSE "deny",
                       permits |-> Evidence,
                       forbids |-> IF flags.diagnostics THEN ForbidNames ELSE {} ]
    BY <1>4 DEF Conclude
  <2>2. CASE Permitted
    BY <1>3, <2>1, <2>2 DEF Answer, ForbidNames
  <2>3. CASE ~Permitted
    BY <1>3, <2>1, <2>3 DEF Answer, Evidence
  <2> QED BY <2>1, <2>2, <2>3
<1>6. TimersInv'
  BY <1>1, <1>2, <1>5 DEF IInv, TimersInv, Spent, NoTimers, PastRouting, PastContext, PastRequest, Later
<1>7. CallInv'
  BY <1>1, <1>2, <1>5 DEF IInv, CallInv, Places, PastRouting, PastContext, PastRequest, Later
<1> QED BY <1>1, <1>6, <1>7 DEF IInv

(***************************************************************************)
(* The sink is told the phases measured so far: their sum is at most the   *)
(* time since the evaluation started.                                      *)
(***************************************************************************)
LEMMA RecordInv ==
    ASSUME IInv, NEW d \in Nat, Record(d)
    PROVE  IInv'
<1>1. LoaderInv' /\ UNCHANGED <<text, enforcing, scoped, phase, request, flags, response, result, timers>>
      /\ Refusal' = Refusal /\ Answer' = Answer /\ Matched' = Matched
  BY LoaderKept, KeptFacts DEF IInv, Record, Untimed, GoOn, loaderVars
<1>2. TimersInv'
  BY UntimedInv DEF IInv, Record, PastRouting, PastContext, PastRequest, Later
<1>3. /\ at = "record" /\ at' = "finished" /\ phase = "loaded" /\ result = Answer
      /\ response = Respond(Routed) /\ observed = NoResult
  BY DEF IInv, CallInv, Record, GoOn
<1>4. Refusal = "none"
  BY <1>3, RequestFacts DEF IInv, CallInv, Refusal, PastRouting, PastContext, PastRequest, Later
<1>5. observed' = NoResult \/ Reported'
  <2>1. CASE ~flags.metrics
    BY <1>3, <2>1 DEF Record
  <2>2. CASE flags.metrics
    <3>1. /\ observed'.kind = result.kind /\ observed'.matched = MatchedPolicies
          /\ observed'.phase = [ph \in Phases \ {"construct_req"} |-> timers.phase[ph]]
          /\ observed'.total = clock' - timers.started
      BY <2>2 DEF Record
    <3>2. observed'.matched = Matched'
      BY <1>1, <1>3, <3>1, MatchedFacts DEF IInv
    <3>3. timers.phase \in [Phases -> Nat] /\ timers.started \in Nat /\ clock \in Nat
      BY DEF IInv, TimersInv, Timers
    <3>4. observed'.phase \in [Phases \ {"construct_req"} -> Nat]
      BY <3>1, <3>3
    <3>5. /\ observed'.phase["labels"] = timers.phase["labels"] /\ observed'.phase["groups"] = timers.phase["groups"]
          /\ observed'.phase["entities"] = timers.phase["entities"] /\ observed'.phase["authz"] = timers.phase["authz"]
      BY <3>1 DEF Phases
    <3>6. Spent <= clock - timers.started /\ clock' = clock + d
      BY <1>3 DEF IInv, TimersInv, Record, Untimed, PastRouting, PastContext, PastRequest, Later
    <3>7. /\ timers.phase["labels"] \in Nat /\ timers.phase["construct_req"] \in Nat
          /\ timers.phase["groups"] \in Nat /\ timers.phase["entities"] \in Nat
          /\ timers.phase["authz"] \in Nat
      BY <3>3 DEF Phases
    <3>8. observed'.phase["labels"] + observed'.phase["groups"] + observed'.phase["entities"]
            + observed'.phase["authz"] <= observed'.total
      BY <3>1, <3>3, <3>5, <3>6, <3>7 DEF Spent
    <3> QED BY <1>1, <3>1, <3>2, <3>4, <3>8 DEF Reported
  <2> QED BY <2>1, <2>2
<1>6. CallInv'
  BY <1>1, <1>3, <1>4, <1>5 DEF IInv, CallInv, NoResult, Places, PastRouting, PastContext, PastRequest, Later
<1> QED BY <1>1, <1>2, <1>6 DEF IInv

LEMMA BeginInv ==
    ASSUME IInv, NEW r \in Requests, NEW f \in Flags, Begin(r, f)
    PROVE  IInv'
<1>1. LoaderInv' /\ phase' = "loaded"
  BY LoaderKept DEF IInv, Begin, loaderVars
<1>2. TimersInv'
  BY NoTimersType DEF Begin, TimersInv, NoTimers, PastRouting, PastContext, PastRequest, Later
<1>3. CallInv'
  BY <1>1 DEF Begin, CallInv, NoResult, Places, PastRouting, PastContext, PastRequest, Later
<1> QED BY <1>1, <1>2, <1>3 DEF IInv

LEMMA ReturnInv ==
    ASSUME IInv, Return
    PROVE  IInv'
<1>1. LoaderInv'
  BY LoaderKept DEF IInv, Return
<1>2. TimersInv'
  BY NoTimersType, RestFacts DEF Return, TimersInv, NoTimers, PastRouting, PastContext, PastRequest, Later
<1>3. CallInv'
  BY RestFacts DEF Return, CallInv, NoResult, Places, PastRouting, PastContext, PastRequest, Later
<1> QED BY <1>1, <1>2, <1>3 DEF IInv

\* Nothing is loaded any more once there is a call.
LEMMA LoadInv ==
    ASSUME IInv, LoaderNext, UNCHANGED evaluationVars
    PROVE  IInv'
<1>1. LoaderInv'
  BY LoaderNextInv DEF IInv
<1>2. phase # "loaded"
  BY DEF LoaderNext, CompilePolicy, ValidatePolicies, PrecomputeMetadata, Partition
<1>3. at = "idle" /\ UNCHANGED <<at, request, flags, clock, timers, response, result, observed>>
  BY <1>2 DEF IInv, CallInv, evaluationVars
<1>4. TimersInv'
  BY <1>3 DEF IInv, TimersInv, Measured, Spent, NoTimers, PastRouting, PastContext, PastRequest, Later
<1>5. CallInv'
  BY <1>3 DEF IInv, CallInv, NoResult, PastRouting, PastContext, PastRequest, Later
<1> QED BY <1>1, <1>4, <1>5 DEF IInv

LEMMA StepInv ==
    ASSUME IInv, NEW d \in Nat, Step(d)
    PROVE  IInv'
BY ResolveInv, ApplyLabelsInv, BuildContextInv, BuildRequestInv, ResolveGroupsInv, BuildEntitiesInv,
   AuthorizeInv, RecordInv DEF Step

LEMMA StutterInv ==
    ASSUME IInv, UNCHANGED vars
    PROVE  IInv'
<1>1. LoaderInv' /\ UNCHANGED loaderVars /\ UNCHANGED <<at, request, flags, clock, timers, response, result, observed>>
  BY LoaderKept DEF IInv, vars, evaluationVars
<1>2. Refusal' = Refusal /\ Answer' = Answer /\ Matched' = Matched /\ Respond(Routed)' = Respond(Routed)
      /\ UNCHANGED <<text, enforcing, scoped, phase>>
  BY <1>1, KeptFacts
<1>3. TimersInv'
  BY <1>1 DEF IInv, TimersInv, Measured, Spent, NoTimers
<1>4. CallInv'
  BY <1>1, <1>2 DEF IInv, CallInv, NoResult, Reported
<1> QED BY <1>1, <1>3, <1>4 DEF IInv

LEMMA Inductive == IInv /\ [Next]_vars => IInv'
<1> SUFFICES ASSUME IInv, [Next]_vars PROVE IInv'
  OBVIOUS
<1>1. CASE LoaderNext /\ UNCHANGED evaluationVars
  BY <1>1, LoadInv
<1>2. CASE \E r \in Requests, f \in Flags : Begin(r, f)
  BY <1>2, BeginInv
<1>3. CASE \E d \in 0..MaxTick : Step(d)
  BY <1>3, StepInv, EvaluationConstants
<1>4. CASE Conclude
  BY <1>4, ConcludeInv
<1>5. CASE Return
  BY <1>5, ReturnInv
<1>6. CASE UNCHANGED vars
  BY <1>6, StutterInv
<1> QED BY <1>1, <1>2, <1>3, <1>4, <1>5, <1>6 DEF Next

LEMMA Invariant == Spec => []IInv
<1>1. Init => IInv
  BY InitInv
<1>2. IInv /\ [Next]_vars => IInv'
  BY Inductive
<1> QED BY <1>1, <1>2, PTL DEF Spec

----------------------------------------------------------------------------
(***************************************************************************)
(* The theorems. Every variable stays in its type.                         *)
(***************************************************************************)
THEOREM TypeCorrect == Spec => []TypeOK
<1>1. IInv => TypeOK
  <2> SUFFICES ASSUME IInv PROVE TypeOK
    OBVIOUS
  <2>1. LoaderTypeOK
    BY TextFacts DEF IInv, LoaderInv, LoaderTypeOK, Stored, Ids
  <2> QED BY <2>1 DEF IInv, TimersInv, CallInv, TypeOK, Timers
<1> QED BY <1>1, Invariant, PTL

(***************************************************************************)
(* With a schema, no policy is served that is invalid or whose action      *)
(* cannot apply, and nothing else is refused as such.                      *)
(***************************************************************************)
THEOREM ValidPoliciesServed == Spec => []OnlyValidPoliciesServed
<1>1. IInv => OnlyValidPoliciesServed
  BY DEF IInv, LoaderInv, OnlyValidPoliciesServed, Acceptable
<1> QED BY <1>1, Invariant, PTL

(***************************************************************************)
(* The answer is that of the source text: never an error because evidence  *)
(* is missing.                                                             *)
(***************************************************************************)
THEOREM AnswersCorrect == Spec => []AnswersFromText
<1>1. IInv => AnswersFromText
  BY DEF IInv, CallInv, AnswersFromText, Finished, Answer, Permitted
<1> QED BY <1>1, Invariant, PTL

(***************************************************************************)
(* Diagnostics of a Deny name exactly the satisfied forbids.               *)
(***************************************************************************)
THEOREM DiagnosticsCorrect == Spec => []DiagnosticsNameForbids
<1>1. IInv => DiagnosticsNameForbids
  <2> SUFFICES ASSUME IInv, Finished, result.kind = "deny"
               PROVE  result.forbids =
                        IF flags.diagnostics
                        THEN { IF text.policies[p].name = NoName THEN p ELSE text.policies[p].name : p \in Due("forbid") }
                        ELSE {}
    BY DEF DiagnosticsNameForbids
  <2>1. result # Err(Refusal)
    BY DEF Err
  <2>2. result = Answer
    BY <2>1 DEF IInv, CallInv, Finished
  <2> QED BY <2>2 DEF Answer, Permitted, DueNames, BestName
<1> QED BY <1>1, Invariant, PTL

(***************************************************************************)
(* The sink hears of the decision that was made, and of what decided.      *)
(***************************************************************************)
THEOREM StatsCorrect == Spec => []StatsMatchDecision
<1>1. IInv => StatsMatchDecision
  <2> SUFFICES ASSUME IInv, Finished, observed # NoResult PROVE StatsMatchDecision
    BY DEF StatsMatchDecision
  <2>1. Reported /\ result = Answer
    BY DEF IInv, CallInv, Finished
  <2> QED BY <2>1 DEF Reported, Matched, Answer, StatsMatchDecision
<1> QED BY <1>1, Invariant, PTL

(***************************************************************************)
(* The phases fit into the total, and nobody measures for nobody.          *)
(***************************************************************************)
THEOREM PhasesCorrect == Spec => []PhasesFit
<1>1. IInv => PhasesFit
  BY DEF IInv, TimersInv, CallInv, PhasesFit, Reported
<1> QED BY <1>1, Invariant, PTL
==============================================================================
