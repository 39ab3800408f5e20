----------------------------- MODULE Evaluation ------------------------------
(***************************************************************************)
(* engine.rs evaluate_state and prepare on a loaded snapshot, step by step *)
(* with the phase timers of timers.rs, the errors of error.rs, the         *)
(* evidence of types/decision.rs and the observation of metrics.rs.        *)
(*                                                                         *)
(* Vectors of names that the code sorts are functions from names to how    *)
(* often they occur. Every step takes any time from 0 to MaxTick.          *)
(***************************************************************************)
EXTENDS PolicyLoader

CONSTANTS Requests, MaxTick

\* What the steps find out about a request. Values nested too deeply for
\* Cedar's evaluator make a context bad, or an attribute.
Request == [ store     : Stores \cup {Whole},   \* Whole: it cannot be routed
             context   : {"none", "good", "bad"},
             admitted  : BOOLEAN,               \* it conforms to the schema
             entities  : {"good", "attribute", "clash"},
             satisfied : SUBSET Policies ]

ASSUME EvaluationConstants == Requests \subseteq Request /\ Requests # {} /\ MaxTick \in Nat

VARIABLES
    at,        \* the step of the evaluation that is next
    request,
    flags,     \* what the caller and the sink asked for
    clock,     \* Instant::now()
    timers,    \* EvalTimers
    response,  \* the Cedar response
    result,    \* what the call returns
    observed   \* what the sink was told

evaluationVars == <<at, request, flags, clock, timers, response, result, observed>>
vars == <<loaderVars, evaluationVars>>

Phases == {"labels", "construct_req", "groups", "entities", "authz"}
KnownNames == Names \cup Policies
Flags  == [diagnostics : BOOLEAN, metrics : BOOLEAN, debug : BOOLEAN]

NoTimers == [started |-> 0, phase |-> [ph \in Phases |-> 0]]
NoResult == [kind |-> "none"]
Measured == flags.metrics \/ flags.debug

----------------------------------------------------------------------------
(***************************************************************************)
(* Steps. A PhaseTimer adds the time from its creation to its drop to its  *)
(* slot, also when the step returns early; new_if makes none unless        *)
(* somebody looks.                                                         *)
(***************************************************************************)

Finish(r) == at' = "finished" /\ result' = r
Err(kind) == [kind |-> "error", error |-> kind]

GoOn(step) == at' = step /\ UNCHANGED result

Timed(ph, d) ==
    /\ clock' = clock + d
    /\ timers' = IF Measured THEN [timers EXCEPT !.phase[ph] = @ + d] ELSE timers

Untimed(d) == clock' = clock + d /\ UNCHANGED timers

Kept == UNCHANGED <<loaderVars, request, flags, observed>>

Begin(r, f) ==
    /\ phase = "loaded" /\ at = "idle"
    /\ at' = "resolve" /\ request' = r /\ flags' = f
    /\ clock' = 0 /\ timers' = NoTimers
    /\ response' = {} /\ result' = NoResult /\ observed' = NoResult
    /\ UNCHANGED loaderVars

\* The time for routing is not part of the total: the clock starts in prepare.
Resolve(d) ==
    /\ at = "resolve"
    /\ clock' = clock + d
    /\ IF scoped /\ request.store = Whole
       THEN Finish(Err("PolicyStoreRoutingError")) /\ UNCHANGED timers
       ELSE GoOn("labels") /\ timers' = [NoTimers EXCEPT !.started = clock']
    /\ Kept /\ UNCHANGED response

ApplyLabels(d) ==
    /\ at = "labels"
    /\ Timed("labels", d) /\ GoOn("context")
    /\ Kept /\ UNCHANGED response

BuildContext(d) ==
    /\ at = "context"
    /\ Untimed(d)
    /\ IF request.context = "bad" THEN Finish(Err("ContextError")) ELSE GoOn("request")
    /\ Kept /\ UNCHANGED response

BuildRequest(d) ==
    /\ at = "request"
    /\ Timed("construct_req", d)
    /\ IF enforcing /\ ~request.admitted
       THEN Finish(Err("RequestValidationError")) ELSE GoOn("groups")
    /\ Kept /\ UNCHANGED response

\* Mutant: the groups are resolved while the entity timer runs.
ResolveGroupsInside(d) ==
    /\ at = "groups"
    /\ clock' = clock + d
    /\ timers' = IF Measured
                 THEN [timers EXCEPT !.phase["groups"] = @ + d, !.phase["entities"] = @ + d]
                 ELSE timers
    /\ GoOn("entities")
    /\ Kept /\ UNCHANGED response

ResolveGroups(d) ==
    /\ at = "groups"
    /\ Timed("groups", d) /\ GoOn("entities")
    /\ Kept /\ UNCHANGED response

\* Attributes are evaluated first; add_entities then refuses clashing ones.
BuildEntities(d) ==
    /\ at = "entities"
    /\ Timed("entities", d)
    /\ CASE request.entities = "attribute" -> Finish(Err("EntityAttrError"))
         [] request.entities = "clash"     -> Finish(Err("EntityError"))
         [] request.entities = "good"      -> GoOn("authorize")
    /\ Kept /\ UNCHANGED response

Target == IF scoped THEN request.store ELSE Whole

\* Cedar: the reasons are the satisfied forbids, or else the permits.
Respond(set) ==
    LET satisfied(e) == set \cap request.satisfied \cap Of(e)
    IN  IF satisfied("forbid") # {} THEN satisfied("forbid") ELSE satisfied("permit")

Authorize(d) ==
    /\ at = "authorize"
    /\ Timed("authz", d) /\ GoOn("conclude")
    /\ response' = Respond(sets[Target])
    /\ Kept

Allows == response # {} /\ \A p \in response : text.policies[p].effect = "permit"

\* Mutant: evidence is collected for the sink.
EvidenceIfMeasured == IF Allows /\ Measured THEN response \cap DOMAIN permits ELSE {}

\* extract_permit_policies and extract_forbid_policy_ids: reasons without
\* metadata are dropped.
Evidence     == IF Allows THEN response \cap DOMAIN permits ELSE {}
ForbidNames  == IF Allows THEN {} ELSE { forbids[p] : p \in response \cap DOMAIN forbids }

Occurrences(policies, name) == Cardinality({ p \in policies : permits[p] = name })

\* Mutant: names of forbids are collected when the sink wants them.
MatchedIfRequested ==
    IF Allows THEN [n \in KnownNames |-> Occurrences(Evidence, n)]
    ELSE [n \in KnownNames |-> IF flags.diagnostics /\ n \in ForbidNames THEN 1 ELSE 0]

\* to_owned_stats: sorted, and without repetitions after a Deny.
MatchedPolicies ==
    IF Allows THEN [n \in KnownNames |-> Occurrences(Evidence, n)]
    ELSE [n \in KnownNames |-> IF n \in ForbidNames THEN 1 ELSE 0]

\* Decision::from_cedar: an Allow without evidence is an error.
Conclude ==
    /\ at = "conclude"
    /\ IF Allows /\ Evidence = {}
       THEN Finish(Err("EvalError"))
       ELSE /\ at' = "record"
            /\ result' = [ kind    |-> IF Allows THEN "allow" ELSE "deny",
                           permits |-> Evidence,
                           forbids |-> IF flags.diagnostics THEN ForbidNames ELSE {} ]
    /\ Kept /\ UNCHANGED <<clock, timers, response>>

Record(d) ==
    /\ at = "record"
    /\ Untimed(d) /\ GoOn("finished")
    /\ observed' = IF flags.metrics
                   THEN [ kind    |-> result.kind,
                          matched |-> MatchedPolicies,
                          phase   |-> [ph \in Phases \ {"construct_req"} |-> timers.phase[ph]],
                          total   |-> clock' - timers.started ]
                   ELSE observed
    /\ UNCHANGED <<loaderVars, request, flags, response>>

Rest ==
    [ request |-> CHOOSE r \in Requests : TRUE, response |-> {}, clock |-> 0,
      flags   |-> [diagnostics |-> FALSE, metrics |-> FALSE, debug |-> FALSE] ]

Return ==
    /\ at = "finished"
    /\ at' = "idle"
    /\ request' = Rest.request /\ flags' = Rest.flags
    /\ clock' = Rest.clock /\ timers' = NoTimers
    /\ response' = Rest.response /\ result' = NoResult /\ observed' = NoResult
    /\ UNCHANGED loaderVars

Init ==
    /\ LoaderInit
    /\ at = "idle" /\ request = Rest.request /\ flags = Rest.flags
    /\ clock = Rest.clock /\ timers = NoTimers
    /\ response = Rest.response /\ result = NoResult /\ observed = NoResult

Step(d) ==
    \/ Resolve(d) \/ ApplyLabels(d) \/ BuildContext(d) \/ BuildRequest(d)
    \/ ResolveGroups(d) \/ BuildEntities(d) \/ Authorize(d) \/ Record(d)

Next ==
    \/ LoaderNext /\ UNCHANGED evaluationVars
    \/ \E r \in Requests, f \in Flags : Begin(r, f)
    \/ \E d \in 0..MaxTick : Step(d)
    \/ Conclude \/ Return

Spec == Init /\ [][Next]_vars

----------------------------------------------------------------------------
(***************************************************************************)
(* Properties.                                                             *)
(***************************************************************************)

Finished == at = "finished"

\* The answer a request deserves, from the source text alone.
Routed == IF scoped THEN { p \in Ids : request.store \in text.policies[p].stores } ELSE Ids
Due(effect) == { p \in Routed : p \in request.satisfied /\ text.policies[p].effect = effect }

Refusal ==
    IF scoped /\ request.store = Whole        THEN "PolicyStoreRoutingError"
    ELSE IF request.context = "bad"           THEN "ContextError"
    ELSE IF enforcing /\ ~request.admitted    THEN "RequestValidationError"
    ELSE IF request.entities = "attribute"    THEN "EntityAttrError"
    ELSE IF request.entities = "clash"        THEN "EntityError"
    ELSE "none"

TypeOK ==
    /\ LoaderTypeOK
    /\ request \in Requests /\ flags \in Flags
    /\ clock \in Nat /\ timers.started \in 0..clock
    /\ timers.phase \in [Phases -> Nat]
    /\ response \subseteq Policies

(***************************************************************************)
(* The answer is that of the source text, whoever measures, observes or    *)
(* asks for diagnostics: an error exactly if a step refuses the request,   *)
(* otherwise Deny, or Allow with every satisfied permit of the request's   *)
(* store as evidence. So metadata computed from the undivided set always   *)
(* resolves what Cedar names in a store, and from_cedar never fails closed *)
(* (evaluate_state, extract_permit_policies, Decision::from_cedar).        *)
(***************************************************************************)
AnswersFromText ==
    Finished =>
        IF Refusal # "none" THEN result = Err(Refusal)
        ELSE IF Due("forbid") = {} /\ Due("permit") # {}
        THEN result.kind = "allow" /\ result.permits = Due("permit") /\ result.forbids = {}
        ELSE result.kind = "deny" /\ result.permits = {}

(***************************************************************************)
(* Diagnostics of a Deny name every satisfied forbid by its @id, or by its *)
(* Cedar id if it has none, and nothing else; and only on request          *)
(* (extract_forbid_policy_ids, precompute_forbid_policy_ids).              *)
(***************************************************************************)
DiagnosticsNameForbids ==
    Finished /\ result.kind = "deny" =>
        result.forbids =
            IF flags.diagnostics
            THEN { IF text.policies[p].name = NoName THEN p ELSE text.policies[p].name : p \in Due("forbid") }
            ELSE {}

(***************************************************************************)
(* A sink hears of the decision that was made: of a Deny each forbid's     *)
(* name once, whether or not the caller asked for diagnostics; of an Allow *)
(* one name per permit (matched_policy_ids, to_owned_stats).               *)
(***************************************************************************)
StatsMatchDecision ==
    Finished /\ observed # NoResult =>
        /\ observed.kind = result.kind
        /\ \A n \in KnownNames :
              observed.matched[n] =
                  IF result.kind = "allow"
                  THEN Cardinality({ p \in Due("permit") : BestName(p) = n })
                  ELSE IF \E p \in Due("forbid") : BestName(p) = n THEN 1 ELSE 0

(***************************************************************************)
(* The phases a sink is told do not overlap: together they take no longer  *)
(* than the total, so that overhead_ms needs its max only for rounding;    *)
(* and nothing is measured for nobody (EvalTimers, PhaseTimer,             *)
(* build_entities).                                                        *)
(***************************************************************************)
PhasesFit ==
    /\ observed # NoResult =>
          observed.phase["labels"] + observed.phase["groups"] + observed.phase["entities"]
              + observed.phase["authz"] <= observed.total
    /\ ~Measured => timers.phase = NoTimers.phase
==============================================================================
