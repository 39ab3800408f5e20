---------------------------- MODULE MCEvaluation -----------------------------
(***************************************************************************)
(* An instance of Evaluation: three policies, of which two can share an    *)
(* @id or one carry the Cedar id of another as its @id.                    *)
(***************************************************************************)
EXTENDS Evaluation, TLC

One(effects, names, verdicts, json, stores) ==
    [effect : effects, name : names, verdict : verdicts, json : json, stores : stores]

\* Texts that load in every way, for the evaluations.
GoodTexts ==
    { [parses |-> TRUE, policies |-> ("p0" :> a) @@ ("p1" :> b) @@ ("p2" :> c)] :
        a \in One({"permit"}, {NoName}, {"valid"}, {TRUE}, {{1, 2}}),
        b \in One({"permit", "forbid"}, {"n"}, {"warning"}, {TRUE}, {{2}}),
        c \in One({"forbid"}, {NoName, "n", "p1"}, {"valid"}, {TRUE}, {{1, 2}}) }

\* Texts for the loader: one policy of every kind beside a good one.
OddTexts ==
    { [parses |-> s, policies |-> ("p0" :> a) @@ ("p1" :> b)] :
        s \in BOOLEAN,
        a \in One({"permit", "forbid"}, {NoName}, Verdicts, {TRUE}, {{1}})
              \cup One({"permit", "forbid"}, {NoName}, {"valid"}, {FALSE}, {{1}})
              \cup One({"permit"}, {NoName}, {"valid"}, {TRUE}, {{}}),
        b \in One({"permit"}, {"n"}, {"valid"}, {TRUE}, {{2}}) }

MCTexts == GoodTexts \cup OddTexts

Plain(s, sat) ==
    [store |-> s, context |-> "none", admitted |-> TRUE, entities |-> "good", satisfied |-> sat]

MCRequests ==
    { Plain(s, sat) : s \in {1, 2}, sat \in SUBSET {"p0", "p1", "p2"} }
    \cup { [store |-> s, context |-> c, admitted |-> FALSE, entities |-> e, satisfied |-> {"p0"}] :
              s \in {1, Whole}, c \in {"good", "bad"}, e \in {"attribute", "clash"} }
==============================================================================
