--------------------------- MODULE MCLabelRegistry ---------------------------
(***************************************************************************)
(* An instance of LabelRegistry: regex and custom labelers on two types,   *)
(* two of them competing for one target, and three that read what another  *)
(* one writes.                                                             *)
(***************************************************************************)
EXTENDS LabelRegistry, TLC

CONSTANTS host, app, i1, s1, s2, prod, name, tags, env,
          nameTags, nameTagsToo, tagsEnv, envName, appTags

MCTarget(l) ==
    CASE l = nameTags    -> [type |-> host, attribute |-> tags]
      [] l = nameTagsToo -> [type |-> host, attribute |-> tags]
      [] l = tagsEnv     -> [type |-> host, attribute |-> env]
      [] l = envName     -> [type |-> host, attribute |-> name]
      [] l = appTags     -> [type |-> app, attribute |-> tags]

MCDerive(l, r) ==
    CASE l \in {nameTags, nameTagsToo} -> RegexDerive(name, prod :> {s1}, r)
      [] l = tagsEnv -> IF r.attrs[tags] = {prod} THEN {prod} ELSE Absent
      [] l = envName -> IF r.attrs[env] = Absent THEN s2 ELSE s1
      [] l = appTags -> IF r.id = i1 THEN {prod} ELSE {}

MCResources ==
    { [type |-> t, id |-> i1, attrs |-> name :> n @@ tags :> g @@ env :> e] :
        t \in {host, app}, n \in {s1, s2, {prod}}, g \in {Absent, s1, {prod}},
        e \in {Absent, {prod}} }
==============================================================================
