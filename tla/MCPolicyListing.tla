--------------------------- MODULE MCPolicyListing ---------------------------
(***************************************************************************)
(* An instance of PolicyListing: two policies out of all forms of scope    *)
(* constraints, undivided or in two stores, and one later reload.          *)
(***************************************************************************)
EXTENDS PolicyListing, TLC

CONSTANTS view, edit

User(ns, id)  == [type |-> <<ns, "User">>, id |-> id]
Group(ns, id) == [type |-> <<ns, "Group">>, id |-> id]
Doc(id)       == [type |-> "Document", id |-> id]

Form(kind, type, uid) == [kind |-> kind, type |-> type, uid |-> uid]
AnyEntity == Form("any", None, None)

PrincipalForms ==
    { AnyEntity, Form("eq", None, User("Org", "ann")), Form("in", None, Group("Org", "ops")),
      Form("is", <<"Org", "User">>, None), Form("in", None, User("Org", "ann")),
      Form("isIn", <<"Org", "User">>, Group("Org", "ops")),
      Form("isIn", <<"Org", "Group">>, Group("Org", "ops")) }

ResourceForms ==
    { AnyEntity, Form("eq", None, Doc("d")), Form("in", None, Doc("d")),
      Form("is", "Document", None), Form("isIn", "Document", Doc("d")) }

\* One part of the scope varies at a time.
Texts(effect, conditional) ==
    { [effect |-> effect, principal |-> pr, action |-> [any |-> FALSE, list |-> {view}],
       resource |-> AnyEntity, conditional |-> conditional] : pr \in PrincipalForms }
    \cup
    { [effect |-> effect, principal |-> Form("in", None, Group("Org", "ops")), action |-> ac,
       resource |-> re, conditional |-> conditional] :
        ac \in {[any |-> TRUE, list |-> {}], [any |-> FALSE, list |-> {view, edit}]},
        re \in ResourceForms }

Installed(text) ==
    { [scoped |-> FALSE, sets |-> <<{1, 2}>>, text |-> text],
      [scoped |-> TRUE, sets |-> <<{1, 2}, {1}>>, text |-> text],
      [scoped |-> TRUE, sets |-> <<{2}, {1}>>, text |-> text] }

FirstTexts  == Texts("permit", FALSE)
SecondTexts == { t \in Texts("permit", TRUE) : t.resource = AnyEntity }
                 \cup { t \in Texts("forbid", FALSE) : t.principal = AnyEntity \/ t.action.any }

MCSnapshots ==
    UNION { Installed((1 :> t) @@ (2 :> u)) : t \in FirstTexts, u \in SecondTexts }

MCReloads ==
    { s \in MCSnapshots : s.sets = <<{2}, {1}>> /\ s.text[1].principal.kind = "eq"
                          /\ s.text[2].effect = "forbid" /\ s.text[2].principal = AnyEntity }

MCResources == {Doc("d"), Doc("e")}

Ann == [uid |-> User("Org", "ann"), groups |-> {Group("Org", "ops")}]
AnnAlone == [uid |-> User("Org", "ann"), groups |-> {}]
Ops == [uid |-> Group("Org", "ops"), groups |-> {}]

MCRequests ==
    [principal : {Ann, AnnAlone, Ops}, action : {view, edit}, resource : {Doc("d"), Doc("e")},
     holds : {{}, {2}}]

MCAsks ==
    { [kind |-> "request", request |-> r, effect |-> e] :
        r \in {q \in MCRequests : q.holds = {}}, e \in {"any"} }
    \cup { [kind |-> "request", request |-> r, effect |-> "permit"] :
        r \in {q \in MCRequests : q.principal = Ann /\ q.holds = {}} }
    \cup { [kind |-> "user", user |-> "ann", groups |-> g, namespace |-> n, resource |-> d, effect |-> e] :
        g \in {{}, {"ops"}, {"", "ops"}}, n \in {"Org", "1x"}, d \in {None, Doc("d")}, e \in {"any", "forbid"} }
    \cup { [kind |-> "group", group |-> "ops", namespace |-> "Org", resource |-> d, effect |-> "permit"] :
        d \in {None, Doc("d")} }
    \cup { [kind |-> "all"] }
==============================================================================
