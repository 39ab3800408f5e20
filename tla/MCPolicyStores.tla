--------------------------- MODULE MCPolicyStores ----------------------------
(***************************************************************************)
(* Instances of PolicyStores.                                              *)
(***************************************************************************)
EXTENDS PolicyStores

CONSTANTS p1, p2

Co        == <<"Co">>
DNS       == <<"Co", "DNS">>
Admin     == <<"Co", "DNS", "Admin">>
WWW       == <<"Co", "WWW">>
DnsUser   == <<"Co", "DNS", "User">>
DnsAction == <<"Co", "DNS", "Action">>
Host      == <<"Co", "DNS", "Admin", "Host">>
WwwAction == <<"Co", "WWW", "Action">>
Site      == <<"Co", "WWW", "Site">>
OrgUser   == <<"Org", "User">>
OrgAction == <<"Org", "Action">>
Document  == <<"Org", "Document">>

\* One text joins two identifiers, as a caller may pass it for a segment.
MCComponents == {"Co", "DNS", "Co::DNS", "Admin", "WWW", "User", "Action", "Host", "Site",
                 "Org", "Document"}

MCParsed == [ c \in MCComponents |-> IF c = "Co::DNS" THEN DNS ELSE <<c>> ]

MCNames == {DNS, DnsUser, DnsAction, Host, WWW, WwwAction, Site, OrgUser, OrgAction, Document}

\* Every declaration of up to three stores over nested, sibling and equal
\* namespaces.
NestedNamespaces == {Co, DNS, Admin, WWW}
NestedLayouts    == UNION { [1..n -> [id : StoreIds, namespace : NestedNamespaces]] : n \in 0..3 }
NestedNames      == MCNames \cup NestedNamespaces

\* Partitioning: two independent stores, and two whose second root is an
\* action type, which policies name but no request's action namespace does.
StoreNamespaces == {DNS, WWW, WwwAction}

TwoStores(www) == << [id |-> "dns", namespace |-> DNS], [id |-> "www", namespace |-> www] >>

TwoStoreLayouts == { TwoStores(WWW), TwoStores(WwwAction) }

AllNamespaces == NestedNamespaces \cup StoreNamespaces
AllLayouts    == NestedLayouts \cup TwoStoreLayouts

\* Policies by their assignment marks and the types they name; no action
\* listed stands for an unconstrained one.
Contents(ids, annotations, effects, principals, actions, resources, conditions) ==
    UNION { [ id : ids, store : annotations, effect : effects, principal : principals,
              anyAction : {list = {}}, action : {list},
              resource : resources, condition : conditions ] : list \in actions }

Scoped(effect, principals) ==
    Contents({NoId}, {NoAnnotation}, {effect}, principals,
             {{}, {DnsAction}, {DnsAction, OrgAction}, {WwwAction}},
             {{}, {Host}, {Site}}, {{}, {OrgUser}})

Marked(effect, principals, actions) ==
    Contents({NoId, "g"}, Annotations, {effect}, principals, actions, {{}}, {{}, {OrgUser}})

MixedSources ==
    { p1 :> permit @@ p2 :> forbid :
        permit \in Scoped("permit", {{}}) \cup Marked("permit", {{}}, {{}, {DnsAction}}),
        forbid \in Scoped("forbid", {{}, {DnsUser}}) \cup Marked("forbid", {{}, {DnsUser}}, {{}}) }

RequestsIn(namespaces) ==
    [ principal : {{OrgUser}, {DnsUser, OrgUser}},
      namespace : namespaces,
      resource  : {Host, Site, Document},
      facts     : {{}, {OrgUser}} ]

SegmentedRequests == RequestsIn({DNS, WWW, <<"Org">>})
MCRequests        == SegmentedRequests \cup RequestsIn({ <<"Co::DNS">> })

\* Every layout with a source whose policies go everywhere, and the layouts of
\* two stores with every source.
Everywhere ==
    CHOOSE mixed \in MixedSources : \A p \in Policies : mixed[p].store = AllStores

MCInit ==
    \/ source = Everywhere /\ Init
    \/ stores \in TwoStoreLayouts /\ Init

MCSpec == MCInit /\ [][Next]_vars

\* For the documentation's claims: sources without marks.
PlainSources ==
    { p1 :> permit @@ p2 :> forbid : permit \in Scoped("permit", {{}}), forbid \in Scoped("forbid", {{}, {DnsUser}}) }
==============================================================================
