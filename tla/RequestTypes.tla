---------------------------- MODULE RequestTypes -----------------------------
(***************************************************************************)
(* Building the parts of a request: principals, actions, resources with    *)
(* attributes and contexts are made from parts or read from JSON or from a *)
(* text, resources and contexts changed, and everything is handed to Cedar *)
(* by its cached UID and its attributes. The parts do not meet before the  *)
(* request is evaluated, so that one value at a time is enough.            *)
(***************************************************************************)
EXTENDS Identifiers

CONSTANTS
    None,         \* not made yet
    Ids,          \* ids a caller gives
    Namespaces,   \* namespaces a caller gives: sequences of segments
    Types,        \* types of resources
    AttrNames, Items

\* AttrValue, nested one level: a set keeps order and repetitions.
AttrValues == [isSet : BOOLEAN, items : BoundedSeq(Items \cup {"badIp"}, 2)]

Attributes == UNION { [names -> AttrValues] : names \in SUBSET AttrNames }

ASSUME RequestConstants ==
    /\ Ids \subseteq Seq(Chars) /\ Types \subseteq Seq(Chars)
    /\ Namespaces \subseteq Seq(Seq(Chars))
    /\ "id" \in AttrNames /\ "badIp" \notin Items

VARIABLES
    last,   \* the call that was last, if it made an id: arguments and outcome
    value   \* the value it returned, as [sort, it]; None: it refused

vars == <<textVars, last, value>>

GroupLists == BoundedSeq(Ids, 2)
Names == [id : Ids, namespace : Namespaces]

----------------------------------------------------------------------------
(***************************************************************************)
(* Values.                                                                 *)
(***************************************************************************)
\* entity_uid.rs: the UIDs listings by name build without the request types.
\* Mutant: an empty id is left to Cedar.
TypedEntityUidAny(kind, id, namespace) ==
    LET type == Join(Append(namespace, <<kind>>))
    IN  IF ~IsTypeName(type) THEN Refused ELSE Uid(type, id)

TypedEntityUid(kind, id, namespace) ==
    LET type == IF namespace = <<>> THEN <<kind>> ELSE Join(namespace) \o <<"::", kind>>
    IN  IF id = <<>> \/ ~IsTypeName(type) THEN Refused ELSE Uid(type, id)

\* A valid value: addresses are validated when they are made or read.
IsValid(v) == "badIp" \notin Range(v.items)

\* to_re: Cedar's sets have no order and no repetitions.
ToExpression(v) == [isSet |-> v.isSet, items |-> Range(v.items)]

Insert(attrs, name, v) == [n \in DOMAIN attrs \cup {name} |-> IF n = name THEN v ELSE attrs[n]]

Identity(id) == [isSet |-> FALSE, items |-> {id}]

Expressions(attrs) == [n \in DOMAIN attrs |-> ToExpression(attrs[n])]

\* Mutant: what the caller set comes last.
CallerWins(r) ==
    LET own == Insert(<<>>, "id", Identity(r.id))
    IN  [n \in DOMAIN r.attrs \cup {"id"} |->
            IF n \in DOMAIN r.attrs THEN ToExpression(r.attrs[n]) ELSE own[n]]

CedarAttr(r) == Insert(Expressions(r.attrs), "id", Identity(r.id))

IdToJson(id) == [id |-> id.id, namespace |-> id.namespace]

UserToJson(user) ==
    [id |-> IdToJson(user.user), groups |-> [i \in DOMAIN user.groups |-> IdToJson(user.groups[i])]]

IdFromJson(kind, json) == NewId(kind, json.id, json.namespace)

\* Mutant: the namespaces of the groups are not compared.
UserFromJsonUnchecked(json) ==
    LET user   == IdFromJson("User", json.id)
        groups == [i \in DOMAIN json.groups |-> IdFromJson("Group", json.groups[i])]
    IN  IF user = Refused \/ \E i \in DOMAIN groups : groups[i] = Refused
        THEN Refused ELSE [user |-> user, groups |-> groups]

UserFromJson(json) ==
    LET user == UserFromJsonUnchecked(json)
    IN  IF \E i \in DOMAIN json.groups : json.groups[i].namespace # json.id.namespace
        THEN Refused ELSE user

ResourceToJson(r) == [kind |-> r.kind, id |-> r.id, attrs |-> r.attrs]

ResourceFromJson(json) ==
    LET made == NewResource(json.kind, json.id)
    IN  IF made = Refused \/ \E n \in DOMAIN json.attrs : ~IsValid(json.attrs[n])
        THEN Refused ELSE [made EXCEPT !.attrs = json.attrs]

----------------------------------------------------------------------------
Init == TextInit /\ last = None /\ value = None

Idle == value = None /\ text = <<>> /\ UNCHANGED textVars

Attempt(kind, id, namespace) ==
    LET made == NewId(kind, id, namespace)
    IN  last' = [kind |-> kind, id |-> id, namespace |-> namespace,
                 uid |-> IF made = Refused THEN Refused ELSE made.uid]

Result(sort, made) == value' = IF made = Refused THEN None ELSE [sort |-> sort, it |-> made]

Is(sort) == value # None /\ value.sort = sort

MakeUser(id, groups, namespace) ==
    Idle /\ Attempt("User", id, namespace) /\ Result("User", NewUser(id, groups, namespace))

ReadUser(json) == Idle /\ Result("User", UserFromJson(json)) /\ last' = None

\* Group::new and Action::new
MakeName(kind, id, namespace) ==
    Idle /\ Attempt(kind, id, namespace) /\ Result(kind, NewId(kind, id, namespace))

MakeResource(type, id) == Idle /\ Result("Resource", NewResource(type, id)) /\ last' = None

ReadResource(json) == Idle /\ Result("Resource", ResourceFromJson(json)) /\ last' = None

MakeContext == Idle /\ Result("Context", <<>>) /\ last' = None

\* The caller composes a text and has it read.
TypeText(c) ==
    /\ value = None /\ Type(c)
    /\ last' = None /\ UNCHANGED value

FromStr(sort, t) ==
    CASE sort = "User"               -> UserFrom(t)
      [] sort \in {"Group", "Action"} -> IdFrom(sort, t)
      [] sort = "Resource"           -> ResourceFrom(t)

ReadText(sort) ==
    /\ value = None /\ text # <<>>
    /\ Result(sort, FromStr(sort, text))
    /\ Clear /\ last' = None

\* with_attr and attrs(): values that are not valid cannot be made.
SetAttr(name, v) ==
    /\ Is("Resource") /\ IsValid(v)
    /\ value' = [value EXCEPT !.it.attrs = Insert(@, name, v)]
    /\ last' = None /\ UNCHANGED textVars

RemoveAttr(name) ==
    /\ Is("Resource") /\ name \in DOMAIN value.it.attrs
    /\ value' = [value EXCEPT !.it.attrs = [n \in DOMAIN @ \ {name} |-> @[n]]]
    /\ last' = None /\ UNCHANGED textVars

SetContext(name, v) ==
    /\ Is("Context") /\ IsValid(v)
    /\ value' = [value EXCEPT !.it = Insert(@, name, v)]
    /\ last' = None /\ UNCHANGED textVars

Drop == value # None /\ value' = None /\ last' = None /\ UNCHANGED textVars

Next ==
    \/ \E c \in Chars : TypeText(c)
    \/ \E sort \in Kinds \cup {"Resource"} : ReadText(sort)
    \/ \E id \in Ids, namespace \in Namespaces :
          \/ \E groups \in GroupLists : MakeUser(id, groups, namespace)
          \/ \E kind \in {"Group", "Action"} : MakeName(kind, id, namespace)
    \/ \E name \in Names, groups \in BoundedSeq(Names, 1) : ReadUser([id |-> name, groups |-> groups])
    \/ \E type \in Types, id \in Ids :
          \/ MakeResource(type, id)
          \/ \E attrs \in Attributes : ReadResource([kind |-> type, id |-> id, attrs |-> attrs])
    \/ MakeContext
    \/ \E name \in AttrNames :
          \/ RemoveAttr(name)
          \/ \E v \in AttrValues : SetAttr(name, v) \/ SetContext(name, v)
    \/ Drop

Spec == Init /\ [][Next]_vars

----------------------------------------------------------------------------
(***************************************************************************)
(* A user is a member of groups of its own namespace only, however it was  *)
(* made: a group of the same name elsewhere grants nothing (User::new,     *)
(* User::deserialize).                                                     *)
(***************************************************************************)
GroupsInUsersNamespace ==
    Is("User") =>
        \A i \in DOMAIN value.it.groups :
            Front(value.it.groups[i].uid.type) = Front(value.it.user.uid.type)

(***************************************************************************)
(* A listing by names and a request by values name the same entity, and    *)
(* refuse the same names (typed_entity_uid, QualifiedId::new).             *)
(***************************************************************************)
NamesAndValuesAgree ==
    last # None => TypedEntityUid(last.kind, last.id, last.namespace) = last.uid

(***************************************************************************)
(* Cedar sees a resource under the id of its UID, whatever attribute id    *)
(* the caller set, removed or sent, every other attribute as it was given, *)
(* and no address that was not validated (Resource::cedar_attr, with_attr, *)
(* attrs, CedarIp).                                                        *)
(***************************************************************************)
CanonicalId ==
    Is("Resource") =>
        LET seen == CedarAttr(value.it)
        IN  /\ seen["id"] = Identity(value.it.uid.id)
            /\ DOMAIN seen = DOMAIN value.it.attrs \cup {"id"}
            /\ \A n \in DOMAIN seen \ {"id"} : seen[n] = ToExpression(value.it.attrs[n])
            /\ \A n \in DOMAIN value.it.attrs : IsValid(value.it.attrs[n])

(***************************************************************************)
(* A value that is displayed, and one that is written as JSON without its  *)
(* UID, is read again as the same entity: quotes and escapes are undone,   *)
(* and a namespace may be spelled in any way. A rendering leaves out the   *)
(* groups and the attributes, JSON nothing (Display, FromStr, Serialize    *)
(* and Deserialize of the request types).                                  *)
(***************************************************************************)
ReadsBack ==
    /\ \A kind \in {"Group", "Action"} : Is(kind) =>
          /\ LET read == IdFrom(kind, Show(value.it.uid))
             IN  read # Refused /\ read.uid = value.it.uid
          /\ IdFromJson(kind, IdToJson(value.it)) = value.it
    /\ Is("User") =>
          /\ LET read == UserFrom(Show(value.it.user.uid))
             IN  read # Refused /\ read.user.uid = value.it.user.uid /\ read.groups = <<>>
          /\ UserFromJson(UserToJson(value.it)) = value.it
    /\ Is("Resource") =>
          /\ ResourceFrom(Show(value.it.uid)) = [value.it EXCEPT !.attrs = <<>>]
          /\ ResourceFromJson(ResourceToJson(value.it)) = value.it
==============================================================================
