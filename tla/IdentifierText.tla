--------------------------- MODULE IdentifierText ----------------------------
(***************************************************************************)
(* Texts of Cedar entity identifiers and what the request types make of    *)
(* them: types/resource.rs split_string_into_cedar_parts, types/user.rs    *)
(* split_user_and_groups and the constructors of types/qualified_id.rs,    *)
(* user.rs, group.rs, action.rs, resource.rs and entity_uid.rs.            *)
(*                                                                         *)
(* A text is a sequence of characters; a word of Cedar's syntax and "::"   *)
(* count as one character. What cannot be parsed is Refused.               *)
(***************************************************************************)
EXTENDS Integers, Sequences, SequencesExt

CONSTANTS Letters, Refused

Kinds == {"User", "Group", "Action"}
Marks == {"::", "\"", "\\", "[", "]", ",", " "}
Chars == Letters \cup Kinds \cup Marks

\* What is read and made otherwise.
Texts == Seq(Chars)
Uids == [type : Seq(Texts), id : Texts]
QualifiedIds == [id : Texts, namespace : Seq(Texts), uid : Uids]
Users == [user : QualifiedIds, groups : Seq(QualifiedIds)]
Resources == [kind : Texts, id : Texts, attrs : { <<>> }, uid : Uids]
Splits == [name : Texts, groups : Seq(Texts)]

ASSUME TextConstants ==
    /\ Letters \cap (Kinds \cup Marks) = {}
    /\ Refused \notin Uids \cup QualifiedIds \cup Users \cup Resources \cup Splits \cup Seq(Texts)

----------------------------------------------------------------------------
(***************************************************************************)
(* Strings.                                                                *)
(***************************************************************************)
Has(t, chars) == \E i \in DOMAIN t : t[i] \in chars
At(t, c) == { i \in DOMAIN t : t[i] = c }
Before(t, i) == SubSeq(t, 1, i - 1)
After(t, i) == SubSeq(t, i + 1, Len(t))

Trim(t) ==
    LET kept == DOMAIN t \ At(t, " ")
    IN  IF kept = {} THEN <<>> ELSE SubSeq(t, Min(kept), Max(kept))

SplitBy(t, c) ==
    LET parts[i \in 0..Len(t)] ==
            LET read == parts[i - 1]
            IN  IF i = 0 THEN << <<>> >>
                ELSE IF t[i] = c THEN Append(read, <<>>)
                ELSE Append(Front(read), Append(Last(read), t[i]))
    IN  parts[Len(t)]

Join(ts) == FlattenSeq([i \in DOMAIN ts |-> IF i = 1 THEN ts[i] ELSE <<"::">> \o ts[i]])

----------------------------------------------------------------------------
(***************************************************************************)
(* Cedar: type names, string literals and entity UIDs in normal form.      *)
(***************************************************************************)
IsWord(t) == t # <<>> /\ ~Has(t, Marks)
IsTypeName(t) == \A word \in Range(SplitBy(t, "::")) : IsWord(word)

Uid(type, id) == [type |-> SplitBy(type, "::"), id |-> id]

Escape(id) ==
    FlattenSeq([i \in DOMAIN id |-> IF id[i] \in {"\"", "\\"} THEN <<"\\", id[i]>> ELSE <<id[i]>>])

\* Where a backslash begins an escape.
Escapes(body) ==
    LET begins[i \in 0..Len(body)] == i > 0 /\ body[i] = "\\" /\ ~begins[i - 1]
    IN  begins

Unescape(body) ==
    LET begins == Escapes(body)
    IN  FlattenSeq([i \in DOMAIN body |-> IF begins[i] THEN <<>> ELSE <<body[i]>>])

IsLiteral(t) ==
    /\ Len(t) >= 2 /\ t[1] = "\"" /\ t[Len(t)] = "\""
    /\ LET body == SubSeq(t, 2, Len(t) - 1) IN Escape(Unescape(body)) = body

\* Mutant: the id is put between quotes as it is.
ShowRaw(uid) == Join(uid.type) \o <<"::", "\"">> \o uid.id \o <<"\"">>

\* EntityUid::to_string, and the UIDs a text is such a string of.
Show(uid) == Join(uid.type) \o <<"::", "\"">> \o Escape(uid.id) \o <<"\"">>

UidsIn(t) ==
    { Uid(Before(t, i), Unescape(SubSeq(t, i + 2, Len(t) - 1))) :
        i \in { j \in At(t, "::") : IsTypeName(Before(t, j)) /\ IsLiteral(After(t, j)) } }

----------------------------------------------------------------------------
\* rsplit_once
Separator(t) == Max(At(t, "::"))

Shorthand(type, id) ==
    IF id = <<>> \/ Has(id, {"\"", "\\"}) \/ ~IsTypeName(type) THEN Refused ELSE Uid(type, id)

(***************************************************************************)
(* split_string_into_cedar_parts: a UID, an unqualified id, or the         *)
(* shorthand of a type and an unquoted id; t is trimmed. type is empty if   *)
(* there is none.                                                          *)
(***************************************************************************)
Parts(t) ==
    CASE UidsIn(t) # {} ->
            LET uid == CHOOSE u \in UidsIn(t) : TRUE
            IN  IF uid.id = <<>> THEN Refused ELSE uid
      [] UidsIn(t) = {} /\ ~Has(t, {"::"}) ->
            IF t = <<>> \/ Has(t, {"\"", "\\"}) THEN Refused ELSE [type |-> <<>>, id |-> t]
      [] OTHER -> Shorthand(Before(t, Separator(t)), After(t, Separator(t)))

\* QualifiedId::new: segments of a namespace are joined and parsed again.
NewId(kind, id, namespace) ==
    LET type == Join(Append(namespace, <<kind>>))
    IN  IF id = <<>> \/ ~IsTypeName(type) THEN Refused
        ELSE [id |-> id, namespace |-> namespace, uid |-> Uid(type, id)]

\* The type of an id may be left out, and is that of its kind otherwise.
IdOf(kind, parts) ==
    IF parts = Refused THEN Refused
    ELSE IF parts.type # <<>> /\ Last(parts.type) # <<kind>> THEN Refused
    ELSE NewId(kind, parts.id, IF parts.type = <<>> THEN <<>> ELSE Front(parts.type))

IdFrom(kind, t) == IdOf(kind, Parts(Trim(t)))

ActionFrom(t) == IdFrom("Action", t)
NewGroup(id, namespace) == NewId("Group", id, namespace)
GroupFrom(t) == IdFrom("Group", t)

\* Resource::new and FromStr: the type is mandatory and free.
NewResource(kind, id) ==
    IF id = <<>> \/ ~IsTypeName(kind) THEN Refused
    ELSE [kind |-> kind, id |-> id, attrs |-> <<>>, uid |-> Uid(kind, id)]

ResourceOf(parts) ==
    IF parts = Refused THEN Refused
    ELSE IF parts.type = <<>> THEN Refused ELSE NewResource(Join(parts.type), parts.id)

ResourceFrom(t) == ResourceOf(Parts(Trim(t)))

\* User::new: the groups get the namespace of the user.
NewUser(id, groups, namespace) ==
    LET user == NewId("User", id, namespace)
        made == [i \in DOMAIN groups |-> NewGroup(groups[i], namespace)]
    IN  IF user = Refused \/ \E i \in DOMAIN made : made[i] = Refused
        THEN Refused ELSE [user |-> user, groups |-> made]

----------------------------------------------------------------------------
(***************************************************************************)
(* split_user_and_groups: the first bracket outside of quotes begins the   *)
(* groups; a backslash in quotes hides the next character.                 *)
(***************************************************************************)
\* Mutant: a backslash hides nothing.
AfterCharBlind(state, c) ==
    IF c # "\"" THEN state ELSE IF state = "plain" THEN "quoted" ELSE "plain"

AfterChar(state, c) ==
    CASE state = "escaped"              -> "quoted"
      [] state = "quoted" /\ c = "\\"  -> "escaped"
      [] state = "quoted" /\ c = "\""  -> "plain"
      [] state = "plain"  /\ c = "\""  -> "quoted"
      [] OTHER                          -> state

Quoting(t) ==
    LET after[i \in 0..Len(t)] == IF i = 0 THEN "plain" ELSE AfterChar(after[i - 1], t[i])
    IN  after

GroupList(t) ==
    LET parts == SplitBy(t, ",")
        names == [i \in DOMAIN parts |-> Trim(parts[i])]
    IN  IF Trim(t) = <<>> THEN <<>>
        ELSE IF Has(t, {"[", "]"}) \/ \E i \in DOMAIN names : names[i] = <<>>
        THEN Refused ELSE names

UserAndGroups(t) ==
    LET input == Trim(t)
        state == Quoting(input)
        found == { i \in At(input, "[") \cup At(input, "]") : state[i - 1] = "plain" }
        start == Min(found)
        list  == GroupList(SubSeq(input, start + 1, Len(input) - 1))
    IN  IF found = {} THEN [name |-> input, groups |-> <<>>]
        ELSE IF input[start] = "]" \/ Last(input) # "]" \/ list = Refused THEN Refused
        ELSE [name |-> Trim(Before(input, start)), groups |-> list]

\* FromStr of User.
UserOf(name, groups) ==
    IF name = Refused THEN Refused ELSE NewUser(name.id, groups, name.namespace)

UserFrom(t) ==
    LET split == UserAndGroups(t)
    IN  IF split = Refused THEN Refused ELSE UserOf(IdFrom("User", split.name), split.groups)
==============================================================================
