----------------------------- MODULE Identifiers -----------------------------
(***************************************************************************)
(* What FromStr of users, groups, actions and resources reads in a text,   *)
(* compared with a grammar: every text that starts with one of Beginnings  *)
(* and goes on with at most MaxTyped characters.                           *)
(***************************************************************************)
EXTENDS IdentifierText

CONSTANTS Beginnings, MaxTyped

ASSUME IdentifierConstants ==
    Beginnings \subseteq Seq(Chars) /\ MaxTyped \in Nat

VARIABLES text, typed

textVars == <<text, typed>>

TextInit == text \in Beginnings /\ typed = 0

Type(c) ==
    /\ typed < MaxTyped
    /\ text' = Append(text, c) /\ typed' = typed + 1

Clear == text' = <<>> /\ typed' = 0

----------------------------------------------------------------------------
(***************************************************************************)
(* The grammar. A name is read from a text without spaces around it:       *)
(*    name  ::=  [type "::"] bare  |  type "::" literal                    *)
(*    user  ::=  name  |  name "[" [group {"," group}] "]"                 *)
(* where bare holds no quote and no backslash, and no bracket in a user.   *)
(* A group is any text but the empty one without commas and brackets, and  *)
(* as it stands it is the id: quotes, backslashes and separators in it     *)
(* belong to the id, spaces around it do not.                              *)
(***************************************************************************)
Bare(t) == t # <<>> /\ ~Has(t, {"\"", "\\"})

Unqualified(t) ==
    { [type |-> <<>>, id |-> t, bare |-> TRUE] : x \in { y \in {1} : Bare(t) /\ ~Has(t, {"::"}) } }

Qualified(t) ==
    UNION { LET type == SplitBy(Before(t, i), "::")
                rest == After(t, i)
            IN  IF Bare(rest) /\ ~Has(rest, {"::"})
                THEN { [type |-> type, id |-> rest, bare |-> TRUE] }
                ELSE { [type |-> type, id |-> Unescape(SubSeq(rest, 2, Len(rest) - 1)), bare |-> FALSE] :
                          x \in { y \in {1} : IsLiteral(rest) /\ Len(rest) > 2 } } :
            i \in { j \in At(t, "::") : IsTypeName(Before(t, j)) } }

NamesIn(t) == Unqualified(Trim(t)) \cup Qualified(Trim(t))

\* The uid a name stands for where one of this kind is wanted.
Meant(name, kind) ==
    [type |-> IF name.type = <<>> THEN << <<kind>> >> ELSE name.type, id |-> name.id]

ReadAs(kind) == { Meant(n, kind) : n \in { m \in NamesIn(text) : Last(Meant(m, kind).type) = <<kind>> } }

UserNames(t) ==
    { n \in NamesIn(t) : /\ n.bare => ~Has(n.id, {"[", "]"})
                         /\ Last(Meant(n, "User").type) = <<"User">> }

UsersRead ==
    LET t    == Trim(text)
        list(i) == SubSeq(t, i + 1, Len(t) - 1)
        entries(i) == IF Trim(list(i)) = <<>> THEN <<>>
                      ELSE [k \in DOMAIN SplitBy(list(i), ",") |-> Trim(SplitBy(list(i), ",")[k])]
        opens == { i \in At(t, "[") : /\ Last(t) = "]" /\ ~Has(list(i), {"[", "]"})
                                      /\ \A k \in DOMAIN entries(i) : entries(i)[k] # <<>> }
    IN  { [name |-> Meant(n, "User"), groups |-> <<>>] : n \in UserNames(t) }
        \cup UNION { { [name |-> Meant(n, "User"), groups |-> entries(i)] : n \in UserNames(Before(t, i)) } :
                     i \in opens }

----------------------------------------------------------------------------
(***************************************************************************)
(* A user is read exactly from the texts of the grammar, in the one way it *)
(* allows: with quotes, escapes and brackets anywhere, no part of a quoted *)
(* id is taken for groups, no group for a part of the id, and all groups   *)
(* are in the namespace of the user (split_user_and_groups, User FromStr). *)
(***************************************************************************)
UsersAsGrammar ==
    LET user == UserFrom(text)
    IN  /\ (user = Refused) = (UsersRead = {})
        /\ \A r \in UsersRead :
              /\ user.user.uid = r.name
              /\ [i \in DOMAIN user.groups |-> user.groups[i].uid]
                   = [i \in DOMAIN r.groups |->
                        [type |-> Append(Front(r.name.type), <<"Group">>), id |-> r.groups[i]]]

(***************************************************************************)
(* Groups and actions are read from the names of their own type or of      *)
(* none, resources from those of any type but of none; malformed quoting   *)
(* is never repaired (split_string_into_cedar_parts, FromStr).             *)
(***************************************************************************)
NamesAsGrammar ==
    /\ ReadAs("Group")  = IF GroupFrom(text) = Refused THEN {} ELSE { GroupFrom(text).uid }
    /\ ReadAs("Action") = IF ActionFrom(text) = Refused THEN {} ELSE { ActionFrom(text).uid }
    /\ LET read  == ResourceFrom(text)
           typeds == { [type |-> n.type, id |-> n.id] : n \in { m \in NamesIn(text) : m.type # <<>> } }
       IN  IF read = Refused THEN typeds = {} ELSE typeds = { read.uid }

(***************************************************************************)
(* What FromStr accepts and what it makes of it is what the grammar says,  *)
(* for users with their groups and for the names of everything else.       *)
(***************************************************************************)
ReadAsGrammar == UsersAsGrammar /\ NamesAsGrammar
==============================================================================
