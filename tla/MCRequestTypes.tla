---------------------------- MODULE MCRequestTypes ---------------------------
(***************************************************************************)
(* An instance of RequestTypes: namespaces of one and two segments, one    *)
(* with a separator inside a segment, and malformed ones; texts typed from *)
(* nothing, after a type, and within and after UIDs whose ids hold quotes, *)
(* backslashes and brackets.                                               *)
(***************************************************************************)
EXTENDS RequestTypes

MCIds == { <<>>, <<"x">>, <<"x", "\"">> }

MCNamespaces ==
    { <<>>, << <<"x">> >>, << <<"x", "x">> >>, << <<"x">>, <<"x", "x">> >>,
      << <<"x", "::", "x", "x">> >>, << <<>> >>, << <<"x">>, <<"[">> >> }

MCTypes == { <<"x">>, <<"x", "::", "x", "x">>, <<"x", "::">> }

MCBeginnings ==
    { <<>>, <<"x", "::">>, <<"User", "::", "\"">>,
      <<"x", "::", "User", "::", "\"", "x">>,
      <<"User", "::", "\"", "\\", "\"", "\"">>,
      <<"User", "::", "\"", "[", "x", "]", "\"">>,
      <<"User", "::", "x", "[", "x">>,
      <<"User", "::", "\"", "x", "\"", "[">>,
      <<" ", "x", " ", "[", "x", ",">>,
      <<"Action", "::", "\"", "x", "\\">>,
      <<"x", "::", "Group", "::">> }
==============================================================================
