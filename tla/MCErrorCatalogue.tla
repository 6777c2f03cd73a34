-------------------------- MODULE MCErrorCatalogue --------------------------
(* Finite instances of ErrorCatalogue. *)
EXTENDS ErrorCatalogue

Requirement == "core.requirement_failed"
ParseError  == "mesh.parse_error"

\* For the registry: two built-in codes, so that the insertion can be seen half
\* done, a code only the host knows, and definitions that take every branch of
\* MessageFromDefinition (the second has an empty en-gb text).
TwoBuiltins == <<Requirement, ParseError>>
HostCodes   == {"test.flexible_error"}
SomeDefinitions == {
  [l \in {PtBr, EnGb} |-> IF l = EnGb THEN Empty ELSE <<"user", l>>],
  [l \in {} |-> Empty]}
English == {EnGb}

\* For the language: no other codes, and languages of which one is unsupported.
OneBuiltin     == <<Requirement>>
NoCodes        == {}
FullAndEmpty   == {Localised("user"), [l \in {EnGb} |-> Empty]}
AnyLanguage    == {EnGb, "unsupported-language"}
=============================================================================
