------------------------------- MODULE MCShell -------------------------------
(***************************************************************************)
(* Shell for TLC: every line of up to MaxTokens tokens, and some longer    *)
(* ones that pipe, list, group and redirect at once.                       *)
(***************************************************************************)
EXTENDS Shell

CONSTANT MaxTokens

Token == {"a", "<", ">", "|", "&", ";", "(", ")"}

MCLines ==
  UNION { [1 .. n -> Token] : n \in 1 .. MaxTokens } \cup
  { <<"a", "|", "a", "|", "a">>,
    <<"a", "|", "a", ";", "a">>,
    <<"a", ";", "a", "|", "a">>,
    <<"a", "&", "|", "a", "a">>,
    <<"(", "a", "&", ")", "|", "a">>,
    <<"(", "a", ";", "a", ")", "|", "a">>,
    <<"a", "|", "(", "a", ";", "a", ")">>,
    <<"a", "<", "a", "|", "a", "+", "a">>,
    <<"(", "a", "|", "a", ")", "&", ";", "a">>,
    <<"(", "a", ";", "a", ")", "<", "a", ">", "a", ">", "a">> }
=============================================================================
