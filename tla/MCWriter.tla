------------------------------ MODULE MCWriter ------------------------------
(***************************************************************************)
(* Small instances of Writer.  Two keys share a namespace and one lives in *)
(* another; a payload's body "x" or "y" tells its contents apart.          *)
(***************************************************************************)
EXTENDS Writer

MCKeys == {"a", "b", "c"}
MCNsOf == [k \in MCKeys |-> IF k = "c" THEN "n2" ELSE "n1"]

Doc(k, body, sup) == [key |-> k, body |-> body, sup |-> sup]

\* "b" may or may not retire "a" of its own namespace and "c" of another; "a" has
\* two contents.
PairPayloads ==
  {Doc("a", "x", <<>>), Doc("a", "y", <<>>), Doc("b", "x", <<"c", "a">>),
   Doc("b", "y", <<>>), Doc("c", "x", <<>>)}

\* Every key has a single content.
SinglePayloads ==
  {Doc("a", "x", <<>>), Doc("b", "x", <<"a">>), Doc("c", "x", <<"b", "a">>)}

NoDeclarations == {}
ToolDeclarations == {[succ |-> "b", preds |-> <<"a">>]}

\* Two versions of two keys and a tool call: what writers that race can do.
RacePayloads == {Doc("a", "x", <<>>), Doc("a", "y", <<>>), Doc("b", "x", <<"a">>)}
=============================================================================
