----------------------------- MODULE MCBuilder -----------------------------
(***************************************************************************)
(* The names of a tree of three levels next to an atomic state: enough for *)
(* a state to be declared before its parent and its grandparent.           *)
(***************************************************************************)
EXTENDS Builder

MCRootName == <<"app">>

MCName == {MCRootName, <<"a">>, <<"a", "b">>, <<"a", "b", "c">>, <<"off">>}
=============================================================================
