---------------------------- MODULE MCNamespace -----------------------------
(* TLC instance of Namespace: the bounds are in the .cfg file.             *)
EXTENDS Namespace

TwoLevels == {<<"a">>, <<"b">>, <<"a", "x">>, <<"b", "x">>}
=============================================================================
