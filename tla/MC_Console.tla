----------------------------- MODULE MC_Console -----------------------------
(* An instance of Console for TLC. *)
EXTENDS Console

SomeLines == {<<>>, <<"y">>, <<"n">>, <<"a", "y">>, <<"a", "FF", "y">>,
              <<"a", "a", "a", "a", "y">>}
=============================================================================
