------------------------------- MODULE MCUsers -------------------------------
(***************************************************************************)
(* Keys for the users of an App: an anonymous one and one with an address. *)
(***************************************************************************)
EXTENDS App

MCKeys == {<<"a", "anon">>, <<"b", "email">>}
OneKey == {<<"b", "email">>}
=============================================================================
