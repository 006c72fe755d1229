------------------------------- MODULE MCLsp -------------------------------
(* Instances of LumiLsp. *)
EXTENDS LumiLsp

MCIds == <<"1", "2", "3", "4">>
=============================================================================
