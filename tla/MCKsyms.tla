------------------------------ MODULE MCKsyms -------------------------------
(* Two names, the longer of which exceeds a third of the least capacity;   *)
(* addresses below, at, between and above those of the symbols.            *)
EXTENDS KsymsLookup

MCNameLen == (1 :> 1) @@ (2 :> 5)
=============================================================================
