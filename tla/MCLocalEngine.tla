---------------------------- MODULE MCLocalEngine ----------------------------
(***************************************************************************)
(* Two calls of the engine on two files, one of which only asks for a      *)
(* stored result, while the files are written twice and one blob is        *)
(* damaged.                                                                *)
(***************************************************************************)
EXTENDS LocalEngine

ASSUME EngineAssumption
=============================================================================
