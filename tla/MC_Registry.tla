---------------------------- MODULE MC_Registry ----------------------------
(***************************************************************************)
(* Small instances of Registry for TLC.                                    *)
(***************************************************************************)
EXTENDS Registry

CONSTANTS lobby, chat
=============================================================================
