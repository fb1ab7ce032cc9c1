--------------------------- MODULE MC_Transcript ---------------------------
(***************************************************************************)
(* Small instances of Transcript for TLC.                                  *)
(***************************************************************************)
EXTENDS Transcript, TLC

CONSTANTS lobby, chat

Rooms == Permutations(Names)
=============================================================================
