----------------------------- MODULE MC_RoomAcl -----------------------------
(***************************************************************************)
(* Small instances of RoomAcl for TLC.                                     *)
(***************************************************************************)
EXTENDS RoomAcl, TLC

CONSTANTS s1, s2, alice, bob

MCIdOf == [s \in Sessions |-> IF s = s1 THEN alice ELSE bob]

=============================================================================
