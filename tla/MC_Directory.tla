---------------------------- MODULE MC_Directory ----------------------------
(***************************************************************************)
(* Small instances of Directory for TLC.                                   *)
(***************************************************************************)
EXTENDS Directory, TLC

CONSTANTS alice, bob, carol, a1, a2, b1

MCOwner == (a1 :> alice @@ a2 :> alice @@ b1 :> bob)
MCOwnerOnSessions == [s \in Sessions |-> MCOwner[s]]

Sam == <<"sam">>
MCWants == {Sam}
=============================================================================
