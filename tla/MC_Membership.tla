--------------------------- MODULE MC_Membership ---------------------------
(***************************************************************************)
(* Small instances of Membership for TLC.                                  *)
(***************************************************************************)
EXTENDS Membership, TLC

CONSTANTS s1, s2, s3, alice, bob, lobby, chat, o1, o2, o3

\* alice is a server operator and has two sessions, bob has one.
MCIdOf == [s \in Sessions |-> IF s = s3 THEN bob ELSE alice]

Addresses == Permutations(Objs)
=============================================================================
