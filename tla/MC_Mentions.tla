---------------------------- MODULE MC_Mentions ----------------------------
(***************************************************************************)
(* Small instances of Mentions for TLC.                                    *)
(***************************************************************************)
EXTENDS Mentions, TLC

CONSTANTS s1, s2, s3, alice, bob, m1, m2, m3

\* alice has two links and bob one.
MCOwner == [s \in Sessions |-> IF s = s3 THEN bob ELSE alice]

\* Messages differ only by when they come.
Lines == Permutations(Messages)
=============================================================================
