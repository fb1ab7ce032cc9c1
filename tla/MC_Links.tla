----------------------------- MODULE MC_Links ------------------------------
(***************************************************************************)
(* Small instances of Links for TLC.                                       *)
(***************************************************************************)
EXTENDS Links

CONSTANTS l1, l2, s1, s2, s3
=============================================================================
