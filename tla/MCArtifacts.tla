----------------------------- MODULE MCArtifacts -----------------------------
(***************************************************************************)
(* A small instance of the artifact cache for TLC.  The two syncs differ   *)
(* in name only.                                                           *)
(***************************************************************************)
EXTENDS ArtifactCache, TLC

CONSTANTS p1, p2

Symmetry == Permutations(Syncs)
=============================================================================
