-------------------------- MODULE MCSkyPeekShare --------------------------
(***************************************************************************)
(* Instances of SkyPeekShare for TLC.                                      *)
(***************************************************************************)
EXTENDS SkyPeekShare, TLC

ClientSymmetry == Permutations(Client)
===========================================================================
