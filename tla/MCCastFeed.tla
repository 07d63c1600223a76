----------------------------- MODULE MCCastFeed -----------------------------
(***************************************************************************)
(* An instance of CastFeed for TLC.                                        *)
(***************************************************************************)
EXTENDS CastFeed, TLC

Symmetry == Permutations(Client) \cup Permutations(Item)
=============================================================================
