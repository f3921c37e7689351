------------------------------- MODULE MCEcs -------------------------------
(***************************************************************************)
(* Model of Ecs for TLC: components are alike, so their ids are symmetric.  *)
(***************************************************************************)
EXTENDS Ecs, TLC

IdSymmetry == Permutations(Ids)
=============================================================================
