------------------------------ MODULE MCNucleus ------------------------------
(***************************************************************************)
(* Instances of Nucleus for TLC.                                           *)
(***************************************************************************)
EXTENDS Nucleus, TLC

Symmetric == Permutations(Proc)
=============================================================================
