-------------------------- MODULE MCSigningVerdict --------------------------
(* Instances of SigningVerdict for TLC.                                       *)
EXTENDS SigningVerdict, TLC

Symmetry == Permutations(Worker) \union Permutations(Key)
=============================================================================
