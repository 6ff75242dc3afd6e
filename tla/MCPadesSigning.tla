--------------------------- MODULE MCPadesSigning ---------------------------
(* Instances of PadesSigning for TLC.                                         *)
EXTENDS PadesSigning, TLC

Symmetry == Permutations(Worker) \union Permutations(Gen)
=============================================================================
