---------------------------- MODULE MCBlindTokens ----------------------------
(* Instances of BlindTokens for TLC.                                          *)
EXTENDS BlindTokens, TLC

Symmetry == Permutations(Worker) \union Permutations(Token) \union Permutations(Key)
=============================================================================
