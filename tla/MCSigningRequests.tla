-------------------------- MODULE MCSigningRequests --------------------------
(* Instances of SigningRequests for TLC.                                      *)
EXTENDS SigningRequests, TLC

CONSTANTS e1, s1

Nothing == <<>>
OneIssued == <<[serial |-> s1, enr |-> e1, email |-> Alice]>>

Symmetry == Permutations(Worker) \union Permutations(Request) \union Permutations(File)
=============================================================================
