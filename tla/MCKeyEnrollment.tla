--------------------------- MODULE MCKeyEnrollment ---------------------------
(* Instances of KeyEnrollment for TLC.                                        *)
EXTENDS KeyEnrollment, TLC

Nothing == <<>>
Symmetry ==
    Permutations(Worker) \union Permutations(Enrollment) \union Permutations(Serial)
        \union Permutations(Challenge)
=============================================================================
