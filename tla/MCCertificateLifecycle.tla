----------------------- MODULE MCCertificateLifecycle -----------------------
(* Instances of CertificateLifecycle for TLC: the .cfg files give the         *)
(* constants their values; this module names the certificates that exist at   *)
(* the start of a run and the symmetry of the ids drawn during one.           *)
EXTENDS CertificateLifecycle, TLC

CONSTANTS e1, s1

Nothing == <<>>
OneIssued == <<[serial |-> s1, enr |-> e1, email |-> Alice]>>

Used(field) == {Preissued[i][field] : i \in DOMAIN Preissued}
Symmetry ==
    Permutations(Worker) \union Permutations(Enrollment \ Used("enr"))
        \union Permutations(Serial \ Used("serial"))
=============================================================================
