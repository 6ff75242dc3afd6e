------------------------- MODULE CertificateProfiles -------------------------
(***************************************************************************)
(* What the demo PKI puts into the certificates it builds, and what it     *)
(* demands of the certificates it finds.  The two are written separately,  *)
(* extension by extension, and init_demo_pki relies on their agreeing: a   *)
(* certificate it has just built must pass the check that would build it   *)
(* again.  Names, validity periods and keys are left out.                  *)
(***************************************************************************)

Role == {"root", "intermediate", "signer", "tsa", "ocsp"}

\* Extensions that identify the keys, and those that publish where to ask.
Identified == {"SKI", "AKI"}
Published == {"CRLDistributionPoints", "AIA", "CertificatePolicies"}

\* What _build_ca_cert, _build_user_cert and _build_service_cert put in.
BuiltCa(isRoot) ==
    [ca |-> TRUE, pathLength |-> IF isRoot THEN "none" ELSE "zero", selfIssued |-> isRoot,
     usage |-> {"keyCertSign", "cRLSign"}, eku |-> {},
     has |-> Identified \union IF isRoot THEN {} ELSE Published]
BuiltUser ==
    [ca |-> FALSE, pathLength |-> "none", selfIssued |-> FALSE,
     usage |-> {"digitalSignature", "contentCommitment"}, eku |-> {},
     has |-> Identified \union {"SAN"} \union Published]
\* Faulty variant of BuiltService: it does not say where revocation is published.
BuiltUnpublished(eku) ==
    [ca |-> FALSE, pathLength |-> "none", selfIssued |-> FALSE,
     usage |-> {"digitalSignature"}, eku |-> {eku}, has |-> Identified]
BuiltService(eku) ==
    [ca |-> FALSE, pathLength |-> "none", selfIssued |-> FALSE,
     usage |-> {"digitalSignature"}, eku |-> {eku},
     has |-> Identified \union Published \union IF eku = "OCSPSigning" THEN {"OCSPNoCheck"} ELSE {}]

\* The certificates of init_demo_pki, by role.
Built(role) ==
    CASE role = "root" -> BuiltCa(TRUE)
      [] role = "intermediate" -> BuiltCa(FALSE)
      [] role = "signer" -> BuiltUser
      [] role = "tsa" -> BuiltService("timeStamping")
      [] role = "ocsp" -> BuiltService("OCSPSigning")

ValidSigner(c) ==
    /\ ~c.ca
    /\ {"digitalSignature", "contentCommitment"} \subseteq c.usage /\ "keyCertSign" \notin c.usage
    /\ Identified \union {"SAN"} \union Published \subseteq c.has
ValidCa(c, expectedRoot) ==
    /\ c.ca
    /\ {"keyCertSign", "cRLSign"} \subseteq c.usage
    /\ Identified \subseteq c.has
    /\ IF expectedRoot THEN c.selfIssued ELSE c.pathLength = "zero" /\ Published \subseteq c.has
ValidService(c, eku) ==
    /\ ~c.ca
    /\ "digitalSignature" \in c.usage /\ "keyCertSign" \notin c.usage
    /\ eku \in c.eku
    /\ Identified \union Published \subseteq c.has

\* The validator _demo_pki_is_current applies to the certificate of a role.
ValidAs(c, role) ==
    CASE role = "root" -> ValidCa(c, TRUE)
      [] role = "intermediate" -> ValidCa(c, FALSE)
      [] role = "signer" -> ValidSigner(c)
      [] role = "tsa" -> ValidService(c, "timeStamping")
      [] role = "ocsp" -> ValidService(c, "OCSPSigning")

\* _certificate_profile_name: the role that describe_demo_pki shows.
ProfileName(c) ==
    IF c.ca THEN (IF c.selfIssued THEN "root" ELSE "intermediate")
    ELSE IF "timeStamping" \in c.eku THEN "tsa"
    ELSE IF "OCSPSigning" \in c.eku THEN "ocsp" ELSE "signer"
=============================================================================
