---------------------------- MODULE PadesSigning ----------------------------
(***************************************************************************)
(* The PAdES engine of the SecureDoc backend on top of the demo PKI:       *)
(* sign_pdf_pades_blt and the client-side prepare and finalize, with the   *)
(* handlers of the signing service that call them.                         *)
(*                                                                         *)
(* A handler loads the signer's certificate, the timestamping key, a CRL   *)
(* and an OCSP response one after the other, some through the getters of   *)
(* the PKI and some straight from the files, and then signs and verifies.  *)
(* Cryptography is abstracted to which generation of keys made what; what  *)
(* pyHanko accepts is modelled from how the code uses it.                  *)
(***************************************************************************)
EXTENDS DemoPKI

CONSTANT MaxPdfs   \* PDF files signed in an instance

(* A certificate: its serial, and the generation whose intermediate key       *)
(* signed it.  The key of a demo certificate is the user key of its serial's  *)
(* generation; the key of a user's certificate is with the user.              *)
Serial == Gen \union UserCert
\* Serial numbers are drawn at random: a user's certificate has none of the demo PKI.
ASSUME SerialAssumption == Gen \cap UserCert = {}
DemoCert(g) == [serial |-> g, by |-> g]
CertOf(u) == [serial |-> u, by |-> u.by]
Certificate == [serial : Serial, by : Gen]

\* The key and certificate a timestamper was built from; None when it cannot be built.
Stamper == [cert : Gen, key : Gen] \union {None}

(* What collect_validation_info gathered: who signed the CRL and whether it   *)
(* lists the signer, whether the OCSP response calls the signer revoked, and  *)
(* the two CA certificates of the validation context.                         *)
Evidence == [crlBy : Gen, listed : BOOLEAN, bad : BOOLEAN, root : Gen, inter : Gen]
Nothing == [crlBy |-> None, listed |-> FALSE, bad |-> FALSE, root |-> None, inter |-> None]

Profile == {"PAdES-B-B", "PAdES-B-T", "PAdES-B-LT"}

(* "achieved" is what the signing handler stored with the file.  History:     *)
(* "recomputed" is what validate_pades_blt_requirements would have answered   *)
(* then; "moved", whether the intermediate CA on file was another one by then *)
(* than the signer's; "late", whether the signer's certificate had been       *)
(* revoked when the handler began.                                            *)
Pdf ==
    [cert : Certificate, key : Serial, stamp : Stamper, dss : BOOLEAN,
     achieved : Profile, recomputed : Profile, moved : BOOLEAN, late : BOOLEAN]

VARIABLES
    pdfs,      \* _SIGNED_PDF_FILES with the signed files
    presigns,  \* _CLIENT_PDF_PRESIGNS
    job        \* per worker, the signing handler it runs

padesVars == <<pdfs, presigns, job>>
all == <<pkiVars, padesVars>>

Stage == {"none", "status", "record", "match", "crl", "ocsp", "sign", "finalize"}
IdleJob ==
    [stage |-> "none", serial |-> None, cert |-> None, stamp |-> None, ev |-> Nothing, was |-> {}]

\* A step of this module that leaves the PKI's files and lists alone.
PkiSame == UNCHANGED <<disk, records, enrolled, revoked, issued, cut, crashed>>
Doing(w, st) == job[w].stage = st /\ At(w, "caller")
Loaded(w, st) == job[w].stage = st /\ At(w, "load") /\ call[w].todo = <<>>
Set(w, j) == job' = [job EXCEPT ![w] = j]
End(w) == Become(w, Idle) /\ Set(w, IdleJob)
Fetch(w, files) == Become(w, [Idle EXCEPT !.at = "load", !.todo = files])
Synchronise(w) == Become(w, [Idle EXCEPT !.at = "sync", !.back = <<To("caller")>>])

PadesInit == PkiInit /\ pdfs = {} /\ presigns = {} /\ job = [w \in Worker |-> IdleJob]
-----------------------------------------------------------------------------
(* sign_pdf_request and prepare_client_pdf_signature up to the signer's       *)
(* certificate.  The serial is the one the request was prepared for.          *)

StartSign(w) ==
    /\ "sign" \in Requests
    /\ Cardinality(pdfs \union presigns) + Cardinality({v \in Worker : job[v].stage # "none"}) < MaxPdfs
    /\ \E s \in Listing \union issued :
        /\ Begin(w, [Idle EXCEPT !.at = "sync", !.back = <<To("caller")>>])
        /\ Set(w, [IdleJob EXCEPT !.stage = "status", !.serial = s, !.was = revoked])
    /\ PkiSame /\ UNCHANGED <<pdfs, presigns>>

\* _assert_certificate_usable
Usable(s) == s \in (Listing \union issued) \ revoked

Status(w) ==
    /\ Doing(w, "status")
    /\ IF Usable(job[w].serial)
       THEN Synchronise(w) /\ Set(w, [job[w] EXCEPT !.stage = "record"])
       ELSE End(w)
    /\ PkiSame /\ UNCHANGED <<overlapped, pdfs, presigns>>

\* add_rfc3161_timestamp: a file that does not load leaves the signature without a timestamp.
\* The faulty variant takes what it read for a key and a certificate.
TimestamperAsRead == [cert |-> disk["tsaCert"], key |-> disk["tsaKey"]]
Timestamper ==
    IF {disk["tsaCert"], disk["tsaKey"], disk["intCert"]} \subseteq Gen
    THEN [cert |-> disk["tsaCert"], key |-> disk["tsaKey"]] ELSE None

Collect(w, j) ==
    Fetch(w, <<"intCert", "intKey">>) /\ Set(w, [j EXCEPT !.stage = "crl", !.stamp = Timestamper])

(* _request_certificate: a demo record, of whatever serial, names the file    *)
(* USER_CERT.  _assert_demo_signing_key_matches_certificate loads the key.    *)
Signer(w) ==
    /\ Doing(w, "record")
    /\ LET s == job[w].serial IN
       IF s \in issued THEN Collect(w, [job[w] EXCEPT !.cert = CertOf(s)])
       ELSE IF disk["userCert"] = Torn THEN End(w)
       ELSE /\ Fetch(w, <<"userKey">>)
            /\ Set(w, [job[w] EXCEPT !.stage = "match", !.cert = DemoCert(disk["userCert"])])
    /\ PkiSame /\ UNCHANGED <<overlapped, pdfs, presigns>>

Match(w) ==
    /\ Loaded(w, "match")
    /\ IF call[w].got[1] = job[w].cert.serial THEN Collect(w, job[w]) ELSE End(w)
    /\ PkiSame /\ UNCHANGED <<overlapped, pdfs, presigns>>
-----------------------------------------------------------------------------
(* collect_validation_info: generate_signed_crl, then get_ocsp_response, each *)
(* with its own read of the registry, then the validation context.            *)

Crl(w) ==
    /\ Loaded(w, "crl")
    /\ Fetch(w, <<"intCert", "ocspCert", "ocspKey">>)
    /\ Set(w, [job[w] EXCEPT !.stage = "ocsp", !.ev.crlBy = call[w].got[2],
                             !.ev.listed = job[w].cert.serial \in revoked])
    /\ PkiSame /\ UNCHANGED <<overlapped, pdfs, presigns>>

Ocsp(w) ==
    /\ Loaded(w, "ocsp")
    /\ IF {disk["rootCert"], disk["intCert"]} \subseteq Gen
       THEN /\ Become(w, [Idle EXCEPT !.at = "caller"])
            /\ Set(w, [job[w] EXCEPT !.stage = "sign", !.ev.bad = job[w].cert.serial \in revoked,
                           !.ev.root = disk["rootCert"], !.ev.inter = disk["intCert"]])
       ELSE End(w)
    /\ PkiSame /\ UNCHANGED <<overlapped, pdfs, presigns>>

(* What pyHanko validates before it embeds evidence: the signer's path and    *)
(* the timestamper's in the context; a CRL counts if its issuer signed it,    *)
(* and whether the OCSP response counts is left open ("heeded").              *)
PathValid(c, root, inter) == c.by = inter /\ inter = root
StampTrusted(st, root, inter) == st # None => st.cert = inter /\ inter = root
\* Faulty variant of Embeds: the CRL is not consulted.
EmbedsUnlisted(j, heeded) ==
    /\ PathValid(j.cert, j.ev.root, j.ev.inter)
    /\ StampTrusted(j.stamp, j.ev.root, j.ev.inter)
    /\ ~(heeded /\ j.ev.bad)
Embeds(j, heeded) ==
    /\ PathValid(j.cert, j.ev.root, j.ev.inter)
    /\ StampTrusted(j.stamp, j.ev.root, j.ev.inter)
    /\ ~(j.ev.listed /\ j.ev.crlBy = j.ev.inter)
    /\ ~(heeded /\ j.ev.bad)
-----------------------------------------------------------------------------
(* verify_pdf_signature, in the PKI on file.                                  *)

Stamped(p) == p.stamp # None /\ p.stamp.key = p.stamp.cert
\* Faulty variant of Trusted: the registry of today is consulted too.
TrustedToday(p) == PathValid(p.cert, disk["rootCert"], disk["intCert"]) /\ p.cert.serial \notin revoked
Trusted(p) == PathValid(p.cert, disk["rootCert"], disk["intCert"])
Accepted(p) ==
    /\ p.key = p.cert.serial
    /\ Trusted(p)
    /\ p.stamp # None => Stamped(p) /\ StampTrusted(p.stamp, disk["rootCert"], disk["intCert"])

\* _missing_requirements and _achieved_profile: the timestamp and the DSS decide.  The
\* faulty variant forgets the DSS.
AchievedByStamp(p) == IF Stamped(p) THEN "PAdES-B-LT" ELSE "PAdES-B-B"
Achieved(p) ==
    IF ~Stamped(p) THEN "PAdES-B-B" ELSE IF p.dss THEN "PAdES-B-LT" ELSE "PAdES-B-T"

\* validate_pades_blt_requirements: signature and chain count too.
Recomputed(p) ==
    IF ~(Accepted(p) /\ Stamped(p)) THEN "PAdES-B-B"
    ELSE IF p.dss THEN "PAdES-B-LT" ELSE "PAdES-B-T"

Store(p) == pdfs' = pdfs \union {[p EXCEPT !.achieved = Achieved(p), !.recomputed = Recomputed(p)]}
Draft(j, key, dss) ==
    [cert |-> j.cert, key |-> key, stamp |-> j.stamp, dss |-> dss, achieved |-> "PAdES-B-B",
     recomputed |-> "PAdES-B-B", moved |-> disk["intCert"] # j.cert.by,
     late |-> j.cert.serial \in j.was]
-----------------------------------------------------------------------------
(* sign_pdf_pades_blt: sign with the evidence; when that raises, sign again   *)
(* without it.  Both read USER_KEY and the CA certificates from the files.    *)
SignPdf(w) ==
    /\ Doing(w, "sign") /\ job[w].cert.serial \in Gen
    /\ IF {disk["userKey"], disk["intCert"], disk["rootCert"]} \subseteq Gen
       THEN \E heeded \in BOOLEAN : Store(Draft(job[w], disk["userKey"], Embeds(job[w], heeded)))
       ELSE UNCHANGED pdfs
    /\ End(w)
    /\ PkiSame /\ UNCHANGED <<overlapped, presigns>>

\* prepare_external_pades_signature: no second attempt without evidence.
PrepareClient(w) ==
    /\ Doing(w, "sign") /\ job[w].cert.serial \notin Gen
    /\ \E heeded \in BOOLEAN :
        presigns' = IF Embeds(job[w], heeded) THEN presigns \union {job[w]} ELSE presigns
    /\ End(w)
    /\ PkiSame /\ UNCHANGED <<overlapped, pdfs>>

\* finalize_client_pdf_signature asks for the status again; finalize_external_pades_signature
\* uses the timestamper and the evidence of the presign.
StartFinalize(w) ==
    /\ "sign" \in Requests
    /\ \E j \in presigns :
        /\ Begin(w, [Idle EXCEPT !.at = "sync", !.back = <<To("caller")>>])
        /\ Set(w, [j EXCEPT !.stage = "finalize", !.was = revoked])
        /\ presigns' = presigns \ {j}
    /\ PkiSame /\ UNCHANGED pdfs

Finalize(w) ==
    /\ Doing(w, "finalize")
    /\ IF Usable(job[w].serial) /\ {disk["intCert"], disk["rootCert"]} \subseteq Gen
       THEN Store(Draft(job[w], job[w].serial, TRUE)) ELSE UNCHANGED pdfs
    /\ End(w)
    /\ PkiSame /\ UNCHANGED <<overlapped, presigns>>
-----------------------------------------------------------------------------
\* A step of the PKI; when it raises, the signing handler ends with it.
Elsewhere(w) ==
    /\ PkiStart(w) \/ PkiStep(w)
    /\ job' = IF call'[w].at \in {"idle", "stuck"} THEN [job EXCEPT ![w] = IdleJob] ELSE job
    /\ UNCHANGED <<pdfs, presigns>>

PadesCrash ==
    /\ Crash
    /\ pdfs' = {} /\ presigns' = {}
    /\ job' = [w \in Worker |-> IdleJob]

PadesStep(w) ==
    \/ StartSign(w) \/ Status(w) \/ Signer(w) \/ Match(w) \/ Crl(w) \/ Ocsp(w)
    \/ SignPdf(w) \/ PrepareClient(w) \/ StartFinalize(w) \/ Finalize(w)

PadesNext ==
    \/ \E w \in Worker : PadesStep(w) \/ Elsewhere(w)
    \/ PadesCrash
    \/ Revoke /\ UNCHANGED padesVars
PadesSpec == PadesInit /\ [][PadesNext]_all
-----------------------------------------------------------------------------
(* Properties *)

PadesTypeOK ==
    /\ PkiTypeOK
    /\ pdfs \subseteq Pdf
    /\ \A w \in Worker :
        /\ job[w].stage \in {"crl", "ocsp", "sign", "finalize"} =>
            job[w].cert \in Certificate /\ job[w].stamp \in Stamper
        /\ job[w].stage \in {"sign", "finalize"} => job[w].ev \in Evidence

(* "PAdES-B-LT only when a valid signature timestamp + embedded validation    *)
(* evidence + DSS/LTV evidence are present and validated" (README.md:25): the *)
(* level stored with a signed file is the one that the independent            *)
(* recomputation finds at that time (pades_service.py 334-340, 566-635).      *)
LevelIsHonest == ~overlapped => \A p \in pdfs : p.achieved = "PAdES-B-LT" => p.recomputed = "PAdES-B-LT"

(* The same, unless the PKI was replaced between the preparation and the      *)
(* finalisation of a client's signature: no revocation, crash or repair that  *)
(* comes in between the many reads of the PKI makes the stored level lie.     *)
LevelHolds ==
    ~overlapped => \A p \in pdfs :
        p.achieved = "PAdES-B-LT" /\ ~p.moved => p.recomputed = "PAdES-B-LT"

(* A certificate revoked before a signing handler began never gets embedded   *)
(* evidence: neither when the request names the record of an older demo       *)
(* certificate, which points to the same file and so signs with the newer     *)
(* one, nor through the two separate reads of the registry                    *)
(* (revocation_service.py 137, 226; certificate_lifecycle_service.py 470).    *)
RevokedGetsNoEvidence == ~overlapped => \A p \in pdfs : p.late => ~p.dss

(* A file that reached B-LT keeps verifying, also after its certificate is    *)
(* revoked, until the PKI is replaced.                                        *)
LongTerm ==
    ~overlapped => \A p \in pdfs :
        p.achieved = "PAdES-B-LT" /\ disk["intCert"] = p.cert.by /\ disk["rootCert"] = p.cert.by =>
            Accepted(p)
=============================================================================
