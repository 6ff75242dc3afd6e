--------------------------- MODULE SigningRequests ---------------------------
(***************************************************************************)
(* The signing service: requests that are prepared, confirmed and signed,  *)
(* by the backend's key, by a signature the client submits, or by a        *)
(* two-step client PAdES signature (prepare, then finalize), and the       *)
(* remote-signing routes in front of them.                                 *)
(*                                                                         *)
(* The service keeps everything in dictionaries of the process, which a    *)
(* restart empties.  Every handler asks the lifecycle service for the      *)
(* status and then for the record of the certificate: two runs of          *)
(* sync_demo_certificate_record of CertificateLifecycle, with reads of the *)
(* files after each.  A dictionary update, and the updates that follow it  *)
(* with no file access between them, are one step.                         *)
(***************************************************************************)
EXTENDS CertificateLifecycle

CONSTANTS
    Request,     \* ids "req_<random>" that prepare_request may draw
    File,        \* ids "pdf_<random>" of signed or presigned PDF files
    ClientHeld   \* serials whose private key is in client-side custody

(* "pdf": the document is a PDF and the digest is one PAdES allows.           *)
RequestRecord ==
    [serial : AnySerial, pdf : BOOLEAN, confirmed : BOOLEAN, signed : BOOLEAN]

ASSUME SigningAssumption ==
    /\ ClientHeld \subseteq Serial
    /\ None \notin Request \union File \union RequestRecord

VARIABLES
    requests,  \* _REQUESTS
    packages,  \* _SIGNED_PACKAGES: the requests that have one
    files,     \* _SIGNED_PDF_FILES: the request of each signed file
    presigns,  \* _CLIENT_PDF_PRESIGNS: the file each pending presign is for
    expired,   \* presigned files whose time to live is over
    taken,     \* request and file ids handed out
    job,       \* per worker, the signing handler it runs
    made,      \* history: signatures made for each request, counted up to 2
    late       \* history: requests served by a handler that began after the
               \* revocation of their certificate had been written

signVars == <<requests, packages, files, presigns, expired, taken, job, made, late>>
everything == <<vars, signVars>>
-----------------------------------------------------------------------------
Known(r) == requests[r] # None
Open(r) == Known(r) /\ requests[r].confirmed /\ ~requests[r].signed

Operation == {"prepare", "canonical", "pdf", "submit", "presign", "finalize"}

(* "status": waiting for get_certificate_status; "record": for                *)
(* get_certificate_record.  "genuine": the signature the client sent verifies *)
(* over the payload, or over the attributes of the presign read.              *)
Job ==
    [pc : {"idle", "status", "record"}, op : Operation, req : Request \union {None},
     serial : AnySerial, pdf : BOOLEAN, genuine : BOOLEAN,
     presign : File \union {None}, late : BOOLEAN]

IdleJob ==
    [pc |-> "idle", op |-> "prepare", req |-> None, serial |-> DemoSerial, pdf |-> FALSE,
     genuine |-> FALSE, presign |-> None, late |-> FALSE]

Doing(w, l) == job[w].pc = l /\ At(w, "caller")
End(w) == job' = [job EXCEPT ![w] = IdleJob] /\ Return(w)

\* The status and the record are both read after a synchronisation of the demo record.
Await(w, j, f) ==
    /\ job' = [job EXCEPT ![w] = j]
    /\ Become(w, [f EXCEPT !.pc = "syncReadK", !.then = "caller"])

\* The bound on file ids: one is left for every handler that may draw one.
Drawing == {"pdf", "presign"}
FileLeft ==
    Cardinality(File \ taken) >
        Cardinality({v \in Worker : job[v].pc # "idle" /\ job[v].op \in Drawing})

SignInit ==
    /\ Init
    /\ requests = [r \in Request |-> None]
    /\ packages = {}
    /\ files = [f \in File |-> None]
    /\ presigns = [r \in Request |-> None]
    /\ expired = {} /\ taken = {} /\ late = {}
    /\ job = [w \in Worker |-> IdleJob]
    /\ made = [r \in Request |-> 0]
-----------------------------------------------------------------------------
\* POST /user-signing/prepare.  This handler is the only "async def": it runs on the event
\* loop, where a second one has to wait for it, while the worker threads go on.
LoopFree == \A v \in Worker : job[v].op = "prepare" => job[v].pc = "idle"

StartPrepare(w) ==
    /\ Free(w) /\ LoopFree
    /\ \E r \in Request \ taken, s \in AnySerial, pdf \in BOOLEAN :
        /\ minted[s] # None
        /\ taken' = taken \union {r}
        /\ Await(w, [IdleJob EXCEPT !.pc = "status", !.req = r, !.serial = s, !.pdf = pdf,
                                    !.late = s \in acked], IdleFrame)
    /\ UNCHANGED <<stores, minted, owner, lapsed, acked>>
    /\ UNCHANGED <<requests, packages, files, presigns, expired, made, late>>

\* POST /user-signing/confirm
Confirm(w) ==
    /\ Free(w)
    /\ \E r \in Request :
        /\ Known(r)
        /\ requests' = [requests EXCEPT ![r].confirmed = TRUE]
    /\ UNCHANGED <<vars, packages, files, presigns, expired, taken, job, made, late>>

\* Faulty variant of MaySign: whether the request has been signed is not looked at.
AlwaysSign(r) == Known(r) /\ requests[r].confirmed
MaySign(r) == Open(r)

Begin(w, r, j) ==
    /\ MaySign(r)
    /\ j.op \in Drawing => FileLeft
    /\ Await(w, [j EXCEPT !.pc = "status", !.req = r, !.serial = requests[r].serial,
                          !.pdf = requests[r].pdf, !.late = requests[r].serial \in acked],
             IdleFrame)
    /\ UNCHANGED <<stores, minted, owner, lapsed, acked>>
    /\ UNCHANGED <<requests, packages, files, presigns, expired, taken, made, late>>

\* POST /user-signing/sign-and-verify, and /sign-pdf
StartSign(w) ==
    /\ Free(w)
    /\ \E r \in Request, op \in {"canonical", "pdf"} : Begin(w, r, [IdleJob EXCEPT !.op = op])

\* POST /remote-signing/...: the same operations, after the MFA code of the user.
StartRemoteSign(w) ==
    /\ Free(w)
    /\ \E r \in Request, op \in {"canonical", "pdf"}, mfa \in BOOLEAN :
        /\ Known(r) /\ requests[r].confirmed
        /\ mfa
        /\ op = "pdf" => requests[r].pdf
        /\ Begin(w, r, [IdleJob EXCEPT !.op = op])

\* POST /user-signing/submit-client-signature: only the holder of the key can sign.
StartSubmit(w) ==
    /\ Free(w)
    /\ \E r \in Request, genuine \in BOOLEAN :
        /\ genuine => Known(r) /\ requests[r].serial \in ClientHeld
        /\ Begin(w, r, [IdleJob EXCEPT !.op = "submit", !.genuine = genuine])

\* POST /user-signing/client-pades/prepare
StartPresign(w) ==
    /\ Free(w)
    /\ \E r \in Request : Begin(w, r, [IdleJob EXCEPT !.op = "presign"])

\* POST /user-signing/client-pades/finalize
StartFinalize(w) ==
    /\ Free(w)
    /\ \E r \in Request, genuine \in BOOLEAN :
        /\ presigns[r] \notin expired \union {None}
        /\ Begin(w, r, [IdleJob EXCEPT !.op = "finalize", !.genuine = genuine,
                                   !.presign = presigns[r]])

FinalizeExpired(w) ==
    /\ Free(w)
    /\ \E r \in Request :
        /\ Open(r) /\ presigns[r] \in expired
        /\ presigns' = [presigns EXCEPT ![r] = None]
    /\ UNCHANGED <<vars, requests, packages, files, expired, taken, job, made, late>>
-----------------------------------------------------------------------------
(* _assert_certificate_usable and the custody check of the operation.         *)

\* Faulty variant of Usable: the status stored in the record is trusted.
StoredActive(s) == certificates.rec[s].status = "active"
Usable(s) ==
    /\ Has(certificates, s) /\ Readable(registry)
    /\ EffectiveStatus(s, certificates, registry.serials) = "active"

\* The backend signs with its own key only, and presigns for clients only.  The faulty
\* variant presigns for every certificate.
AnyPresign(op, s) == op \in {"canonical", "pdf"} => s \notin ClientHeld
Allowed(op, s) ==
    /\ op \in {"canonical", "pdf"} => s \notin ClientHeld
    /\ op \in {"presign", "finalize"} => s \in ClientHeld

Granted(j) ==
    /\ Usable(j.serial)
    /\ Allowed(j.op, j.serial)
    /\ j.op \in Drawing => j.pdf

Refuse(w) ==
    /\ Doing(w, "status")
    /\ ~Granted(job[w])
    /\ End(w)
    /\ UNCHANGED <<stores, minted, owner, lapsed, acked>>
    /\ UNCHANGED <<requests, packages, files, presigns, expired, taken, made, late>>

Prepared(w) ==
    /\ Doing(w, "status")
    /\ job[w].op = "prepare" /\ Granted(job[w])
    /\ requests' = [requests EXCEPT ![job[w].req] =
           [serial |-> job[w].serial, pdf |-> job[w].pdf, confirmed |-> FALSE, signed |-> FALSE]]
    /\ late' = late \union IF job[w].late THEN {job[w].req} ELSE {}
    /\ End(w)
    /\ UNCHANGED <<stores, minted, owner, lapsed, acked>>
    /\ UNCHANGED <<packages, files, presigns, expired, taken, made>>

Grant(w) ==
    /\ Doing(w, "status")
    /\ job[w].op # "prepare" /\ Granted(job[w])
    /\ Await(w, [job[w] EXCEPT !.pc = "record"], frame[w])
    /\ UNCHANGED <<stores, minted, owner, lapsed, acked>>
    /\ UNCHANGED <<requests, packages, files, presigns, expired, taken, made, late>>
-----------------------------------------------------------------------------
(* Signing.  The record is the object the handler looked up when it began.    *)

Ready(w, op) ==
    /\ Doing(w, "record") /\ job[w].op = op
    /\ Has(certificates, job[w].serial)

\* The record of the certificate is gone.
RecordMissing(w) ==
    /\ Doing(w, "record")
    /\ ~Has(certificates, job[w].serial)
    /\ End(w)
    /\ UNCHANGED <<stores, minted, owner, lapsed, acked>>
    /\ UNCHANGED <<requests, packages, files, presigns, expired, taken, made, late>>

\* record["signed"] = True.  The faulty variant forgets it.
NotMarked(r) == requests
Marked(r) == [requests EXCEPT ![r].signed = TRUE]

Signed(w) ==
    /\ requests' = Marked(job[w].req)
    /\ made' = [made EXCEPT ![job[w].req] = IF @ = 2 THEN 2 ELSE @ + 1]
    /\ late' = late \union IF job[w].late THEN {job[w].req} ELSE {}
    /\ End(w)
    /\ UNCHANGED <<stores, minted, owner, lapsed, acked, expired>>

StorePackage(w) ==
    /\ Ready(w, "canonical") \/ (Ready(w, "submit") /\ job[w].genuine)
    /\ packages' = packages \union {job[w].req}
    /\ Signed(w)
    /\ UNCHANGED <<files, presigns, taken>>

SubmitRejected(w) ==
    /\ Ready(w, "submit") /\ ~job[w].genuine
    /\ End(w)
    /\ UNCHANGED <<stores, minted, owner, lapsed, acked>>
    /\ UNCHANGED <<requests, packages, files, presigns, expired, taken, made, late>>

StorePdf(w) ==
    /\ Ready(w, "pdf")
    /\ \E f \in File \ taken :
        /\ taken' = taken \union {f}
        /\ files' = [files EXCEPT ![f] = job[w].req]
    /\ Signed(w)
    /\ UNCHANGED <<packages, presigns>>

\* A presign replaces the one that was pending for the request.
StorePresign(w) ==
    /\ Ready(w, "presign")
    /\ \E f \in File \ taken :
        /\ taken' = taken \union {f}
        /\ presigns' = [presigns EXCEPT ![job[w].req] = f]
    /\ End(w)
    /\ UNCHANGED <<stores, minted, owner, lapsed, acked>>
    /\ UNCHANGED <<requests, packages, files, expired, made, late>>

Finalize(w) ==
    /\ Ready(w, "finalize") /\ job[w].genuine
    /\ files' = [files EXCEPT ![job[w].presign] = job[w].req]
    /\ presigns' = [presigns EXCEPT ![job[w].req] = None]
    /\ Signed(w)
    /\ UNCHANGED <<packages, taken>>

\* The signature is over something else, or the CMS container cannot be completed.
\* Whatever presign is pending for the request by now is dropped.
FinalizeRejected(w) ==
    /\ Ready(w, "finalize")
    /\ presigns' = [presigns EXCEPT ![job[w].req] = None]
    /\ End(w)
    /\ UNCHANGED <<stores, minted, owner, lapsed, acked>>
    /\ UNCHANGED <<requests, packages, files, expired, taken, made, late>>
-----------------------------------------------------------------------------
(* CLIENT_PDF_PRESIGN_TTL_SECONDS have passed since a presign.                *)
Expire ==
    /\ \E r \in Request :
        /\ presigns[r] # None
        /\ expired' = expired \union {presigns[r]}
    /\ UNCHANGED <<vars, requests, packages, files, presigns, taken, job, made, late>>

SignCrash ==
    /\ Crash
    /\ requests' = [r \in Request |-> None]
    /\ packages' = {}
    /\ files' = [f \in File |-> None]
    /\ presigns' = [r \in Request |-> None]
    /\ job' = [w \in Worker |-> IdleJob]
    /\ UNCHANGED <<expired, taken, made, late>>

\* A step of the lifecycle service; when it raises, the signing handler ends with it.
Elsewhere(w) ==
    /\ Start(w) \/ Handle(w)
    /\ job' = IF frame'[w].pc = "idle" THEN [job EXCEPT ![w] = IdleJob] ELSE job
    /\ UNCHANGED <<requests, packages, files, presigns, expired, taken, made, late>>

StartSigning(w) ==
    \/ StartPrepare(w) \/ Confirm(w) \/ StartSign(w) \/ StartRemoteSign(w)
    \/ StartSubmit(w) \/ StartPresign(w) \/ StartFinalize(w) \/ FinalizeExpired(w)

HandleSigning(w) ==
    \/ Refuse(w) \/ Prepared(w) \/ Grant(w) \/ RecordMissing(w)
    \/ StorePackage(w) \/ SubmitRejected(w) \/ StorePdf(w)
    \/ StorePresign(w) \/ Finalize(w) \/ FinalizeRejected(w)

SignNext ==
    \/ \E w \in Worker : StartSigning(w) \/ HandleSigning(w) \/ Elsewhere(w)
    \/ Expire \/ SignCrash
    \/ Lapse /\ UNCHANGED signVars

SignSpec == SignInit /\ [][SignNext]_everything
-----------------------------------------------------------------------------
(* Properties *)

(* Types; a pending presign is for a confirmed request that names a           *)
(* certificate in client-side custody.                                        *)
SignTypeOK ==
    /\ requests \in [Request -> RequestRecord \union {None}]
    /\ packages \subseteq Request
    /\ files \in [File -> Request \union {None}]
    /\ presigns \in [Request -> File \union {None}]
    /\ \A r \in Request : presigns[r] # None =>
        Known(r) /\ requests[r].confirmed /\ requests[r].serial \in ClientHeld
    /\ expired \subseteq File
    /\ taken \subseteq Request \union File
    /\ job \in [Worker -> Job]
    /\ made \in [Request -> 0 .. 2]
    /\ late \subseteq Request

(* "New signing request with revoked certificate is rejected"                 *)
(* (docs/README_TEST_GUIDE.md:208): no handler that begins after the          *)
(* revocation of a certificate was written prepares a request for it or signs *)
(* with it, whatever other handlers write back meanwhile.                     *)
NoLateSignature == late = {}

(* A request is signed once (signing_service.py:252, 313, 379, 480, 573),     *)
(* whichever of the five ways of signing is used.                             *)
OneSignaturePerRequest == \A r \in Request : made[r] <= 1

Phase(r) ==
    IF ~Known(r) THEN "unknown" ELSE IF requests[r].signed THEN "signed"
    ELSE IF requests[r].confirmed THEN "confirmed" ELSE "prepared"
Kept(r) ==
    Cardinality({f \in File : files[f] = r}) + IF r \in packages THEN 1 ELSE 0

Promise == INSTANCE SigningPromise WITH
    phase <- [r \in Request |-> Phase(r)],
    kept <- [r \in Request |-> Kept(r)]

(* One request at a time, the handlers keep the promise of SigningPromise:    *)
(* signed after it was confirmed, once, with exactly one document on file.    *)
PromiseSpec == Promise!PromiseSpec
=============================================================================
