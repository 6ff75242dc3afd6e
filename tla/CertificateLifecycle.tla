------------------------ MODULE CertificateLifecycle ------------------------
(***************************************************************************)
(* The certificate lifecycle service and the revocation registry of the    *)
(* SecureDoc backend: enrollments.json, certificates.json and the          *)
(* revocation file, and the request handlers that read and rewrite them.   *)
(*                                                                         *)
(* FastAPI runs every one of these handlers in a worker thread and nothing *)
(* locks the files.  A handler reads a whole file, changes its copy and    *)
(* writes the whole file back; writing truncates the file first.  Each     *)
(* read, each truncation and each write is therefore a step of its own,    *)
(* and the steps of different workers interleave.                          *)
(***************************************************************************)
EXTENDS Naturals, Sequences, FiniteSets

CONSTANTS
    Worker,          \* threads of the pool that run handlers
    Enrollment,      \* ids "enr_<random>" that create_enrollment may draw
    Serial,          \* serial numbers the intermediate CA may draw
    DemoEnrollment,  \* "demo_alice_bootstrap"
    DemoSerial,      \* serial of the bootstrap certificate USER_CERT
    Email,           \* addresses of the users who enroll
    Alice,           \* "alice@example.com", the default of every lookup
    None,            \* Python's None
    Preissued,       \* what was enrolled and issued before the run, in list order
    Requests,        \* the endpoints clients call in this instance
    Lapsing,         \* bound: the certificates whose validity period may end
    Sequential,      \* TRUE: clients wait for each answer, as the tests do
    SerialRevocation,\* TRUE: one revocation is handled at a time
    CanCrash         \* TRUE: the process may die between two steps

AnySerial == Serial \union {DemoSerial}
AnyEnrollment == Enrollment \union {DemoEnrollment}

ASSUME ConstantsAssumption ==
    /\ DemoSerial \notin Serial /\ DemoEnrollment \notin Enrollment
    /\ Alice \in Email
    /\ None \notin AnySerial \union AnyEnrollment \union Email
    /\ Sequential \in BOOLEAN /\ SerialRevocation \in BOOLEAN
    /\ CanCrash \in BOOLEAN
    /\ Lapsing \subseteq AnySerial
    /\ Preissued \in Seq([serial : Serial, enr : Enrollment, email : Email])
    /\ \A i, j \in DOMAIN Preissued :
        Preissued[i].serial = Preissued[j].serial \/ Preissued[i].enr = Preissued[j].enr => i = j

VARIABLES
    enrollments,   \* enrollments.json, by id; all absent when unreadable
    certificates,  \* certificates.json; empty when unreadable
    registry,      \* the revocation file; unreadable when not ok
    minted,        \* the PEM files: the enrollment each certificate names
    owner,         \* history: the address each enrollment id was drawn for
    lapsed,        \* serials whose validity period is over
    acked,         \* history: serials whose revocation has been written
    frame          \* per worker, the handler it runs and its local copies

stores == <<enrollments, certificates, registry>>
vars == <<stores, minted, owner, lapsed, acked, frame>>
-----------------------------------------------------------------------------
(* The stored records *)

AbsentEnrollment == [status |-> "absent", email |-> Alice, serial |-> None, proven |-> FALSE]

\* An enrollment marked issued names its certificate.
EnrollmentRecord ==
    {r \in [status : {"absent", "pending", "issued"}, email : Email,
            serial : AnySerial \union {None}, proven : BOOLEAN] :
        r.status = "issued" => r.serial # None}

DemoEnrollmentRecord == [status |-> "issued", email |-> Alice, serial |-> DemoSerial, proven |-> TRUE]

CertificateRecord ==
    [enr : AnyEnrollment \union {None}, status : {"absent", "issued", "active", "revoked"},
     by : AnySerial \union {None}]

AbsentCertificate == [enr |-> None, status |-> "absent", by |-> None]

(* certificates.json holds at most one record per serial; its list order is   *)
(* the relation "stands before".                                              *)
CertificateList ==
    [rec : [AnySerial -> CertificateRecord], before : SUBSET (AnySerial \X AnySerial)]

Registry == [ok : BOOLEAN, serials : SUBSET AnySerial]

\* What a read returns while a file is truncated, or after a write that was cut short.
NoEnrollments == [e \in AnyEnrollment |-> AbsentEnrollment]
NoCertificates == [rec |-> [s \in AnySerial |-> AbsentCertificate], before |-> {}]
NoRegistry == [ok |-> FALSE, serials |-> {}]

(* Two overlapping writes of one file: the later one overwrites the bytes of  *)
(* the earlier one, and leaves a file that does not parse if it is shorter.   *)
Written(current, torn, new) == IF current = torn THEN {new} ELSE {new, torn}

Has(list, s) == list.rec[s].status # "absent"
Present(list) == {s \in AnySerial : Has(list, s)}

\* Faulty variant of Put: a record that is not in the list yet is never appended.
UpdateOnly(list, s, new) == IF Has(list, s) THEN [list EXCEPT !.rec[s] = new] ELSE list

\* Drop the record of s and append a new one at the end of the list.
Put(list, s, new) ==
    [rec |-> [list.rec EXCEPT ![s] = new],
     before |-> {p \in list.before : s \notin {p[1], p[2]}}
                    \union ((Present(list) \ {s}) \X {s})]

SetStatus(list, s, st) == IF Has(list, s) THEN [list EXCEPT !.rec[s].status = st] ELSE list

\* Faulty variant of EmailFromRecord: the default address for everybody.
DefaultEmail(rec, E) == Alice

EmailFromRecord(rec, E) ==
    IF E[rec.enr].status = "absent" THEN Alice ELSE E[rec.enr].email

\* Reading a registry that does not parse raises and ends the handler.  The faulty
\* variant takes such a registry for an empty one.
AlwaysReadable(reg) == TRUE
Readable(reg) == reg.ok

\* Faulty variant of DeriveStatus: the registry is not consulted.
StoredStatus(s, rec, revoked) == IF s \in lapsed THEN "expired" ELSE rec.status

\* _derive_status of a stored record, for a registry that can be read.
DeriveStatus(s, rec, revoked) ==
    IF rec.status = "revoked" \/ s \in revoked THEN "revoked"
    ELSE IF s \in lapsed THEN "expired" ELSE rec.status

\* get_certificate_status
EffectiveStatus(s, list, revoked) ==
    IF s \in revoked THEN "revoked" ELSE DeriveStatus(s, list.rec[s], revoked)

\* get_active_certificate_record: the first active record in list order.
ActiveCandidates(em) ==
    {s \in AnySerial :
        /\ certificates.rec[s].status = "active"
        /\ EmailFromRecord(certificates.rec[s], enrollments) = em
        /\ DeriveStatus(s, certificates.rec[s], registry.serials) = "active"}

IsActive(s, em) ==
    /\ Readable(registry)
    /\ s \in ActiveCandidates(em)
    /\ \A t \in ActiveCandidates(em) : <<t, s>> \notin certificates.before
-----------------------------------------------------------------------------
(* Workers.  "caller" is the label of a worker inside a handler of another    *)
(* module that calls into this one.                                           *)

OpenLabels == {"enrollOpen", "issueOpenE", "issueOpenK", "activateOpenK",
               "revokeOpenR", "revokeOpenK", "syncOpenK", "syncOpenE"}
FlushLabels == {"enrollFlush", "issueFlushE", "issueFlushK", "activateFlushK",
                "revokeFlushR", "revokeFlushK", "syncFlushK", "syncFlushE"}
ReadLabels == {"issueRead", "issueExisting", "issueMint", "activateRead",
               "activateCheck", "activateEmails", "revokeRead", "revokeReadR",
               "syncReadK", "syncReadR", "syncReadE"}
Label == OpenLabels \union FlushLabels \union ReadLabels \union {"idle", "caller"}

FrameRecord ==
    [pc : Label, then : Label, enr : AnyEnrollment \union {None},
     serial : AnySerial \union {None}, activate : BOOLEAN,
     snapE : [AnyEnrollment -> EnrollmentRecord], snapK : CertificateList,
     held : CertificateList, snapR : SUBSET AnySerial]

\* A handler that works on one enrollment, or one certificate, knows which.
ForEnrollment == {"issueRead", "issueMint"}
ForSerial ==
    {"issueOpenE", "issueFlushE", "issueOpenK", "issueFlushK", "issueExisting",
     "activateRead", "activateCheck", "activateEmails",
     "revokeRead", "revokeReadR", "revokeOpenR", "revokeFlushR"}
Addressed(f) ==
    /\ f.pc \in ForEnrollment \/ f.then \in ForEnrollment => f.enr # None
    /\ f.pc \in ForSerial \/ f.then \in ForSerial => f.serial # None
Frame == {f \in FrameRecord : Addressed(f)}

IdleFrame ==
    [pc |-> "idle", then |-> "idle", enr |-> None, serial |-> None, activate |-> FALSE,
     snapE |-> NoEnrollments, snapK |-> NoCertificates, held |-> NoCertificates, snapR |-> {}]

At(w, l) == frame[w].pc = l
Become(w, f) == frame' = [frame EXCEPT ![w] = f]
Goto(w, l) == Become(w, [frame[w] EXCEPT !.pc = l])
Return(w) == Become(w, IdleFrame)
Continue(w, l) == IF l = "idle" THEN Return(w) ELSE Goto(w, l)

\* After a write the local copies are dead; forgetting them only merges states.
Resume(w, l) ==
    IF l = "idle" THEN Return(w)
    ELSE Become(w, [frame[w] EXCEPT !.pc = l, !.snapR = {},
             !.snapE = NoEnrollments, !.snapK = IF l \in {"issueOpenK", "revokeOpenK"} THEN @ ELSE NoCertificates])

Free(w) ==
    /\ At(w, "idle")
    /\ Sequential => \A v \in Worker : At(v, "idle")

(* The bound on minting: no request that may mint is started unless a serial  *)
(* is left for it, so that the finite set Serial never blocks a handler.      *)
MayMint ==
    {v \in Worker : \/ frame[v].pc \in {"issueRead", "issueMint", "caller"}
                    \/ frame[v].then \in {"issueRead", "caller"}}
SerialLeft == Cardinality({s \in Serial : minted[s] = None}) > Cardinality(MayMint)

RevocationLabels == {"revokeRead", "revokeReadR", "revokeOpenR", "revokeFlushR"}
RevocationFree ==
    SerialRevocation => \A v \in Worker : frame[v].pc \notin RevocationLabels
-----------------------------------------------------------------------------
(* Initial state: the demo PKI has been generated and synchronised once, and  *)
(* possibly some certificates issued and not yet activated.                   *)

DemoRecord(st) == [enr |-> DemoEnrollment, status |-> st, by |-> None]

The(S) == CHOOSE x \in S : TRUE
PreOf(e) == {i \in DOMAIN Preissued : Preissued[i].enr = e}
PreFor(s) == {i \in DOMAIN Preissued : Preissued[i].serial = s}

InitialEnrollment(e) ==
    IF e = DemoEnrollment THEN DemoEnrollmentRecord
    ELSE IF PreOf(e) = {} THEN AbsentEnrollment
    ELSE LET p == Preissued[The(PreOf(e))]
         IN  [status |-> "issued", email |-> p.email, serial |-> p.serial, proven |-> TRUE]

IssuedRecord(e) == [enr |-> e, status |-> "issued", by |-> None]

InitialCertificate(s) ==
    IF s = DemoSerial THEN DemoRecord("active")
    ELSE IF PreFor(s) = {} THEN AbsentCertificate
    ELSE IssuedRecord(Preissued[The(PreFor(s))].enr)

Init ==
    /\ enrollments = [e \in AnyEnrollment |-> InitialEnrollment(e)]
    /\ certificates =
          [rec |-> [s \in AnySerial |-> InitialCertificate(s)],
           before |-> {p \in AnySerial \X AnySerial :
               \E i \in PreFor(p[1]) : p[2] = DemoSerial \/ \E j \in PreFor(p[2]) : i < j}]
    /\ registry = [ok |-> TRUE, serials |-> {}]
    /\ minted = [s \in AnySerial |-> InitialCertificate(s).enr]
    /\ owner = [e \in AnyEnrollment |->
                   IF InitialEnrollment(e).status = "absent" THEN None ELSE InitialEnrollment(e).email]
    /\ lapsed = {}
    /\ acked = {}
    /\ frame = [w \in Worker |-> IdleFrame]
-----------------------------------------------------------------------------
(* Enrollment: create_enrollment, and the routes that call it.               *)

\* The proof is accepted exactly when the signature verifies under the enrolled key.
\* The faulty variant does not look at the signature.
SkipProof(genuine) == TRUE
VerifyProofOfPossession(genuine) == genuine

\* create_enrollment up to its read of enrollments.json; "then" is where the caller goes on.
CreateEnrollment(w, em, genuine, activate, then) ==
    /\ VerifyProofOfPossession(genuine)
    /\ \E e \in Enrollment :
        /\ owner[e] = None
        /\ owner' = [owner EXCEPT ![e] = em]
        /\ Become(w, [IdleFrame EXCEPT
               !.pc = "enrollOpen", !.then = then, !.enr = e, !.activate = activate,
               !.snapE = [enrollments EXCEPT ![e] =
                   [status |-> "pending", email |-> em, serial |-> None, proven |-> genuine]]])
    /\ UNCHANGED <<stores, minted, lapsed, acked>>

\* POST /certificates/enroll
StartEnroll(w) ==
    /\ "enroll" \in Requests /\ Free(w)
    /\ \E em \in Email, genuine \in BOOLEAN : CreateEnrollment(w, em, genuine, FALSE, "idle")

\* POST /certificates/enroll-demo-backend-key
StartEnrollDemo(w) ==
    /\ "enrollDemo" \in Requests /\ Free(w) /\ SerialLeft
    /\ \E act \in BOOLEAN : CreateEnrollment(w, Alice, TRUE, act, "issueRead")

(* Issuance: issue_enrollment.                                                *)

\* POST /certificates/enrollments/{id}/issue-demo
StartIssue(w) ==
    /\ "issue" \in Requests /\ Free(w) /\ SerialLeft
    /\ \E e \in Enrollment, act \in BOOLEAN :
        /\ owner[e] # None
        /\ Become(w, [IdleFrame EXCEPT !.pc = "issueRead", !.enr = e, !.activate = act])
    /\ UNCHANGED <<stores, minted, owner, lapsed, acked>>

IssueRefused(w) ==
    /\ At(w, "issueRead")
    /\ enrollments[frame[w].enr].status = "absent"
    /\ Return(w)
    /\ UNCHANGED <<stores, minted, owner, lapsed, acked>>

\* A certificate is minted for a pending enrollment only; the faulty variant mints for any.
AlwaysIssue(e) == enrollments[e].status # "absent"
MayIssue(e) == enrollments[e].status = "pending"

IssuePending(w) ==
    /\ At(w, "issueRead")
    /\ MayIssue(frame[w].enr)
    /\ Become(w, [frame[w] EXCEPT !.pc = "issueMint", !.snapE = enrollments])
    /\ UNCHANGED <<stores, minted, owner, lapsed, acked>>

\* Already issued: the existing record is looked up, never minted again.
IssueAgain(w) ==
    /\ At(w, "issueRead")
    /\ enrollments[frame[w].enr].status = "issued"
    /\ Become(w, [frame[w] EXCEPT !.pc = "issueExisting",
                                  !.serial = enrollments[frame[w].enr].serial])
    /\ UNCHANGED <<stores, minted, owner, lapsed, acked>>

IssueExisting(w) ==
    /\ At(w, "issueExisting")
    /\ Continue(w, IF Has(certificates, frame[w].serial) /\ frame[w].activate
                   THEN "activateRead" ELSE "idle")
    /\ UNCHANGED <<stores, minted, owner, lapsed, acked>>

\* Sign the certificate, write its PEM file and read certificates.json.
IssueMint(w) ==
    /\ At(w, "issueMint")
    /\ \E s \in Serial :
        /\ minted[s] = None
        /\ minted' = [minted EXCEPT ![s] = frame[w].enr]
        /\ Become(w, [frame[w] EXCEPT
               !.pc = "issueOpenE", !.serial = s,
               !.snapE[frame[w].enr].status = "issued",
               !.snapE[frame[w].enr].serial = s,
               !.snapK = Put(certificates, s, IssuedRecord(frame[w].enr))])
    /\ UNCHANGED <<stores, owner, lapsed, acked>>

(* Activation: activate_certificate.  The list it writes back is the one it   *)
(* read before get_certificate_status synchronised the demo record.           *)

\* POST /certificates/{serial}/activate
StartActivate(w) ==
    /\ "activate" \in Requests /\ Free(w)
    /\ \E s \in AnySerial :
        /\ minted[s] # None
        /\ Become(w, [IdleFrame EXCEPT !.pc = "activateRead", !.serial = s])
    /\ UNCHANGED <<stores, minted, owner, lapsed, acked>>

ActivateRead(w) ==
    /\ At(w, "activateRead")
    /\ IF Has(certificates, frame[w].serial)
       THEN Become(w, [frame[w] EXCEPT !.pc = "syncReadK", !.then = "activateCheck",
                                       !.held = certificates])
       ELSE Return(w)
    /\ UNCHANGED <<stores, minted, owner, lapsed, acked>>

CanActivate(s, list, reg) ==
    /\ Has(list, s) /\ Readable(reg)
    /\ EffectiveStatus(s, list, reg.serials) \notin {"revoked", "expired"}

ActivateCheck(w) ==
    /\ At(w, "activateCheck")
    /\ Continue(w, IF CanActivate(frame[w].serial, certificates, registry)
                   THEN "activateEmails" ELSE "idle")
    /\ UNCHANGED <<stores, minted, owner, lapsed, acked>>

\* The target becomes active; the other active certificates of its user only name it.
Activated(list, s, E) ==
    LET em == EmailFromRecord(list.rec[s], E)
        Other(t) == list.rec[t].status = "active" /\ EmailFromRecord(list.rec[t], E) = em
    IN  [list EXCEPT !.rec = [t \in AnySerial |->
            IF t = s THEN [list.rec[t] EXCEPT !.status = "active"]
            ELSE IF Other(t) THEN [list.rec[t] EXCEPT !.by = s] ELSE list.rec[t]]]

ActivateEmails(w) ==
    /\ At(w, "activateEmails")
    /\ Become(w, [frame[w] EXCEPT !.pc = "activateOpenK", !.held = NoCertificates,
                      !.snapK = Activated(frame[w].held, frame[w].serial, enrollments)])
    /\ UNCHANGED <<stores, minted, owner, lapsed, acked>>
-----------------------------------------------------------------------------
(* Revocation: revoke_certificate, and the registry's own revoke.             *)

\* POST /certificates/{serial}/revoke
StartRevoke(w) ==
    /\ "revoke" \in Requests /\ Free(w) /\ RevocationFree
    /\ \E s \in AnySerial :
        /\ minted[s] # None
        /\ Become(w, [IdleFrame EXCEPT !.pc = "revokeRead", !.serial = s])
    /\ UNCHANGED <<stores, minted, owner, lapsed, acked>>

RevokeRead(w) ==
    /\ At(w, "revokeRead")
    /\ IF Has(certificates, frame[w].serial)
       THEN Become(w, [frame[w] EXCEPT !.pc = "revokeReadR", !.then = "revokeOpenK",
                           !.snapK = SetStatus(certificates, frame[w].serial, "revoked")])
       ELSE Return(w)
    /\ UNCHANGED <<stores, minted, owner, lapsed, acked>>

\* POST /revocation/revoke/{serial}: the registry alone.
StartRegistryRevoke(w) ==
    /\ "revokeRegistry" \in Requests /\ Free(w) /\ RevocationFree
    /\ \E s \in AnySerial :
        Become(w, [IdleFrame EXCEPT !.pc = "revokeReadR", !.serial = s])
    /\ UNCHANGED <<stores, minted, owner, lapsed, acked>>

\* A registry that does not parse raises here, before anything is written.
RevokeReadR(w) ==
    /\ At(w, "revokeReadR")
    /\ IF Readable(registry)
       THEN Become(w, [frame[w] EXCEPT !.pc = "revokeOpenR",
                           !.snapR = registry.serials \union {frame[w].serial}])
       ELSE Return(w)
    /\ UNCHANGED <<stores, minted, owner, lapsed, acked>>

OpenRegistry(w) ==
    /\ At(w, "revokeOpenR")
    /\ registry' = NoRegistry
    /\ Goto(w, "revokeFlushR")
    /\ UNCHANGED <<enrollments, certificates, minted, owner, lapsed, acked>>

FlushRegistry(w) ==
    /\ At(w, "revokeFlushR")
    /\ registry' \in Written(registry, NoRegistry, [ok |-> TRUE, serials |-> frame[w].snapR])
    /\ acked' = acked \union {frame[w].serial}
    /\ Resume(w, frame[w].then)
    /\ UNCHANGED <<enrollments, certificates, minted, owner, lapsed>>
-----------------------------------------------------------------------------
(* sync_demo_certificate_record(force_active = False): every status, list,    *)
(* record, active and demo-pki request rewrites both files through it.        *)

StartSync(w) ==
    /\ "sync" \in Requests /\ Free(w)
    /\ Become(w, [IdleFrame EXCEPT !.pc = "syncReadK"])
    /\ UNCHANGED <<stores, minted, owner, lapsed, acked>>

\* Faulty variant of DemoStatus: the derived status is stored.
DerivedDemoStatus(list) == DeriveStatus(DemoSerial, list.rec[DemoSerial], {})

\* The demo record keeps a stored "revoked" and is "active" in every other case.
DemoStatus(list) ==
    IF list.rec[DemoSerial].status = "revoked" THEN "revoked" ELSE "active"

SyncReadK(w) ==
    /\ At(w, "syncReadK")
    /\ Become(w, [frame[w] EXCEPT !.pc = "syncReadR",
           !.snapK = Put(certificates, DemoSerial, DemoRecord(DemoStatus(certificates)))])
    /\ UNCHANGED <<stores, minted, owner, lapsed, acked>>

SyncReadR(w) ==
    /\ At(w, "syncReadR")
    /\ IF ~Readable(registry) THEN Return(w)
       ELSE Become(w, [frame[w] EXCEPT !.pc = "syncOpenK",
                !.snapK = IF DemoSerial \in registry.serials
                          THEN SetStatus(@, DemoSerial, "revoked") ELSE @])
    /\ UNCHANGED <<stores, minted, owner, lapsed, acked>>

SyncReadE(w) ==
    /\ At(w, "syncReadE")
    /\ Become(w, [frame[w] EXCEPT !.pc = "syncOpenE",
           !.snapE = [enrollments EXCEPT ![DemoEnrollment] = DemoEnrollmentRecord]])
    /\ UNCHANGED <<stores, minted, owner, lapsed, acked>>
-----------------------------------------------------------------------------
(* _write_json on the two lifecycle files.                                    *)

Opened(l) ==
    CASE l = "enrollOpen" -> "enrollFlush"        [] l = "issueOpenE" -> "issueFlushE"
      [] l = "syncOpenE" -> "syncFlushE"          [] l = "issueOpenK" -> "issueFlushK"
      [] l = "activateOpenK" -> "activateFlushK"  [] l = "revokeOpenK" -> "revokeFlushK"
      [] l = "syncOpenK" -> "syncFlushK"

OpenEnrollments(w) ==
    /\ frame[w].pc \in {"enrollOpen", "issueOpenE", "syncOpenE"}
    /\ enrollments' = NoEnrollments
    /\ Goto(w, Opened(frame[w].pc))
    /\ UNCHANGED <<certificates, registry, minted, owner, lapsed, acked>>

FlushEnrollments(w) ==
    /\ frame[w].pc \in {"enrollFlush", "issueFlushE", "syncFlushE"}
    /\ enrollments' \in Written(enrollments, NoEnrollments, frame[w].snapE)
    /\ Resume(w, IF At(w, "issueFlushE") THEN "issueOpenK" ELSE frame[w].then)
    /\ UNCHANGED <<certificates, registry, minted, owner, lapsed, acked>>

OpenCertificates(w) ==
    /\ frame[w].pc \in {"issueOpenK", "activateOpenK", "revokeOpenK", "syncOpenK"}
    /\ certificates' = NoCertificates
    /\ Goto(w, Opened(frame[w].pc))
    /\ UNCHANGED <<enrollments, registry, minted, owner, lapsed, acked>>

\* What a handler does after its write of certificates.json.
AfterCertificates(f) ==
    CASE f.pc = "issueFlushK" -> IF f.activate THEN "activateRead" ELSE "idle"
      [] f.pc = "activateFlushK" -> "idle"
      [] f.pc = "revokeFlushK" -> "syncReadK"
      [] f.pc = "syncFlushK" -> "syncReadE"

FlushCertificates(w) ==
    /\ frame[w].pc \in {"issueFlushK", "activateFlushK", "revokeFlushK", "syncFlushK"}
    /\ certificates' \in Written(certificates, NoCertificates, frame[w].snapK)
    /\ LET l == AfterCertificates(frame[w]) IN
       IF l = "idle" THEN Return(w)
       ELSE Become(w, [frame[w] EXCEPT !.pc = l,
                !.snapK = NoCertificates, !.then = IF At(w, "revokeFlushK") THEN "idle" ELSE @])
    /\ UNCHANGED <<enrollments, registry, minted, owner, lapsed, acked>>
-----------------------------------------------------------------------------
(* The environment *)

\* now passes not_valid_after of a certificate.
Lapse ==
    /\ \E s \in Lapsing :
        /\ minted[s] # None
        /\ lapsed' = lapsed \union {s}
    /\ UNCHANGED <<stores, minted, owner, acked, frame>>

\* The process dies and is started again: the files stay as the last step left them.
Crash ==
    /\ CanCrash
    /\ frame' = [w \in Worker |-> IdleFrame]
    /\ UNCHANGED <<stores, minted, owner, lapsed, acked>>

Start(w) ==
    \/ StartEnroll(w) \/ StartEnrollDemo(w) \/ StartIssue(w) \/ StartActivate(w)
    \/ StartRevoke(w) \/ StartRegistryRevoke(w) \/ StartSync(w)

Handle(w) ==
    \/ IssueRefused(w) \/ IssuePending(w) \/ IssueAgain(w) \/ IssueExisting(w) \/ IssueMint(w)
    \/ ActivateRead(w) \/ ActivateCheck(w) \/ ActivateEmails(w)
    \/ RevokeRead(w) \/ RevokeReadR(w) \/ OpenRegistry(w) \/ FlushRegistry(w)
    \/ SyncReadK(w) \/ SyncReadR(w) \/ SyncReadE(w)
    \/ OpenEnrollments(w) \/ FlushEnrollments(w)
    \/ OpenCertificates(w) \/ FlushCertificates(w)

Next == (\E w \in Worker : Start(w) \/ Handle(w)) \/ Lapse \/ Crash

Spec == Init /\ [][Next]_vars
FairSpec == Spec /\ \A w \in Worker : WF_vars(Handle(w))
-----------------------------------------------------------------------------
(* Properties *)

TypeOK ==
    /\ enrollments \in [AnyEnrollment -> EnrollmentRecord]
    /\ certificates \in CertificateList
    /\ registry \in Registry
    /\ minted \in [AnySerial -> AnyEnrollment \union {None}]
    /\ owner \in [AnyEnrollment -> Email \union {None}]
    /\ lapsed \subseteq AnySerial
    /\ acked \subseteq AnySerial
    /\ frame \in [Worker -> Frame]

Quiet == \A w \in Worker : At(w, "idle")

(* A revocation that has been written is final: as long as the registry can   *)
(* be read, every record of the serial, whatever stale copy another handler   *)
(* wrote back, is derived to be revoked (certificate_lifecycle_service.py     *)
(* 338-347, 358-389).                                                         *)
RevokedStaysRevoked ==
    registry.ok => \A s \in acked :
        Has(certificates, s) => DeriveStatus(s, certificates.rec[s], registry.serials) = "revoked"

(* Issuing again never mints a second recorded certificate for an enrollment  *)
(* (README.md:116, issue_enrollment).                                         *)
OneCertificatePerEnrollment ==
    \A s, t \in Present(certificates) :
        certificates.rec[s].enr = certificates.rec[t].enr => s = t

(* Between requests the two files agree: an issued enrollment finds the       *)
(* record of its certificate, so that issuing again returns it, and a         *)
(* recorded certificate finds its enrollment, marked as issued with it.       *)
IssuedIsFound ==
    Quiet =>
        /\ \A e \in AnyEnrollment : enrollments[e].status = "issued" =>
            certificates.rec[enrollments[e].serial].enr = e
        /\ \A s \in Present(certificates) :
            LET e == enrollments[certificates.rec[s].enr] IN e.status = "issued" /\ e.serial = s

(* Every recorded certificate was minted for the enrollment it names, and     *)
(* that enrollment, if it is still on file, proved possession of its key.     *)
IssuedOnProof ==
    \A s \in Present(certificates) :
        LET e == certificates.rec[s].enr IN
        /\ minted[s] = e
        /\ enrollments[e].status # "absent" => enrollments[e].proven

(* The certificate my-active offers a user was minted for that user, although *)
(* records without an enrollment on file count as Alice's: those are left     *)
(* only where a crash emptied the enrollment file (332-335).                  *)
ActiveIsOwn ==
    Quiet => \A em \in Email, s \in AnySerial : IsActive(s, em) =>
        owner[minted[s]] = em \/ enrollments[minted[s]].status = "absent"

(* A certificate that a later activation superseded is not the one my-active  *)
(* offers (docs/SECUREDOC_NEXT_IMPROVEMENTS_WITH_REPO_BASELINE.md:434-437).   *)
SupersededNotInUse ==
    Quiet => \A em \in Email, s \in AnySerial :
        IsActive(s, em) => certificates.rec[s].by = None

(* An enrollment marked issued gets its certificate record: issue_enrollment  *)
(* writes the two files one after the other (277-278).                        *)
IssuedGetsRecord ==
    \A e \in AnyEnrollment :
        enrollments[e].status = "issued" ~>
            \E s \in AnySerial : certificates.rec[s].enr = e
=============================================================================
