------------------------------- MODULE DemoPKI -------------------------------
(***************************************************************************)
(* The demo PKI of the SecureDoc backend: ten key and certificate files    *)
(* that init_demo_pki generates together and writes one after the other,   *)
(* the check that decides whether they have to be generated again, and the *)
(* handlers that load them, each load preceded by that check.              *)
(*                                                                         *)
(* All keys and certificates of one call of init_demo_pki form a           *)
(* generation: each certificate of it fits the keys of the same generation *)
(* and no other.  A file therefore holds a generation, or nothing, or the  *)
(* empty file that truncating left.                                        *)
(***************************************************************************)
EXTENDS Naturals, Sequences, FiniteSets, CertificateProfiles

CONSTANTS
    Worker,    \* threads of the pool that run handlers
    Gen,       \* generations init_demo_pki may draw; also the serials of USER_CERT
    None,      \* Python's None: no file, nothing loaded
    Torn,      \* the content of a truncated file
    Requests,  \* the endpoints clients call in this instance
    CanCrash,  \* TRUE: the process may die between two steps
    MaxIssued  \* bound: certificates issued for users

\* The order in which init_demo_pki writes them.
Files == <<"rootKey", "rootCert", "intKey", "intCert", "userKey", "userCert",
           "tsaKey", "tsaCert", "ocspKey", "ocspCert">>
File == {Files[i] : i \in DOMAIN Files}
CertFile == {"rootCert", "intCert", "userCert", "tsaCert", "ocspCert"}
RoleOf == [rootCert |-> "root", intCert |-> "intermediate", userCert |-> "signer",
           tsaCert |-> "tsa", ocspCert |-> "ocsp"]

ASSUME PkiAssumption ==
    /\ None \notin Gen /\ Torn \notin Gen /\ None # Torn
    /\ CanCrash \in BOOLEAN /\ MaxIssued \in Nat

VARIABLES
    disk,       \* the ten files
    records,    \* certificates.json: serials of the demo records, in list order
    enrolled,   \* the demo enrollment: its serial and the generation of its key
    revoked,    \* serials in the revocation registry
    issued,     \* certificates issued for users, named by the generations of the
                \* issuer certificate and of the key they were built from
    call,       \* per worker, the handler it runs
    overlapped, \* history: a file was written while another handler ran
    cut,        \* history: the replacement of a usable PKI was cut short by a crash
    crashed     \* history: the process died while a handler ran

pkiVars == <<disk, records, enrolled, revoked, issued, call, overlapped, cut, crashed>>
UserCert == [issuer : Gen, by : Gen]
Listing == {records[i] : i \in DOMAIN records}
-----------------------------------------------------------------------------
(* Handlers.  "back" is the call stack: where to go on when the innermost     *)
(* call returns.  A frame marked caught is a try block that swallows what is  *)
(* raised inside; none resumes between two writes.  "caller" is a handler of  *)
(* another module, "stuck" one that the model does not follow any further.    *)

Point == {"idle", "load", "write", "sync", "enroll", "describe", "stuck", "caller"}
Frame == [at : Point \ {"write"}, serial : Gen \union {None}, caught : BOOLEAN]
Operation == {"init", "demo", "issue", "none"}

Idle ==
    [at |-> "idle", op |-> "none", back |-> <<>>, serial |-> None, gen |-> None, next |-> 1,
     open |-> FALSE, replaces |-> FALSE, todo |-> <<>>, got |-> <<>>]

Call ==
    [at : Point, op : Operation, back : Seq(Frame), serial : Gen \union {None},
     gen : Gen \union {None}, next : 1 .. Len(Files), open : BOOLEAN, replaces : BOOLEAN,
     todo : Seq(File), got : Seq(Gen)]

At(w, l) == call[w].at = l
Become(w, c) == call' = [call EXCEPT ![w] = c]
Goto(w, l) == Become(w, [call[w] EXCEPT !.at = l])
To(l) == [at |-> l, serial |-> None, caught |-> FALSE]
Push(w, fr) == [call[w] EXCEPT !.back = <<fr>> \o @]
Quiet == \A w \in Worker : At(w, "idle")

\* The innermost call returns.
Return(w) ==
    IF call[w].back = <<>> THEN Become(w, Idle)
    ELSE LET fr == Head(call[w].back)
         IN  Become(w, [call[w] EXCEPT !.at = fr.at, !.serial = fr.serial, !.back = Tail(@)])

\* An exception leaves every call up to the first try block; without one it ends the handler.
Raise(w) ==
    LET back == call[w].back
        Catching == {i \in DOMAIN back : back[i].caught}
    IN  IF Catching = {} THEN Become(w, Idle)
        ELSE \E i \in Catching :
            /\ \A k \in Catching : i <= k
            /\ Become(w, [call[w] EXCEPT !.at = back[i].at, !.serial = back[i].serial,
                                         !.back = SubSeq(back, i + 1, Len(back))])

(* A handler that starts while another one is between two writes overlaps it. *)
(* The bound on overlaps: once files were written under another handler, the  *)
(* handlers that run go on, and no further request starts.                    *)
Overlaps == overlapped' = \E v \in Worker : At(v, "write")
Begin(w, c) == At(w, "idle") /\ ~overlapped /\ Overlaps /\ Become(w, c)

PkiInit ==
    /\ disk = [f \in File |-> None]
    /\ records = <<>>
    /\ enrolled = [serial |-> None, key |-> None]
    /\ revoked = {} /\ issued = {}
    /\ call = [w \in Worker |-> Idle]
    /\ overlapped = FALSE /\ cut = FALSE /\ crashed = FALSE
-----------------------------------------------------------------------------
(* _demo_pki_is_current: all files exist and the five certificates load and   *)
(* have their profiles.  The keys are not looked at, nor what signed what.    *)

\* Faulty variant of Checked: the certificate written last is left out.
CheckedButLast == CertFile \ {"ocspCert"}
Checked == CertFile
HasProfile == {f \in CertFile : ValidAs(Built(RoleOf[f]), RoleOf[f])}
Current ==
    /\ \A f \in File : disk[f] # None
    /\ \A f \in Checked : disk[f] # Torn /\ f \in HasProfile

\* The bound on generations: the ids of those that nothing mentions are used again.
Mentioned(c) ==
    {c.gen, c.serial} \union {c.got[i] : i \in DOMAIN c.got} \union {c.back[i].serial : i \in DOMAIN c.back}
Fresh ==
    Gen \ ({disk[f] : f \in File} \union Listing \union {enrolled.serial, enrolled.key}
              \union UNION {{p.by, p.issuer} : p \in issued}
              \union UNION {Mentioned(call[w]) : w \in Worker})

(* init_demo_pki past its check, called from a frame c that goes on at fr.    *)
(* The bound on overlaps: when a second handler would write the ten files at  *)
(* the same time, it is not followed any further.                             *)
Generate(w, c, fr) ==
    IF \E v \in Worker : At(v, "write") THEN Become(w, [Idle EXCEPT !.at = "stuck"])
    ELSE \E g \in Fresh :
        Become(w, [c EXCEPT !.at = "write", !.gen = g, !.next = 1, !.open = FALSE,
                            !.replaces = Current, !.back = fr \o c.back])
-----------------------------------------------------------------------------
(* init_demo_pki.  _write truncates a file and then writes it.                *)

OpenFile(w) ==
    /\ At(w, "write") /\ ~call[w].open
    /\ disk' = [disk EXCEPT ![Files[call[w].next]] = Torn]
    /\ Become(w, [call[w] EXCEPT !.open = TRUE])
    /\ overlapped' = (overlapped \/ \E v \in Worker \ {w} : ~At(v, "idle"))
    /\ UNCHANGED <<records, enrolled, revoked, issued, cut, crashed>>

\* After the last file the lifecycle is synchronised in a try block, and then the PKI is
\* described.
FlushFile(w) ==
    /\ At(w, "write") /\ call[w].open
    /\ disk' = [disk EXCEPT ![Files[call[w].next]] = call[w].gen]
    /\ Become(w, IF call[w].next < Len(Files)
                 THEN [call[w] EXCEPT !.next = @ + 1, !.open = FALSE]
                 ELSE [call[w] EXCEPT !.at = "sync", !.gen = None, !.next = 1, !.open = FALSE,
                          !.replaces = FALSE,
                          !.back = <<[To("describe") EXCEPT !.caught = TRUE]>> \o @])
    /\ overlapped' = (overlapped \/ \E v \in Worker \ {w} : ~At(v, "idle"))
    /\ UNCHANGED <<records, enrolled, revoked, issued, cut, crashed>>

\* describe_demo_pki generates a PKI that is not current, which is then one that is being
\* written, and loads the five certificates.
Describe(w) ==
    /\ At(w, "describe")
    /\ IF Current THEN Return(w) ELSE Generate(w, call[w], <<To("describe")>>)
    /\ UNCHANGED <<disk, records, enrolled, revoked, issued, overlapped, cut, crashed>>
-----------------------------------------------------------------------------
(* sync_demo_certificate_record on the demo records: the record of the        *)
(* certificate on file goes to the end of the list, then the demo enrollment  *)
(* is rewritten with the key that is loaded after that.  All records of the   *)
(* serial are dropped first; DemoIsListed says that there is at most one.     *)

\* Faulty variant of Listed: the record of the same serial is not dropped first.
ListedAgain(list, g) == Append(list, g)
Listed(list, g) ==
    IF \E i \in DOMAIN list : list[i] = g
    THEN LET i == CHOOSE i \in DOMAIN list : list[i] = g
         IN  Append(SubSeq(list, 1, i - 1) \o SubSeq(list, i + 1, Len(list)), g)
    ELSE Append(list, g)

SyncRecords(w) ==
    /\ At(w, "sync")
    /\ LET g == disk["userCert"] IN
       IF g = None
       THEN Generate(w, call[w], <<To("sync")>>) /\ UNCHANGED records
       ELSE IF g = Torn THEN Raise(w) /\ UNCHANGED records
       ELSE /\ records' = Listed(records, g)
            /\ Become(w, [call[w] EXCEPT !.at = "enroll", !.serial = g])
    /\ UNCHANGED <<disk, enrolled, revoked, issued, overlapped, cut, crashed>>

SyncEnrollment(w) ==
    /\ At(w, "enroll")
    /\ IF ~Current
       THEN /\ Generate(w, call[w], <<[To("enroll") EXCEPT !.serial = call[w].serial]>>)
            /\ UNCHANGED enrolled
       ELSE IF disk["userKey"] = Torn THEN Raise(w) /\ UNCHANGED enrolled
       ELSE /\ enrolled' = [serial |-> call[w].serial, key |-> disk["userKey"]]
            /\ Return(w)
    /\ UNCHANGED <<disk, records, revoked, issued, overlapped, cut, crashed>>
-----------------------------------------------------------------------------
(* The getters: init_demo_pki(), then the load of one file.                   *)

Load(w) ==
    /\ At(w, "load") /\ call[w].todo # <<>>
    /\ LET g == disk[Head(call[w].todo)] IN
       IF ~Current THEN Generate(w, call[w], <<To("load")>>)
       ELSE IF g = Torn THEN Raise(w)
       ELSE Become(w, [call[w] EXCEPT !.todo = Tail(@), !.got = Append(@, g)])
    /\ UNCHANGED <<disk, records, enrolled, revoked, issued, overlapped, cut, crashed>>

\* POST /certificates/init-demo-pki, and GET /certificates/demo-pki
StartInit(w) ==
    /\ "init" \in Requests
    /\ \E force \in BOOLEAN :
        IF force \/ ~Current
        THEN /\ At(w, "idle") /\ ~overlapped /\ Overlaps
             /\ Generate(w, [Idle EXCEPT !.op = "init"], <<To("sync")>>)
        ELSE Begin(w, [Idle EXCEPT !.at = "describe", !.op = "init", !.back = <<To("sync")>>])
    /\ UNCHANGED <<disk, records, enrolled, revoked, issued, cut, crashed>>

StartDemo(w) ==
    /\ "demo" \in Requests
    /\ Begin(w, [Idle EXCEPT !.at = "sync", !.op = "demo", !.back = <<To("describe")>>])
    /\ UNCHANGED <<disk, records, enrolled, revoked, issued, cut, crashed>>

\* issue_user_certificate_from_public_key: the issuer's certificate, then its key.
StartIssue(w) ==
    /\ "issue" \in Requests
    /\ Cardinality(issued) + Cardinality({v \in Worker : call[v].op = "issue"}) < MaxIssued
    /\ Begin(w, [Idle EXCEPT !.at = "load", !.op = "issue", !.todo = <<"intCert", "intKey">>])
    /\ UNCHANGED <<disk, records, enrolled, revoked, issued, cut, crashed>>

Issue(w) ==
    /\ At(w, "load") /\ call[w].op = "issue" /\ call[w].todo = <<>>
    /\ issued' = issued \union {[issuer |-> call[w].got[1], by |-> call[w].got[2]]}
    /\ Return(w)
    /\ UNCHANGED <<disk, records, enrolled, revoked, overlapped, cut, crashed>>

\* POST /revocation/revoke/{serial}; CertificateLifecycle has the registry in detail.
Revoke ==
    /\ "revoke" \in Requests
    /\ \E s \in Listing \union issued : revoked' = revoked \union {s}
    /\ UNCHANGED <<disk, records, enrolled, issued, call, overlapped, cut, crashed>>

Crash ==
    /\ CanCrash
    /\ call' = [w \in Worker |-> Idle]
    /\ cut' = (cut \/ \E w \in Worker : call[w].at = "write" /\ call[w].replaces)
    /\ crashed' = (crashed \/ ~Quiet)
    /\ UNCHANGED <<disk, records, enrolled, revoked, issued, overlapped>>

PkiStart(w) == StartInit(w) \/ StartDemo(w) \/ StartIssue(w)
PkiStep(w) ==
    \/ OpenFile(w) \/ FlushFile(w) \/ Describe(w)
    \/ SyncRecords(w) \/ SyncEnrollment(w) \/ Load(w) \/ Issue(w)

PkiNext == (\E w \in Worker : PkiStart(w) \/ PkiStep(w)) \/ Revoke \/ Crash
PkiSpec == PkiInit /\ [][PkiNext]_pkiVars
-----------------------------------------------------------------------------
(* Properties *)

Undisturbed == ~overlapped /\ ~cut

PkiTypeOK ==
    /\ disk \in [File -> Gen \union {None, Torn}]
    /\ records \in Seq(Gen)
    /\ enrolled \in [serial : Gen \union {None}, key : Gen \union {None}]
    /\ revoked \subseteq Gen \union UserCert
    /\ issued \subseteq UserCert
    /\ call \in [Worker -> Call]
    /\ overlapped \in BOOLEAN /\ cut \in BOOLEAN /\ crashed \in BOOLEAN

(* A PKI that the check takes for usable is of one generation, although the   *)
(* check looks at neither the keys nor at what signed what, and wherever a    *)
(* crash cut its creation or repair short (pki_service.py 249, 295-304).      *)
CurrentIsWhole ==
    Undisturbed /\ Current /\ ~(\E w \in Worker : At(w, "write")) =>
        \E g \in Gen : \A f \in File : disk[f] = g

(* What init_demo_pki has written passes the check that would write it again  *)
(* and whoever loads it by role finds that role: otherwise creating the PKI   *)
(* and describing it would call each other for ever (pki_service.py 265-318). *)
WrittenIsCurrent ==
    \A g \in Gen : (\A f \in File : disk[f] = g) =>
        /\ Current
        /\ \A f \in CertFile : ProfileName(Built(RoleOf[f])) = RoleOf[f]

(* The demo enrollment holds the key of the certificate it names, and each    *)
(* synchronisation leaves the certificate on file listed exactly once         *)
(* (certificate_lifecycle_service.py 445-514).                                *)
DemoIsListed ==
    /\ Undisturbed /\ ~crashed => enrolled.key = enrolled.serial
    /\ \A i, j \in DOMAIN records : records[i] = records[j] => i = j
    /\ Undisturbed /\ ~crashed /\ Quiet /\ Current =>
        \E i \in DOMAIN records : records[i] = disk["userCert"]
=============================================================================
