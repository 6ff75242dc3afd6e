----------------------- MODULE SigningRequestsProofs -----------------------
(* Proofs about SigningRequests, for every value of its constants.            *)
EXTENDS SigningRequests, CertificateLifecycleProofs

Active(w) == job[w].pc # "idle"

(* A handler that runs works on a request id that was handed out.  One that   *)
(* prepares is the only one to know it; any other works on a request on file, *)
(* that was confirmed, with the certificate the request names.                *)
JobOK(w) ==
    Active(w) =>
        /\ job[w].req \in Request /\ job[w].req \in taken
        /\ job[w].op = "prepare" => ~Known(job[w].req)
        /\ job[w].op # "prepare" =>
              /\ Known(job[w].req)
              /\ requests[job[w].req].confirmed
              /\ requests[job[w].req].serial = job[w].serial
        /\ job[w].pc = "record" => job[w].op # "prepare"
        /\ job[w].pc = "record" /\ job[w].op = "presign" => job[w].serial \in ClientHeld
        /\ job[w].op = "finalize" => job[w].presign \in File

Distinct ==
    \A v, w \in Worker :
        /\ Active(v) /\ job[v].op = "prepare" /\ Active(w) /\ job[w].op = "prepare"
        /\ job[v].req = job[w].req
        => v = w

(* SignTypeOK is not inductive: that a presign is stored for a confirmed      *)
(* request of a client-held certificate rests on what the handler checked     *)
(* several steps earlier, and on no other handler replacing the request.      *)
JobInv ==
    /\ SignTypeOK
    /\ \A w \in Worker : JobOK(w)
    /\ Distinct
    /\ \A r \in Request : Known(r) => r \in taken

LEMMA IdleJobType == IdleJob \in Job /\ IdleJob.pc = "idle"
  BY DEF IdleJob, Job, Operation, AnySerial

LEMMA JobTypes ==
    ASSUME JobInv, NEW w \in Worker
    PROVE  /\ job[w] \in Job /\ job \in [Worker -> Job]
           /\ job[w].pc \in {"idle", "status", "record"} /\ job[w].op \in Operation
           /\ job[w].req \in Request \union {None} /\ job[w].serial \in AnySerial
           /\ job[w].pdf \in BOOLEAN /\ job[w].genuine \in BOOLEAN /\ job[w].late \in BOOLEAN
           /\ job[w].presign \in File \union {None}
  BY DEF JobInv, SignTypeOK, Job

LEMMA SignInitInv == SignInit => JobInv
  <1> SUFFICES ASSUME SignInit PROVE JobInv
    OBVIOUS
  <1>1. SignTypeOK
    BY IdleJobType DEF SignInit, SignTypeOK
  <1>. QED
    BY <1>1, IdleJobType DEF SignInit, JobInv, JobOK, Distinct, Active, Known
-----------------------------------------------------------------------------
(* What the steps of this service do to the lifecycle service: they start or  *)
(* end a run of sync_demo_certificate_record, and touch none of its files.    *)

LEMMA SyncFrame ==
    ASSUME TypeOK, NEW w \in Worker, NEW f \in {IdleFrame, frame[w]}
    PROVE  LET g == [f EXCEPT !.pc = "syncReadK", !.then = "caller"] IN
           g \in FrameRecord /\ Addressed(g) /\ g.pc = "syncReadK" /\ g.then = "caller"
  <1> DEFINE g == [f EXCEPT !.pc = "syncReadK", !.then = "caller"]
  <1>1. g \in FrameRecord /\ g.pc = "syncReadK" /\ g.then = "caller"
    BY FrameTypes, IdleFrameType, Labels DEF FrameRecord, ReadLabels
  <1>2. Addressed(g)
    BY <1>1 DEF Addressed, ForEnrollment, ForSerial
  <1>. QED
    BY <1>1, <1>2

(* The lifecycle side of every step of a signing handler.                     *)
LifecycleSide(w) ==
    /\ UNCHANGED <<stores, minted, owner, lapsed, acked>>
    /\ \/ UNCHANGED frame
       \/ Return(w)
       \/ \E f \in {IdleFrame, frame[w]} :
              Become(w, [f EXCEPT !.pc = "syncReadK", !.then = "caller"])

LEMMA LifecycleSideType ==
    ASSUME TypeOK, NEW w \in Worker, LifecycleSide(w)
    PROVE  TypeOK'
  <1>1. CASE UNCHANGED frame
    BY <1>1 DEF LifecycleSide, TypeOK, stores
  <1>2. CASE Return(w)
    BY <1>2, ReturnType, ReadStepType DEF LifecycleSide
  <1>3. ASSUME NEW f \in {IdleFrame, frame[w]},
               Become(w, [f EXCEPT !.pc = "syncReadK", !.then = "caller"])
        PROVE  TypeOK'
    <2> DEFINE g == [f EXCEPT !.pc = "syncReadK", !.then = "caller"]
    <2>1. g \in FrameRecord /\ Addressed(g)
      BY SyncFrame
    <2>2. Become(w, g)
      BY <1>3
    <2> HIDE DEF g
    <2>. QED
      BY <2>1, <2>2, BecomeType, ReadStepType DEF LifecycleSide
  <1>. QED
    BY <1>1, <1>2, <1>3 DEF LifecycleSide

LEMMA LifecycleSideRegistry ==
    ASSUME TypeOK, RegistryInv, SerialRevocation = TRUE, NEW w \in Worker, LifecycleSide(w)
    PROVE  RegistryInv'
  <1>1. CASE UNCHANGED frame
    BY <1>1 DEF LifecycleSide, RegistryInv, Holds, stores
  <1>2. CASE Return(w)
    BY <1>2, ReturnStep DEF LifecycleSide, stores
  <1>3. ASSUME NEW f \in {IdleFrame, frame[w]},
               Become(w, [f EXCEPT !.pc = "syncReadK", !.then = "caller"])
        PROVE  RegistryInv'
    <2> DEFINE g == [f EXCEPT !.pc = "syncReadK", !.then = "caller"]
    <2>1. g.pc = "syncReadK" /\ g.then = "caller"
      BY SyncFrame
    <2>2. Become(w, g)
      BY <1>3
    <2> HIDE DEF g
    <2>. QED
      BY <2>1, <2>2, OtherStep DEF LifecycleSide, stores, RevocationLabels
  <1>. QED
    BY <1>1, <1>2, <1>3 DEF LifecycleSide

LEMMA SigningSide ==
    ASSUME NEW w \in Worker, StartSigning(w) \/ HandleSigning(w)
    PROVE  LifecycleSide(w)
  <1>1. CASE StartSigning(w)
    BY <1>1 DEF StartSigning, StartPrepare, Confirm, StartSign, StartRemoteSign, StartSubmit,
                StartPresign, StartFinalize, FinalizeExpired, Begin, Await, LifecycleSide, vars
  <1>2. CASE HandleSigning(w)
    BY <1>2 DEF HandleSigning, Refuse, Prepared, Grant, RecordMissing, StorePackage, SubmitRejected,
                StorePdf, StorePresign, Finalize, FinalizeRejected, Signed, End, Await, LifecycleSide
  <1>. QED
    BY <1>1, <1>2
-----------------------------------------------------------------------------
(* The handlers keep JobInv.                                                  *)

(* A request other handlers work on stays on file, confirmed and with its     *)
(* certificate, or stays off file.                                            *)
Keeps(r) ==
    \/ requests'[r] = requests[r]
    \/ /\ Known(r) /\ requests'[r] \in RequestRecord
       /\ requests'[r].serial = requests[r].serial
       /\ requests[r].confirmed => requests'[r].confirmed

LEMMA WorkerStep ==
    ASSUME JobInv, NEW w \in Worker, NEW j \in Job, job' = [job EXCEPT ![w] = j],
           SignTypeOK', taken \subseteq taken', JobOK(w)',
           \A v \in Worker \ {w} : Active(v) => Keeps(job[v].req),
           j.pc # "idle" /\ j.op = "prepare" =>
               \A v \in Worker \ {w} : Active(v) => job[v].req # j.req,
           \A r \in Request : requests'[r] # None => r \in taken'
    PROVE  JobInv'
  <1>1. job \in [Worker -> Job]
    BY DEF JobInv, SignTypeOK
  <1>2. ASSUME NEW v \in Worker PROVE JobOK(v)'
    <2>1. CASE v # w
      BY <1>1, <2>1, SigningAssumption DEF JobInv, JobOK, Active, Known, Keeps
    <2>. QED
      BY <2>1
  <1>3. Distinct'
    BY <1>1 DEF JobInv, Distinct, Active
  <1>. QED
    BY <1>2, <1>3 DEF JobInv, Known

(* A handler that ends leaves the jobs of the others as they are.             *)
LEMMA EndStep ==
    ASSUME JobInv, NEW w \in Worker, End(w), SignTypeOK', taken \subseteq taken',
           \A v \in Worker \ {w} : Active(v) => Keeps(job[v].req),
           \A r \in Request : requests'[r] # None => r \in taken'
    PROVE  JobInv'
  <1>1. job' = [job EXCEPT ![w] = IdleJob] /\ job'[w] = IdleJob
    BY DEF End, JobInv, SignTypeOK
  <1>2. JobOK(w)'
    BY <1>1, IdleJobType DEF JobOK, Active
  <1>. QED
    BY <1>1, <1>2, IdleJobType, WorkerStep

LEMMA EndType ==
    ASSUME JobInv, NEW w \in Worker, End(w)
    PROVE  job' \in [Worker -> Job]
  BY IdleJobType DEF End, JobInv, SignTypeOK

(* Handlers that end and leave every request as it is.                        *)
LEMMA RefusalKeepsJobs ==
    ASSUME JobInv, NEW w \in Worker,
           Refuse(w) \/ RecordMissing(w) \/ SubmitRejected(w) \/ FinalizeRejected(w)
    PROVE  JobInv'
  <1>1. /\ End(w)
        /\ UNCHANGED <<requests, packages, files, expired, taken, made, late>>
    BY DEF Refuse, RecordMissing, SubmitRejected, FinalizeRejected
  <1>2. presigns' = presigns \/ presigns' = [presigns EXCEPT ![job[w].req] = None]
    BY DEF Refuse, RecordMissing, SubmitRejected, FinalizeRejected
  <1>3. SignTypeOK'
    BY <1>1, <1>2, EndType DEF JobInv, SignTypeOK, Known
  <1>. QED
    BY <1>1, <1>3, EndStep DEF JobInv, Keeps, Known

LEMMA PreparedKeepsJobs ==
    ASSUME JobInv, NEW w \in Worker, Prepared(w)
    PROVE  JobInv'
  <1> DEFINE rec == [serial |-> job[w].serial, pdf |-> job[w].pdf, confirmed |-> FALSE, signed |-> FALSE]
             r == job[w].req
  <1>1. /\ End(w) /\ requests' = [requests EXCEPT ![r] = rec]
        /\ Active(w) /\ job[w].op = "prepare"
        /\ late' = late \union (IF job[w].late THEN {r} ELSE {})
        /\ UNCHANGED <<packages, files, presigns, expired, taken, made>>
    BY DEF Prepared, Doing, Active
  <1>2. r \in Request /\ r \in taken /\ ~Known(r)
    BY <1>1 DEF JobInv, JobOK
  <1>3. rec \in RequestRecord
    BY JobTypes DEF RequestRecord
  <1> HIDE DEF rec
  <1>4. presigns[r] = None
    BY <1>2 DEF JobInv, SignTypeOK
  <1>5. SignTypeOK'
    BY <1>1, <1>2, <1>3, <1>4, EndType DEF JobInv, SignTypeOK, Known
  <1>6. \A v \in Worker \ {w} : Active(v) => job[v].req # r
    BY <1>1, <1>2 DEF JobInv, JobOK, Distinct
  <1>7. \A v \in Worker \ {w} : Active(v) => Keeps(job[v].req)
    BY <1>1, <1>6 DEF JobInv, JobOK, SignTypeOK, Keeps
  <1>8. \A q \in Request : requests'[q] # None => q \in taken'
    BY <1>1, <1>2 DEF JobInv, Known, SignTypeOK
  <1>. QED
    BY <1>1, <1>5, <1>7, <1>8, EndStep

LEMMA GrantKeepsJobs ==
    ASSUME JobInv, NEW w \in Worker, Grant(w)
    PROVE  JobInv'
  <1> DEFINE j == [job[w] EXCEPT !.pc = "record"]
  <1>1. /\ job' = [job EXCEPT ![w] = j] /\ job[w].op # "prepare" /\ Active(w)
        /\ Granted(job[w])
        /\ UNCHANGED <<requests, packages, files, presigns, expired, taken, made, late>>
    BY DEF Grant, Await, Doing, Active
  <1>2. /\ j \in Job /\ j.pc = "record" /\ j.op = job[w].op /\ j.req = job[w].req
        /\ j.serial = job[w].serial /\ j.presign = job[w].presign
    BY JobTypes DEF Job
  <1> HIDE DEF j
  <1>3. SignTypeOK' /\ job'[w] = j
    BY <1>1, <1>2 DEF JobInv, SignTypeOK, Known
  <1>4. JobOK(w)'
    BY <1>1, <1>2, <1>3 DEF JobInv, JobOK, Active, Known, Granted, Allowed
  <1>. QED
    BY <1>1, <1>2, <1>3, <1>4, WorkerStep DEF JobInv, Keeps, Known

LEMMA SigningKeepsJobs ==
    ASSUME JobInv, NEW w \in Worker, StorePackage(w) \/ StorePdf(w) \/ Finalize(w)
    PROVE  JobInv'
  <1> DEFINE r == job[w].req
             rec == [requests[r] EXCEPT !.signed = TRUE]
  <1>1. /\ End(w) /\ requests' = [requests EXCEPT ![r] = rec]
        /\ Active(w) /\ job[w].pc = "record"
        /\ made' = [made EXCEPT ![r] = IF @ = 2 THEN 2 ELSE @ + 1]
        /\ late' = late \union (IF job[w].late THEN {r} ELSE {})
        /\ UNCHANGED expired
    BY DEF StorePackage, StorePdf, Finalize, Ready, Doing, Active, Signed, Marked
  <1>2. r \in Request /\ r \in taken /\ Known(r) /\ requests[r].confirmed
    BY <1>1 DEF JobInv, JobOK
  <1>3. requests[r] \in RequestRecord
    BY <1>2 DEF JobInv, SignTypeOK, Known
  <1>4. /\ rec \in RequestRecord /\ rec.serial = requests[r].serial
        /\ rec.confirmed = requests[r].confirmed
    BY <1>3 DEF RequestRecord
  <1> HIDE DEF rec
  <1>5. /\ packages' \subseteq Request
        /\ files' \in [File -> Request \union {None}]
        /\ taken \subseteq taken' /\ taken' \subseteq Request \union File
    BY <1>2 DEF StorePackage, StorePdf, Finalize, JobInv, SignTypeOK
  <1>6. presigns' = presigns \/ presigns' = [presigns EXCEPT ![r] = None]
    BY DEF StorePackage, StorePdf, Finalize
  <1>7. \A q \in Request :
            requests'[q] = requests[q] \/ (q = r /\ requests'[q] = rec)
    BY <1>1, <1>2 DEF JobInv, SignTypeOK
  <1>8. SignTypeOK'
    <2>1. requests' \in [Request -> RequestRecord \union {None}] /\ late' \subseteq Request
      BY <1>1, <1>2, <1>4 DEF JobInv, SignTypeOK
    <2>2. made' \in [Request -> 0 .. 2]
      BY <1>1, <1>2 DEF JobInv, SignTypeOK
    <2>3. /\ presigns' \in [Request -> File \union {None}]
          /\ \A q \in Request : presigns'[q] # None => presigns[q] # None
      BY <1>2, <1>6 DEF JobInv, SignTypeOK
    <2>4. \A q \in Request : presigns'[q] # None =>
              requests'[q] # None /\ requests'[q].confirmed /\ requests'[q].serial \in ClientHeld
      BY <1>4, <1>7, <2>3, SigningAssumption DEF JobInv, SignTypeOK, Known
    <2>. QED
      BY <1>1, <1>5, <2>1, <2>2, <2>3, <2>4, EndType DEF SignTypeOK, Known, JobInv
  <1>9. \A q \in Request : Keeps(q)
    BY <1>2, <1>4, <1>7 DEF Keeps
  <1>10. \A q \in Request : requests'[q] # None => q \in taken'
    BY <1>2, <1>5, <1>7 DEF JobInv, Known
  <1>11. \A v \in Worker \ {w} : Active(v) => Keeps(job[v].req)
    BY <1>9 DEF JobInv, JobOK
  <1>. QED
    BY <1>1, <1>5, <1>8, <1>10, <1>11, EndStep

LEMMA StorePresignKeepsJobs ==
    ASSUME JobInv, NEW w \in Worker, StorePresign(w)
    PROVE  JobInv'
  <1> DEFINE r == job[w].req
  <1>1. PICK f \in File \ taken :
            taken' = taken \union {f} /\ presigns' = [presigns EXCEPT ![r] = f]
    BY DEF StorePresign
  <1>2. /\ End(w) /\ Active(w) /\ job[w].pc = "record" /\ job[w].op = "presign"
        /\ UNCHANGED <<requests, packages, files, expired, made, late>>
    BY DEF StorePresign, Ready, Doing, Active
  <1>3. /\ r \in Request /\ Known(r) /\ requests[r].confirmed
        /\ requests[r].serial \in ClientHeld
    BY <1>2 DEF JobInv, JobOK
  <1>4. SignTypeOK'
    BY <1>1, <1>2, <1>3, EndType DEF JobInv, SignTypeOK, Known
  <1>. QED
    BY <1>1, <1>2, <1>4, EndStep DEF JobInv, Keeps, Known

(* A job with some of its fields replaced.                                    *)
LEMMA JobFields ==
    ASSUME NEW j \in Job, NEW r \in Request, NEW s \in AnySerial, NEW p \in BOOLEAN, NEW l \in BOOLEAN
    PROVE  LET k == [j EXCEPT !.pc = "status", !.req = r, !.serial = s, !.pdf = p, !.late = l] IN
           /\ k \in Job /\ k.pc = "status" /\ k.op = j.op /\ k.req = r /\ k.serial = s
           /\ k.presign = j.presign
  BY DEF Job

LEMMA StartPrepareKeepsJobs ==
    ASSUME JobInv, NEW w \in Worker, StartPrepare(w)
    PROVE  JobInv'
  <1> DEFINE J(r, s, pdf) == [IdleJob EXCEPT !.pc = "status", !.req = r, !.serial = s, !.pdf = pdf,
                                             !.late = s \in acked]
  <1>1. PICK r \in Request \ taken, s \in AnySerial, pdf \in BOOLEAN :
            taken' = taken \union {r} /\ job' = [job EXCEPT ![w] = J(r, s, pdf)]
    BY DEF StartPrepare, Await
  <1>2. UNCHANGED <<requests, packages, files, presigns, expired, made, late>>
    BY DEF StartPrepare
  <1>3. J(r, s, pdf) \in Job
    <2> DEFINE l == s \in acked
    <2>1. l \in BOOLEAN
      OBVIOUS
    <2> HIDE DEF l
    <2>2. [IdleJob EXCEPT !.pc = "status", !.req = r, !.serial = s, !.pdf = pdf, !.late = l] \in Job
      BY <2>1, IdleJobType, JobFields
    <2>. QED
      BY <2>2 DEF l
  <1>4. /\ J(r, s, pdf).pc = "status" /\ J(r, s, pdf).op = "prepare" /\ J(r, s, pdf).req = r
    BY IdleJobType DEF IdleJob
  <1> HIDE DEF J
  <1>5. SignTypeOK' /\ job'[w] = J(r, s, pdf)
    BY <1>1, <1>2, <1>3 DEF JobInv, SignTypeOK, Known
  <1>6. JobOK(w)'
    BY <1>1, <1>2, <1>4, <1>5 DEF JobInv, JobOK, Active, Known
  <1>. QED
    BY <1>1, <1>2, <1>3, <1>4, <1>5, <1>6, WorkerStep DEF JobInv, JobOK, Keeps, Known

LEMMA BeginKeepsJobs ==
    ASSUME JobInv, NEW w \in Worker, NEW r \in Request, NEW j \in Job, Begin(w, r, j),
           j.op # "prepare", j.op = "finalize" => j.presign \in File
    PROVE  JobInv'
  <1> DEFINE k == [j EXCEPT !.pc = "status", !.req = r, !.serial = requests[r].serial,
                            !.pdf = requests[r].pdf, !.late = requests[r].serial \in acked]
  <1>1. /\ job' = [job EXCEPT ![w] = k] /\ Open(r)
        /\ UNCHANGED <<requests, packages, files, presigns, expired, taken, made, late>>
    BY DEF Begin, Await, MaySign
  <1>2. Known(r) /\ requests[r] \in RequestRecord /\ requests[r].confirmed /\ r \in taken
    BY <1>1 DEF Open, Known, JobInv, SignTypeOK
  <1>3. /\ k \in Job /\ k.pc = "status" /\ k.op = j.op /\ k.req = r
        /\ k.serial = requests[r].serial /\ k.presign = j.presign
    <2>1. requests[r].serial \in AnySerial /\ requests[r].pdf \in BOOLEAN
      BY <1>2 DEF RequestRecord
    <2> DEFINE l == requests[r].serial \in acked
    <2>2. l \in BOOLEAN
      OBVIOUS
    <2> HIDE DEF l
    <2>3. LET m == [j EXCEPT !.pc = "status", !.req = r, !.serial = requests[r].serial,
                             !.pdf = requests[r].pdf, !.late = l] IN
          /\ m \in Job /\ m.pc = "status" /\ m.op = j.op /\ m.req = r
          /\ m.serial = requests[r].serial /\ m.presign = j.presign
      BY <2>1, <2>2 DEF Job
    <2>. QED
      BY <2>3 DEF l
  <1> HIDE DEF k
  <1>4. SignTypeOK' /\ job'[w] = k
    BY <1>1, <1>3 DEF JobInv, SignTypeOK, Known
  <1>5. JobOK(w)'
    BY <1>1, <1>2, <1>3, <1>4 DEF JobInv, JobOK, Active, Known
  <1>. QED
    BY <1>1, <1>3, <1>4, <1>5, WorkerStep DEF JobInv, Keeps, Known

LEMMA StartSigningKeepsJobs ==
    ASSUME JobInv, NEW w \in Worker, StartSigning(w)
    PROVE  JobInv'
  <1>1. ASSUME NEW op \in {"canonical", "pdf", "presign"}
        PROVE  [IdleJob EXCEPT !.op = op] \in Job /\ [IdleJob EXCEPT !.op = op].op = op
    BY IdleJobType DEF Job, Operation, IdleJob
  <1>2. CASE StartPrepare(w)
    BY <1>2, StartPrepareKeepsJobs
  <1>3. CASE Confirm(w)
    <2>1. PICK r \in Request : Known(r) /\ requests' = [requests EXCEPT ![r].confirmed = TRUE]
      BY <1>3 DEF Confirm
    <2>2. UNCHANGED <<packages, files, presigns, expired, taken, job, made, late>>
      BY <1>3 DEF Confirm
    <2>3. requests[r] \in RequestRecord
      BY <2>1 DEF Known, JobInv, SignTypeOK
    <2> DEFINE rec == [requests[r] EXCEPT !.confirmed = TRUE]
    <2>4. rec \in RequestRecord /\ rec.serial = requests[r].serial /\ rec.confirmed = TRUE
             /\ rec # None
      BY SigningAssumption, <2>3 DEF RequestRecord
    <2>5. requests' = [requests EXCEPT ![r] = rec]
      BY <2>1
    <2> HIDE DEF rec
    <2>6. \A q \in Request : requests'[q] = requests[q] \/ (q = r /\ requests'[q] = rec)
      BY <2>5 DEF JobInv, SignTypeOK
    <2>7. SignTypeOK'
      <3>1. requests' \in [Request -> RequestRecord \union {None}]
        BY <2>4, <2>5 DEF JobInv, SignTypeOK
      <3>2. \A q \in Request : presigns[q] # None =>
                requests'[q] # None /\ requests'[q].confirmed /\ requests'[q].serial \in ClientHeld
        BY <2>4, <2>6 DEF JobInv, SignTypeOK, Known
      <3>. QED
        BY <2>2, <3>1, <3>2 DEF JobInv, SignTypeOK, Known
    <2>8. \A v \in Worker : JobOK(v)'
      <3>1. \A q \in Request :
                /\ requests'[q] # None <=> requests[q] # None
                /\ requests'[q].serial = requests[q].serial
                /\ requests[q].confirmed => requests'[q].confirmed
        BY <2>1, <2>4, <2>6 DEF Known
      <3>. QED
        BY <2>2, <3>1 DEF JobInv, JobOK, Active, Known
    <2>9. Distinct' /\ \A q \in Request : Known(q)' => q \in taken'
      BY <2>1, <2>2, <2>6 DEF JobInv, Distinct, Active, Known
    <2>. QED
      BY <2>7, <2>8, <2>9 DEF JobInv
  <1>4. CASE StartSign(w) \/ StartRemoteSign(w)
    <2>1. PICK r \in Request, op \in {"canonical", "pdf"} : Begin(w, r, [IdleJob EXCEPT !.op = op])
      BY <1>4 DEF StartSign, StartRemoteSign
    <2>. QED
      BY <1>1, <2>1, BeginKeepsJobs
  <1>5. CASE StartSubmit(w)
    <2> DEFINE j(g) == [IdleJob EXCEPT !.op = "submit", !.genuine = g]
    <2>1. PICK r \in Request, g \in BOOLEAN : Begin(w, r, j(g))
      BY <1>5 DEF StartSubmit
    <2>2. j(g) \in Job /\ j(g).op = "submit"
      BY IdleJobType DEF Job, Operation
    <2> HIDE DEF j
    <2>. QED
      BY <2>1, <2>2, BeginKeepsJobs
  <1>6. CASE StartPresign(w)
    BY <1>1, <1>6, BeginKeepsJobs DEF StartPresign
  <1>7. CASE StartFinalize(w)
    <2> DEFINE j(r, g) == [IdleJob EXCEPT !.op = "finalize", !.genuine = g, !.presign = presigns[r]]
    <2>1. PICK r \in Request, g \in BOOLEAN : presigns[r] # None /\ Begin(w, r, j(r, g))
      BY <1>7 DEF StartFinalize
    <2>2. presigns[r] \in File
      BY <2>1 DEF JobInv, SignTypeOK
    <2>3. j(r, g) \in Job /\ j(r, g).op = "finalize" /\ j(r, g).presign \in File
      BY <2>2, IdleJobType DEF Job, Operation
    <2> HIDE DEF j
    <2>. QED
      BY <2>1, <2>3, BeginKeepsJobs
  <1>8. CASE FinalizeExpired(w)
    <2>1. PICK r \in Request : presigns' = [presigns EXCEPT ![r] = None]
      BY <1>8 DEF FinalizeExpired
    <2>2. UNCHANGED <<requests, packages, files, expired, taken, job, made, late>>
      BY <1>8 DEF FinalizeExpired
    <2>. QED
      BY <2>1, <2>2 DEF JobInv, SignTypeOK, JobOK, Distinct, Active, Known
  <1>. QED
    BY <1>2, <1>3, <1>4, <1>5, <1>6, <1>7, <1>8 DEF StartSigning

LEMMA ElsewhereKeepsJobs ==
    ASSUME JobInv, NEW w \in Worker, Elsewhere(w)
    PROVE  JobInv'
  <1>1. UNCHANGED <<requests, packages, files, presigns, expired, taken, made, late>>
    BY DEF Elsewhere
  <1>2. job' = job \/ job' = [job EXCEPT ![w] = IdleJob]
    BY DEF Elsewhere
  <1>3. SignTypeOK'
    BY <1>1, <1>2, IdleJobType DEF JobInv, SignTypeOK, Known
  <1>4. \A v \in Worker : job'[v] = job[v] \/ job'[v] = IdleJob
    BY <1>2 DEF JobInv, SignTypeOK
  <1>5. \A v \in Worker : JobOK(v)'
    BY <1>1, <1>4, IdleJobType DEF JobInv, JobOK, Active, Known
  <1>6. Distinct' /\ \A q \in Request : Known(q)' => q \in taken'
    BY <1>1, <1>4, IdleJobType DEF JobInv, Distinct, Active, Known
  <1>. QED
    BY <1>3, <1>5, <1>6 DEF JobInv

LEMMA StepKeepsJobs == JobInv /\ [SignNext]_everything => JobInv'
  <1> SUFFICES ASSUME JobInv, [SignNext]_everything PROVE JobInv'
    OBVIOUS
  <1>1. ASSUME NEW w \in Worker, StartSigning(w) PROVE JobInv'
    BY <1>1, StartSigningKeepsJobs
  <1>2. ASSUME NEW w \in Worker, HandleSigning(w) PROVE JobInv'
    BY <1>2, RefusalKeepsJobs, PreparedKeepsJobs, GrantKeepsJobs, SigningKeepsJobs,
       StorePresignKeepsJobs DEF HandleSigning
  <1>3. ASSUME NEW w \in Worker, Elsewhere(w) PROVE JobInv'
    BY <1>3, ElsewhereKeepsJobs
  <1>4. CASE Expire
    BY <1>4 DEF Expire, JobInv, SignTypeOK, JobOK, Distinct, Active, Known
  <1>5. CASE SignCrash
    BY <1>5, IdleJobType DEF SignCrash, JobInv, SignTypeOK, JobOK, Distinct, Active, Known
  <1>6. CASE UNCHANGED signVars
    BY <1>6 DEF signVars, JobInv, SignTypeOK, JobOK, Distinct, Active, Known
  <1>. QED
    BY <1>1, <1>2, <1>3, <1>4, <1>5, <1>6 DEF SignNext, everything

LEMMA SignStepType == TypeOK /\ [SignNext]_everything => TypeOK'
  <1> SUFFICES ASSUME TypeOK, [SignNext]_everything PROVE TypeOK'
    OBVIOUS
  <1>1. ASSUME NEW w \in Worker, StartSigning(w) \/ HandleSigning(w) PROVE TypeOK'
    BY <1>1, SigningSide, LifecycleSideType
  <1>2. CASE [Next]_vars
    BY <1>2, StepType
  <1>3. CASE Expire
    BY <1>2, <1>3 DEF Expire
  <1>. QED
    BY <1>1, <1>2, <1>3 DEF SignNext, Next, Elsewhere, SignCrash, everything

(* Type correctness of the signing service and of the lifecycle service it    *)
(* calls into, whatever overlaps and whenever the process dies; a pending     *)
(* presign is always for a confirmed request of a client-held certificate     *)
(* (signing_service.py:474-532).                                              *)
THEOREM SignTypeCorrect == SignSpec => [](TypeOK /\ SignTypeOK)
  <1>1. SignInit => TypeOK /\ JobInv
    BY InitType, SignInitInv DEF SignInit
  <1>2. JobInv => SignTypeOK
    BY DEF JobInv
  <1>. QED
    BY <1>1, <1>2, SignStepType, StepKeepsJobs, PTL DEF SignSpec
-----------------------------------------------------------------------------
(* No signature after a revocation.                                           *)
(*                                                                            *)
(* A handler that began after the revocation of its certificate was written   *)
(* is refused when it asks for the status: RegistryInv of the lifecycle       *)
(* service says that the revocation is still in the registry, so the status   *)
(* cannot be "active" then.  LateInv follows such a handler from its start to *)
(* that refusal: its certificate stays acknowledged as revoked, and it never  *)
(* gets past the status check.                                                *)
LateInv ==
    /\ late = {}
    /\ \A w \in Worker : job[w].late => job[w].serial \in acked
    /\ \A w \in Worker : job[w].pc = "record" => ~job[w].late

LEMMA RevokedIsUnusable ==
    ASSUME RegistryInv, NEW s \in acked, Usable(s)
    PROVE  FALSE
  BY DEF RegistryInv, Usable, Readable, EffectiveStatus

LEMMA LateStep ==
    ASSUME JobInv, LateInv, NEW w \in Worker, NEW j, job' = [job EXCEPT ![w] = j],
           acked \subseteq acked', late' = {}, j.late => j.serial \in acked,
           j.pc = "record" => ~j.late
    PROVE  LateInv'
  BY DEF LateInv, JobInv, SignTypeOK

LEMMA AckedGrows ==
    ASSUME [Next]_vars
    PROVE  acked \subseteq acked'
  <1>1. ASSUME NEW w \in Worker, Start(w) PROVE acked' = acked
    BY <1>1 DEF Start, StartEnroll, StartEnrollDemo, StartIssue, StartActivate, StartRevoke,
           StartRegistryRevoke, StartSync, CreateEnrollment
  <1>2. ASSUME NEW w \in Worker, Handle(w) PROVE acked \subseteq acked'
    BY <1>2 DEF Handle, IssueRefused, IssuePending, IssueAgain, IssueExisting, IssueMint,
           ActivateRead, ActivateCheck, ActivateEmails, RevokeRead, RevokeReadR, OpenRegistry,
           FlushRegistry, SyncReadK, SyncReadR, SyncReadE, OpenEnrollments, FlushEnrollments,
           OpenCertificates, FlushCertificates
  <1>. QED
    BY <1>1, <1>2 DEF Next, Lapse, Crash, vars

LEMMA StartSigningKeepsLate ==
    ASSUME JobInv, LateInv, NEW w \in Worker, StartSigning(w)
    PROVE  LateInv'
  <1>1. UNCHANGED <<acked, late>>
    BY DEF StartSigning, StartPrepare, Confirm, StartSign, StartRemoteSign, StartSubmit,
           StartPresign, StartFinalize, FinalizeExpired, Begin, vars
  <1>2. CASE UNCHANGED job
    BY <1>1, <1>2 DEF LateInv
  <1>3. CASE StartPrepare(w)
    <2> DEFINE J(r, s, pdf) == [IdleJob EXCEPT !.pc = "status", !.req = r, !.serial = s, !.pdf = pdf,
                                               !.late = s \in acked]
    <2>1. PICK r, s, pdf : job' = [job EXCEPT ![w] = J(r, s, pdf)]
      BY <1>3 DEF StartPrepare, Await
    <2>2. J(r, s, pdf).pc = "status" /\ J(r, s, pdf).late = (J(r, s, pdf).serial \in acked)
      BY DEF IdleJob
    <2> HIDE DEF J
    <2>. QED
      BY <1>1, <2>1, <2>2, LateStep DEF LateInv
  <1>4. ASSUME NEW r, NEW j \in Job, Begin(w, r, j) PROVE LateInv'
    <2> DEFINE k == [j EXCEPT !.pc = "status", !.req = r, !.serial = requests[r].serial,
                              !.pdf = requests[r].pdf, !.late = requests[r].serial \in acked]
    <2>1. job' = [job EXCEPT ![w] = k]
      BY <1>4 DEF Begin, Await
    <2>2. k.pc = "status" /\ k.late = (k.serial \in acked)
      BY DEF Job
    <2> HIDE DEF k
    <2>. QED
      BY <1>1, <2>1, <2>2, LateStep DEF LateInv
  <1>5. ASSUME NEW op \in Operation, NEW g \in BOOLEAN, NEW p \in File \union {None}
        PROVE  /\ [IdleJob EXCEPT !.op = op] \in Job
               /\ [IdleJob EXCEPT !.op = op, !.genuine = g] \in Job
               /\ [IdleJob EXCEPT !.op = op, !.genuine = g, !.presign = p] \in Job
    BY IdleJobType DEF Job
  <1>6. CASE StartSign(w) \/ StartRemoteSign(w) \/ StartPresign(w)
    BY <1>4, <1>5, <1>6 DEF StartSign, StartRemoteSign, StartPresign, Operation
  <1>7. CASE StartSubmit(w)
    BY <1>4, <1>5, <1>7 DEF StartSubmit, Operation
  <1>8. CASE StartFinalize(w)
    <2>1. PICK r \in Request, g \in BOOLEAN :
              Begin(w, r, [IdleJob EXCEPT !.op = "finalize", !.genuine = g, !.presign = presigns[r]])
      BY <1>8 DEF StartFinalize
    <2>2. presigns[r] \in File \union {None}
      BY DEF JobInv, SignTypeOK
    <2>. QED
      BY <1>4, <1>5, <2>1, <2>2 DEF Operation
  <1>9. CASE Confirm(w) \/ FinalizeExpired(w)
    BY <1>2, <1>9 DEF Confirm, FinalizeExpired
  <1>. QED
    BY <1>3, <1>6, <1>7, <1>8, <1>9 DEF StartSigning

LEMMA HandleSigningKeepsLate ==
    ASSUME RegistryInv, JobInv, LateInv, NEW w \in Worker, HandleSigning(w)
    PROVE  LateInv'
  <1>1. UNCHANGED acked
    BY DEF HandleSigning, Refuse, Prepared, Grant, RecordMissing, StorePackage, SubmitRejected,
           StorePdf, StorePresign, Finalize, FinalizeRejected, Signed
  <1>2. ASSUME End(w), UNCHANGED late PROVE LateInv'
    BY <1>1, <1>2, LateStep DEF End, IdleJob, LateInv
  <1>3. Doing(w, "status") /\ Granted(job[w]) => ~job[w].late
    BY RevokedIsUnusable DEF LateInv, Granted
  <1>4. CASE Prepared(w)
    <2>1. late' = late
      BY <1>3, <1>4 DEF Prepared
    <2>. QED
      BY <1>2, <1>4, <2>1 DEF Prepared
  <1>5. CASE Grant(w)
    <2> DEFINE j == [job[w] EXCEPT !.pc = "record"]
    <2>1. job' = [job EXCEPT ![w] = j] /\ ~job[w].late /\ late' = {}
      BY <1>3, <1>5 DEF Grant, Await, LateInv
    <2>2. j.late = job[w].late
      BY JobTypes DEF Job
    <2> HIDE DEF j
    <2>. QED
      BY <1>1, <2>1, <2>2, LateStep
  <1>6. CASE StorePackage(w) \/ StorePdf(w) \/ Finalize(w)
    <2>1. End(w) /\ job[w].pc = "record"
      BY <1>6 DEF StorePackage, StorePdf, Finalize, Signed, Ready, Doing
    <2>2. late' = late
      BY <1>6, <2>1 DEF StorePackage, StorePdf, Finalize, Signed, LateInv
    <2>. QED
      BY <1>2, <2>1, <2>2
  <1>7. CASE Refuse(w) \/ RecordMissing(w) \/ SubmitRejected(w) \/ StorePresign(w) \/ FinalizeRejected(w)
    BY <1>2, <1>7 DEF Refuse, RecordMissing, SubmitRejected, StorePresign, FinalizeRejected
  <1>. QED
    BY <1>4, <1>5, <1>6, <1>7 DEF HandleSigning

LEMMA StepKeepsLate ==
    ASSUME SerialRevocation = TRUE
    PROVE  TypeOK /\ RegistryInv /\ JobInv /\ LateInv /\ [SignNext]_everything
             => RegistryInv' /\ LateInv'
  <1> SUFFICES ASSUME TypeOK, RegistryInv, JobInv, LateInv, [SignNext]_everything
               PROVE  RegistryInv' /\ LateInv'
    OBVIOUS
  <1>1. ASSUME NEW w \in Worker, StartSigning(w) PROVE RegistryInv' /\ LateInv'
    BY <1>1, SigningSide, LifecycleSideRegistry, StartSigningKeepsLate
  <1>2. ASSUME NEW w \in Worker, HandleSigning(w) PROVE RegistryInv' /\ LateInv'
    BY <1>2, SigningSide, LifecycleSideRegistry, HandleSigningKeepsLate
  <1>3. ASSUME NEW w \in Worker, Elsewhere(w) PROVE RegistryInv' /\ LateInv'
    <2>1. [Next]_vars /\ late' = late
      BY <1>3 DEF Elsewhere, Next
    <2>2. \A v \in Worker : job'[v] = job[v] \/ job'[v] = IdleJob
      BY <1>3 DEF Elsewhere, JobInv, SignTypeOK
    <2>3. IdleJob.late = FALSE /\ IdleJob.pc = "idle"
      BY DEF IdleJob
    <2>. QED
      BY <2>1, <2>2, <2>3, AckedGrows, StepKeepsRegistry DEF LateInv
  <1>4. CASE SignCrash
    <2>1. [Next]_vars /\ late' = late /\ job' = [w \in Worker |-> IdleJob]
      BY <1>4 DEF SignCrash, Next
    <2>. QED
      BY <2>1, AckedGrows, StepKeepsRegistry DEF LateInv, IdleJob
  <1>5. CASE UNCHANGED <<late, job>> /\ [Next]_vars
    BY <1>5, AckedGrows, StepKeepsRegistry DEF LateInv
  <1>. QED
    BY <1>1, <1>2, <1>3, <1>4, <1>5 DEF SignNext, Next, Expire, signVars, everything

(* Whatever handlers overlap and whenever the process restarts, no handler    *)
(* that begins after the revocation of a certificate was written prepares a   *)
(* request for it or signs with it, provided revocations do not overlap each  *)
(* other (signing_service.py:61-67, revocation_service.py:58-69).             *)
THEOREM RevokedIsRefused ==
    ASSUME SerialRevocation = TRUE
    PROVE  SignSpec => []NoLateSignature
  <1>1. SignInit => TypeOK /\ RegistryInv /\ JobInv /\ LateInv
    BY InitType, RegistryInit, SignInitInv DEF SignInit, LateInv, IdleJob
  <1>2. LateInv => NoLateSignature
    BY DEF LateInv, NoLateSignature
  <1>. QED
    BY <1>1, <1>2, SignStepType, StepKeepsJobs, StepKeepsLate, PTL DEF SignSpec
=============================================================================
