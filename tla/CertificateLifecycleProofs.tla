---------------------- MODULE CertificateLifecycleProofs ----------------------
(* Proofs about CertificateLifecycle, for every value of its constants.       *)
EXTENDS CertificateLifecycle, SequenceTheorems, TLAPS

(* Helpers: what the list operators return.                                   *)
LEMMA PutType ==
    ASSUME NEW list \in CertificateList, NEW s \in AnySerial, NEW new \in CertificateRecord
    PROVE  Put(list, s, new) \in CertificateList
  BY DEF Put, CertificateList, Present, Has

LEMMA SetStatusType ==
    ASSUME NEW list \in CertificateList, NEW s \in AnySerial,
           NEW st \in {"issued", "active", "revoked"}
    PROVE  SetStatus(list, s, st) \in CertificateList
  <1>1. [list.rec EXCEPT ![s].status = st] \in [AnySerial -> CertificateRecord]
    BY DEF CertificateList, CertificateRecord
  <1>2. [list EXCEPT !.rec[s].status = st] = [rec |-> [list.rec EXCEPT ![s].status = st], before |-> list.before]
    BY DEF CertificateList
  <1>. QED
    BY <1>1, <1>2 DEF SetStatus, CertificateList

LEMMA ActivatedType ==
    ASSUME NEW list \in CertificateList, NEW s \in AnySerial, NEW E
    PROVE  Activated(list, s, E) \in CertificateList
  <1> DEFINE em == EmailFromRecord(list.rec[s], E)
             R(t) == IF t = s THEN [list.rec[t] EXCEPT !.status = "active"]
                     ELSE IF list.rec[t].status = "active" /\ EmailFromRecord(list.rec[t], E) = em
                          THEN [list.rec[t] EXCEPT !.by = s] ELSE list.rec[t]
  <1>1. ASSUME NEW t \in AnySerial PROVE R(t) \in CertificateRecord
    <2>1. list.rec[t] \in CertificateRecord
      BY DEF CertificateList
    <2>. QED
      BY <2>1 DEF CertificateRecord
  <1>2. Activated(list, s, E) = [list EXCEPT !.rec = [t \in AnySerial |-> R(t)]]
    BY DEF Activated
  <1> HIDE DEF R
  <1>3. [t \in AnySerial |-> R(t)] \in [AnySerial -> CertificateRecord]
    BY <1>1
  <1>. QED
    BY <1>2, <1>3 DEF CertificateList

LEMMA IdleFrameType == IdleFrame \in FrameRecord /\ Addressed(IdleFrame) /\ IdleFrame.then = "idle"
  BY ConstantsAssumption DEF IdleFrame, FrameRecord, Addressed, ForEnrollment, ForSerial, Label, NoEnrollments, AbsentEnrollment, EnrollmentRecord,
     NoCertificates, CertificateList, CertificateRecord, AbsentCertificate, AnySerial, AnyEnrollment

LEMMA ConstantTypes ==
    /\ NoEnrollments \in [AnyEnrollment -> EnrollmentRecord]
    /\ NoCertificates \in CertificateList
    /\ NoRegistry \in Registry
    /\ DemoEnrollmentRecord \in EnrollmentRecord
    /\ \A e \in AnyEnrollment : IssuedRecord(e) \in CertificateRecord
    /\ \A st \in {"active", "revoked"} : DemoRecord(st) \in CertificateRecord
  BY ConstantsAssumption DEF NoEnrollments, NoCertificates, NoRegistry, DemoEnrollmentRecord, IssuedRecord,
     DemoRecord, AbsentEnrollment, EnrollmentRecord, CertificateList, CertificateRecord,
     AbsentCertificate, Registry, AnySerial, AnyEnrollment

LEMMA PreissuedType ==
    \A i \in DOMAIN Preissued :
        /\ Preissued[i].serial \in Serial
        /\ Preissued[i].enr \in Enrollment
        /\ Preissued[i].email \in Email
  <1>1. Preissued \in Seq([serial : Serial, enr : Enrollment, email : Email])
    BY ConstantsAssumption
  <1>2. ASSUME NEW i \in DOMAIN Preissued
        PROVE  Preissued[i] \in [serial : Serial, enr : Enrollment, email : Email]
    BY <1>1, LenProperties, ElementOfSeq
  <1>. QED
    BY <1>2

LEMMA InitType == Init => TypeOK
  <1> SUFFICES ASSUME Init PROVE TypeOK
    OBVIOUS
  <1>1. ASSUME NEW e \in AnyEnrollment PROVE InitialEnrollment(e) \in EnrollmentRecord
    <2>1. CASE PreOf(e) = {}
      BY <2>1, ConstantTypes, ConstantsAssumption
      DEF InitialEnrollment, AbsentEnrollment, EnrollmentRecord
    <2>2. CASE PreOf(e) # {}
      <3>1. The(PreOf(e)) \in DOMAIN Preissued
        BY <2>2 DEF The, PreOf
      <3>2. None \notin Serial
        BY ConstantsAssumption DEF AnySerial
      <3>. QED
        BY <2>2, <3>1, <3>2, ConstantTypes, PreissuedType
        DEF InitialEnrollment, EnrollmentRecord, AnySerial
    <2>. QED
      BY <2>1, <2>2
  <1>2. ASSUME NEW s \in AnySerial PROVE InitialCertificate(s) \in CertificateRecord
    <2>1. CASE PreFor(s) = {}
      BY <2>1, ConstantTypes, ConstantsAssumption
      DEF InitialCertificate, AbsentCertificate, CertificateRecord
    <2>2. CASE PreFor(s) # {}
      <3>1. The(PreFor(s)) \in DOMAIN Preissued
        BY <2>2 DEF The, PreFor
      <3>. QED
        BY <2>2, <3>1, ConstantTypes, PreissuedType DEF InitialCertificate, AnyEnrollment
    <2>. QED
      BY <2>1, <2>2
  <1>3. certificates \in CertificateList
    BY <1>2 DEF Init, CertificateList
  <1>. QED
    BY <1>1, <1>2, <1>3, IdleFrameType DEF Init, TypeOK, Registry, EnrollmentRecord, CertificateRecord, Frame

(* Which labels there are, and which of them work on an enrollment or a       *)
(* certificate.                                                               *)
LEMMA Labels ==
    /\ "idle" \in Label /\ "caller" \in Label
    /\ OpenLabels \subseteq Label /\ FlushLabels \subseteq Label /\ ReadLabels \subseteq Label
    /\ ForEnrollment \subseteq Label /\ ForSerial \subseteq Label
  BY DEF Label, OpenLabels, FlushLabels, ReadLabels, ForEnrollment, ForSerial

(* The frame of a worker is a typed record whose handler knows its subject.   *)
LEMMA FrameTypes ==
    ASSUME TypeOK, NEW w \in Worker
    PROVE  /\ frame[w] \in FrameRecord /\ Addressed(frame[w])
           /\ frame[w].pc \in Label /\ frame[w].then \in Label
           /\ frame[w].enr \in AnyEnrollment \union {None}
           /\ frame[w].serial \in AnySerial \union {None}
           /\ frame[w].snapE \in [AnyEnrollment -> EnrollmentRecord]
           /\ frame[w].snapK \in CertificateList /\ frame[w].held \in CertificateList
           /\ frame[w].snapR \subseteq AnySerial
  BY DEF TypeOK, Frame, FrameRecord

(* A worker that takes a typed frame, returns, or goes on with the frame it   *)
(* has, keeps the frames typed.                                               *)
LEMMA BecomeType ==
    ASSUME TypeOK, NEW w \in Worker, NEW f \in FrameRecord, Addressed(f), Become(w, f)
    PROVE  frame' \in [Worker -> Frame]
  BY DEF TypeOK, Become, Frame

LEMMA ReturnType ==
    ASSUME TypeOK, NEW w \in Worker, Return(w)
    PROVE  frame' \in [Worker -> Frame]
  BY IdleFrameType, BecomeType DEF Return

LEMMA GotoType ==
    ASSUME TypeOK, NEW w \in Worker, NEW l \in Label,
           l \in ForEnrollment => frame[w].enr # None,
           l \in ForSerial => frame[w].serial # None,
           Goto(w, l) \/ Continue(w, l) \/ Resume(w, l)
    PROVE  frame' \in [Worker -> Frame]
  <1> DEFINE Kept(k) == [frame[w] EXCEPT !.pc = l, !.snapR = {}, !.snapE = NoEnrollments, !.snapK = k]
  <1>1. [frame[w] EXCEPT !.pc = l] \in FrameRecord /\ Addressed([frame[w] EXCEPT !.pc = l])
    BY FrameTypes DEF FrameRecord, Addressed
  <1>2. ASSUME NEW k \in {frame[w].snapK, NoCertificates}
        PROVE  Kept(k) \in FrameRecord /\ Addressed(Kept(k))
    BY FrameTypes, ConstantTypes DEF FrameRecord, Addressed
  <1>. QED
    BY <1>1, <1>2, ReturnType, BecomeType DEF Goto, Continue, Resume

(* A step that changes a frame and nothing else.                              *)
LEMMA ReadStepType ==
    ASSUME TypeOK, frame' \in [Worker -> Frame], UNCHANGED <<stores, minted, owner, lapsed, acked>>
    PROVE  TypeOK'
  BY DEF TypeOK, stores

(* create_enrollment, from any of its callers: the worker goes on with a      *)
(* frame that names the new enrollment and remembers the caller.              *)
LEMMA CreateEnrollmentType ==
    ASSUME TypeOK, NEW w \in Worker, NEW em \in Email, NEW g \in BOOLEAN, NEW a \in BOOLEAN,
           NEW l \in {"idle", "issueRead", "caller"}, CreateEnrollment(w, em, g, a, l)
    PROVE  /\ TypeOK'
           /\ frame'[w].pc = "enrollOpen" /\ frame'[w].then = l /\ frame'[w].enr # None
           /\ \A v \in Worker \ {w} : frame'[v] = frame[v]
  <1> DEFINE Rec == [status |-> "pending", email |-> em, serial |-> None, proven |-> g]
             F(e) == [IdleFrame EXCEPT !.pc = "enrollOpen", !.then = l, !.enr = e, !.activate = a,
                                       !.snapE = [enrollments EXCEPT ![e] = Rec]]
  <1>1. PICK e \in Enrollment : owner' = [owner EXCEPT ![e] = em] /\ Become(w, F(e))
    BY DEF CreateEnrollment
  <1>2. [enrollments EXCEPT ![e] = Rec] \in [AnyEnrollment -> EnrollmentRecord]
    BY DEF TypeOK, EnrollmentRecord
  <1>3. e \in AnyEnrollment /\ e # None
    BY ConstantsAssumption DEF AnyEnrollment
  <1>4. F(e) \in FrameRecord
    BY <1>2, <1>3, IdleFrameType, Labels DEF FrameRecord, OpenLabels, ReadLabels
  <1>5. F(e).pc = "enrollOpen" /\ F(e).then = l /\ F(e).enr = e
    BY IdleFrameType DEF FrameRecord
  <1>6. Addressed(F(e))
    BY <1>3, <1>5 DEF Addressed, ForEnrollment, ForSerial
  <1> HIDE DEF F
  <1>7. frame' \in [Worker -> Frame]
    BY <1>1, <1>4, <1>6, BecomeType
  <1>8. owner' \in [AnyEnrollment -> Email \union {None}]
    BY <1>1 DEF TypeOK, AnyEnrollment
  <1>9. UNCHANGED <<stores, minted, lapsed, acked>>
    BY DEF CreateEnrollment
  <1>10. TypeOK'
    BY <1>7, <1>8, <1>9 DEF TypeOK, stores
  <1>. QED
    BY <1>1, <1>3, <1>5, <1>10 DEF TypeOK, Become

(* The requests: each starts a handler in an idle worker.                     *)
LEMMA StartType ==
    ASSUME TypeOK, NEW w \in Worker, Start(w)
    PROVE  TypeOK'
  <1> USE Labels DEF ReadLabels
  <1>2. CASE StartEnroll(w)
    BY <1>2, CreateEnrollmentType DEF StartEnroll
  <1>3. CASE StartEnrollDemo(w)
    BY <1>3, CreateEnrollmentType, ConstantsAssumption DEF StartEnrollDemo
  <1>4. CASE StartIssue(w)
    <2>1. PICK e \in Enrollment, act \in BOOLEAN :
            Become(w, [IdleFrame EXCEPT !.pc = "issueRead", !.enr = e, !.activate = act])
      BY <1>4 DEF StartIssue
    <2> DEFINE f == [IdleFrame EXCEPT !.pc = "issueRead", !.enr = e, !.activate = act]
    <2>2. f \in FrameRecord
      BY IdleFrameType DEF FrameRecord, AnyEnrollment
    <2>3. Addressed(f)
      BY IdleFrameType, ConstantsAssumption DEF FrameRecord, Addressed, ForEnrollment, ForSerial, AnyEnrollment
    <2>. QED
      BY <1>4, <2>1, <2>2, <2>3, BecomeType, ReadStepType DEF StartIssue
  <1>5. ASSUME NEW s \in AnySerial, NEW l \in ForSerial \cap ReadLabels,
               Become(w, [IdleFrame EXCEPT !.pc = l, !.serial = s])
        PROVE  frame' \in [Worker -> Frame]
    <2> DEFINE f == [IdleFrame EXCEPT !.pc = l, !.serial = s]
    <2>1. f \in FrameRecord
      BY IdleFrameType DEF FrameRecord
    <2>2. Addressed(f)
      BY IdleFrameType, ConstantsAssumption DEF FrameRecord, Addressed, ForEnrollment, ForSerial
    <2>. QED
      BY <1>5, <2>1, <2>2, BecomeType
  <1>6. CASE StartActivate(w)
    BY <1>5, <1>6, ReadStepType DEF StartActivate, ForSerial
  <1>7. CASE StartRevoke(w)
    BY <1>5, <1>7, ReadStepType DEF StartRevoke, ForSerial
  <1>8. CASE StartRegistryRevoke(w)
    BY <1>5, <1>8, ReadStepType DEF StartRegistryRevoke, ForSerial
  <1>9. CASE StartSync(w)
    <2> DEFINE f == [IdleFrame EXCEPT !.pc = "syncReadK"]
    <2>1. f \in FrameRecord
      BY IdleFrameType DEF FrameRecord
    <2>2. Addressed(f)
      BY IdleFrameType DEF FrameRecord, Addressed, ForEnrollment, ForSerial
    <2>. QED
      BY <1>9, <2>1, <2>2, BecomeType, ReadStepType DEF StartSync
  <1>. QED
    BY <1>2, <1>3, <1>4, <1>6, <1>7, <1>8, <1>9 DEF Start

(* The steps of a handler that only read.                                     *)
LEMMA IssueReadsType ==
    ASSUME TypeOK, NEW w \in Worker,
           IssueRefused(w) \/ IssuePending(w) \/ IssueAgain(w) \/ IssueExisting(w)
    PROVE  TypeOK'
  <1> USE Labels DEF ReadLabels
  <1>1. UNCHANGED <<stores, minted, owner, lapsed, acked>>
    BY DEF IssueRefused, IssuePending, IssueAgain, IssueExisting
  <1>2. CASE IssueRefused(w)
    BY <1>1, <1>2, ReturnType, ReadStepType DEF IssueRefused
  <1>3. CASE IssuePending(w)
    <2> DEFINE f == [frame[w] EXCEPT !.pc = "issueMint", !.snapE = enrollments]
    <2>1. f \in FrameRecord
      BY FrameTypes DEF TypeOK, FrameRecord
    <2>2. Addressed(f)
      BY <1>3, FrameTypes DEF IssuePending, At, FrameRecord, Addressed, ForEnrollment, ForSerial
    <2>. QED
      BY <1>1, <1>3, <2>1, <2>2, BecomeType, ReadStepType DEF IssuePending
  <1>4. CASE IssueAgain(w)
    <2> DEFINE s == enrollments[frame[w].enr].serial
               f == [frame[w] EXCEPT !.pc = "issueExisting", !.serial = s]
    <2>1. frame[w].enr \in AnyEnrollment
      BY <1>4, FrameTypes DEF IssueAgain, At, Addressed, ForEnrollment
    <2>2. s \in AnySerial \union {None} /\ s # None
      BY <1>4, <2>1 DEF IssueAgain, TypeOK, EnrollmentRecord
    <2> HIDE DEF s
    <2>3. f \in FrameRecord
      BY <2>2, FrameTypes DEF FrameRecord
    <2>4. Addressed(f)
      BY <1>4, <2>2, FrameTypes DEF IssueAgain, At, FrameRecord, Addressed, ForEnrollment, ForSerial
    <2>. QED
      BY <1>1, <1>4, <2>3, <2>4, BecomeType, ReadStepType DEF IssueAgain, s
  <1>5. CASE IssueExisting(w)
    <2>1. frame[w].serial # None
      BY <1>5, FrameTypes DEF IssueExisting, At, Addressed, ForSerial
    <2>. QED
      BY <1>1, <1>5, <2>1, GotoType, ReadStepType DEF IssueExisting, ForEnrollment
  <1>. QED
    BY <1>2, <1>3, <1>4, <1>5

LEMMA IssueMintType ==
    ASSUME TypeOK, NEW w \in Worker, IssueMint(w)
    PROVE  TypeOK'
  <1> DEFINE e == frame[w].enr
             F(s) == [frame[w] EXCEPT !.pc = "issueOpenE", !.serial = s,
                          !.snapE[e].status = "issued", !.snapE[e].serial = s,
                          !.snapK = Put(certificates, s, IssuedRecord(e))]
             r == frame[w].snapE[e]
             G(s) == [frame[w].snapE EXCEPT ![e] = [r EXCEPT !.status = "issued", !.serial = s]]
  <1>1. PICK s \in Serial : minted' = [minted EXCEPT ![s] = e] /\ Become(w, F(s))
    BY DEF IssueMint
  <1>2. e \in AnyEnrollment /\ s \in AnySerial /\ s # None
    BY FrameTypes, ConstantsAssumption DEF IssueMint, At, Addressed, ForEnrollment, AnySerial
  <1>3. G(s) \in [AnyEnrollment -> EnrollmentRecord]
    <2>1. r \in EnrollmentRecord
      BY <1>2, FrameTypes
    <2>2. [r EXCEPT !.status = "issued", !.serial = s] \in EnrollmentRecord
      BY <1>2, <2>1 DEF EnrollmentRecord
    <2>. QED
      BY <1>2, <2>2, FrameTypes
  <1>4. Put(certificates, s, IssuedRecord(e)) \in CertificateList
    BY <1>2, PutType, ConstantTypes DEF TypeOK
  <1>5. F(s) = [frame[w] EXCEPT !.pc = "issueOpenE", !.serial = s, !.snapE = G(s),
                                !.snapK = Put(certificates, s, IssuedRecord(e))]
    <2>1. [frame[w].snapE EXCEPT ![e].status = "issued", ![e].serial = s] = G(s)
      BY <1>2, FrameTypes
    <2>. QED
      BY <2>1, FrameTypes DEF FrameRecord
  <1> HIDE DEF G, F
  <1>6. F(s) \in FrameRecord
    BY <1>2, <1>3, <1>4, <1>5, FrameTypes, Labels DEF FrameRecord, OpenLabels
  <1>7. Addressed(F(s))
    BY <1>2, <1>5, FrameTypes DEF IssueMint, At, FrameRecord, Addressed, ForEnrollment, ForSerial
  <1>8. frame' \in [Worker -> Frame]
    BY <1>1, <1>6, <1>7, BecomeType
  <1>9. minted' \in [AnySerial -> AnyEnrollment \union {None}]
    BY <1>1, <1>2 DEF TypeOK
  <1>. QED
    BY <1>8, <1>9 DEF IssueMint, TypeOK, stores

LEMMA ActivateType ==
    ASSUME TypeOK, NEW w \in Worker, ActivateRead(w) \/ ActivateCheck(w) \/ ActivateEmails(w)
    PROVE  TypeOK'
  <1> USE Labels DEF ReadLabels
  <1>1. UNCHANGED <<stores, minted, owner, lapsed, acked>>
    BY DEF ActivateRead, ActivateCheck, ActivateEmails
  <1>2. CASE ActivateRead(w)
    <2> DEFINE f == [frame[w] EXCEPT !.pc = "syncReadK", !.then = "activateCheck", !.held = certificates]
    <2>1. f \in FrameRecord
      BY FrameTypes DEF TypeOK, FrameRecord
    <2>2. Addressed(f)
      BY <1>2, FrameTypes DEF ActivateRead, At, FrameRecord, Addressed, ForEnrollment, ForSerial
    <2>. QED
      BY <1>1, <1>2, <2>1, <2>2, BecomeType, ReturnType, ReadStepType DEF ActivateRead
  <1>3. CASE ActivateCheck(w)
    <2>1. frame[w].serial # None
      BY <1>3, FrameTypes DEF ActivateCheck, At, Addressed, ForSerial
    <2>. QED
      BY <1>1, <1>3, <2>1, GotoType, ReadStepType DEF ActivateCheck, ForEnrollment
  <1>4. CASE ActivateEmails(w)
    <2> DEFINE K == Activated(frame[w].held, frame[w].serial, enrollments)
               f == [frame[w] EXCEPT !.pc = "activateOpenK", !.held = NoCertificates, !.snapK = K]
    <2>1. frame[w].serial \in AnySerial
      BY <1>4, FrameTypes DEF ActivateEmails, At, Addressed, ForSerial
    <2>2. K \in CertificateList
      BY <2>1, FrameTypes, ActivatedType
    <2> HIDE DEF K
    <2>3. f \in FrameRecord
      BY <2>2, FrameTypes, ConstantTypes DEF FrameRecord, OpenLabels
    <2>4. Addressed(f)
      BY <1>4, FrameTypes DEF ActivateEmails, At, FrameRecord, Addressed, ForEnrollment, ForSerial
    <2>. QED
      BY <1>1, <1>4, <2>3, <2>4, BecomeType, ReadStepType DEF ActivateEmails, K
  <1>. QED
    BY <1>2, <1>3, <1>4

LEMMA RevokeReadsType ==
    ASSUME TypeOK, NEW w \in Worker, RevokeRead(w) \/ RevokeReadR(w)
    PROVE  TypeOK'
  <1> USE Labels DEF ReadLabels
  <1>1. UNCHANGED <<stores, minted, owner, lapsed, acked>>
    BY DEF RevokeRead, RevokeReadR
  <1>2. frame[w].serial \in AnySerial
    BY FrameTypes DEF RevokeRead, RevokeReadR, At, Addressed, ForSerial
  <1>3. CASE RevokeRead(w)
    <2> DEFINE K == SetStatus(certificates, frame[w].serial, "revoked")
               f == [frame[w] EXCEPT !.pc = "revokeReadR", !.then = "revokeOpenK", !.snapK = K]
    <2>1. K \in CertificateList
      BY <1>2, SetStatusType DEF TypeOK
    <2> HIDE DEF K
    <2>2. f \in FrameRecord
      BY <2>1, FrameTypes DEF FrameRecord, OpenLabels
    <2>3. Addressed(f)
      BY <1>3, FrameTypes DEF RevokeRead, At, FrameRecord, Addressed, ForEnrollment, ForSerial
    <2>. QED
      BY <1>1, <1>3, <2>2, <2>3, BecomeType, ReturnType, ReadStepType DEF RevokeRead, K
  <1>4. CASE RevokeReadR(w)
    <2> DEFINE R == registry.serials \union {frame[w].serial}
               f == [frame[w] EXCEPT !.pc = "revokeOpenR", !.snapR = R]
    <2>1. R \in SUBSET AnySerial
      BY <1>2 DEF TypeOK, Registry
    <2> HIDE DEF R
    <2>2. f \in FrameRecord
      BY <2>1, FrameTypes DEF FrameRecord, OpenLabels
    <2>3. Addressed(f)
      BY <1>4, FrameTypes DEF RevokeReadR, At, FrameRecord, Addressed, ForEnrollment, ForSerial
    <2>. QED
      BY <1>1, <1>4, <2>2, <2>3, BecomeType, ReturnType, ReadStepType DEF RevokeReadR, R
  <1>. QED
    BY <1>3, <1>4

LEMMA RegistryWriteType ==
    ASSUME TypeOK, NEW w \in Worker, OpenRegistry(w) \/ FlushRegistry(w)
    PROVE  TypeOK'
  <1> USE Labels DEF OpenLabels, FlushLabels
  <1>1. frame[w].serial \in AnySerial
    BY FrameTypes DEF OpenRegistry, FlushRegistry, At, Addressed, ForSerial
  <1>2. registry' \in Registry /\ acked' \subseteq AnySerial
    <2>1. NoRegistry \in Registry /\ [ok |-> TRUE, serials |-> frame[w].snapR] \in Registry
      BY FrameTypes, ConstantTypes DEF Registry
    <2>2. CASE OpenRegistry(w)
      BY <2>1, <2>2 DEF OpenRegistry, TypeOK
    <2>3. CASE FlushRegistry(w)
      BY <1>1, <2>1, <2>3 DEF FlushRegistry, Written, TypeOK
    <2>. QED
      BY <2>2, <2>3
  <1>3. frame' \in [Worker -> Frame]
    <2>1. CASE OpenRegistry(w)
      BY <1>1, <2>1, GotoType, ConstantsAssumption DEF OpenRegistry, ForEnrollment
    <2>2. CASE FlushRegistry(w)
      <3>1. frame[w].then \in ForEnrollment => frame[w].enr # None
        BY FrameTypes DEF Addressed
      <3>. QED
        BY <1>1, <2>2, <3>1, GotoType, FrameTypes, ConstantsAssumption DEF FlushRegistry
    <2>. QED
      BY <2>1, <2>2
  <1>. QED
    BY <1>2, <1>3 DEF OpenRegistry, FlushRegistry, TypeOK

LEMMA SyncType ==
    ASSUME TypeOK, NEW w \in Worker, SyncReadK(w) \/ SyncReadR(w) \/ SyncReadE(w)
    PROVE  TypeOK'
  <1> USE Labels DEF ReadLabels, OpenLabels
  <1>1. UNCHANGED <<stores, minted, owner, lapsed, acked>>
    BY DEF SyncReadK, SyncReadR, SyncReadE
  <1>2. ASSUME NEW l \in {"syncReadR", "syncOpenK", "syncOpenE"}, NEW K \in CertificateList,
               NEW E \in [AnyEnrollment -> EnrollmentRecord],
               Become(w, [frame[w] EXCEPT !.pc = l, !.snapK = K])
                 \/ Become(w, [frame[w] EXCEPT !.pc = l, !.snapE = E])
        PROVE  TypeOK'
    <2> DEFINE f == [frame[w] EXCEPT !.pc = l, !.snapK = K]
               g == [frame[w] EXCEPT !.pc = l, !.snapE = E]
    <2>1. f \in FrameRecord /\ g \in FrameRecord
      BY FrameTypes DEF FrameRecord
    <2>2. Addressed(f) /\ Addressed(g)
      BY FrameTypes DEF FrameRecord, Addressed, ForEnrollment, ForSerial
    <2>. QED
      BY <1>1, <1>2, <2>1, <2>2, BecomeType, ReadStepType
  <1>3. CASE SyncReadK(w)
    <2>1. Put(certificates, DemoSerial, DemoRecord(DemoStatus(certificates))) \in CertificateList
      BY PutType, ConstantTypes DEF DemoStatus, TypeOK, AnySerial
    <2>. QED
      BY <1>2, <1>3, <2>1, ConstantTypes DEF SyncReadK
  <1>4. CASE SyncReadR(w)
    <2>1. SetStatus(frame[w].snapK, DemoSerial, "revoked") \in CertificateList
      BY SetStatusType, FrameTypes DEF AnySerial
    <2>2. Return(w) \/ \E K \in CertificateList :
            Become(w, [frame[w] EXCEPT !.pc = "syncOpenK", !.snapK = K])
      BY <1>4, <2>1, FrameTypes DEF SyncReadR
    <2>. QED
      BY <1>1, <1>2, <2>2, ConstantTypes, ReturnType, ReadStepType
  <1>5. CASE SyncReadE(w)
    <2>1. [enrollments EXCEPT ![DemoEnrollment] = DemoEnrollmentRecord] \in [AnyEnrollment -> EnrollmentRecord]
      BY ConstantTypes DEF TypeOK
    <2>. QED
      BY <1>2, <1>5, <2>1, ConstantTypes DEF SyncReadE
  <1>. QED
    BY <1>3, <1>4, <1>5

(* The writes of the two lifecycle files.                                     *)
LEMMA EnrollmentsWriteType ==
    ASSUME TypeOK, NEW w \in Worker, OpenEnrollments(w) \/ FlushEnrollments(w)
    PROVE  TypeOK'
  <1> USE Labels DEF OpenLabels, FlushLabels
  <1>1. CASE OpenEnrollments(w)
    <2>1. Opened(frame[w].pc) \in FlushLabels /\ Opened(frame[w].pc) \notin ForEnrollment
          /\ (Opened(frame[w].pc) \in ForSerial => frame[w].pc \in ForSerial)
      BY <1>1 DEF OpenEnrollments, Opened, ForEnrollment, ForSerial
    <2>2. frame' \in [Worker -> Frame]
      BY <1>1, <2>1, GotoType, FrameTypes DEF OpenEnrollments, Addressed
    <2>. QED
      BY <1>1, <2>2, ConstantTypes DEF OpenEnrollments, TypeOK
  <1>2. CASE FlushEnrollments(w)
    <2>1. enrollments' \in [AnyEnrollment -> EnrollmentRecord]
      BY <1>2, FrameTypes, ConstantTypes DEF FlushEnrollments, Written
    <2>2. frame' \in [Worker -> Frame]
      <3>1. CASE At(w, "issueFlushE")
        <4>1. frame[w].serial # None
          BY <3>1, FrameTypes DEF At, Addressed, ForSerial
        <4>. QED
          BY <1>2, <3>1, <4>1, GotoType DEF FlushEnrollments, ForEnrollment
      <3>2. CASE ~At(w, "issueFlushE")
        BY <1>2, <3>2, GotoType, FrameTypes DEF FlushEnrollments, Addressed
      <3>. QED
        BY <3>1, <3>2
    <2>. QED
      BY <1>2, <2>1, <2>2 DEF FlushEnrollments, TypeOK
  <1>. QED
    BY <1>1, <1>2

LEMMA CertificatesWriteType ==
    ASSUME TypeOK, NEW w \in Worker, OpenCertificates(w) \/ FlushCertificates(w)
    PROVE  TypeOK'
  <1> USE Labels DEF OpenLabels, FlushLabels, ReadLabels
  <1>1. CASE OpenCertificates(w)
    <2>1. Opened(frame[w].pc) \in FlushLabels /\ Opened(frame[w].pc) \notin ForEnrollment
          /\ (Opened(frame[w].pc) \in ForSerial => frame[w].pc \in ForSerial)
      BY <1>1 DEF OpenCertificates, Opened, ForEnrollment, ForSerial
    <2>2. frame' \in [Worker -> Frame]
      BY <1>1, <2>1, GotoType, FrameTypes DEF OpenCertificates, Addressed
    <2>. QED
      BY <1>1, <2>2, ConstantTypes DEF OpenCertificates, TypeOK
  <1>2. CASE FlushCertificates(w)
    <2>1. certificates' \in CertificateList
      BY <1>2, FrameTypes, ConstantTypes DEF FlushCertificates, Written
    <2> DEFINE l == AfterCertificates(frame[w])
               t == IF At(w, "revokeFlushK") THEN "idle" ELSE frame[w].then
               f == [frame[w] EXCEPT !.pc = l, !.snapK = NoCertificates, !.then = t]
    <2>2. l \in {"idle", "activateRead", "syncReadK", "syncReadE"}
          /\ (l = "activateRead" => frame[w].pc = "issueFlushK")
      BY <1>2 DEF FlushCertificates, AfterCertificates
    <2>3. Return(w) \/ Become(w, f)
      BY <1>2, FrameTypes DEF FlushCertificates, FrameRecord
    <2> HIDE DEF l
    <2>4. f \in FrameRecord
      BY <2>2, FrameTypes, ConstantTypes DEF FrameRecord
    <2>5. Addressed(f)
      BY <2>2, FrameTypes DEF FrameRecord, Addressed, ForEnrollment, ForSerial
    <2>6. frame' \in [Worker -> Frame]
      BY <2>3, <2>4, <2>5, ReturnType, BecomeType
    <2>. QED
      BY <1>2, <2>1, <2>6 DEF FlushCertificates, TypeOK
  <1>. QED
    BY <1>1, <1>2

(* What a step of the service keeps is typed, so every reachable state is.    *)
LEMMA StepType == TypeOK /\ [Next]_vars => TypeOK'
  <1> SUFFICES ASSUME TypeOK, [Next]_vars PROVE TypeOK'
    OBVIOUS
  <1>1. ASSUME NEW w \in Worker, Start(w) PROVE TypeOK'
    BY <1>1, StartType
  <1>2. ASSUME NEW w \in Worker, Handle(w) PROVE TypeOK'
    BY <1>2, IssueReadsType, IssueMintType, ActivateType, RevokeReadsType, RegistryWriteType,
       SyncType, EnrollmentsWriteType, CertificatesWriteType DEF Handle
  <1>3. CASE Lapse
    BY <1>3, ConstantsAssumption DEF Lapse, TypeOK, stores
  <1>4. CASE Crash
    BY <1>4, IdleFrameType DEF Crash, TypeOK, stores, Frame
  <1>5. CASE UNCHANGED vars
    BY <1>5 DEF vars, stores, TypeOK
  <1>. QED
    BY <1>1, <1>2, <1>3, <1>4, <1>5 DEF Next

(* Type correctness: whatever the workers, the ids they draw, the requests    *)
(* they run and the moments they stop at, the three files hold well-formed    *)
(* records, and a handler that works on an enrollment or a certificate knows  *)
(* which one.                                                                 *)
THEOREM TypeCorrect == Spec => []TypeOK
  BY InitType, StepType, PTL DEF Spec
-----------------------------------------------------------------------------
(* A written revocation is final when revocations are handled one at a time.  *)
(*                                                                            *)
(* RevokedStaysRevoked is not inductive: it does not say that the worker      *)
(* about to replace the registry holds every revocation written so far.       *)
(* RegistryInv adds that, and why it stays true: nobody else is between the   *)
(* read and the write of the registry, and the registry that worker truncated *)
(* is the one it read.                                                        *)
Holds(w) == acked \subseteq frame[w].snapR /\ frame[w].serial \in frame[w].snapR

RegistryInv ==
    /\ registry.ok => acked \subseteq registry.serials
    /\ \A v, w \in Worker :
        frame[v].pc \in RevocationLabels /\ frame[w].pc \in RevocationLabels => v = w
    /\ \A w \in Worker : frame[w].then \notin RevocationLabels
    /\ \A w \in Worker : frame[w].pc = "revokeOpenR" => registry.ok /\ Holds(w)
    /\ \A w \in Worker : frame[w].pc = "revokeFlushR" => registry = NoRegistry /\ Holds(w)

(* A step of one worker that does not touch the registry keeps RegistryInv,   *)
(* if it enters a revocation only when no other worker is in one.             *)
LEMMA OtherStep ==
    ASSUME TypeOK, RegistryInv, SerialRevocation = TRUE, NEW w \in Worker, NEW f,
           Become(w, f), UNCHANGED <<registry, acked>>,
           f.pc \notin {"revokeOpenR", "revokeFlushR"}, f.then \notin RevocationLabels,
           f.pc \in RevocationLabels => frame[w].pc \in RevocationLabels \/ RevocationFree
    PROVE  RegistryInv'
  <1>1. frame' = [frame EXCEPT ![w] = f] /\ frame \in [Worker -> Frame]
    BY DEF Become, TypeOK
  <1>2. ASSUME NEW v \in Worker, NEW u \in Worker,
               frame'[v].pc \in RevocationLabels, frame'[u].pc \in RevocationLabels
        PROVE  v = u
    BY <1>1, <1>2 DEF RegistryInv, RevocationFree
  <1>3. \A v \in Worker : frame'[v].then \notin RevocationLabels
    BY <1>1 DEF RegistryInv
  <1>4. \A v \in Worker :
          /\ frame'[v].pc = "revokeOpenR" => frame'[v] = frame[v] /\ frame[v].pc = "revokeOpenR"
          /\ frame'[v].pc = "revokeFlushR" => frame'[v] = frame[v] /\ frame[v].pc = "revokeFlushR"
    BY <1>1
  <1>. QED
    BY <1>2, <1>3, <1>4 DEF RegistryInv, Holds

LEMMA ReturnStep ==
    ASSUME TypeOK, RegistryInv, SerialRevocation = TRUE, NEW w \in Worker,
           Return(w), UNCHANGED <<registry, acked>>
    PROVE  RegistryInv'
  <1>1. /\ IdleFrame.pc \notin RevocationLabels
        /\ IdleFrame.then \notin RevocationLabels
        /\ IdleFrame.pc = "idle"
    BY DEF IdleFrame, RevocationLabels
  <1>. QED
    BY <1>1, OtherStep DEF Return

LEMMA GotoStep ==
    ASSUME TypeOK, RegistryInv, SerialRevocation = TRUE, NEW w \in Worker,
           NEW l \in Label \ RevocationLabels,
           Goto(w, l) \/ Continue(w, l) \/ Resume(w, l), UNCHANGED <<registry, acked>>
    PROVE  RegistryInv'
  <1>1. frame[w] \in FrameRecord /\ frame[w].then \notin RevocationLabels
    BY FrameTypes DEF RegistryInv
  <1>2. Return(w) \/ \E f : f.pc = l /\ f.then = frame[w].then /\ Become(w, f)
    BY <1>1 DEF Goto, Continue, Resume, FrameRecord
  <1>3. l \notin {"revokeOpenR", "revokeFlushR"}
    BY DEF RevocationLabels
  <1>. QED
    BY <1>1, <1>2, <1>3, OtherStep, ReturnStep

LEMMA RegistryInit == Init => RegistryInv
  BY DEF Init, RegistryInv, IdleFrame, RevocationLabels, Holds

LEMMA StartKeepsRegistry ==
    ASSUME TypeOK, RegistryInv, SerialRevocation = TRUE, NEW w \in Worker, Start(w)
    PROVE  RegistryInv'
  <1>1. UNCHANGED <<registry, acked>>
    BY DEF Start, StartEnroll, StartEnrollDemo, StartIssue, StartActivate, StartRevoke,
           StartRegistryRevoke, StartSync, CreateEnrollment, stores
  <1>2. ASSUME NEW f, Become(w, f), f.then \notin RevocationLabels,
               f.pc \notin RevocationLabels
                 \/ (f.pc \in {"revokeRead", "revokeReadR"} /\ RevocationFree)
        PROVE  RegistryInv'
    BY <1>1, <1>2, OtherStep DEF RevocationLabels
  <1>3. ASSUME NEW em, NEW g, NEW a, NEW l \in {"idle", "issueRead", "caller"},
               CreateEnrollment(w, em, g, a, l)
        PROVE  RegistryInv'
    <2> DEFINE F(e) == [IdleFrame EXCEPT !.pc = "enrollOpen", !.then = l, !.enr = e, !.activate = a,
                            !.snapE = [enrollments EXCEPT ![e] =
                                [status |-> "pending", email |-> em, serial |-> None, proven |-> g]]]
    <2>1. PICK e : Become(w, F(e))
      BY <1>3 DEF CreateEnrollment
    <2>2. F(e).then \notin RevocationLabels /\ F(e).pc \notin RevocationLabels
      BY IdleFrameType DEF FrameRecord, RevocationLabels
    <2> HIDE DEF F
    <2>. QED
      BY <1>2, <2>1, <2>2
  <1>4. CASE StartEnroll(w)
    BY <1>3, <1>4 DEF StartEnroll
  <1>5. CASE StartEnrollDemo(w)
    BY <1>3, <1>5 DEF StartEnrollDemo
  <1>6. ASSUME NEW e, NEW act, Become(w, [IdleFrame EXCEPT !.pc = "issueRead", !.enr = e, !.activate = act])
        PROVE  RegistryInv'
    <2> DEFINE f == [IdleFrame EXCEPT !.pc = "issueRead", !.enr = e, !.activate = act]
    <2>1. f.then \notin RevocationLabels /\ f.pc \notin RevocationLabels
      BY IdleFrameType DEF FrameRecord, RevocationLabels
    <2> HIDE DEF f
    <2>. QED
      BY <1>2, <1>6, <2>1 DEF f
  <1>7. CASE StartIssue(w)
    BY <1>6, <1>7 DEF StartIssue
  <1>8. ASSUME NEW s, NEW l, Become(w, [IdleFrame EXCEPT !.pc = l, !.serial = s]),
               l = "activateRead" \/ (l \in {"revokeRead", "revokeReadR"} /\ RevocationFree)
        PROVE  RegistryInv'
    <2> DEFINE f == [IdleFrame EXCEPT !.pc = l, !.serial = s]
    <2>1. /\ f.then \notin RevocationLabels
          /\ f.pc \notin RevocationLabels \/ (f.pc \in {"revokeRead", "revokeReadR"} /\ RevocationFree)
      BY <1>8, IdleFrameType DEF FrameRecord, RevocationLabels
    <2>. QED
      BY <1>2, <1>8, <2>1
  <1>9. CASE StartActivate(w)
    BY <1>8, <1>9 DEF StartActivate
  <1>10. CASE StartRevoke(w)
    BY <1>8, <1>10 DEF StartRevoke
  <1>11. CASE StartRegistryRevoke(w)
    BY <1>8, <1>11 DEF StartRegistryRevoke
  <1>12. CASE StartSync(w)
    <2> DEFINE f == [IdleFrame EXCEPT !.pc = "syncReadK"]
    <2>1. f.then \notin RevocationLabels /\ f.pc \notin RevocationLabels
      BY IdleFrameType DEF FrameRecord, RevocationLabels
    <2>2. Become(w, f)
      BY <1>12 DEF StartSync
    <2> HIDE DEF f
    <2>. QED
      BY <1>2, <2>1, <2>2
  <1>. QED
    BY <1>4, <1>5, <1>7, <1>9, <1>10, <1>11, <1>12 DEF Start

(* The handler steps away from the registry file.                             *)
LEMMA HandleKeepsRegistry ==
    ASSUME TypeOK, RegistryInv, SerialRevocation = TRUE, NEW w \in Worker,
           Handle(w), ~OpenRegistry(w), ~FlushRegistry(w), ~RevokeReadR(w)
    PROVE  RegistryInv'
  <1>1. frame[w] \in FrameRecord /\ frame[w].then \notin RevocationLabels
    BY FrameTypes DEF RegistryInv
  <1>2. ASSUME NEW f, Become(w, f), UNCHANGED <<registry, acked>>, f.then \notin RevocationLabels,
               f.pc \notin RevocationLabels \/ (f.pc = "revokeReadR" /\ At(w, "revokeRead"))
        PROVE  RegistryInv'
    BY <1>2, OtherStep DEF RevocationLabels, At
  <1>3. {"issueExisting", "activateRead", "activateEmails", "issueOpenK", "idle",
         "enrollFlush", "issueFlushE", "issueFlushK", "activateFlushK",
         "revokeFlushK", "syncFlushK", "syncFlushE"} \subseteq Label \ RevocationLabels
    BY DEF Label, OpenLabels, FlushLabels, ReadLabels, RevocationLabels
  <1>4. CASE IssueRefused(w)
    BY <1>4, ReturnStep DEF IssueRefused, stores
  <1>5. CASE IssuePending(w)
    <2> DEFINE f == [frame[w] EXCEPT !.pc = "issueMint", !.snapE = enrollments]
    <2>1. f.then \notin RevocationLabels /\ f.pc \notin RevocationLabels
      BY <1>1 DEF FrameRecord, RevocationLabels
    <2>. QED
      BY <1>2, <1>5, <2>1 DEF IssuePending, stores
  <1>6. CASE IssueAgain(w)
    <2> DEFINE s == enrollments[frame[w].enr].serial
               f == [frame[w] EXCEPT !.pc = "issueExisting", !.serial = s]
    <2>1. f.then \notin RevocationLabels /\ f.pc \notin RevocationLabels
      BY <1>1 DEF FrameRecord, RevocationLabels
    <2>. QED
      BY <1>2, <1>6, <2>1 DEF IssueAgain, stores
  <1>7. CASE IssueExisting(w)
    BY <1>3, <1>7, GotoStep DEF IssueExisting, stores
  <1>8. CASE IssueMint(w)
    <2> DEFINE F(s) == [frame[w] EXCEPT !.pc = "issueOpenE", !.serial = s,
                          !.snapE[frame[w].enr].status = "issued", !.snapE[frame[w].enr].serial = s,
                          !.snapK = Put(certificates, s, IssuedRecord(frame[w].enr))]
    <2>1. PICK s : Become(w, F(s))
      BY <1>8 DEF IssueMint
    <2>2. F(s).then \notin RevocationLabels /\ F(s).pc \notin RevocationLabels
      BY <1>1 DEF FrameRecord, RevocationLabels
    <2> HIDE DEF F
    <2>. QED
      BY <1>2, <1>8, <2>1, <2>2 DEF IssueMint, stores
  <1>9. CASE ActivateRead(w)
    <2> DEFINE f == [frame[w] EXCEPT !.pc = "syncReadK", !.then = "activateCheck", !.held = certificates]
    <2>1. f.then \notin RevocationLabels /\ f.pc \notin RevocationLabels
      BY <1>1 DEF FrameRecord, RevocationLabels
    <2>. QED
      BY <1>2, <1>9, <2>1, ReturnStep DEF ActivateRead, stores
  <1>10. CASE ActivateCheck(w)
    BY <1>3, <1>10, GotoStep DEF ActivateCheck, stores
  <1>11. CASE ActivateEmails(w)
    <2> DEFINE f == [frame[w] EXCEPT !.pc = "activateOpenK", !.held = NoCertificates,
                      !.snapK = Activated(frame[w].held, frame[w].serial, enrollments)]
    <2>1. f.then \notin RevocationLabels /\ f.pc \notin RevocationLabels
      BY <1>1 DEF FrameRecord, RevocationLabels
    <2>. QED
      BY <1>2, <1>11, <2>1 DEF ActivateEmails, stores
  <1>12. CASE RevokeRead(w)
    <2> DEFINE f == [frame[w] EXCEPT !.pc = "revokeReadR", !.then = "revokeOpenK",
                           !.snapK = SetStatus(certificates, frame[w].serial, "revoked")]
    <2>1. f.then \notin RevocationLabels /\ f.pc = "revokeReadR"
      BY <1>1 DEF FrameRecord, RevocationLabels
    <2>. QED
      BY <1>2, <1>12, <2>1, ReturnStep DEF RevokeRead, stores
  <1>13. CASE SyncReadK(w)
    <2> DEFINE f == [frame[w] EXCEPT !.pc = "syncReadR",
                 !.snapK = Put(certificates, DemoSerial, DemoRecord(DemoStatus(certificates)))]
    <2>1. f.then \notin RevocationLabels /\ f.pc \notin RevocationLabels
      BY <1>1 DEF FrameRecord, RevocationLabels
    <2>. QED
      BY <1>2, <1>13, <2>1 DEF SyncReadK, stores
  <1>14. CASE SyncReadR(w)
    <2> DEFINE F(K) == [frame[w] EXCEPT !.pc = "syncOpenK", !.snapK = K]
    <2>1. Return(w) \/ \E K : Become(w, F(K))
      BY <1>14 DEF SyncReadR
    <2>2. \A K : F(K).then \notin RevocationLabels /\ F(K).pc \notin RevocationLabels
      BY <1>1 DEF FrameRecord, RevocationLabels
    <2>3. UNCHANGED <<registry, acked>>
      BY <1>14 DEF SyncReadR, stores
    <2> HIDE DEF F
    <2>. QED
      BY <1>2, <2>1, <2>2, <2>3, ReturnStep
  <1>15. CASE SyncReadE(w)
    <2> DEFINE f == [frame[w] EXCEPT !.pc = "syncOpenE",
                        !.snapE = [enrollments EXCEPT ![DemoEnrollment] = DemoEnrollmentRecord]]
    <2>1. f.then \notin RevocationLabels /\ f.pc \notin RevocationLabels
      BY <1>1 DEF FrameRecord, RevocationLabels
    <2>. QED
      BY <1>2, <1>15, <2>1 DEF SyncReadE, stores
  <1>16. CASE OpenEnrollments(w)
    <2>1. Opened(frame[w].pc) \in Label \ RevocationLabels
      BY <1>3, <1>16 DEF OpenEnrollments, Opened
    <2>. QED
      BY <1>16, <2>1, GotoStep DEF OpenEnrollments
  <1>17. CASE FlushEnrollments(w)
    BY <1>1, <1>3, <1>17, FrameTypes, GotoStep DEF FlushEnrollments
  <1>18. CASE OpenCertificates(w)
    <2>1. Opened(frame[w].pc) \in Label \ RevocationLabels
      BY <1>3, <1>18 DEF OpenCertificates, Opened
    <2>. QED
      BY <1>18, <2>1, GotoStep DEF OpenCertificates
  <1>19. CASE FlushCertificates(w)
    <2> DEFINE l == AfterCertificates(frame[w])
               t == IF At(w, "revokeFlushK") THEN "idle" ELSE frame[w].then
               f == [frame[w] EXCEPT !.pc = l, !.snapK = NoCertificates, !.then = t]
    <2>1. l \in {"idle", "activateRead", "syncReadK", "syncReadE"}
      BY <1>19 DEF FlushCertificates, AfterCertificates
    <2>2. Return(w) \/ Become(w, f)
      BY <1>1, <1>19 DEF FlushCertificates, FrameRecord
    <2> HIDE DEF l
    <2>3. f.then \notin RevocationLabels /\ f.pc \notin RevocationLabels
      BY <1>1, <2>1 DEF FrameRecord, RevocationLabels
    <2>4. UNCHANGED <<registry, acked>>
      BY <1>19 DEF FlushCertificates
    <2> HIDE DEF f
    <2>. QED
      BY <1>2, <2>2, <2>3, <2>4, ReturnStep
  <1>. QED
    BY <1>4, <1>5, <1>6, <1>7, <1>8, <1>9, <1>10, <1>11, <1>12, <1>13, <1>14, <1>15,
       <1>16, <1>17, <1>18, <1>19 DEF Handle

(* The steps on the registry file itself.                                     *)
LEMMA RevokeKeepsRegistry ==
    ASSUME TypeOK, RegistryInv, SerialRevocation = TRUE, NEW w \in Worker,
           RevokeReadR(w) \/ OpenRegistry(w) \/ FlushRegistry(w)
    PROVE  RegistryInv'
  <1>1. frame \in [Worker -> Frame] /\ frame[w] \in FrameRecord
    BY FrameTypes DEF TypeOK
  <1>2. \A v \in Worker : v # w => frame[v].pc \notin RevocationLabels /\ frame'[v] = frame[v]
    <2>1. frame[w].pc \in RevocationLabels
      BY DEF RevokeReadR, OpenRegistry, FlushRegistry, At, RevocationLabels
    <2>2. \E f : frame' = [frame EXCEPT ![w] = f]
      BY DEF RevokeReadR, OpenRegistry, FlushRegistry, Become, Goto, Resume, Return
    <2>. QED
      BY <1>1, <2>1, <2>2 DEF RegistryInv
  <1>3. CASE RevokeReadR(w)
    <2> DEFINE f == [frame[w] EXCEPT !.pc = "revokeOpenR", !.snapR = registry.serials \union {frame[w].serial}]
    <2>1. UNCHANGED <<registry, acked>>
      BY <1>3 DEF RevokeReadR, stores
    <2>2. CASE Return(w)
      BY <2>1, <2>2, ReturnStep
    <2>3. CASE registry.ok /\ Become(w, f)
      <3>1. /\ frame'[w].pc = "revokeOpenR" /\ frame'[w].then = frame[w].then
            /\ frame'[w].snapR = registry.serials \union {frame[w].serial}
            /\ frame'[w].serial = frame[w].serial
        BY <1>1, <2>3 DEF Become, FrameRecord
      <3>2. acked \subseteq frame'[w].snapR /\ frame'[w].serial \in frame'[w].snapR
        BY <2>3, <3>1 DEF RegistryInv
      <3>. QED
        BY <1>2, <2>1, <2>3, <3>1, <3>2 DEF RegistryInv, Holds, RevocationLabels
    <2>. QED
      BY <1>3, <2>2, <2>3 DEF RevokeReadR, Readable
  <1>4. CASE OpenRegistry(w)
    <2>1. /\ frame'[w].pc = "revokeFlushR" /\ frame'[w].then = frame[w].then
          /\ frame'[w].snapR = frame[w].snapR /\ frame'[w].serial = frame[w].serial
      BY <1>1, <1>4 DEF OpenRegistry, Goto, Become, FrameRecord
    <2>2. registry' = NoRegistry /\ acked' = acked /\ Holds(w)
      BY <1>4 DEF OpenRegistry, At, RegistryInv
    <2>. QED
      BY <1>2, <2>1, <2>2 DEF RegistryInv, Holds, RevocationLabels, NoRegistry
  <1>5. CASE FlushRegistry(w)
    <2>1. registry = NoRegistry /\ Holds(w)
      BY <1>5 DEF FlushRegistry, At, RegistryInv
    <2>2. registry' = [ok |-> TRUE, serials |-> frame[w].snapR] /\ acked' = acked \union {frame[w].serial}
      BY <1>5, <2>1 DEF FlushRegistry, Written
    <2>3. frame'[w].pc \notin RevocationLabels /\ frame'[w].then \notin RevocationLabels
      <3> DEFINE l == frame[w].then
      <3>1. l \notin RevocationLabels
        BY DEF RegistryInv
      <3>2. CASE Return(w)
        BY <1>1, <3>2 DEF Return, Become, IdleFrame, RevocationLabels
      <3>3. ASSUME NEW f, f.pc = l, f.then = l, Become(w, f)
            PROVE  frame'[w].pc \notin RevocationLabels /\ frame'[w].then \notin RevocationLabels
        BY <1>1, <3>1, <3>3 DEF Become
      <3>4. Return(w) \/ \E f : f.pc = l /\ f.then = l /\ Become(w, f)
        BY <1>1, <1>5 DEF FlushRegistry, Resume, FrameRecord
      <3>. QED
        BY <3>2, <3>3, <3>4
    <2>. QED
      BY <1>2, <2>1, <2>2, <2>3 DEF RegistryInv, Holds, RevocationLabels
  <1>. QED
    BY <1>3, <1>4, <1>5

LEMMA StepKeepsRegistry ==
    ASSUME SerialRevocation = TRUE
    PROVE  TypeOK /\ RegistryInv /\ [Next]_vars => RegistryInv'
  <1> SUFFICES ASSUME TypeOK, RegistryInv, [Next]_vars PROVE RegistryInv'
    OBVIOUS
  <1>1. ASSUME NEW w \in Worker, Start(w) PROVE RegistryInv'
    BY <1>1, StartKeepsRegistry
  <1>2. ASSUME NEW w \in Worker, Handle(w) PROVE RegistryInv'
    BY <1>2, HandleKeepsRegistry, RevokeKeepsRegistry
  <1>3. CASE Lapse
    BY <1>3 DEF Lapse, stores, RegistryInv, Holds
  <1>4. CASE Crash
    BY <1>4 DEF Crash, stores, RegistryInv, Holds, IdleFrame, RevocationLabels
  <1>5. CASE UNCHANGED vars
    BY <1>5 DEF vars, stores, RegistryInv, Holds
  <1>. QED
    BY <1>1, <1>2, <1>3, <1>4, <1>5 DEF Next

(* Once the write of a revocation has finished, the certificate is derived to *)
(* be revoked in every state in which the registry can be read: no stale list *)
(* written back by another handler, no activation and no restart undoes it,   *)
(* as long as revocations do not overlap (revocation_service.py:58-69,        *)
(* certificate_lifecycle_service.py:338-347).                                 *)
THEOREM RevocationIsFinal ==
    ASSUME SerialRevocation = TRUE
    PROVE  Spec => []RevokedStaysRevoked
  <1>1. RegistryInv => RevokedStaysRevoked
    BY DEF RegistryInv, RevokedStaysRevoked, DeriveStatus
  <1>. QED
    BY <1>1, InitType, StepType, RegistryInit, StepKeepsRegistry, PTL DEF Spec
-----------------------------------------------------------------------------
(* Where records come from, with any number of overlapping handlers.          *)
(*                                                                            *)
(* IssuedOnProof and ActiveIsOwn are about the two files; a handler writes    *)
(* back the lists it read, so the invariant says the same of every copy: a    *)
(* recorded certificate was minted for the enrollment it names, and an        *)
(* enrollment on file was proven by the user it was drawn for.  A handler     *)
(* that activates a certificate holds a list in which it is recorded.         *)
GenuineIn(list, m) == \A s \in AnySerial : Has(list, s) => m[s] # None /\ list.rec[s].enr = m[s]
ProvenIn(E, o) == \A e \in AnyEnrollment : E[e].status # "absent" => E[e].proven /\ E[e].email = o[e]
SyncLabels == {"syncReadK", "syncReadR", "syncOpenK", "syncFlushK", "syncReadE", "syncOpenE", "syncFlushE"}
ActivateLabels == {"activateCheck", "activateEmails", "activateOpenK", "activateFlushK"}
Activating(l, then) ==
    l \in {"activateCheck", "activateEmails"} \/ (then = "activateCheck" /\ l \in SyncLabels)
Callers == {"idle", "issueRead", "caller", "activateCheck", "revokeOpenK"}
InActivation(l, then) ==
    then \in Callers /\ (then = "activateCheck" => l \in SyncLabels \union ActivateLabels)

OriginFrame(f, m, o) ==
    /\ GenuineIn(f.snapK, m) /\ GenuineIn(f.held, m) /\ ProvenIn(f.snapE, o)
    /\ InActivation(f.pc, f.then)
    /\ Activating(f.pc, f.then) => Has(f.held, f.serial)
    /\ f.pc = "issueMint" => f.snapE[f.enr].status = "pending"

OriginInv ==
    /\ GenuineIn(certificates, minted)
    /\ ProvenIn(enrollments, owner)
    /\ minted[DemoSerial] = DemoEnrollment /\ owner[DemoEnrollment] = Alice
    /\ \A w \in Worker : OriginFrame(frame[w], minted, owner)

(* An id is drawn for a certificate or an enrollment only once.               *)
Extends(m, n, S) == \A x \in S : m[x] # None => n[x] = m[x]

LEMMA GenuineGrows ==
    ASSUME NEW list, NEW m, NEW n, GenuineIn(list, m), Extends(m, n, AnySerial)
    PROVE  GenuineIn(list, n)
  BY DEF GenuineIn, Extends

LEMMA ProvenGrows ==
    ASSUME NEW E \in [AnyEnrollment -> EnrollmentRecord], NEW o, NEW p, ProvenIn(E, o),
           Extends(o, p, AnyEnrollment)
    PROVE  ProvenIn(E, p)
  <1>1. \A e \in AnyEnrollment : E[e].email # None
    BY ConstantsAssumption DEF EnrollmentRecord
  <1>. QED
    BY <1>1 DEF ProvenIn, Extends

LEMMA GenuinePut ==
    ASSUME NEW list \in CertificateList, NEW m, GenuineIn(list, m), NEW s \in AnySerial,
           NEW r \in CertificateRecord, r.enr = m[s], m[s] # None
    PROVE  GenuineIn(Put(list, s, r), m)
  BY DEF GenuineIn, Put, Has, CertificateList

LEMMA GenuineSetStatus ==
    ASSUME NEW list \in CertificateList, NEW m, GenuineIn(list, m), NEW s \in AnySerial, NEW st
    PROVE  GenuineIn(SetStatus(list, s, st), m)
  <1>1. ASSUME Has(list, s) PROVE GenuineIn([list EXCEPT !.rec[s].status = st], m)
    <2>1. [list EXCEPT !.rec[s].status = st].rec = [list.rec EXCEPT ![s] = [list.rec[s] EXCEPT !.status = st]]
      BY DEF CertificateList
    <2>2. [list.rec[s] EXCEPT !.status = st].enr = list.rec[s].enr
      BY DEF CertificateList, CertificateRecord
    <2>. QED
      BY <1>1, <2>1, <2>2 DEF GenuineIn, Has, CertificateList
  <1>. QED
    BY <1>1 DEF SetStatus

LEMMA GenuineActivated ==
    ASSUME NEW list \in CertificateList, NEW m, GenuineIn(list, m), NEW s \in AnySerial,
           Has(list, s), NEW E
    PROVE  GenuineIn(Activated(list, s, E), m)
  <1> DEFINE em == EmailFromRecord(list.rec[s], E)
             R(t) == IF t = s THEN [list.rec[t] EXCEPT !.status = "active"]
                     ELSE IF list.rec[t].status = "active" /\ EmailFromRecord(list.rec[t], E) = em
                          THEN [list.rec[t] EXCEPT !.by = s] ELSE list.rec[t]
  <1>1. Activated(list, s, E).rec = [t \in AnySerial |-> R(t)]
    BY DEF Activated, CertificateList
  <1>2. ASSUME NEW t \in AnySerial
        PROVE  R(t).enr = list.rec[t].enr /\ (R(t).status # "absent" => Has(list, t))
    <2>1. list.rec[t] \in CertificateRecord
      BY DEF CertificateList
    <2>. QED
      BY <2>1 DEF CertificateRecord, Has
  <1> HIDE DEF R
  <1>. QED
    BY <1>1, <1>2 DEF GenuineIn, Has

LEMMA NothingGenuine ==
    ASSUME NEW m, NEW o
    PROVE  GenuineIn(NoCertificates, m) /\ ProvenIn(NoEnrollments, o) /\ OriginFrame(IdleFrame, m, o)
  BY DEF GenuineIn, ProvenIn, OriginFrame, NoCertificates, NoEnrollments, AbsentCertificate,
         AbsentEnrollment, Has, IdleFrame, Activating, InActivation, SyncLabels, Callers

LEMMA OriginInit == Init => OriginInv
  <1> SUFFICES ASSUME Init PROVE OriginInv
    OBVIOUS
  <1>1. TypeOK
    BY InitType
  <1>2. GenuineIn(certificates, minted)
    <2>1. ASSUME NEW s \in AnySerial
          PROVE  InitialCertificate(s).status # "absent" => InitialCertificate(s).enr # None
      <3>1. CASE s = DemoSerial
        BY <3>1, ConstantsAssumption DEF InitialCertificate, DemoRecord, AnyEnrollment
      <3>2. CASE s # DemoSerial /\ PreFor(s) = {}
        BY <3>2 DEF InitialCertificate, AbsentCertificate
      <3>3. CASE s # DemoSerial /\ PreFor(s) # {}
        <4>1. The(PreFor(s)) \in DOMAIN Preissued
          BY <3>3 DEF The, PreFor
        <4>. QED
          BY <3>3, <4>1, PreissuedType, ConstantsAssumption
          DEF InitialCertificate, IssuedRecord, AnyEnrollment
      <3>. QED
        BY <3>1, <3>2, <3>3
    <2>. QED
      BY <2>1 DEF Init, GenuineIn, Has
  <1>3. ProvenIn(enrollments, owner)
    BY DEF Init, ProvenIn, InitialEnrollment, DemoEnrollmentRecord, AbsentEnrollment
  <1>4. minted[DemoSerial] = DemoEnrollment /\ owner[DemoEnrollment] = Alice
    BY DEF Init, InitialCertificate, DemoRecord, InitialEnrollment, DemoEnrollmentRecord,
           AnySerial, AnyEnrollment
  <1>. QED
    BY <1>2, <1>3, <1>4, NothingGenuine DEF Init, OriginInv

(* A step of one worker, which may have written a file and drawn an id.       *)
LEMMA OriginStep ==
    ASSUME TypeOK, OriginInv, NEW w \in Worker, NEW f, Become(w, f),
           Extends(minted, minted', AnySerial), Extends(owner, owner', AnyEnrollment),
           GenuineIn(certificates', minted'), ProvenIn(enrollments', owner'),
           OriginFrame(f, minted', owner')
    PROVE  OriginInv'
  <1>1. minted'[DemoSerial] = DemoEnrollment /\ owner'[DemoEnrollment] = Alice
    BY ConstantsAssumption DEF OriginInv, Extends, AnySerial, AnyEnrollment
  <1>2. ASSUME NEW v \in Worker PROVE OriginFrame(frame'[v], minted', owner')
    <2>1. CASE v = w
      BY <2>1 DEF Become, TypeOK
    <2>2. CASE v # w
      <3>1. frame'[v] = frame[v]
        BY <2>2 DEF Become, TypeOK
      <3>. QED
        BY <3>1, FrameTypes, GenuineGrows, ProvenGrows DEF OriginInv, OriginFrame
    <2>. QED
      BY <2>1, <2>2
  <1>. QED
    BY <1>1, <1>2 DEF OriginInv

LEMMA OriginRead ==
    ASSUME TypeOK, OriginInv, NEW w \in Worker, NEW f, Become(w, f),
           UNCHANGED <<certificates, enrollments, minted, owner>>,
           OriginFrame(f, minted, owner)
    PROVE  OriginInv'
  BY OriginStep DEF OriginInv, Extends

(* A worker that goes on with the copies it has, or forgets them.             *)
LEMMA OriginGoto ==
    ASSUME TypeOK, OriginInv, NEW w \in Worker, NEW l,
           Activating(l, frame[w].then) => Activating(frame[w].pc, frame[w].then),
           l = "idle" \/ InActivation(l, frame[w].then), l # "issueMint",
           (Goto(w, l) /\ l # "idle") \/ Continue(w, l) \/ Resume(w, l) \/ Return(w)
    PROVE  \E f : Become(w, f) /\ OriginFrame(f, minted, owner)
  <1> DEFINE g == [frame[w] EXCEPT !.pc = l]
             Kept(k) == [frame[w] EXCEPT !.pc = l, !.snapR = {}, !.snapE = NoEnrollments, !.snapK = k]
  <1>1. frame[w] \in FrameRecord /\ OriginFrame(frame[w], minted, owner)
    BY FrameTypes DEF OriginInv
  <1>2. l # "idle" => OriginFrame(g, minted, owner)
    BY <1>1 DEF FrameRecord, OriginFrame, Activating
  <1>3. ASSUME NEW k \in {frame[w].snapK, NoCertificates}, l # "idle"
        PROVE  OriginFrame(Kept(k), minted, owner)
    BY <1>1, <1>3, NothingGenuine DEF FrameRecord, OriginFrame, Activating
  <1>4. \/ Become(w, IdleFrame)
        \/ l # "idle" /\ (Become(w, g) \/ \E k \in {frame[w].snapK, NoCertificates} : Become(w, Kept(k)))
    BY DEF Goto, Continue, Resume, Return
  <1> HIDE DEF g, Kept
  <1>. QED
    BY <1>2, <1>3, <1>4, NothingGenuine

LEMMA CreateEnrollmentOrigin ==
    ASSUME TypeOK, OriginInv, NEW w \in Worker, NEW em \in Email, NEW g \in BOOLEAN, NEW a \in BOOLEAN,
           NEW l \in {"idle", "issueRead", "caller"}, CreateEnrollment(w, em, g, a, l)
    PROVE  OriginInv'
  <1> DEFINE E(e) == [enrollments EXCEPT ![e] =
                         [status |-> "pending", email |-> em, serial |-> None, proven |-> g]]
             F(e) == [IdleFrame EXCEPT !.pc = "enrollOpen", !.then = l, !.enr = e, !.activate = a,
                                       !.snapE = E(e)]
  <1>1. PICK e \in Enrollment :
            owner[e] = None /\ owner' = [owner EXCEPT ![e] = em] /\ Become(w, F(e))
    BY DEF CreateEnrollment
  <1>2. e \in AnyEnrollment /\ g = TRUE /\ UNCHANGED <<stores, minted>>
    BY DEF CreateEnrollment, VerifyProofOfPossession, AnyEnrollment
  <1>3. Extends(owner, owner', AnyEnrollment)
    BY <1>1, <1>2 DEF Extends, TypeOK
  <1>4. ProvenIn(enrollments, owner')
    BY <1>3, ProvenGrows DEF OriginInv, TypeOK
  <1>5. ProvenIn(E(e), owner')
    BY <1>1, <1>2, <1>4 DEF ProvenIn, TypeOK
  <1> HIDE DEF E
  <1>6. /\ F(e).snapE = E(e) /\ F(e).snapK = NoCertificates /\ F(e).held = NoCertificates
        /\ F(e).pc = "enrollOpen" /\ F(e).then = l
    BY DEF IdleFrame
  <1> HIDE DEF F
  <1>7. OriginFrame(F(e), minted, owner')
    BY <1>5, <1>6, NothingGenuine DEF OriginFrame, Activating, InActivation, SyncLabels, Callers
  <1>. QED
    BY <1>1, <1>2, <1>3, <1>4, <1>7, OriginStep DEF stores, Extends, OriginInv

LEMMA StartKeepsOrigin ==
    ASSUME TypeOK, OriginInv, NEW w \in Worker, Start(w)
    PROVE  OriginInv'
  <1>1. CASE StartEnroll(w)
    BY <1>1, CreateEnrollmentOrigin DEF StartEnroll
  <1>2. CASE StartEnrollDemo(w)
    BY <1>2, CreateEnrollmentOrigin, ConstantsAssumption DEF StartEnrollDemo
  <1>3. CASE StartIssue(w) \/ StartActivate(w) \/ StartRevoke(w) \/ StartRegistryRevoke(w) \/ StartSync(w)
    <2>1. UNCHANGED <<certificates, enrollments, minted, owner>>
      BY <1>3 DEF StartIssue, StartActivate, StartRevoke, StartRegistryRevoke, StartSync, stores
    <2>2. ASSUME NEW l, ~Activating(l, "idle"), l # "issueMint", NEW e, NEW s, NEW a
          PROVE  /\ OriginFrame([IdleFrame EXCEPT !.pc = l, !.enr = e, !.activate = a], minted, owner)
                 /\ OriginFrame([IdleFrame EXCEPT !.pc = l, !.serial = s], minted, owner)
                 /\ OriginFrame([IdleFrame EXCEPT !.pc = l], minted, owner)
      BY <2>2, NothingGenuine DEF OriginFrame, IdleFrame, Activating, InActivation, Callers
    <2>3. \E f : Become(w, f) /\ OriginFrame(f, minted, owner)
      BY <1>3, <2>2 DEF Activating, StartIssue, StartActivate, StartRevoke, StartRegistryRevoke, StartSync
    <2>. QED
      BY <2>1, <2>3, OriginRead
  <1>. QED
    BY <1>1, <1>2, <1>3 DEF Start

(* The handler steps that only read.                                          *)
LEMMA ReadsKeepOrigin ==
    ASSUME TypeOK, OriginInv, NEW w \in Worker,
           \/ IssueRefused(w) \/ IssuePending(w) \/ IssueAgain(w) \/ IssueExisting(w)
           \/ ActivateRead(w) \/ ActivateCheck(w) \/ ActivateEmails(w)
           \/ RevokeRead(w) \/ RevokeReadR(w) \/ SyncReadK(w) \/ SyncReadR(w) \/ SyncReadE(w)
    PROVE  OriginInv'
  <1>1. UNCHANGED <<certificates, enrollments, minted, owner>>
    BY DEF IssueRefused, IssuePending, IssueAgain, IssueExisting, ActivateRead, ActivateCheck,
           ActivateEmails, RevokeRead, RevokeReadR, SyncReadK, SyncReadR, SyncReadE, stores
  <1>2. /\ frame[w] \in FrameRecord /\ OriginFrame(frame[w], minted, owner)
        /\ Addressed(frame[w]) /\ certificates \in CertificateList
        /\ GenuineIn(certificates, minted) /\ ProvenIn(enrollments, owner)
    BY FrameTypes DEF OriginInv, TypeOK
  <1>3. ASSUME NEW f, Become(w, f), OriginFrame(f, minted, owner) PROVE OriginInv'
    BY <1>1, <1>3, OriginRead
  <1> USE DEF SyncLabels, ActivateLabels, Callers
  <1>a. ASSUME Return(w) PROVE OriginInv'
    BY <1>3, <1>a, NothingGenuine DEF Return
  <1>b. ASSUME NEW l, Goto(w, l),
               \/ At(w, "issueExisting") /\ l = "activateRead"
               \/ At(w, "activateCheck") /\ l = "activateEmails"
        PROVE  OriginInv'
    <2>1. /\ Activating(l, frame[w].then) => Activating(frame[w].pc, frame[w].then)
          /\ InActivation(l, frame[w].then)
      BY <1>2, <1>b DEF At, OriginFrame, Activating, InActivation
    <2>. QED
      BY <1>3, <1>b, <2>1, OriginGoto
  <1>4. CASE IssueRefused(w) \/ IssueExisting(w)
    BY <1>a, <1>b, <1>4 DEF IssueRefused, IssueExisting, Continue
  <1>5. CASE IssuePending(w)
    <2> DEFINE f == [frame[w] EXCEPT !.pc = "issueMint", !.snapE = enrollments]
    <2>1. OriginFrame(f, minted, owner)
      BY <1>2, <1>5 DEF IssuePending, At, MayIssue, FrameRecord, OriginFrame, Activating, InActivation
    <2>. QED
      BY <1>3, <1>5, <2>1 DEF IssuePending
  <1>6. CASE IssueAgain(w)
    <2> DEFINE s == enrollments[frame[w].enr].serial
               f == [frame[w] EXCEPT !.pc = "issueExisting", !.serial = s]
    <2>1. OriginFrame(f, minted, owner)
      BY <1>2, <1>6 DEF IssueAgain, At, FrameRecord, OriginFrame, Activating, InActivation
    <2>. QED
      BY <1>3, <1>6, <2>1 DEF IssueAgain
  <1>7. CASE ActivateRead(w)
    <2> DEFINE f == [frame[w] EXCEPT !.pc = "syncReadK", !.then = "activateCheck", !.held = certificates]
    <2>1. Has(certificates, frame[w].serial) => OriginFrame(f, minted, owner)
      BY <1>2 DEF FrameRecord, OriginFrame, InActivation
    <2>. QED
      BY <1>3, <1>a, <1>7, <2>1 DEF ActivateRead
  <1>8. CASE ActivateCheck(w)
    BY <1>a, <1>b, <1>8 DEF ActivateCheck, Continue
  <1>9. CASE ActivateEmails(w)
    <2> DEFINE K == Activated(frame[w].held, frame[w].serial, enrollments)
               f == [frame[w] EXCEPT !.pc = "activateOpenK", !.held = NoCertificates, !.snapK = K]
    <2>1. frame[w].serial \in AnySerial /\ Has(frame[w].held, frame[w].serial)
      BY <1>2, <1>9, FrameTypes DEF ActivateEmails, At, Addressed, ForSerial, OriginFrame, Activating
    <2>2. GenuineIn(K, minted)
      BY <1>2, <2>1, FrameTypes, GenuineActivated DEF OriginFrame
    <2> HIDE DEF K
    <2>3. OriginFrame(f, minted, owner)
      BY <1>2, <2>2, NothingGenuine DEF FrameRecord, OriginFrame, Activating, InActivation
    <2>. QED
      BY <1>3, <1>9, <2>3 DEF ActivateEmails, K
  <1>10. CASE RevokeRead(w)
    <2> DEFINE K == SetStatus(certificates, frame[w].serial, "revoked")
               f == [frame[w] EXCEPT !.pc = "revokeReadR", !.then = "revokeOpenK", !.snapK = K]
    <2>1. frame[w].serial \in AnySerial
      BY <1>2, <1>10, FrameTypes DEF RevokeRead, At, Addressed, ForSerial
    <2>2. GenuineIn(K, minted)
      BY <1>2, <2>1, GenuineSetStatus
    <2> HIDE DEF K
    <2>3. OriginFrame(f, minted, owner)
      BY <1>2, <2>2 DEF FrameRecord, OriginFrame, Activating, InActivation
    <2>. QED
      BY <1>3, <1>a, <1>10, <2>3 DEF RevokeRead, K
  <1>11. CASE RevokeReadR(w)
    <2> DEFINE R == registry.serials \union {frame[w].serial}
               f == [frame[w] EXCEPT !.pc = "revokeOpenR", !.snapR = R]
    <2> HIDE DEF R
    <2>1. OriginFrame(f, minted, owner)
      BY <1>2, <1>11 DEF RevokeReadR, At, FrameRecord, OriginFrame, Activating, InActivation
    <2>. QED
      BY <1>3, <1>a, <1>11, <2>1 DEF RevokeReadR, R
  <1>12. ASSUME NEW l \in SyncLabels, At(w, l), NEW m \in SyncLabels, NEW K, GenuineIn(K, minted),
                Become(w, [frame[w] EXCEPT !.pc = m, !.snapK = K])
         PROVE  OriginInv'
    <2> DEFINE f == [frame[w] EXCEPT !.pc = m, !.snapK = K]
    <2>1. OriginFrame(f, minted, owner)
      BY <1>2, <1>12 DEF FrameRecord, OriginFrame, Activating, InActivation, At
    <2>. QED
      BY <1>3, <1>12, <2>1
  <1>13. CASE SyncReadK(w)
    <2> DEFINE r == DemoRecord(DemoStatus(certificates))
    <2>1. r \in CertificateRecord /\ r.enr = minted[DemoSerial] /\ minted[DemoSerial] # None
      BY ConstantTypes, ConstantsAssumption DEF OriginInv, DemoRecord, DemoStatus, AnyEnrollment
    <2>2. GenuineIn(Put(certificates, DemoSerial, r), minted)
      BY <1>2, <2>1, GenuinePut DEF AnySerial
    <2>. QED
      BY <1>12, <1>13, <2>2 DEF SyncReadK, SyncLabels
  <1>14. CASE SyncReadR(w)
    <2> DEFINE K == IF DemoSerial \in registry.serials
                    THEN SetStatus(frame[w].snapK, DemoSerial, "revoked") ELSE frame[w].snapK
    <2>1. GenuineIn(K, minted)
      BY <1>2, FrameTypes, GenuineSetStatus DEF OriginFrame, AnySerial
    <2>2. Return(w) \/ Become(w, [frame[w] EXCEPT !.pc = "syncOpenK", !.snapK = K])
      BY <1>14 DEF SyncReadR
    <2> HIDE DEF K
    <2>. QED
      BY <1>3, <1>12, <1>a, <1>14, <2>1, <2>2 DEF SyncReadR
  <1>15. CASE SyncReadE(w)
    <2> DEFINE E == [enrollments EXCEPT ![DemoEnrollment] = DemoEnrollmentRecord]
               f == [frame[w] EXCEPT !.pc = "syncOpenE", !.snapE = E]
    <2>1. ProvenIn(E, owner)
      BY <1>2 DEF OriginInv, ProvenIn, DemoEnrollmentRecord, TypeOK
    <2> HIDE DEF E
    <2>2. OriginFrame(f, minted, owner)
      BY <1>2, <1>15, <2>1 DEF FrameRecord, OriginFrame, Activating, InActivation, SyncReadE, At
    <2>. QED
      BY <1>3, <1>15, <2>2 DEF SyncReadE, E
  <1>. QED
    BY <1>4, <1>5, <1>6, <1>7, <1>8, <1>9, <1>10, <1>11, <1>13, <1>14, <1>15

LEMMA MintKeepsOrigin ==
    ASSUME TypeOK, OriginInv, NEW w \in Worker, IssueMint(w)
    PROVE  OriginInv'
  <1> DEFINE e == frame[w].enr
             F(s) == [frame[w] EXCEPT !.pc = "issueOpenE", !.serial = s,
                          !.snapE[e].status = "issued", !.snapE[e].serial = s,
                          !.snapK = Put(certificates, s, IssuedRecord(e))]
             r == frame[w].snapE[e]
             G(s) == [frame[w].snapE EXCEPT ![e] = [r EXCEPT !.status = "issued", !.serial = s]]
  <1>1. PICK s \in Serial : minted[s] = None /\ minted' = [minted EXCEPT ![s] = e] /\ Become(w, F(s))
    BY DEF IssueMint
  <1>2. /\ e \in AnyEnrollment /\ e # None /\ s \in AnySerial
        /\ UNCHANGED <<certificates, enrollments, owner>>
    BY FrameTypes, ConstantsAssumption
    DEF IssueMint, At, Addressed, ForEnrollment, AnySerial, AnyEnrollment, stores
  <1>3. Extends(minted, minted', AnySerial)
    BY <1>1 DEF Extends, TypeOK
  <1>4. GenuineIn(certificates, minted')
    BY <1>3, GenuineGrows DEF OriginInv
  <1>5. GenuineIn(Put(certificates, s, IssuedRecord(e)), minted')
    <2>1. minted'[s] = e /\ IssuedRecord(e).enr = e /\ IssuedRecord(e) \in CertificateRecord
      BY <1>1, <1>2, ConstantTypes DEF TypeOK, IssuedRecord
    <2>. QED
      BY <1>2, <1>4, <2>1, GenuinePut DEF TypeOK
  <1>6. ProvenIn(G(s), owner)
    <2>1. /\ r \in EnrollmentRecord /\ ProvenIn(frame[w].snapE, owner)
          /\ r.status = "pending"
      BY <1>2, FrameTypes DEF OriginInv, OriginFrame, IssueMint, At
    <2>2. ASSUME NEW q \in EnrollmentRecord
          PROVE  LET p == [q EXCEPT !.status = "issued", !.serial = s]
                 IN  p.email = q.email /\ p.proven = q.proven
      BY DEF EnrollmentRecord
    <2>. QED
      BY <1>2, <2>1, <2>2, FrameTypes DEF ProvenIn
  <1>7. F(s) = [frame[w] EXCEPT !.pc = "issueOpenE", !.serial = s, !.snapE = G(s),
                                !.snapK = Put(certificates, s, IssuedRecord(e))]
    <2>1. [frame[w].snapE EXCEPT ![e].status = "issued", ![e].serial = s] = G(s)
      BY <1>2, FrameTypes
    <2>. QED
      BY <2>1, FrameTypes DEF FrameRecord
  <1> HIDE DEF G, F
  <1>8. GenuineIn(frame[w].held, minted')
    BY <1>3, GenuineGrows DEF OriginInv, OriginFrame
  <1>9. OriginFrame(F(s), minted', owner)
    BY <1>5, <1>6, <1>7, <1>8, FrameTypes
    DEF OriginInv, IssueMint, At, FrameRecord, OriginFrame, Activating, InActivation, SyncLabels, ActivateLabels, Callers
  <1>. QED
    BY <1>1, <1>2, <1>3, <1>4, <1>9, OriginStep DEF OriginInv, Extends

(* Truncating a file leaves nothing in it, and a write leaves that or the     *)
(* list of the worker.                                                        *)
LEMMA WritesKeepOrigin ==
    ASSUME TypeOK, OriginInv, NEW w \in Worker,
           \/ OpenRegistry(w) \/ FlushRegistry(w) \/ OpenEnrollments(w) \/ FlushEnrollments(w)
           \/ OpenCertificates(w) \/ FlushCertificates(w)
    PROVE  OriginInv'
  <1>1. frame[w] \in FrameRecord /\ OriginFrame(frame[w], minted, owner)
    BY FrameTypes DEF OriginInv
  <1>2. UNCHANGED <<minted, owner>>
    BY DEF OpenRegistry, FlushRegistry, OpenEnrollments, FlushEnrollments, OpenCertificates,
           FlushCertificates
  <1>3. GenuineIn(certificates', minted) /\ ProvenIn(enrollments', owner)
    BY <1>1, NothingGenuine
    DEF OpenRegistry, FlushRegistry, OpenEnrollments, FlushEnrollments, OpenCertificates,
        FlushCertificates, Written, OriginInv, OriginFrame
  <1>4. ASSUME NEW f, Become(w, f), OriginFrame(f, minted, owner) PROVE OriginInv'
    BY <1>2, <1>3, <1>4, OriginStep DEF Extends
  <1>5. CASE OpenRegistry(w) \/ FlushRegistry(w)
    <2>1. PICK l : (Goto(w, l) /\ l = "revokeFlushR") \/ (Resume(w, l) /\ l = frame[w].then)
      BY <1>5 DEF OpenRegistry, FlushRegistry
    <2>2. /\ frame[w].then \in Callers \ {"activateCheck"}
          /\ l \in Callers \ {"activateCheck"} \/ l = "revokeFlushR"
      BY <1>1, <1>5, <2>1
      DEF OriginFrame, InActivation, SyncLabels, ActivateLabels, OpenRegistry, FlushRegistry, At
    <2>3. ~Activating(l, frame[w].then) /\ InActivation(l, frame[w].then) /\ l # "issueMint"
      BY <2>2 DEF Activating, InActivation, SyncLabels, ActivateLabels, Callers
    <2>. QED
      BY <1>4, <2>1, <2>3, OriginGoto
  <1>6. CASE OpenEnrollments(w) \/ OpenCertificates(w)
    <2> DEFINE l == Opened(frame[w].pc)
    <2>1. /\ Goto(w, l) /\ l # "idle"
          /\ l \notin {"activateCheck", "activateEmails", "issueMint"}
          /\ (l \in SyncLabels <=> frame[w].pc \in SyncLabels)
          /\ (l \in ActivateLabels <=> frame[w].pc \in ActivateLabels)
      BY <1>6 DEF OpenEnrollments, OpenCertificates, Opened, SyncLabels, ActivateLabels
    <2> HIDE DEF l
    <2>2. Activating(l, frame[w].then) => Activating(frame[w].pc, frame[w].then)
      BY <2>1 DEF Activating
    <2>3. InActivation(l, frame[w].then)
      BY <1>1, <2>1 DEF OriginFrame, InActivation
    <2>. QED
      BY <1>4, <2>1, <2>2, <2>3, OriginGoto
  <1>7. CASE FlushEnrollments(w)
    <2> DEFINE l == IF At(w, "issueFlushE") THEN "issueOpenK" ELSE frame[w].then
    <2>1. Resume(w, l)
      BY <1>7 DEF FlushEnrollments
    <2>2. /\ frame[w].pc \in {"enrollFlush", "issueFlushE", "syncFlushE"}
          /\ frame[w].then \in Callers
          /\ frame[w].then = "activateCheck" => frame[w].pc = "syncFlushE"
      BY <1>1, <1>7 DEF FlushEnrollments, OriginFrame, InActivation, SyncLabels, ActivateLabels
    <2>3. Activating(l, frame[w].then) => Activating(frame[w].pc, frame[w].then)
      BY <2>2 DEF Activating, SyncLabels, Callers, At
    <2>4. InActivation(l, frame[w].then) /\ l # "issueMint"
      BY <2>2 DEF InActivation, ActivateLabels, Callers, At
    <2> HIDE DEF l
    <2>. QED
      BY <1>4, <2>1, <2>3, <2>4, OriginGoto
  <1>8. CASE FlushCertificates(w)
    <2> DEFINE l == AfterCertificates(frame[w])
               t == IF At(w, "revokeFlushK") THEN "idle" ELSE frame[w].then
               f == [frame[w] EXCEPT !.pc = l, !.snapK = NoCertificates, !.then = t]
    <2>1. frame[w].pc \in {"issueFlushK", "activateFlushK", "revokeFlushK", "syncFlushK"}
      BY <1>8 DEF FlushCertificates
    <2>2. Return(w) \/ (l # "idle" /\ Become(w, f))
      BY <1>8 DEF FlushCertificates
    <2>3. CASE Return(w)
      BY <1>4, <2>3, NothingGenuine DEF Return
    <2>4. CASE l # "idle" /\ Become(w, f)
      <3>1. \/ l = "syncReadE" /\ t = frame[w].then /\ frame[w].pc = "syncFlushK"
            \/ l = "syncReadK" /\ t = "idle"
            \/ l = "activateRead" /\ t = frame[w].then /\ frame[w].pc = "issueFlushK"
        BY <2>1, <2>4 DEF AfterCertificates, At
      <3> HIDE DEF l, t
      <3>2. /\ InActivation(l, t)
            /\ Activating(l, t) => Activating(frame[w].pc, frame[w].then)
            /\ l # "issueMint"
        BY <1>1, <3>1
        DEF OriginFrame, InActivation, Activating, SyncLabels, ActivateLabels, Callers
      <3>3. OriginFrame(f, minted, owner)
        BY <1>1, <3>2, NothingGenuine DEF OriginFrame, FrameRecord
      <3>. QED
        BY <1>4, <2>4, <3>3
    <2>. QED
      BY <2>2, <2>3, <2>4
  <1>. QED
    BY <1>5, <1>6, <1>7, <1>8

LEMMA StepKeepsOrigin == TypeOK /\ OriginInv /\ [Next]_vars => OriginInv'
  <1> SUFFICES ASSUME TypeOK, OriginInv, [Next]_vars PROVE OriginInv'
    OBVIOUS
  <1>1. ASSUME NEW w \in Worker, Start(w) PROVE OriginInv'
    BY <1>1, StartKeepsOrigin
  <1>2. ASSUME NEW w \in Worker, Handle(w) PROVE OriginInv'
    BY <1>2, ReadsKeepOrigin, MintKeepsOrigin, WritesKeepOrigin DEF Handle
  <1>3. CASE Lapse \/ UNCHANGED vars
    BY <1>3 DEF Lapse, vars, stores, OriginInv
  <1>4. CASE Crash
    BY <1>4, NothingGenuine DEF Crash, stores, OriginInv
  <1>. QED
    BY <1>1, <1>2, <1>3, <1>4 DEF Next

(* Every record of certificates.json was minted for the enrollment it names,  *)
(* and that enrollment, unless a write in progress or cut short has removed   *)
(* it, proved possession of its key: however the handlers overlap and         *)
(* whichever stale list they write back, no record is made up                 *)
(* (certificate_lifecycle_service.py:128-143, 146-188, 220-282).              *)
THEOREM RecordsHaveProof == Spec => []IssuedOnProof
  <1>1. TypeOK /\ OriginInv => IssuedOnProof
    <2> SUFFICES ASSUME TypeOK, OriginInv, NEW s \in Present(certificates)
                 PROVE  /\ minted[s] = certificates.rec[s].enr
                        /\ enrollments[certificates.rec[s].enr].status # "absent"
                              => enrollments[certificates.rec[s].enr].proven
      BY DEF IssuedOnProof
    <2>1. s \in AnySerial /\ minted[s] # None /\ certificates.rec[s].enr = minted[s]
      BY DEF Present, OriginInv, GenuineIn
    <2>2. minted[s] \in AnyEnrollment
      BY <2>1 DEF TypeOK
    <2>. QED
      BY <2>1, <2>2 DEF OriginInv, ProvenIn
  <1>. QED
    BY <1>1, InitType, StepType, OriginInit, StepKeepsOrigin, PTL DEF Spec

(* The certificate my-active offers for an address was minted for an          *)
(* enrollment drawn for that address, or its enrollment is no longer on file  *)
(* and the lookup falls back to Alice's address: no overlapping activation or *)
(* stale list hands one user the certificate of another                       *)
(* (certificate_lifecycle_service.py:332-335, 392-401).                       *)
THEOREM ActiveIsOwner == Spec => []ActiveIsOwn
  <1>1. TypeOK /\ OriginInv => ActiveIsOwn
    <2> SUFFICES ASSUME TypeOK, OriginInv, NEW em \in Email, NEW s \in AnySerial, IsActive(s, em)
                 PROVE  owner[minted[s]] = em \/ enrollments[minted[s]].status = "absent"
      BY DEF ActiveIsOwn
    <2>1. /\ certificates.rec[s].status = "active"
          /\ EmailFromRecord(certificates.rec[s], enrollments) = em
      BY DEF IsActive, ActiveCandidates
    <2>2. minted[s] # None /\ certificates.rec[s].enr = minted[s]
      BY <2>1 DEF OriginInv, GenuineIn, Has
    <2>3. minted[s] \in AnyEnrollment
      BY <2>2 DEF TypeOK
    <2>. QED
      BY <2>1, <2>2, <2>3 DEF OriginInv, ProvenIn, EmailFromRecord
  <1>. QED
    BY <1>1, InitType, StepType, OriginInit, StepKeepsOrigin, PTL DEF Spec
=============================================================================
