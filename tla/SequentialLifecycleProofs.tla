--------------------- MODULE SequentialLifecycleProofs ---------------------
(* What CertificateLifecycle promises clients that wait for each answer, for  *)
(* every value of its constants.                                              *)
EXTENDS CertificateLifecycleProofs

(* Clients that wait for each answer: one handler runs at a time, and every   *)
(* other worker has let go of its copies.                                     *)
AloneInv ==
    /\ \A w \in Worker : At(w, "idle") => frame[w] = IdleFrame
    /\ \A v, w \in Worker : v = w \/ frame[v] = IdleFrame \/ frame[w] = IdleFrame

(* One certificate per enrollment.  An enrollment is pending only as long as  *)
(* no list has a record of a certificate for it, in the files and in every    *)
(* copy that will be written to one of them; the exception is the handler     *)
(* that has signed the certificate and not yet written the enrollment.        *)
Inj(K) ==
    \A s, t \in AnySerial : Has(K, s) /\ Has(K, t) /\ K.rec[s].enr = K.rec[t].enr => s = t
Sep(E, K) ==
    \A e \in AnyEnrollment, s \in AnySerial :
        Has(K, s) /\ K.rec[s].enr = e => E[e].status # "pending"
DemoDone(E) == E[DemoEnrollment].status # "pending"

OneFrame(f, E, K) ==
    /\ f.enr # DemoEnrollment /\ DemoDone(f.snapE)
    /\ Inj(f.snapK) /\ Inj(f.held)
    /\ Sep(f.snapE, K) /\ Sep(f.snapE, f.snapK) /\ Sep(f.snapE, f.held)
    /\ Sep(E, f.held) /\ (f.pc # "issueOpenE" => Sep(E, f.snapK))

OneInv ==
    /\ Inj(certificates) /\ Sep(enrollments, certificates) /\ DemoDone(enrollments)
    /\ \A s \in AnySerial : minted[s] # None => owner[minted[s]] # None
    /\ \A s \in AnySerial : minted[s] = DemoEnrollment => s = DemoSerial
    /\ \A w \in Worker : OneFrame(frame[w], enrollments, certificates)

(* What every step of a worker has in common: a request is taken by a free    *)
(* worker, a handler is not idle, and either changes no other worker; a       *)
(* worker that becomes idle has let go of its copies.                         *)
Moves(w) ==
    /\ \A v \in Worker \ {w} : frame'[v] = frame[v]
    /\ frame'[w].pc = "idle" => frame'[w] = IdleFrame

LEMMA BecomeMoves ==
    ASSUME TypeOK, NEW w \in Worker, NEW f, Become(w, f), f.pc # "idle" \/ f = IdleFrame
    PROVE  Moves(w)
  BY DEF TypeOK, Become, Moves

LEMMA CreateEnrollmentMoves ==
    ASSUME TypeOK, NEW w \in Worker, NEW em, NEW g, NEW a, NEW l, CreateEnrollment(w, em, g, a, l)
    PROVE  Moves(w)
  <1> DEFINE F(e) == [IdleFrame EXCEPT
               !.pc = "enrollOpen", !.then = l, !.enr = e, !.activate = a,
               !.snapE = [enrollments EXCEPT ![e] =
                   [status |-> "pending", email |-> em, serial |-> None, proven |-> g]]]
  <1>1. \E e : Become(w, F(e))
    BY DEF CreateEnrollment
  <1>2. \A e : F(e).pc = "enrollOpen"
    BY DEF IdleFrame
  <1> HIDE DEF F
  <1>. QED
    BY <1>1, <1>2, BecomeMoves

LEMMA StartShape ==
    ASSUME TypeOK, NEW w \in Worker, Start(w)
    PROVE  Free(w) /\ Moves(w)
  <1>1. CASE StartEnroll(w) \/ StartEnrollDemo(w)
    <2>1. Free(w) /\ \E em, g, a, l : CreateEnrollment(w, em, g, a, l)
      BY <1>1 DEF StartEnroll, StartEnrollDemo
    <2>. QED
      BY <2>1, CreateEnrollmentMoves
  <1>2. CASE StartIssue(w)
    <2>1. PICK e, a : Become(w, [IdleFrame EXCEPT !.pc = "issueRead", !.enr = e, !.activate = a])
      BY <1>2 DEF StartIssue
    <2>2. [IdleFrame EXCEPT !.pc = "issueRead", !.enr = e, !.activate = a].pc = "issueRead"
      BY DEF IdleFrame
    <2>. QED
      BY <1>2, <2>1, <2>2, BecomeMoves DEF StartIssue
  <1>3. ASSUME NEW s, NEW l, l # "idle",
               Become(w, [IdleFrame EXCEPT !.pc = l, !.serial = s]) \/ Become(w, [IdleFrame EXCEPT !.pc = l])
        PROVE  Moves(w)
    <2>1. [IdleFrame EXCEPT !.pc = l, !.serial = s].pc = l /\ [IdleFrame EXCEPT !.pc = l].pc = l
      BY DEF IdleFrame
    <2>. QED
      BY <1>3, <2>1, BecomeMoves
  <1>4. CASE StartActivate(w) \/ StartRevoke(w) \/ StartRegistryRevoke(w) \/ StartSync(w)
    BY <1>3, <1>4 DEF StartActivate, StartRevoke, StartRegistryRevoke, StartSync
  <1>. QED
    BY <1>1, <1>2, <1>4 DEF Start

(* A handler that goes on with a frame of its own.                            *)
LEMMA GotoMoves ==
    ASSUME TypeOK, NEW w \in Worker, NEW l,
           (Goto(w, l) /\ l # "idle") \/ Continue(w, l) \/ Resume(w, l) \/ Return(w)
    PROVE  Moves(w)
  <1> DEFINE g == [frame[w] EXCEPT !.pc = l]
             Kept(k) == [frame[w] EXCEPT !.pc = l, !.snapR = {}, !.snapE = NoEnrollments, !.snapK = k]
  <1>1. g.pc = l /\ \A k : Kept(k).pc = l
    BY FrameTypes DEF FrameRecord
  <1>2. \/ Become(w, IdleFrame)
        \/ l # "idle" /\ (Become(w, g) \/ \E k \in {frame[w].snapK, NoCertificates} : Become(w, Kept(k)))
    BY DEF Goto, Continue, Resume, Return
  <1> HIDE DEF g, Kept
  <1>. QED
    BY <1>1, <1>2, BecomeMoves

LEMMA HandleShape ==
    ASSUME TypeOK, NEW w \in Worker, Handle(w)
    PROVE  ~At(w, "idle") /\ Moves(w)
  <1>1. frame[w] \in FrameRecord
    BY FrameTypes
  <1>2. CASE IssueRefused(w) \/ IssueExisting(w) \/ ActivateCheck(w) \/ FlushRegistry(w) \/ FlushEnrollments(w)
    BY <1>2, GotoMoves DEF IssueRefused, IssueExisting, ActivateCheck, FlushRegistry, FlushEnrollments, At
  <1>3. CASE OpenRegistry(w) \/ OpenEnrollments(w) \/ OpenCertificates(w)
    BY <1>3, GotoMoves DEF OpenRegistry, OpenEnrollments, OpenCertificates, Opened, At
  <1>4. CASE IssuePending(w)
    <2>1. [frame[w] EXCEPT !.pc = "issueMint", !.snapE = enrollments].pc = "issueMint"
      BY <1>1 DEF FrameRecord
    <2>. QED
      BY <1>4, <2>1, BecomeMoves DEF IssuePending, At
  <1>5. CASE IssueAgain(w)
    <2> DEFINE f == [frame[w] EXCEPT !.pc = "issueExisting", !.serial = enrollments[frame[w].enr].serial]
    <2>1. f.pc = "issueExisting"
      BY <1>1 DEF FrameRecord
    <2>. QED
      BY <1>5, <2>1, BecomeMoves DEF IssueAgain, At
  <1>6. CASE IssueMint(w)
    <2> DEFINE F(s) == [frame[w] EXCEPT
               !.pc = "issueOpenE", !.serial = s,
               !.snapE[frame[w].enr].status = "issued",
               !.snapE[frame[w].enr].serial = s,
               !.snapK = Put(certificates, s, IssuedRecord(frame[w].enr))]
    <2>1. \A s : F(s).pc = "issueOpenE"
      BY <1>1 DEF FrameRecord
    <2>2. At(w, "issueMint") /\ \E s : Become(w, F(s))
      BY <1>6 DEF IssueMint
    <2> HIDE DEF F
    <2>. QED
      BY <2>1, <2>2, BecomeMoves DEF At
  <1>7. ASSUME NEW l, l # "idle", NEW K, Become(w, [frame[w] EXCEPT !.pc = l, !.snapK = K])
        PROVE  Moves(w)
    <2>1. [frame[w] EXCEPT !.pc = l, !.snapK = K].pc = l
      BY <1>1 DEF FrameRecord
    <2>. QED
      BY <1>7, <2>1, BecomeMoves
  <1>8. CASE SyncReadK(w) \/ SyncReadR(w)
    BY <1>7, <1>8, GotoMoves DEF SyncReadK, SyncReadR, At
  <1>9. CASE SyncReadE(w)
    <2> DEFINE f == [frame[w] EXCEPT !.pc = "syncOpenE",
                        !.snapE = [enrollments EXCEPT ![DemoEnrollment] = DemoEnrollmentRecord]]
    <2>1. f.pc = "syncOpenE"
      BY <1>1 DEF FrameRecord
    <2>. QED
      BY <1>9, <2>1, BecomeMoves DEF SyncReadE, At
  <1>10. CASE ActivateRead(w)
    <2> DEFINE f == [frame[w] EXCEPT !.pc = "syncReadK", !.then = "activateCheck", !.held = certificates]
    <2>1. f.pc = "syncReadK"
      BY <1>1 DEF FrameRecord
    <2>. QED
      BY <1>10, <2>1, BecomeMoves, GotoMoves DEF ActivateRead, At
  <1>11. CASE ActivateEmails(w)
    <2> DEFINE f == [frame[w] EXCEPT !.pc = "activateOpenK", !.held = NoCertificates,
                      !.snapK = Activated(frame[w].held, frame[w].serial, enrollments)]
    <2>1. f.pc = "activateOpenK"
      BY <1>1 DEF FrameRecord
    <2>. QED
      BY <1>11, <2>1, BecomeMoves DEF ActivateEmails, At
  <1>12. CASE RevokeRead(w)
    <2> DEFINE f == [frame[w] EXCEPT !.pc = "revokeReadR", !.then = "revokeOpenK",
                        !.snapK = SetStatus(certificates, frame[w].serial, "revoked")]
    <2>1. f.pc = "revokeReadR"
      BY <1>1 DEF FrameRecord
    <2>. QED
      BY <1>12, <2>1, BecomeMoves, GotoMoves DEF RevokeRead, At
  <1>13. CASE RevokeReadR(w)
    <2> DEFINE f == [frame[w] EXCEPT !.pc = "revokeOpenR", !.snapR = registry.serials \union {frame[w].serial}]
    <2>1. f.pc = "revokeOpenR"
      BY <1>1 DEF FrameRecord
    <2>. QED
      BY <1>13, <2>1, BecomeMoves, GotoMoves DEF RevokeReadR, At
  <1>14. CASE FlushCertificates(w)
    <2> DEFINE l == AfterCertificates(frame[w])
               F(t) == [frame[w] EXCEPT !.pc = l, !.snapK = NoCertificates, !.then = t]
    <2>1. Return(w) \/ \E t : l # "idle" /\ Become(w, F(t))
      BY <1>14 DEF FlushCertificates
    <2>2. \A t : F(t).pc = l
      BY <1>1 DEF FrameRecord
    <2> HIDE DEF l, F
    <2>3. Moves(w)
      BY <2>1, <2>2, BecomeMoves, GotoMoves
    <2>. QED
      BY <1>14, <2>3 DEF FlushCertificates, At
  <1>. QED
    BY <1>2, <1>3, <1>4, <1>5, <1>6, <1>8, <1>9, <1>10, <1>11, <1>12, <1>13, <1>14 DEF Handle

LEMMA AloneInit == Init => AloneInv
  BY DEF Init, AloneInv

(* The worker of a step is the only one with a frame of its own.              *)
LEMMA OnlyOne ==
    ASSUME Sequential = TRUE, AloneInv, NEW w \in Worker, ~At(w, "idle") \/ Free(w)
    PROVE  \A v \in Worker \ {w} : frame[v] = IdleFrame
  <1>1. CASE Free(w)
    BY <1>1 DEF AloneInv, Free
  <1>2. CASE ~At(w, "idle")
    <2>1. frame[w] # IdleFrame
      BY <1>2 DEF At, IdleFrame
    <2>. QED
      BY <2>1 DEF AloneInv
  <1>. QED
    BY <1>1, <1>2

LEMMA AloneStep ==
    ASSUME Sequential = TRUE, AloneInv, NEW w \in Worker, ~At(w, "idle") \/ Free(w), Moves(w)
    PROVE  AloneInv'
  BY OnlyOne DEF AloneInv, At, Moves

LEMMA StepKeepsAlone ==
    Sequential = TRUE /\ TypeOK /\ AloneInv /\ [Next]_vars => AloneInv'
  <1> SUFFICES ASSUME Sequential = TRUE, TypeOK, AloneInv, [Next]_vars PROVE AloneInv'
    OBVIOUS
  <1>1. ASSUME NEW w \in Worker, Start(w) \/ Handle(w) PROVE AloneInv'
    BY <1>1, StartShape, HandleShape, AloneStep
  <1>2. CASE Lapse \/ UNCHANGED vars
    BY <1>2 DEF Lapse, vars, AloneInv, At
  <1>3. CASE Crash
    BY <1>3 DEF Crash, AloneInv, At
  <1>. QED
    BY <1>1, <1>2, <1>3 DEF Next
(* A list with records of the same certificates, under the same enrollments.  *)
Like(K, L) ==
    \A s \in AnySerial : (Has(L, s) <=> Has(K, s)) /\ (Has(L, s) => L.rec[s].enr = K.rec[s].enr)

LEMMA LikeSeparates ==
    ASSUME NEW K, NEW L, Like(K, L)
    PROVE  (Inj(K) => Inj(L)) /\ \A E : Sep(E, K) => Sep(E, L)
  BY DEF Like, Inj, Sep

LEMMA SetStatusLike ==
    ASSUME NEW K \in CertificateList, NEW s \in AnySerial, NEW st, st # "absent"
    PROVE  Like(K, SetStatus(K, s, st))
  <1>1. ASSUME Has(K, s) PROVE Like(K, [K EXCEPT !.rec[s].status = st])
    <2>1. [K EXCEPT !.rec[s].status = st].rec = [K.rec EXCEPT ![s] = [K.rec[s] EXCEPT !.status = st]]
      BY DEF CertificateList
    <2>2. LET r == [K.rec[s] EXCEPT !.status = st] IN r.enr = K.rec[s].enr /\ r.status = st
      BY DEF CertificateList, CertificateRecord
    <2>. QED
      BY <1>1, <2>1, <2>2 DEF Like, Has, CertificateList
  <1>. QED
    BY <1>1 DEF SetStatus, Like

LEMMA ActivatedLike ==
    ASSUME NEW K \in CertificateList, NEW s \in AnySerial, Has(K, s), NEW E
    PROVE  Like(K, Activated(K, s, E))
  <1> DEFINE em == EmailFromRecord(K.rec[s], E)
             R(t) == IF t = s THEN [K.rec[t] EXCEPT !.status = "active"]
                     ELSE IF K.rec[t].status = "active" /\ EmailFromRecord(K.rec[t], E) = em
                          THEN [K.rec[t] EXCEPT !.by = s] ELSE K.rec[t]
  <1>1. Activated(K, s, E).rec = [t \in AnySerial |-> R(t)]
    BY DEF Activated, CertificateList
  <1>2. ASSUME NEW t \in AnySerial
        PROVE  R(t).enr = K.rec[t].enr /\ (R(t).status # "absent" <=> Has(K, t))
    <2>1. K.rec[t] \in CertificateRecord
      BY DEF CertificateList
    <2>. QED
      BY <2>1 DEF CertificateRecord, Has
  <1> HIDE DEF R
  <1>. QED
    BY <1>1, <1>2 DEF Like, Has

(* A record put into a list under an enrollment none of the others names.     *)
LEMMA PutSeparates ==
    ASSUME NEW K \in CertificateList, NEW s \in AnySerial, NEW r,
           \A t \in AnySerial \ {s} : Has(K, t) => K.rec[t].enr # r.enr
    PROVE  /\ Inj(K) => Inj(Put(K, s, r))
           /\ \A E : Sep(E, K) /\ (\A e \in AnyEnrollment : e = r.enr => E[e].status # "pending")
                  => Sep(E, Put(K, s, r))
  <1>1. \A t \in AnySerial : Put(K, s, r).rec[t] = IF t = s THEN r ELSE K.rec[t]
    BY DEF Put, CertificateList
  <1>. QED
    BY <1>1 DEF Inj, Sep, Has

LEMMA NothingSeparates ==
    /\ Inj(NoCertificates) /\ DemoDone(NoEnrollments)
    /\ \A K : Sep(NoEnrollments, K)
    /\ \A E : Sep(E, NoCertificates)
    /\ \A E, K : OneFrame(IdleFrame, E, K)
  BY ConstantsAssumption
  DEF Inj, Sep, DemoDone, OneFrame, NoCertificates, NoEnrollments, AbsentCertificate,
      AbsentEnrollment, Has, IdleFrame, AnyEnrollment

LEMMA OneInit == Init => OneInv
  <1> SUFFICES ASSUME Init PROVE OneInv
    OBVIOUS
  <1>1. ASSUME NEW s \in AnySerial, s # DemoSerial, InitialCertificate(s).status # "absent" \/ InitialCertificate(s).enr # None
        PROVE  \E i \in DOMAIN Preissued :
                  Preissued[i].serial = s /\ InitialCertificate(s).enr = Preissued[i].enr
    <2>1. PreFor(s) # {}
      BY <1>1 DEF InitialCertificate, AbsentCertificate
    <2>2. The(PreFor(s)) \in PreFor(s)
      BY <2>1 DEF The
    <2>. QED
      BY <1>1, <2>1, <2>2 DEF InitialCertificate, IssuedRecord, PreFor
  <1>2. InitialCertificate(DemoSerial).enr = DemoEnrollment
    BY DEF InitialCertificate, DemoRecord
  <1>3. \A i, j \in DOMAIN Preissued : Preissued[i].enr = Preissued[j].enr => i = j
    BY ConstantsAssumption
  <1>4. \A i \in DOMAIN Preissued : Preissued[i].enr # DemoEnrollment /\ Preissued[i].enr \in AnyEnrollment
    BY PreissuedType, ConstantsAssumption DEF AnyEnrollment
  <1>5. ASSUME NEW s \in AnySerial, NEW t \in AnySerial, InitialCertificate(s).enr # None,
               InitialCertificate(s).enr = InitialCertificate(t).enr
        PROVE  s = t
    BY <1>1, <1>2, <1>3, <1>4, <1>5
  <1>6. ASSUME NEW s \in AnySerial, InitialCertificate(s).status # "absent" PROVE InitialCertificate(s).enr # None
    <2>1. None \notin AnyEnrollment /\ DemoEnrollment \in AnyEnrollment
      BY ConstantsAssumption DEF AnyEnrollment
    <2>. QED
      BY <1>1, <1>2, <1>4, <1>6, <2>1
  <1>7. Inj(certificates)
    BY <1>5, <1>6 DEF Init, Inj, Has
  <1>8. \A e \in AnyEnrollment : enrollments[e].status # "pending"
    BY DEF Init, InitialEnrollment, DemoEnrollmentRecord, AbsentEnrollment
  <1>9. Sep(enrollments, certificates) /\ DemoDone(enrollments)
    BY <1>8 DEF Sep, DemoDone, AnyEnrollment
  <1>10. ASSUME NEW s \in AnySerial, minted[s] # None
         PROVE  owner[minted[s]] # None /\ (minted[s] = DemoEnrollment => s = DemoSerial)
    <2>1. minted[s] = InitialCertificate(s).enr
      BY DEF Init
    <2>2. CASE s = DemoSerial
      BY <1>2, <2>1, <2>2, ConstantsAssumption
      DEF Init, InitialEnrollment, DemoEnrollmentRecord, AnyEnrollment
    <2>3. CASE s # DemoSerial
      <3>1. PICK i \in DOMAIN Preissued : minted[s] = Preissued[i].enr
        BY <1>1, <1>10, <2>1, <2>3
      <3>2. PreOf(minted[s]) # {} /\ minted[s] # DemoEnrollment /\ minted[s] \in AnyEnrollment
        BY <1>4, <3>1 DEF PreOf
      <3>3. The(PreOf(minted[s])) \in DOMAIN Preissued
        BY <3>2 DEF The, PreOf
      <3>4. InitialEnrollment(minted[s]).email \in Email /\ InitialEnrollment(minted[s]).status = "issued"
        BY <3>2, <3>3, PreissuedType DEF InitialEnrollment
      <3>. QED
        BY <3>2, <3>4, ConstantsAssumption DEF Init
    <2>. QED
      BY <2>2, <2>3
  <1>11. minted[DemoSerial] # None
    BY ConstantsAssumption DEF Init, InitialCertificate, DemoRecord, AnySerial, AnyEnrollment
  <1>. QED
    BY <1>7, <1>9, <1>10, <1>11, NothingSeparates, ConstantsAssumption DEF Init, OneInv, AnyEnrollment

(* A step of one worker while every other one is idle.                        *)
LEMMA OneStep ==
    ASSUME Sequential = TRUE, TypeOK, AloneInv, OneInv, NEW w \in Worker, ~At(w, "idle") \/ Free(w),
           NEW f, Become(w, f), OneFrame(f, enrollments', certificates'),
           Inj(certificates'), Sep(enrollments', certificates'), DemoDone(enrollments'),
           \A s \in AnySerial : minted'[s] # None => owner'[minted'[s]] # None,
           \A s \in AnySerial : minted'[s] = DemoEnrollment => s = DemoSerial
    PROVE  OneInv'
  <1>1. \A v \in Worker \ {w} : frame[v] = IdleFrame
    BY OnlyOne
  <1>2. frame'[w] = f /\ \A v \in Worker \ {w} : frame'[v] = IdleFrame
    BY <1>1 DEF Become, TypeOK
  <1>. QED
    BY <1>2, NothingSeparates DEF OneInv
LEMMA OneRead ==
    ASSUME Sequential = TRUE, TypeOK, AloneInv, OneInv, NEW w \in Worker, ~At(w, "idle") \/ Free(w),
           NEW f, Become(w, f), OneFrame(f, enrollments, certificates),
           UNCHANGED <<certificates, enrollments, minted, owner>>
    PROVE  OneInv'
  BY OneStep DEF OneInv

(* A worker that goes on with the copies it has, or forgets them.             *)
LEMMA OneGoto ==
    ASSUME TypeOK, NEW w \in Worker, NEW l, NEW E, NEW K,
           OneFrame(frame[w], E, K), Sep(E, frame[w].snapK),
           Goto(w, l) \/ Continue(w, l) \/ Resume(w, l) \/ Return(w)
    PROVE  \E f : Become(w, f) /\ OneFrame(f, E, K)
  <1> DEFINE g == [frame[w] EXCEPT !.pc = l]
             Kept(k) == [frame[w] EXCEPT !.pc = l, !.snapR = {}, !.snapE = NoEnrollments, !.snapK = k]
  <1>1. frame[w] \in FrameRecord
    BY FrameTypes
  <1>2. OneFrame(g, E, K)
    BY <1>1 DEF FrameRecord, OneFrame
  <1>3. \A k \in {frame[w].snapK, NoCertificates} : OneFrame(Kept(k), E, K)
    BY <1>1, NothingSeparates DEF FrameRecord, OneFrame
  <1>4. \/ Become(w, IdleFrame) \/ Become(w, g)
        \/ \E k \in {frame[w].snapK, NoCertificates} : Become(w, Kept(k))
    BY DEF Goto, Continue, Resume, Return
  <1> HIDE DEF g, Kept
  <1>. QED
    BY <1>2, <1>3, <1>4, NothingSeparates

(* A new enrollment has an id no certificate was minted for.                  *)
LEMMA CreateEnrollmentOne ==
    ASSUME Sequential = TRUE, TypeOK, AloneInv, OriginInv, OneInv, NEW w \in Worker,
           ~At(w, "idle") \/ Free(w), NEW em \in Email, NEW g, NEW a, NEW l, CreateEnrollment(w, em, g, a, l)
    PROVE  OneInv'
  <1> DEFINE E(e) == [enrollments EXCEPT ![e] =
                         [status |-> "pending", email |-> em, serial |-> None, proven |-> g]]
             F(e) == [IdleFrame EXCEPT !.pc = "enrollOpen", !.then = l, !.enr = e, !.activate = a,
                                       !.snapE = E(e)]
  <1>1. PICK e \in Enrollment :
            owner[e] = None /\ owner' = [owner EXCEPT ![e] = em] /\ Become(w, F(e))
    BY DEF CreateEnrollment
  <1>2. /\ e \in AnyEnrollment /\ e # DemoEnrollment /\ em # None
        /\ UNCHANGED <<certificates, enrollments, minted>>
    BY ConstantsAssumption DEF CreateEnrollment, AnyEnrollment, stores
  <1>3. \A s \in AnySerial : minted[s] # None => minted[s] \in AnyEnrollment /\ minted[s] # e
    BY <1>1 DEF OneInv, TypeOK
  <1>4. Sep(E(e), certificates)
    BY <1>2, <1>3 DEF OneInv, OriginInv, GenuineIn, Sep, TypeOK
  <1>5. DemoDone(E(e))
    BY <1>2 DEF OneInv, DemoDone, TypeOK, AnyEnrollment
  <1> HIDE DEF E
  <1>6. F(e).enr = e /\ F(e).snapE = E(e) /\ F(e).snapK = NoCertificates /\ F(e).held = NoCertificates
    BY DEF IdleFrame
  <1> HIDE DEF F
  <1>7. OneFrame(F(e), enrollments, certificates)
    BY <1>2, <1>4, <1>5, <1>6, NothingSeparates DEF OneFrame
  <1>8. \A s \in AnySerial : minted'[s] # None => owner'[minted'[s]] # None
    BY <1>1, <1>2, <1>3 DEF OneInv, TypeOK
  <1>9. F(e) = F(e) /\ Become(w, F(e)) /\ OneFrame(F(e), enrollments', certificates')
    BY <1>1, <1>2, <1>7
  <1>. QED
    BY <1>2, <1>8, <1>9, OneStep DEF OneInv

LEMMA StartKeepsOne ==
    ASSUME Sequential = TRUE, TypeOK, AloneInv, OriginInv, OneInv, NEW w \in Worker, Start(w)
    PROVE  OneInv'
  <1>1. Free(w)
    BY StartShape
  <1>2. CASE StartEnroll(w)
    BY <1>1, <1>2, CreateEnrollmentOne DEF StartEnroll
  <1>3. CASE StartEnrollDemo(w)
    BY <1>1, <1>3, CreateEnrollmentOne, ConstantsAssumption DEF StartEnrollDemo
  <1>4. CASE StartIssue(w) \/ StartActivate(w) \/ StartRevoke(w) \/ StartRegistryRevoke(w) \/ StartSync(w)
    <2>1. UNCHANGED <<certificates, enrollments, minted, owner>>
      BY <1>4 DEF StartIssue, StartActivate, StartRevoke, StartRegistryRevoke, StartSync, stores
    <2>2. ASSUME NEW l
          PROVE  /\ \A e \in Enrollment : \A a :
                        OneFrame([IdleFrame EXCEPT !.pc = l, !.enr = e, !.activate = a], enrollments, certificates)
                 /\ \A s : OneFrame([IdleFrame EXCEPT !.pc = l, !.serial = s], enrollments, certificates)
                 /\ OneFrame([IdleFrame EXCEPT !.pc = l], enrollments, certificates)
      BY NothingSeparates, ConstantsAssumption DEF OneFrame, IdleFrame, AnyEnrollment
    <2>3. ASSUME NEW f, Become(w, f), OneFrame(f, enrollments, certificates) PROVE OneInv'
      BY <1>1, <2>1, <2>3, OneRead
    <2>4. CASE StartIssue(w)
      BY <2>2, <2>3, <2>4 DEF StartIssue
    <2>5. CASE StartActivate(w)
      BY <2>2, <2>3, <2>5 DEF StartActivate
    <2>6. CASE StartRevoke(w) \/ StartRegistryRevoke(w)
      BY <2>2, <2>3, <2>6 DEF StartRevoke, StartRegistryRevoke
    <2>7. CASE StartSync(w)
      BY <2>2, <2>3, <2>7 DEF StartSync
    <2>. QED
      BY <1>4, <2>4, <2>5, <2>6, <2>7
  <1>. QED
    BY <1>2, <1>3, <1>4 DEF Start

LEMMA ReadsKeepOne ==
    ASSUME Sequential = TRUE, TypeOK, AloneInv, OriginInv, OneInv, NEW w \in Worker,
           \/ IssueRefused(w) \/ IssuePending(w) \/ IssueAgain(w) \/ IssueExisting(w)
           \/ ActivateRead(w) \/ ActivateCheck(w) \/ ActivateEmails(w)
           \/ RevokeRead(w) \/ RevokeReadR(w) \/ SyncReadK(w) \/ SyncReadR(w) \/ SyncReadE(w)
    PROVE  OneInv'
  <1>1. UNCHANGED <<certificates, enrollments, minted, owner>>
    BY DEF IssueRefused, IssuePending, IssueAgain, IssueExisting, ActivateRead, ActivateCheck,
           ActivateEmails, RevokeRead, RevokeReadR, SyncReadK, SyncReadR, SyncReadE, stores
  <1>2. Handle(w)
    BY DEF Handle
  <1>3. /\ frame[w] \in FrameRecord /\ OneFrame(frame[w], enrollments, certificates)
        /\ Addressed(frame[w]) /\ certificates \in CertificateList
        /\ Inj(certificates) /\ Sep(enrollments, certificates) /\ DemoDone(enrollments)
    BY FrameTypes DEF OneInv, TypeOK
  <1>4. Sep(enrollments, frame[w].snapK)
    BY <1>3 DEF OneFrame, IssueRefused, IssuePending, IssueAgain, IssueExisting, ActivateRead,
           ActivateCheck, ActivateEmails, RevokeRead, RevokeReadR, SyncReadK, SyncReadR, SyncReadE, At
  <1>5. ASSUME NEW f, Become(w, f), OneFrame(f, enrollments, certificates) PROVE OneInv'
    BY <1>1, <1>2, <1>5, HandleShape, OneRead
  <1>6. ASSUME NEW l, Continue(w, l) \/ Return(w) PROVE OneInv'
    BY <1>3, <1>4, <1>5, <1>6, OneGoto
  <1>7. CASE IssueRefused(w) \/ IssueExisting(w) \/ ActivateCheck(w)
    BY <1>6, <1>7 DEF IssueRefused, IssueExisting, ActivateCheck
  <1>8. CASE IssuePending(w)
    <2> DEFINE f == [frame[w] EXCEPT !.pc = "issueMint", !.snapE = enrollments]
    <2>1. OneFrame(f, enrollments, certificates)
      BY <1>3, <1>4 DEF FrameRecord, OneFrame
    <2>. QED
      BY <1>5, <1>8, <2>1 DEF IssuePending
  <1>9. CASE IssueAgain(w)
    <2> DEFINE s == enrollments[frame[w].enr].serial
               f == [frame[w] EXCEPT !.pc = "issueExisting", !.serial = s]
    <2>1. OneFrame(f, enrollments, certificates)
      BY <1>3, <1>4 DEF FrameRecord, OneFrame
    <2>. QED
      BY <1>5, <1>9, <2>1 DEF IssueAgain
  <1>10. CASE ActivateRead(w)
    <2> DEFINE f == [frame[w] EXCEPT !.pc = "syncReadK", !.then = "activateCheck", !.held = certificates]
    <2>1. Sep(frame[w].snapE, certificates) /\ OneFrame(f, enrollments, certificates)
      BY <1>3, <1>4 DEF FrameRecord, OneFrame
    <2>. QED
      BY <1>5, <1>6, <1>10, <2>1 DEF ActivateRead
  <1>11. ASSUME NEW K, NEW L, Like(K, L), Inj(K), Sep(enrollments, K), Sep(frame[w].snapE, K),
                NEW l, NEW t, NEW h \in {frame[w].held, NoCertificates},
                \/ Become(w, [frame[w] EXCEPT !.pc = l, !.held = h, !.snapK = L])
                \/ Become(w, [frame[w] EXCEPT !.pc = l, !.then = t, !.snapK = L])
                \/ Become(w, [frame[w] EXCEPT !.pc = l, !.snapK = L])
         PROVE  OneInv'
    <2>1. Inj(L) /\ Sep(enrollments, L) /\ Sep(frame[w].snapE, L)
      BY <1>11, LikeSeparates
    <2>2. /\ OneFrame([frame[w] EXCEPT !.pc = l, !.held = h, !.snapK = L], enrollments, certificates)
          /\ OneFrame([frame[w] EXCEPT !.pc = l, !.then = t, !.snapK = L], enrollments, certificates)
          /\ OneFrame([frame[w] EXCEPT !.pc = l, !.snapK = L], enrollments, certificates)
      BY <1>3, <2>1, NothingSeparates DEF FrameRecord, OneFrame
    <2>. QED
      BY <1>5, <1>11, <2>2
  <1>12. CASE ActivateEmails(w)
    <2>1. frame[w].serial \in AnySerial /\ Has(frame[w].held, frame[w].serial)
      BY <1>3, <1>12, FrameTypes
      DEF ActivateEmails, At, Addressed, ForSerial, OriginInv, OriginFrame, Activating
    <2>2. Like(frame[w].held, Activated(frame[w].held, frame[w].serial, enrollments))
      BY <2>1, FrameTypes, ActivatedLike
    <2>. QED
      BY <1>3, <1>11, <1>12, <2>2 DEF ActivateEmails, OneFrame
  <1>13. CASE RevokeRead(w)
    <2>1. frame[w].serial \in AnySerial
      BY <1>3, <1>13, FrameTypes DEF RevokeRead, At, Addressed, ForSerial
    <2>2. Like(certificates, SetStatus(certificates, frame[w].serial, "revoked"))
      BY <1>3, <2>1, SetStatusLike
    <2>. QED
      BY <1>3, <1>6, <1>11, <1>13, <2>2 DEF RevokeRead, OneFrame
  <1>14. CASE RevokeReadR(w)
    <2> DEFINE R == registry.serials \union {frame[w].serial}
               f == [frame[w] EXCEPT !.pc = "revokeOpenR", !.snapR = R]
    <2> HIDE DEF R
    <2>1. OneFrame(f, enrollments, certificates)
      BY <1>3, <1>4 DEF FrameRecord, OneFrame
    <2>. QED
      BY <1>5, <1>6, <1>14, <2>1 DEF RevokeReadR, R
  <1>15. CASE SyncReadK(w)
    <2> DEFINE r == DemoRecord(DemoStatus(certificates))
               L == Put(certificates, DemoSerial, r)
    <2>1. \A t \in AnySerial \ {DemoSerial} : Has(certificates, t) => certificates.rec[t].enr # r.enr
      BY DEF DemoRecord, OneInv, OriginInv, GenuineIn
    <2>2. DemoSerial \in AnySerial /\ r.enr = DemoEnrollment
      BY DEF AnySerial, DemoRecord
    <2> HIDE DEF r
    <2>3. Inj(L) /\ Sep(enrollments, L) /\ Sep(frame[w].snapE, L)
      BY <1>3, <2>1, <2>2, PutSeparates DEF OneFrame, DemoDone
    <2> HIDE DEF L
    <2>. QED
      BY <1>11, <1>15, <2>3 DEF SyncReadK, L, r, Like
  <1>16. CASE SyncReadR(w)
    <2> DEFINE L == IF DemoSerial \in registry.serials
                    THEN SetStatus(frame[w].snapK, DemoSerial, "revoked") ELSE frame[w].snapK
    <2>1. Like(frame[w].snapK, L)
      <3>1. DemoSerial \in AnySerial /\ frame[w].snapK \in CertificateList
        BY FrameTypes DEF AnySerial
      <3>2. Like(frame[w].snapK, SetStatus(frame[w].snapK, DemoSerial, "revoked"))
        BY <3>1, SetStatusLike
      <3>. QED
        BY <3>2 DEF Like
    <2>2. Return(w) \/ Become(w, [frame[w] EXCEPT !.pc = "syncOpenK", !.snapK = L])
      BY <1>16 DEF SyncReadR
    <2> HIDE DEF L
    <2>. QED
      BY <1>3, <1>4, <1>6, <1>11, <2>1, <2>2 DEF OneFrame
  <1>17. CASE SyncReadE(w)
    <2> DEFINE E == [enrollments EXCEPT ![DemoEnrollment] = DemoEnrollmentRecord]
               f == [frame[w] EXCEPT !.pc = "syncOpenE", !.snapE = E]
    <2>1. \A e \in AnyEnrollment : E[e].status = "pending" => enrollments[e].status = "pending"
      BY DEF TypeOK, DemoEnrollmentRecord
    <2>2. DemoDone(E) /\ \A K : Sep(enrollments, K) => Sep(E, K)
      BY <1>3, <2>1 DEF DemoDone, Sep, AnyEnrollment
    <2> HIDE DEF E
    <2>3. OneFrame(f, enrollments, certificates)
      BY <1>3, <1>4, <2>2 DEF FrameRecord, OneFrame
    <2>. QED
      BY <1>5, <1>17, <2>3 DEF SyncReadE, E
  <1>. QED
    BY <1>7, <1>8, <1>9, <1>10, <1>12, <1>13, <1>14, <1>15, <1>16, <1>17
(* The certificate that is signed is for a pending enrollment, which no list  *)
(* has a record for; only the file still says that it is pending.             *)
LEMMA MintKeepsOne ==
    ASSUME Sequential = TRUE, TypeOK, AloneInv, OriginInv, OneInv, NEW w \in Worker, IssueMint(w)
    PROVE  OneInv'
  <1> DEFINE e == frame[w].enr
             F(s) == [frame[w] EXCEPT !.pc = "issueOpenE", !.serial = s,
                          !.snapE[e].status = "issued", !.snapE[e].serial = s,
                          !.snapK = Put(certificates, s, IssuedRecord(e))]
             r == frame[w].snapE[e]
             G(s) == [frame[w].snapE EXCEPT ![e] = [r EXCEPT !.status = "issued", !.serial = s]]
             L(s) == Put(certificates, s, IssuedRecord(e))
  <1>1. PICK s \in Serial : minted[s] = None /\ minted' = [minted EXCEPT ![s] = e] /\ Become(w, F(s))
    BY DEF IssueMint
  <1>2. /\ e \in AnyEnrollment /\ e # None /\ s \in AnySerial
        /\ UNCHANGED <<certificates, enrollments, owner>>
    BY FrameTypes, ConstantsAssumption
    DEF IssueMint, At, Addressed, ForEnrollment, AnySerial, AnyEnrollment, stores
  <1>3. ~At(w, "idle")
    BY HandleShape DEF Handle
  <1>4. OneFrame(frame[w], enrollments, certificates) /\ OriginFrame(frame[w], minted, owner)
    BY DEF OneInv, OriginInv
  <1>5. r.status = "pending" /\ r \in EnrollmentRecord
    BY <1>2, <1>4, FrameTypes DEF IssueMint, At, OriginFrame
  <1>6. \A t \in AnySerial : Has(certificates, t) => certificates.rec[t].enr # e
    BY <1>2, <1>4, <1>5 DEF OneFrame, Sep
  <1>7. G(s)[e].status = "issued" /\ \A x \in AnyEnrollment \ {e} : G(s)[x] = frame[w].snapE[x]
    <2>1. \A q \in EnrollmentRecord : [q EXCEPT !.status = "issued", !.serial = s].status = "issued"
      BY DEF EnrollmentRecord
    <2>. QED
      BY <1>2, <1>5, <2>1, FrameTypes
  <1>8. \A K : Sep(frame[w].snapE, K) => Sep(G(s), K)
    BY <1>2, <1>7 DEF Sep
  <1>9. DemoDone(G(s))
    BY <1>4, <1>7 DEF OneFrame, DemoDone, AnyEnrollment
  <1>10. Inj(L(s)) /\ Sep(G(s), L(s))
    <2>1. IssuedRecord(e).enr = e
      BY DEF IssuedRecord
    <2>. QED
      BY <1>2, <1>4, <1>6, <1>7, <1>8, <2>1, PutSeparates DEF OneInv, OneFrame, TypeOK
  <1>11. F(s) = [frame[w] EXCEPT !.pc = "issueOpenE", !.serial = s, !.snapE = G(s), !.snapK = L(s)]
    <2>1. [frame[w].snapE EXCEPT ![e].status = "issued", ![e].serial = s] = G(s)
      BY <1>2, FrameTypes
    <2>. QED
      BY <2>1, FrameTypes DEF FrameRecord
  <1> HIDE DEF G, F, L
  <1>12. OneFrame(F(s), enrollments, certificates)
    BY <1>4, <1>8, <1>9, <1>10, <1>11, FrameTypes DEF FrameRecord, OneFrame
  <1>13. owner[e] # None
    BY <1>2, <1>4, <1>5, ConstantsAssumption DEF OriginFrame, ProvenIn, EnrollmentRecord
  <1>14. \A t \in AnySerial : minted'[t] # None => owner'[minted'[t]] # None
    BY <1>1, <1>2, <1>13 DEF OneInv, TypeOK
  <1>15. e # DemoEnrollment
    BY <1>4 DEF OneFrame
  <1>16. \A t \in AnySerial : minted'[t] = DemoEnrollment => t = DemoSerial
    BY <1>1, <1>2, <1>15 DEF OneInv, TypeOK
  <1>17. Become(w, F(s)) /\ OneFrame(F(s), enrollments', certificates')
    BY <1>1, <1>2, <1>12
  <1>. QED
    BY <1>2, <1>3, <1>14, <1>16, <1>17, OneStep DEF OneInv

LEMMA WritesKeepOne ==
    ASSUME Sequential = TRUE, TypeOK, AloneInv, OriginInv, OneInv, NEW w \in Worker,
           \/ OpenRegistry(w) \/ FlushRegistry(w) \/ OpenEnrollments(w) \/ FlushEnrollments(w)
           \/ OpenCertificates(w) \/ FlushCertificates(w)
    PROVE  OneInv'
  <1>1. frame[w] \in FrameRecord /\ OneFrame(frame[w], enrollments, certificates)
    BY FrameTypes DEF OneInv
  <1>2. UNCHANGED <<minted, owner>>
    BY DEF OpenRegistry, FlushRegistry, OpenEnrollments, FlushEnrollments, OpenCertificates,
           FlushCertificates
  <1>3. ~At(w, "idle")
    BY HandleShape DEF Handle
  <1>4. /\ enrollments' \in {enrollments, NoEnrollments, frame[w].snapE}
        /\ certificates' \in {certificates, NoCertificates, frame[w].snapK}
        /\ enrollments' = enrollments \/ certificates' = certificates
        /\ frame[w].pc = "issueOpenE" => enrollments' = NoEnrollments /\ certificates' = certificates
    BY DEF OpenRegistry, FlushRegistry, OpenEnrollments, FlushEnrollments, OpenCertificates,
           FlushCertificates, Written, At
  <1>5. /\ Inj(certificates') /\ Sep(enrollments', certificates') /\ DemoDone(enrollments')
        /\ OneFrame(frame[w], enrollments', certificates') /\ Sep(enrollments', frame[w].snapK)
    <2>1. CASE certificates' = certificates
      BY <1>1, <1>4, <2>1, NothingSeparates DEF OneInv, OneFrame
    <2>2. CASE enrollments' = enrollments /\ frame[w].pc # "issueOpenE"
      BY <1>1, <1>4, <2>2, NothingSeparates DEF OneInv, OneFrame
    <2>. QED
      BY <1>4, <2>1, <2>2
  <1>6. ASSUME NEW f, Become(w, f), OneFrame(f, enrollments', certificates') PROVE OneInv'
    BY <1>2, <1>3, <1>5, <1>6, OneStep DEF OneInv
  <1>7. ASSUME NEW l, Goto(w, l) \/ Continue(w, l) \/ Resume(w, l) \/ Return(w) PROVE OneInv'
    BY <1>5, <1>6, <1>7, OneGoto
  <1>8. CASE OpenRegistry(w) \/ FlushRegistry(w) \/ OpenEnrollments(w) \/ FlushEnrollments(w) \/ OpenCertificates(w)
    BY <1>7, <1>8 DEF OpenRegistry, FlushRegistry, OpenEnrollments, FlushEnrollments, OpenCertificates
  <1>9. CASE FlushCertificates(w)
    <2> DEFINE l == AfterCertificates(frame[w])
               t == IF At(w, "revokeFlushK") THEN "idle" ELSE frame[w].then
               f == [frame[w] EXCEPT !.pc = l, !.snapK = NoCertificates, !.then = t]
    <2>1. Return(w) \/ Become(w, f)
      BY <1>9 DEF FlushCertificates
    <2> HIDE DEF l, t
    <2>2. OneFrame(f, enrollments', certificates')
      BY <1>1, <1>5, NothingSeparates DEF OneFrame, FrameRecord
    <2>. QED
      BY <1>6, <1>7, <2>1, <2>2
  <1>. QED
    BY <1>8, <1>9

LEMMA StepKeepsOne ==
    Sequential = TRUE /\ TypeOK /\ AloneInv /\ OriginInv /\ OneInv /\ [Next]_vars => OneInv'
  <1> SUFFICES ASSUME Sequential = TRUE, TypeOK, AloneInv, OriginInv, OneInv, [Next]_vars
               PROVE  OneInv'
    OBVIOUS
  <1>1. ASSUME NEW w \in Worker, Start(w) PROVE OneInv'
    BY <1>1, StartKeepsOne
  <1>2. ASSUME NEW w \in Worker, Handle(w) PROVE OneInv'
    BY <1>2, ReadsKeepOne, MintKeepsOne, WritesKeepOne DEF Handle
  <1>3. CASE Lapse \/ UNCHANGED vars
    BY <1>3 DEF Lapse, vars, stores, OneInv
  <1>4. CASE Crash
    BY <1>4, NothingSeparates DEF Crash, stores, OneInv
  <1>. QED
    BY <1>1, <1>2, <1>3, <1>4 DEF Next

(* Clients that wait for each answer never get a second recorded certificate  *)
(* for an enrollment, however often they ask again and wherever the process   *)
(* dies: the enrollment is marked as issued before the record is written, so  *)
(* a restart finds either a pending enrollment without a record or one that   *)
(* is not issued again (certificate_lifecycle_service.py:220-282).            *)
THEOREM IssuedOnce ==
    ASSUME Sequential = TRUE
    PROVE  Spec => []OneCertificatePerEnrollment
  <1>1. OneInv => OneCertificatePerEnrollment
    BY DEF OneInv, Inj, OneCertificatePerEnrollment, Present
  <1>. QED
    BY <1>1, InitType, StepType, AloneInit, StepKeepsAlone, OriginInit, StepKeepsOrigin,
       OneInit, StepKeepsOne, PTL DEF Spec
-----------------------------------------------------------------------------
(* Between requests the two files agree, as long as no write is cut short.    *)
(*                                                                            *)
(* While a handler is at work, what the files are about to say is partly in   *)
(* its copies: the enrollments it is writing, the list it is writing, and     *)
(* during an issue the list it writes after the enrollments.                  *)
FlushE == {"enrollFlush", "issueFlushE", "syncFlushE"}
FlushK == {"issueFlushK", "activateFlushK", "revokeFlushK", "syncFlushK"}
WritingE == FlushE \union {"enrollOpen", "issueOpenE", "syncOpenE"}
WritingK ==
    FlushK \union {"issueOpenE", "issueFlushE", "issueOpenK", "activateOpenK", "revokeOpenK", "syncOpenK"}
RevokingBoth(f) == f.pc \in {"revokeReadR", "revokeOpenR", "revokeFlushR"} /\ f.then = "revokeOpenK"

NewE(f, E) == IF f.pc \in WritingE THEN f.snapE ELSE E
NewK(f, K) == IF f.pc \in WritingK THEN f.snapK ELSE K

Found(E, K) ==
    /\ \A e \in AnyEnrollment : E[e].status = "issued" =>
          E[e].serial \in AnySerial /\ Has(K, E[e].serial) /\ K.rec[E[e].serial].enr = e
    /\ \A s \in AnySerial : Has(K, s) =>
          K.rec[s].enr \in AnyEnrollment /\ E[K.rec[s].enr].status = "issued" /\ E[K.rec[s].enr].serial = s

(* Nothing that was enrolled is missing, nor the demo enrollment.             *)
Complete(E, o) ==
    /\ E[DemoEnrollment].status = "issued" /\ E[DemoEnrollment].serial = DemoSerial
    /\ \A e \in AnyEnrollment : o[e] # None => E[e].status # "absent"

FoundFrame(f, E, K, o) ==
    /\ Found(NewE(f, E), NewK(f, K)) /\ Complete(NewE(f, E), o)
    /\ f.pc = "syncReadR" \/ RevokingBoth(f) => Found(E, f.snapK)
    /\ Activating(f.pc, f.then) => Found(NewE(f, E), f.held)
    /\ f.pc = "issueMint" => f.snapE = E
    /\ f.then = "revokeOpenK" => RevokingBoth(f) \/ f.pc \in {"revokeOpenK", "revokeFlushK"}
    /\ f.pc \in FlushE => E = NoEnrollments
    /\ f.pc \in FlushK => K = NoCertificates

FoundInv ==
    /\ Quiet => Found(enrollments, certificates) /\ Complete(enrollments, owner)
    /\ \A w \in Worker : ~At(w, "idle") => FoundFrame(frame[w], enrollments, certificates, owner)

LEMMA FoundLike ==
    ASSUME NEW E, NEW K, NEW L, Found(E, K), Like(K, L)
    PROVE  Found(E, L)
  BY DEF Found, Like

(* The demo enrollment, written again as it is.                               *)
LEMMA FoundDemo ==
    ASSUME NEW E \in [AnyEnrollment -> EnrollmentRecord], NEW o, Complete(E, o)
    PROVE  LET D == [E EXCEPT ![DemoEnrollment] = DemoEnrollmentRecord]
           IN  Complete(D, o) /\ \A K : Found(E, K) => Found(D, K)
  <1> DEFINE D == [E EXCEPT ![DemoEnrollment] = DemoEnrollmentRecord]
  <1>1. \A e \in AnyEnrollment : D[e].status = E[e].status /\ D[e].serial = E[e].serial
    BY DEF DemoEnrollmentRecord, Complete, AnyEnrollment
  <1> HIDE DEF D
  <1>2. Complete(D, o) /\ \A K : Found(E, K) => Found(D, K)
    BY <1>1 DEF Complete, Found, AnyEnrollment
  <1>. QED
    BY <1>2 DEF D

(* The demo record, put at the end of the list again.                         *)
LEMMA FoundDemoRecord ==
    ASSUME NEW E, NEW o, Complete(E, o), NEW K \in CertificateList, Found(E, K),
           NEW st \in {"active", "revoked"}
    PROVE  Found(E, Put(K, DemoSerial, DemoRecord(st)))
  <1>1. DemoSerial \in AnySerial /\ DemoEnrollment \in AnyEnrollment
    BY DEF AnySerial, AnyEnrollment
  <1>2. Has(K, DemoSerial) /\ K.rec[DemoSerial].enr = DemoEnrollment
    BY <1>1 DEF Complete, Found
  <1>3. Like(K, Put(K, DemoSerial, DemoRecord(st)))
    BY <1>1, <1>2 DEF Like, Put, Has, DemoRecord, CertificateList
  <1>. QED
    BY <1>3, FoundLike

LEMMA FoundIdle ==
    ASSUME NEW f, NEW E, NEW K, NEW o, f.pc = "idle" \/ f = IdleFrame, FoundFrame(f, E, K, o)
    PROVE  Found(E, K) /\ Complete(E, o)
  BY DEF FoundFrame, NewE, NewK, WritingE, WritingK, FlushE, FlushK, IdleFrame

LEMMA IdleFound ==
    ASSUME NEW E, NEW K, NEW o, Found(E, K), Complete(E, o)
    PROVE  FoundFrame(IdleFrame, E, K, o)
  BY DEF FoundFrame, NewE, NewK, WritingE, WritingK, FlushE, FlushK, IdleFrame, RevokingBoth, Activating

LEMMA FoundNow ==
    ASSUME Sequential = TRUE, AloneInv, FoundInv, NEW w \in Worker, ~At(w, "idle") \/ Free(w)
    PROVE  FoundFrame(frame[w], enrollments, certificates, owner)
  <1>1. CASE Free(w)
    <2>1. Quiet /\ frame[w] = IdleFrame
      BY <1>1 DEF Free, Quiet, AloneInv
    <2>. QED
      BY <2>1, IdleFound DEF FoundInv
  <1>2. CASE ~At(w, "idle")
    BY <1>2 DEF FoundInv
  <1>. QED
    BY <1>1, <1>2

LEMMA FoundInit == Init => FoundInv
  <1> SUFFICES ASSUME Init PROVE FoundInv
    OBVIOUS
  <1>1. /\ \A i, j \in DOMAIN Preissued :
              Preissued[i].enr = Preissued[j].enr \/ Preissued[i].serial = Preissued[j].serial => i = j
        /\ DemoSerial \in AnySerial /\ DemoEnrollment \in AnyEnrollment
        /\ DemoSerial \notin Serial /\ DemoEnrollment \notin Enrollment
    BY ConstantsAssumption DEF AnySerial, AnyEnrollment
  <1>2. ASSUME NEW i \in DOMAIN Preissued
        PROVE  /\ InitialEnrollment(Preissued[i].enr).status = "issued"
               /\ InitialEnrollment(Preissued[i].enr).serial = Preissued[i].serial
               /\ InitialCertificate(Preissued[i].serial).status = "issued"
               /\ InitialCertificate(Preissued[i].serial).enr = Preissued[i].enr
    <2>1. /\ Preissued[i].enr # DemoEnrollment /\ Preissued[i].serial # DemoSerial
          /\ i \in PreOf(Preissued[i].enr) /\ i \in PreFor(Preissued[i].serial)
      BY <1>1, PreissuedType DEF PreOf, PreFor
    <2>2. The(PreOf(Preissued[i].enr)) = i /\ The(PreFor(Preissued[i].serial)) = i
      BY <1>1, <2>1 DEF The, PreOf, PreFor
    <2>. QED
      BY <2>1, <2>2 DEF InitialEnrollment, InitialCertificate, IssuedRecord
  <1>3. InitialEnrollment(DemoEnrollment) = DemoEnrollmentRecord /\ InitialCertificate(DemoSerial) = DemoRecord("active")
    BY DEF InitialEnrollment, InitialCertificate
  <1>4. ASSUME NEW e \in AnyEnrollment, e # DemoEnrollment, InitialEnrollment(e).status = "issued"
        PROVE  \E i \in DOMAIN Preissued : Preissued[i].enr = e
    BY <1>4 DEF InitialEnrollment, AbsentEnrollment, PreOf
  <1>5. ASSUME NEW s \in AnySerial, s # DemoSerial, InitialCertificate(s).status # "absent"
        PROVE  \E i \in DOMAIN Preissued : Preissued[i].serial = s
    BY <1>5 DEF InitialCertificate, AbsentCertificate, PreFor
  <1>6. Found(enrollments, certificates)
    <2>1. ASSUME NEW e \in AnyEnrollment, InitialEnrollment(e).status = "issued"
          PROVE  LET s == InitialEnrollment(e).serial
                 IN  s \in AnySerial /\ InitialCertificate(s).status # "absent" /\ InitialCertificate(s).enr = e
      <3>1. CASE e = DemoEnrollment
        BY <1>1, <1>3, <3>1 DEF DemoEnrollmentRecord, DemoRecord
      <3>2. CASE e # DemoEnrollment
        <4>1. PICK i \in DOMAIN Preissued : Preissued[i].enr = e
          BY <1>4, <2>1, <3>2
        <4>2. Preissued[i].serial \in AnySerial
          BY PreissuedType DEF AnySerial
        <4>. QED
          BY <1>2, <4>1, <4>2
      <3>. QED
        BY <3>1, <3>2
    <2>2. ASSUME NEW s \in AnySerial, InitialCertificate(s).status # "absent"
          PROVE  LET e == InitialCertificate(s).enr
                 IN  e \in AnyEnrollment /\ InitialEnrollment(e).status = "issued" /\ InitialEnrollment(e).serial = s
      <3>1. CASE s = DemoSerial
        BY <1>1, <1>3, <3>1 DEF DemoEnrollmentRecord, DemoRecord
      <3>2. CASE s # DemoSerial
        <4>1. PICK i \in DOMAIN Preissued : Preissued[i].serial = s
          BY <1>5, <2>2, <3>2
        <4>2. Preissued[i].enr \in AnyEnrollment
          BY PreissuedType DEF AnyEnrollment
        <4>. QED
          BY <1>2, <4>1, <4>2
      <3>. QED
        BY <3>1, <3>2
    <2>. QED
      BY <2>1, <2>2 DEF Init, Found, Has
  <1>7. Complete(enrollments, owner)
    BY <1>1, <1>3 DEF Init, Complete, DemoEnrollmentRecord
  <1>. QED
    BY <1>6, <1>7 DEF Init, FoundInv, At, IdleFrame

LEMMA FoundStep ==
    ASSUME TypeOK, Sequential = TRUE, AloneInv, NEW w \in Worker, ~At(w, "idle") \/ Free(w),
           NEW f, Become(w, f), FoundFrame(f, enrollments', certificates', owner')
    PROVE  FoundInv'
  <1>1. frame'[w] = f /\ \A v \in Worker \ {w} : frame'[v].pc = "idle"
    BY OnlyOne DEF Become, TypeOK, IdleFrame
  <1>2. Quiet' => f.pc = "idle"
    BY <1>1 DEF Quiet, At
  <1>. QED
    BY <1>1, <1>2, FoundIdle DEF FoundInv, At
LEMMA FoundRead ==
    ASSUME TypeOK, Sequential = TRUE, AloneInv, NEW w \in Worker, ~At(w, "idle") \/ Free(w),
           NEW f, Become(w, f), FoundFrame(f, enrollments, certificates, owner),
           UNCHANGED <<certificates, enrollments, owner>>
    PROVE  FoundInv'
  BY FoundStep

(* A worker that returns, or goes on, between two writes.                     *)
LEMMA FoundReturn ==
    ASSUME NEW f, NEW E, NEW K, NEW o, FoundFrame(f, E, K, o), f.pc \notin WritingE \union WritingK
    PROVE  FoundFrame(IdleFrame, E, K, o)
  BY IdleFound DEF FoundFrame, NewE, NewK

LEMMA CreateEnrollmentFound ==
    ASSUME Sequential = TRUE, TypeOK, AloneInv, OriginInv, OneInv, FoundInv, NEW w \in Worker,
           ~At(w, "idle") \/ Free(w), frame[w].pc \notin WritingE \union WritingK,
           NEW em \in Email, NEW g, NEW a, NEW l \in {"idle", "issueRead", "caller"},
           CreateEnrollment(w, em, g, a, l)
    PROVE  FoundInv'
  <1> DEFINE E(e) == [enrollments EXCEPT ![e] =
                         [status |-> "pending", email |-> em, serial |-> None, proven |-> g]]
             F(e) == [IdleFrame EXCEPT !.pc = "enrollOpen", !.then = l, !.enr = e, !.activate = a,
                                       !.snapE = E(e)]
  <1>1. PICK e \in Enrollment :
            owner[e] = None /\ owner' = [owner EXCEPT ![e] = em] /\ Become(w, F(e))
    BY DEF CreateEnrollment
  <1>2. /\ e \in AnyEnrollment /\ e # DemoEnrollment
        /\ UNCHANGED <<certificates, enrollments>>
    BY ConstantsAssumption DEF CreateEnrollment, AnyEnrollment, stores
  <1>3. Found(enrollments, certificates) /\ Complete(enrollments, owner)
    BY FoundNow DEF FoundFrame, NewE, NewK
  <1>4. \A s \in AnySerial : Has(certificates, s) => certificates.rec[s].enr # e
    BY <1>1 DEF OneInv, OriginInv, GenuineIn
  <1>5. /\ E(e)[e].status = "pending"
        /\ \A x \in AnyEnrollment \ {e} : E(e)[x] = enrollments[x]
    BY <1>2 DEF TypeOK
  <1> HIDE DEF E
  <1>6. Found(E(e), certificates)
    BY <1>3, <1>4, <1>5 DEF Found
  <1>7. Complete(E(e), owner')
    BY <1>1, <1>2, <1>3, <1>5 DEF Complete, TypeOK, AnyEnrollment
  <1>8. F(e).snapE = E(e) /\ F(e).pc = "enrollOpen" /\ F(e).then = l
    BY DEF IdleFrame
  <1> HIDE DEF F
  <1>9. FoundFrame(F(e), enrollments', certificates', owner')
    BY <1>2, <1>6, <1>7, <1>8
    DEF FoundFrame, NewE, NewK, WritingE, WritingK, FlushE, FlushK, RevokingBoth, Activating, SyncLabels
  <1>. QED
    BY <1>1, <1>9, FoundStep

LEMMA StartKeepsFound ==
    ASSUME Sequential = TRUE, TypeOK, AloneInv, OriginInv, OneInv, FoundInv, NEW w \in Worker, Start(w)
    PROVE  FoundInv'
  <1>1. Free(w) /\ frame[w].pc = "idle"
    BY StartShape DEF Free, At
  <1>2. frame[w].pc \notin WritingE \union WritingK
    BY <1>1 DEF WritingE, WritingK, FlushE, FlushK
  <1>3. CASE StartEnroll(w)
    BY <1>1, <1>2, <1>3, CreateEnrollmentFound DEF StartEnroll
  <1>4. CASE StartEnrollDemo(w)
    BY <1>1, <1>2, <1>4, CreateEnrollmentFound, ConstantsAssumption DEF StartEnrollDemo
  <1>5. CASE StartIssue(w) \/ StartActivate(w) \/ StartRevoke(w) \/ StartRegistryRevoke(w) \/ StartSync(w)
    <2>1. UNCHANGED <<certificates, enrollments, owner>>
      BY <1>5 DEF StartIssue, StartActivate, StartRevoke, StartRegistryRevoke, StartSync, stores
    <2>2. FoundFrame(IdleFrame, enrollments, certificates, owner)
      BY <1>1, FoundNow, FoundIdle, IdleFound
    <2>3. ASSUME NEW l \in {"issueRead", "activateRead", "revokeRead", "revokeReadR", "syncReadK"},
                 NEW e, NEW s, NEW a
          PROVE  /\ FoundFrame([IdleFrame EXCEPT !.pc = l, !.enr = e, !.activate = a],
                               enrollments, certificates, owner)
                 /\ FoundFrame([IdleFrame EXCEPT !.pc = l, !.serial = s], enrollments, certificates, owner)
                 /\ FoundFrame([IdleFrame EXCEPT !.pc = l], enrollments, certificates, owner)
      BY <2>2 DEF FoundFrame, IdleFrame, NewE, NewK, WritingE, WritingK, FlushE, FlushK, RevokingBoth,
                  Activating
    <2>4. ASSUME NEW f, Become(w, f), FoundFrame(f, enrollments, certificates, owner) PROVE FoundInv'
      BY <1>1, <2>1, <2>4, FoundRead
    <2>5. CASE StartIssue(w)
      BY <2>3, <2>4, <2>5 DEF StartIssue
    <2>6. CASE StartActivate(w)
      BY <2>3, <2>4, <2>6 DEF StartActivate
    <2>7. CASE StartRevoke(w) \/ StartRegistryRevoke(w)
      BY <2>3, <2>4, <2>7 DEF StartRevoke, StartRegistryRevoke
    <2>8. CASE StartSync(w)
      BY <2>3, <2>4, <2>8 DEF StartSync
    <2>. QED
      BY <1>5, <2>5, <2>6, <2>7, <2>8
  <1>. QED
    BY <1>3, <1>4, <1>5 DEF Start
LEMMA ReadsKeepFound ==
    ASSUME Sequential = TRUE, TypeOK, AloneInv, OriginInv, FoundInv, NEW w \in Worker,
           \/ IssueRefused(w) \/ IssuePending(w) \/ IssueAgain(w) \/ IssueExisting(w)
           \/ ActivateRead(w) \/ ActivateCheck(w) \/ ActivateEmails(w)
           \/ RevokeRead(w) \/ RevokeReadR(w) \/ SyncReadK(w) \/ SyncReadR(w) \/ SyncReadE(w)
    PROVE  FoundInv'
  <1>1. UNCHANGED <<certificates, enrollments, owner>>
    BY DEF IssueRefused, IssuePending, IssueAgain, IssueExisting, ActivateRead, ActivateCheck,
           ActivateEmails, RevokeRead, RevokeReadR, SyncReadK, SyncReadR, SyncReadE, stores
  <1>2. ~At(w, "idle")
    BY HandleShape DEF Handle
  <1> DEFINE g == frame[w]
             OK(f) == FoundFrame(f, enrollments, certificates, owner)
  <1>3. /\ g \in FrameRecord /\ Addressed(g) /\ certificates \in CertificateList
        /\ g.held \in CertificateList /\ g.snapK \in CertificateList
        /\ enrollments \in [AnyEnrollment -> EnrollmentRecord]
    BY FrameTypes DEF TypeOK
  <1>4. OK(g)
    BY <1>2, FoundNow
  <1>5. ASSUME NEW f, Become(w, f), OK(f) PROVE FoundInv'
    BY <1>1, <1>2, <1>5, FoundRead
  <1> USE DEF WritingE, WritingK, FlushE, FlushK
  <1>6. /\ g.pc \notin WritingE \union WritingK
        /\ g.pc \in {"issueRead", "issueExisting", "activateRead", "activateCheck", "activateEmails",
                     "revokeRead", "revokeReadR", "syncReadK", "syncReadR", "syncReadE"}
    BY DEF IssueRefused, IssuePending, IssueAgain, IssueExisting, ActivateRead, ActivateCheck,
           ActivateEmails, RevokeRead, RevokeReadR, SyncReadK, SyncReadR, SyncReadE, At
  <1>7. /\ Found(enrollments, certificates) /\ Complete(enrollments, owner)
        /\ Activating(g.pc, g.then) => Found(enrollments, g.held)
        /\ g.then = "revokeOpenK" => g.pc = "revokeReadR"
        /\ RevokingBoth(g) \/ g.pc = "syncReadR" => Found(enrollments, g.snapK)
    BY <1>4, <1>6 DEF FoundFrame, NewE, NewK, RevokingBoth
  <1> HIDE DEF OK
  <1>8. ASSUME Return(w) PROVE FoundInv'
    BY <1>4, <1>5, <1>6, <1>8, FoundReturn DEF Return, OK
  <1>9. ASSUME NEW f, f.pc \in {"issueRead", "issueMint", "issueExisting", "activateRead",
                                "activateCheck", "activateEmails", "revokeRead"},
               f.then # "revokeOpenK", f.snapE = enrollments \/ f.pc # "issueMint",
               Activating(f.pc, f.then) => Found(enrollments, f.held)
        PROVE  OK(f)
    BY <1>7, <1>9 DEF OK, FoundFrame, NewE, NewK, RevokingBoth
  <1>10. CASE IssueRefused(w)
    BY <1>8, <1>10 DEF IssueRefused
  <1>11. CASE IssuePending(w)
    <2> DEFINE f == [g EXCEPT !.pc = "issueMint", !.snapE = enrollments]
    <2>1. f.pc = "issueMint" /\ f.then = g.then /\ f.snapE = enrollments /\ g.pc = "issueRead"
      BY <1>3, <1>11 DEF FrameRecord, IssuePending, At
    <2>2. Become(w, f)
      BY <1>11 DEF IssuePending
    <2> HIDE DEF f
    <2>3. ~Activating(f.pc, f.then) /\ f.then # "revokeOpenK"
      BY <1>7, <2>1 DEF Activating, SyncLabels
    <2>. QED
      BY <1>5, <1>9, <2>1, <2>2, <2>3
  <1>12. CASE IssueAgain(w)
    <2> DEFINE f == [g EXCEPT !.pc = "issueExisting", !.serial = enrollments[g.enr].serial]
    <2>1. f.pc = "issueExisting" /\ f.then = g.then /\ g.pc = "issueRead"
      BY <1>3, <1>12 DEF FrameRecord, IssueAgain, At
    <2>2. Become(w, f)
      BY <1>12 DEF IssueAgain
    <2> HIDE DEF f
    <2>3. ~Activating(f.pc, f.then) /\ f.then # "revokeOpenK"
      BY <1>7, <2>1 DEF Activating, SyncLabels
    <2>. QED
      BY <1>5, <1>9, <2>1, <2>2, <2>3
  <1>13. CASE IssueExisting(w) \/ ActivateCheck(w)
    <2>1. PICK l : /\ Return(w) \/ Goto(w, l)
                   /\ \/ l = "activateRead" /\ g.pc = "issueExisting"
                      \/ l = "activateEmails" /\ g.pc = "activateCheck"
      BY <1>13 DEF IssueExisting, ActivateCheck, Continue, At
    <2> DEFINE f == [g EXCEPT !.pc = l]
    <2>2. f.pc = l /\ f.then = g.then /\ f.held = g.held
      BY <1>3 DEF FrameRecord
    <2>3. Goto(w, l) => Become(w, f)
      BY DEF Goto
    <2> HIDE DEF f
    <2>4. f.then # "revokeOpenK" /\ (Activating(f.pc, f.then) => Found(enrollments, f.held))
      BY <1>7, <2>1, <2>2 DEF Activating, SyncLabels
    <2>. QED
      BY <1>5, <1>8, <1>9, <2>1, <2>2, <2>3, <2>4
  <1>14. CASE ActivateRead(w)
    <2> DEFINE f == [g EXCEPT !.pc = "syncReadK", !.then = "activateCheck", !.held = certificates]
    <2>1. f.pc = "syncReadK" /\ f.then = "activateCheck" /\ f.held = certificates
      BY <1>3 DEF FrameRecord
    <2>2. Return(w) \/ Become(w, f)
      BY <1>14 DEF ActivateRead
    <2> HIDE DEF f
    <2>3. OK(f)
      BY <1>7, <2>1 DEF OK, FoundFrame, NewE, NewK, RevokingBoth
    <2>. QED
      BY <1>5, <1>8, <2>2, <2>3
  <1>15. CASE ActivateEmails(w)
    <2> DEFINE L == Activated(g.held, g.serial, enrollments)
               f == [g EXCEPT !.pc = "activateOpenK", !.held = NoCertificates, !.snapK = L]
    <2>1. /\ f.pc = "activateOpenK" /\ f.then = g.then /\ f.snapK = L /\ g.pc = "activateEmails"
          /\ Become(w, f)
      BY <1>3, <1>15 DEF FrameRecord, ActivateEmails, At
    <2>2. g.serial \in AnySerial /\ Has(g.held, g.serial) /\ Found(enrollments, g.held)
      BY <1>3, <1>7, <2>1, FrameTypes DEF Addressed, ForSerial, OriginInv, OriginFrame, Activating
    <2>3. Found(enrollments, L)
      BY <1>3, <2>2, ActivatedLike, FoundLike
    <2> HIDE DEF f, L
    <2>4. OK(f)
      BY <1>7, <2>1, <2>3 DEF OK, FoundFrame, NewE, NewK, RevokingBoth, Activating, SyncLabels
    <2>. QED
      BY <1>5, <2>1, <2>4
  <1>16. CASE RevokeRead(w)
    <2> DEFINE L == SetStatus(certificates, g.serial, "revoked")
               f == [g EXCEPT !.pc = "revokeReadR", !.then = "revokeOpenK", !.snapK = L]
    <2>1. /\ f.pc = "revokeReadR" /\ f.then = "revokeOpenK" /\ f.snapK = L /\ g.pc = "revokeRead"
          /\ Return(w) \/ Become(w, f)
      BY <1>3, <1>16 DEF FrameRecord, RevokeRead, At
    <2>2. g.serial \in AnySerial
      BY <1>3, <2>1, FrameTypes DEF Addressed, ForSerial
    <2>3. Found(enrollments, L)
      BY <1>3, <1>7, <2>2, SetStatusLike, FoundLike
    <2> HIDE DEF f, L
    <2>4. OK(f)
      BY <1>7, <2>1, <2>3 DEF OK, FoundFrame, NewE, NewK, RevokingBoth, Activating, SyncLabels
    <2>. QED
      BY <1>5, <1>8, <2>1, <2>4
  <1>17. CASE RevokeReadR(w)
    <2> DEFINE f == [g EXCEPT !.pc = "revokeOpenR", !.snapR = registry.serials \union {g.serial}]
    <2>1. /\ f.pc = "revokeOpenR" /\ f.then = g.then /\ f.snapK = g.snapK /\ g.pc = "revokeReadR"
          /\ Return(w) \/ Become(w, f)
      BY <1>3, <1>17 DEF FrameRecord, RevokeReadR, At
    <2> HIDE DEF f
    <2>2. OK(f)
      BY <1>7, <2>1 DEF OK, FoundFrame, NewE, NewK, RevokingBoth, Activating, SyncLabels
    <2>. QED
      BY <1>5, <1>8, <2>1, <2>2
  <1>18. CASE SyncReadK(w)
    <2> DEFINE L == Put(certificates, DemoSerial, DemoRecord(DemoStatus(certificates)))
               f == [g EXCEPT !.pc = "syncReadR", !.snapK = L]
    <2>1. /\ f.pc = "syncReadR" /\ f.then = g.then /\ f.snapK = L /\ f.held = g.held
          /\ g.pc = "syncReadK" /\ Become(w, f)
      BY <1>3, <1>18 DEF FrameRecord, SyncReadK, At
    <2>2. DemoStatus(certificates) \in {"active", "revoked"}
      BY DEF DemoStatus
    <2>3. Found(enrollments, L)
      BY <1>3, <1>7, <2>2, FoundDemoRecord
    <2> HIDE DEF f, L
    <2>4. OK(f)
      BY <1>7, <2>1, <2>3 DEF OK, FoundFrame, NewE, NewK, RevokingBoth, Activating, SyncLabels
    <2>. QED
      BY <1>5, <2>1, <2>4
  <1>19. CASE SyncReadR(w)
    <2> DEFINE L == IF DemoSerial \in registry.serials
                    THEN SetStatus(g.snapK, DemoSerial, "revoked") ELSE g.snapK
               f == [g EXCEPT !.pc = "syncOpenK", !.snapK = L]
    <2>1. /\ f.pc = "syncOpenK" /\ f.then = g.then /\ f.snapK = L /\ f.held = g.held
          /\ g.pc = "syncReadR" /\ (Return(w) \/ Become(w, f))
      BY <1>3, <1>19 DEF FrameRecord, SyncReadR, At
    <2>2. Found(enrollments, L)
      <3>1. DemoSerial \in AnySerial
        BY DEF AnySerial
      <3>2. Found(enrollments, SetStatus(g.snapK, DemoSerial, "revoked"))
        BY <1>3, <1>7, <2>1, <3>1, SetStatusLike, FoundLike
      <3>. QED
        BY <1>7, <2>1, <3>2
    <2> HIDE DEF f, L
    <2>3. OK(f)
      BY <1>7, <2>1, <2>2 DEF OK, FoundFrame, NewE, NewK, RevokingBoth, Activating, SyncLabels
    <2>. QED
      BY <1>5, <1>8, <2>1, <2>3
  <1>20. CASE SyncReadE(w)
    <2> DEFINE E == [enrollments EXCEPT ![DemoEnrollment] = DemoEnrollmentRecord]
               f == [g EXCEPT !.pc = "syncOpenE", !.snapE = E]
    <2>1. /\ f.pc = "syncOpenE" /\ f.then = g.then /\ f.snapE = E /\ f.held = g.held
          /\ g.pc = "syncReadE" /\ Become(w, f)
      BY <1>3, <1>20 DEF FrameRecord, SyncReadE, At
    <2>2. Complete(E, owner) /\ \A K : Found(enrollments, K) => Found(E, K)
      BY <1>3, <1>7, FoundDemo
    <2> HIDE DEF f, E
    <2>3. OK(f)
      BY <1>7, <2>1, <2>2 DEF OK, FoundFrame, NewE, NewK, RevokingBoth, Activating, SyncLabels
    <2>. QED
      BY <1>5, <2>1, <2>3
  <1>. QED
    BY <1>10, <1>11, <1>12, <1>13, <1>14, <1>15, <1>16, <1>17, <1>18, <1>19, <1>20
LEMMA MintKeepsFound ==
    ASSUME Sequential = TRUE, TypeOK, AloneInv, OriginInv, OneInv, FoundInv, NEW w \in Worker, IssueMint(w)
    PROVE  FoundInv'
  <1> DEFINE g == frame[w]
             e == g.enr
             F(s) == [g EXCEPT !.pc = "issueOpenE", !.serial = s,
                          !.snapE[e].status = "issued", !.snapE[e].serial = s,
                          !.snapK = Put(certificates, s, IssuedRecord(e))]
             r == g.snapE[e]
             G(s) == [g.snapE EXCEPT ![e] = [r EXCEPT !.status = "issued", !.serial = s]]
             L(s) == Put(certificates, s, IssuedRecord(e))
  <1>1. PICK s \in Serial : minted[s] = None /\ Become(w, F(s))
    BY DEF IssueMint
  <1>2. /\ e \in AnyEnrollment /\ s \in AnySerial /\ g.pc = "issueMint"
        /\ UNCHANGED <<certificates, enrollments, owner>>
    BY FrameTypes DEF IssueMint, At, Addressed, ForEnrollment, AnySerial, stores
  <1>3. ~At(w, "idle") /\ FoundFrame(g, enrollments, certificates, owner)
    BY HandleShape, FoundNow DEF Handle
  <1>4. /\ Found(enrollments, certificates) /\ Complete(enrollments, owner) /\ g.snapE = enrollments
        /\ g.then # "revokeOpenK"
    BY <1>2, <1>3 DEF FoundFrame, NewE, NewK, WritingE, WritingK, FlushE, FlushK, RevokingBoth
  <1>5. r.status = "pending" /\ r \in EnrollmentRecord /\ ~Has(certificates, s) /\ e # DemoEnrollment
    BY <1>1, <1>2, <1>3, FrameTypes DEF OriginInv, OriginFrame, GenuineIn, OneInv, OneFrame, At
  <1>6. /\ G(s)[e].status = "issued" /\ G(s)[e].serial = s
        /\ \A x \in AnyEnrollment \ {e} : G(s)[x] = enrollments[x]
    <2>1. \A q \in EnrollmentRecord : LET p == [q EXCEPT !.status = "issued", !.serial = s]
                                      IN  p.status = "issued" /\ p.serial = s
      BY DEF EnrollmentRecord
    <2>. QED
      BY <1>2, <1>4, <1>5, <2>1, FrameTypes
  <1>7. /\ L(s).rec[s].status = "issued" /\ L(s).rec[s].enr = e
        /\ \A t \in AnySerial \ {s} : L(s).rec[t] = certificates.rec[t]
    BY <1>2 DEF Put, IssuedRecord, TypeOK, CertificateList
  <1>8. F(s) = [g EXCEPT !.pc = "issueOpenE", !.serial = s, !.snapE = G(s), !.snapK = L(s)]
    <2>1. [g.snapE EXCEPT ![e].status = "issued", ![e].serial = s] = G(s)
      BY <1>2, FrameTypes
    <2>. QED
      BY <2>1, FrameTypes DEF FrameRecord
  <1>9. F(s).pc = "issueOpenE" /\ F(s).then = g.then /\ F(s).snapE = G(s) /\ F(s).snapK = L(s)
    BY <1>8, FrameTypes DEF FrameRecord
  <1>10. r = enrollments[e]
    BY <1>4
  <1> HIDE DEF G, F, L, r
  <1>11. Found(G(s), L(s))
    <2>1. ASSUME NEW x \in AnyEnrollment, G(s)[x].status = "issued"
          PROVE  LET t == G(s)[x].serial IN t \in AnySerial /\ Has(L(s), t) /\ L(s).rec[t].enr = x
      BY <1>2, <1>4, <1>5, <1>6, <1>7, <2>1 DEF Found, Has
    <2>2. ASSUME NEW t \in AnySerial, Has(L(s), t)
          PROVE  LET x == L(s).rec[t].enr
                 IN  x \in AnyEnrollment /\ G(s)[x].status = "issued" /\ G(s)[x].serial = t
      <3>1. CASE t = s
        BY <1>2, <1>6, <1>7, <3>1
      <3>2. CASE t # s
        <4> DEFINE x == certificates.rec[t].enr
        <4>1. x \in AnyEnrollment /\ enrollments[x].status = "issued" /\ enrollments[x].serial = t
          BY <1>4, <1>7, <2>2, <3>2 DEF Found, Has
        <4>2. x # e
          BY <1>5, <1>10, <4>1
        <4>. QED
          BY <1>6, <1>7, <3>2, <4>1, <4>2
      <3>. QED
        BY <3>1, <3>2
    <2>. QED
      BY <2>1, <2>2 DEF Found
  <1>12. Complete(G(s), owner)
    BY <1>2, <1>4, <1>5, <1>6 DEF Complete, AnyEnrollment
  <1>13. FoundFrame(F(s), enrollments', certificates', owner')
    BY <1>2, <1>4, <1>9, <1>11, <1>12
    DEF FoundFrame, NewE, NewK, WritingE, WritingK, FlushE, FlushK, RevokingBoth, Activating, SyncLabels
  <1>. QED
    BY <1>1, <1>3, <1>13, FoundStep

LEMMA WritesKeepFound ==
    ASSUME Sequential = TRUE, TypeOK, AloneInv, OriginInv, FoundInv, NEW w \in Worker,
           \/ OpenRegistry(w) \/ FlushRegistry(w) \/ OpenEnrollments(w) \/ FlushEnrollments(w)
           \/ OpenCertificates(w) \/ FlushCertificates(w)
    PROVE  FoundInv'
  <1> DEFINE g == frame[w]
  <1> USE DEF WritingE, WritingK, FlushE, FlushK
  <1>1. ~At(w, "idle") /\ FoundFrame(g, enrollments, certificates, owner)
    BY HandleShape, FoundNow DEF Handle
  <1>2. g \in FrameRecord /\ OriginFrame(g, minted, owner) /\ owner' = owner
    BY FrameTypes
    DEF OriginInv, OpenRegistry, FlushRegistry, OpenEnrollments, FlushEnrollments, OpenCertificates,
        FlushCertificates
  <1>3. ASSUME NEW f, Become(w, f), FoundFrame(f, enrollments', certificates', owner) PROVE FoundInv'
    BY <1>1, <1>2, <1>3, FoundStep
  <1>4. ASSUME NEW l, Goto(w, l)
        PROVE  \E f : /\ Become(w, f) /\ f.pc = l /\ f.then = g.then
                      /\ f.snapE = g.snapE /\ f.snapK = g.snapK /\ f.held = g.held
    <2> DEFINE f == [g EXCEPT !.pc = l]
    <2>1. /\ Become(w, f) /\ f.pc = l /\ f.then = g.then
          /\ f.snapE = g.snapE /\ f.snapK = g.snapK /\ f.held = g.held
      BY <1>2, <1>4 DEF Goto, FrameRecord
    <2> HIDE DEF f
    <2>. QED
      BY <2>1
  <1>5. ASSUME NEW l, Resume(w, l), l # "idle"
        PROVE  \E f : /\ Become(w, f) /\ f.pc = l /\ f.then = g.then /\ f.held = g.held
                      /\ l \in {"issueOpenK", "revokeOpenK"} => f.snapK = g.snapK
    <2> DEFINE k == IF l \in {"issueOpenK", "revokeOpenK"} THEN g.snapK ELSE NoCertificates
               f == [g EXCEPT !.pc = l, !.snapR = {}, !.snapE = NoEnrollments, !.snapK = k]
    <2>1. Become(w, f)
      BY <1>2, <1>5 DEF Resume, FrameRecord
    <2>2. f.pc = l /\ f.then = g.then /\ f.held = g.held /\ f.snapK = k
      BY <1>2 DEF FrameRecord
    <2> HIDE DEF f
    <2>. QED
      BY <2>1, <2>2
  <1>6. ASSUME Return(w), Found(enrollments', certificates'), Complete(enrollments', owner)
        PROVE  FoundInv'
    BY <1>3, <1>6, IdleFound DEF Return
  <1>7. g.then \in Callers
    BY <1>2 DEF OriginFrame, InActivation
  <1>8. CASE OpenRegistry(w)
    <2>1. /\ g.pc = "revokeOpenR" /\ Goto(w, "revokeFlushR")
          /\ UNCHANGED <<enrollments, certificates>>
      BY <1>8 DEF OpenRegistry, At
    <2>2. PICK f : /\ Become(w, f) /\ f.pc = "revokeFlushR" /\ f.then = g.then
                   /\ f.snapE = g.snapE /\ f.snapK = g.snapK /\ f.held = g.held
      BY <1>4, <2>1
    <2>3. FoundFrame(f, enrollments', certificates', owner)
      BY <1>1, <2>1, <2>2 DEF FoundFrame, NewE, NewK, RevokingBoth, Activating, SyncLabels
    <2>. QED
      BY <1>3, <2>2, <2>3
  <1>9. CASE FlushRegistry(w)
    <2>1. /\ g.pc = "revokeFlushR" /\ Resume(w, g.then)
          /\ UNCHANGED <<enrollments, certificates>>
      BY <1>9 DEF FlushRegistry, At
    <2>2. CASE g.then = "idle"
      BY <1>1, <1>6, <2>1, <2>2 DEF Resume, FoundFrame, NewE, NewK
    <2>3. CASE g.then # "idle"
      <3>1. PICK f : /\ Become(w, f) /\ f.pc = g.then /\ f.then = g.then /\ f.held = g.held
                     /\ g.then \in {"issueOpenK", "revokeOpenK"} => f.snapK = g.snapK
        BY <1>5, <2>1, <2>3
      <3>2. g.then # "activateCheck"
        BY <1>2, <2>1 DEF OriginFrame, InActivation, SyncLabels, ActivateLabels
      <3>3. FoundFrame(f, enrollments', certificates', owner)
        BY <1>1, <1>7, <2>1, <2>3, <3>1, <3>2
        DEF FoundFrame, NewE, NewK, RevokingBoth, Activating, SyncLabels, Callers
      <3>. QED
        BY <1>3, <3>1, <3>3
    <2>. QED
      BY <2>2, <2>3
  <1>10. CASE OpenEnrollments(w)
    <2>1. /\ \/ g.pc = "enrollOpen" /\ Goto(w, "enrollFlush")
             \/ g.pc = "issueOpenE" /\ Goto(w, "issueFlushE")
             \/ g.pc = "syncOpenE" /\ Goto(w, "syncFlushE")
          /\ enrollments' = NoEnrollments /\ certificates' = certificates
      BY <1>10 DEF OpenEnrollments, Opened
    <2>2. PICK f : /\ Become(w, f) /\ f.then = g.then
                   /\ \/ g.pc = "enrollOpen" /\ f.pc = "enrollFlush"
                      \/ g.pc = "issueOpenE" /\ f.pc = "issueFlushE"
                      \/ g.pc = "syncOpenE" /\ f.pc = "syncFlushE"
                   /\ f.snapE = g.snapE /\ f.snapK = g.snapK /\ f.held = g.held
      BY <1>4, <2>1
    <2>3. FoundFrame(f, enrollments', certificates', owner)
      BY <1>1, <2>1, <2>2 DEF FoundFrame, NewE, NewK, RevokingBoth, Activating, SyncLabels
    <2>. QED
      BY <1>3, <2>2, <2>3
  <1>11. CASE OpenCertificates(w)
    <2>1. /\ \/ g.pc = "issueOpenK" /\ Goto(w, "issueFlushK")
             \/ g.pc = "activateOpenK" /\ Goto(w, "activateFlushK")
             \/ g.pc = "revokeOpenK" /\ Goto(w, "revokeFlushK")
             \/ g.pc = "syncOpenK" /\ Goto(w, "syncFlushK")
          /\ enrollments' = enrollments /\ certificates' = NoCertificates
      BY <1>11 DEF OpenCertificates, Opened
    <2>2. PICK f : /\ Become(w, f) /\ f.then = g.then
                   /\ \/ g.pc = "issueOpenK" /\ f.pc = "issueFlushK"
                      \/ g.pc = "activateOpenK" /\ f.pc = "activateFlushK"
                      \/ g.pc = "revokeOpenK" /\ f.pc = "revokeFlushK"
                      \/ g.pc = "syncOpenK" /\ f.pc = "syncFlushK"
                   /\ f.snapE = g.snapE /\ f.snapK = g.snapK /\ f.held = g.held
      BY <1>4, <2>1
    <2>3. FoundFrame(f, enrollments', certificates', owner)
      BY <1>1, <2>1, <2>2 DEF FoundFrame, NewE, NewK, RevokingBoth, Activating, SyncLabels
    <2>. QED
      BY <1>3, <2>2, <2>3
  <1>12. CASE FlushEnrollments(w)
    <2> DEFINE l == IF g.pc = "issueFlushE" THEN "issueOpenK" ELSE g.then
    <2>1. /\ g.pc \in FlushE /\ Resume(w, l)
          /\ enrollments' = g.snapE /\ certificates' = certificates
      <3>1. enrollments = NoEnrollments /\ g.pc \in FlushE
        BY <1>1, <1>12 DEF FlushEnrollments, FoundFrame
      <3>. QED
        BY <1>12, <3>1 DEF FlushEnrollments, Written, At
    <2>2. /\ Complete(g.snapE, owner) /\ Found(g.snapE, NewK(g, certificates))
          /\ g.then # "revokeOpenK" /\ (g.then = "activateCheck" => g.pc = "syncFlushE")
          /\ Activating(g.pc, g.then) => Found(g.snapE, g.held)
      BY <1>1, <1>2, <2>1
      DEF FoundFrame, NewE, RevokingBoth, OriginFrame, InActivation, SyncLabels, ActivateLabels
    <2>3. CASE l = "idle"
      BY <1>6, <2>1, <2>2, <2>3 DEF Resume, NewK
    <2>4. CASE l # "idle"
      <3>1. PICK f : /\ Become(w, f) /\ f.pc = l /\ f.then = g.then /\ f.held = g.held
                     /\ l \in {"issueOpenK", "revokeOpenK"} => f.snapK = g.snapK
        BY <1>5, <2>1, <2>4
      <3>2. FoundFrame(f, enrollments', certificates', owner)
        BY <1>7, <2>1, <2>2, <2>4, <3>1
        DEF FoundFrame, NewE, NewK, RevokingBoth, Activating, SyncLabels, Callers
      <3>. QED
        BY <1>3, <3>1, <3>2
    <2>. QED
      BY <2>3, <2>4
  <1>13. CASE FlushCertificates(w)
    <2> DEFINE l == AfterCertificates(g)
               t == IF g.pc = "revokeFlushK" THEN "idle" ELSE g.then
               f == [g EXCEPT !.pc = l, !.snapK = NoCertificates, !.then = t]
    <2>1. /\ g.pc \in FlushK /\ enrollments' = enrollments /\ certificates' = g.snapK
      <3>1. certificates = NoCertificates /\ g.pc \in FlushK
        BY <1>1, <1>13 DEF FlushCertificates, FoundFrame
      <3>. QED
        BY <1>13, <3>1 DEF FlushCertificates, Written
    <2>2. /\ Complete(enrollments, owner) /\ Found(enrollments, g.snapK)
          /\ g.then = "revokeOpenK" => g.pc = "revokeFlushK"
          /\ Activating(g.pc, g.then) => Found(enrollments, g.held)
      BY <1>1, <2>1 DEF FoundFrame, NewE, NewK, RevokingBoth
    <2>3. Return(w) \/ (l # "idle" /\ Become(w, f))
      BY <1>13 DEF FlushCertificates, At
    <2>4. CASE Return(w)
      BY <1>6, <2>1, <2>2, <2>4
    <2>5. CASE l # "idle" /\ Become(w, f)
      <3>1. f.pc = l /\ f.then = t /\ f.held = g.held
        BY <1>2 DEF FrameRecord
      <3>2. \/ l = "syncReadE" /\ t = g.then /\ g.pc = "syncFlushK"
            \/ l = "syncReadK" /\ t = "idle"
            \/ l = "activateRead" /\ t = g.then /\ g.pc = "issueFlushK"
        BY <2>1, <2>5 DEF AfterCertificates
      <3> HIDE DEF f, l, t
      <3>3. FoundFrame(f, enrollments', certificates', owner)
        BY <2>1, <2>2, <3>1, <3>2
        DEF FoundFrame, NewE, NewK, RevokingBoth, Activating, SyncLabels
      <3>. QED
        BY <1>3, <2>5, <3>3
    <2>. QED
      BY <2>3, <2>4, <2>5
  <1>. QED
    BY <1>8, <1>9, <1>10, <1>11, <1>12, <1>13

LEMMA StepKeepsFound ==
    /\ Sequential = TRUE /\ CanCrash = FALSE
    /\ TypeOK /\ AloneInv /\ OriginInv /\ OneInv /\ FoundInv /\ [Next]_vars
    => FoundInv'
  <1> SUFFICES ASSUME Sequential = TRUE, CanCrash = FALSE, TypeOK, AloneInv, OriginInv, OneInv, FoundInv,
                      [Next]_vars
               PROVE  FoundInv'
    OBVIOUS
  <1>1. ASSUME NEW w \in Worker, Start(w) PROVE FoundInv'
    BY <1>1, StartKeepsFound
  <1>2. ASSUME NEW w \in Worker, Handle(w) PROVE FoundInv'
    BY <1>2, ReadsKeepFound, MintKeepsFound, WritesKeepFound DEF Handle
  <1>3. CASE Lapse \/ UNCHANGED vars
    BY <1>3 DEF Lapse, vars, stores, FoundInv, Quiet, At
  <1>. QED
    BY <1>1, <1>2, <1>3 DEF Next, Crash

(* Between the requests of clients that wait for each answer, and as long as  *)
(* the process does not die, the two files agree: every issued enrollment     *)
(* finds the record of its certificate, and every record its enrollment       *)
(* (certificate_lifecycle_service.py:146-188, 220-282, 350-389).              *)
THEOREM FilesAgree ==
    ASSUME Sequential = TRUE, CanCrash = FALSE
    PROVE  Spec => []IssuedIsFound
  <1>1. FoundInv => IssuedIsFound
    BY DEF FoundInv, Found, IssuedIsFound, Present
  <1>. QED
    BY <1>1, InitType, StepType, AloneInit, StepKeepsAlone, OriginInit, StepKeepsOrigin,
       OneInit, StepKeepsOne, FoundInit, StepKeepsFound, PTL DEF Spec
=============================================================================
