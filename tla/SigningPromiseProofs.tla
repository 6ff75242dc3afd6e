------------------------ MODULE SigningPromiseProofs ------------------------
(* What SigningRequests promises clients that wait for each answer, for every *)
(* value of its constants.                                                    *)
EXTENDS SigningRequestsProofs, SequentialLifecycleProofs, FiniteSetTheorems

(* Nothing was made for the request, and nothing is on file for it.           *)
Fresh(r) == made[r] = 0 /\ r \notin packages /\ \A f \in File : files[f] # r

(* A request that is not known yet, or not signed yet, has nothing.           *)
Unsigned ==
    /\ \A r \in Request : r \notin taken => Fresh(r)
    /\ \A r \in Request : Known(r) /\ ~requests[r].signed => Fresh(r)
    /\ \A r \in Request : made[r] <= 1

(* A signed file is never overwritten: a pending presign has a file of its    *)
(* own that nothing was stored in.                                            *)
FilesApart ==
    /\ \A f \in File : files[f] # None => f \in taken
    /\ \A r \in Request : presigns[r] # None => presigns[r] \in taken /\ files[presigns[r]] = None
    /\ \A q, r \in Request : presigns[q] # None /\ presigns[q] = presigns[r] => q = r

(* That a request has no signature yet is checked when a handler begins, and  *)
(* relied on after the many steps in which it waits for the lifecycle         *)
(* service; a handler that finalizes was given the presign still pending.     *)
JobFresh(w) ==
    Active(w) =>
        /\ ~At(w, "idle")
        /\ job[w].op = "prepare" => Fresh(job[w].req)
        /\ job[w].op # "prepare" => ~requests[job[w].req].signed
        /\ job[w].op = "finalize" => job[w].presign = presigns[job[w].req]

SignedOnceInv == Unsigned /\ FilesApart /\ \A w \in Worker : JobFresh(w)
-----------------------------------------------------------------------------
(* One handler at a time, on the lifecycle side of the composed service.      *)

LEMMA LifecycleMoves ==
    ASSUME TypeOK, AloneInv, NEW w \in Worker, LifecycleSide(w)
    PROVE  Moves(w)
  <1>1. CASE UNCHANGED frame
    BY <1>1 DEF Moves, AloneInv, At
  <1>2. CASE Return(w)
    BY <1>2, GotoMoves
  <1>3. ASSUME NEW f \in {IdleFrame, frame[w]},
               Become(w, [f EXCEPT !.pc = "syncReadK", !.then = "caller"])
        PROVE  Moves(w)
    <2> DEFINE g == [f EXCEPT !.pc = "syncReadK", !.then = "caller"]
    <2>1. g.pc = "syncReadK" /\ Become(w, g)
      BY <1>3, SyncFrame
    <2> HIDE DEF g
    <2>. QED
      BY <2>1, BecomeMoves
  <1>. QED
    BY <1>1, <1>2, <1>3 DEF LifecycleSide

LEMMA StartsFree ==
    ASSUME NEW w \in Worker
    PROVE  StartSigning(w) => Free(w)
  BY DEF StartSigning, StartPrepare, Confirm, StartSign, StartRemoteSign, StartSubmit, StartPresign,
         StartFinalize, FinalizeExpired

LEMMA HandlesActive ==
    ASSUME NEW w \in Worker
    PROVE  HandleSigning(w) => Active(w) /\ At(w, "caller")
  BY DEF HandleSigning, Refuse, Prepared, Grant, RecordMissing, StorePackage, SubmitRejected, StorePdf,
         StorePresign, Finalize, FinalizeRejected, Ready, Doing, Active

LEMMA SignStepKeepsAlone ==
    Sequential = TRUE /\ TypeOK /\ AloneInv /\ [SignNext]_everything => AloneInv'
  <1> SUFFICES ASSUME Sequential = TRUE, TypeOK, AloneInv, [SignNext]_everything PROVE AloneInv'
    OBVIOUS
  <1>1. ASSUME NEW w \in Worker, StartSigning(w) \/ HandleSigning(w) PROVE AloneInv'
    <2>1. Moves(w)
      BY <1>1, SigningSide, LifecycleMoves
    <2>2. ~At(w, "idle") \/ Free(w)
      BY <1>1, StartsFree, HandlesActive DEF At
    <2>. QED
      BY <2>1, <2>2, AloneStep
  <1>2. CASE [Next]_vars
    BY <1>2, StepKeepsAlone
  <1>3. [Next]_vars \/ \E w \in Worker : StartSigning(w) \/ HandleSigning(w)
    BY DEF SignNext, Elsewhere, SignCrash, Expire, Next, everything
  <1>. QED
    BY <1>1, <1>2, <1>3
-----------------------------------------------------------------------------
(* The handler of a step is the only one, and a free worker means that no     *)
(* signing handler runs at all.                                               *)
LEMMA OnlyJob ==
    ASSUME Sequential = TRUE, TypeOK, AloneInv, SignedOnceInv, NEW w \in Worker, ~At(w, "idle") \/ Free(w)
    PROVE  /\ \A v \in Worker \ {w} : ~Active(v)
           /\ Free(w) => ~Active(w)
  <1>1. \A v \in Worker \ {w} : At(v, "idle")
    BY OnlyOne DEF At, IdleFrame
  <1>. QED
    BY <1>1 DEF SignedOnceInv, JobFresh, Free

(* With no other job under way, only the job of the step has to be looked at. *)
LEMMA OneJobStep ==
    ASSUME JobInv, NEW w \in Worker, \A v \in Worker \ {w} : ~Active(v),
           NEW j, job' = [job EXCEPT ![w] = j], Unsigned', FilesApart', JobFresh(w)'
    PROVE  SignedOnceInv'
  BY DEF SignedOnceInv, JobFresh, Active, JobInv, SignTypeOK

LEMMA EndsFresh ==
    ASSUME JobInv, NEW w \in Worker, \A v \in Worker \ {w} : ~Active(v), End(w), Unsigned', FilesApart'
    PROVE  SignedOnceInv'
  <1>1. job' = [job EXCEPT ![w] = IdleJob] /\ JobFresh(w)'
    BY IdleJobType DEF End, JobFresh, Active, JobInv, SignTypeOK
  <1>. QED
    BY <1>1, OneJobStep

(* Dropping a presign.                                                        *)
LEMMA DropKeeps ==
    ASSUME JobInv, SignedOnceInv, NEW r, UNCHANGED <<requests, packages, files, taken, made>>,
           presigns' = presigns \/ presigns' = [presigns EXCEPT ![r] = None]
    PROVE  Unsigned' /\ FilesApart'
  BY DEF SignedOnceInv, Unsigned, FilesApart, Fresh, Known, JobInv, SignTypeOK

LEMMA RefusalKeepsFresh ==
    ASSUME JobInv, SignedOnceInv, NEW w \in Worker, \A v \in Worker \ {w} : ~Active(v),
           Refuse(w) \/ RecordMissing(w) \/ SubmitRejected(w) \/ FinalizeRejected(w)
    PROVE  SignedOnceInv'
  <1>1. /\ End(w) /\ UNCHANGED <<requests, packages, files, taken, made>>
        /\ presigns' = presigns \/ presigns' = [presigns EXCEPT ![job[w].req] = None]
    BY DEF Refuse, RecordMissing, SubmitRejected, FinalizeRejected
  <1>. QED
    BY <1>1, DropKeeps, EndsFresh

LEMMA PreparedKeepsFresh ==
    ASSUME JobInv, SignedOnceInv, NEW w \in Worker, \A v \in Worker \ {w} : ~Active(v), Prepared(w)
    PROVE  SignedOnceInv'
  <1> DEFINE rec == [serial |-> job[w].serial, pdf |-> job[w].pdf, confirmed |-> FALSE, signed |-> FALSE]
             r == job[w].req
  <1>1. /\ End(w) /\ requests' = [requests EXCEPT ![r] = rec]
        /\ Active(w) /\ job[w].op = "prepare"
        /\ UNCHANGED <<packages, files, presigns, taken, made>>
    BY DEF Prepared, Doing, Active
  <1>2. r \in Request /\ r \in taken /\ Fresh(r)
    BY <1>1 DEF JobInv, JobOK, SignedOnceInv, JobFresh
  <1>3. \A q \in Request \ {r} : requests'[q] = requests[q]
    BY <1>1 DEF JobInv, SignTypeOK
  <1>4. Unsigned'
    BY <1>1, <1>2, <1>3 DEF SignedOnceInv, Unsigned, Fresh, Known
  <1>5. FilesApart'
    BY <1>1 DEF SignedOnceInv, FilesApart
  <1>. QED
    BY <1>1, <1>4, <1>5, EndsFresh

LEMMA GrantKeepsFresh ==
    ASSUME TypeOK, JobInv, SignedOnceInv, NEW w \in Worker, \A v \in Worker \ {w} : ~Active(v), Grant(w)
    PROVE  SignedOnceInv'
  <1> DEFINE j == [job[w] EXCEPT !.pc = "record"]
             g == [frame[w] EXCEPT !.pc = "syncReadK", !.then = "caller"]
  <1>1. /\ job' = [job EXCEPT ![w] = j] /\ Become(w, g) /\ Active(w)
        /\ UNCHANGED <<requests, packages, files, presigns, taken, made>>
    BY DEF Grant, Await, Doing, Active
  <1>2. j.op = job[w].op /\ j.req = job[w].req /\ j.presign = job[w].presign /\ job'[w] = j
    BY <1>1, JobTypes DEF Job
  <1>3. g.pc = "syncReadK"
    BY SyncFrame
  <1> HIDE DEF j, g
  <1>4. ~At(w, "idle")'
    BY <1>1, <1>3 DEF Become, At, TypeOK
  <1>5. JobFresh(w)'
    BY <1>1, <1>2, <1>4 DEF SignedOnceInv, JobFresh, Active, Fresh
  <1>6. Unsigned' /\ FilesApart'
    BY <1>1 DEF SignedOnceInv, Unsigned, FilesApart, Fresh, Known
  <1>. QED
    BY <1>1, <1>5, <1>6, OneJobStep

(* The three ways a signature is stored.                                      *)
LEMMA StoreShape ==
    ASSUME JobInv, SignedOnceInv, NEW w \in Worker, StorePackage(w) \/ StorePdf(w) \/ Finalize(w)
    PROVE  LET r == job[w].req IN
           /\ End(w) /\ r \in Request /\ r \in taken
           /\ Known(r) /\ requests[r].confirmed /\ ~requests[r].signed /\ Fresh(r)
           /\ requests[r] \in RequestRecord
           /\ requests' = [requests EXCEPT ![r].signed = TRUE]
           /\ made' = [made EXCEPT ![r] = 1]
           /\ \/ StorePackage(w) /\ packages' = packages \union {r} /\ UNCHANGED <<files, presigns, taken>>
              \/ /\ StorePdf(w) /\ UNCHANGED <<packages, presigns>>
                 /\ \E f \in File \ taken : taken' = taken \union {f} /\ files' = [files EXCEPT ![f] = r]
              \/ /\ Finalize(w) /\ UNCHANGED <<packages, taken>>
                 /\ presigns[r] \in File
                 /\ files' = [files EXCEPT ![presigns[r]] = r]
                 /\ presigns' = [presigns EXCEPT ![r] = None]
  <1> DEFINE r == job[w].req
  <1>1. /\ End(w) /\ Active(w) /\ job[w].pc = "record"
        /\ requests' = [requests EXCEPT ![r].signed = TRUE]
        /\ made' = [made EXCEPT ![r] = IF @ = 2 THEN 2 ELSE @ + 1]
        /\ Finalize(w) => job[w].op = "finalize"
    BY DEF StorePackage, StorePdf, Finalize, Ready, Doing, Active, Signed, Marked
  <1>2. r \in Request /\ r \in taken /\ Known(r) /\ requests[r].confirmed
    BY <1>1 DEF JobInv, JobOK
  <1>3. ~requests[r].signed /\ Fresh(r) /\ requests[r] \in RequestRecord
    BY <1>1, <1>2 DEF SignedOnceInv, JobFresh, Unsigned, JobInv, JobOK, SignTypeOK, Known
  <1>4. made' = [made EXCEPT ![r] = 1]
    BY <1>1, <1>2, <1>3 DEF Fresh, JobInv, SignTypeOK
  <1>5. Finalize(w) => job[w].presign = presigns[r] /\ presigns[r] \in File
    BY <1>1 DEF SignedOnceInv, JobFresh, JobInv, JobOK
  <1>6. \/ StorePackage(w) /\ packages' = packages \union {r} /\ UNCHANGED <<files, presigns, taken>>
        \/ /\ StorePdf(w) /\ UNCHANGED <<packages, presigns>>
           /\ \E f \in File \ taken : taken' = taken \union {f} /\ files' = [files EXCEPT ![f] = r]
        \/ /\ Finalize(w) /\ UNCHANGED <<packages, taken>>
           /\ presigns[r] \in File
           /\ files' = [files EXCEPT ![presigns[r]] = r]
           /\ presigns' = [presigns EXCEPT ![r] = None]
    BY <1>5 DEF StorePackage, StorePdf, Finalize
  <1>. QED
    BY <1>1, <1>2, <1>3, <1>4, <1>6

(* The file a signature is stored in was empty, and no presign is for it.     *)
LEMMA StoreFiles ==
    ASSUME JobInv, SignedOnceInv, NEW w \in Worker, StorePackage(w) \/ StorePdf(w) \/ Finalize(w)
    PROVE  /\ FilesApart' /\ taken \subseteq taken'
           /\ \A f \in File : files'[f] # files[f] => files[f] = None /\ files'[f] = job[w].req
  <1> DEFINE r == job[w].req
  <1> USE DEF SignedOnceInv, FilesApart
  <1>1. r \in Request /\ files \in [File -> Request \union {None}] /\ presigns \in [Request -> File \union {None}]
    BY StoreShape DEF JobInv, SignTypeOK
  <1>2. CASE UNCHANGED <<files, presigns, taken>>
    BY <1>2
  <1>3. ASSUME NEW f \in File \ taken, taken' = taken \union {f}, files' = [files EXCEPT ![f] = r],
               UNCHANGED presigns
        PROVE  FilesApart' /\ \A g \in File : files'[g] # files[g] => files[g] = None /\ files'[g] = r
    BY <1>1, <1>3
  <1>4. ASSUME presigns[r] \in File, files' = [files EXCEPT ![presigns[r]] = r],
               presigns' = [presigns EXCEPT ![r] = None], UNCHANGED taken
        PROVE  FilesApart' /\ \A g \in File : files'[g] # files[g] => files[g] = None /\ files'[g] = r
    <2>1. presigns[r] # None /\ presigns[r] \in taken /\ files[presigns[r]] = None
      BY <1>1, <1>4, SigningAssumption
    <2>2. \A q \in Request : presigns'[q] # None => q # r /\ presigns'[q] = presigns[q]
      BY <1>1, <1>4
    <2>. QED
      BY <1>1, <1>4, <2>1, <2>2
  <1>. QED
    BY <1>2, <1>3, <1>4, StoreShape

LEMMA StoreKeepsFresh ==
    ASSUME JobInv, SignedOnceInv, NEW w \in Worker, \A v \in Worker \ {w} : ~Active(v),
           StorePackage(w) \/ StorePdf(w) \/ Finalize(w)
    PROVE  SignedOnceInv'
  <1> DEFINE r == job[w].req
  <1>1. /\ End(w) /\ r \in Request /\ r \in taken /\ requests[r] \in RequestRecord
        /\ requests' = [requests EXCEPT ![r].signed = TRUE] /\ made' = [made EXCEPT ![r] = 1]
        /\ packages' = packages \/ packages' = packages \union {r}
    BY StoreShape
  <1>2. /\ FilesApart' /\ taken \subseteq taken'
        /\ \A f \in File : files'[f] # files[f] => files[f] = None /\ files'[f] = r
    BY StoreFiles
  <1>3. \A q \in Request \ {r} : requests'[q] = requests[q] /\ made'[q] = made[q] /\ (Fresh(q) => Fresh(q)')
    BY <1>1, <1>2 DEF Fresh, JobInv, SignTypeOK
  <1>4. requests'[r].signed = TRUE /\ made'[r] = 1
    BY <1>1 DEF RequestRecord, JobInv, SignTypeOK
  <1>5. Unsigned'
    BY <1>1, <1>2, <1>3, <1>4 DEF SignedOnceInv, Unsigned, Known
  <1>. QED
    BY <1>1, <1>2, <1>5, EndsFresh

LEMMA StorePresignKeepsFresh ==
    ASSUME JobInv, SignedOnceInv, NEW w \in Worker, \A v \in Worker \ {w} : ~Active(v), StorePresign(w)
    PROVE  SignedOnceInv'
  <1> DEFINE r == job[w].req
  <1>1. PICK f \in File \ taken : taken' = taken \union {f} /\ presigns' = [presigns EXCEPT ![r] = f]
    BY DEF StorePresign
  <1>2. /\ End(w) /\ Active(w)
        /\ UNCHANGED <<requests, packages, files, made>>
    BY DEF StorePresign, Ready, Doing, Active
  <1>3. r \in Request
    BY <1>2 DEF JobInv, JobOK
  <1>4. Unsigned'
    BY <1>1, <1>2 DEF SignedOnceInv, Unsigned, Fresh, Known
  <1>5. FilesApart'
    BY <1>1, <1>2, <1>3 DEF SignedOnceInv, FilesApart, JobInv, SignTypeOK
  <1>. QED
    BY <1>2, <1>4, <1>5, EndsFresh

LEMMA StartPrepareKeepsFresh ==
    ASSUME TypeOK, JobInv, SignedOnceInv, NEW w \in Worker, \A v \in Worker \ {w} : ~Active(v), StartPrepare(w)
    PROVE  SignedOnceInv'
  <1> DEFINE J(r, s, pdf) == [IdleJob EXCEPT !.pc = "status", !.req = r, !.serial = s, !.pdf = pdf,
                                             !.late = s \in acked]
             g == [IdleFrame EXCEPT !.pc = "syncReadK", !.then = "caller"]
  <1>1. PICK r \in Request \ taken, s \in AnySerial, pdf \in BOOLEAN :
            taken' = taken \union {r} /\ job' = [job EXCEPT ![w] = J(r, s, pdf)]
    BY DEF StartPrepare, Await
  <1>2. UNCHANGED <<requests, packages, files, presigns, made>> /\ Become(w, g)
    BY DEF StartPrepare, Await
  <1>3. J(r, s, pdf).op = "prepare" /\ J(r, s, pdf).req = r /\ g.pc = "syncReadK"
    BY DEF IdleJob, IdleFrame
  <1> HIDE DEF J, g
  <1>4. JobFresh(w)'
    BY <1>1, <1>2, <1>3 DEF JobFresh, Active, At, Become, TypeOK, SignedOnceInv, Unsigned, Fresh, JobInv, SignTypeOK
  <1>5. Unsigned' /\ FilesApart'
    BY <1>1, <1>2 DEF SignedOnceInv, Unsigned, FilesApart, Fresh, Known
  <1>. QED
    BY <1>1, <1>4, <1>5, OneJobStep

LEMMA BeginKeepsFresh ==
    ASSUME TypeOK, JobInv, SignedOnceInv, NEW w \in Worker, \A v \in Worker \ {w} : ~Active(v),
           NEW r \in Request, NEW j \in Job, Begin(w, r, j), j.op # "prepare",
           j.op = "finalize" => j.presign = presigns[r]
    PROVE  SignedOnceInv'
  <1> DEFINE k == [j EXCEPT !.pc = "status", !.req = r, !.serial = requests[r].serial,
                            !.pdf = requests[r].pdf, !.late = requests[r].serial \in acked]
             g == [IdleFrame EXCEPT !.pc = "syncReadK", !.then = "caller"]
  <1>1. /\ job' = [job EXCEPT ![w] = k] /\ Become(w, g) /\ Open(r)
        /\ UNCHANGED <<requests, packages, files, presigns, taken, made>>
    BY DEF Begin, Await, MaySign
  <1>2. k.op = j.op /\ k.req = r /\ k.presign = j.presign
    BY DEF Job
  <1>3. g.pc = "syncReadK"
    BY DEF IdleFrame
  <1> HIDE DEF k, g
  <1>4. JobFresh(w)'
    BY <1>1, <1>2, <1>3 DEF JobFresh, Active, At, Become, TypeOK, Open, JobInv, SignTypeOK
  <1>5. Unsigned' /\ FilesApart'
    BY <1>1 DEF SignedOnceInv, Unsigned, FilesApart, Fresh, Known
  <1>. QED
    BY <1>1, <1>4, <1>5, OneJobStep

LEMMA StartSigningKeepsFresh ==
    ASSUME TypeOK, JobInv, SignedOnceInv, NEW w \in Worker, \A v \in Worker : ~Active(v), StartSigning(w)
    PROVE  SignedOnceInv'
  <1>2. CASE StartPrepare(w)
    BY <1>2, StartPrepareKeepsFresh
  <1>3. CASE StartSign(w) \/ StartRemoteSign(w) \/ StartPresign(w)
    <2>1. PICK r \in Request, op \in {"canonical", "pdf", "presign"} : Begin(w, r, [IdleJob EXCEPT !.op = op])
      BY <1>3 DEF StartSign, StartRemoteSign, StartPresign
    <2> DEFINE j == [IdleJob EXCEPT !.op = op]
    <2>2. j \in Job /\ j.op = op /\ Begin(w, r, j)
      BY <2>1, IdleJobType DEF Job, Operation
    <2> HIDE DEF j
    <2>. QED
      BY <2>2, BeginKeepsFresh
  <1>4. CASE StartSubmit(w)
    <2>1. PICK r \in Request, g \in BOOLEAN : Begin(w, r, [IdleJob EXCEPT !.op = "submit", !.genuine = g])
      BY <1>4 DEF StartSubmit
    <2> DEFINE j == [IdleJob EXCEPT !.op = "submit", !.genuine = g]
    <2>2. j \in Job /\ j.op = "submit" /\ Begin(w, r, j)
      BY <2>1, IdleJobType DEF Job, Operation
    <2> HIDE DEF j
    <2>. QED
      BY <2>2, BeginKeepsFresh
  <1>5. CASE StartFinalize(w)
    <2>1. PICK r \in Request, g \in BOOLEAN :
              Begin(w, r, [IdleJob EXCEPT !.op = "finalize", !.genuine = g, !.presign = presigns[r]])
      BY <1>5 DEF StartFinalize
    <2> DEFINE j == [IdleJob EXCEPT !.op = "finalize", !.genuine = g, !.presign = presigns[r]]
    <2>2. j \in Job /\ j.op = "finalize" /\ j.presign = presigns[r] /\ Begin(w, r, j)
      <3>1. presigns[r] \in File \union {None}
        BY DEF JobInv, SignTypeOK
      <3>. QED
        BY <2>1, <3>1, IdleJobType DEF Job, Operation
    <2> HIDE DEF j
    <2>. QED
      BY <2>2, BeginKeepsFresh
  <1>6. ASSUME UNCHANGED job, Unsigned', FilesApart' PROVE SignedOnceInv'
    BY <1>6 DEF SignedOnceInv, JobFresh, Active
  <1>7. CASE Confirm(w)
    <2>1. PICK r \in Request : Known(r) /\ requests' = [requests EXCEPT ![r].confirmed = TRUE]
      BY <1>7 DEF Confirm
    <2>2. UNCHANGED <<packages, files, presigns, taken, job, made>>
      BY <1>7 DEF Confirm
    <2>3. requests[r] \in RequestRecord
      BY <2>1 DEF Known, JobInv, SignTypeOK
    <2>4. \A q \in Request : Known(q)' => Known(q) /\ requests'[q].signed = requests[q].signed
      BY <2>1, <2>3 DEF Known, RequestRecord, JobInv, SignTypeOK
    <2>. QED
      BY <1>6, <2>2, <2>4 DEF SignedOnceInv, Unsigned, FilesApart, Fresh
  <1>8. CASE FinalizeExpired(w)
    <2>1. PICK r \in Request : presigns' = [presigns EXCEPT ![r] = None]
      BY <1>8 DEF FinalizeExpired
    <2>2. UNCHANGED <<requests, packages, files, taken, job, made>>
      BY <1>8 DEF FinalizeExpired
    <2>. QED
      BY <1>6, <2>1, <2>2, DropKeeps
  <1>. QED
    BY <1>2, <1>3, <1>4, <1>5, <1>7, <1>8 DEF StartSigning

LEMMA ElsewhereKeepsFresh ==
    ASSUME TypeOK, JobInv, SignedOnceInv, NEW w \in Worker, Elsewhere(w)
    PROVE  SignedOnceInv'
  <1>1. UNCHANGED <<requests, packages, files, presigns, taken, made>>
    BY DEF Elsewhere
  <1>2. \A v \in Worker \ {w} : frame'[v] = frame[v]
    BY StartShape, HandleShape DEF Elsewhere, Moves
  <1>3. ASSUME NEW v \in Worker, job'[v].pc # "idle" PROVE job'[v] = job[v] /\ ~At(v, "idle")'
    BY <1>2, <1>3, IdleJobType DEF Elsewhere, At, SignedOnceInv, JobFresh, Active, JobInv, SignTypeOK
  <1>4. \A v \in Worker : JobFresh(v)'
    BY <1>1, <1>3 DEF SignedOnceInv, JobFresh, Active, Fresh
  <1>. QED
    BY <1>1, <1>4 DEF SignedOnceInv, Unsigned, FilesApart, Fresh, Known

LEMMA CrashKeepsFresh ==
    ASSUME SignedOnceInv, SignCrash
    PROVE  SignedOnceInv'
  BY SigningAssumption, IdleJobType
  DEF SignCrash, SignedOnceInv, Unsigned, FilesApart, JobFresh, Active, Fresh, Known

LEMMA SignedOnceInit == SignInit => SignedOnceInv
  BY SigningAssumption, IdleJobType
  DEF SignInit, SignedOnceInv, Unsigned, FilesApart, JobFresh, Active, Fresh, Known

LEMMA StepKeepsFresh ==
    Sequential = TRUE /\ TypeOK /\ AloneInv /\ JobInv /\ SignedOnceInv /\ [SignNext]_everything => SignedOnceInv'
  <1> SUFFICES ASSUME Sequential = TRUE, TypeOK, AloneInv, JobInv, SignedOnceInv, [SignNext]_everything
               PROVE  SignedOnceInv'
    OBVIOUS
  <1>1. ASSUME NEW w \in Worker, StartSigning(w) PROVE SignedOnceInv'
    <2>1. \A v \in Worker : ~Active(v)
      BY <1>1, StartsFree, OnlyJob
    <2>. QED
      BY <1>1, <2>1, StartSigningKeepsFresh
  <1>2. ASSUME NEW w \in Worker, HandleSigning(w) PROVE SignedOnceInv'
    <2>1. \A v \in Worker \ {w} : ~Active(v)
      BY <1>2, HandlesActive, OnlyJob DEF At
    <2>. QED
      BY <1>2, <2>1, RefusalKeepsFresh, PreparedKeepsFresh, GrantKeepsFresh, StoreKeepsFresh,
         StorePresignKeepsFresh DEF HandleSigning
  <1>3. ASSUME NEW w \in Worker, Elsewhere(w) PROVE SignedOnceInv'
    BY <1>3, ElsewhereKeepsFresh
  <1>4. CASE SignCrash
    BY <1>4, CrashKeepsFresh
  <1>5. CASE UNCHANGED <<frame, requests, packages, files, presigns, taken, job, made>>
    BY <1>5 DEF SignedOnceInv, Unsigned, FilesApart, JobFresh, Active, Fresh, Known, At
  <1>. QED
    BY <1>1, <1>2, <1>3, <1>4, <1>5 DEF SignNext, Expire, Lapse, vars, signVars, everything

(* What clients that wait for each answer rest on.                            *)
SequenceInv == TypeOK /\ AloneInv /\ JobInv /\ SignedOnceInv

LEMMA SequenceInit == SignInit => SequenceInv
  <1>1. SignInit => TypeOK /\ AloneInv
    BY InitType, AloneInit DEF SignInit
  <1>. QED
    BY <1>1, SignInitInv, SignedOnceInit DEF SequenceInv

LEMMA SequenceStep == Sequential = TRUE /\ SequenceInv /\ [SignNext]_everything => SequenceInv'
  BY SignStepType, SignStepKeepsAlone, StepKeepsJobs, StepKeepsFresh DEF SequenceInv

(* A request is signed once, whichever of the five ways of signing is used,   *)
(* when clients wait for each answer; a restart forgets the request together  *)
(* with its signature, and ids are drawn fresh (signing_service.py:252, 313,  *)
(* 379, 480, 573).                                                            *)
THEOREM SignedAtMostOnce ==
    ASSUME Sequential = TRUE
    PROVE  SignSpec => []OneSignaturePerRequest
  <1>1. SequenceInv => OneSignaturePerRequest
    BY DEF SequenceInv, SignedOnceInv, Unsigned, OneSignaturePerRequest
  <1>. QED
    BY <1>1, SequenceInit, SequenceStep, PTL DEF SignSpec
-----------------------------------------------------------------------------
(* The handlers keep the promise of SigningPromise.                           *)

PhaseOf == [r \in Request |-> Phase(r)]
KeptOf == [r \in Request |-> Kept(r)]
FilesOf(r) == {f \in File : files[f] = r}

LEMMA FreshKeepsNothing ==
    ASSUME NEW r \in Request, Fresh(r)
    PROVE  Kept(r) = 0
  <1>1. FilesOf(r) = {} /\ r \notin packages
    BY DEF Fresh, FilesOf
  <1>. QED
    BY <1>1, FS_EmptySet DEF Kept, FilesOf

(* What is on file for a request is counted anew only when it changes.        *)
LEMMA KeptElsewhere ==
    ASSUME NEW r \in Request, FilesOf(r)' = FilesOf(r), r \in packages' <=> r \in packages
    PROVE  Kept(r)' = Kept(r)
  BY DEF Kept, FilesOf

LEMMA SameKept ==
    ASSUME UNCHANGED <<packages, files>>
    PROVE  UNCHANGED KeptOf
  BY KeptElsewhere DEF KeptOf, FilesOf

(* The state of one request moves.                                            *)
LEMMA PhaseMove ==
    ASSUME NEW r \in Request, NEW to, Phase(r)' = to,
           \A q \in Request \ {r} : Phase(q)' = Phase(q)
    PROVE  PhaseOf' = [PhaseOf EXCEPT ![r] = to]
  BY DEF PhaseOf

LEMMA SameRequests ==
    ASSUME UNCHANGED requests
    PROVE  UNCHANGED PhaseOf
  BY DEF PhaseOf, Phase, Known

LEMMA PreparedKeepsPromise ==
    ASSUME JobInv, SignedOnceInv, NEW w \in Worker, Prepared(w)
    PROVE  [Promise!PromiseNext]_(Promise!promiseVars)
  <1> DEFINE rec == [serial |-> job[w].serial, pdf |-> job[w].pdf, confirmed |-> FALSE, signed |-> FALSE]
  <1>0. PICK r \in Request : r = job[w].req
    BY DEF Prepared, Doing, Active, JobInv, JobOK
  <1>1. /\ requests' = [requests EXCEPT ![r] = rec] /\ UNCHANGED <<packages, files>>
        /\ Active(w) /\ job[w].op = "prepare"
    BY <1>0 DEF Prepared, Doing, Active
  <1>2. ~Known(r) /\ rec \in RequestRecord
    BY <1>0, <1>1 DEF JobInv, JobOK, Job, SignTypeOK, RequestRecord
  <1>3. Phase(r) = "unknown" /\ Phase(r)' = "prepared"
    BY <1>1, <1>2, SigningAssumption DEF Phase, Known, JobInv, SignTypeOK
  <1>4. \A q \in Request \ {r} : Phase(q)' = Phase(q)
    BY <1>1 DEF Phase, Known, JobInv, SignTypeOK
  <1>5. PhaseOf[r] = "unknown" /\ PhaseOf' = [PhaseOf EXCEPT ![r] = "prepared"]
    BY <1>2, <1>3, <1>4, PhaseMove DEF PhaseOf
  <1>6. UNCHANGED KeptOf
    BY <1>1, SameKept
  <1>7. Promise!Prepare(r)
    BY <1>5, <1>6 DEF Promise!Prepare, Promise!Move, PhaseOf, KeptOf
  <1>. QED
    BY <1>2, <1>7 DEF Promise!PromiseNext

LEMMA ConfirmKeepsPromise ==
    ASSUME JobInv, NEW w \in Worker, Confirm(w)
    PROVE  [Promise!PromiseNext]_(Promise!promiseVars)
  <1>1. PICK r \in Request : Known(r) /\ requests' = [requests EXCEPT ![r].confirmed = TRUE]
    BY DEF Confirm
  <1>2. requests[r] \in RequestRecord /\ UNCHANGED KeptOf
    BY <1>1, SameKept DEF Confirm, Known, JobInv, SignTypeOK
  <1>3. /\ requests'[r] \in RequestRecord
        /\ requests'[r].confirmed = TRUE /\ requests'[r].signed = requests[r].signed
    BY <1>1, <1>2 DEF RequestRecord, JobInv, SignTypeOK
  <1>4. Known(r)'
    BY <1>3, SigningAssumption DEF Known
  <1>5. \A q \in Request \ {r} : Phase(q)' = Phase(q)
    BY <1>1 DEF Phase, Known, JobInv, SignTypeOK
  <1>6. \/ Phase(r) = "prepared" /\ Phase(r)' = "confirmed"
        \/ Phase(r)' = Phase(r)
    BY <1>1, <1>3, <1>4 DEF Phase
  <1>7. CASE Phase(r) = "prepared" /\ Phase(r)' = "confirmed"
    <2>1. PhaseOf[r] = "prepared" /\ PhaseOf' = [PhaseOf EXCEPT ![r] = "confirmed"]
      BY <1>5, <1>7, PhaseMove DEF PhaseOf
    <2>2. Promise!Confirm(r)
      BY <1>2, <2>1 DEF Promise!Confirm, Promise!Move, PhaseOf, KeptOf
    <2>. QED
      BY <2>2 DEF Promise!PromiseNext
  <1>8. CASE Phase(r)' = Phase(r)
    <2>1. UNCHANGED PhaseOf
      BY <1>5, <1>8 DEF PhaseOf
    <2>. QED
      BY <1>2, <2>1 DEF Promise!promiseVars, PhaseOf, KeptOf
  <1>. QED
    BY <1>6, <1>7, <1>8

(* Exactly one document is on file for the request once it is signed: the     *)
(* package, or the file the signature was stored in.                          *)
LEMMA StoreKeepsOne ==
    ASSUME JobInv, SignedOnceInv, NEW w \in Worker, StorePackage(w) \/ StorePdf(w) \/ Finalize(w)
    PROVE  KeptOf' = [KeptOf EXCEPT ![job[w].req] = 1] /\ KeptOf[job[w].req] = 0
  <1>0. PICK r \in Request : r = job[w].req
    BY StoreShape
  <1>1. Fresh(r) /\ files \in [File -> Request \union {None}]
    BY <1>0, StoreShape DEF JobInv, SignTypeOK
  <1>2. Kept(r) = 0 /\ FilesOf(r) = {} /\ r \notin packages
    BY <1>1, FreshKeepsNothing DEF Fresh, FilesOf
  <1>3. \/ packages' = packages \union {r} /\ files' = files
        \/ packages' = packages /\ \E f \in File : files' = [files EXCEPT ![f] = r]
    BY <1>0, StoreShape
  <1>4. \A f \in File : files'[f] # files[f] => files[f] = None /\ files'[f] = r
    BY <1>0, StoreFiles
  <1>5. ASSUME NEW q \in Request, q # r PROVE Kept(q)' = Kept(q)
    <2>1. FilesOf(q)' = FilesOf(q)
      BY <1>4, <1>5, SigningAssumption DEF FilesOf
    <2>2. q \in packages' <=> q \in packages
      BY <1>3, <1>5
    <2>. QED
      BY <2>1, <2>2, KeptElsewhere
  <1>6. Kept(r)' = 1
    <2>1. CASE packages' = packages \union {r} /\ files' = files
      <3>1. FilesOf(r)' = {} /\ r \in packages'
        BY <1>2, <2>1 DEF FilesOf
      <3>. QED
        BY <3>1, FS_EmptySet DEF Kept, FilesOf
    <2>2. ASSUME packages' = packages, NEW f \in File, files' = [files EXCEPT ![f] = r]
          PROVE  Kept(r)' = 1
      <3>1. FilesOf(r)' = {f} /\ r \notin packages'
        BY <1>1, <1>2, <2>2 DEF FilesOf
      <3>2. Cardinality({f}) = 1
        BY FS_Singleton
      <3>. QED
        BY <3>1, <3>2 DEF Kept, FilesOf
    <2>. QED
      BY <1>3, <2>1, <2>2
  <1>. QED
    BY <1>0, <1>2, <1>5, <1>6 DEF KeptOf

LEMMA StoreKeepsPromise ==
    ASSUME JobInv, SignedOnceInv, NEW w \in Worker, StorePackage(w) \/ StorePdf(w) \/ Finalize(w)
    PROVE  [Promise!PromiseNext]_(Promise!promiseVars)
  <1>0. PICK r \in Request : r = job[w].req
    BY StoreShape
  <1>1. /\ Known(r) /\ requests[r].confirmed /\ ~requests[r].signed
        /\ requests[r] \in RequestRecord /\ requests' = [requests EXCEPT ![r].signed = TRUE]
    BY <1>0, StoreShape
  <1>2. requests'[r] \in RequestRecord /\ requests'[r].signed = TRUE
    BY <1>1 DEF RequestRecord, JobInv, SignTypeOK
  <1>3. Phase(r) = "confirmed" /\ Phase(r)' = "signed"
    BY <1>1, <1>2, SigningAssumption DEF Phase, Known
  <1>4. \A q \in Request \ {r} : Phase(q)' = Phase(q)
    BY <1>1 DEF Phase, Known, JobInv, SignTypeOK
  <1>5. PhaseOf[r] = "confirmed" /\ PhaseOf' = [PhaseOf EXCEPT ![r] = "signed"]
    BY <1>1, <1>3, <1>4, PhaseMove DEF PhaseOf
  <1>6. KeptOf' = [KeptOf EXCEPT ![r] = 1] /\ KeptOf[r] = 0
    BY <1>0, StoreKeepsOne
  <1>7. KeptOf' = [KeptOf EXCEPT ![r] = @ + 1]
    BY <1>6
  <1>8. Promise!Sign(r)
    BY <1>5, <1>7 DEF Promise!Sign, Promise!Move, PhaseOf, KeptOf
  <1>. QED
    BY <1>1, <1>8 DEF Promise!PromiseNext

LEMMA StepKeepsPromise ==
    CanCrash = FALSE /\ JobInv /\ SignedOnceInv /\ [SignNext]_everything
        => [Promise!PromiseNext]_(Promise!promiseVars)
  <1> SUFFICES ASSUME CanCrash = FALSE, JobInv, SignedOnceInv, [SignNext]_everything
               PROVE  [Promise!PromiseNext]_(Promise!promiseVars)
    OBVIOUS
  <1>1. CASE UNCHANGED <<requests, packages, files>>
    <2>1. UNCHANGED PhaseOf /\ UNCHANGED KeptOf
      BY <1>1, SameRequests, SameKept
    <2>. QED
      BY <2>1 DEF Promise!promiseVars, PhaseOf, KeptOf
  <1>2. ASSUME NEW w \in Worker, StartSigning(w)
        PROVE  Confirm(w) \/ UNCHANGED <<requests, packages, files>>
    BY <1>2 DEF StartSigning, StartPrepare, StartSign, StartRemoteSign, StartSubmit, StartPresign,
                StartFinalize, FinalizeExpired, Begin
  <1>3. ASSUME NEW w \in Worker, HandleSigning(w)
        PROVE  \/ Prepared(w) \/ StorePackage(w) \/ StorePdf(w) \/ Finalize(w)
               \/ UNCHANGED <<requests, packages, files>>
    BY <1>3 DEF HandleSigning, Refuse, Grant, RecordMissing, SubmitRejected, StorePresign, FinalizeRejected
  <1>4. \/ \E w \in Worker : StartSigning(w) \/ HandleSigning(w)
        \/ UNCHANGED <<requests, packages, files>>
    BY DEF SignNext, Elsewhere, Expire, SignCrash, Crash, signVars, everything
  <1>. QED
    BY <1>1, <1>2, <1>3, <1>4, PreparedKeepsPromise, ConfirmKeepsPromise, StoreKeepsPromise

LEMMA PromiseStarts == SignInit => Promise!PromiseInit
  <1> SUFFICES ASSUME SignInit PROVE Promise!PromiseInit
    OBVIOUS
  <1>1. \A r \in Request : Phase(r) = "unknown"
    BY DEF SignInit, Phase, Known
  <1>2. \A r \in Request : Fresh(r)
    BY SigningAssumption DEF SignInit, Fresh
  <1>3. \A r \in Request : Kept(r) = 0
    BY <1>2, FreshKeepsNothing
  <1>. QED
    BY <1>1, <1>3 DEF Promise!PromiseInit

(* A request is signed after it was confirmed, once, and exactly one document *)
(* is then on file for it, when clients wait for each answer and the service  *)
(* is not restarted: every step of the detailed service is a step of          *)
(* SigningPromise or leaves what it promises as it is.                        *)
THEOREM KeepsPromise ==
    ASSUME Sequential = TRUE, CanCrash = FALSE
    PROVE  SignSpec => PromiseSpec
  <1>1. SequenceInv /\ [SignNext]_everything => [Promise!PromiseNext]_(Promise!promiseVars)
    BY StepKeepsPromise DEF SequenceInv
  <1>. QED
    BY <1>1, PromiseStarts, SequenceInit, SequenceStep, PTL DEF SignSpec, PromiseSpec, Promise!PromiseSpec
=============================================================================
