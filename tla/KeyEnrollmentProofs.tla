------------------------- MODULE KeyEnrollmentProofs -------------------------
(* Proofs about KeyEnrollment, for every value of its constants.              *)
EXTENDS KeyEnrollment, SequentialLifecycleProofs

(* How the two frames of a worker go together.  A challenge request keeps its *)
(* lifecycle frame at "caller", except while create_enrollment runs in it;    *)
(* once that has started, the frame names the enrollment.                     *)
Linked(w) ==
    /\ attempt[w].pc \in {"prove", "open", "flush"} => frame[w].pc = "caller"
    /\ attempt[w].pc = "called" =>
          /\ frame[w].pc \in {"enrollOpen", "enrollFlush", "caller"}
          /\ frame[w].then = "caller"
          /\ frame[w].enr # None
    /\ attempt[w].pc \in {"open", "flush"} /\ attempt[w].issue => frame[w].enr # None
    /\ attempt[w].pc \in {"prove", "called"} => attempt[w].chal \in Challenge

(* A challenge that may still be tried has an attempt left.                   *)
AttemptLeft(r) == r.status = "issued" => r.failed < MaxAttempts

(* AttemptsBounded is about the file; a handler writes back the list it read, *)
(* so the invariant covers every list a worker holds, and says that the       *)
(* record a proof is about to be checked against is still open in that list.  *)
KeyInv ==
    /\ TypeOK
    /\ KeyTypeOK
    /\ \A w \in Worker : Linked(w)
    /\ \A c \in Challenge : AttemptLeft(challenges[c])
    /\ \A w \in Worker, c \in Challenge : AttemptLeft(attempt[w].snap[c])
    /\ \A w \in Worker : attempt[w].pc = "prove" => attempt[w].snap[attempt[w].chal].status = "issued"

ListOK(list) ==
    /\ list \in [Challenge -> ChallengeRecord]
    /\ \A c \in Challenge : AttemptLeft(list[c])

LEMMA ListChange ==
    ASSUME NEW list, ListOK(list), NEW c \in Challenge, NEW r \in ChallengeRecord, AttemptLeft(r)
    PROVE  ListOK([list EXCEPT ![c] = r])
  BY DEF ListOK

LEMMA AbsentChallengeType ==
    ListOK(NoChallenges) /\ IdleAttempt \in Attempt
  BY ChallengeAssumption, ConstantsAssumption
  DEF ListOK, NoChallenges, AbsentChallenge, ChallengeRecord, AttemptLeft, IdleAttempt, Attempt

LEMMA KeyInitInv == KeyInit => KeyInv
  <1> SUFFICES ASSUME KeyInit PROVE KeyInv
    OBVIOUS
  <1>1. TypeOK
    BY InitType DEF KeyInit
  <1>2. KeyTypeOK
    BY AbsentChallengeType, ChallengeAssumption DEF KeyInit, KeyTypeOK, ListOK
  <1>3. \A w \in Worker : attempt[w].pc = "idle" /\ attempt[w].snap = NoChallenges
    BY DEF KeyInit, IdleAttempt
  <1>. QED
    BY <1>1, <1>2, <1>3, AbsentChallengeType DEF KeyInv, Linked, KeyInit, ListOK

(* The attempt of a worker is a typed record with a well-formed list.         *)
LEMMA AttemptTypes ==
    ASSUME KeyInv, NEW w \in Worker
    PROVE  /\ attempt[w] \in Attempt /\ ListOK(attempt[w].snap)
           /\ attempt[w].pc \in {"idle", "prove", "called", "open", "flush"}
           /\ attempt[w].issue \in BOOLEAN /\ attempt[w].genuine \in BOOLEAN
           /\ attempt[w].activate \in BOOLEAN
           /\ Linked(w)
  BY DEF KeyInv, KeyTypeOK, Attempt, ListOK

(* A step of one worker that leaves KeyInv's parts in order.                  *)
LEMMA CallStep ==
    ASSUME KeyInv, NEW w \in Worker, NEW a \in Attempt, Call(w, a), ListOK(a.snap),
           TypeOK', ListOK(challenges'), clock' \in 0 .. MaxClock, drawn' \subseteq Challenge,
           uses' \in [Challenge -> Nat], failures' \in [Challenge -> 0 .. MaxAttempts + 1],
           \A v \in Worker \ {w} : frame'[v] = frame[v],
           Linked(w)',
           a.pc = "prove" => a.snap[a.chal].status = "issued"
    PROVE  KeyInv'
  <1>1. attempt' = [attempt EXCEPT ![w] = a] /\ attempt \in [Worker -> Attempt]
    BY DEF Call, KeyInv, KeyTypeOK
  <1>2. KeyTypeOK'
    BY <1>1 DEF KeyTypeOK, ListOK
  <1>3. \A v \in Worker : Linked(v)'
    BY <1>1 DEF KeyInv, Linked
  <1>4. \A v \in Worker, c \in Challenge : AttemptLeft(attempt'[v].snap[c])
    BY <1>1 DEF KeyInv, ListOK
  <1>5. \A v \in Worker : attempt'[v].pc = "prove" => attempt'[v].snap[attempt'[v].chal].status = "issued"
    BY <1>1 DEF KeyInv
  <1>. QED
    BY <1>2, <1>3, <1>4, <1>5 DEF KeyInv, ListOK, AttemptLeft

(* The requests of this service.  Each starts in an idle worker, with a       *)
(* frame at "caller".                                                         *)
LEMMA CallerFrame ==
    ASSUME TypeOK, NEW w \in Worker, Become(w, [IdleFrame EXCEPT !.pc = "caller"]),
           UNCHANGED <<stores, minted, owner, lapsed, acked>>
    PROVE  /\ TypeOK'
           /\ frame'[w].pc = "caller"
           /\ \A v \in Worker \ {w} : frame'[v] = frame[v]
  <1> DEFINE f == [IdleFrame EXCEPT !.pc = "caller"]
  <1>1. f \in FrameRecord /\ f.pc = "caller"
    BY IdleFrameType, Labels DEF FrameRecord
  <1>2. Addressed(f)
    BY IdleFrameType DEF FrameRecord, Addressed, ForEnrollment, ForSerial
  <1> HIDE DEF f
  <1>3. Become(w, f)
    BY DEF f
  <1>4. TypeOK'
    BY <1>1, <1>2, <1>3, BecomeType, ReadStepType
  <1>. QED
    BY <1>1, <1>3, <1>4 DEF Become, TypeOK

LEMMA StartKeyKeepsInv ==
    ASSUME KeyInv, NEW w \in Worker,
           StartChallenge(w) \/ SubmitUsable(w) \/ SubmitClosing(w)
    PROVE  KeyInv'
  <1> USE DEF KeyInv, KeyTypeOK
  <1>1. /\ TypeOK'
        /\ frame'[w].pc = "caller"
        /\ \A v \in Worker \ {w} : frame'[v] = frame[v]
    BY CallerFrame DEF StartChallenge, SubmitUsable, SubmitClosing
  <1>2. /\ ListOK(challenges') /\ clock' \in 0 .. MaxClock /\ uses' \in [Challenge -> Nat]
        /\ failures' \in [Challenge -> 0 .. MaxAttempts + 1]
    BY DEF StartChallenge, SubmitUsable, SubmitClosing, ListOK
  <1>3. CASE StartChallenge(w)
    <2> DEFINE Rec(em) == [status |-> "issued", email |-> em, failed |-> 0,
                           expires |-> clock + TTL, enr |-> None]
               A(c, em) == [IdleAttempt EXCEPT !.pc = "open", !.snap = [challenges EXCEPT ![c] = Rec(em)]]
    <2>1. PICK c \in Challenge, em \in Email : drawn' = drawn \union {c} /\ Call(w, A(c, em))
      BY <1>3 DEF StartChallenge
    <2>2. Rec(em) \in ChallengeRecord /\ AttemptLeft(Rec(em))
      BY ChallengeAssumption DEF ChallengeRecord, AttemptLeft
    <2> HIDE DEF Rec
    <2>3. ListOK([challenges EXCEPT ![c] = Rec(em)])
      BY <2>2 DEF ListOK
    <2>4. /\ A(c, em) \in Attempt /\ A(c, em).pc = "open" /\ A(c, em).issue = FALSE
          /\ A(c, em).snap = [challenges EXCEPT ![c] = Rec(em)]
      BY <2>3, AbsentChallengeType DEF Attempt, ListOK, IdleAttempt
    <2> HIDE DEF A
    <2>5. Linked(w)'
      BY <1>1, <2>1, <2>4 DEF Linked, Call
    <2>. QED
      BY <1>1, <1>2, <2>1, <2>3, <2>4, <2>5, CallStep
  <1>4. CASE SubmitUsable(w)
    <2> DEFINE A(c, g, i, act) ==
                 [pc |-> "prove", chal |-> c, genuine |-> g, issue |-> i, activate |-> act, snap |-> challenges]
    <2>1. PICK c \in drawn, g \in BOOLEAN, i \in BOOLEAN, act \in BOOLEAN :
             Usable(challenges[c]) /\ Call(w, A(c, g, i, act))
      BY <1>4 DEF SubmitUsable
    <2>2. A(c, g, i, act) \in Attempt /\ ListOK(challenges) /\ challenges[c].status = "issued"
      BY <2>1 DEF Attempt, ListOK, Usable
    <2>3. Linked(w)'
      BY <1>1, <2>1 DEF Linked, Call
    <2>4. drawn' = drawn
      BY <1>4 DEF SubmitUsable
    <2>. QED
      BY <1>1, <1>2, <2>1, <2>2, <2>3, <2>4, CallStep
  <1>5. CASE SubmitClosing(w)
    <2> DEFINE St(c) == IF Expired(challenges[c]) THEN "expired" ELSE "locked"
               L(c) == [challenges EXCEPT ![c].status = St(c)]
               A(c) == [IdleAttempt EXCEPT !.pc = "open", !.snap = L(c)]
    <2>1. PICK c \in drawn : Call(w, A(c))
      BY <1>5 DEF SubmitClosing
    <2>2. St(c) \in {"expired", "locked"} /\ c \in Challenge
      OBVIOUS
    <2> HIDE DEF St
    <2>3. ListOK(L(c))
      <3> DEFINE r == [challenges[c] EXCEPT !.status = St(c)]
      <3>1. r \in ChallengeRecord /\ AttemptLeft(r)
        BY <2>2 DEF ChallengeRecord, AttemptLeft
      <3>2. L(c) = [challenges EXCEPT ![c] = r]
        BY <2>2
      <3>3. ListOK(challenges)
        BY DEF ListOK
      <3>. QED
        BY <2>2, <3>1, <3>2, <3>3, ListChange
    <2>4. A(c) \in Attempt /\ A(c).pc = "open" /\ A(c).issue = FALSE /\ A(c).snap = L(c)
      BY <2>3, AbsentChallengeType DEF Attempt, ListOK, IdleAttempt
    <2> HIDE DEF A, L
    <2>5. Linked(w)'
      BY <1>1, <2>1, <2>4 DEF Linked, Call
    <2>6. drawn' = drawn
      BY <1>5 DEF SubmitClosing
    <2>. QED
      BY <1>1, <1>2, <2>1, <2>3, <2>4, <2>5, <2>6, CallStep
  <1>. QED
    BY <1>3, <1>4, <1>5

LEMMA ProveGenuineKeepsInv ==
    ASSUME KeyInv, NEW w \in Worker, ProveGenuine(w)
    PROVE  KeyInv'
  <1> DEFINE a == attempt[w]
             b == [a EXCEPT !.pc = "called"]
  <1>1. /\ a \in Attempt /\ a.pc = "prove" /\ a.chal \in Challenge /\ ListOK(a.snap)
        /\ a.snap[a.chal].email \in Email /\ a.genuine \in BOOLEAN
    BY AttemptTypes DEF ProveGenuine, Doing, Linked, ListOK, ChallengeRecord
  <1>2. CreateEnrollment(w, a.snap[a.chal].email, a.genuine, FALSE, "caller")
    BY DEF ProveGenuine
  <1>3. /\ TypeOK'
        /\ frame'[w].pc = "enrollOpen" /\ frame'[w].then = "caller" /\ frame'[w].enr # None
        /\ \A v \in Worker \ {w} : frame'[v] = frame[v]
    BY <1>1, <1>2, CreateEnrollmentType DEF KeyInv
  <1>4. Call(w, b) /\ b \in Attempt /\ b.pc = "called" /\ b.snap = a.snap /\ b.chal = a.chal
    BY <1>1 DEF ProveGenuine, Attempt
  <1>5. /\ ListOK(challenges') /\ clock' \in 0 .. MaxClock /\ drawn' \subseteq Challenge
        /\ uses' \in [Challenge -> Nat] /\ failures' \in [Challenge -> 0 .. MaxAttempts + 1]
    BY <1>1 DEF ProveGenuine, KeyInv, KeyTypeOK, ListOK
  <1> HIDE DEF a, b
  <1>6. Linked(w)'
    BY <1>1, <1>3, <1>4 DEF Linked, Call, KeyInv, KeyTypeOK
  <1>. QED
    BY <1>1, <1>3, <1>4, <1>5, <1>6, CallStep

(* Counting a failure keeps a record well-formed while it has attempts left.  *)
LEMMA FailedType ==
    ASSUME NEW r \in ChallengeRecord, r.failed < MaxAttempts
    PROVE  Failed(r) \in ChallengeRecord /\ AttemptLeft(Failed(r))
  <1> DEFINE n == r.failed + 1
             st == IF n >= MaxAttempts THEN "locked" ELSE r.status
  <1>1. n \in 0 .. MaxAttempts /\ (st = "issued" => n < MaxAttempts)
    BY ChallengeAssumption DEF ChallengeRecord
  <1>2. st \in {"absent", "issued", "used", "expired", "locked"}
    BY DEF ChallengeRecord
  <1>3. Failed(r) = [r EXCEPT !.failed = n, !.status = st]
    BY DEF Failed
  <1> HIDE DEF n, st
  <1>. QED
    BY <1>1, <1>2, <1>3 DEF ChallengeRecord, AttemptLeft

LEMMA ProveFailsKeepsInv ==
    ASSUME KeyInv, NEW w \in Worker, ProveFails(w)
    PROVE  KeyInv'
  <1> DEFINE a == attempt[w]
             r == a.snap[a.chal]
             L == [a.snap EXCEPT ![a.chal] = Failed(r)]
             b == [a EXCEPT !.pc = "open", !.issue = FALSE, !.snap = L]
  <1>1. a \in Attempt /\ a.pc = "prove" /\ a.chal \in Challenge /\ ListOK(a.snap)
    BY AttemptTypes DEF ProveFails, Doing, Linked
  <1>2. r \in ChallengeRecord /\ r.failed < MaxAttempts
    BY <1>1 DEF ListOK, AttemptLeft, KeyInv
  <1>3. ListOK(L)
    BY <1>1, <1>2, FailedType, ListChange
  <1>4. Call(w, b)
    <2>1. [a EXCEPT !.pc = "open", !.issue = FALSE, !.snap[a.chal] = Failed(r)] = b
      BY <1>1 DEF Attempt
    <2>. QED
      BY <2>1 DEF ProveFails
  <1> HIDE DEF L
  <1>5. b \in Attempt /\ b.pc = "open" /\ b.snap = L /\ b.issue = FALSE
    BY <1>1, <1>3 DEF Attempt, ListOK
  <1>6. failures' \in [Challenge -> 0 .. MaxAttempts + 1]
    <2>1. ASSUME NEW c \in Challenge
          PROVE  (IF failures[c] > MaxAttempts THEN failures[c] ELSE failures[c] + 1) \in 0 .. MaxAttempts + 1
      BY ChallengeAssumption DEF KeyInv, KeyTypeOK
    <2>. QED
      BY <1>1, <2>1 DEF ProveFails, KeyInv, KeyTypeOK
  <1>7. /\ TypeOK' /\ ListOK(challenges') /\ clock' \in 0 .. MaxClock /\ drawn' \subseteq Challenge
        /\ uses' \in [Challenge -> Nat] /\ frame' = frame
    BY DEF ProveFails, vars, stores, KeyInv, KeyTypeOK, ListOK, TypeOK
  <1>8. Linked(w)'
    BY <1>1, <1>4, <1>5, <1>7, AttemptTypes DEF Linked, Call, KeyInv, KeyTypeOK
  <1>. QED
    BY <1>3, <1>4, <1>5, <1>6, <1>7, <1>8, CallStep

LEMMA MarkUsedKeepsInv ==
    ASSUME KeyInv, NEW w \in Worker, MarkUsed(w)
    PROVE  KeyInv'
  <1> DEFINE a == attempt[w]
             r == UsedFor(a.snap[a.chal], frame[w].enr)
             L == [a.snap EXCEPT ![a.chal] = r]
             b == [a EXCEPT !.pc = "open", !.snap = L]
  <1>1. /\ a \in Attempt /\ a.pc = "called" /\ a.chal \in Challenge /\ ListOK(a.snap)
        /\ frame[w].enr # None /\ frame[w].enr \in AnyEnrollment \union {None}
        /\ frame[w].pc = "caller"
    BY AttemptTypes, FrameTypes DEF MarkUsed, Doing, At, Linked, KeyInv
  <1>2. r \in ChallengeRecord /\ AttemptLeft(r)
    BY <1>1 DEF ListOK, ChallengeRecord, AttemptLeft, UsedFor
  <1>3. ListOK(L)
    BY <1>1, <1>2, ListChange
  <1>4. Call(w, b)
    <2>1. [a EXCEPT !.pc = "open", !.snap[a.chal] = r] = b
      BY <1>1 DEF Attempt
    <2>. QED
      BY <2>1 DEF MarkUsed
  <1> HIDE DEF L
  <1>5. b \in Attempt /\ b.pc = "open" /\ b.snap = L /\ b.issue = a.issue
    BY <1>1, <1>3 DEF Attempt, ListOK
  <1>6. /\ TypeOK' /\ ListOK(challenges') /\ clock' \in 0 .. MaxClock /\ drawn' \subseteq Challenge
        /\ uses' \in [Challenge -> Nat] /\ failures' \in [Challenge -> 0 .. MaxAttempts + 1]
        /\ frame' = frame
    BY DEF MarkUsed, vars, stores, KeyInv, KeyTypeOK, ListOK, TypeOK
  <1>7. Linked(w)'
    BY <1>1, <1>4, <1>5, <1>6 DEF Linked, Call, KeyInv, KeyTypeOK
  <1>. QED
    BY <1>3, <1>4, <1>5, <1>6, <1>7, CallStep

LEMMA ChallengesWriteKeepsInv ==
    ASSUME KeyInv, NEW w \in Worker, OpenChallenges(w) \/ FlushChallenges(w)
    PROVE  KeyInv'
  <1> DEFINE a == attempt[w]
  <1>1. a \in Attempt /\ ListOK(a.snap) /\ Linked(w)
    BY AttemptTypes
  <1>2. CASE OpenChallenges(w)
    <2> DEFINE b == [a EXCEPT !.pc = "flush"]
    <2>1. Call(w, b) /\ a.pc = "open"
      BY <1>2 DEF OpenChallenges, Doing
    <2>2. b \in Attempt /\ b.pc = "flush" /\ b.snap = a.snap /\ b.issue = a.issue
      BY <1>1 DEF Attempt
    <2>3. /\ TypeOK' /\ ListOK(challenges') /\ clock' \in 0 .. MaxClock /\ drawn' \subseteq Challenge
          /\ uses' \in [Challenge -> Nat] /\ failures' \in [Challenge -> 0 .. MaxAttempts + 1]
          /\ frame' = frame
      BY <1>2, AbsentChallengeType DEF OpenChallenges, vars, stores, KeyInv, KeyTypeOK, TypeOK
    <2>4. Linked(w)'
      BY <1>1, <2>1, <2>2, <2>3 DEF Linked, Call, KeyInv, KeyTypeOK
    <2>. QED
      BY <1>1, <2>1, <2>2, <2>3, <2>4, CallStep
  <1>3. CASE FlushChallenges(w)
    <2> DEFINE f == [IdleFrame EXCEPT !.pc = "issueRead", !.enr = frame[w].enr, !.activate = a.activate]
    <2>1. /\ a.pc = "flush" /\ Call(w, IdleAttempt)
          /\ Become(w, IF a.issue THEN f ELSE IdleFrame)
      BY <1>3 DEF FlushChallenges, Doing
    <2>2. a.issue => frame[w].enr # None
      BY <1>1, <2>1 DEF Linked
    <2>3. f \in FrameRecord /\ (a.issue => Addressed(f))
      <3>1. f \in FrameRecord
        BY <1>1, IdleFrameType, FrameTypes, Labels DEF KeyInv, FrameRecord, ReadLabels, Attempt
      <3>2. f.pc = "issueRead" /\ f.then = "idle" /\ f.enr = frame[w].enr
        BY IdleFrameType DEF FrameRecord
      <3>. QED
        BY <2>2, <3>1, <3>2 DEF Addressed, ForEnrollment, ForSerial
    <2> HIDE DEF f
    <2>4. frame' \in [Worker -> Frame]
      BY <1>1, <2>1, <2>3, IdleFrameType, BecomeType DEF KeyInv, Attempt
    <2>5. TypeOK'
      BY <1>3, <2>4, ReadStepType DEF FlushChallenges, KeyInv
    <2>6. /\ ListOK(challenges') /\ clock' \in 0 .. MaxClock /\ drawn' \subseteq Challenge
          /\ uses' \in [Challenge -> Nat] /\ failures' \in [Challenge -> 0 .. MaxAttempts + 1]
      BY <1>1, <1>3, AbsentChallengeType DEF FlushChallenges, Written, KeyInv, KeyTypeOK, ListOK
    <2>7. \A v \in Worker \ {w} : frame'[v] = frame[v]
      BY <2>1 DEF Become, KeyInv, TypeOK
    <2>8. IdleAttempt.pc = "idle" /\ IdleAttempt.snap = NoChallenges
      BY DEF IdleAttempt
    <2>9. Linked(w)'
      BY <2>1, <2>8 DEF Linked, Call, KeyInv, KeyTypeOK
    <2>. QED
      BY <2>1, <2>5, <2>6, <2>7, <2>8, <2>9, AbsentChallengeType, CallStep
  <1>. QED
    BY <1>2, <1>3

(* A step of the lifecycle service: it runs either in a worker with no        *)
(* challenge request, or inside create_enrollment, which keeps the frame's    *)
(* enrollment and its way back.                                               *)
LEMMA BaseStep ==
    ASSUME KeyInv, TypeOK', UNCHANGED challengeVars, \A w \in Worker : Linked(w)'
    PROVE  KeyInv'
  BY DEF KeyInv, KeyTypeOK, challengeVars, AttemptLeft

LEMMA StartKeepsInv ==
    ASSUME KeyInv, NEW w \in Worker, Start(w), UNCHANGED challengeVars
    PROVE  KeyInv'
  <1>1. TypeOK'
    BY StartType DEF KeyInv
  <1>2. frame[w].pc = "idle"
    BY DEF Start, StartEnroll, StartEnrollDemo, StartIssue, StartActivate, StartRevoke,
           StartRegistryRevoke, StartSync, Free, At
  <1>3. \E f : frame' = [frame EXCEPT ![w] = f]
    BY DEF Start, StartEnroll, StartEnrollDemo, StartIssue, StartActivate, StartRevoke,
           StartRegistryRevoke, StartSync, CreateEnrollment, Become
  <1>4. attempt[w].pc = "idle"
    BY <1>2, AttemptTypes DEF Linked
  <1>5. \A v \in Worker : Linked(v)'
    BY <1>3, <1>4 DEF KeyInv, TypeOK, Linked, challengeVars
  <1>. QED
    BY <1>1, <1>5, BaseStep

LEMMA CalledStep ==
    ASSUME KeyInv, NEW w \in Worker, Handle(w), attempt[w].pc = "called"
    PROVE  /\ frame'[w].pc \in {"enrollFlush", "caller"} /\ frame'[w].then = "caller"
           /\ frame'[w].enr # None /\ frame'[w].enr = frame[w].enr /\ owner' = owner
  <1>1. /\ frame[w].pc \in {"enrollOpen", "enrollFlush", "caller"} /\ frame[w].then = "caller"
        /\ frame[w].enr # None /\ frame[w] \in FrameRecord
    BY AttemptTypes, FrameTypes DEF Linked, KeyInv
  <1>2. OpenEnrollments(w) \/ FlushEnrollments(w)
    BY <1>1 DEF Handle, IssueRefused, IssuePending, IssueAgain, IssueExisting, IssueMint,
         ActivateRead, ActivateCheck, ActivateEmails, RevokeRead, RevokeReadR, OpenRegistry,
         FlushRegistry, SyncReadK, SyncReadR, SyncReadE, OpenCertificates, FlushCertificates, At
  <1>3. CASE OpenEnrollments(w)
    BY <1>1, <1>3 DEF OpenEnrollments, Opened, Goto, Become, FrameRecord, KeyInv, TypeOK
  <1>4. CASE FlushEnrollments(w)
    <2>1. Resume(w, "caller")
      BY <1>1, <1>4 DEF FlushEnrollments, At
    <2>2. \E f : f.pc = "caller" /\ f.then = frame[w].then /\ f.enr = frame[w].enr /\ Become(w, f)
      BY <1>1, <2>1 DEF Resume, FrameRecord
    <2>. QED
      BY <1>1, <1>4, <2>2 DEF Become, KeyInv, TypeOK, FlushEnrollments
  <1>. QED
    BY <1>2, <1>3, <1>4

LEMMA HandleKeepsInv ==
    ASSUME KeyInv, NEW w \in Worker, Handle(w), UNCHANGED challengeVars
    PROVE  KeyInv'
  <1>1. TypeOK'
    BY StepType DEF KeyInv, Next
  <1>2. frame[w].pc # "caller"
    BY DEF Handle, IssueRefused, IssuePending, IssueAgain, IssueExisting, IssueMint,
           ActivateRead, ActivateCheck, ActivateEmails, RevokeRead, RevokeReadR, OpenRegistry,
           FlushRegistry, SyncReadK, SyncReadR, SyncReadE, OpenEnrollments, FlushEnrollments,
           OpenCertificates, FlushCertificates, At
  <1>3. attempt[w].pc \in {"idle", "called"}
    BY <1>2, AttemptTypes DEF Linked
  <1>4. \E f : frame' = [frame EXCEPT ![w] = f]
    BY DEF Handle, IssueRefused, IssuePending, IssueAgain, IssueExisting, IssueMint,
           ActivateRead, ActivateCheck, ActivateEmails, RevokeRead, RevokeReadR, OpenRegistry,
           FlushRegistry, SyncReadK, SyncReadR, SyncReadE, OpenEnrollments, FlushEnrollments,
           OpenCertificates, FlushCertificates, Become, Goto, Return, Continue, Resume
  <1>5. attempt[w].pc = "called" => Linked(w)'
    BY CalledStep, AttemptTypes DEF Linked, challengeVars
  <1>6. \A v \in Worker : Linked(v)'
    BY <1>3, <1>4, <1>5 DEF KeyInv, TypeOK, Linked, challengeVars
  <1>. QED
    BY <1>1, <1>6, BaseStep

LEMMA KeyStepKeepsInv == KeyInv /\ [KeyNext]_allVars => KeyInv'
  <1> SUFFICES ASSUME KeyInv, [KeyNext]_allVars PROVE KeyInv'
    OBVIOUS
  <1>1. CASE UNCHANGED allVars
    BY <1>1 DEF allVars, vars, stores, challengeVars, KeyInv, KeyTypeOK, TypeOK, Linked, AttemptLeft
  <1>2. ASSUME NEW w \in Worker, StartKey(w) PROVE KeyInv'
    BY <1>1, <1>2, StartKeyKeepsInv, StartKeepsInv DEF StartKey, SubmitRefused
  <1>3. ASSUME NEW w \in Worker, HandleKey(w) PROVE KeyInv'
    BY <1>3, ProveGenuineKeepsInv, ProveFailsKeepsInv, MarkUsedKeepsInv, ChallengesWriteKeepsInv,
       HandleKeepsInv DEF HandleKey
  <1>4. CASE Tick
    <2>1. clock' \in 0 .. MaxClock
      BY <1>4, ChallengeAssumption DEF Tick, KeyInv, KeyTypeOK
    <2>. QED
      BY <1>4, <2>1 DEF Tick, vars, stores, KeyInv, KeyTypeOK, TypeOK, Linked, AttemptLeft
  <1>5. CASE KeyCrash
    <2>1. TypeOK'
      BY <1>5, StepType DEF KeyCrash, KeyInv, Next
    <2>2. \A w \in Worker : attempt'[w].pc = "idle" /\ attempt'[w].snap = NoChallenges
      BY <1>5 DEF KeyCrash, IdleAttempt
    <2>3. KeyTypeOK'
      BY <1>5, AbsentChallengeType DEF KeyCrash, KeyInv, KeyTypeOK
    <2>. QED
      BY <1>5, <2>1, <2>2, <2>3, AbsentChallengeType DEF KeyCrash, KeyInv, Linked, AttemptLeft, ListOK
  <1>6. CASE Lapse /\ UNCHANGED challengeVars
    <2>1. TypeOK'
      BY <1>6, StepType DEF KeyInv, Next
    <2>2. \A w \in Worker : Linked(w)'
      BY <1>6 DEF Lapse, challengeVars, KeyInv, Linked
    <2>. QED
      BY <1>6, <2>1, <2>2, BaseStep
  <1>. QED
    BY <1>1, <1>2, <1>3, <1>4, <1>5, <1>6 DEF KeyNext

(* Type correctness of the composed service: create_enrollment and            *)
(* issue_enrollment are always called, and resumed, with an enrollment, and   *)
(* the failed-attempt counter never leaves 0 .. MaxAttempts.                  *)
THEOREM KeyTypeCorrect == KeySpec => [](TypeOK /\ KeyTypeOK)
  <1>1. KeyInv => TypeOK /\ KeyTypeOK
    BY DEF KeyInv
  <1>. QED
    BY <1>1, KeyInitInv, KeyStepKeepsInv, PTL DEF KeySpec

(* The counter on file never passes the limit, and a challenge on file that   *)
(* is still open has an attempt left, whatever the number of workers, the     *)
(* overlap of their writes and the moment the process dies                    *)
(* (proof_of_possession_service.py:124-132, 149-153).                         *)
THEOREM AttemptsAreBounded == KeySpec => []AttemptsBounded
  <1>1. KeyInv => AttemptsBounded
    BY DEF KeyInv, KeyTypeOK, ChallengeRecord, AttemptLeft, AttemptsBounded
  <1>. QED
    BY <1>1, KeyInitInv, KeyStepKeepsInv, PTL DEF KeySpec
-----------------------------------------------------------------------------
(* Clients that wait for each answer.  The list a proof is checked against is *)
(* then the one on file, and the file is empty while it is written.           *)
FileInv ==
    /\ \A w \in Worker : attempt[w].pc \in {"prove", "called"} => attempt[w].snap = challenges
    /\ \A w \in Worker : attempt[w].pc = "flush" => challenges = NoChallenges

(* The histories are what the list says, as the requests see it; between the  *)
(* acceptance of a proof and the note of it the challenge is still open, and  *)
(* the enrollment is being made.                                              *)
Accepting(at, c) == \E w \in Worker : at[w].pc = "called" /\ at[w].chal = c
Counted(V, at, u, fl, d) ==
    /\ \A c \in Challenge \ d : V[c] = AbsentChallenge
    /\ \A c \in Challenge : fl[c] = V[c].failed
    /\ \A c \in Challenge : u[c] = IF V[c].status = "used" \/ Accepting(at, c) THEN 1 ELSE 0
    /\ \A c \in Challenge : Accepting(at, c) => V[c].status = "issued"
CountInv == Counted(View, attempt, uses, failures, drawn)

(* Every list names, for a used challenge, an enrollment drawn for its        *)
(* address, and so does the frame of a worker that has just made one.         *)
NamesOwner(list, o) ==
    \A c \in Challenge : list[c].status = "used" =>
        list[c].enr \in AnyEnrollment /\ o[list[c].enr] = list[c].email
UsedInv ==
    /\ NamesOwner(challenges, owner)
    /\ \A w \in Worker : NamesOwner(attempt[w].snap, owner)
    /\ \A w \in Worker : attempt[w].pc = "called" =>
          owner[frame[w].enr] = attempt[w].snap[attempt[w].chal].email

LEMMA FileInit == KeyInit => FileInv
  BY DEF KeyInit, FileInv, IdleAttempt

(* The worker of a step is the only one with a challenge request.             *)
LEMMA OneAttempt ==
    ASSUME Sequential = TRUE, KeyInv, AloneInv, NEW w \in Worker, attempt[w].pc # "idle" \/ Free(w)
    PROVE  /\ \A v \in Worker \ {w} : attempt[v].pc = "idle"
           /\ Free(w) => attempt[w].pc = "idle"
           /\ ~At(w, "idle") \/ Free(w)
  <1>1. \A v \in Worker : At(v, "idle") => attempt[v].pc = "idle"
    BY AttemptTypes DEF Linked, At
  <1>2. ~At(w, "idle") \/ Free(w)
    BY <1>1
  <1>3. \A v \in Worker \ {w} : At(v, "idle")
    BY <1>2, OnlyOne DEF At, IdleFrame
  <1>. QED
    BY <1>1, <1>2, <1>3 DEF Free

LEMMA CallerMoves ==
    ASSUME KeyInv, NEW w \in Worker, Become(w, [IdleFrame EXCEPT !.pc = "caller"])
    PROVE  Moves(w)
  <1>1. [IdleFrame EXCEPT !.pc = "caller"].pc = "caller"
    BY DEF IdleFrame
  <1>. QED
    BY <1>1, BecomeMoves DEF KeyInv

LEMMA KeyStepKeepsAlone ==
    Sequential = TRUE /\ KeyInv /\ AloneInv /\ [KeyNext]_allVars => AloneInv'
  <1> SUFFICES ASSUME Sequential = TRUE, KeyInv, AloneInv, [KeyNext]_allVars PROVE AloneInv'
    OBVIOUS
  <1> USE DEF KeyInv
  <1>1. ASSUME NEW w \in Worker, StartChallenge(w) \/ SubmitUsable(w) \/ SubmitClosing(w)
        PROVE  AloneInv'
    BY <1>1, CallerMoves, AloneStep DEF StartChallenge, SubmitUsable, SubmitClosing
  <1>2. ASSUME NEW w \in Worker, ProveGenuine(w) PROVE AloneInv'
    <2>1. attempt[w].pc # "idle"
      BY <1>2 DEF ProveGenuine, Doing
    <2>2. ~At(w, "idle") \/ Free(w)
      BY <2>1, OneAttempt
    <2>3. Moves(w)
      BY <1>2, CreateEnrollmentMoves DEF ProveGenuine
    <2>. QED
      BY <2>2, <2>3, AloneStep
  <1>3. ASSUME NEW w \in Worker, FlushChallenges(w) PROVE AloneInv'
    <2> DEFINE f == [IdleFrame EXCEPT !.pc = "issueRead", !.enr = frame[w].enr,
                                      !.activate = attempt[w].activate]
    <2>1. attempt[w].pc # "idle" /\ Become(w, IF attempt[w].issue THEN f ELSE IdleFrame)
      BY <1>3 DEF FlushChallenges, Doing
    <2>2. ~At(w, "idle") \/ Free(w)
      BY <2>1, OneAttempt
    <2>3. f.pc = "issueRead"
      BY DEF IdleFrame
    <2> HIDE DEF f
    <2>4. Moves(w)
      BY <2>1, <2>3, BecomeMoves
    <2>. QED
      BY <2>2, <2>4, AloneStep
  <1>4. ASSUME NEW w \in Worker, ProveFails(w) \/ MarkUsed(w) \/ OpenChallenges(w) PROVE AloneInv'
    BY <1>4 DEF ProveFails, MarkUsed, OpenChallenges, vars, AloneInv, At
  <1>5. ASSUME [Next]_vars PROVE AloneInv'
    BY <1>5, StepKeepsAlone
  <1>6. CASE Tick \/ UNCHANGED allVars
    BY <1>5, <1>6 DEF Tick, allVars
  <1>7. ASSUME NEW w \in Worker, StartKey(w) \/ HandleKey(w) PROVE AloneInv'
    BY <1>1, <1>2, <1>3, <1>4, <1>5, <1>6, <1>7 DEF StartKey, SubmitRefused, HandleKey, Next
  <1>8. CASE KeyCrash \/ Lapse
    BY <1>5, <1>8 DEF KeyCrash, Next
  <1>. QED
    BY <1>6, <1>7, <1>8 DEF KeyNext

(* The steps of a challenge request, which change the attempt of one worker.  *)
KeyStep(w) ==
    \/ StartChallenge(w) \/ SubmitUsable(w) \/ SubmitClosing(w)
    \/ ProveGenuine(w) \/ ProveFails(w) \/ MarkUsed(w) \/ OpenChallenges(w) \/ FlushChallenges(w)

LEMMA AttemptStep ==
    ASSUME Sequential = TRUE, KeyInv, AloneInv, NEW w \in Worker, KeyStep(w)
    PROVE  /\ attempt \in [Worker -> Attempt] /\ attempt[w] \in Attempt
           /\ \A v \in Worker \ {w} : attempt[v].pc = "idle" /\ attempt'[v].pc = "idle"
           /\ \A a : Call(w, a) => attempt'[w] = a
           /\ Free(w) => attempt[w].pc = "idle"
  <1>1. attempt[w].pc # "idle" \/ Free(w)
    BY DEF KeyStep, StartChallenge, SubmitUsable, SubmitClosing, ProveGenuine, ProveFails, MarkUsed,
           OpenChallenges, FlushChallenges, Doing
  <1>2. \E a : Call(w, a)
    BY DEF KeyStep, StartChallenge, SubmitUsable, SubmitClosing, ProveGenuine, ProveFails, MarkUsed,
           OpenChallenges, FlushChallenges
  <1>3. attempt \in [Worker -> Attempt]
    BY DEF KeyInv, KeyTypeOK
  <1>. QED
    BY <1>1, <1>2, <1>3, OneAttempt DEF Call

(* A step of the lifecycle service, of the clock, or a crash.                 *)
LEMMA OtherSteps ==
    ASSUME [KeyNext]_allVars
    PROVE  \/ \E w \in Worker : KeyStep(w)
           \/ UNCHANGED <<challenges, drawn, attempt, uses, failures>>
           \/ KeyCrash
  BY DEF KeyNext, StartKey, HandleKey, KeyStep, SubmitRefused, allVars, challengeVars, Tick

LEMMA FileStep ==
    Sequential = TRUE /\ KeyInv /\ AloneInv /\ FileInv /\ [KeyNext]_allVars => FileInv'
  <1> SUFFICES ASSUME Sequential = TRUE, KeyInv, AloneInv, FileInv, [KeyNext]_allVars PROVE FileInv'
    OBVIOUS
  <1>1. ASSUME NEW w \in Worker, KeyStep(w) PROVE FileInv'
    <2>1. /\ attempt[w] \in Attempt
          /\ \A v \in Worker \ {w} : attempt'[v].pc = "idle"
          /\ \A a : Call(w, a) => attempt'[w] = a
      BY <1>1, AttemptStep
    <2>2. ASSUME \/ attempt'[w].pc \in {"idle", "open"}
                 \/ attempt'[w].pc \in {"prove", "called"} /\ attempt'[w].snap = challenges'
                 \/ attempt'[w].pc = "flush" /\ challenges' = NoChallenges
          PROVE  FileInv'
      BY <2>1, <2>2 DEF FileInv
    <2>3. CASE StartChallenge(w) \/ SubmitClosing(w)
      <3>1. \E L : attempt'[w] = [IdleAttempt EXCEPT !.pc = "open", !.snap = L]
        BY <2>1, <2>3 DEF StartChallenge, SubmitClosing
      <3>. QED
        BY <2>2, <3>1 DEF IdleAttempt
    <2>4. CASE SubmitUsable(w)
      <3>1. attempt'[w].pc = "prove" /\ attempt'[w].snap = challenges /\ challenges' = challenges
        BY <2>1, <2>4 DEF SubmitUsable
      <3>. QED
        BY <2>2, <3>1
    <2>5. CASE ProveGenuine(w)
      <3>1. attempt'[w] = [attempt[w] EXCEPT !.pc = "called"] /\ challenges' = challenges
        BY <2>1, <2>5 DEF ProveGenuine
      <3>2. attempt'[w].pc = "called" /\ attempt'[w].snap = challenges'
        BY <2>1, <2>5, <3>1 DEF Attempt, FileInv, ProveGenuine, Doing
      <3>. QED
        BY <2>2, <3>2
    <2>6. CASE ProveFails(w) \/ MarkUsed(w)
      <3>1. attempt'[w].pc = "open"
        BY <2>1, <2>6 DEF ProveFails, MarkUsed, Attempt
      <3>. QED
        BY <2>2, <3>1
    <2>7. CASE OpenChallenges(w)
      <3>1. attempt'[w].pc = "flush" /\ challenges' = NoChallenges
        BY <2>1, <2>7 DEF OpenChallenges, Attempt
      <3>. QED
        BY <2>2, <3>1
    <2>8. CASE FlushChallenges(w)
      <3>1. attempt'[w].pc = "idle"
        BY <2>1, <2>8 DEF FlushChallenges, IdleAttempt
      <3>. QED
        BY <2>2, <3>1
    <2>. QED
      BY <1>1, <2>3, <2>4, <2>5, <2>6, <2>7, <2>8 DEF KeyStep
  <1>2. CASE UNCHANGED <<challenges, drawn, attempt, uses, failures>>
    BY <1>2 DEF FileInv
  <1>3. CASE KeyCrash
    BY <1>3 DEF KeyCrash, FileInv, IdleAttempt
  <1>. QED
    BY <1>1, <1>2, <1>3, OtherSteps

(* A challenge on file that is used, expired or locked is never tried again,  *)
(* however often the process dies: clients that wait for each answer have     *)
(* their proofs checked against the list on file                              *)
(* (proof_of_possession_service.py:145-146).                                  *)
THEOREM ClosedNeverTried ==
    ASSUME Sequential = TRUE
    PROVE  KeySpec => ClosedStaysClosed
  <1> DEFINE Kept == \A c \in Challenge : challenges[c].status \in {"used", "expired", "locked"} =>
                        uses'[c] = uses[c] /\ failures'[c] = failures[c]
  <1>1. ASSUME KeyInv, AloneInv, FileInv, KeyNext PROVE Kept
    <2>1. ASSUME NEW w \in Worker, ProveGenuine(w) \/ ProveFails(w) PROVE Kept
      <3> DEFINE a == attempt[w]
      <3>1. /\ a.pc = "prove" /\ a.snap = challenges /\ a.snap[a.chal].status = "issued"
        BY <1>1, <2>1 DEF ProveGenuine, ProveFails, Doing, FileInv, KeyInv
      <3>2. \A c \in Challenge \ {a.chal} : uses'[c] = uses[c] /\ failures'[c] = failures[c]
        BY <1>1, <2>1 DEF ProveGenuine, ProveFails, KeyInv, KeyTypeOK
      <3>. QED
        BY <3>1, <3>2
    <2>2. ASSUME NEW w \in Worker, KeyStep(w), ~ProveGenuine(w), ~ProveFails(w) PROVE Kept
      BY <2>2 DEF KeyStep, StartChallenge, SubmitUsable, SubmitClosing, MarkUsed, OpenChallenges,
                  FlushChallenges
    <2>3. CASE UNCHANGED <<challenges, drawn, attempt, uses, failures>> \/ KeyCrash
      BY <2>3 DEF KeyCrash
    <2>. QED
      BY <1>1, <2>1, <2>2, <2>3, OtherSteps
  <1>2. KeyInv /\ AloneInv /\ FileInv /\ [KeyNext]_allVars => [Kept]_allVars
    BY <1>1
  <1>3. KeyInit => AloneInv
    BY AloneInit DEF KeyInit
  <1>. QED
    BY <1>2, <1>3, KeyInitInv, KeyStepKeepsInv, KeyStepKeepsAlone, FileInit, FileStep, PTL
    DEF KeySpec, ClosedStaysClosed
-----------------------------------------------------------------------------
(* The list as the requests see it, while one challenge request is handled.   *)
Storing(at) == {w \in Worker : at[w].pc \in {"open", "flush"}}
ViewFrom(at, list) == IF Storing(at) = {} THEN list ELSE at[The(Storing(at))].snap

LEMMA ViewIsFrom == View = ViewFrom(attempt, challenges) /\ View' = ViewFrom(attempt', challenges')
  BY DEF View, Writing, ViewFrom, Storing

LEMMA ViewAlone ==
    ASSUME NEW at, NEW list, NEW w \in Worker, \A v \in Worker \ {w} : at[v].pc = "idle"
    PROVE  ViewFrom(at, list) = IF at[w].pc \in {"open", "flush"} THEN at[w].snap ELSE list
  <1>1. CASE at[w].pc \in {"open", "flush"}
    <2>1. Storing(at) = {w}
      BY <1>1 DEF Storing
    <2>. QED
      BY <1>1, <2>1 DEF ViewFrom, The
  <1>2. CASE at[w].pc \notin {"open", "flush"}
    <2>1. Storing(at) = {}
      BY <1>2 DEF Storing
    <2>. QED
      BY <1>2, <2>1 DEF ViewFrom
  <1>. QED
    BY <1>1, <1>2

(* What each step does to that list: a challenge is issued, closed, refused   *)
(* or used, and the steps that open and fill the file change nothing.         *)
LEMMA ViewStep ==
    ASSUME Sequential = TRUE, KeyInv, AloneInv, FileInv, NEW w \in Worker, KeyStep(w)
    PROVE  /\ View \in [Challenge -> ChallengeRecord]
           /\ \A c \in Challenge : AttemptLeft(View[c])
           /\ StartChallenge(w) =>
                 \E c \in Challenge \ drawn, r \in ChallengeRecord :
                    /\ drawn' = drawn \union {c}
                    /\ View' = [View EXCEPT ![c] = r]
                    /\ r.status = "issued" /\ r.failed = 0
           /\ SubmitClosing(w) =>
                 \E c \in drawn :
                    /\ View[c].status = "issued"
                    /\ View' = [View EXCEPT ![c].status = "expired"]
           /\ ProveGenuine(w) => View[attempt[w].chal].status = "issued"
           /\ ProveFails(w) =>
                 /\ View[attempt[w].chal].status = "issued"
                 /\ View' = [View EXCEPT ![attempt[w].chal] = Failed(View[attempt[w].chal])]
           /\ MarkUsed(w) =>
                 View' = [View EXCEPT ![attempt[w].chal] = UsedFor(View[attempt[w].chal], frame[w].enr)]
           /\ SubmitUsable(w) \/ ProveGenuine(w) \/ OpenChallenges(w) \/ FlushChallenges(w) => View' = View
  <1> DEFINE a == attempt[w]
             b == attempt'[w]
  <1>1. /\ a \in Attempt
        /\ \A v \in Worker \ {w} : attempt[v].pc = "idle" /\ attempt'[v].pc = "idle"
        /\ \A x : Call(w, x) => b = x
        /\ Free(w) => a.pc = "idle"
    BY AttemptStep
  <1>2. /\ View = IF a.pc \in {"open", "flush"} THEN a.snap ELSE challenges
        /\ View' = IF b.pc \in {"open", "flush"} THEN b.snap ELSE challenges'
    BY <1>1, ViewIsFrom, ViewAlone
  <1>3. View \in [Challenge -> ChallengeRecord] /\ \A c \in Challenge : AttemptLeft(View[c])
    BY <1>2, AttemptTypes DEF ListOK, KeyInv, KeyTypeOK
  <1>4. ASSUME StartChallenge(w)
        PROVE  \E c \in Challenge \ drawn, r \in ChallengeRecord :
                  /\ drawn' = drawn \union {c}
                  /\ View' = [View EXCEPT ![c] = r]
                  /\ r.status = "issued" /\ r.failed = 0
    <2>1. View = challenges
      BY <1>1, <1>2, <1>4 DEF StartChallenge
    <2> DEFINE Rec(em) == [status |-> "issued", email |-> em, failed |-> 0,
                           expires |-> clock + TTL, enr |-> None]
               A(c, em) == [IdleAttempt EXCEPT !.pc = "open", !.snap = [challenges EXCEPT ![c] = Rec(em)]]
    <2>2. PICK c \in Challenge \ drawn, em \in Email : drawn' = drawn \union {c} /\ Call(w, A(c, em))
      BY <1>4 DEF StartChallenge
    <2>3. Rec(em) \in ChallengeRecord /\ Rec(em).status = "issued" /\ Rec(em).failed = 0
      BY ChallengeAssumption DEF ChallengeRecord, KeyInv, KeyTypeOK
    <2> HIDE DEF Rec
    <2>4. b.pc = "open" /\ b.snap = [challenges EXCEPT ![c] = Rec(em)]
      BY <1>1, <2>2 DEF IdleAttempt
    <2>. QED
      BY <1>2, <2>1, <2>2, <2>3, <2>4
  <1>5. ASSUME SubmitClosing(w)
        PROVE  \E c \in drawn : View[c].status = "issued" /\ View' = [View EXCEPT ![c].status = "expired"]
    <2>1. View = challenges
      BY <1>1, <1>2, <1>5 DEF SubmitClosing
    <2> DEFINE St(c) == IF Expired(challenges[c]) THEN "expired" ELSE "locked"
               A(c) == [IdleAttempt EXCEPT !.pc = "open", !.snap = [challenges EXCEPT ![c].status = St(c)]]
    <2>2. PICK c \in drawn : /\ challenges[c].status = "issued"
                             /\ Expired(challenges[c]) \/ Exhausted(challenges[c])
                             /\ Call(w, A(c))
      BY <1>5 DEF SubmitClosing
    <2>3. St(c) = "expired"
      <3>1. c \in Challenge /\ challenges[c] \in ChallengeRecord /\ challenges[c].failed < MaxAttempts
        BY <2>2 DEF KeyInv, KeyTypeOK, AttemptLeft
      <3>. QED
        BY <2>2, <3>1, ChallengeAssumption DEF Exhausted, ChallengeRecord
    <2>4. b.pc = "open" /\ b.snap = [challenges EXCEPT ![c].status = "expired"]
      BY <1>1, <2>2, <2>3 DEF IdleAttempt
    <2>. QED
      BY <1>2, <2>1, <2>2, <2>4
  <1>6. ASSUME ProveFails(w)
        PROVE  /\ View[a.chal].status = "issued"
               /\ View' = [View EXCEPT ![a.chal] = Failed(View[a.chal])]
    <2>1. a.pc = "prove" /\ a.snap = challenges /\ a.snap[a.chal].status = "issued"
      BY <1>6 DEF ProveFails, Doing, FileInv, KeyInv
    <2>2. b = [a EXCEPT !.pc = "open", !.issue = FALSE, !.snap[a.chal] = Failed(a.snap[a.chal])]
      BY <1>1, <1>6 DEF ProveFails
    <2>3. b.pc = "open" /\ b.snap = [a.snap EXCEPT ![a.chal] = Failed(a.snap[a.chal])]
      BY <1>1, <2>2 DEF Attempt
    <2>. QED
      BY <1>2, <2>1, <2>3
  <1>7. ASSUME MarkUsed(w)
        PROVE  View' = [View EXCEPT ![a.chal] = UsedFor(View[a.chal], frame[w].enr)]
    <2>1. a.pc = "called" /\ a.snap = challenges
      BY <1>7 DEF MarkUsed, Doing, FileInv
    <2>2. b = [a EXCEPT !.pc = "open", !.snap[a.chal] = UsedFor(a.snap[a.chal], frame[w].enr)]
      BY <1>1, <1>7 DEF MarkUsed
    <2>3. b.pc = "open" /\ b.snap = [a.snap EXCEPT ![a.chal] = UsedFor(a.snap[a.chal], frame[w].enr)]
      BY <1>1, <2>2 DEF Attempt
    <2>. QED
      BY <1>2, <2>1, <2>3
  <1>8. ASSUME SubmitUsable(w) PROVE View' = View
    <2>1. a.pc = "idle" /\ b.pc = "prove" /\ challenges' = challenges
      BY <1>1, <1>8 DEF SubmitUsable
    <2>. QED
      BY <1>2, <2>1
  <1>9. ASSUME ProveGenuine(w) PROVE View' = View /\ View[a.chal].status = "issued"
    <2>1. /\ a.pc = "prove" /\ b = [a EXCEPT !.pc = "called"] /\ challenges' = challenges
          /\ a.snap = challenges /\ a.snap[a.chal].status = "issued"
      BY <1>1, <1>9 DEF ProveGenuine, Doing, FileInv, KeyInv
    <2>2. b.pc = "called"
      BY <1>1, <2>1 DEF Attempt
    <2>. QED
      BY <1>2, <2>1, <2>2
  <1>10. ASSUME OpenChallenges(w) PROVE View' = View
    <2>1. a.pc = "open" /\ b = [a EXCEPT !.pc = "flush"]
      BY <1>1, <1>10 DEF OpenChallenges, Doing
    <2>2. b.pc = "flush" /\ b.snap = a.snap
      BY <1>1, <2>1 DEF Attempt
    <2>. QED
      BY <1>2, <2>1, <2>2
  <1>11. ASSUME FlushChallenges(w) PROVE View' = View
    <2>1. a.pc = "flush" /\ challenges = NoChallenges /\ b = IdleAttempt
      BY <1>1, <1>11 DEF FlushChallenges, Doing, FileInv
    <2>2. challenges' = a.snap /\ b.pc = "idle"
      BY <1>11, <2>1 DEF FlushChallenges, Written, IdleAttempt
    <2>. QED
      BY <1>2, <2>1, <2>2
  <1>. QED
    BY <1>3, <1>4, <1>5, <1>6, <1>7, <1>8, <1>9, <1>10, <1>11
LEMMA AcceptingOne ==
    ASSUME Sequential = TRUE, KeyInv, AloneInv, NEW w \in Worker, KeyStep(w), NEW c
    PROVE  /\ Accepting(attempt, c) <=> attempt[w].pc = "called" /\ attempt[w].chal = c
           /\ Accepting(attempt', c) <=> attempt'[w].pc = "called" /\ attempt'[w].chal = c
  BY AttemptStep DEF Accepting

LEMMA CountInit == KeyInit => CountInv
  <1> SUFFICES ASSUME KeyInit PROVE CountInv
    OBVIOUS
  <1>1. View = challenges /\ challenges = [c \in Challenge |-> AbsentChallenge]
    BY DEF KeyInit, View, Writing, IdleAttempt, NoChallenges
  <1>2. \A c \in Challenge : ~Accepting(attempt, c)
    BY DEF KeyInit, Accepting, IdleAttempt
  <1>. QED
    BY <1>1, <1>2 DEF KeyInit, CountInv, Counted, AbsentChallenge

LEMMA KeyStepCounts ==
    ASSUME Sequential = TRUE, KeyInv, AloneInv, FileInv, CountInv, NEW w \in Worker, KeyStep(w)
    PROVE  CountInv'
  <1> DEFINE a == attempt[w]
             b == attempt'[w]
  <1> USE DEF CountInv, Counted
  <1>1. /\ a \in Attempt
        /\ \A x : Call(w, x) => b = x
        /\ Free(w) => a.pc = "idle"
    BY AttemptStep
  <1>2. \A c : /\ Accepting(attempt, c) <=> a.pc = "called" /\ a.chal = c
               /\ Accepting(attempt', c) <=> b.pc = "called" /\ b.chal = c
    BY AcceptingOne
  <1>3. View \in [Challenge -> ChallengeRecord] /\ \A c \in Challenge : View[c] \in ChallengeRecord
    BY ViewStep
  <1>4. CASE StartChallenge(w)
    <2>1. PICK c \in Challenge \ drawn, r \in ChallengeRecord :
             drawn' = drawn \union {c} /\ View' = [View EXCEPT ![c] = r] /\ r.status = "issued" /\ r.failed = 0
      BY <1>4, ViewStep
    <2>2. View[c] = AbsentChallenge /\ AbsentChallenge.status = "absent" /\ AbsentChallenge.failed = 0
      BY <2>1 DEF AbsentChallenge
    <2>3. a.pc = "idle" /\ uses' = uses /\ failures' = failures
      BY <1>1, <1>4 DEF StartChallenge
    <2>4. b.pc = "open"
      <3>1. \E L : b = [IdleAttempt EXCEPT !.pc = "open", !.snap = L]
        BY <1>1, <1>4 DEF StartChallenge
      <3>. QED
        BY <3>1 DEF IdleAttempt
    <2>. QED
      BY <1>2, <1>3, <2>1, <2>2, <2>3, <2>4
  <1>5. CASE SubmitClosing(w)
    <2>1. PICK c \in drawn : View[c].status = "issued" /\ View' = [View EXCEPT ![c].status = "expired"]
      BY <1>5, ViewStep
    <2>2. a.pc = "idle" /\ uses' = uses /\ failures' = failures /\ drawn' = drawn
      BY <1>1, <1>5 DEF SubmitClosing
    <2>3. b.pc = "open"
      <3>1. \E L : b = [IdleAttempt EXCEPT !.pc = "open", !.snap = L]
        BY <1>1, <1>5 DEF SubmitClosing
      <3>. QED
        BY <3>1 DEF IdleAttempt
    <2>4. c \in Challenge /\ View'[c].failed = View[c].failed /\ View'[c].status = "expired"
      BY <1>3, <2>1 DEF KeyInv, KeyTypeOK, ChallengeRecord
    <2>5. \A d \in Challenge \ {c} : View'[d] = View[d]
      BY <1>3, <2>1
    <2>. QED
      BY <1>2, <1>3, <2>1, <2>2, <2>3, <2>4, <2>5
  <1>6. CASE ProveGenuine(w)
    <2>1. View' = View /\ View[a.chal].status = "issued"
      BY <1>6, ViewStep
    <2>2. a.pc = "prove" /\ a.chal \in Challenge
      BY <1>6, AttemptTypes DEF ProveGenuine, Doing, Linked
    <2>3. b.pc = "called" /\ b.chal = a.chal
      <3>1. b = [a EXCEPT !.pc = "called"]
        BY <1>1, <1>6 DEF ProveGenuine
      <3>. QED
        BY <1>1, <3>1 DEF Attempt
    <2>4. /\ uses' = [uses EXCEPT ![a.chal] = @ + 1] /\ failures' = failures /\ drawn' = drawn
          /\ uses \in [Challenge -> Nat] /\ uses[a.chal] = 0
      BY <1>2, <1>6, <2>1, <2>2 DEF ProveGenuine, KeyInv, KeyTypeOK
    <2>. QED
      BY <1>2, <2>1, <2>2, <2>3, <2>4
  <1>7. CASE ProveFails(w)
    <2> DEFINE c == a.chal
    <2>1. /\ View[c].status = "issued" /\ View' = [View EXCEPT ![c] = Failed(View[c])]
          /\ View[c].failed < MaxAttempts
      BY <1>7, AttemptTypes, ViewStep DEF ProveFails, Doing, Linked, AttemptLeft
    <2>2. a.pc = "prove" /\ c \in Challenge
      BY <1>7, AttemptTypes DEF ProveFails, Doing, Linked
    <2>3. b.pc = "open"
      BY <1>1, <1>7 DEF ProveFails, Attempt
    <2>4. /\ failures' = [failures EXCEPT ![c] = IF @ > MaxAttempts THEN @ ELSE @ + 1]
          /\ failures \in [Challenge -> 0 .. MaxAttempts + 1]
          /\ uses' = uses /\ drawn' = drawn
      BY <1>7 DEF ProveFails, KeyInv, KeyTypeOK
    <2>5. /\ Failed(View[c]).failed = View[c].failed + 1
          /\ Failed(View[c]).status \in {"issued", "locked"}
      BY <1>3, <2>1, <2>2 DEF Failed, ChallengeRecord
    <2>6. View'[c] = Failed(View[c]) /\ \A d \in Challenge \ {c} : View'[d] = View[d]
      BY <1>3, <2>1, <2>2
    <2>7. failures'[c] = View'[c].failed /\ \A d \in Challenge \ {c} : failures'[d] = failures[d]
      BY <1>3, <2>1, <2>2, <2>4, <2>5, <2>6, ChallengeAssumption DEF ChallengeRecord
    <2>8. c \in drawn
      BY <2>1, <2>2 DEF AbsentChallenge
    <2>. QED
      BY <1>2, <2>1, <2>2, <2>3, <2>4, <2>5, <2>6, <2>7, <2>8
  <1>8. CASE MarkUsed(w)
    <2> DEFINE c == a.chal
               r == UsedFor(View[c], frame[w].enr)
    <2>1. View' = [View EXCEPT ![c] = r]
      BY <1>8, ViewStep
    <2>2. a.pc = "called" /\ c \in Challenge
      BY <1>8, AttemptTypes DEF MarkUsed, Doing, Linked
    <2>3. b.pc = "open"
      BY <1>1, <1>8 DEF MarkUsed, Attempt
    <2>4. uses' = uses /\ drawn' = drawn /\ failures' = failures
      BY <1>8 DEF MarkUsed
    <2>5. r.failed = View[c].failed /\ r.status = "used"
      BY <1>3, <2>2 DEF UsedFor, ChallengeRecord
    <2>6. View'[c] = r /\ \A d \in Challenge \ {c} : View'[d] = View[d]
      BY <1>3, <2>1, <2>2
    <2>7. View[c].status = "issued" /\ uses[c] = 1 /\ c \in drawn
      BY <1>2, <2>2 DEF AbsentChallenge
    <2> HIDE DEF r
    <2>. QED
      BY <1>2, <2>2, <2>3, <2>4, <2>5, <2>6, <2>7
  <1>9. CASE SubmitUsable(w) \/ OpenChallenges(w) \/ FlushChallenges(w)
    <2>1. View' = View /\ uses' = uses /\ drawn' = drawn /\ failures' = failures
      BY <1>9, ViewStep DEF SubmitUsable, OpenChallenges, FlushChallenges
    <2>2. a.pc # "called"
      BY <1>1, <1>9 DEF SubmitUsable, OpenChallenges, FlushChallenges, Doing
    <2>3. b.pc # "called"
      <3>1. SubmitUsable(w) => b.pc = "prove"
        BY <1>1 DEF SubmitUsable
      <3>2. OpenChallenges(w) => b.pc = "flush"
        BY <1>1 DEF OpenChallenges, Attempt
      <3>3. FlushChallenges(w) => b.pc = "idle"
        BY <1>1 DEF FlushChallenges, IdleAttempt
      <3>. QED
        BY <1>9, <3>1, <3>2, <3>3
    <2>. QED
      BY <1>2, <2>1, <2>2, <2>3
  <1>. QED
    BY <1>4, <1>5, <1>6, <1>7, <1>8, <1>9 DEF KeyStep

LEMMA CountStep ==
    Sequential = TRUE /\ CanCrash = FALSE /\ KeyInv /\ AloneInv /\ FileInv /\ CountInv /\ [KeyNext]_allVars
        => CountInv'
  <1> SUFFICES ASSUME Sequential = TRUE, CanCrash = FALSE, KeyInv, AloneInv, FileInv, CountInv, [KeyNext]_allVars
               PROVE  CountInv'
    OBVIOUS
  <1>1. CASE UNCHANGED <<challenges, drawn, attempt, uses, failures>>
    BY <1>1, ViewIsFrom DEF CountInv, Counted
  <1>2. ~KeyCrash
    BY DEF KeyCrash, Crash
  <1>. QED
    BY <1>1, <1>2, KeyStepCounts, OtherSteps
(* What one request at a time rests on, in the composed service.              *)
OrderedInv == KeyInv /\ AloneInv /\ FileInv /\ CountInv

LEMMA OrderedInit == KeyInit => OrderedInv
  <1>1. KeyInit => AloneInv
    BY AloneInit DEF KeyInit
  <1>. QED
    BY <1>1, KeyInitInv, FileInit, CountInit DEF OrderedInv

LEMMA OrderedStep ==
    Sequential = TRUE /\ CanCrash = FALSE /\ OrderedInv /\ [KeyNext]_allVars => OrderedInv'
  BY KeyStepKeepsInv, KeyStepKeepsAlone, FileStep, CountStep DEF OrderedInv

(* "single-use challenge IDs" (README.md:113): clients that wait for each     *)
(* answer never make two enrollments from one challenge, as long as the       *)
(* process does not die between the enrollment and the note of it.            *)
THEOREM UsedOnce ==
    ASSUME Sequential = TRUE, CanCrash = FALSE
    PROVE  KeySpec => []SingleUse
  <1>1. OrderedInv => SingleUse
    BY DEF OrderedInv, CountInv, Counted, SingleUse
  <1>. QED
    BY <1>1, OrderedInit, OrderedStep, PTL DEF KeySpec

(* "maximum 5 failed proof attempts before lockout" (README.md:115): every    *)
(* proof refused is counted on file, so that no more than that are evaluated. *)
THEOREM LockedOut ==
    ASSUME Sequential = TRUE, CanCrash = FALSE
    PROVE  KeySpec => []LockoutHolds
  <1>1. ASSUME OrderedInv, NEW c \in Challenge PROVE failures[c] <= MaxAttempts
    <2>1. View[c] \in ChallengeRecord
      <3>1. challenges[c] \in ChallengeRecord /\ \A w \in Worker : attempt[w].snap[c] \in ChallengeRecord
        BY <1>1, AttemptTypes DEF OrderedInv, KeyInv, KeyTypeOK, ListOK
      <3>2. Writing = {} \/ The(Writing) \in Worker
        BY DEF The, Writing
      <3>. QED
        BY <3>1, <3>2 DEF View
    <2>. QED
      BY <1>1, <2>1, ChallengeAssumption DEF OrderedInv, CountInv, Counted, ChallengeRecord
  <1>2. OrderedInv => LockoutHolds
    BY <1>1 DEF LockoutHolds
  <1>. QED
    BY <1>2, OrderedInit, OrderedStep, PTL DEF KeySpec
-----------------------------------------------------------------------------
(* The handlers implement the documented policy.                              *)
StatusOf(V) == [c \in Challenge |-> V[c].status]
FailedOf(V) == [c \in Challenge |-> V[c].failed]

LEMMA PolicyView ==
    /\ StatusOf(View) = [c \in Challenge |-> View[c].status]
    /\ FailedOf(View) = [c \in Challenge |-> View[c].failed]
    /\ StatusOf(View') = [c \in Challenge |-> View[c].status]'
    /\ FailedOf(View') = [c \in Challenge |-> View[c].failed]'
  BY DEF StatusOf, FailedOf

LEMMA PolicyMove ==
    ASSUME Sequential = TRUE, OrderedInv, NEW w \in Worker, KeyStep(w)
    PROVE  [Policy!PolicyNext]_(Policy!policyVars)
  <1> USE DEF OrderedInv
  <1>1. View \in [Challenge -> ChallengeRecord] /\ \A d \in Challenge : View[d] \in ChallengeRecord
    BY ViewStep
  <1>2. CASE SubmitUsable(w) \/ ProveGenuine(w) \/ OpenChallenges(w) \/ FlushChallenges(w)
    <2>1. View' = View
      BY <1>2, ViewStep
    <2>. QED
      BY <2>1, PolicyView DEF Policy!policyVars
  <1>3. CASE StartChallenge(w)
    <2>1. PICK d \in Challenge \ drawn, r \in ChallengeRecord :
             View' = [View EXCEPT ![d] = r] /\ r.status = "issued" /\ r.failed = 0
      BY <1>3, ViewStep
    <2>2. View[d].status = "absent" /\ View[d].failed = 0
      BY <2>1 DEF CountInv, Counted, AbsentChallenge
    <2>3. /\ StatusOf(View)[d] = "absent"
          /\ StatusOf(View') = [StatusOf(View) EXCEPT ![d] = "issued"]
          /\ FailedOf(View') = FailedOf(View)
      BY <1>1, <2>1, <2>2 DEF StatusOf, FailedOf
    <2>4. Policy!Give(d)
      BY <2>3, PolicyView DEF Policy!Give
    <2>. QED
      BY <2>1, <2>4 DEF Policy!PolicyNext
  <1>4. CASE SubmitClosing(w)
    <2>1. PICK d \in drawn : View[d].status = "issued" /\ View' = [View EXCEPT ![d].status = "expired"]
      BY <1>4, ViewStep
    <2> DEFINE r == [View[d] EXCEPT !.status = "expired"]
    <2>2. d \in Challenge /\ r.status = "expired" /\ r.failed = View[d].failed
      BY <1>1, <2>1 DEF KeyInv, KeyTypeOK, ChallengeRecord
    <2>3. View' = [View EXCEPT ![d] = r]
      BY <2>1
    <2> HIDE DEF r
    <2>4. /\ StatusOf(View)[d] = "issued"
          /\ StatusOf(View') = [StatusOf(View) EXCEPT ![d] = "expired"]
          /\ FailedOf(View') = FailedOf(View)
      BY <1>1, <2>1, <2>2, <2>3 DEF StatusOf, FailedOf
    <2>5. Policy!Expire(d)
      BY <2>4, PolicyView DEF Policy!Expire
    <2>. QED
      BY <2>2, <2>5 DEF Policy!PolicyNext
  <1>5. CASE ProveFails(w)
    <2>1. PICK c \in Challenge :
             /\ View[c].status = "issued" /\ View[c].failed < MaxAttempts
             /\ View' = [View EXCEPT ![c] = Failed(View[c])]
      BY <1>5, AttemptTypes, ViewStep DEF ProveFails, Doing, Linked, AttemptLeft
    <2> DEFINE r == Failed(View[c])
    <2>3. View' = [View EXCEPT ![c] = r]
      BY <2>1
    <2>2. /\ r.failed = View[c].failed + 1
          /\ r.status = IF View[c].failed + 1 = MaxAttempts THEN "locked" ELSE "issued"
      BY <1>1, <2>1, ChallengeAssumption DEF Failed, ChallengeRecord
    <2> HIDE DEF r
    <2>4. /\ StatusOf(View') = [StatusOf(View) EXCEPT ![c] = r.status]
          /\ FailedOf(View') = [FailedOf(View) EXCEPT ![c] = r.failed]
          /\ StatusOf(View)[c] = View[c].status /\ FailedOf(View)[c] = View[c].failed
      BY <1>1, <2>3 DEF StatusOf, FailedOf
    <2>5. FailedOf(View')[c] = r.failed
      BY <2>4 DEF FailedOf
    <2>6. Policy!Reject(c)
      BY <2>1, <2>2, <2>4, <2>5, PolicyView DEF Policy!Reject
    <2>. QED
      BY <2>6 DEF Policy!PolicyNext
  <1>6. CASE MarkUsed(w)
    <2>1. PICK c \in Challenge :
             /\ attempt[w].pc = "called" /\ attempt[w].chal = c
             /\ View' = [View EXCEPT ![c] = UsedFor(View[c], frame[w].enr)]
      BY <1>6, AttemptTypes, ViewStep DEF MarkUsed, Doing, Linked
    <2> DEFINE r == UsedFor(View[c], frame[w].enr)
    <2>2. View[c].status = "issued"
      BY <1>6, <2>1, AcceptingOne DEF CountInv, Counted
    <2>3. View' = [View EXCEPT ![c] = r] /\ r.status = "used" /\ r.failed = View[c].failed
      BY <1>1, <2>1 DEF UsedFor, ChallengeRecord
    <2> HIDE DEF r
    <2>4. /\ StatusOf(View)[c] = "issued"
          /\ StatusOf(View') = [StatusOf(View) EXCEPT ![c] = "used"]
          /\ FailedOf(View') = FailedOf(View)
      BY <1>1, <2>2, <2>3 DEF StatusOf, FailedOf
    <2>5. Policy!Accept(c)
      BY <2>4, PolicyView DEF Policy!Accept
    <2>. QED
      BY <2>5 DEF Policy!PolicyNext
  <1>. QED
    BY <1>2, <1>3, <1>4, <1>5, <1>6 DEF KeyStep

(* Refinement: one request at a time and without crashes, the service is the  *)
(* documented policy: a challenge is given out once, accepted at most once    *)
(* and only while it is open, and locked by the last attempt                  *)
(* (README.md:111-115, create_key_enrollment_challenge,                       *)
(* submit_public_key_proof, _record_failed_attempt).                          *)
THEOREM FollowsPolicy ==
    ASSUME Sequential = TRUE, CanCrash = FALSE
    PROVE  KeySpec => PolicySpec
  <1>1. ASSUME KeyInit PROVE Policy!PolicyInit
    <2>1. View = [c \in Challenge |-> AbsentChallenge]
      BY <1>1 DEF KeyInit, View, Writing, IdleAttempt, NoChallenges
    <2>. QED
      BY <2>1 DEF Policy!PolicyInit, AbsentChallenge
  <1>2. ASSUME OrderedInv, [KeyNext]_allVars PROVE [Policy!PolicyNext]_(Policy!policyVars)
    <2>1. CASE UNCHANGED <<challenges, drawn, attempt, uses, failures>>
      <3>1. View' = View
        BY <2>1, ViewIsFrom
      <3>. QED
        BY <3>1, PolicyView DEF Policy!policyVars
    <2>2. ~KeyCrash
      BY DEF KeyCrash, Crash
    <2>. QED
      BY <1>2, <2>1, <2>2, PolicyMove, OtherSteps
  <1>. QED
    BY <1>1, <1>2, OrderedInit, OrderedStep, PTL DEF KeySpec, PolicySpec, Policy!PolicySpec
-----------------------------------------------------------------------------
(* A used challenge names the enrollment that was made with it.               *)
Named(list) == \A c \in Challenge : list[c] \in ChallengeRecord

LEMMA NamesKept ==
    ASSUME NEW list, Named(list), NEW o, NEW p, Extends(o, p, AnyEnrollment), NamesOwner(list, o)
    PROVE  NamesOwner(list, p)
  BY ConstantsAssumption DEF Named, NamesOwner, Extends, ChallengeRecord

LEMMA NamesChange ==
    ASSUME NEW list, NEW o, NamesOwner(list, o), DOMAIN list = Challenge, NEW c \in Challenge, NEW r,
           r.status = "used" => r.enr \in AnyEnrollment /\ o[r.enr] = r.email
    PROVE  NamesOwner([list EXCEPT ![c] = r], o)
  BY DEF NamesOwner

LEMMA NoneNamed == ASSUME NEW o PROVE NamesOwner(NoChallenges, o)
  BY DEF NamesOwner, NoChallenges, AbsentChallenge

LEMMA UsedInit == KeyInit => UsedInv
  BY NoneNamed DEF KeyInit, UsedInv, IdleAttempt

(* An id is drawn for an enrollment once.                                     *)
LEMMA CreateEnrollmentDraws ==
    ASSUME TypeOK, NEW w \in Worker, NEW em \in Email, NEW g, NEW a, NEW l, CreateEnrollment(w, em, g, a, l)
    PROVE  /\ Extends(owner, owner', AnyEnrollment)
           /\ owner'[frame'[w].enr] = em
           /\ UNCHANGED <<certificates, enrollments, registry, minted>>
  <1> DEFINE F(e) == [IdleFrame EXCEPT
               !.pc = "enrollOpen", !.then = l, !.enr = e, !.activate = a,
               !.snapE = [enrollments EXCEPT ![e] =
                   [status |-> "pending", email |-> em, serial |-> None, proven |-> g]]]
  <1>1. PICK e \in Enrollment : owner[e] = None /\ owner' = [owner EXCEPT ![e] = em] /\ Become(w, F(e))
    BY DEF CreateEnrollment
  <1>2. F(e).enr = e
    BY DEF IdleFrame
  <1> HIDE DEF F
  <1>3. frame'[w].enr = e
    BY <1>1, <1>2 DEF Become, TypeOK
  <1>. QED
    BY <1>1, <1>3 DEF Extends, TypeOK, AnyEnrollment, CreateEnrollment, stores

LEMMA HandleDraws ==
    ASSUME NEW w \in Worker, Handle(w)
    PROVE  owner' = owner
  BY DEF Handle, IssueRefused, IssuePending, IssueAgain, IssueExisting, IssueMint,
         ActivateRead, ActivateCheck, ActivateEmails, RevokeRead, RevokeReadR, OpenRegistry,
         FlushRegistry, SyncReadK, SyncReadR, SyncReadE, OpenEnrollments, FlushEnrollments,
         OpenCertificates, FlushCertificates

LEMMA StartDraws ==
    ASSUME TypeOK, NEW w \in Worker, Start(w)
    PROVE  Extends(owner, owner', AnyEnrollment)
  <1>1. CASE StartEnroll(w)
    BY <1>1, CreateEnrollmentDraws DEF StartEnroll
  <1>2. CASE StartEnrollDemo(w)
    BY <1>2, CreateEnrollmentDraws, ConstantsAssumption DEF StartEnrollDemo
  <1>3. CASE StartIssue(w) \/ StartActivate(w) \/ StartRevoke(w) \/ StartRegistryRevoke(w) \/ StartSync(w)
    BY <1>3 DEF StartIssue, StartActivate, StartRevoke, StartRegistryRevoke, StartSync, Extends
  <1>. QED
    BY <1>1, <1>2, <1>3 DEF Start

(* A step of one worker that leaves UsedInv's parts in order.                 *)
LEMMA UsedStep ==
    ASSUME KeyInv, UsedInv, NEW w \in Worker, Extends(owner, owner', AnyEnrollment),
           \A v \in Worker \ {w} : attempt'[v] = attempt[v] /\ frame'[v] = frame[v],
           NamesOwner(challenges', owner'), NamesOwner(attempt'[w].snap, owner'),
           attempt'[w].pc = "called" => owner'[frame'[w].enr] = attempt'[w].snap[attempt'[w].chal].email
    PROVE  UsedInv'
  <1>1. ASSUME NEW v \in Worker \ {w}
        PROVE  /\ NamesOwner(attempt'[v].snap, owner')
               /\ attempt'[v].pc = "called" =>
                     owner'[frame'[v].enr] = attempt'[v].snap[attempt'[v].chal].email
    <2>1. Named(attempt[v].snap)
      BY AttemptTypes DEF ListOK, Named
    <2>2. NamesOwner(attempt'[v].snap, owner')
      BY <1>1, <2>1, NamesKept DEF UsedInv
    <2>3. ASSUME attempt[v].pc = "called"
          PROVE  /\ frame[v].enr \in AnyEnrollment
                 /\ owner[frame[v].enr] = attempt[v].snap[attempt[v].chal].email
                 /\ attempt[v].snap[attempt[v].chal].email \in Email
      BY <2>1, <2>3, AttemptTypes, FrameTypes DEF UsedInv, Linked, KeyInv, Named, ChallengeRecord
    <2>. QED
      BY <1>1, <2>2, <2>3, ConstantsAssumption DEF Extends
  <1>. QED
    BY <1>1 DEF UsedInv
LEMMA UsedKeyStep ==
    ASSUME KeyInv, UsedInv, NEW w \in Worker, KeyStep(w)
    PROVE  UsedInv'
  <1> DEFINE a == attempt[w]
             b == attempt'[w]
  <1>1. /\ a \in Attempt /\ Named(a.snap) /\ Named(challenges) /\ DOMAIN a.snap = Challenge
        /\ DOMAIN challenges = Challenge
        /\ NamesOwner(a.snap, owner) /\ NamesOwner(challenges, owner) /\ Linked(w)
    BY AttemptTypes DEF ListOK, Named, UsedInv, KeyInv, KeyTypeOK
  <1>2. /\ \A x : Call(w, x) => b = x
        /\ \A v \in Worker \ {w} : attempt'[v] = attempt[v]
    <2>1. attempt \in [Worker -> Attempt] /\ \E x : Call(w, x)
      BY DEF KeyInv, KeyTypeOK, KeyStep, StartChallenge, SubmitUsable, SubmitClosing, ProveGenuine,
             ProveFails, MarkUsed, OpenChallenges, FlushChallenges
    <2>. QED
      BY <2>1 DEF Call
  <1>3. \A v \in Worker \ {w} : frame'[v] = frame[v]
    <2>1. ProveGenuine(w) => Moves(w)
      BY CreateEnrollmentMoves DEF ProveGenuine, KeyInv
    <2>2. frame \in [Worker -> Frame]
      BY DEF KeyInv, TypeOK
    <2>. QED
      BY <2>1, <2>2 DEF Moves, KeyStep, StartChallenge, SubmitUsable, SubmitClosing, ProveFails, MarkUsed,
             OpenChallenges, FlushChallenges, vars, Become
  <1>4. ASSUME ~ProveGenuine(w) PROVE owner' = owner /\ Extends(owner, owner', AnyEnrollment)
    BY <1>4 DEF KeyStep, StartChallenge, SubmitUsable, SubmitClosing, ProveFails, MarkUsed,
           OpenChallenges, FlushChallenges, vars, Extends
  <1>5. ASSUME ~ProveGenuine(w), NamesOwner(challenges', owner), NamesOwner(b.snap, owner), b.pc # "called"
        PROVE  UsedInv'
    BY <1>2, <1>3, <1>4, <1>5, UsedStep
  <1>7. CASE StartChallenge(w)
    <2> DEFINE Rec(em) == [status |-> "issued", email |-> em, failed |-> 0,
                           expires |-> clock + TTL, enr |-> None]
    <2>1. PICK c \in Challenge, em \in Email :
             Call(w, [IdleAttempt EXCEPT !.pc = "open", !.snap = [challenges EXCEPT ![c] = Rec(em)]])
      BY <1>7 DEF StartChallenge
    <2>2. Rec(em).status = "issued"
      OBVIOUS
    <2> HIDE DEF Rec
    <2>3. NamesOwner([challenges EXCEPT ![c] = Rec(em)], owner)
      BY <1>1, <2>2, NamesChange
    <2>4. ~ProveGenuine(w) /\ challenges' = challenges
      BY <1>1, <1>7 DEF StartChallenge, ProveGenuine, Doing, Free, At, Linked
    <2>5. b.pc = "open" /\ b.snap = [challenges EXCEPT ![c] = Rec(em)]
      BY <1>2, <2>1 DEF IdleAttempt
    <2>. QED
      BY <1>1, <1>5, <2>3, <2>4, <2>5
  <1>8. CASE SubmitUsable(w)
    <2>1. b.pc = "prove" /\ b.snap = challenges /\ challenges' = challenges
      BY <1>2, <1>8 DEF SubmitUsable
    <2>2. ~ProveGenuine(w)
      BY <1>1, <1>8 DEF SubmitUsable, ProveGenuine, Doing, Free, At, Linked
    <2>. QED
      BY <1>1, <1>5, <2>1, <2>2
  <1>9. CASE SubmitClosing(w)
    <2> DEFINE St(c) == IF Expired(challenges[c]) THEN "expired" ELSE "locked"
               r(c) == [challenges[c] EXCEPT !.status = St(c)]
    <2>1. PICK c \in drawn :
             Call(w, [IdleAttempt EXCEPT !.pc = "open", !.snap = [challenges EXCEPT ![c].status = St(c)]])
      BY <1>9 DEF SubmitClosing
    <2>2. c \in Challenge /\ r(c).status # "used" /\ [challenges EXCEPT ![c].status = St(c)] = [challenges EXCEPT ![c] = r(c)]
      BY <1>1 DEF KeyInv, KeyTypeOK, Named, ChallengeRecord
    <2> HIDE DEF r
    <2>3. NamesOwner([challenges EXCEPT ![c] = r(c)], owner)
      BY <1>1, <2>2, NamesChange
    <2>4. ~ProveGenuine(w) /\ challenges' = challenges
      BY <1>1, <1>9 DEF SubmitClosing, ProveGenuine, Doing, Free, At, Linked
    <2>5. b.pc = "open" /\ b.snap = [challenges EXCEPT ![c].status = St(c)]
      BY <1>2, <2>1 DEF IdleAttempt
    <2>. QED
      BY <1>1, <1>5, <2>2, <2>3, <2>4, <2>5
  <1>10. CASE ProveGenuine(w)
    <2> DEFINE em == a.snap[a.chal].email
    <2>1. a.pc = "prove" /\ a.chal \in Challenge /\ em \in Email
      BY <1>1, <1>10 DEF ProveGenuine, Doing, Linked, Named, ChallengeRecord
    <2>2. CreateEnrollment(w, em, a.genuine, FALSE, "caller") /\ b = [a EXCEPT !.pc = "called"] /\ challenges' = challenges
      BY <1>2, <1>10 DEF ProveGenuine
    <2>3. b.pc = "called" /\ b.snap = a.snap /\ b.chal = a.chal
      BY <1>1, <2>2 DEF Attempt
    <2>4. Extends(owner, owner', AnyEnrollment) /\ owner'[frame'[w].enr] = em
      BY <2>1, <2>2, CreateEnrollmentDraws DEF KeyInv
    <2>5. NamesOwner(challenges', owner') /\ NamesOwner(b.snap, owner')
      BY <1>1, <2>2, <2>3, <2>4, NamesKept
    <2>. QED
      BY <1>2, <1>3, <2>3, <2>4, <2>5, UsedStep
  <1>11. CASE ProveFails(w)
    <2> DEFINE c == a.chal
               r == Failed(a.snap[c])
    <2>1. a.pc = "prove" /\ c \in Challenge /\ a.snap[c].status = "issued"
      BY <1>1, <1>11 DEF ProveFails, Doing, Linked, KeyInv
    <2>2. r.status # "used"
      BY <1>1, <2>1 DEF Failed, Named, ChallengeRecord
    <2>3. b = [a EXCEPT !.pc = "open", !.issue = FALSE, !.snap[c] = r]
      BY <1>2, <1>11 DEF ProveFails
    <2>4. b.pc = "open" /\ b.snap = [a.snap EXCEPT ![c] = r]
      BY <1>1, <2>3 DEF Attempt
    <2>5. ~ProveGenuine(w) \/ UsedInv'
      BY <1>10
    <2> HIDE DEF r
    <2>6. NamesOwner(b.snap, owner) /\ challenges' = challenges
      BY <1>1, <1>11, <2>1, <2>2, <2>4, NamesChange DEF ProveFails
    <2>. QED
      BY <1>1, <1>5, <2>4, <2>5, <2>6
  <1>12. CASE MarkUsed(w)
    <2> DEFINE c == a.chal
               r == UsedFor(a.snap[c], frame[w].enr)
    <2>1. a.pc = "called" /\ c \in Challenge /\ frame[w].enr \in AnyEnrollment
      BY <1>1, <1>12, FrameTypes DEF MarkUsed, Doing, Linked, KeyInv
    <2>2. r.enr = frame[w].enr /\ r.email = a.snap[c].email
      BY <1>1, <2>1 DEF UsedFor, Named, ChallengeRecord
    <2>3. owner[frame[w].enr] = a.snap[c].email
      BY <2>1 DEF UsedInv
    <2>4. b = [a EXCEPT !.pc = "open", !.snap[c] = r]
      BY <1>2, <1>12 DEF MarkUsed
    <2>5. b.pc = "open" /\ b.snap = [a.snap EXCEPT ![c] = r]
      BY <1>1, <2>4 DEF Attempt
    <2>6. ~ProveGenuine(w)
      BY <2>1 DEF ProveGenuine, Doing
    <2> HIDE DEF r
    <2>7. NamesOwner(b.snap, owner) /\ challenges' = challenges
      BY <1>1, <1>12, <2>1, <2>2, <2>3, <2>5, NamesChange DEF MarkUsed
    <2>. QED
      BY <1>1, <1>5, <2>5, <2>6, <2>7
  <1>13. CASE OpenChallenges(w)
    <2>1. b = [a EXCEPT !.pc = "flush"] /\ challenges' = NoChallenges /\ ~ProveGenuine(w)
      BY <1>2, <1>13 DEF OpenChallenges, ProveGenuine, Doing
    <2>2. b.pc = "flush" /\ b.snap = a.snap
      BY <1>1, <2>1 DEF Attempt
    <2>. QED
      BY <1>1, <1>5, <2>1, <2>2, NoneNamed
  <1>14. CASE FlushChallenges(w)
    <2>1. b = IdleAttempt /\ challenges' \in {a.snap, NoChallenges} /\ ~ProveGenuine(w)
      BY <1>2, <1>14 DEF FlushChallenges, Written, ProveGenuine, Doing
    <2>2. b.pc = "idle" /\ b.snap = NoChallenges
      BY <2>1 DEF IdleAttempt
    <2>. QED
      BY <1>1, <1>5, <2>1, <2>2, NoneNamed
  <1>. QED
    BY <1>7, <1>8, <1>9, <1>10, <1>11, <1>12, <1>13, <1>14 DEF KeyStep

LEMMA UsedKeeps == KeyInv /\ UsedInv /\ [KeyNext]_allVars => UsedInv'
  <1> SUFFICES ASSUME KeyInv, UsedInv, [KeyNext]_allVars PROVE UsedInv'
    OBVIOUS
  <1>1. Named(challenges) /\ \A w \in Worker : Named(attempt[w].snap)
    BY AttemptTypes DEF KeyInv, KeyTypeOK, ListOK, Named
  <1>2. ASSUME NEW w \in Worker, Start(w), UNCHANGED challengeVars PROVE UsedInv'
    <2>1. Extends(owner, owner', AnyEnrollment) /\ \A v \in Worker \ {w} : frame'[v] = frame[v]
      BY <1>2, StartDraws, StartShape DEF KeyInv, Moves
    <2>2. attempt[w].pc # "called"
      BY <1>2, StartShape, AttemptTypes DEF Linked, Free, At, KeyInv
    <2>. QED
      BY <1>1, <1>2, <2>1, <2>2, NamesKept, UsedStep DEF UsedInv, challengeVars
  <1>3. ASSUME NEW w \in Worker, Handle(w), UNCHANGED challengeVars PROVE UsedInv'
    <2>1. owner' = owner /\ \A v \in Worker \ {w} : frame'[v] = frame[v]
      BY <1>3, HandleDraws, HandleShape DEF KeyInv, Moves
    <2>2. attempt[w].pc = "called" => frame'[w].enr = frame[w].enr
      BY <1>3, CalledStep
    <2>. QED
      BY <1>3, <2>1, <2>2, UsedStep DEF UsedInv, challengeVars, Extends
  <1>4. CASE KeyCrash
    BY <1>4, NoneNamed DEF KeyCrash, Crash, UsedInv, IdleAttempt
  <1>5. CASE Tick \/ (Lapse /\ UNCHANGED challengeVars) \/ UNCHANGED allVars
    BY <1>5 DEF Tick, Lapse, allVars, vars, challengeVars, UsedInv
  <1>. QED
    BY <1>2, <1>3, <1>4, <1>5, UsedKeyStep DEF KeyNext, StartKey, HandleKey, KeyStep, SubmitRefused
-----------------------------------------------------------------------------
(* The lifecycle files, in the composed service: the invariants of            *)
(* SequentialLifecycleProofs hold of it too.                                  *)
FilesInv == OriginInv /\ OneInv /\ FoundInv

(* A frame without copies, before or after a challenge request.               *)
Plain(f) ==
    /\ f.pc \in {"caller", "issueRead", "idle"} /\ f.then = "idle" /\ f.enr # DemoEnrollment
    /\ f.snapE = NoEnrollments /\ f.snapK = NoCertificates /\ f.held = NoCertificates

LEMMA PlainStep ==
    ASSUME Sequential = TRUE, TypeOK, AloneInv, FilesInv, NEW w \in Worker, ~At(w, "idle") \/ Free(w),
           frame[w].pc \notin WritingE \union WritingK,
           NEW f, Plain(f), Become(w, f), UNCHANGED <<certificates, enrollments, minted, owner>>
    PROVE  FilesInv'
  <1> USE DEF FilesInv
  <1>1. OriginFrame(f, minted, owner)
    BY NothingGenuine DEF Plain, OriginFrame, InActivation, Activating, SyncLabels, Callers
  <1>2. OneFrame(f, enrollments, certificates)
    BY NothingSeparates DEF Plain, OneFrame, OneInv
  <1>3. FoundFrame(f, enrollments, certificates, owner)
    <2>1. Found(enrollments, certificates) /\ Complete(enrollments, owner)
      BY FoundNow DEF FoundFrame, NewE, NewK
    <2>. QED
      BY <2>1 DEF Plain, FoundFrame, NewE, NewK, WritingE, WritingK, FlushE, FlushK, RevokingBoth,
                  Activating, SyncLabels
  <1>. QED
    BY <1>1, <1>2, <1>3, OriginRead, OneRead, FoundRead

LEMMA FilesKeyStep ==
    ASSUME Sequential = TRUE, KeyInv, AloneInv, FilesInv, NEW w \in Worker, KeyStep(w)
    PROVE  FilesInv'
  <1> USE DEF KeyInv
  <1>1. /\ ~At(w, "idle") \/ Free(w)
        /\ attempt[w] \in Attempt /\ Linked(w)
    <2>1. attempt[w].pc # "idle" \/ Free(w)
      BY DEF KeyStep, StartChallenge, SubmitUsable, SubmitClosing, ProveGenuine, ProveFails, MarkUsed,
             OpenChallenges, FlushChallenges, Doing
    <2>. QED
      BY <2>1, OneAttempt, AttemptTypes
  <1>2. CASE StartChallenge(w) \/ SubmitUsable(w) \/ SubmitClosing(w)
    <2> DEFINE f == [IdleFrame EXCEPT !.pc = "caller"]
    <2>1. Plain(f)
      BY ConstantsAssumption DEF Plain, IdleFrame, AnyEnrollment
    <2>2. Become(w, f) /\ UNCHANGED <<certificates, enrollments, minted, owner>> /\ At(w, "idle")
      BY <1>2 DEF StartChallenge, SubmitUsable, SubmitClosing, stores, Free
    <2> HIDE DEF f
    <2>3. frame[w].pc \notin WritingE \union WritingK
      BY <2>2 DEF At, WritingE, WritingK, FlushE, FlushK
    <2>. QED
      BY <1>1, <2>1, <2>2, <2>3, PlainStep
  <1>3. CASE ProveGenuine(w)
    <2> DEFINE a == attempt[w]
    <2>1. /\ a.pc = "prove" /\ a.genuine \in BOOLEAN /\ a.snap[a.chal].email \in Email
          /\ frame[w].pc = "caller"
          /\ CreateEnrollment(w, a.snap[a.chal].email, a.genuine, FALSE, "caller")
      BY <1>1, <1>3, AttemptTypes DEF ProveGenuine, Doing, Linked, ListOK, ChallengeRecord
    <2>2. frame[w].pc \notin WritingE \union WritingK
      BY <2>1 DEF WritingE, WritingK, FlushE, FlushK
    <2> HIDE DEF a
    <2>3. FALSE \in BOOLEAN /\ "caller" \in {"idle", "issueRead", "caller"}
      OBVIOUS
    <2>4. OriginInv'
      BY <2>1, <2>3, CreateEnrollmentOrigin DEF FilesInv
    <2>5. OneInv'
      BY <1>1, <2>1, CreateEnrollmentOne DEF FilesInv
    <2>6. FoundInv'
      BY <1>1, <2>1, <2>2, <2>3, CreateEnrollmentFound DEF FilesInv
    <2>. QED
      BY <2>4, <2>5, <2>6 DEF FilesInv
  <1>4. CASE ProveFails(w) \/ MarkUsed(w) \/ OpenChallenges(w)
    BY <1>4 DEF ProveFails, MarkUsed, OpenChallenges, vars, stores, FilesInv, OriginInv, OneInv, FoundInv,
                Quiet, At
  <1>5. CASE FlushChallenges(w)
    <2> DEFINE f == [IdleFrame EXCEPT !.pc = "issueRead", !.enr = frame[w].enr, !.activate = attempt[w].activate]
    <2>1. /\ Become(w, IF attempt[w].issue THEN f ELSE IdleFrame)
          /\ UNCHANGED <<certificates, enrollments, minted, owner>>
          /\ frame[w].pc = "caller"
      BY <1>1, <1>5 DEF FlushChallenges, Doing, Linked, stores
    <2>2. frame[w].enr # DemoEnrollment
      BY DEF FilesInv, OneInv, OneFrame
    <2>3. Plain(f) /\ Plain(IdleFrame)
      BY <2>2, ConstantsAssumption DEF Plain, IdleFrame, AnyEnrollment
    <2>4. frame[w].pc \notin WritingE \union WritingK
      BY <2>1 DEF WritingE, WritingK, FlushE, FlushK
    <2> HIDE DEF f
    <2>. QED
      BY <1>1, <2>1, <2>3, <2>4, PlainStep
  <1>. QED
    BY <1>2, <1>3, <1>4, <1>5 DEF KeyStep

LEMMA FilesStep ==
    Sequential = TRUE /\ CanCrash = FALSE /\ KeyInv /\ AloneInv /\ FilesInv /\ [KeyNext]_allVars => FilesInv'
  <1> SUFFICES ASSUME Sequential = TRUE, CanCrash = FALSE, KeyInv, AloneInv, FilesInv, [KeyNext]_allVars
               PROVE  FilesInv'
    OBVIOUS
  <1>1. CASE [Next]_vars
    BY <1>1, StepKeepsOrigin, StepKeepsOne, StepKeepsFound DEF FilesInv, KeyInv
  <1>2. [Next]_vars \/ \E w \in Worker : KeyStep(w)
    BY DEF KeyNext, StartKey, HandleKey, KeyStep, SubmitRefused, allVars, Tick, KeyCrash, Next
  <1>. QED
    BY <1>1, <1>2, FilesKeyStep

(* What the composed service rests on, between requests.                      *)
ComposedInv == OrderedInv /\ FilesInv /\ UsedInv

LEMMA ComposedInit == KeyInit => ComposedInv
  <1>1. KeyInit => FilesInv
    BY OriginInit, OneInit, FoundInit DEF KeyInit, FilesInv
  <1>. QED
    BY <1>1, OrderedInit, UsedInit DEF ComposedInv

LEMMA ComposedStep ==
    Sequential = TRUE /\ CanCrash = FALSE /\ ComposedInv /\ [KeyNext]_allVars => ComposedInv'
  BY OrderedStep, FilesStep, UsedKeeps DEF ComposedInv, OrderedInv

(* Between requests, a used challenge names an enrollment that was made for   *)
(* its address and is still on file: the enrollment is written before the     *)
(* challenge is marked, and nothing that is written later drops it            *)
(* (proof_of_possession_service.py:158-166).                                  *)
THEOREM UsedNamesItsEnrollment ==
    ASSUME Sequential = TRUE, CanCrash = FALSE
    PROVE  KeySpec => []UsedNamesEnrollment
  <1>1. ASSUME ComposedInv, Quiet, NEW c \in Challenge, challenges[c].status = "used"
        PROVE  LET e == challenges[c].enr
               IN  e # None /\ owner[e] = challenges[c].email /\ enrollments[e].status # "absent"
    <2>1. /\ challenges[c].enr \in AnyEnrollment /\ owner[challenges[c].enr] = challenges[c].email
          /\ challenges[c].email \in Email
      BY <1>1 DEF ComposedInv, UsedInv, NamesOwner, OrderedInv, KeyInv, KeyTypeOK, ChallengeRecord
    <2>2. Complete(enrollments, owner)
      BY <1>1 DEF ComposedInv, FilesInv, FoundInv
    <2>. QED
      BY <2>1, <2>2, ConstantsAssumption DEF Complete
  <1>2. ComposedInv => UsedNamesEnrollment
    BY <1>1 DEF UsedNamesEnrollment
  <1>. QED
    BY <1>2, ComposedInit, ComposedStep, PTL DEF KeySpec

(* FilesAgree, for a service that also enrolls keys by challenge: the two     *)
(* lifecycle files agree between requests.                                    *)
THEOREM ComposedFilesAgree ==
    ASSUME Sequential = TRUE, CanCrash = FALSE
    PROVE  KeySpec => []IssuedIsFound
  <1>1. ComposedInv => IssuedIsFound
    BY DEF ComposedInv, FilesInv, FoundInv, Found, IssuedIsFound, Present
  <1>. QED
    BY <1>1, ComposedInit, ComposedStep, PTL DEF KeySpec
=============================================================================
