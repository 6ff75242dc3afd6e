---------------------------- MODULE KeyEnrollment ----------------------------
(***************************************************************************)
(* The proof-of-possession service: challenges.json, the challenges a key   *)
(* owner signs, and their submission, which enrolls the key through         *)
(* create_enrollment and issue_enrollment of CertificateLifecycle.          *)
(*                                                                         *)
(* As there, a handler works on the list it read and writes all of it back. *)
(***************************************************************************)
EXTENDS CertificateLifecycle

CONSTANTS
    Challenge,     \* ids "chal_<random>" that may be drawn
    MaxAttempts,   \* MAX_PROOF_ATTEMPTS
    TTL,           \* CHALLENGE_TTL_SECONDS
    MaxClock       \* bound: the last instant of a run

ASSUME ChallengeAssumption ==
    /\ MaxAttempts \in Nat \ {0}
    /\ TTL \in Nat /\ MaxClock \in Nat

VARIABLES
    challenges,  \* challenges.json, by id; all absent when unreadable
    clock,       \* the current time
    drawn,       \* the challenge ids handed out
    attempt,     \* per worker, the challenge request it handles
    uses,        \* history: enrollments made from each challenge
    failures     \* history: proofs that failed against each challenge,
                 \* counted up to one more than the limit

challengeVars == <<challenges, clock, drawn, attempt, uses, failures>>
allVars == <<vars, challengeVars>>
-----------------------------------------------------------------------------
ChallengeRecord ==
    [status : {"absent", "issued", "used", "expired", "locked"}, email : Email,
     failed : 0 .. MaxAttempts, expires : Nat, enr : AnyEnrollment \union {None}]

AbsentChallenge == [status |-> "absent", email |-> Alice, failed |-> 0, expires |-> 0, enr |-> None]
NoChallenges == [c \in Challenge |-> AbsentChallenge]

Attempt ==
    [pc : {"idle", "prove", "called", "open", "flush"}, chal : Challenge \union {None},
     genuine : BOOLEAN, issue : BOOLEAN, activate : BOOLEAN,
     snap : [Challenge -> ChallengeRecord]]

IdleAttempt ==
    [pc |-> "idle", chal |-> None, genuine |-> FALSE, issue |-> FALSE, activate |-> FALSE,
     snap |-> NoChallenges]

Doing(w, l) == attempt[w].pc = l
Call(w, a) == attempt' = [attempt EXCEPT ![w] = a]

\* The bound on drawing enrollment ids: one is left for every proof under way.
EnrollmentLeft ==
    Cardinality({e \in Enrollment : owner[e] = None})
        > Cardinality({v \in Worker : Doing(v, "prove")})
-----------------------------------------------------------------------------
KeyInit ==
    /\ Init
    /\ challenges = NoChallenges
    /\ clock = 0
    /\ drawn = {}
    /\ attempt = [w \in Worker |-> IdleAttempt]
    /\ uses = [c \in Challenge |-> 0]
    /\ failures = [c \in Challenge |-> 0]

(* POST /key-enrollment/challenge: create_key_enrollment_challenge, up to its *)
(* read of the file.                                                          *)
StartChallenge(w) ==
    /\ Free(w)
    /\ Become(w, [IdleFrame EXCEPT !.pc = "caller"])
    /\ \E c \in Challenge \ drawn, em \in Email :
        /\ drawn' = drawn \union {c}
        /\ Call(w, [IdleAttempt EXCEPT !.pc = "open", !.snap =
               [challenges EXCEPT ![c] = [status |-> "issued", email |-> em, failed |-> 0,
                                          expires |-> clock + TTL, enr |-> None]]])
    /\ UNCHANGED <<stores, minted, owner, lapsed, acked, challenges, clock, uses, failures>>

Expired(rec) == clock > rec.expires
Exhausted(rec) == rec.failed >= MaxAttempts
\* Faulty variant of Usable: the status is not looked at.
UsableAnyStatus(rec) == ~Expired(rec) /\ ~Exhausted(rec)
Usable(rec) == rec.status = "issued" /\ ~Expired(rec) /\ ~Exhausted(rec)

(* POST /key-enrollment/submit-public-key: submit_public_key_proof.           *)
SubmitUsable(w) ==
    /\ Free(w) /\ EnrollmentLeft
    /\ Become(w, [IdleFrame EXCEPT !.pc = "caller"])
    /\ \E c \in drawn, genuine, issue, activate \in BOOLEAN :
        /\ Usable(challenges[c])
        /\ issue => SerialLeft
        /\ activate => issue
        /\ Call(w, [pc |-> "prove", chal |-> c, genuine |-> genuine, issue |-> issue,
                    activate |-> activate, snap |-> challenges])
    /\ UNCHANGED <<stores, minted, owner, lapsed, acked, challenges, clock, drawn, uses, failures>>

\* A challenge past its time, or out of attempts, is closed and the request refused.
SubmitClosing(w) ==
    /\ Free(w)
    /\ Become(w, [IdleFrame EXCEPT !.pc = "caller"])
    /\ \E c \in drawn :
        /\ challenges[c].status = "issued"
        /\ Expired(challenges[c]) \/ Exhausted(challenges[c])
        /\ Call(w, [IdleAttempt EXCEPT !.pc = "open", !.snap =
               [challenges EXCEPT ![c].status =
                    IF Expired(challenges[c]) THEN "expired" ELSE "locked"]])
    /\ UNCHANGED <<stores, minted, owner, lapsed, acked, challenges, clock, drawn, uses, failures>>

\* A challenge that is not "issued" any more: refused, nothing is written.
SubmitRefused(w) ==
    /\ Free(w)
    /\ \E c \in drawn : challenges[c].status # "issued"
    /\ UNCHANGED allVars

\* The proof verifies: create_enrollment runs in this worker and comes back to "caller".
ProveGenuine(w) ==
    /\ Doing(w, "prove")
    /\ LET a == attempt[w] IN
        /\ CreateEnrollment(w, a.snap[a.chal].email, a.genuine, FALSE, "caller")
        /\ uses' = [uses EXCEPT ![a.chal] = @ + 1]
        /\ Call(w, [a EXCEPT !.pc = "called"])
    /\ UNCHANGED <<challenges, clock, drawn, failures>>

\* _record_failed_attempt.  The faulty variants count twice, not at all, or lock one
\* attempt too late.
FailedTwice(rec) == [rec EXCEPT !.failed = rec.failed + 2]
NotCounted(rec) == rec
LockedLate(rec) ==
    [rec EXCEPT !.failed = rec.failed + 1,
                !.status = IF rec.failed + 1 > MaxAttempts THEN "locked" ELSE rec.status]
Failed(rec) ==
    [rec EXCEPT !.failed = rec.failed + 1,
                !.status = IF rec.failed + 1 >= MaxAttempts THEN "locked" ELSE rec.status]

ProveFails(w) ==
    /\ Doing(w, "prove")
    /\ LET a == attempt[w] IN
        /\ ~VerifyProofOfPossession(a.genuine)
        /\ failures' = [failures EXCEPT ![a.chal] = IF @ > MaxAttempts THEN @ ELSE @ + 1]
        /\ Call(w, [a EXCEPT !.pc = "open", !.issue = FALSE,
                             !.snap[a.chal] = Failed(a.snap[a.chal])])
    /\ UNCHANGED <<vars, challenges, clock, drawn, uses>>

\* What is noted in the record of a used challenge.  The faulty variants leave it open,
\* or do not say for which enrollment it was used.
LeftOpen(rec, e) == [rec EXCEPT !.enr = e]
Unnamed(rec, e) == [rec EXCEPT !.status = "used"]
UsedFor(rec, e) == [rec EXCEPT !.status = "used", !.enr = e]

\* create_enrollment has returned: the challenge is marked used in the list read before.
MarkUsed(w) ==
    /\ Doing(w, "called") /\ At(w, "caller")
    /\ LET a == attempt[w] IN
        Call(w, [a EXCEPT !.pc = "open", !.snap[a.chal] = UsedFor(a.snap[a.chal], frame[w].enr)])
    /\ UNCHANGED <<vars, challenges, clock, drawn, uses, failures>>

OpenChallenges(w) ==
    /\ Doing(w, "open")
    /\ challenges' = NoChallenges
    /\ Call(w, [attempt[w] EXCEPT !.pc = "flush"])
    /\ UNCHANGED <<vars, clock, drawn, uses, failures>>

\* The write; a proven submission then issues the certificate if it was asked to.
FlushChallenges(w) ==
    /\ Doing(w, "flush")
    /\ challenges' \in Written(challenges, NoChallenges, attempt[w].snap)
    /\ Call(w, IdleAttempt)
    /\ Become(w, IF attempt[w].issue
                 THEN [IdleFrame EXCEPT !.pc = "issueRead", !.enr = frame[w].enr,
                                        !.activate = attempt[w].activate]
                 ELSE IdleFrame)
    /\ UNCHANGED <<stores, minted, owner, lapsed, acked, clock, drawn, uses, failures>>

Tick ==
    /\ clock < MaxClock
    /\ clock' = clock + 1
    /\ UNCHANGED <<vars, challenges, drawn, attempt, uses, failures>>

KeyCrash ==
    /\ Crash
    /\ attempt' = [w \in Worker |-> IdleAttempt]
    /\ UNCHANGED <<challenges, clock, drawn, uses, failures>>

HandleKey(w) ==
    \/ ProveGenuine(w) \/ ProveFails(w) \/ MarkUsed(w)
    \/ OpenChallenges(w) \/ FlushChallenges(w)
    \/ Handle(w) /\ UNCHANGED challengeVars

StartKey(w) ==
    \/ StartChallenge(w) \/ SubmitUsable(w) \/ SubmitClosing(w) \/ SubmitRefused(w)
    \/ Start(w) /\ UNCHANGED challengeVars

KeyNext ==
    \/ \E w \in Worker : StartKey(w) \/ HandleKey(w)
    \/ Tick \/ KeyCrash
    \/ Lapse /\ UNCHANGED challengeVars

KeySpec == KeyInit /\ [][KeyNext]_allVars
FairKeySpec == KeySpec /\ \A w \in Worker : WF_allVars(HandleKey(w))
-----------------------------------------------------------------------------
(* Properties *)

KeyTypeOK ==
    /\ challenges \in [Challenge -> ChallengeRecord]
    /\ clock \in 0 .. MaxClock
    /\ drawn \subseteq Challenge
    /\ attempt \in [Worker -> Attempt]
    /\ uses \in [Challenge -> Nat]
    /\ failures \in [Challenge -> 0 .. MaxAttempts + 1]

(* The stored counter never passes the limit, and a challenge on file that is *)
(* still "issued" has an attempt left, however many workers write back stale  *)
(* lists (proof_of_possession_service.py:124-132, 149-153).                   *)
AttemptsBounded ==
    \A c \in Challenge :
        /\ challenges[c].failed <= MaxAttempts
        /\ challenges[c].status = "issued" => challenges[c].failed < MaxAttempts

(* "single-use challenge IDs" (README.md:113): no challenge proves            *)
(* possession twice.                                                          *)
SingleUse == \A c \in Challenge : uses[c] <= 1

(* "maximum 5 failed proof attempts before lockout" (README.md:115): no more  *)
(* proofs than that are ever evaluated and refused.                           *)
LockoutHolds == \A c \in Challenge : failures[c] <= MaxAttempts

(* A used challenge names an enrollment made for its address, still on file   *)
(* between requests.                                                          *)
UsedNamesEnrollment ==
    Quiet => \A c \in Challenge : challenges[c].status = "used" =>
        LET e == challenges[c].enr IN
        /\ e # None /\ owner[e] = challenges[c].email
        /\ enrollments[e].status # "absent"

(* An accepted proof ends with the challenge recorded as used.                *)
AcceptedIsRecorded ==
    \A c \in Challenge : uses[c] > 0 ~> challenges[c].status = "used"

(* Once a challenge is recorded as expired, locked or used, no proof is       *)
(* accepted or counted against it (proof_of_possession_service.py:145-146).   *)
ClosedStaysClosed ==
    [][\A c \in Challenge : challenges[c].status \in {"used", "expired", "locked"} =>
        uses'[c] = uses[c] /\ failures'[c] = failures[c]]_allVars

(* The list as the requests see it: that of the worker writing it, or the file. *)
Writing == {w \in Worker : attempt[w].pc \in {"open", "flush"}}
View == IF Writing = {} THEN challenges ELSE attempt[The(Writing)].snap

Policy == INSTANCE ChallengePolicy WITH
    status <- [c \in Challenge |-> View[c].status],
    failed <- [c \in Challenge |-> View[c].failed]

(* The handlers, one request at a time, implement the documented policy.      *)
PolicySpec == Policy!PolicySpec
=============================================================================
