--------------------------- MODULE ChallengePolicy ---------------------------
(***************************************************************************)
(* What README.md:111-114 promises of a key enrollment challenge, without   *)
(* files or workers: an id is used once, it expires, and a fixed number of  *)
(* failed proofs locks it.  KeyEnrollment implements this when clients wait *)
(* for each answer and the process does not die.                            *)
(***************************************************************************)
EXTENDS Naturals

CONSTANTS Challenge, MaxAttempts

VARIABLES status, failed

policyVars == <<status, failed>>

PolicyInit ==
    /\ status = [c \in Challenge |-> "absent"]
    /\ failed = [c \in Challenge |-> 0]

Give(c) ==
    /\ status[c] = "absent"
    /\ status' = [status EXCEPT ![c] = "issued"]
    /\ UNCHANGED failed

Accept(c) ==
    /\ status[c] = "issued"
    /\ status' = [status EXCEPT ![c] = "used"]
    /\ UNCHANGED failed

Reject(c) ==
    /\ status[c] = "issued"
    /\ failed[c] < MaxAttempts
    /\ failed' = [failed EXCEPT ![c] = @ + 1]
    /\ status' = [status EXCEPT ![c] = IF failed'[c] = MaxAttempts THEN "locked" ELSE "issued"]

Expire(c) ==
    /\ status[c] = "issued"
    /\ status' = [status EXCEPT ![c] = "expired"]
    /\ UNCHANGED failed

PolicyNext == \E c \in Challenge : Give(c) \/ Accept(c) \/ Reject(c) \/ Expire(c)

PolicySpec == PolicyInit /\ [][PolicyNext]_policyVars
=============================================================================
