--------------------------- MODULE SigningPromise ---------------------------
(***************************************************************************)
(* What the signing service promises of a request, without certificates,   *)
(* files or workers: it is signed after its owner confirmed it, once, and   *)
(* then exactly one signed document is kept for it                         *)
(* (docs/KEY_CUSTODY_AND_CERTIFICATE_LIFECYCLE.md, backend/tests).          *)
(***************************************************************************)
EXTENDS Naturals

CONSTANT Request

VARIABLES phase, kept

promiseVars == <<phase, kept>>

PromiseInit ==
    /\ phase = [r \in Request |-> "unknown"]
    /\ kept = [r \in Request |-> 0]

Move(r, from, to) == phase[r] = from /\ phase' = [phase EXCEPT ![r] = to]

Prepare(r) == Move(r, "unknown", "prepared") /\ UNCHANGED kept
Confirm(r) == Move(r, "prepared", "confirmed") /\ UNCHANGED kept
Sign(r) ==
    /\ Move(r, "confirmed", "signed")
    /\ kept' = [kept EXCEPT ![r] = @ + 1]

PromiseNext == \E r \in Request : Prepare(r) \/ Confirm(r) \/ Sign(r)
PromiseSpec == PromiseInit /\ [][PromiseNext]_promiseVars
=============================================================================
