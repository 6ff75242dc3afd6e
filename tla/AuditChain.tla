----------------------------- MODULE AuditChain -----------------------------
(***************************************************************************)
(* The audit service: append_event, which every handler calls when its     *)
(* work is done.  It reads the hash of the last event and appends a line   *)
(* that names it; between the two another handler may append its own.      *)
(*                                                                         *)
(* A hash identifies its event, and an event its position in the file:     *)
(* the log holds, for each event, the position of the event its            *)
(* previousHash names, 0 for the 64 zeros an empty file stands for.        *)
(***************************************************************************)
EXTENDS Naturals, Sequences

CONSTANTS
    Worker,   \* threads of the pool that run handlers
    None      \* Python's None

ASSUME AuditAssumption == None \notin Nat

VARIABLES
    log,      \* the audit file
    note      \* per worker, the position append_event read as the last one

auditVars == <<log, note>>

AuditInit == log = <<>> /\ note = [w \in Worker |-> None]

\* Faulty variant of LastEvent: the last event but one.
LastButOne(events) == IF events = <<>> THEN 0 ELSE Len(events) - 1
LastEvent(events) == Len(events)

ReadLast(w) ==
    /\ note[w] = None
    /\ note' = [note EXCEPT ![w] = LastEvent(log)]
    /\ UNCHANGED log

AppendEvent(w) ==
    /\ note[w] # None
    /\ log' = Append(log, note[w])
    /\ note' = [note EXCEPT ![w] = None]

AuditTypeOK == log \in Seq(Nat) /\ note \in [Worker -> Nat \union {None}]

Linked(events) == \A i \in DOMAIN events : events[i] = i - 1
=============================================================================
