----------------------------- MODULE BlindTokens -----------------------------
(***************************************************************************)
(* The blind signature service: the signer key, created by the first        *)
(* request that needs it and then cached, blind signatures of tokens, and   *)
(* the registry of spent tokens.  Every answer is audited.                  *)
(*                                                                         *)
(* The handlers run in worker threads, without locks: looking at the cache, *)
(* looking for the key file, reading, truncating and writing a file are     *)
(* steps of their own.  RSA is abstracted: a signature of a token verifies  *)
(* under the key it was made with and no other.                             *)
(***************************************************************************)
EXTENDS AuditChain, FiniteSets

CONSTANTS
    Token,       \* tokens of the wallets; a client sends a token with its hash
    Key,         \* RSA keys that may be generated
    Torn,        \* a key file that cannot be imported
    CanCrash,    \* TRUE: the process may die between two steps
    MaxEvents    \* bound: the number of audited requests

ASSUME TokenAssumption ==
    /\ None \notin Key \union Token \union {Torn} /\ Torn \notin Key
    /\ CanCrash \in BOOLEAN
    /\ MaxEvents \in Nat

VARIABLES
    cached,      \* _BLIND_SIGNER_KEY
    keyFile,     \* blind_signer_key.pem; None when it does not exist
    generated,   \* the keys drawn so far
    known,       \* keys that signer-info has told a client
    held,        \* <<token, key>>: the signatures the wallets have unblinded
    spent,       \* spent_tokens.json; empty when unreadable
    call,        \* per worker, the handler it runs
    redeemed,    \* history: how often each token was accepted, counted up to 2
    overlapped,  \* history: two handlers have run at the same time
    emptied      \* history: the process died between truncating and filling the registry

tokenVars == <<cached, keyFile, generated, known, held, spent, call, redeemed, overlapped, emptied>>
blindVars == <<auditVars, tokenVars>>
-----------------------------------------------------------------------------
(* "left": how many more times the handler looks its key up after this one.  *)
(* "key": the key the client names, its signature was made with, or the flow *)
(* looked up first; None for a signature that verifies under no key.         *)
Labels ==
    {"idle", "cache", "file", "load", "generate", "openKey", "flushKey", "return",
     "isSpent", "read", "openSpent", "flushSpent", "audit"}
Call ==
    [pc : Labels, op : {"info", "sign", "redeem", "run"}, token : Token \union {None},
     key : Key \union {None}, left : 0 .. 3, export : Key \union {None}, snap : SUBSET Token]

IdleCall ==
    [pc |-> "idle", op |-> "info", token |-> None, key |-> None, left |-> 0,
     export |-> None, snap |-> {}]

At(w, l) == call[w].pc = l
Busy == {w \in Worker : ~At(w, "idle")}
Become(w, c) == call' = [call EXCEPT ![w] = c]
Goto(w, l) == Become(w, [call[w] EXCEPT !.pc = l])
Return(w) == Become(w, IdleCall)

(* The bounds: an audited request starts only if its event still fits, and a  *)
(* request that may have to generate a key only if one is left for it.        *)
EventLeft == Len(log) + Cardinality({w \in Busy : call[w].op # "info"}) < MaxEvents
Generating == {w \in Worker : call[w].pc \in {"cache", "file", "generate"}}
KeyLeft ==
    \/ cached # None \/ keyFile # None
    \/ Cardinality(Key \ generated) > Cardinality(Generating)

TokenInit ==
    /\ AuditInit
    /\ cached = None /\ keyFile = None /\ generated = {}
    /\ known = {} /\ held = {} /\ spent = {}
    /\ call = [w \in Worker |-> IdleCall]
    /\ redeemed = [t \in Token |-> 0]
    /\ overlapped = FALSE /\ emptied = FALSE
-----------------------------------------------------------------------------
(* Requests; each begins by looking up the key.                               *)

Begin(w, c) ==
    /\ At(w, "idle") /\ KeyLeft
    /\ c.op # "info" => EventLeft
    /\ Become(w, [c EXCEPT !.pc = "cache"])
    /\ overlapped' = (overlapped \/ Busy # {})
    /\ UNCHANGED <<auditVars, cached, keyFile, generated, known, held, spent, redeemed, emptied>>

\* GET /blind-signature/signer-info
StartInfo(w) == Begin(w, IdleCall)

\* POST /blind-signature/blind-sign: the blinded token and the id of a key.
StartSign(w) ==
    \E t \in Token, k \in known :
        Begin(w, [IdleCall EXCEPT !.op = "sign", !.token = t, !.key = k, !.left = 1])

\* POST /blind-signature/redeem: with a signature of the wallet, or with none that verifies.
StartRedeem(w) ==
    \E t \in Token : \E k \in {x \in Key : <<t, x>> \in held} \union {None} :
        Begin(w, [IdleCall EXCEPT !.op = "redeem", !.token = t, !.key = k])

\* POST /blind-signature/run: blinds, signs and unblinds, then verifies and redeems.
StartRun(w) ==
    \E t \in Token : Begin(w, [IdleCall EXCEPT !.op = "run", !.token = t, !.left = 3])
-----------------------------------------------------------------------------
(* _blind_signer_key                                                          *)

keep == <<auditVars, known, held, spent, redeemed, overlapped, emptied>>

CheckCache(w) ==
    /\ At(w, "cache")
    /\ Goto(w, IF cached # None THEN "return" ELSE "file")
    /\ UNCHANGED <<keep, cached, keyFile, generated>>

\* Faulty variants of AfterFile: a key is generated whether or not there is a file; a
\* file that exists is not loaded.
AlwaysGenerate(file) == "generate"
SkipFile(file) == IF file = None THEN "generate" ELSE "return"
AfterFile(file) == IF file = None THEN "generate" ELSE "load"

CheckFile(w) ==
    /\ At(w, "file")
    /\ Goto(w, AfterFile(keyFile))
    /\ UNCHANGED <<keep, cached, keyFile, generated>>

\* Importing a key that was not written to the end raises.
LoadKey(w) ==
    /\ At(w, "load")
    /\ IF keyFile = Torn THEN Return(w) /\ UNCHANGED cached
       ELSE Goto(w, "return") /\ cached' = keyFile
    /\ UNCHANGED <<keep, keyFile, generated>>

Generate(w) ==
    /\ At(w, "generate")
    /\ \E k \in Key \ generated :
        /\ generated' = generated \union {k}
        /\ cached' = k
    /\ Goto(w, "openKey")
    /\ UNCHANGED <<keep, keyFile>>

\* What is exported is the cached key, which another worker may have replaced.
OpenKeyFile(w) ==
    /\ At(w, "openKey")
    /\ keyFile' = Torn
    /\ Become(w, [call[w] EXCEPT !.pc = "flushKey", !.export = cached])
    /\ UNCHANGED <<keep, cached, generated>>

Written(current, truncated, new) == IF current = truncated THEN {new} ELSE {new, truncated}

FlushKeyFile(w) ==
    /\ At(w, "flushKey")
    /\ keyFile' \in Written(keyFile, Torn, call[w].export)
    /\ Become(w, [call[w] EXCEPT !.pc = "return", !.export = None])
    /\ UNCHANGED <<keep, cached, generated>>
-----------------------------------------------------------------------------
(* What the handlers do with the key they looked up.                          *)

TellKey(w) ==
    /\ At(w, "return") /\ call[w].op = "info"
    /\ known' = known \union {cached}
    /\ Return(w)
    /\ UNCHANGED <<auditVars, cached, keyFile, generated, held, spent, redeemed, overlapped, emptied>>

\* Another lookup follows.  A flow takes the first key it finds; with any other key the
\* request is refused: the id is unknown, or the unblinded signature does not verify.
LookUpAgain(w) ==
    /\ At(w, "return") /\ call[w].left > 0
    /\ IF call[w].key \in {None, cached}
       THEN Become(w, [call[w] EXCEPT !.pc = "cache", !.key = cached, !.left = @ - 1])
       ELSE Return(w)
    /\ UNCHANGED <<keep, cached, keyFile, generated>>

\* Signed with the key of the second lookup; the wallet unblinds with the one it named.
BlindSign(w) ==
    /\ At(w, "return") /\ call[w].op = "sign" /\ call[w].left = 0
    /\ held' = held \union IF call[w].key = cached THEN {<<call[w].token, cached>>} ELSE {}
    /\ Goto(w, "audit")
    /\ UNCHANGED <<auditVars, cached, keyFile, generated, known, spent, redeemed, overlapped, emptied>>

Verify(w) ==
    /\ At(w, "return") /\ call[w].op \in {"redeem", "run"} /\ call[w].left = 0
    /\ Goto(w, IF call[w].key = cached THEN "isSpent" ELSE "audit")
    /\ UNCHANGED <<keep, cached, keyFile, generated>>

\* Faulty variant of AfterLookup: the registry is not consulted.
NeverSpent(t, tokens) == "read"
AfterLookup(t, tokens) == IF t \in tokens THEN "audit" ELSE "read"

IsSpent(w) ==
    /\ At(w, "isSpent")
    /\ Goto(w, AfterLookup(call[w].token, spent))
    /\ UNCHANGED <<keep, cached, keyFile, generated>>

\* _mark_spent reads the registry again before it rewrites it.
ReadSpent(w) ==
    /\ At(w, "read")
    /\ Become(w, [call[w] EXCEPT !.pc = "openSpent", !.snap = spent \union {call[w].token}])
    /\ UNCHANGED <<keep, cached, keyFile, generated>>

OpenSpent(w) ==
    /\ At(w, "openSpent")
    /\ spent' = {}
    /\ Goto(w, "flushSpent")
    /\ UNCHANGED <<auditVars, cached, keyFile, generated, known, held, redeemed, overlapped, emptied>>

FlushSpent(w) ==
    /\ At(w, "flushSpent")
    /\ spent' \in Written(spent, {}, call[w].snap)
    /\ redeemed' = [redeemed EXCEPT ![call[w].token] = IF @ = 2 THEN 2 ELSE @ + 1]
    /\ Become(w, [call[w] EXCEPT !.pc = "audit", !.snap = {}])
    /\ UNCHANGED <<auditVars, cached, keyFile, generated, known, held, overlapped, emptied>>

AuditRead(w) == At(w, "audit") /\ ReadLast(w) /\ UNCHANGED tokenVars

AuditAppend(w) ==
    /\ At(w, "audit") /\ AppendEvent(w)
    /\ Return(w)
    /\ UNCHANGED <<cached, keyFile, generated, known, held, spent, redeemed, overlapped, emptied>>

\* The process dies and is started again.
Crash ==
    /\ CanCrash
    /\ cached' = None
    /\ call' = [w \in Worker |-> IdleCall]
    /\ note' = [w \in Worker |-> None]
    /\ emptied' = (emptied \/ \E w \in Worker : At(w, "flushSpent"))
    /\ UNCHANGED <<log, keyFile, generated, known, held, spent, redeemed, overlapped>>
-----------------------------------------------------------------------------
Request(w) == StartInfo(w) \/ StartSign(w) \/ StartRedeem(w) \/ StartRun(w)

LookUpKey(w) ==
    \/ CheckCache(w) \/ CheckFile(w) \/ LoadKey(w)
    \/ Generate(w) \/ OpenKeyFile(w) \/ FlushKeyFile(w)

UseKey(w) ==
    \/ TellKey(w) \/ LookUpAgain(w) \/ BlindSign(w) \/ Verify(w)
    \/ IsSpent(w) \/ ReadSpent(w) \/ OpenSpent(w) \/ FlushSpent(w)
    \/ AuditRead(w) \/ AuditAppend(w)

TokenNext == (\E w \in Worker : Request(w) \/ LookUpKey(w) \/ UseKey(w)) \/ Crash

TokenSpec == TokenInit /\ [][TokenNext]_blindVars
-----------------------------------------------------------------------------
(* Properties.  "overlapped" and "emptied" say under which conditions a       *)
(* promise is kept; no action depends on them.                                *)

TokenTypeOK ==
    /\ AuditTypeOK
    /\ cached \in Key \union {None}
    /\ keyFile \in Key \union {None, Torn}
    /\ generated \subseteq Key
    /\ known \subseteq Key
    /\ held \subseteq Token \X Key
    /\ spent \subseteq Token
    /\ call \in [Worker -> Call]
    /\ redeemed \in [Token -> 0 .. 2]
    /\ overlapped \in BOOLEAN /\ emptied \in BOOLEAN

(* "Rejects duplicate redemption as already_spent"                            *)
(* (routes_blind_signature.py:82): as long as handlers have not overlapped,   *)
(* no token is accepted twice, by redeem or by the all-in-one flow, wherever  *)
(* the process dies but between truncating and filling the registry, which    *)
(* then reads as empty (blind_signature_service.py:202-213).                  *)
RedeemedOnce == ~overlapped /\ ~emptied => \A t \in Token : redeemed[t] <= 1

(* A signature a wallet holds verifies under the key on file, so that it can  *)
(* be redeemed after any restart: the key is on file before the first token   *)
(* is signed, and never replaced (blind_signature_service.py:325-336).        *)
HeldVerifies == ~overlapped => \A p \in held : keyFile = p[2]

(* As long as handlers have not overlapped, the events form one chain, also   *)
(* when a crash leaves a handler's event out (audit_service.py:9-39).         *)
ChainUnbroken == ~overlapped => Linked(log)
=============================================================================
