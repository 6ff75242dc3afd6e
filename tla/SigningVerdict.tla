--------------------------- MODULE SigningVerdict ---------------------------
(***************************************************************************)
(* What a signed package is worth: the demo TSA that timestamps it, the    *)
(* revocation registry with its revocation times, and verify_signed_package *)
(* which judges a package by both, at signing and at any later time.       *)
(*                                                                         *)
(* The registry is rewritten as a whole from a list read before; the two   *)
(* key files of the TSA are created by whoever needs them first.  Every    *)
(* write truncates the file and then fills it.  DemoPKI has the PKI in     *)
(* detail; here a replacement is one step.                                 *)
(***************************************************************************)
EXTENDS Naturals, FiniteSets

CONSTANTS
    Worker,      \* threads of the pool that run handlers
    Client,      \* serials of user certificates, issued under the first CA
    Key,         \* key pairs the demo TSA may draw
    None,        \* no file, no record, nothing loaded
    Torn,        \* the content of a truncated file
    Requests,    \* the endpoints clients call in this instance
    CanCrash,    \* TRUE: the process may die between two steps
    MaxReplace,  \* replacements of the PKI
    MaxClock,    \* reads of the clock
    MaxPackages  \* packages kept

ASSUME VerdictAssumption ==
    /\ None \notin Key /\ Torn \notin Key /\ None # Torn
    /\ CanCrash \in BOOLEAN
    /\ MaxReplace \in Nat /\ MaxClock \in Nat /\ MaxPackages \in Nat
    /\ Client \cap Nat = {} /\ None \notin Client \union Nat /\ Torn \notin Nat

VARIABLES
    clock,     \* the last instant _now() returned; no two calls return the same
    epoch,     \* how often the PKI was replaced; also the serial of USER_CERT
    registry,  \* the revocation registry: revoked_at by serial
    tsa,       \* the files TSA_KEY and TSA_PUBLIC_KEY
    packages,  \* _SIGNED_PACKAGES
    tokens,    \* timestamp tokens given out
    call,      \* per worker, the handler it runs
    spoiled,   \* history: the TSA's files were created twice at once, read while
               \* they were created, or cut short while the public key was written
    lost,      \* history: the registry was written from a list out of date
    again      \* history: serials revoked when they already had a record

vars == <<clock, epoch, registry, tsa, packages, tokens, call, spoiled, lost, again>>

Demo == 0 .. MaxReplace           \* serials of the demo certificates
Serial == Client \union Demo
Epoch(s) == IF s \in Client THEN 0 ELSE s
Instant == 0 .. MaxClock
Registry == [Serial -> Instant \union {None}]
Content == Key \union {None, Torn}

\* A token is signed with a key, over a payload that names the content of TSA_PUBLIC_KEY.
Token == [key : Key, finger : Key \union {Torn}]

(* The serial the request names, that of the certificate loaded for it, the   *)
(* token with its genTime, and the verdict of the report the signer got.      *)
(* History: "already", the serial was in the registry at genTime; "raced",    *)
(* its revocation was under way then.                                         *)
Package ==
    [serial : Serial, cert : Serial, token : Token, time : Instant,
     reported : {"none", "accepted", "rejected"}, already : BOOLEAN, raced : BOOLEAN]

Point == {"idle", "check", "load", "init", "write", "time", "finger", "token", "verify",
          "read", "stamp", "rewrite"}
Idle ==
    [at |-> "idle", serial |-> None, cert |-> None, key |-> None, file |-> "key", open |-> FALSE,
     time |-> 0, finger |-> None, already |-> FALSE, raced |-> FALSE, read |-> None]
Call ==
    [at : Point, serial : Serial \union {None}, cert : Serial \union {None}, key : Key \union {None},
     file : {"key", "pub"}, open : BOOLEAN, time : Instant, finger : Content,
     already : BOOLEAN, raced : BOOLEAN, read : Registry \union {None}]

At(w, l) == call[w].at = l
Become(w, c) == call' = [call EXCEPT ![w] = c]
Goto(w, l) == Become(w, [call[w] EXCEPT !.at = l])
Begin(w, c) == At(w, "idle") /\ Become(w, c)
Others(w) == Worker \ {w}
Now == clock < MaxClock /\ clock' = clock + 1

VInit ==
    /\ clock = 0 /\ epoch = 0
    /\ registry = [s \in Serial |-> None]
    /\ tsa = [f \in {"key", "pub"} |-> None]
    /\ packages = {} /\ tokens = {}
    /\ call = [w \in Worker |-> Idle]
    /\ spoiled = FALSE /\ lost = FALSE /\ again = {}
-----------------------------------------------------------------------------
(* revoke: the list without the serial, the time, the file truncated and      *)
(* filled with the list and the new record.                                   *)

Listed == Client \union 0 .. epoch

StartRevoke(w) ==
    /\ "revoke" \in Requests
    /\ \E s \in Listed : Begin(w, [Idle EXCEPT !.at = "read", !.serial = s])
    /\ UNCHANGED <<clock, epoch, registry, tsa, packages, tokens, spoiled, lost, again>>

ReadRegistry(w) ==
    /\ At(w, "read")
    /\ IF registry = Torn THEN Become(w, Idle)
       ELSE Become(w, [call[w] EXCEPT !.at = "stamp", !.read = registry])
    /\ UNCHANGED <<clock, epoch, registry, tsa, packages, tokens, spoiled, lost, again>>

StampRevocation(w) ==
    /\ At(w, "stamp") /\ Now
    /\ Become(w, [call[w] EXCEPT !.at = "rewrite", !.time = clock'])
    /\ UNCHANGED <<epoch, registry, tsa, packages, tokens, spoiled, lost, again>>

OpenRegistry(w) ==
    /\ At(w, "rewrite") /\ ~call[w].open
    /\ registry' = Torn
    /\ Become(w, [call[w] EXCEPT !.open = TRUE])
    /\ lost' = (lost \/ registry # call[w].read)
    /\ UNCHANGED <<clock, epoch, tsa, packages, tokens, spoiled, again>>

FlushRegistry(w) ==
    /\ At(w, "rewrite") /\ call[w].open
    /\ registry' = [call[w].read EXCEPT ![call[w].serial] = call[w].time]
    /\ again' = IF call[w].read[call[w].serial] = None THEN again ELSE again \union {call[w].serial}
    /\ Become(w, Idle)
    /\ UNCHANGED <<clock, epoch, tsa, packages, tokens, spoiled, lost>>
-----------------------------------------------------------------------------
(* sign_and_verify and submit_client_signature up to the timestamp.  The      *)
(* signature itself fits the certificate: an unfit one ends the handler.      *)

StartSign(w) ==
    /\ "sign" \in Requests
    /\ Cardinality(packages) + Cardinality({v \in Worker : call[v].serial # None}) < MaxPackages
    /\ \E s \in Listed : Begin(w, [Idle EXCEPT !.at = "check", !.serial = s])
    /\ UNCHANGED <<clock, epoch, registry, tsa, packages, tokens, spoiled, lost, again>>

\* _assert_certificate_usable
Check(w) ==
    /\ At(w, "check")
    /\ IF registry # Torn /\ registry[call[w].serial] = None THEN Goto(w, "load") ELSE Become(w, Idle)
    /\ UNCHANGED <<clock, epoch, registry, tsa, packages, tokens, spoiled, lost, again>>

\* _request_certificate: the record of a demo certificate names the file USER_CERT.
Load(w) ==
    /\ At(w, "load")
    /\ Become(w, [call[w] EXCEPT !.at = "init",
                     !.cert = IF call[w].serial \in Client THEN call[w].serial ELSE epoch])
    /\ UNCHANGED <<clock, epoch, registry, tsa, packages, tokens, spoiled, lost, again>>
-----------------------------------------------------------------------------
(* issue_demo_timestamp.                                                      *)

\* POST /timestamp/issue
StartStamp(w) ==
    /\ "stamp" \in Requests
    /\ Begin(w, [Idle EXCEPT !.at = "init"])
    /\ UNCHANGED <<clock, epoch, registry, tsa, packages, tokens, spoiled, lost, again>>

\* init_demo_tsa writes both files, the private key first, unless both exist.  Faulty
\* variants: it looks for the private key only; it starts with the first that is missing.
ReadyByKey == tsa["key"] # None
Ready == tsa["key"] # None /\ tsa["pub"] # None
FirstMissing == IF tsa["key"] = None THEN "key" ELSE "pub"
First == "key"

\* The bound on key pairs: those that nothing holds are drawn again.
FreshKey ==
    Key \ ({tsa["key"], tsa["pub"]} \union UNION {{t.key, t.finger} : t \in tokens}
              \union UNION {{p.token.key, p.token.finger} : p \in packages}
              \union UNION {{call[w].key, call[w].finger} : w \in Worker})

InitTsa(w) ==
    /\ At(w, "init")
    /\ IF Ready THEN Goto(w, "time")
       ELSE \E k \in FreshKey : Become(w, [call[w] EXCEPT !.at = "write", !.key = k, !.file = First])
    /\ spoiled' = (spoiled \/ \E v \in Others(w) : At(v, "write"))
    /\ UNCHANGED <<clock, epoch, registry, tsa, packages, tokens, lost, again>>

OpenKeyFile(w) ==
    /\ At(w, "write") /\ ~call[w].open
    /\ tsa' = [tsa EXCEPT ![call[w].file] = Torn]
    /\ Become(w, [call[w] EXCEPT !.open = TRUE])
    /\ UNCHANGED <<clock, epoch, registry, packages, tokens, spoiled, lost, again>>

FlushKeyFile(w) ==
    /\ At(w, "write") /\ call[w].open
    /\ tsa' = [tsa EXCEPT ![call[w].file] = call[w].key]
    /\ Become(w, IF call[w].file = "key"
                 THEN [call[w] EXCEPT !.file = "pub", !.open = FALSE]
                 ELSE [call[w] EXCEPT !.at = "time", !.key = None, !.file = "key", !.open = FALSE])
    /\ UNCHANGED <<clock, epoch, registry, packages, tokens, spoiled, lost, again>>

UnderRevocation(s) == \E v \in Worker : At(v, "rewrite") /\ call[v].serial = s
GenTime(w) ==
    /\ At(w, "time") /\ Now
    /\ Become(w, [call[w] EXCEPT !.at = "finger", !.time = clock',
                     !.already = call[w].serial # None /\ registry # Torn /\ registry[call[w].serial] # None,
                     !.raced = UnderRevocation(call[w].serial)])
    /\ UNCHANGED <<epoch, registry, tsa, packages, tokens, spoiled, lost, again>>

\* _token_payload reads the public key file, whatever it holds.
Fingerprint(w) ==
    /\ At(w, "finger")
    /\ Become(w, [call[w] EXCEPT !.at = "token", !.finger = tsa["pub"]])
    /\ UNCHANGED <<clock, epoch, registry, tsa, packages, tokens, spoiled, lost, again>>

\* The private key signs; a handler of the signing service then keeps the package and
\* marks the request signed.
SignToken(w) ==
    /\ At(w, "token")
    /\ IF tsa["key"] = Torn THEN Become(w, Idle) /\ UNCHANGED <<packages, tokens>>
       ELSE LET t == [key |-> tsa["key"], finger |-> call[w].finger] IN
            /\ tokens' = tokens \union {t}
            /\ IF call[w].serial = None THEN Become(w, Idle) /\ UNCHANGED packages
               ELSE /\ packages' = packages \union
                          {[serial |-> call[w].serial, cert |-> call[w].cert, token |-> t,
                            time |-> call[w].time, reported |-> "none",
                            already |-> call[w].already, raced |-> call[w].raced]}
                    /\ Goto(w, "verify")
    /\ UNCHANGED <<clock, epoch, registry, tsa, spoiled, lost, again>>
-----------------------------------------------------------------------------
(* verify_signed_package.                                                     *)

\* verify_demo_timestamp builds the payload anew, with today's public key file.
TokenValid(t) == tsa["pub"] # Torn /\ t.finger = tsa["pub"] /\ t.key = tsa["pub"]

\* status_at.  Faulty variants: the time is ignored; the comparison is turned round.
RevokedByNow(s, t) == registry[s] # None
RevokedAfter(s, t) == registry[s] # None /\ registry[s] > t
RevokedAt(s, t) == registry[s] # None /\ registry[s] <= t

\* verify_chain: a certificate is of the generation of the CA that signed it, and the CA on
\* file is of the generation of the last replacement.
TrustedChain(c) == Epoch(c) = epoch

\* The certificate is the request's, its chain leads to the CA on file, and the timestamp
\* is valid, so that the registry is asked about genTime.
Accepts(p) ==
    /\ p.cert = p.serial
    /\ TrustedChain(p.cert)
    /\ TokenValid(p.token)
    /\ ~RevokedAt(p.serial, p.time)

\* The report; a registry that does not parse ends the handler without one.
Verify(w) ==
    /\ At(w, "verify")
    /\ LET Mine == {p \in packages : p.time = call[w].time} IN
       packages' = IF registry = Torn THEN packages
                   ELSE (packages \ Mine) \union
                        {[p EXCEPT !.reported = IF Accepts(p) THEN "accepted" ELSE "rejected"] : p \in Mine}
    /\ Become(w, Idle)
    /\ UNCHANGED <<clock, epoch, registry, tsa, tokens, spoiled, lost, again>>
-----------------------------------------------------------------------------
\* init_demo_pki(force=True), in one step.
Replace ==
    /\ "replace" \in Requests /\ epoch < MaxReplace
    /\ epoch' = epoch + 1
    /\ UNCHANGED <<clock, registry, tsa, packages, tokens, call, spoiled, lost, again>>

Crash ==
    /\ CanCrash
    /\ call' = [w \in Worker |-> Idle]
    /\ packages' = {}
    /\ spoiled' = (spoiled \/ tsa["pub"] = Torn)
    /\ UNCHANGED <<clock, epoch, registry, tsa, tokens, lost, again>>

Step(w) ==
    \/ StartRevoke(w) \/ ReadRegistry(w) \/ StampRevocation(w) \/ OpenRegistry(w) \/ FlushRegistry(w)
    \/ StartSign(w) \/ Check(w) \/ Load(w) \/ StartStamp(w) \/ InitTsa(w) \/ OpenKeyFile(w)
    \/ FlushKeyFile(w) \/ GenTime(w) \/ Fingerprint(w) \/ SignToken(w) \/ Verify(w)

VNext == (\E w \in Worker : Step(w)) \/ Replace \/ Crash
VSpec == VInit /\ [][VNext]_vars
-----------------------------------------------------------------------------
(* Properties *)

VerdictTypeOK ==
    /\ clock \in Instant /\ epoch \in Demo
    /\ registry \in Registry \union {Torn}
    /\ tsa \in [{"key", "pub"} -> Content]
    /\ tokens \subseteq Token
    /\ packages \subseteq Package
    /\ call \in [Worker -> Call]
    /\ spoiled \in BOOLEAN /\ lost \in BOOLEAN /\ again \subseteq Serial

(* Every timestamp token ever given out verifies, across restarts and crashes *)
(* that cut the creation of the two key files short, unless two handlers      *)
(* created them at once or a crash hit the write of the public key            *)
(* (timestamp_service.py 38-66, 75-86).                                       *)
TokensVerify == ~spoiled => \A t \in tokens : TokenValid(t)

(* "Revocation after signing is accepted with trusted timestamp"              *)
(* (test_services.py 243): a package reported as accepted keeps its verdict   *)
(* whatever is revoked later, as long as its CA is in place; only a           *)
(* revocation that had taken its time when the timestamp was made, and was    *)
(* written after the report, may take the verdict back.                       *)
AcceptedStays ==
    ~spoiled /\ ~lost /\ registry # Torn => \A p \in packages :
        p.reported = "accepted" /\ ~p.raced /\ Epoch(p.cert) = epoch => Accepts(p)

(* "Records revocation time so verification can distinguish 'revoked before   *)
(* signing' from 'revoked after a trusted timestamp'" (revocation_service.py  *)
(* 4-5): a package timestamped when its certificate was in the registry is    *)
(* never accepted.                                                            *)
RevokedFirstRejected ==
    ~lost /\ registry # Torn => \A p \in packages : p.already => ~Accepts(p)

(* The same for certificates that are revoked only once.                      *)
RevokedOnceRejected ==
    ~lost /\ registry # Torn => \A p \in packages : p.already /\ p.serial \notin again => ~Accepts(p)
=============================================================================
