-------------------------- MODULE BlindTokensProofs --------------------------
(* Theorems about the blind signature service and the audit log.              *)
EXTENDS BlindTokens, TLAPS

(* Types are not inductive alone: a handler that has looked a key up finds    *)
(* one in the cache, and one that works on a token has it.                    *)
AtToken == {"isSpent", "read", "openSpent", "flushSpent"}
HasToken(c) ==
    /\ c.op # "info" /\ c.pc # "idle" => c.token \in Token
    /\ c.pc \in AtToken => c.op # "info"
HasKey(w) ==
    /\ call[w].pc \in {"return", "openKey", "flushKey"} => cached \in Key
    /\ call[w].pc = "load" => keyFile # None
    /\ call[w].pc = "flushKey" => call[w].export \in Key
CallInv ==
    /\ TokenTypeOK
    /\ \A w \in Worker : HasToken(call[w]) /\ HasKey(w)

LEMMA IdleCallType == IdleCall \in Call /\ HasToken(IdleCall) /\ IdleCall.pc = "idle"
BY DEF IdleCall, Call, Labels, HasToken, AtToken

(* The fields of a call. *)
LEMMA CallFields ==
    ASSUME NEW c \in Call
    PROVE  /\ c.pc \in Labels /\ c.op \in {"info", "sign", "redeem", "run"}
           /\ c.token \in Token \union {None} /\ c.key \in Key \union {None}
           /\ c.left \in 0 .. 3 /\ c.export \in Key \union {None} /\ c.snap \subseteq Token
BY DEF Call

LEMMA TokenInitInv == TokenInit => CallInv
<1> SUFFICES ASSUME TokenInit PROVE CallInv
    OBVIOUS
<1>a. AuditTypeOK
    BY DEF TokenInit, AuditInit, AuditTypeOK
<1>b. call \in [Worker -> Call]
    BY IdleCallType DEF TokenInit
<1>c. redeemed \in [Token -> 0 .. 2]
    BY DEF TokenInit
<1>d. held \subseteq Token \X Key /\ spent \subseteq Token
    BY DEF TokenInit
<1>1. TokenTypeOK
    BY <1>a, <1>b, <1>c, <1>d DEF TokenInit, TokenTypeOK
<1>2. \A w \in Worker : HasToken(call[w]) /\ HasKey(w)
    BY IdleCallType DEF TokenInit, HasKey
<1>3. QED
    BY <1>1, <1>2 DEF CallInv

(* A worker that moves to a well-formed call, and a cache and a key file that *)
(* do not get lost, keep CallInv.                                             *)
LEMMA CallStep ==
    ASSUME CallInv, NEW w \in Worker, NEW c \in Call,
           Become(w, c), HasToken(c),
           c.pc \in {"return", "openKey", "flushKey"} => cached' \in Key,
           c.pc = "load" => keyFile' # None,
           c.pc = "flushKey" => c.export \in Key,
           cached' \in Key \union {None}, cached # None => cached' # None,
           keyFile' \in Key \union {None, Torn}, keyFile # None => keyFile' # None,
           generated' \subseteq Key, known' \subseteq Key, held' \subseteq Token \X Key,
           spent' \subseteq Token, redeemed' \in [Token -> 0 .. 2],
           overlapped' \in BOOLEAN, emptied' \in BOOLEAN, AuditTypeOK'
    PROVE  CallInv'
<1>1. call' \in [Worker -> Call] /\ call'[w] = c
    BY DEF CallInv, TokenTypeOK, Become
<1>2. \A v \in Worker : v # w => call'[v] = call[v]
    BY DEF CallInv, TokenTypeOK, Become
<1>3. TokenTypeOK'
    BY <1>1 DEF TokenTypeOK
<1>4. \A v \in Worker : HasToken(call'[v])
    BY <1>1, <1>2 DEF CallInv
<1>5. HasKey(w)'
    BY <1>1 DEF HasKey
<1>6. \A v \in Worker : v # w => HasKey(v)'
    BY <1>2, TokenAssumption DEF HasKey, CallInv, TokenTypeOK
<1>7. QED
    BY <1>3, <1>4, <1>5, <1>6 DEF CallInv

LEMMA RequestKeepsCalls ==
    ASSUME CallInv, NEW w \in Worker, Request(w)
    PROVE  CallInv'
<1>1. ASSUME NEW c \in Call, c.op # "info" => c.token \in Token, Begin(w, c)
      PROVE  CallInv'
    <2> DEFINE d == [c EXCEPT !.pc = "cache"]
    <2>1. d \in Call /\ HasToken(d) /\ d.pc = "cache"
        BY <1>1 DEF Call, Labels, HasToken, AtToken
    <2>2. AuditTypeOK' /\ overlapped' \in BOOLEAN
        BY <1>1 DEF Begin, auditVars, AuditTypeOK, CallInv, TokenTypeOK
    <2> HIDE DEF d
    <2>3. Become(w, d)
        BY <1>1 DEF Begin, d
    <2>4. QED
        BY <1>1, <2>1, <2>2, <2>3, CallStep DEF Begin, CallInv, TokenTypeOK
<1>2. CASE StartInfo(w)
    BY <1>1, <1>2, IdleCallType DEF StartInfo, IdleCall
<1>3. CASE StartSign(w)
    <2>1. PICK t \in Token, k \in known :
            Begin(w, [IdleCall EXCEPT !.op = "sign", !.token = t, !.key = k, !.left = 1])
        BY <1>3 DEF StartSign
    <2>0. k \in Key /\ 1 \in 0 .. 3
        BY <2>1 DEF CallInv, TokenTypeOK
    <2>2. [IdleCall EXCEPT !.op = "sign", !.token = t, !.key = k, !.left = 1] \in Call
        BY <2>0, IdleCallType DEF Call
    <2>3. QED
        BY <1>1, <2>1, <2>2 DEF IdleCall
<1>4. CASE StartRedeem(w)
    <2>1. PICK t \in Token, k \in Key \union {None} :
            Begin(w, [IdleCall EXCEPT !.op = "redeem", !.token = t, !.key = k])
        BY <1>4 DEF StartRedeem
    <2>2. [IdleCall EXCEPT !.op = "redeem", !.token = t, !.key = k] \in Call
        BY IdleCallType DEF Call
    <2>3. QED
        BY <1>1, <2>1, <2>2 DEF IdleCall
<1>5. CASE StartRun(w)
    <2>1. PICK t \in Token : Begin(w, [IdleCall EXCEPT !.op = "run", !.token = t, !.left = 3])
        BY <1>5 DEF StartRun
    <2>0. 3 \in 0 .. 3
        OBVIOUS
    <2>2. [IdleCall EXCEPT !.op = "run", !.token = t, !.left = 3] \in Call
        BY <2>0, IdleCallType DEF Call
    <2>3. QED
        BY <1>1, <2>1, <2>2 DEF IdleCall
<1>6. QED
    BY <1>2, <1>3, <1>4, <1>5 DEF Request

(* A step that only moves a worker inside its handler.                        *)
LEMMA MovedCall ==
    ASSUME CallInv, NEW w \in Worker, NEW l \in Labels, call[w].pc # "idle",
           l \in AtToken => call[w].pc \in AtToken \/ call[w].op # "info"
    PROVE  /\ [call[w] EXCEPT !.pc = l] \in Call
           /\ HasToken([call[w] EXCEPT !.pc = l])
           /\ [call[w] EXCEPT !.pc = l].pc = l
           /\ [call[w] EXCEPT !.pc = l].export = call[w].export
BY DEF CallInv, TokenTypeOK, HasToken, AtToken, Call

LEMMA LookUpKeepsCalls ==
    ASSUME CallInv, NEW w \in Worker, LookUpKey(w)
    PROVE  CallInv'
<1> USE DEF At
<1>t. call[w] \in Call /\ HasToken(call[w]) /\ HasKey(w)
    BY DEF CallInv, TokenTypeOK
<1>k. UNCHANGED keep => /\ AuditTypeOK' /\ known' \subseteq Key /\ held' \subseteq Token \X Key
                        /\ spent' \subseteq Token /\ redeemed' \in [Token -> 0 .. 2]
                        /\ overlapped' \in BOOLEAN /\ emptied' \in BOOLEAN
    BY DEF keep, auditVars, AuditTypeOK, CallInv, TokenTypeOK
<1>1. ASSUME NEW l \in {"return", "file", "generate", "load"}, Goto(w, l), call[w].pc # "idle",
             UNCHANGED <<keep, keyFile, generated>>, cached' \in Key \union {None},
             cached # None => cached' # None,
             l = "return" => cached' \in Key, l = "load" => keyFile # None
      PROVE  CallInv'
    <2> DEFINE d == [call[w] EXCEPT !.pc = l]
    <2>0. l \in Labels /\ l \notin AtToken
        BY DEF Labels, AtToken
    <2>1. d \in Call /\ HasToken(d) /\ d.pc = l
        BY <1>1, <2>0, MovedCall
    <2>2. Become(w, d)
        BY <1>1 DEF Goto
    <2> HIDE DEF d
    <2>3. QED
        BY <1>1, <1>k, <2>1, <2>2, CallStep DEF CallInv, TokenTypeOK
<1>2. CASE CheckCache(w)
    BY <1>1, <1>2 DEF CheckCache, CallInv, TokenTypeOK
<1>3. CASE CheckFile(w)
    BY <1>1, <1>3 DEF CheckFile, AfterFile, CallInv, TokenTypeOK
<1>4. CASE LoadKey(w)
    <2>1. CASE keyFile = Torn
        BY <1>4, <1>k, <2>1, IdleCallType, CallStep DEF LoadKey, Return, CallInv, TokenTypeOK
    <2>2. CASE keyFile # Torn
        <3>1. keyFile \in Key
            BY <1>4, <1>t, <2>2 DEF LoadKey, HasKey, CallInv, TokenTypeOK
        <3>2. QED
            BY <1>1, <1>4, <2>2, <3>1, TokenAssumption DEF LoadKey
    <2>3. QED
        BY <2>1, <2>2
<1>5. CASE Generate(w)
    <2> DEFINE d == [call[w] EXCEPT !.pc = "openKey"]
    <2>1. PICK k \in Key \ generated : generated' = generated \union {k} /\ cached' = k
        BY <1>5 DEF Generate
    <2>2. d \in Call /\ HasToken(d) /\ d.pc = "openKey"
        BY <1>5, MovedCall DEF Generate, Labels, AtToken
    <2>3. Become(w, d)
        BY <1>5 DEF Generate, Goto
    <2> HIDE DEF d
    <2>4. QED
        BY <1>5, <1>k, <2>1, <2>2, <2>3, CallStep, TokenAssumption
           DEF Generate, CallInv, TokenTypeOK
<1>6. CASE OpenKeyFile(w)
    <2> DEFINE d == [call[w] EXCEPT !.pc = "flushKey", !.export = cached]
    <2>1. cached \in Key
        BY <1>6, <1>t DEF OpenKeyFile, HasKey
    <2>2. d \in Call /\ HasToken(d) /\ d.pc = "flushKey" /\ d.export = cached
        BY <1>6, <1>t, <2>1 DEF OpenKeyFile, Call, Labels, HasToken, AtToken
    <2>3. Become(w, d)
        BY <1>6 DEF OpenKeyFile
    <2> HIDE DEF d
    <2>4. QED
        BY <1>6, <1>k, <2>1, <2>2, <2>3, CallStep, TokenAssumption
           DEF OpenKeyFile, CallInv, TokenTypeOK
<1>7. CASE FlushKeyFile(w)
    <2> DEFINE d == [call[w] EXCEPT !.pc = "return", !.export = None]
    <2>1. cached \in Key /\ call[w].export \in Key
        BY <1>7, <1>t DEF FlushKeyFile, HasKey
    <2>2. d \in Call /\ HasToken(d) /\ d.pc = "return"
        BY <1>7, <1>t DEF FlushKeyFile, Call, Labels, HasToken, AtToken
    <2>3. Become(w, d)
        BY <1>7 DEF FlushKeyFile
    <2>4. keyFile' \in Key \union {Torn}
        BY <1>7, <2>1 DEF FlushKeyFile, Written
    <2> HIDE DEF d
    <2>5. QED
        BY <1>7, <1>k, <2>1, <2>2, <2>3, <2>4, CallStep, TokenAssumption
           DEF FlushKeyFile, CallInv, TokenTypeOK
<1>8. QED
    BY <1>2, <1>3, <1>4, <1>5, <1>6, <1>7 DEF LookUpKey

LEMMA UseKeepsCalls ==
    ASSUME CallInv, NEW w \in Worker, UseKey(w)
    PROVE  CallInv'
<1> USE DEF At
<1>t. call[w] \in Call /\ HasToken(call[w]) /\ HasKey(w)
    BY DEF CallInv, TokenTypeOK
<1>k. UNCHANGED auditVars => AuditTypeOK'
    BY DEF auditVars, AuditTypeOK, CallInv, TokenTypeOK
(* Whatever changes in the files, the worker goes on to a label that needs no key. *)
<1>1. ASSUME NEW c \in Call, Become(w, c), HasToken(c),
             c.pc \notin {"return", "openKey", "flushKey", "load"},
             UNCHANGED <<cached, keyFile, generated, overlapped, emptied>>, AuditTypeOK',
             known' \subseteq Key, held' \subseteq Token \X Key,
             spent' \subseteq Token, redeemed' \in [Token -> 0 .. 2]
      PROVE  CallInv'
    BY <1>1, CallStep DEF CallInv, TokenTypeOK
(* It only moves on in its handler. *)
<1>2. ASSUME NEW l \in Labels, Become(w, [call[w] EXCEPT !.pc = l]), call[w].pc # "idle",
             l \in AtToken => call[w].pc \in AtToken \/ call[w].op # "info",
             l \notin {"return", "openKey", "flushKey", "load"},
             UNCHANGED <<cached, keyFile, generated, overlapped, emptied>>, AuditTypeOK',
             known' \subseteq Key, held' \subseteq Token \X Key,
             spent' \subseteq Token, redeemed' \in [Token -> 0 .. 2]
      PROVE  CallInv'
    <2> DEFINE d == [call[w] EXCEPT !.pc = l]
    <2>1. d \in Call /\ HasToken(d) /\ d.pc = l
        BY <1>2, MovedCall
    <2>2. Become(w, d)
        BY <1>2
    <2> HIDE DEF d
    <2>3. QED
        BY <1>1, <1>2, <2>1, <2>2
<1>3. CASE TellKey(w)
    <2>1. cached \in Key
        BY <1>3, <1>t DEF TellKey, HasKey
    <2>2. QED
        BY <1>1, <1>3, <1>k, <2>1, IdleCallType DEF TellKey, Return, CallInv, TokenTypeOK
<1>4. CASE LookUpAgain(w)
    <2>1. cached \in Key
        BY <1>4, <1>t DEF LookUpAgain, HasKey
    <2>2. CASE call[w].key \in {None, cached}
        <3> DEFINE d == [call[w] EXCEPT !.pc = "cache", !.key = cached, !.left = @ - 1]
        <3>1. call[w].left - 1 \in 0 .. 3
            BY <1>4, <1>t, CallFields DEF LookUpAgain
        <3>2. d \in Call /\ HasToken(d) /\ d.pc = "cache"
            BY <1>4, <1>t, <2>1, <3>1 DEF LookUpAgain, Call, Labels, HasToken, AtToken
        <3>3. Become(w, d)
            BY <1>4, <2>2 DEF LookUpAgain
        <3> HIDE DEF d
        <3>4. QED
            BY <1>1, <1>4, <1>k, <3>2, <3>3 DEF LookUpAgain, keep, CallInv, TokenTypeOK
    <2>3. CASE call[w].key \notin {None, cached}
        BY <1>1, <1>4, <1>k, <2>3, IdleCallType DEF LookUpAgain, Return, keep, CallInv, TokenTypeOK
    <2>4. QED
        BY <2>2, <2>3
<1>5. CASE BlindSign(w)
    <2>1. cached \in Key /\ call[w].token \in Token
        BY <1>5, <1>t DEF BlindSign, HasKey, HasToken
    <2>2. held' \subseteq Token \X Key
        BY <1>5, <2>1 DEF BlindSign, CallInv, TokenTypeOK
    <2>3. "audit" \in Labels /\ "audit" \notin AtToken
        BY DEF Labels, AtToken
    <2>4. QED
        BY <1>2, <1>5, <1>k, <2>2, <2>3 DEF BlindSign, Goto, CallInv, TokenTypeOK
<1>6. CASE Verify(w)
    <2>1. "isSpent" \in Labels /\ "audit" \in Labels /\ "audit" \notin AtToken
        BY DEF Labels, AtToken
    <2>2. QED
        BY <1>2, <1>6, <1>k, <2>1 DEF Verify, Goto, keep, CallInv, TokenTypeOK
<1>7. CASE IsSpent(w)
    <2>1. "read" \in Labels /\ "audit" \in Labels /\ "audit" \notin AtToken /\ "isSpent" \in AtToken
        BY DEF Labels, AtToken
    <2>2. QED
        BY <1>2, <1>7, <1>k, <2>1 DEF IsSpent, AfterLookup, Goto, keep, CallInv, TokenTypeOK
<1>8. CASE ReadSpent(w)
    <2> DEFINE d == [call[w] EXCEPT !.pc = "openSpent", !.snap = spent \union {call[w].token}]
    <2>1. call[w].token \in Token /\ call[w].op # "info"
        BY <1>8, <1>t DEF ReadSpent, HasToken, AtToken
    <2>2. d \in Call /\ HasToken(d) /\ d.pc = "openSpent"
        BY <1>t, <2>1 DEF Call, Labels, HasToken, AtToken, CallInv, TokenTypeOK
    <2>3. Become(w, d)
        BY <1>8 DEF ReadSpent
    <2> HIDE DEF d
    <2>4. QED
        BY <1>1, <1>8, <1>k, <2>2, <2>3 DEF ReadSpent, keep, CallInv, TokenTypeOK
<1>9. CASE OpenSpent(w)
    <2>1. "flushSpent" \in Labels /\ "openSpent" \in AtToken
        BY DEF Labels, AtToken
    <2>2. QED
        BY <1>2, <1>9, <1>k, <2>1 DEF OpenSpent, Goto, CallInv, TokenTypeOK
<1>10. CASE FlushSpent(w)
    <2> DEFINE d == [call[w] EXCEPT !.pc = "audit", !.snap = {}]
    <2>1. call[w].token \in Token /\ call[w].op # "info" /\ call[w].snap \subseteq Token
        BY <1>10, <1>t, CallFields DEF FlushSpent, HasToken, AtToken
    <2>2. d \in Call /\ HasToken(d) /\ d.pc = "audit"
        BY <1>t, <2>1 DEF Call, Labels, HasToken, AtToken
    <2>3. Become(w, d)
        BY <1>10 DEF FlushSpent
    <2>4. redeemed' \in [Token -> 0 .. 2]
        <3>1. \A n \in 0 .. 2 : (IF n = 2 THEN 2 ELSE n + 1) \in 0 .. 2
            OBVIOUS
        <3>2. QED
            BY <1>10, <2>1, <3>1 DEF FlushSpent, CallInv, TokenTypeOK
    <2>5. spent' \subseteq Token
        BY <1>10, <2>1 DEF FlushSpent, Written
    <2> HIDE DEF d
    <2>6. QED
        BY <1>1, <1>10, <1>k, <2>2, <2>3, <2>4, <2>5 DEF FlushSpent, CallInv, TokenTypeOK
<1>11. CASE AuditRead(w)
    <2>1. Len(log) \in Nat
        BY DEF CallInv, TokenTypeOK, AuditTypeOK
    <2>2. AuditTypeOK'
        BY <1>11, <2>1 DEF AuditRead, ReadLast, LastEvent, CallInv, TokenTypeOK, AuditTypeOK
    <2>3. QED
        BY <1>11, <2>2 DEF AuditRead, tokenVars, CallInv, TokenTypeOK, HasKey
<1>12. CASE AuditAppend(w)
    <2>1. note[w] \in Nat
        BY <1>12 DEF AuditAppend, AppendEvent, CallInv, TokenTypeOK, AuditTypeOK
    <2>2. AuditTypeOK'
        BY <1>12, <2>1 DEF AuditAppend, AppendEvent, CallInv, TokenTypeOK, AuditTypeOK
    <2>3. QED
        BY <1>1, <1>12, <2>2, IdleCallType DEF AuditAppend, Return, CallInv, TokenTypeOK
<1>13. QED
    BY <1>3, <1>4, <1>5, <1>6, <1>7, <1>8, <1>9, <1>10, <1>11, <1>12 DEF UseKey

LEMMA CrashKeepsCalls == CallInv /\ Crash => CallInv'
<1> SUFFICES ASSUME CallInv, Crash PROVE CallInv'
    OBVIOUS
<1>1. call' \in [Worker -> Call] /\ \A w \in Worker : call'[w] = IdleCall
    BY IdleCallType DEF Crash
<1>2. AuditTypeOK'
    BY DEF Crash, CallInv, TokenTypeOK, AuditTypeOK
<1>3. TokenTypeOK'
    BY <1>1, <1>2 DEF Crash, CallInv, TokenTypeOK
<1>4. QED
    BY <1>1, <1>3, IdleCallType DEF CallInv, HasKey

LEMMA StepKeepsCalls == CallInv /\ [TokenNext]_blindVars => CallInv'
<1>1. CallInv /\ UNCHANGED blindVars => CallInv'
    BY DEF blindVars, tokenVars, auditVars, CallInv, TokenTypeOK, AuditTypeOK, HasKey
<1>2. QED
    BY <1>1, RequestKeepsCalls, LookUpKeepsCalls, UseKeepsCalls, CrashKeepsCalls DEF TokenNext

(* Type correctness of the blind signature service and the audit log, with    *)
(* overlapping handlers and a process that may die.                           *)
THEOREM TokenTypeCorrect == TokenSpec => []TokenTypeOK
<1>1. CallInv => TokenTypeOK
    BY DEF CallInv
<1>2. QED
    BY <1>1, TokenInitInv, StepKeepsCalls, PTL DEF TokenSpec
-----------------------------------------------------------------------------
(* As long as handlers have not overlapped, one worker at most is busy, the   *)
(* position it noted is that of the last event, and the key file and the      *)
(* registry follow the handler step by step.                                  *)
Alone == \A v, w \in Busy : v = w

ChainInv ==
    /\ Linked(log)
    /\ \A w \in Worker : note[w] # None => At(w, "audit") /\ note[w] = Len(log)

KeyFileInv ==
    /\ \A p \in held : keyFile = p[2]
    /\ \A w \in Worker : call[w].pc \in {"generate", "openKey"} => keyFile = None
    /\ \A w \in Worker : call[w].pc = "flushKey" => keyFile = Torn /\ call[w].export = cached
    /\ \/ cached = None \/ keyFile = cached
       \/ \E w \in Worker : call[w].pc \in {"openKey", "flushKey"}

SpentInv ==
    /\ \A t \in Token : redeemed[t] <= 1
    /\ \/ \E w \in Worker : call[w].pc = "flushSpent"
       \/ \A t \in Token : redeemed[t] > 0 => t \in spent
    /\ \A w \in Worker :
        /\ call[w].pc \in {"read", "openSpent", "flushSpent"} => redeemed[call[w].token] = 0
        /\ call[w].pc = "openSpent" => call[w].snap = spent \union {call[w].token}
        /\ call[w].pc = "flushSpent" =>
            /\ spent = {} /\ call[w].token \in call[w].snap
            /\ \A t \in Token : redeemed[t] > 0 => t \in call[w].snap

OrderInv ==
    /\ CallInv
    /\ ~overlapped => Alone /\ ChainInv /\ KeyFileInv /\ (~emptied => SpentInv)

LEMMA OrderInit == TokenInit => OrderInv
<1> SUFFICES ASSUME TokenInit PROVE OrderInv
    OBVIOUS
<1>1. \A w \in Worker : call[w].pc = "idle"
    BY IdleCallType DEF TokenInit
<1>2. Alone
    BY <1>1 DEF Alone, Busy, At
<1>3. ChainInv
    BY DEF TokenInit, AuditInit, ChainInv, Linked
<1>4. KeyFileInv
    BY <1>1 DEF TokenInit, KeyFileInv
<1>5. SpentInv
    BY <1>1 DEF TokenInit, SpentInv
<1>6. QED
    BY <1>2, <1>3, <1>4, <1>5, TokenInitInv DEF OrderInv

(* The only busy worker stays the only one.                                   *)
LEMMA AloneStep ==
    ASSUME CallInv, Alone, NEW w \in Worker, NEW c, Become(w, c),
           call[w].pc # "idle" \/ Busy = {}
    PROVE  /\ call'[w] = c
           /\ \A v \in Worker : v # w => call'[v] = call[v] /\ call[v].pc = "idle"
           /\ Alone'
<1>1. call'[w] = c /\ \A v \in Worker : v # w => call'[v] = call[v]
    BY DEF CallInv, TokenTypeOK, Become
<1>2. \A v \in Worker : v # w => call[v].pc = "idle"
    BY DEF Alone, Busy, At
<1>3. QED
    BY <1>1, <1>2 DEF Alone, Busy, At

LEMMA RequestInOrder ==
    ASSUME OrderInv, NEW w \in Worker, Request(w)
    PROVE  OrderInv'
<1> USE DEF At
<1>0. CallInv'
    BY RequestKeepsCalls DEF OrderInv
<1>1. PICK c : Begin(w, c)
    BY DEF Request, StartInfo, StartSign, StartRedeem, StartRun
<1> DEFINE d == [c EXCEPT !.pc = "cache"]
<1>2. SUFFICES ASSUME ~overlapped'
               PROVE  Alone' /\ ChainInv' /\ KeyFileInv' /\ (~emptied' => SpentInv')
    BY <1>0 DEF OrderInv
<1>3. ~overlapped /\ Busy = {} /\ Become(w, d) /\ call[w].pc = "idle"
    BY <1>1, <1>2 DEF Begin
<1>4. Alone /\ ChainInv /\ KeyFileInv /\ (~emptied => SpentInv) /\ CallInv
    BY <1>3 DEF OrderInv
<1>5. /\ call'[w] = d /\ Alone'
      /\ \A v \in Worker : v # w => call'[v] = call[v] /\ call[v].pc = "idle"
    BY <1>3, <1>4, AloneStep
<1>6. call'[w].pc = "cache"
    <2>1. call'[w] \in Call
        BY <1>0 DEF CallInv, TokenTypeOK
    <2>2. QED
        BY <1>5, <2>1 DEF Call
<1> HIDE DEF d
<1>7. ChainInv'
    BY <1>1, <1>3, <1>4, <1>5 DEF Begin, ChainInv, auditVars, Linked
<1>8. KeyFileInv'
    BY <1>1, <1>3, <1>4, <1>5, <1>6 DEF Begin, KeyFileInv
<1>9. ~emptied' => SpentInv'
    BY <1>1, <1>3, <1>4, <1>5, <1>6 DEF Begin, SpentInv
<1>10. QED
    BY <1>5, <1>7, <1>8, <1>9

(* What a step of a busy worker leaves to show: the others are idle and stay so. *)
LEMMA BusyStep ==
    ASSUME OrderInv, NEW w \in Worker, NEW c, Become(w, c), call[w].pc # "idle", CallInv',
           UNCHANGED overlapped, ~overlapped
    PROVE  /\ CallInv /\ ChainInv /\ KeyFileInv /\ (~emptied => SpentInv)
           /\ call[w] \in Call /\ HasToken(call[w]) /\ HasKey(w) /\ call'[w] \in Call
           /\ call'[w] = c
           /\ \A v \in Worker : v # w => call'[v] = call[v] /\ call[v].pc = "idle"
           /\ Alone'
BY AloneStep DEF OrderInv, CallInv, TokenTypeOK

LEMMA LookUpInOrder ==
    ASSUME OrderInv, NEW w \in Worker, LookUpKey(w)
    PROVE  OrderInv'
<1> USE DEF At
<1>0. CallInv'
    BY LookUpKeepsCalls DEF OrderInv
<1>1. PICK c : Become(w, c)
    BY DEF LookUpKey, CheckCache, CheckFile, LoadKey, Generate, OpenKeyFile, FlushKeyFile,
           Goto, Return
<1>2. call[w].pc \in {"cache", "file", "load", "generate", "openKey", "flushKey"} /\ UNCHANGED keep
    BY DEF LookUpKey, CheckCache, CheckFile, LoadKey, Generate, OpenKeyFile, FlushKeyFile
<1>3. SUFFICES ASSUME ~overlapped
               PROVE  Alone' /\ ChainInv' /\ KeyFileInv' /\ (~emptied => SpentInv')
    BY <1>0, <1>2 DEF OrderInv, keep
<1>4. /\ CallInv /\ ChainInv /\ KeyFileInv /\ (~emptied => SpentInv)
      /\ call[w] \in Call /\ HasToken(call[w]) /\ HasKey(w) /\ call'[w] \in Call
      /\ \A v \in Worker : v # w => call'[v] = call[v] /\ call[v].pc = "idle"
      /\ Alone'
    BY <1>0, <1>1, <1>2, <1>3, BusyStep DEF keep
<1>5. call' \in [Worker -> Call] /\ call \in [Worker -> Call]
    BY <1>0, <1>4 DEF CallInv, TokenTypeOK
<1>6. call'[w].pc \in {"idle", "return", "file", "load", "generate", "openKey", "flushKey"}
    <2>1. ASSUME NEW l, Goto(w, l)
          PROVE  call'[w].pc = l
        BY <1>4, <1>5, <2>1 DEF Goto, Become, Call
    <2>2. Return(w) => call'[w].pc = "idle"
        BY <1>4, <1>5, IdleCallType DEF Return, Become
    <2>3. OpenKeyFile(w) => call'[w].pc = "flushKey"
        BY <1>4, <1>5 DEF OpenKeyFile, Become, Call
    <2>4. FlushKeyFile(w) => call'[w].pc = "return"
        BY <1>4, <1>5 DEF FlushKeyFile, Become, Call
    <2>5. QED
        BY <2>1, <2>2, <2>3, <2>4
           DEF LookUpKey, CheckCache, CheckFile, LoadKey, Generate, AfterFile
<1>7. ChainInv'
    BY <1>2, <1>4 DEF ChainInv, keep, auditVars, Linked
<1>8. ~emptied => SpentInv'
    BY <1>2, <1>4, <1>6 DEF SpentInv, keep
<1>9. KeyFileInv'
    <2>1. CASE CheckCache(w)
        <3>1. call'[w].pc \in {"return", "file"}
            BY <1>4, <1>5, <2>1 DEF CheckCache, Goto, Become, Call
        <3>2. QED
            BY <1>2, <1>4, <2>1, <3>1 DEF KeyFileInv, keep, CheckCache
    <2>2. CASE CheckFile(w)
        <3>1. call'[w].pc = IF keyFile = None THEN "generate" ELSE "load"
            BY <1>4, <1>5, <2>2 DEF CheckFile, AfterFile, Goto, Become, Call
        <3>2. QED
            BY <1>2, <1>4, <2>2, <3>1 DEF KeyFileInv, keep, CheckFile
    <2>3. CASE LoadKey(w)
        <3>1. call'[w].pc \in {"idle", "return"}
            BY <1>4, <1>5, <2>3, IdleCallType DEF LoadKey, Goto, Return, Become, Call
        <3>2. cached' \in {cached, keyFile}
            BY <2>3 DEF LoadKey
        <3>3. QED
            BY <1>2, <1>4, <2>3, <3>1, <3>2 DEF KeyFileInv, keep, LoadKey
    <2>4. CASE Generate(w)
        <3>1. call'[w].pc = "openKey"
            BY <1>4, <1>5, <2>4 DEF Generate, Goto, Become, Call
        <3>2. QED
            BY <1>2, <1>4, <2>4, <3>1 DEF KeyFileInv, keep, Generate
    <2>5. CASE OpenKeyFile(w)
        <3>1. call'[w].pc = "flushKey" /\ call'[w].export = cached
            BY <1>4, <1>5, <2>5 DEF OpenKeyFile, Become, Call
        <3>2. held = {}
            BY <1>4, <2>5, TokenAssumption
               DEF KeyFileInv, OpenKeyFile, CallInv, TokenTypeOK
        <3>3. QED
            BY <1>2, <1>4, <2>5, <3>1, <3>2 DEF KeyFileInv, keep, OpenKeyFile
    <2>6. CASE FlushKeyFile(w)
        <3>1. call'[w].pc = "return"
            BY <1>4, <1>5, <2>6 DEF FlushKeyFile, Become, Call
        <3>2. keyFile' = cached
            BY <1>4, <2>6 DEF KeyFileInv, FlushKeyFile, Written
        <3>3. held = {}
            BY <1>4, <2>6, TokenAssumption
               DEF KeyFileInv, FlushKeyFile, CallInv, TokenTypeOK
        <3>4. QED
            BY <1>2, <1>4, <2>6, <3>1, <3>2, <3>3 DEF KeyFileInv, keep, FlushKeyFile
    <2>7. QED
        BY <2>1, <2>2, <2>3, <2>4, <2>5, <2>6 DEF LookUpKey
<1>10. QED
    BY <1>4, <1>7, <1>8, <1>9

LEMMA UseInOrder ==
    ASSUME OrderInv, NEW w \in Worker, UseKey(w)
    PROVE  OrderInv'
<1> USE DEF At
<1>0. CallInv'
    BY UseKeepsCalls DEF OrderInv
<1>1. SUFFICES ASSUME ~overlapped
               PROVE  Alone' /\ ChainInv' /\ KeyFileInv' /\ (~emptied => SpentInv')
    BY <1>0 DEF OrderInv, UseKey, TellKey, LookUpAgain, BlindSign, Verify, IsSpent,
            ReadSpent, OpenSpent, FlushSpent, AuditRead, AuditAppend, keep, tokenVars
<1>2. UNCHANGED <<cached, keyFile, overlapped, emptied>>
    BY DEF UseKey, TellKey, LookUpAgain, BlindSign, Verify, IsSpent,
            ReadSpent, OpenSpent, FlushSpent, AuditRead, AuditAppend, keep, tokenVars
<1>3. call[w].pc \in {"return", "isSpent", "read", "openSpent", "flushSpent", "audit"}
    BY DEF UseKey, TellKey, LookUpAgain, BlindSign, Verify, IsSpent,
            ReadSpent, OpenSpent, FlushSpent, AuditRead, AuditAppend
<1>4. CallInv /\ Alone /\ ChainInv /\ KeyFileInv /\ (~emptied => SpentInv)
    BY <1>1 DEF OrderInv
<1>5. call[w] \in Call /\ HasToken(call[w]) /\ HasKey(w) /\ call'[w] \in Call
    BY <1>0, <1>4 DEF CallInv, TokenTypeOK
<1>6. call \in [Worker -> Call] /\ call' \in [Worker -> Call]
    BY <1>0, <1>4 DEF CallInv, TokenTypeOK
<1>7. ASSUME NEW l, Goto(w, l)
      PROVE  call'[w].pc = l /\ call'[w].token = call[w].token /\ call'[w].snap = call[w].snap
    BY <1>5, <1>6, <1>7 DEF Goto, Become, Call
<1>8. Return(w) => call'[w].pc = "idle"
    BY <1>6, IdleCallType DEF Return, Become
(* The steps that change the call of the worker. *)
<1>9. ASSUME NEW c, Become(w, c)
      PROVE  /\ \A v \in Worker : v # w => call'[v] = call[v] /\ call[v].pc = "idle"
             /\ Alone'
    BY <1>3, <1>4, <1>9, AloneStep
<1>10. ASSUME NEW c, Become(w, c), UNCHANGED held,
              call'[w].pc \notin {"generate", "openKey", "flushKey"}
       PROVE  KeyFileInv'
    BY <1>2, <1>3, <1>4, <1>9, <1>10 DEF KeyFileInv
<1>11. ASSUME NEW c, Become(w, c), UNCHANGED auditVars, call[w].pc # "audit"
       PROVE  ChainInv'
    BY <1>4, <1>9, <1>11 DEF ChainInv, auditVars, Linked
<1>12. ASSUME NEW c, Become(w, c), UNCHANGED <<spent, redeemed>>, ~emptied,
              call[w].pc # "flushSpent",
              call'[w].pc \notin {"read", "openSpent", "flushSpent"}
       PROVE  SpentInv'
    BY <1>3, <1>4, <1>9, <1>12 DEF SpentInv
<1>13. CASE TellKey(w)
    BY <1>8, <1>9, <1>10, <1>11, <1>12, <1>13 DEF TellKey, Return
<1>14. CASE LookUpAgain(w)
    <2>1. PICK c : Become(w, c)
        BY <1>14 DEF LookUpAgain, Return
    <2>2. call'[w].pc \in {"cache", "idle"}
        <3>1. Become(w, [call[w] EXCEPT !.pc = "cache", !.key = cached, !.left = @ - 1])
                => call'[w].pc = "cache"
            BY <1>5, <1>6 DEF Become, Call
        <3>2. QED
            BY <1>8, <1>14, <3>1 DEF LookUpAgain
    <2>3. QED
        BY <1>9, <1>10, <1>11, <1>12, <1>14, <2>1, <2>2 DEF LookUpAgain, keep
<1>15. CASE BlindSign(w)
    <2>1. call'[w].pc = "audit"
        BY <1>7, <1>15 DEF BlindSign
    <2>2. cached \in Key /\ keyFile = cached
        BY <1>4, <1>5, <1>9, <1>15, TokenAssumption DEF BlindSign, Goto, KeyFileInv, HasKey
    <2>3. KeyFileInv'
        BY <1>2, <1>4, <1>9, <1>15, <2>1, <2>2 DEF BlindSign, Goto, KeyFileInv
    <2>4. QED
        BY <1>9, <1>11, <1>12, <1>15, <2>1, <2>3 DEF BlindSign, Goto
<1>16. CASE Verify(w)
    <2>1. call'[w].pc \in {"isSpent", "audit"}
        BY <1>7, <1>16 DEF Verify
    <2>2. QED
        BY <1>9, <1>10, <1>11, <1>12, <1>16, <2>1 DEF Verify, Goto, keep
<1>17. CASE IsSpent(w)
    <2>1. /\ call'[w].pc = IF call[w].token \in spent THEN "audit" ELSE "read"
          /\ call'[w].token = call[w].token
        BY <1>7, <1>17 DEF IsSpent, AfterLookup
    <2>2. call[w].token \in Token
        BY <1>5, <1>17 DEF IsSpent, HasToken, AtToken
    <2>3. ~emptied => SpentInv'
        <3>1. \A t \in Token : redeemed[t] \in 0 .. 2
            BY <1>4 DEF CallInv, TokenTypeOK
        <3>2. QED
            BY <1>4, <1>9, <1>17, <2>1, <2>2, <3>1 DEF IsSpent, Goto, keep, SpentInv
    <2>4. QED
        BY <1>9, <1>10, <1>11, <1>17, <2>1, <2>3 DEF IsSpent, Goto, keep
<1>18. CASE ReadSpent(w)
    <2>1. /\ call'[w].pc = "openSpent" /\ call'[w].token = call[w].token
          /\ call'[w].snap = spent \union {call[w].token}
        BY <1>5, <1>6, <1>18 DEF ReadSpent, Become, Call
    <2>2. ~emptied => SpentInv'
        BY <1>4, <1>9, <1>18, <2>1 DEF ReadSpent, keep, SpentInv
    <2>3. QED
        BY <1>9, <1>10, <1>11, <1>18, <2>1, <2>2 DEF ReadSpent, keep
<1>19. CASE OpenSpent(w)
    <2>1. /\ call'[w].pc = "flushSpent" /\ call'[w].token = call[w].token
          /\ call'[w].snap = call[w].snap
        BY <1>7, <1>19 DEF OpenSpent
    <2>2. ~emptied => SpentInv'
        BY <1>4, <1>9, <1>19, <2>1 DEF OpenSpent, Goto, SpentInv
    <2>3. QED
        BY <1>9, <1>10, <1>11, <1>19, <2>1, <2>2 DEF OpenSpent, Goto
<1>20. CASE FlushSpent(w)
    <2> DEFINE t0 == call[w].token
    <2>1. call'[w].pc = "audit"
        BY <1>5, <1>6, <1>20 DEF FlushSpent, Become, Call
    <2>2. t0 \in Token
        BY <1>5, <1>20 DEF FlushSpent, HasToken, AtToken
    <2>3. ~emptied => SpentInv'
        <3>1. SUFFICES ASSUME ~emptied PROVE SpentInv'
            OBVIOUS
        <3>2. redeemed[t0] = 0 /\ spent' = call[w].snap /\ t0 \in call[w].snap
            BY <1>4, <1>20, <3>1 DEF SpentInv, FlushSpent, Written
        <3>3. redeemed' = [redeemed EXCEPT ![t0] = 1]
            BY <1>20, <3>2 DEF FlushSpent, CallInv, TokenTypeOK
        <3>4. \A t \in Token : redeemed'[t] = IF t = t0 THEN 1 ELSE redeemed[t]
            BY <1>4, <2>2, <3>3 DEF CallInv, TokenTypeOK
        <3>5. \A t \in Token : redeemed'[t] <= 1 /\ (redeemed'[t] > 0 => t \in spent')
            BY <1>4, <1>20, <3>1, <3>2, <3>4 DEF SpentInv, FlushSpent
        <3>6. QED
            BY <1>9, <1>20, <2>1, <3>5 DEF FlushSpent, SpentInv
    <2>4. QED
        BY <1>9, <1>10, <1>11, <1>20, <2>1, <2>3 DEF FlushSpent
<1>21. CASE AuditRead(w)
    <2>1. ChainInv'
        BY <1>4, <1>21 DEF AuditRead, ReadLast, LastEvent, ChainInv, tokenVars, CallInv,
           TokenTypeOK, AuditTypeOK
    <2>2. Alone' /\ KeyFileInv' /\ (~emptied => SpentInv')
        BY <1>4, <1>21 DEF AuditRead, tokenVars, Alone, Busy, KeyFileInv, SpentInv
    <2>3. QED
        BY <2>1, <2>2
<1>22. CASE AuditAppend(w)
    <2>1. log' = Append(log, Len(log)) /\ call'[w].pc = "idle" /\ note'[w] = None
        BY <1>4, <1>8, <1>22 DEF AuditAppend, AppendEvent, ChainInv, CallInv, TokenTypeOK,
           AuditTypeOK
    <2>2. Linked(log')
        BY <1>4, <2>1 DEF Linked, ChainInv, CallInv, TokenTypeOK, AuditTypeOK
    <2>3. \A v \in Worker : note'[v] = None
        BY <1>4, <1>9, <1>22, <2>1
           DEF AuditAppend, AppendEvent, Return, ChainInv, CallInv, TokenTypeOK, AuditTypeOK
    <2>4. ChainInv'
        BY <2>2, <2>3 DEF ChainInv
    <2>5. QED
        BY <1>9, <1>10, <1>12, <1>22, <2>1, <2>4 DEF AuditAppend, Return
<1>23. QED
    BY <1>2, <1>13, <1>14, <1>15, <1>16, <1>17, <1>18, <1>19, <1>20, <1>21, <1>22 DEF UseKey

LEMMA CrashInOrder == OrderInv /\ Crash => OrderInv'
<1> SUFFICES ASSUME OrderInv, Crash PROVE OrderInv'
    OBVIOUS
<1>1. \A w \in Worker : call'[w].pc = "idle" /\ note'[w] = None
    BY IdleCallType DEF Crash
<1>2. Alone'
    BY <1>1 DEF Alone, Busy, At
<1>3. ~overlapped => ChainInv' /\ KeyFileInv'
    BY <1>1 DEF Crash, OrderInv, ChainInv, KeyFileInv, Linked
<1>4. ~overlapped /\ ~emptied' => SpentInv'
    BY <1>1 DEF Crash, OrderInv, SpentInv, At
<1>5. QED
    BY <1>2, <1>3, <1>4, CrashKeepsCalls DEF Crash, OrderInv

LEMMA StepInOrder == OrderInv /\ [TokenNext]_blindVars => OrderInv'
<1>1. OrderInv /\ UNCHANGED blindVars => OrderInv'
    <2> SUFFICES ASSUME OrderInv, UNCHANGED blindVars PROVE OrderInv'
        OBVIOUS
    <2>1. CallInv'
        BY StepKeepsCalls DEF OrderInv
    <2>2. QED
        BY <2>1 DEF blindVars, tokenVars, auditVars, OrderInv, Alone, Busy, At, ChainInv,
           Linked, KeyFileInv, SpentInv
<1>2. QED
    BY <1>1, RequestInOrder, LookUpInOrder, UseInOrder, CrashInOrder DEF TokenNext

(* No token is accepted twice while handlers do not overlap, whatever the     *)
(* requests in between and wherever the process dies, but between truncating  *)
(* and filling the registry: _is_spent and _mark_spent.                       *)
THEOREM TokensAreRedeemedOnce == TokenSpec => []RedeemedOnce
<1>1. OrderInv => RedeemedOnce
    BY DEF OrderInv, SpentInv, RedeemedOnce
<1>2. QED
    BY <1>1, OrderInit, StepInOrder, PTL DEF TokenSpec

(* While handlers do not overlap, the key of every signature a wallet holds   *)
(* is the one on file, also when the process dies between any two steps of    *)
(* _blind_signer_key.                                                         *)
THEOREM SignaturesKeepVerifying == TokenSpec => []HeldVerifies
<1>1. OrderInv => HeldVerifies
    BY DEF OrderInv, KeyFileInv, HeldVerifies
<1>2. QED
    BY <1>1, OrderInit, StepInOrder, PTL DEF TokenSpec

(* While handlers do not overlap, every audit event names the one before it,  *)
(* also when the process dies inside append_event.                            *)
THEOREM ChainIsUnbroken == TokenSpec => []ChainUnbroken
<1>1. OrderInv => ChainUnbroken
    BY DEF OrderInv, ChainInv, ChainUnbroken
<1>2. QED
    BY <1>1, OrderInit, StepInOrder, PTL DEF TokenSpec
=============================================================================
