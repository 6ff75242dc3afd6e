------------------------ MODULE SigningVerdictProofs ------------------------
(* Proofs about SigningVerdict, for every set of workers, certificates and    *)
(* keys and every bound: types, the timestamp tokens, and the verdicts.       *)
EXTENDS SigningVerdict, TLAPS

(* What a handler has loaded at each of its points.                           *)
Holding(c) ==
    /\ c.at \in {"check", "load", "verify", "read", "stamp", "rewrite"} => c.serial \in Serial
    /\ c.at \in {"read", "stamp"} => ~c.open
    /\ c.at \in {"stamp", "rewrite"} => c.read \in Registry /\ c.read # Torn
    /\ c.at \in {"init", "write", "time", "finger", "token"} => c.serial = None \/ c.cert \in Serial
    /\ c.at = "write" => c.key \in Key
    /\ c.at = "token" => c.finger # None

\* The files of the TSA that a handler relies on exist.
FilesThere(c, files) ==
    /\ c.at \in {"time", "finger", "token"} => files["key"] # None /\ files["pub"] # None
    /\ c.at = "write" /\ c.file = "pub" => files["key"] # None

VTypeInv ==
    /\ VerdictTypeOK
    /\ \A w \in Worker : Holding(call[w]) /\ FilesThere(call[w], tsa)

(* The files of the TSA, unless they were created twice at once or cut short: *)
(* one handler writes them, and until it is done no token was given out.      *)
Settled == tsa["key"] \in Key /\ tsa["pub"] = tsa["key"]
TsaInv ==
    /\ \A v, w \in Worker : At(v, "write") /\ At(w, "write") => v = w
    /\ \A w \in Worker : At(w, "write") =>
        /\ tsa["pub"] = (IF call[w].file = "pub" /\ call[w].open THEN Torn ELSE None)
        /\ call[w].file = "pub" => tsa["key"] = call[w].key
    /\ (\A w \in Worker : ~At(w, "write")) => Settled \/ tsa["pub"] = None
    /\ \A w \in Worker : call[w].at \in {"time", "finger", "token"} => Settled
    /\ \A w \in Worker : At(w, "token") => call[w].finger = tsa["key"]
    /\ \A t \in tokens : Settled /\ t.key = tsa["key"] /\ t.finger = tsa["key"]

(* No time that was taken lies ahead of the clock.                            *)
PastIn(reg) == \A s \in Serial : reg[s] # None => reg[s] <= clock
ClockInv ==
    /\ registry # Torn => PastIn(registry)
    /\ \A w \in Worker :
        /\ call[w].time <= clock
        /\ call[w].at \in {"stamp", "rewrite"} => PastIn(call[w].read)
    /\ \A p \in packages : p.time <= clock

(* What holds of a serial timestamped at t, in the registry or in the list    *)
(* that a handler is about to write: it stays revoked, or it is revoked only  *)
(* after t.                                                                   *)
StaysIn(reg, s, t) == reg[s] # None /\ reg[s] <= t
LaterIn(reg, s, t) == reg[s] # None => reg[s] > t

Rewrites(c) == c.at = "rewrite" /\ c.open
Stamped(c) == c.at \in {"finger", "token"} /\ c.serial # None
Keeps(reg, calls, ag, s, t) ==
    s \notin ag =>
        /\ reg # Torn => StaysIn(reg, s, t)
        /\ \A v \in Worker : Rewrites(calls[v]) => StaysIn(calls[v].read, s, t)
Behind(calls, s, t) ==
    \A v \in Worker : calls[v].at = "rewrite" /\ calls[v].serial = s => calls[v].time > t
Clear(reg, calls, s, t) ==
    /\ reg # Torn => LaterIn(reg, s, t)
    /\ \A v \in Worker : Rewrites(calls[v]) => LaterIn(calls[v].read, s, t)

WriteInv ==
    /\ \A v, w \in Worker : Rewrites(call[v]) /\ Rewrites(call[w]) => v = w
    /\ \A w \in Worker : Rewrites(call[w]) => registry = Torn
RegInv ==
    /\ WriteInv
    /\ \A w \in Worker : Stamped(call[w]) =>
        /\ call[w].already => Keeps(registry, call, again, call[w].serial, call[w].time)
        /\ ~call[w].raced => Behind(call, call[w].serial, call[w].time)
    /\ \A p \in packages :
        /\ p.already => Keeps(registry, call, again, p.serial, p.time)
        /\ ~p.raced => Behind(call, p.serial, p.time)

(* A package that was accepted had its certificate and its token in order.    *)
AcceptInv ==
    /\ \A p \in packages : p.token \in tokens
    /\ \A p \in packages : p.reported = "accepted" => p.cert = p.serial
    /\ ~lost => \A p \in packages : p.reported = "accepted" /\ ~p.raced => Clear(registry, call, p.serial, p.time)

VInv ==
    /\ VTypeInv /\ ClockInv /\ AcceptInv
    /\ ~spoiled => TsaInv
    /\ ~lost => RegInv
-----------------------------------------------------------------------------
(* Types.                                                                     *)

LEMMA IdleCall == Idle \in Call /\ Holding(Idle) /\ \A files : FilesThere(Idle, files)
BY VerdictAssumption DEF Idle, Call, Holding, FilesThere, Point, Instant, Content

(* A step that changes one handler preserves the handlers' part.              *)
LEMMA OneCall ==
    ASSUME VTypeInv, NEW w \in Worker, NEW c \in Call, Become(w, c), Holding(c), FilesThere(c, tsa'),
           \A f \in {"key", "pub"} : tsa[f] # None => tsa'[f] # None
    PROVE  call' \in [Worker -> Call] /\ \A v \in Worker : Holding(call'[v]) /\ FilesThere(call'[v], tsa')
<1>1. call \in [Worker -> Call] /\ call' \in [Worker -> Call] /\ call'[w] = c
  BY DEF VTypeInv, VerdictTypeOK, Become
<1>2. ASSUME NEW v \in Worker PROVE Holding(call'[v]) /\ FilesThere(call'[v], tsa')
  <2>1. CASE v = w
    BY <2>1, <1>1 DEF FilesThere
  <2>2. CASE v # w
    <3>1. call'[v] = call[v]
      BY <2>2, <1>1 DEF Become
    <3>2. Holding(call[v]) /\ FilesThere(call[v], tsa)
      BY DEF VTypeInv
    <3> QED BY <3>1, <3>2 DEF FilesThere
  <2> QED BY <2>1, <2>2
<1> QED BY <1>1, <1>2

LEMMA InitType == VInit => VTypeInv
<1> SUFFICES ASSUME VInit PROVE VTypeInv
  OBVIOUS
<1> USE VerdictAssumption
<1>1. clock \in Instant /\ epoch \in Demo
  BY DEF VInit, Instant, Demo
<1>2. registry \in Registry /\ tsa \in [{"key", "pub"} -> Content]
  BY DEF VInit, Registry, Content
<1>3. \A w \in Worker : call[w] = Idle
  BY DEF VInit
<1>4. call \in [Worker -> Call]
  BY IdleCall DEF VInit
<1>5. \A w \in Worker : Holding(call[w]) /\ FilesThere(call[w], tsa)
  BY <1>3, IdleCall DEF FilesThere
<1> QED BY <1>1, <1>2, <1>4, <1>5 DEF VInit, VTypeInv, VerdictTypeOK

LEMMA StepType == VTypeInv /\ [VNext]_vars => VTypeInv'
<1> SUFFICES ASSUME VTypeInv, [VNext]_vars PROVE VTypeInv'
  OBVIOUS
<1> USE VerdictAssumption
<1>0. /\ VerdictTypeOK
      /\ clock \in Nat /\ Instant \subseteq Nat
      /\ \A w \in Worker : call[w] \in Call /\ Holding(call[w]) /\ FilesThere(call[w], tsa)
  BY DEF VTypeInv, VerdictTypeOK, Instant
<1>a. ASSUME Now PROVE clock' \in Instant
  BY <1>0, <1>a DEF Now, Instant, VerdictTypeOK
<1>i. ASSUME NEW w \in Worker, Become(w, Idle), tsa' = tsa
      PROVE  call' \in [Worker -> Call] /\ \A v \in Worker : Holding(call'[v]) /\ FilesThere(call'[v], tsa')
  BY <1>i, IdleCall, OneCall DEF FilesThere, Idle
<1>s. Listed \subseteq Serial
  BY <1>0 DEF Listed, Serial, Demo, VerdictTypeOK
<1>1. ASSUME NEW w \in Worker, StartRevoke(w) PROVE VTypeInv'
  <2>1. PICK s \in Listed : Become(w, [Idle EXCEPT !.at = "read", !.serial = s])
    BY <1>1 DEF StartRevoke, Begin
  <2>2. [Idle EXCEPT !.at = "read", !.serial = s] \in Call
    BY <1>s, IdleCall DEF Idle, Call, Point
  <2>3. Holding([Idle EXCEPT !.at = "read", !.serial = s]) /\ FilesThere([Idle EXCEPT !.at = "read", !.serial = s], tsa')
    BY <1>s DEF Holding, FilesThere, Idle
  <2> QED BY <1>1, <1>0, <2>1, <2>2, <2>3, OneCall DEF StartRevoke, VTypeInv, VerdictTypeOK
<1>2. ASSUME NEW w \in Worker, ReadRegistry(w) PROVE VTypeInv'
  <2>1. CASE registry = Torn
    BY <2>1, <1>2, <1>0, <1>i DEF ReadRegistry, VTypeInv, VerdictTypeOK
  <2>2. CASE registry # Torn
    <3> DEFINE c == [call[w] EXCEPT !.at = "stamp", !.read = registry]
    <3>1. c \in Call /\ Holding(c) /\ FilesThere(c, tsa')
      <4>1. call[w] \in Call /\ Holding(call[w]) /\ FilesThere(call[w], tsa)
        BY <1>0
      <4>2. c \in Call
        BY <2>2, <1>2, <1>0, <4>1 DEF ReadRegistry, VerdictTypeOK, At, Call, Point, Holding
      <4>3. Holding(c)
        BY <2>2, <1>2, <1>0, <4>1 DEF ReadRegistry, VerdictTypeOK, At, Call, Holding
      <4>4. FilesThere(c, tsa')
        BY <2>2, <1>2, <1>0, <4>1 DEF ReadRegistry, VerdictTypeOK, At, Call, FilesThere
      <4> QED BY <4>2, <4>3, <4>4
    <3>2. Become(w, c)
      BY <1>2, <2>2 DEF ReadRegistry
    <3> HIDE DEF c
    <3> QED BY <1>2, <1>0, <3>1, <3>2, OneCall DEF ReadRegistry, VTypeInv, VerdictTypeOK
  <2> QED BY <2>1, <2>2
<1>3. ASSUME NEW w \in Worker, StampRevocation(w) PROVE VTypeInv'
  <2> DEFINE c == [call[w] EXCEPT !.at = "rewrite", !.time = clock']
  <2>1. c \in Call /\ Holding(c) /\ FilesThere(c, tsa')
    <3>1. call[w] \in Call /\ Holding(call[w]) /\ FilesThere(call[w], tsa)
      BY <1>0
    <3>2. c \in Call
      BY <1>3, <1>0, <1>a, <3>1 DEF StampRevocation, At, Call, Point, Holding
    <3>3. Holding(c)
      BY <1>3, <1>0, <1>a, <3>1 DEF StampRevocation, At, Call, Holding
    <3>4. FilesThere(c, tsa')
      BY <1>3, <1>0, <1>a, <3>1 DEF StampRevocation, At, Call, FilesThere
    <3> QED BY <3>2, <3>3, <3>4
  <2>2. Become(w, c)
    BY <1>3 DEF StampRevocation
  <2> HIDE DEF c
  <2> QED BY <1>3, <1>0, <1>a, <2>1, <2>2, OneCall DEF StampRevocation, VTypeInv, VerdictTypeOK
<1>4. ASSUME NEW w \in Worker, OpenRegistry(w) PROVE VTypeInv'
  <2> DEFINE c == [call[w] EXCEPT !.open = TRUE]
  <2>1. c \in Call /\ Holding(c) /\ FilesThere(c, tsa')
    BY <1>4, <1>0 DEF OpenRegistry, At, Call, Point, Holding, FilesThere
  <2>2. Become(w, c)
    BY <1>4 DEF OpenRegistry
  <2> HIDE DEF c
  <2> QED BY <1>4, <1>0, <2>1, <2>2, OneCall DEF OpenRegistry, VTypeInv, VerdictTypeOK
<1>5. ASSUME NEW w \in Worker, FlushRegistry(w) PROVE VTypeInv'
  <2>1. call[w].read \in Registry /\ call[w].serial \in Serial /\ call[w].time \in Instant
    BY <1>5, <1>0 DEF FlushRegistry, At, Holding, Call
  <2>2. registry' \in Registry /\ again' \subseteq Serial
    BY <2>1, <1>5, <1>0 DEF FlushRegistry, Registry, VerdictTypeOK
  <2> QED BY <2>2, <1>5, <1>0, <1>i DEF FlushRegistry, VTypeInv, VerdictTypeOK
<1>6. ASSUME NEW w \in Worker, StartSign(w) PROVE VTypeInv'
  <2>1. PICK s \in Listed : Become(w, [Idle EXCEPT !.at = "check", !.serial = s])
    BY <1>6 DEF StartSign, Begin
  <2>2. [Idle EXCEPT !.at = "check", !.serial = s] \in Call
    BY <1>s, IdleCall DEF Idle, Call, Point
  <2>3. Holding([Idle EXCEPT !.at = "check", !.serial = s]) /\ FilesThere([Idle EXCEPT !.at = "check", !.serial = s], tsa')
    BY <1>s DEF Holding, FilesThere, Idle
  <2> QED BY <1>6, <1>0, <2>1, <2>2, <2>3, OneCall DEF StartSign, VTypeInv, VerdictTypeOK
<1>7. ASSUME NEW w \in Worker, Check(w) PROVE VTypeInv'
  <2> DEFINE c == [call[w] EXCEPT !.at = "load"]
  <2>1. c \in Call /\ Holding(c) /\ FilesThere(c, tsa')
    BY <1>7, <1>0 DEF Check, At, Call, Point, Holding, FilesThere
  <2>2. Become(w, c) \/ Become(w, Idle)
    BY <1>7 DEF Check, Goto
  <2> HIDE DEF c
  <2> QED BY <1>7, <1>0, <1>i, <2>1, <2>2, OneCall DEF Check, VTypeInv, VerdictTypeOK
<1>8. ASSUME NEW w \in Worker, Load(w) PROVE VTypeInv'
  <2> DEFINE d == IF call[w].serial \in Client THEN call[w].serial ELSE epoch
             c == [call[w] EXCEPT !.at = "init", !.cert = d]
  <2>0. d \in Serial /\ At(w, "load")
    BY <1>8, <1>0 DEF Load, At, Holding, VerdictTypeOK, Serial
  <2>2. Become(w, c)
    BY <1>8 DEF Load
  <2> HIDE DEF d
  <2>1. c \in Call /\ Holding(c) /\ FilesThere(c, tsa')
    <3>1. call[w] \in Call /\ Holding(call[w]) /\ FilesThere(call[w], tsa)
      BY <1>0
    <3>2. c \in Call
      BY <2>0, <3>1 DEF At, Call, Point
    <3>3. Holding(c)
      BY <2>0, <3>1 DEF At, Call, Holding
    <3>4. FilesThere(c, tsa')
      BY <3>1 DEF Call, FilesThere
    <3> QED BY <3>2, <3>3, <3>4
  <2> HIDE DEF c
  <2> QED BY <1>8, <1>0, <2>1, <2>2, OneCall DEF Load, VTypeInv, VerdictTypeOK
<1>9. ASSUME NEW w \in Worker, StartStamp(w) PROVE VTypeInv'
  <2> DEFINE c == [Idle EXCEPT !.at = "init"]
  <2>1. c \in Call /\ Holding(c) /\ FilesThere(c, tsa')
    BY IdleCall DEF Idle, Call, Point, Holding, FilesThere
  <2>2. Become(w, c)
    BY <1>9 DEF StartStamp, Begin
  <2> HIDE DEF c
  <2> QED BY <1>9, <1>0, <2>1, <2>2, OneCall DEF StartStamp, VTypeInv, VerdictTypeOK
<1>10. ASSUME NEW w \in Worker, InitTsa(w) PROVE VTypeInv'
  <2>1. CASE Ready
    <3> DEFINE c == [call[w] EXCEPT !.at = "time"]
    <3>1. c \in Call /\ Holding(c) /\ FilesThere(c, tsa')
      BY <2>1, <1>10, <1>0 DEF InitTsa, At, Call, Point, Holding, FilesThere, Ready
    <3>2. Become(w, c)
      BY <1>10, <2>1 DEF InitTsa, Goto
    <3> HIDE DEF c
    <3> QED BY <1>10, <1>0, <3>1, <3>2, OneCall DEF InitTsa, VTypeInv, VerdictTypeOK
  <2>2. CASE ~Ready
    <3>0. PICK k \in FreshKey : Become(w, [call[w] EXCEPT !.at = "write", !.key = k, !.file = First])
      BY <1>10, <2>2 DEF InitTsa
    <3> DEFINE c == [call[w] EXCEPT !.at = "write", !.key = k, !.file = First]
    <3>1. c \in Call /\ Holding(c) /\ FilesThere(c, tsa')
      <4>1. call[w] \in Call /\ Holding(call[w]) /\ FilesThere(call[w], tsa)
        BY <1>0
      <4>2. c \in Call
        BY <1>10, <1>0, <4>1 DEF InitTsa, FreshKey, First, At, Call, Point, Holding
      <4>3. Holding(c)
        BY <1>10, <1>0, <4>1 DEF InitTsa, FreshKey, First, At, Call, Holding
      <4>4. FilesThere(c, tsa')
        BY <1>10, <1>0, <4>1 DEF InitTsa, FreshKey, First, At, Call, FilesThere
      <4> QED BY <4>2, <4>3, <4>4
    <3>2. Become(w, c)
      BY <3>0
    <3> HIDE DEF c
    <3> QED BY <1>10, <1>0, <3>1, <3>2, OneCall DEF InitTsa, VTypeInv, VerdictTypeOK
  <2> QED BY <2>1, <2>2
<1>11. ASSUME NEW w \in Worker, OpenKeyFile(w) PROVE VTypeInv'
  <2> DEFINE c == [call[w] EXCEPT !.open = TRUE]
  <2>0. call[w].file \in {"key", "pub"}
    BY <1>0 DEF Call
  <2>1. /\ tsa' \in [{"key", "pub"} -> Content]
        /\ \A f \in {"key", "pub"} : tsa[f] # None => tsa'[f] # None
    BY <2>0, <1>11, <1>0 DEF OpenKeyFile, Content, VerdictTypeOK
  <2>2. c \in Call /\ Holding(c) /\ FilesThere(c, tsa')
    <3>1. call[w] \in Call /\ Holding(call[w]) /\ FilesThere(call[w], tsa)
      BY <1>0
    <3>2. c \in Call
      BY <1>11, <1>0, <2>1, <3>1 DEF OpenKeyFile, At, Call, Point, Holding
    <3>3. Holding(c)
      BY <1>11, <1>0, <2>1, <3>1 DEF OpenKeyFile, At, Call, Holding
    <3>4. FilesThere(c, tsa')
      BY <1>11, <1>0, <2>1, <3>1 DEF OpenKeyFile, At, Call, FilesThere
    <3> QED BY <3>2, <3>3, <3>4
  <2>3. Become(w, c)
    BY <1>11 DEF OpenKeyFile
  <2> HIDE DEF c
  <2> QED BY <1>11, <1>0, <2>1, <2>2, <2>3, OneCall DEF OpenKeyFile, VTypeInv, VerdictTypeOK
<1>12. ASSUME NEW w \in Worker, FlushKeyFile(w) PROVE VTypeInv'
  <2>0. call[w].file \in {"key", "pub"} /\ call[w].key \in Key
    BY <1>0, <1>12 DEF Call, FlushKeyFile, At, Holding
  <2>1. /\ tsa' \in [{"key", "pub"} -> Content]
        /\ \A f \in {"key", "pub"} : tsa[f] # None => tsa'[f] # None
        /\ tsa'[call[w].file] # None
    BY <2>0, <1>12, <1>0 DEF FlushKeyFile, Content, VerdictTypeOK
  <2>2. CASE call[w].file = "key"
    <3> DEFINE c == [call[w] EXCEPT !.file = "pub", !.open = FALSE]
    <3>1. c \in Call /\ Holding(c) /\ FilesThere(c, tsa')
      <4>1. call[w] \in Call /\ Holding(call[w]) /\ FilesThere(call[w], tsa)
        BY <1>0
      <4>2. c \in Call
        BY <2>2, <1>12, <1>0, <2>1, <4>1 DEF FlushKeyFile, At, Call, Point, Holding
      <4>3. Holding(c)
        BY <2>2, <1>12, <1>0, <2>1, <4>1 DEF FlushKeyFile, At, Call, Holding
      <4>4. FilesThere(c, tsa')
        BY <2>2, <1>12, <1>0, <2>1, <4>1 DEF FlushKeyFile, At, Call, FilesThere
      <4> QED BY <4>2, <4>3, <4>4
    <3>2. Become(w, c)
      BY <1>12, <2>2 DEF FlushKeyFile
    <3> HIDE DEF c
    <3> QED BY <1>12, <1>0, <2>1, <3>1, <3>2, OneCall DEF FlushKeyFile, VTypeInv, VerdictTypeOK
  <2>3. CASE call[w].file # "key"
    <3> DEFINE c == [call[w] EXCEPT !.at = "time", !.key = None, !.file = "key", !.open = FALSE]
    <3>1. c \in Call /\ Holding(c) /\ FilesThere(c, tsa')
      <4>1. call[w] \in Call /\ Holding(call[w]) /\ FilesThere(call[w], tsa)
        BY <1>0
      <4>2. c \in Call
        BY <2>3, <2>0, <1>12, <1>0, <2>1, <4>1 DEF FlushKeyFile, At, Call, Point, Holding
      <4>3. Holding(c)
        BY <2>3, <2>0, <1>12, <1>0, <2>1, <4>1 DEF FlushKeyFile, At, Call, Holding
      <4>4. FilesThere(c, tsa')
        BY <2>3, <2>0, <1>12, <1>0, <2>1, <4>1 DEF FlushKeyFile, At, Call, FilesThere
      <4> QED BY <4>2, <4>3, <4>4
    <3>2. Become(w, c)
      BY <1>12, <2>3 DEF FlushKeyFile
    <3> HIDE DEF c
    <3> QED BY <1>12, <1>0, <2>1, <3>1, <3>2, OneCall DEF FlushKeyFile, VTypeInv, VerdictTypeOK
  <2> QED BY <2>2, <2>3
<1>13. ASSUME NEW w \in Worker, GenTime(w) PROVE VTypeInv'
  <2> DEFINE al == call[w].serial # None /\ registry # Torn /\ registry[call[w].serial] # None
             ra == UnderRevocation(call[w].serial)
             c == [call[w] EXCEPT !.at = "finger", !.time = clock', !.already = al, !.raced = ra]
  <2>0. al \in BOOLEAN /\ ra \in BOOLEAN
    BY DEF UnderRevocation
  <2>2. Become(w, c)
    BY <1>13 DEF GenTime
  <2>x. clock' \in Instant /\ At(w, "time")
    BY <1>13, <1>a DEF GenTime
  <2> HIDE DEF al, ra
  <2>1. c \in Call /\ Holding(c) /\ FilesThere(c, tsa')
    <3>1. call[w] \in Call /\ Holding(call[w]) /\ FilesThere(call[w], tsa)
      BY <1>0
    <3>2. c \in Call
      BY <2>x, <1>13, <1>0, <2>0, <3>1 DEF GenTime, At, Call, Point, Holding
    <3>3. Holding(c)
      BY <2>x, <1>13, <1>0, <2>0, <3>1 DEF GenTime, At, Call, Holding
    <3>4. FilesThere(c, tsa')
      BY <2>x, <1>13, <1>0, <2>0, <3>1 DEF GenTime, At, Call, FilesThere
    <3> QED BY <3>2, <3>3, <3>4
  <2> HIDE DEF c
  <2> QED BY <1>13, <1>0, <1>a, <2>1, <2>2, OneCall DEF GenTime, VTypeInv, VerdictTypeOK
<1>14. ASSUME NEW w \in Worker, Fingerprint(w) PROVE VTypeInv'
  <2> DEFINE c == [call[w] EXCEPT !.at = "token", !.finger = tsa["pub"]]
  <2>1. c \in Call /\ Holding(c) /\ FilesThere(c, tsa')
    <3>1. call[w] \in Call /\ Holding(call[w]) /\ FilesThere(call[w], tsa)
      BY <1>0
    <3>2. c \in Call
      BY <1>14, <1>0, <3>1 DEF Fingerprint, VerdictTypeOK, At, Call, Point, Holding
    <3>3. Holding(c)
      BY <1>14, <3>1 DEF Fingerprint, At, Call, Holding, FilesThere
    <3>4. FilesThere(c, tsa')
      BY <1>14, <1>0, <3>1 DEF Fingerprint, VerdictTypeOK, At, Call, FilesThere
    <3> QED BY <3>2, <3>3, <3>4
  <2>2. Become(w, c)
    BY <1>14 DEF Fingerprint
  <2> HIDE DEF c
  <2> QED BY <1>14, <1>0, <2>1, <2>2, OneCall DEF Fingerprint, VTypeInv, VerdictTypeOK
<1>15. ASSUME NEW w \in Worker, SignToken(w) PROVE VTypeInv'
  <2>1. CASE tsa["key"] = Torn
    BY <2>1, <1>15, <1>0, <1>i DEF SignToken, VTypeInv, VerdictTypeOK
  <2>2. CASE tsa["key"] # Torn
    <3> DEFINE t == [key |-> tsa["key"], finger |-> call[w].finger]
    <3>1. t \in Token
      BY <2>2, <1>15, <1>0 DEF SignToken, At, Holding, FilesThere, Call, Content, Token, VerdictTypeOK
    <3>2. tokens' = tokens \union {t}
      BY <2>2, <1>15 DEF SignToken
    <3> HIDE DEF t
    <3>3. tokens' \subseteq Token
      BY <3>1, <3>2, <1>0 DEF VerdictTypeOK
    <3>4. CASE call[w].serial = None
      BY <3>3, <3>4, <2>2, <1>15, <1>0, <1>i DEF SignToken, VTypeInv, VerdictTypeOK
    <3>5. CASE call[w].serial # None
      <4> DEFINE p == [serial |-> call[w].serial, cert |-> call[w].cert, token |-> t,
                       time |-> call[w].time, reported |-> "none",
                       already |-> call[w].already, raced |-> call[w].raced]
                 c == [call[w] EXCEPT !.at = "verify"]
      <4>1. packages' = packages \union {p} /\ Become(w, c)
        BY <3>5, <2>2, <1>15 DEF SignToken, Goto, t
      <4>2. p \in Package
        BY <3>5, <3>1, <1>15, <1>0 DEF SignToken, At, Holding, Call, Package
      <4>3. c \in Call /\ Holding(c) /\ FilesThere(c, tsa')
        BY <3>5, <1>15, <1>0 DEF SignToken, At, Call, Point, Holding, FilesThere
      <4> HIDE DEF p, c
      <4>4. packages' \subseteq Package
        BY <4>1, <4>2, <1>0 DEF VerdictTypeOK
      <4> QED BY <4>1, <4>3, <4>4, <3>3, <1>15, <1>0, OneCall DEF SignToken, VTypeInv, VerdictTypeOK
    <3> QED BY <3>4, <3>5
  <2> QED BY <2>1, <2>2
<1>16. ASSUME NEW w \in Worker, Verify(w) PROVE VTypeInv'
  <2>1. packages' \subseteq Package
    BY <1>16, <1>0 DEF Verify, Package, VerdictTypeOK
  <2> QED BY <2>1, <1>16, <1>0, <1>i DEF Verify, VTypeInv, VerdictTypeOK
<1>17. CASE Replace
  BY <1>17, <1>0 DEF Replace, Demo, VTypeInv, VerdictTypeOK, FilesThere
<1>18. CASE Crash
  <2>1. call' \in [Worker -> Call] /\ \A w \in Worker : call'[w] = Idle
    BY <1>18, IdleCall DEF Crash
  <2>2. \A w \in Worker : Holding(call'[w]) /\ FilesThere(call'[w], tsa')
    BY <2>1, IdleCall DEF FilesThere, Idle
  <2> QED BY <1>18, <1>0, <2>1, <2>2 DEF Crash, VTypeInv, VerdictTypeOK
<1>19. CASE UNCHANGED vars
  BY <1>19, <1>0 DEF vars, VTypeInv, VerdictTypeOK, FilesThere
<1> QED
  BY <1>1, <1>2, <1>3, <1>4, <1>5, <1>6, <1>7, <1>8, <1>9, <1>10, <1>11, <1>12, <1>13, <1>14,
     <1>15, <1>16, <1>17, <1>18, <1>19 DEF VNext, Step

(* Whatever the clients call and wherever the process dies, every variable    *)
(* keeps its type; in particular no token is made from a missing file.        *)
THEOREM VerdictTypes == VSpec => []VerdictTypeOK
<1>1. VTypeInv => VerdictTypeOK
  BY DEF VTypeInv
<1> QED BY <1>1, InitType, StepType, PTL DEF VSpec
-----------------------------------------------------------------------------
(* The clock.                                                                 *)

LEMMA Numbers == VTypeInv => /\ clock \in Nat
                             /\ \A w \in Worker : call[w].time \in Nat
                             /\ \A p \in packages : p.time \in Nat
BY VerdictAssumption DEF VTypeInv, VerdictTypeOK, Call, Package, Instant

LEMMA Times == \A r \in Registry : \A s \in Serial : r[s] # None => r[s] \in Nat
BY VerdictAssumption DEF Registry, Instant

(* A step of one handler leaves the others where they are.                    *)
Only(w) == \A v \in Worker : v # w => call'[v] = call[v]

LEMMA Alone ==
    ASSUME VTypeInv, NEW w \in Worker, Step(w)
    PROVE  Only(w) /\ call[w] \in Call
<1>1. call \in [Worker -> Call]
  BY DEF VTypeInv, VerdictTypeOK
<1>2. ASSUME NEW c, Become(w, c) PROVE Only(w)
  BY <1>1, <1>2 DEF Become, Only
<1>3. Only(w)
  BY <1>2 DEF Step, StartRevoke, ReadRegistry, StampRevocation, OpenRegistry, FlushRegistry, StartSign,
     Check, Load, StartStamp, InitTsa, OpenKeyFile, FlushKeyFile, GenTime, Fingerprint, SignToken,
     Verify, Begin, Goto
<1> QED BY <1>1, <1>3

(* init_demo_tsa finds both files or starts to write them with a fresh pair.  *)
LEMMA InitMoves ==
    ASSUME VTypeInv, NEW w \in Worker, InitTsa(w)
    PROVE  /\ call'[w].time = call[w].time
           /\ Ready => call'[w].at = "time"
           /\ ~Ready => /\ call'[w].at = "write" /\ call'[w].file = "key"
                        /\ call'[w].open = call[w].open
<1>1. call[w] \in Call /\ call \in [Worker -> Call]
  BY DEF VTypeInv, VerdictTypeOK
<1>2. CASE Ready
  BY <1>1, <1>2 DEF InitTsa, Goto, Become, Call
<1>3. CASE ~Ready
  <2>1. PICK k \in FreshKey : Become(w, [call[w] EXCEPT !.at = "write", !.key = k, !.file = First])
    BY <1>3 DEF InitTsa
  <2> QED BY <1>1, <1>3, <2>1 DEF Become, Call, First
<1> QED BY <1>2, <1>3

LEMMA InitClock == VInit => ClockInv
BY DEF VInit, ClockInv, PastIn, Idle

LEMMA StepClock == VTypeInv /\ VTypeInv' /\ ClockInv /\ [VNext]_vars => ClockInv'
<1> SUFFICES ASSUME VTypeInv, VTypeInv', ClockInv, [VNext]_vars PROVE ClockInv'
  OBVIOUS
<1>0. /\ clock \in Nat /\ clock' \in Nat /\ call \in [Worker -> Call]
      /\ \A w \in Worker : call[w].time \in Nat /\ Holding(call[w])
      /\ \A p \in packages : p.time \in Nat
      /\ registry \in Registry \union {Torn}
  <2>1. clock \in Nat /\ (\A w \in Worker : call[w].time \in Nat) /\ (\A p \in packages : p.time \in Nat)
    BY Numbers
  <2>2. clock' \in Nat
    BY VerdictAssumption DEF VTypeInv, VerdictTypeOK, Instant
  <2> QED BY <2>1, <2>2 DEF VTypeInv, VerdictTypeOK
<1>1. ASSUME NEW w \in Worker, StartRevoke(w) \/ StartSign(w) \/ StartStamp(w) PROVE ClockInv'
  <2>1. Only(w)
    BY <1>1, Alone DEF Step
  <2>2. /\ UNCHANGED <<clock, registry, packages>>
        /\ call'[w].time = 0 /\ call'[w].at \in {"read", "check", "init"}
    BY <1>1, <1>0 DEF StartRevoke, StartSign, StartStamp, Begin, Become, Idle
  <2> QED BY <2>1, <2>2, <1>0 DEF ClockInv, PastIn, Only
<1>2. ASSUME NEW w \in Worker, ReadRegistry(w) PROVE ClockInv'
  <2>1. Only(w)
    BY <1>2, Alone DEF Step
  <2>2. /\ UNCHANGED <<clock, registry, packages>>
        /\ call'[w].time \in {0, call[w].time}
        /\ call'[w].at = "idle" \/ (registry # Torn /\ call'[w].read = registry)
    <3>1. CASE registry = Torn
      BY <3>1, <1>2, <1>0 DEF ReadRegistry, Become, Idle
    <3>2. CASE registry # Torn
      <4>1. call' = [call EXCEPT ![w] = [call[w] EXCEPT !.at = "stamp", !.read = registry]] /\ call[w] \in Call
        BY <3>2, <1>2, <1>0 DEF ReadRegistry, Become
      <4> QED BY <4>1, <3>2, <1>2, <1>0 DEF ReadRegistry, Call
    <3> QED BY <3>1, <3>2
  <2> QED BY <2>1, <2>2, <1>0 DEF ClockInv, PastIn, Only
<1>3. ASSUME NEW w \in Worker, StampRevocation(w) PROVE ClockInv'
  <2>1. /\ clock' = clock + 1 /\ UNCHANGED <<registry, packages>>
        /\ call' = [call EXCEPT ![w] = [call[w] EXCEPT !.at = "rewrite", !.time = clock']]
        /\ call[w].at = "stamp"
    BY <1>3 DEF StampRevocation, Now, Become, At
  <2>2. ASSUME NEW r \in Registry, PastIn(r) PROVE PastIn(r)'
    BY <2>1, <2>2, <1>0, Times DEF PastIn
  <2>3. registry' # Torn => PastIn(registry)'
    BY <2>1, <2>2, <1>0 DEF ClockInv, PastIn
  <2>4. ASSUME NEW v \in Worker PROVE call'[v].time <= clock' /\ (call'[v].at \in {"stamp", "rewrite"} => PastIn(call[v].read)')
    <3>1. call'[v].read = call[v].read /\ (call'[v].at \in {"stamp", "rewrite"} => call[v].at \in {"stamp", "rewrite"})
      BY <2>1, <1>0 DEF Call
    <3>2. call'[v].time <= clock'
      BY <2>1, <1>0 DEF ClockInv, Call
    <3>3. call[v].at \in {"stamp", "rewrite"} => PastIn(call[v].read) /\ call[v].read \in Registry
      BY <1>0 DEF ClockInv, Holding
    <3>4. call[v].at \in {"stamp", "rewrite"} => \A s \in Serial : call[v].read[s] # None => call[v].read[s] <= clock'
      BY <3>3, <2>1, <1>0, Times DEF PastIn
    <3> QED BY <3>1, <3>2, <3>4 DEF PastIn
  <2>5. \A p \in packages' : p.time <= clock'
    BY <2>1, <1>0 DEF ClockInv
  <2> QED BY <2>3, <2>4, <2>5 DEF ClockInv
<1>4. ASSUME NEW w \in Worker, OpenRegistry(w) PROVE ClockInv'
  BY <1>4, <1>0 DEF OpenRegistry, ClockInv, PastIn, Become, At, Call
<1>5. ASSUME NEW w \in Worker, FlushRegistry(w) PROVE ClockInv'
  <2>1. /\ registry' = [call[w].read EXCEPT ![call[w].serial] = call[w].time]
        /\ UNCHANGED <<clock, packages>> /\ call' = [call EXCEPT ![w] = Idle] /\ call[w].at = "rewrite"
    BY <1>5 DEF FlushRegistry, Become, At
  <2>2. call[w].read \in Registry /\ PastIn(call[w].read) /\ call[w].time <= clock
    BY <2>1, <1>0 DEF ClockInv, Holding
  <2>3. PastIn(registry)'
    BY <2>1, <2>2 DEF PastIn, Registry
  <2> QED BY <2>1, <2>3, <1>0 DEF ClockInv, PastIn, Idle
<1>6. ASSUME NEW w \in Worker,
             Check(w) \/ Load(w) \/ InitTsa(w) \/ OpenKeyFile(w) \/ FlushKeyFile(w) \/ Fingerprint(w)
      PROVE  ClockInv'
  <2>1. Only(w)
    BY <1>6, Alone DEF Step
  <2>2. /\ UNCHANGED <<clock, registry, packages>>
        /\ call'[w].time \in {0, call[w].time} /\ call'[w].at \notin {"stamp", "rewrite"}
    <3>0. call[w] \in Call
      BY <1>0
    <3>1. CASE Check(w)
      BY <3>0, <3>1, <1>0 DEF Check, Goto, Become, Idle, Call
    <3>2. CASE Load(w)
      BY <3>0, <3>2, <1>0 DEF Load, Become, Call
    <3>3. CASE InitTsa(w)
      BY <3>3, InitMoves, <1>0 DEF InitTsa
    <3>4. CASE OpenKeyFile(w)
      BY <3>0, <3>4, <1>0 DEF OpenKeyFile, At, Become, Call
    <3>5. CASE FlushKeyFile(w)
      BY <3>0, <3>5, <1>0 DEF FlushKeyFile, At, Become, Call
    <3>6. CASE Fingerprint(w)
      BY <3>0, <3>6, <1>0 DEF Fingerprint, Become, Call
    <3> QED BY <1>6, <3>1, <3>2, <3>3, <3>4, <3>5, <3>6
  <2> QED BY <2>1, <2>2, <1>0 DEF ClockInv, PastIn, Only
<1>7. ASSUME NEW w \in Worker, GenTime(w) PROVE ClockInv'
  <2>1. clock' = clock + 1 /\ UNCHANGED <<registry, packages>>
    BY <1>7 DEF GenTime, Now
  <2>2. Only(w) /\ call'[w].time = clock' /\ call'[w].at = "finger"
    <3>1. Only(w)
      BY <1>7, Alone DEF Step
    <3> QED BY <3>1, <1>7, <1>0 DEF GenTime, Become, Call
  <2>3. registry' # Torn => PastIn(registry)'
    BY <2>1, <1>0, Times DEF ClockInv, PastIn
  <2>4. ASSUME NEW v \in Worker PROVE call'[v].time <= clock' /\ (call'[v].at \in {"stamp", "rewrite"} => PastIn(call[v].read)')
    <3>1. CASE v = w
      BY <3>1, <2>2, <2>1, <1>0
    <3>2. CASE v # w
      <4>1. call'[v] = call[v]
        BY <3>2, <2>2 DEF Only
      <4>2. call[v].at \in {"stamp", "rewrite"} => PastIn(call[v].read) /\ call[v].read \in Registry
        BY <1>0 DEF ClockInv, Holding
      <4>3. call[v].at \in {"stamp", "rewrite"} => \A s \in Serial : call[v].read[s] # None => call[v].read[s] <= clock'
        BY <4>2, <2>1, <1>0, Times DEF PastIn
      <4> QED BY <4>1, <4>3, <2>1, <1>0 DEF ClockInv, PastIn
    <3> QED BY <3>1, <3>2
  <2>5. \A p \in packages' : p.time <= clock'
    BY <2>1, <1>0 DEF ClockInv
  <2> QED BY <2>3, <2>4, <2>5 DEF ClockInv
<1>8. ASSUME NEW w \in Worker, SignToken(w) \/ Verify(w) PROVE ClockInv'
  <2>1. UNCHANGED <<clock, registry>>
    BY <1>8 DEF SignToken, Verify
  <2>2. Only(w) /\ call'[w].time \in {0, call[w].time} /\ call'[w].at \notin {"stamp", "rewrite"}
    <3>1. Only(w)
      BY <1>8, Alone DEF Step
    <3> QED BY <3>1, <1>8, <1>0 DEF SignToken, Verify, Goto, Become, Idle, Call
  <2>3. \A p \in packages' : p.time = call[w].time \/ \E q \in packages : p.time = q.time
    <3>1. CASE SignToken(w)
      BY <3>1 DEF SignToken
    <3>2. CASE Verify(w)
      BY <3>2, <1>0 DEF Verify, VTypeInv, VerdictTypeOK, Package
    <3> QED BY <3>1, <3>2, <1>8
  <2>4. \A p \in packages' : p.time <= clock'
    BY <2>1, <2>3, <1>0 DEF ClockInv
  <2> QED BY <2>1, <2>2, <2>4, <1>0 DEF ClockInv, PastIn, Only
<1>9. CASE Replace \/ UNCHANGED vars
  BY <1>9 DEF Replace, vars, ClockInv, PastIn
<1>10. CASE Crash
  BY <1>10, <1>0 DEF Crash, ClockInv, PastIn, Idle
<1> QED
  BY <1>1, <1>2, <1>3, <1>4, <1>5, <1>6, <1>7, <1>8, <1>9, <1>10 DEF VNext, Step
-----------------------------------------------------------------------------
(* The key files of the TSA and the tokens.                                   *)

LEMMA InitTsaInv == VInit => TsaInv
BY DEF VInit, TsaInv, At, Idle

\* A handler that is, and stays, away from the TSA's files.
Away(c) == c.at \notin {"write", "time", "finger", "token"}

LEMMA TsaAside ==
    ASSUME TsaInv, NEW w \in Worker, Only(w), Away(call[w]), Away(call'[w]), UNCHANGED <<tsa, tokens>>
    PROVE  TsaInv'
<1>1. \A v \in Worker : call'[v].at \in {"write", "time", "finger", "token"} => call'[v] = call[v]
  BY DEF Only, Away
<1>2. (\A v \in Worker : ~At(v, "write"))' => \A v \in Worker : ~At(v, "write")
  BY DEF Only, Away, At
<1> QED BY <1>1, <1>2 DEF TsaInv, Settled, At

LEMMA StepTsa ==
    ASSUME VTypeInv, VTypeInv', TsaInv, ~spoiled', [VNext]_vars
    PROVE  TsaInv'
<1>0. /\ call \in [Worker -> Call] /\ \A w \in Worker : call[w] \in Call
      /\ tsa \in [{"key", "pub"} -> Content]
      /\ \A w \in Worker : Holding(call[w]) /\ FilesThere(call[w], tsa)
  BY DEF VTypeInv, VerdictTypeOK
<1>1. ASSUME NEW w \in Worker,
             \/ StartRevoke(w) \/ ReadRegistry(w) \/ StampRevocation(w) \/ OpenRegistry(w)
             \/ FlushRegistry(w) \/ StartSign(w) \/ Check(w) \/ Load(w) \/ StartStamp(w) \/ Verify(w)
      PROVE  TsaInv'
  <2>1. Only(w) /\ UNCHANGED <<tsa, tokens>>
    BY <1>1, Alone DEF Step, StartRevoke, ReadRegistry, StampRevocation, OpenRegistry, FlushRegistry,
       StartSign, Check, Load, StartStamp, Verify
  <2>2. Away(call[w])
    BY <1>1 DEF Away, At, StartRevoke, ReadRegistry, StampRevocation, OpenRegistry, FlushRegistry,
       StartSign, Check, Load, StartStamp, Verify, Begin
  <2>3. Away(call'[w])
    <3>1. CASE StartRevoke(w) \/ StartSign(w) \/ StartStamp(w)
      BY <3>1, <1>0 DEF StartRevoke, StartSign, StartStamp, Begin, Become, Idle, Away
    <3>2. CASE ReadRegistry(w)
      <4>1. CASE registry = Torn
        BY <4>1, <3>2, <1>0 DEF ReadRegistry, Become, Idle, Away
      <4>2. CASE registry # Torn
        <5>1. call' = [call EXCEPT ![w] = [call[w] EXCEPT !.at = "stamp", !.read = registry]] /\ call[w] \in Call
          BY <4>2, <3>2, <1>0 DEF ReadRegistry, Become
        <5> QED BY <5>1, <1>0 DEF Away, Call
      <4> QED BY <4>1, <4>2
    <3>3. CASE StampRevocation(w)
      BY <3>3, <1>0 DEF StampRevocation, Become, Away, Call
    <3>4. CASE OpenRegistry(w)
      BY <3>4, <1>0 DEF OpenRegistry, Become, Away, At, Call
    <3>5. CASE FlushRegistry(w) \/ Verify(w)
      BY <3>5, <1>0 DEF FlushRegistry, Verify, Become, Idle, Away
    <3>6. CASE Check(w)
      BY <3>6, <1>0 DEF Check, Goto, Become, Idle, Away, Call
    <3>7. CASE Load(w)
      BY <3>7, <1>0 DEF Load, Become, Away, Call
    <3> QED BY <1>1, <3>1, <3>2, <3>3, <3>4, <3>5, <3>6, <3>7
  <2> QED BY <2>1, <2>2, <2>3, TsaAside
<1>2. ASSUME NEW w \in Worker, InitTsa(w) PROVE TsaInv'
  <2>1. /\ Only(w) /\ UNCHANGED <<tsa, tokens>> /\ At(w, "init")
        /\ \A v \in Worker : ~At(v, "write")
    BY <1>2, Alone DEF Step, InitTsa, Others, At
  <2>2. Settled \/ tsa["pub"] = None
    BY <2>1 DEF TsaInv
  <2>3. CASE Ready
    <3>1. Settled /\ call'[w].at = "time"
      BY <2>2, <2>3, <1>2, InitMoves DEF Ready
    <3> QED BY <2>1, <3>1 DEF TsaInv, Only, At, Settled
  <2>4. CASE ~Ready
    <3>1. /\ call'[w].at = "write" /\ call'[w].file = "key" /\ tsa["pub"] = None
          /\ tokens = {} /\ \A v \in Worker : call[v].at \notin {"time", "finger", "token"}
      <4>1. ~Settled
        BY <2>4, VerdictAssumption DEF Ready, Settled
      <4> QED BY <4>1, <2>2, <2>4, <1>2, InitMoves DEF TsaInv
    <3> QED BY <2>1, <3>1 DEF TsaInv, Only, At
  <2> QED BY <2>3, <2>4
<1>3. ASSUME NEW w \in Worker, OpenKeyFile(w) PROVE TsaInv'
  <2>1. Only(w) /\ UNCHANGED tokens /\ At(w, "write") /\ tsa' = [tsa EXCEPT ![call[w].file] = Torn] /\ ~call[w].open
    BY <1>3, Alone DEF Step, OpenKeyFile
  <2>2. call'[w].at = "write" /\ call'[w].file = call[w].file /\ call'[w].key = call[w].key /\ call'[w].open = TRUE
    BY <1>3, <1>0 DEF OpenKeyFile, Become, At, Call
  <2>3. ~Settled /\ tokens = {} /\ \A v \in Worker : call[v].at \notin {"time", "finger", "token"}
    BY <2>1, VerdictAssumption DEF TsaInv, Settled
  <2>4. call[w].file \in {"key", "pub"} /\ \A v \in Worker : At(v, "write") => v = w
    BY <2>1, <1>0 DEF TsaInv, Call
  <2>5. \A v \in Worker : v # w => call'[v].at \notin {"write", "time", "finger", "token"}
    BY <2>1, <2>3, <2>4 DEF Only, At
  <2>6. tsa'["pub"] = (IF call'[w].file = "pub" /\ call'[w].open THEN Torn ELSE None)
    BY <2>1, <2>2, <2>4, <1>0 DEF TsaInv
  <2>7. call'[w].file = "pub" => tsa'["key"] = call'[w].key
    BY <2>1, <2>2, <2>4, <1>0 DEF TsaInv
  <2> QED BY <2>1, <2>2, <2>3, <2>5, <2>6, <2>7 DEF TsaInv, At
<1>4. ASSUME NEW w \in Worker, FlushKeyFile(w) PROVE TsaInv'
  <2>1. Only(w) /\ UNCHANGED tokens /\ At(w, "write") /\ tsa' = [tsa EXCEPT ![call[w].file] = call[w].key] /\ call[w].open
    BY <1>4, Alone DEF Step, FlushKeyFile
  <2>3. ~Settled /\ tokens = {} /\ \A v \in Worker : call[v].at \notin {"time", "finger", "token"}
    BY <2>1, VerdictAssumption DEF TsaInv, Settled
  <2>4. /\ call[w].file \in {"key", "pub"} /\ call[w].key \in Key
        /\ \A v \in Worker : At(v, "write") => v = w
    BY <2>1, <1>0 DEF TsaInv, Call, Holding, At
  <2>5. \A v \in Worker : v # w => call'[v].at \notin {"write", "time", "finger", "token"}
    BY <2>1, <2>3, <2>4 DEF Only, At
  <2>6. CASE call[w].file = "key"
    <3>1. call'[w].at = "write" /\ call'[w].file = "pub" /\ call'[w].key = call[w].key /\ call'[w].open = FALSE
      BY <2>6, <1>4, <1>0 DEF FlushKeyFile, Become, At, Call
    <3>2. tsa'["pub"] = None /\ tsa'["key"] = call[w].key
      BY <2>1, <2>6, <1>0 DEF TsaInv
    <3> QED BY <2>1, <2>3, <2>5, <3>1, <3>2 DEF TsaInv, At
  <2>7. CASE call[w].file = "pub"
    <3>1. call'[w].at = "time"
      BY <2>7, <1>4, <1>0 DEF FlushKeyFile, Become, Call
    <3>2. tsa'["pub"] = call[w].key /\ tsa'["key"] = call[w].key
      BY <2>1, <2>7, <1>0 DEF TsaInv
    <3> QED BY <2>1, <2>3, <2>4, <2>5, <3>1, <3>2 DEF TsaInv, At, Settled
  <2> QED BY <2>4, <2>6, <2>7
<1>5. ASSUME NEW w \in Worker, GenTime(w) \/ Fingerprint(w) PROVE TsaInv'
  <2>1. Only(w) /\ UNCHANGED <<tsa, tokens>> /\ call[w].at \in {"time", "finger"}
    BY <1>5, Alone DEF Step, GenTime, Fingerprint, At
  <2>2. call'[w].at = "finger" \/ (call'[w].at = "token" /\ call'[w].finger = tsa["pub"])
    <3>1. CASE GenTime(w)
      BY <3>1, <1>0 DEF GenTime, Become, Call
    <3>2. CASE Fingerprint(w)
      <4>1. call' = [call EXCEPT ![w] = [call[w] EXCEPT !.at = "token", !.finger = tsa["pub"]]] /\ call[w] \in Call
        BY <3>2, <1>0 DEF Fingerprint, Become
      <4> QED BY <4>1, <1>0 DEF Call
    <3> QED BY <1>5, <3>1, <3>2
  <2>3. Settled
    BY <2>1 DEF TsaInv
  <2> QED BY <2>1, <2>2, <2>3 DEF TsaInv, Only, At, Settled
<1>6. ASSUME NEW w \in Worker, SignToken(w) PROVE TsaInv'
  <2>1. Only(w) /\ UNCHANGED tsa /\ At(w, "token")
    BY <1>6, Alone DEF Step, SignToken
  <2>2. Settled /\ call[w].finger = tsa["key"] /\ tsa["key"] # Torn
    BY <2>1, VerdictAssumption DEF TsaInv, At, Settled
  <2>3. call'[w].at \in {"idle", "verify"}
    BY <1>6, <1>0 DEF SignToken, Goto, Become, Idle, Call
  <2>4. \A t \in tokens' : t.key = tsa["key"] /\ t.finger = tsa["key"]
    BY <1>6, <2>2 DEF SignToken, TsaInv
  <2> QED BY <2>1, <2>2, <2>3, <2>4 DEF TsaInv, Only, At, Settled
<1>7. CASE Replace \/ UNCHANGED vars
  BY <1>7 DEF Replace, vars, TsaInv, Settled, At
<1>8. CASE Crash
  <2>1. (\A w \in Worker : call'[w].at = "idle") /\ UNCHANGED <<tsa, tokens>> /\ tsa["pub"] # Torn
    BY <1>8 DEF Crash, Idle
  <2>2. Settled \/ tsa["pub"] = None
    BY <2>1 DEF TsaInv
  <2> QED BY <2>1, <2>2 DEF TsaInv, At, Settled
<1> QED
  BY <1>1, <1>2, <1>3, <1>4, <1>5, <1>6, <1>7, <1>8 DEF VNext, Step

\* What was created twice at once, or cut short, stays so.
LEMMA Spoiled == VTypeInv /\ [VNext]_vars /\ ~spoiled' => ~spoiled
<1> SUFFICES ASSUME VTypeInv, [VNext]_vars, ~spoiled' PROVE ~spoiled
  OBVIOUS
<1>1. ASSUME NEW w \in Worker, Step(w) PROVE ~spoiled
  BY <1>1 DEF Step, StartRevoke, ReadRegistry, StampRevocation, OpenRegistry, FlushRegistry, StartSign,
     Check, Load, StartStamp, InitTsa, OpenKeyFile, FlushKeyFile, GenTime, Fingerprint, SignToken, Verify
<1>2. CASE Replace \/ UNCHANGED vars
  BY <1>2 DEF Replace, vars
<1>3. CASE Crash
  BY <1>3 DEF Crash
<1> QED BY <1>1, <1>2, <1>3 DEF VNext

(* Every timestamp token ever given out verifies unless the creation of the   *)
(* TSA's files was spoiled: TsaInv, which says where the one handler that     *)
(* creates them stands, is inductive and gives it.                            *)
THEOREM TokensAlwaysVerify == VSpec => []TokensVerify
<1> DEFINE I == VTypeInv /\ (~spoiled => TsaInv)
<1>1. VInit => I
  BY InitType, InitTsaInv
<1>2. I /\ [VNext]_vars => I'
  BY StepType, StepTsa, Spoiled
<1>3. I => TokensVerify
  BY VerdictAssumption DEF TsaInv, Settled, TokensVerify, TokenValid
<1> QED BY <1>1, <1>2, <1>3, PTL DEF VSpec
-----------------------------------------------------------------------------
(* The registry.  Its steps: a handler takes its time, truncates the file,    *)
(* fills it; every other step of a handler leaves it alone.                   *)

Quiet(w) ==
    /\ Only(w) /\ UNCHANGED <<registry, again>>
    /\ call[w].at # "rewrite" /\ call'[w].at # "rewrite"

Takes(w) ==
    /\ Only(w) /\ UNCHANGED <<registry, again>>
    /\ ~Rewrites(call'[w]) /\ call'[w].time > clock

Truncates(w) ==
    /\ Only(w) /\ registry' = Torn /\ again' = again
    /\ call[w].at = "rewrite" /\ call'[w].serial = call[w].serial
    /\ call'[w].time = call[w].time /\ call'[w].read = registry /\ registry # Torn

Fills(w) ==
    /\ Only(w) /\ Rewrites(call[w]) /\ call'[w].at = "idle"
    /\ registry' = [call[w].read EXCEPT ![call[w].serial] = call[w].time]
    /\ again' = IF call[w].read[call[w].serial] = None THEN again ELSE again \union {call[w].serial}
    /\ call[w].read \in Registry

Stops == (\A w \in Worker : call'[w].at = "idle") /\ UNCHANGED <<registry, again>>
Rests == UNCHANGED <<registry, again, call>>

LEMMA QuietStep ==
    ASSUME VTypeInv, NEW w \in Worker, Step(w),
           ~StampRevocation(w), ~OpenRegistry(w), ~FlushRegistry(w)
    PROVE  Quiet(w)
<1>0. Only(w) /\ call \in [Worker -> Call] /\ call[w] \in Call
  BY Alone DEF VTypeInv, VerdictTypeOK
<1>1. CASE StartRevoke(w) \/ StartSign(w) \/ StartStamp(w)
  BY <1>0, <1>1 DEF Quiet, StartRevoke, StartSign, StartStamp, Begin, Become, At, Idle
<1>2. CASE ReadRegistry(w)
  <2>1. CASE registry = Torn
    BY <2>1, <1>0, <1>2 DEF Quiet, ReadRegistry, Become, At, Idle
  <2>2. CASE registry # Torn
    <3>1. call' = [call EXCEPT ![w] = [call[w] EXCEPT !.at = "stamp", !.read = registry]]
      BY <2>2, <1>2 DEF ReadRegistry, Become
    <3>2. call'[w].at = "stamp"
      BY <3>1, <1>0 DEF Call
    <3> QED BY <3>2, <1>0, <1>2 DEF Quiet, ReadRegistry, At
  <2> QED BY <2>1, <2>2
<1>3. CASE Check(w)
  BY <1>0, <1>3 DEF Quiet, Check, Goto, Become, At, Idle, Call
<1>4. CASE Load(w)
  BY <1>0, <1>4 DEF Quiet, Load, Become, At, Call
<1>5. CASE InitTsa(w)
  <2>1. call'[w].at \in {"time", "write"}
    BY <1>5, InitMoves
  <2> QED BY <2>1, <1>0, <1>5 DEF Quiet, InitTsa, At
<1>6. CASE OpenKeyFile(w)
  BY <1>0, <1>6 DEF Quiet, OpenKeyFile, Become, At, Call
<1>7. CASE FlushKeyFile(w)
  BY <1>0, <1>7 DEF Quiet, FlushKeyFile, Become, At, Call
<1>8. CASE GenTime(w)
  BY <1>0, <1>8 DEF Quiet, GenTime, Become, At, Call
<1>9. CASE Fingerprint(w)
  <2>1. call' = [call EXCEPT ![w] = [call[w] EXCEPT !.at = "token", !.finger = tsa["pub"]]]
    BY <1>9 DEF Fingerprint, Become
  <2>2. call'[w].at = "token"
    BY <2>1, <1>0 DEF Call
  <2> QED BY <2>2, <1>0, <1>9 DEF Quiet, Fingerprint, At
<1>10. CASE SignToken(w)
  BY <1>0, <1>10 DEF Quiet, SignToken, Goto, Become, At, Idle, Call
<1>11. CASE Verify(w)
  BY <1>0, <1>11 DEF Quiet, Verify, Become, At, Idle
<1> QED
  BY <1>1, <1>2, <1>3, <1>4, <1>5, <1>6, <1>7, <1>8, <1>9, <1>10, <1>11 DEF Step

LEMMA RegistryStep ==
    ASSUME VTypeInv, [VNext]_vars, ~lost'
    PROVE  /\ ~lost
           /\ \/ \E w \in Worker : Quiet(w) \/ Takes(w) \/ Truncates(w) \/ Fills(w)
              \/ Stops
              \/ Rests
<1>0. call \in [Worker -> Call] /\ clock \in Nat /\ \A w \in Worker : call[w] \in Call /\ Holding(call[w])
  BY Numbers DEF VTypeInv, VerdictTypeOK
<1>1. ASSUME NEW w \in Worker, Step(w)
      PROVE  ~lost /\ (Quiet(w) \/ Takes(w) \/ Truncates(w) \/ Fills(w))
  <2>0. Only(w)
    BY <1>1, Alone
  <2>1. CASE StampRevocation(w)
    <3>1. /\ call' = [call EXCEPT ![w] = [call[w] EXCEPT !.at = "rewrite", !.time = clock']]
          /\ clock' = clock + 1 /\ ~call[w].open
      BY <2>1, <1>0 DEF StampRevocation, Become, Now, At, Holding
    <3>2. ~call'[w].open /\ call'[w].time > clock
      BY <3>1, <1>0 DEF Call
    <3> QED BY <3>2, <2>0, <2>1 DEF StampRevocation, Takes, Rewrites
  <2>2. CASE OpenRegistry(w)
    <3>1. /\ call' = [call EXCEPT ![w] = [call[w] EXCEPT !.open = TRUE]] /\ call[w].at = "rewrite"
          /\ registry = call[w].read /\ call[w].read # Torn /\ ~lost
      BY <2>2, <1>0 DEF OpenRegistry, Become, At, Holding
    <3>2. call'[w].serial = call[w].serial /\ call'[w].time = call[w].time /\ call'[w].read = call[w].read
      BY <3>1, <1>0 DEF Call
    <3> QED BY <3>1, <3>2, <2>0, <2>2 DEF OpenRegistry, Truncates
  <2>3. CASE FlushRegistry(w)
    BY <2>3, <2>0, <1>0 DEF FlushRegistry, Fills, Rewrites, Become, At, Idle, Holding
  <2>4. CASE ~StampRevocation(w) /\ ~OpenRegistry(w) /\ ~FlushRegistry(w)
    <3>1. Quiet(w)
      BY <2>4, <1>1, QuietStep
    <3>2. ~lost
      BY <2>4, <1>1 DEF Step, StartRevoke, ReadRegistry, StartSign, Check, Load, StartStamp, InitTsa,
         OpenKeyFile, FlushKeyFile, GenTime, Fingerprint, SignToken, Verify
    <3> QED BY <3>1, <3>2
  <2> QED BY <2>1, <2>2, <2>3, <2>4
<1>2. CASE Crash
  BY <1>2 DEF Crash, Stops, Idle
<1>3. CASE Replace \/ UNCHANGED vars
  BY <1>3 DEF Replace, vars, Rests
<1> QED BY <1>1, <1>2, <1>3 DEF VNext

LEMMA StepWrite == VTypeInv /\ WriteInv /\ [VNext]_vars /\ ~lost' => WriteInv'
<1> SUFFICES ASSUME VTypeInv, WriteInv, [VNext]_vars, ~lost' PROVE WriteInv'
  OBVIOUS
<1>1. ASSUME NEW w \in Worker, Quiet(w) \/ Takes(w) PROVE WriteInv'
  <2>1. \A v \in Worker : Rewrites(call'[v]) => Rewrites(call[v])
    BY <1>1 DEF Quiet, Takes, Only, Rewrites
  <2> QED BY <2>1, <1>1 DEF Quiet, Takes, WriteInv
<1>2. ASSUME NEW w \in Worker, Truncates(w) PROVE WriteInv'
  <2>1. \A v \in Worker : v # w => ~Rewrites(call'[v])
    BY <1>2 DEF Truncates, Only, WriteInv
  <2> QED BY <2>1, <1>2 DEF Truncates, WriteInv
<1>3. ASSUME NEW w \in Worker, Fills(w) PROVE WriteInv'
  <2>1. \A v \in Worker : ~Rewrites(call'[v])
    <3>1. ~Rewrites(call'[w])
      BY <1>3 DEF Fills, Rewrites
    <3>2. ASSUME NEW v \in Worker, v # w PROVE ~Rewrites(call'[v])
      BY <1>3, <3>2 DEF Fills, Only, WriteInv
    <3> QED BY <3>1, <3>2
  <2> QED BY <2>1 DEF WriteInv
<1>4. CASE Stops
  BY <1>4 DEF Stops, WriteInv, Rewrites
<1>5. CASE Rests
  BY <1>5 DEF Rests, WriteInv
<1> QED BY <1>1, <1>2, <1>3, <1>4, <1>5, RegistryStep

(* A certificate that was revoked at t stays so, unless it is revoked again.  *)
LEMMA KeepsStays ==
    ASSUME VTypeInv, WriteInv, [VNext]_vars, ~lost', NEW s \in Serial, NEW t,
           Keeps(registry, call, again, s, t)
    PROVE  Keeps(registry', call', again', s, t)
<1>1. ASSUME NEW w \in Worker, Quiet(w) \/ Takes(w) PROVE Keeps(registry', call', again', s, t)
  <2>1. \A v \in Worker : Rewrites(call'[v]) => Rewrites(call[v]) /\ call'[v] = call[v]
    BY <1>1 DEF Quiet, Takes, Only, Rewrites
  <2> QED BY <2>1, <1>1 DEF Quiet, Takes, Keeps
<1>2. ASSUME NEW w \in Worker, Truncates(w) PROVE Keeps(registry', call', again', s, t)
  <2>1. \A v \in Worker : v # w => ~Rewrites(call'[v])
    BY <1>2 DEF Truncates, Only, WriteInv
  <2> QED BY <2>1, <1>2 DEF Truncates, Keeps
<1>3. ASSUME NEW w \in Worker, Fills(w) PROVE Keeps(registry', call', again', s, t)
  <2>1. \A v \in Worker : ~Rewrites(call'[v])
    <3>1. ~Rewrites(call'[w])
      BY <1>3 DEF Fills, Rewrites
    <3>2. ASSUME NEW v \in Worker, v # w PROVE ~Rewrites(call'[v])
      BY <1>3, <3>2 DEF Fills, Only, WriteInv
    <3> QED BY <3>1, <3>2
  <2>2. ASSUME s \notin again' PROVE StaysIn(registry', s, t)
    <3>1. StaysIn(call[w].read, s, t)
      BY <2>2, <1>3 DEF Fills, Keeps
    <3>2. s # call[w].serial
      BY <3>1, <2>2, <1>3 DEF Fills, StaysIn
    <3> QED BY <3>1, <3>2, <1>3 DEF Fills, StaysIn, Registry
  <2> QED BY <2>1, <2>2 DEF Keeps
<1>4. CASE Stops
  BY <1>4 DEF Stops, Keeps, Rewrites
<1>5. CASE Rests
  BY <1>5 DEF Rests, Keeps
<1> QED BY <1>1, <1>2, <1>3, <1>4, <1>5, RegistryStep

(* Who takes the time of a revocation later than t is behind t.               *)
LEMMA BehindStays ==
    ASSUME VTypeInv, [VNext]_vars, ~lost', NEW s, NEW t \in Nat, t <= clock, Behind(call, s, t)
    PROVE  Behind(call', s, t)
<1>0. clock \in Nat /\ \A w \in Worker : call'[w].time \in Nat \/ ~Takes(w)
  <2>1. clock \in Nat
    BY Numbers
  <2>2. VTypeInv'
    BY StepType
  <2>3. \A w \in Worker : call'[w].time \in Nat
    BY <2>2, VerdictAssumption DEF VTypeInv, VerdictTypeOK, Call, Instant
  <2> QED BY <2>1, <2>3
<1>1. ASSUME NEW w \in Worker, Takes(w) PROVE Behind(call', s, t)
  <2>1. call'[w].time > t
    BY <1>0, <1>1 DEF Takes
  <2> QED BY <2>1, <1>1 DEF Takes, Only, Behind
<1>2. ASSUME NEW w \in Worker, Quiet(w) \/ Truncates(w) \/ Fills(w) PROVE Behind(call', s, t)
  <2>1. call'[w].at = "rewrite" => call[w].at = "rewrite" /\ call'[w].serial = call[w].serial /\ call'[w].time = call[w].time
    BY <1>2 DEF Quiet, Truncates, Fills
  <2>2. Only(w)
    BY <1>2 DEF Quiet, Truncates, Fills
  <2> QED BY <2>1, <2>2 DEF Only, Behind
<1>3. CASE Stops \/ Rests
  BY <1>3 DEF Stops, Rests, Behind
<1> QED BY <1>1, <1>2, <1>3, RegistryStep

(* So that a certificate not revoked at t stays clear of t.                   *)
LEMMA ClearStays ==
    ASSUME VTypeInv, WriteInv, [VNext]_vars, ~lost', NEW s \in Serial, NEW t,
           Behind(call, s, t), Clear(registry, call, s, t)
    PROVE  Clear(registry', call', s, t)
<1>1. ASSUME NEW w \in Worker, Quiet(w) \/ Takes(w) PROVE Clear(registry', call', s, t)
  <2>1. \A v \in Worker : Rewrites(call'[v]) => Rewrites(call[v]) /\ call'[v] = call[v]
    BY <1>1 DEF Quiet, Takes, Only, Rewrites
  <2> QED BY <2>1, <1>1 DEF Quiet, Takes, Clear
<1>2. ASSUME NEW w \in Worker, Truncates(w) PROVE Clear(registry', call', s, t)
  <2>1. \A v \in Worker : v # w => ~Rewrites(call'[v])
    BY <1>2 DEF Truncates, Only, WriteInv
  <2> QED BY <2>1, <1>2 DEF Truncates, Clear
<1>3. ASSUME NEW w \in Worker, Fills(w) PROVE Clear(registry', call', s, t)
  <2>1. \A v \in Worker : ~Rewrites(call'[v])
    <3>1. ~Rewrites(call'[w])
      BY <1>3 DEF Fills, Rewrites
    <3>2. ASSUME NEW v \in Worker, v # w PROVE ~Rewrites(call'[v])
      BY <1>3, <3>2 DEF Fills, Only, WriteInv
    <3> QED BY <3>1, <3>2
  <2>2. LaterIn(registry', s, t)
    <3>1. LaterIn(call[w].read, s, t)
      BY <1>3 DEF Fills, Clear
    <3>2. call[w].serial = s => call[w].time > t
      BY <1>3 DEF Fills, Rewrites, Behind
    <3> QED BY <3>1, <3>2, <1>3 DEF Fills, LaterIn, Registry
  <2> QED BY <2>1, <2>2 DEF Clear
<1>4. CASE Stops
  BY <1>4 DEF Stops, Clear, Rewrites
<1>5. CASE Rests
  BY <1>5 DEF Rests, Clear
<1> QED BY <1>1, <1>2, <1>3, <1>4, <1>5, RegistryStep
-----------------------------------------------------------------------------
(* The packages: where each comes from, and what it keeps.                    *)

\* A timestamp is carried from the handler that took it into the package.
Same(p, c) == p.serial = c.serial /\ p.time = c.time /\ p.already = c.already /\ p.raced = c.raced

Made(p) == \E w \in Worker : /\ Stamped(call[w]) /\ Same(p, call[w])
                            /\ p.reported = "none" /\ p.token \in tokens'
Judged(p) == \E q \in packages : /\ Same(p, q) /\ p.cert = q.cert /\ p.token = q.token
                                 /\ registry # Torn
                                 /\ p.reported = "accepted" => Accepts(q)

LEMMA PackageStep ==
    ASSUME VTypeInv, [VNext]_vars, NEW p \in packages'
    PROVE  p \in packages \/ Made(p) \/ Judged(p)
<1>1. ASSUME NEW w \in Worker, SignToken(w), p \notin packages PROVE Made(p)
  <2>1. /\ Stamped(call[w]) /\ Same(p, call[w])
        /\ p.reported = "none" /\ p.token \in tokens'
    BY <1>1 DEF SignToken, At, Stamped, Same
  <2> QED BY <2>1 DEF Made
<1>2. ASSUME NEW w \in Worker, Verify(w), p \notin packages PROVE Judged(p)
  <2>1. registry # Torn
    BY <1>2 DEF Verify
  <2>2. PICK q \in packages : p = [q EXCEPT !.reported = IF Accepts(q) THEN "accepted" ELSE "rejected"]
    BY <1>2 DEF Verify
  <2>3. q \in Package
    BY DEF VTypeInv, VerdictTypeOK
  <2>4. /\ p.serial = q.serial /\ p.time = q.time /\ p.already = q.already /\ p.raced = q.raced
        /\ p.cert = q.cert /\ p.token = q.token
        /\ p.reported = IF Accepts(q) THEN "accepted" ELSE "rejected"
    BY <2>2, <2>3 DEF Package
  <2>5. p.reported = "accepted" => Accepts(q)
    BY <2>4
  <2> QED BY <2>1, <2>4, <2>5 DEF Same, Judged
<1>3. ASSUME NEW w \in Worker, Step(w), ~SignToken(w), ~Verify(w) PROVE p \in packages
  BY <1>3 DEF Step, StartRevoke, ReadRegistry, StampRevocation, OpenRegistry, FlushRegistry, StartSign,
     Check, Load, StartStamp, InitTsa, OpenKeyFile, FlushKeyFile, GenTime, Fingerprint
<1>4. CASE Replace \/ UNCHANGED vars
  BY <1>4 DEF Replace, vars
<1>5. CASE Crash
  BY <1>5 DEF Crash
<1> QED BY <1>1, <1>2, <1>3, <1>4, <1>5 DEF VNext

LEMMA StampedStep ==
    ASSUME VTypeInv, [VNext]_vars, NEW w \in Worker, Stamped(call'[w])
    PROVE  \/ Stamped(call[w]) /\ Same(call'[w], call[w])
           \/ /\ GenTime(w)
              /\ call'[w].serial = call[w].serial /\ call'[w].time = clock'
              /\ call'[w].already => registry # Torn /\ registry[call[w].serial] # None
              /\ ~call'[w].raced => ~UnderRevocation(call[w].serial)
<1>0. call \in [Worker -> Call] /\ call[w] \in Call
  BY DEF VTypeInv, VerdictTypeOK
<1>1. ASSUME NEW v \in Worker, Step(v), v # w PROVE Stamped(call[w]) /\ Same(call'[w], call[w])
  BY <1>1, Alone DEF Only, Same
<1>2. CASE Fingerprint(w)
  <2>1. call' = [call EXCEPT ![w] = [call[w] EXCEPT !.at = "token", !.finger = tsa["pub"]]] /\ call[w].at = "finger"
    BY <1>2 DEF Fingerprint, Become, At
  <2>2. Same(call'[w], call[w])
    BY <2>1, <1>0 DEF Call, Same
  <2> QED BY <2>1, <2>2 DEF Stamped, Same
<1>3. CASE GenTime(w)
  <2> DEFINE al == call[w].serial # None /\ registry # Torn /\ registry[call[w].serial] # None
             ra == UnderRevocation(call[w].serial)
  <2>1. call' = [call EXCEPT ![w] = [call[w] EXCEPT !.at = "finger", !.time = clock', !.already = al, !.raced = ra]]
    BY <1>3 DEF GenTime, Become
  <2> HIDE DEF ra
  <2>2. call'[w].serial = call[w].serial /\ call'[w].time = clock' /\ call'[w].already = al /\ call'[w].raced = ra
    <3> HIDE DEF al
    <3> QED BY <2>1, <1>0 DEF Call
  <2> QED BY <2>2, <1>3 DEF ra
<1>4. ASSUME Step(w), ~Fingerprint(w), ~GenTime(w) PROVE FALSE
  <2>1. call'[w].at \in {"finger", "token"}
    BY DEF Stamped
  <2>2. CASE StampRevocation(w)
    BY <2>1, <2>2, <1>0 DEF StampRevocation, Become, Call
  <2>3. CASE OpenRegistry(w)
    BY <2>1, <2>3, <1>0 DEF OpenRegistry, Become, Call, At
  <2>4. CASE FlushRegistry(w)
    BY <2>1, <2>4, <1>0 DEF FlushRegistry, Become, Idle
  <2>5. CASE StartRevoke(w) \/ StartSign(w) \/ StartStamp(w)
    BY <2>1, <2>5, <1>0 DEF StartRevoke, StartSign, StartStamp, Begin, Become, Idle
  <2>6. CASE ReadRegistry(w)
    <3>1. CASE registry = Torn
      BY <3>1, <2>1, <2>6, <1>0 DEF ReadRegistry, Become, Idle
    <3>2. CASE registry # Torn
      <4>1. call' = [call EXCEPT ![w] = [call[w] EXCEPT !.at = "stamp", !.read = registry]]
        BY <3>2, <2>6 DEF ReadRegistry, Become
      <4> QED BY <4>1, <2>1, <1>0 DEF Call
    <3> QED BY <3>1, <3>2
  <2>7. CASE Check(w)
    BY <2>1, <2>7, <1>0 DEF Check, Goto, Become, Idle, Call
  <2>8. CASE Load(w)
    BY <2>1, <2>8, <1>0 DEF Load, Become, Call
  <2>9. CASE InitTsa(w)
    <3>1. call'[w].at \in {"time", "write"}
      BY <2>9, InitMoves
    <3> QED BY <3>1, <2>1
  <2>10. CASE OpenKeyFile(w)
    BY <2>1, <2>10, <1>0 DEF OpenKeyFile, Become, Call, At
  <2>11. CASE FlushKeyFile(w)
    BY <2>1, <2>11, <1>0 DEF FlushKeyFile, Become, Call, At
  <2>12. CASE SignToken(w)
    BY <2>1, <2>12, <1>0 DEF SignToken, Goto, Become, Idle, Call
  <2>13. CASE Verify(w)
    BY <2>1, <2>13, <1>0 DEF Verify, Become, Idle
  <2> QED
    BY <1>4, <2>2, <2>3, <2>4, <2>5, <2>6, <2>7, <2>8, <2>9, <2>10, <2>11, <2>12, <2>13 DEF Step
<1>5. CASE Replace \/ UNCHANGED vars
  BY <1>5 DEF Replace, vars, Same
<1>6. CASE Crash
  BY <1>6 DEF Crash, Stamped, Idle
<1> QED BY <1>1, <1>2, <1>3, <1>4, <1>5, <1>6 DEF VNext
-----------------------------------------------------------------------------
(* The verdicts.                                                              *)

LEMMA InitReg == VInit => RegInv
BY DEF VInit, RegInv, WriteInv, Rewrites, Stamped, Idle

\* What RegInv says of a handler or package x.
Held(reg, calls, ag, x) ==
    /\ x.already => Keeps(reg, calls, ag, x.serial, x.time)
    /\ ~x.raced => Behind(calls, x.serial, x.time)

LEMMA HeldStays ==
    ASSUME VTypeInv, RegInv, [VNext]_vars, ~lost', NEW x, Held(registry, call, again, x),
           x.serial \in Serial, x.time \in Nat, x.time <= clock, NEW y, Same(y, x)
    PROVE  Held(registry', call', again', y)
<1>1. x.already => Keeps(registry', call', again', x.serial, x.time)
  BY KeepsStays DEF Held, RegInv
<1>2. ~x.raced => Behind(call', x.serial, x.time)
  BY BehindStays DEF Held
<1> QED BY <1>1, <1>2 DEF Held, Same

LEMMA StepReg == VTypeInv /\ ClockInv /\ RegInv /\ [VNext]_vars /\ ~lost' => RegInv'
<1> SUFFICES ASSUME VTypeInv, ClockInv, RegInv, [VNext]_vars, ~lost' PROVE RegInv'
  OBVIOUS
<1>0. /\ clock \in Nat /\ registry \in Registry \union {Torn}
      /\ \A w \in Worker : call[w] \in Call /\ call[w].time \in Nat /\ call[w].time <= clock
      /\ \A p \in packages : p.serial \in Serial /\ p.time \in Nat /\ p.time <= clock
  BY Numbers DEF VTypeInv, VerdictTypeOK, Package, ClockInv
<1>1. WriteInv'
  BY StepWrite DEF RegInv
<1>2. ASSUME NEW w \in Worker, Stamped(call[w])
      PROVE  Held(registry, call, again, call[w]) /\ call[w].serial \in Serial
  BY <1>0, <1>2 DEF RegInv, Held, Stamped, Call
<1>3. \A p \in packages : Held(registry, call, again, p)
  BY DEF RegInv, Held
<1>4. ASSUME NEW w \in Worker, Stamped(call'[w]) PROVE Held(registry', call', again', call'[w])
  <2>1. CASE Stamped(call[w]) /\ Same(call'[w], call[w])
    BY <2>1, <1>0, <1>2, HeldStays
  <2>2. CASE /\ GenTime(w)
             /\ call'[w].serial = call[w].serial /\ call'[w].time = clock'
             /\ call'[w].already => registry # Torn /\ registry[call[w].serial] # None
             /\ ~call'[w].raced => ~UnderRevocation(call[w].serial)
    <3>1. clock' = clock + 1 /\ UNCHANGED <<registry, again>> /\ call[w].serial \in Serial
      BY <2>2, <1>4, <1>0 DEF GenTime, Now, Stamped, Call
    <3>2. Only(w) /\ call'[w].at # "rewrite"
      BY <2>2, <1>4, Alone DEF Step, Stamped
    <3>3. call'[w].already => Keeps(registry', call', again', call'[w].serial, call'[w].time)
      <4> SUFFICES ASSUME call'[w].already
                   PROVE  Keeps(registry', call', again', call'[w].serial, call'[w].time)
        OBVIOUS
      <4>1. registry # Torn /\ registry[call[w].serial] # None
        BY <2>2
      <4>2. registry[call[w].serial] <= clock /\ registry[call[w].serial] \in Nat
        BY <4>1, <3>1, <1>0, Times DEF ClockInv, PastIn
      <4>3. StaysIn(registry, call[w].serial, clock')
        BY <4>1, <4>2, <3>1, <1>0 DEF StaysIn
      <4>4. \A v \in Worker : ~Rewrites(call'[v])
        BY <4>1, <3>1, <1>1 DEF WriteInv
      <4> QED BY <4>3, <4>4, <3>1, <2>2 DEF Keeps
    <3>4. ~call'[w].raced => Behind(call', call'[w].serial, call'[w].time)
      BY <2>2, <3>2 DEF UnderRevocation, Behind, Only, At
    <3> QED BY <3>3, <3>4 DEF Held
  <2> QED BY <2>1, <2>2, <1>4, StampedStep
<1>5. ASSUME NEW p \in packages' PROVE Held(registry', call', again', p)
  <2>1. CASE p \in packages
    BY <2>1, <1>0, <1>3, HeldStays DEF Same
  <2>2. CASE Made(p)
    BY <2>2, <1>0, <1>2, HeldStays DEF Made
  <2>3. CASE Judged(p)
    <3>1. PICK q \in packages : /\ Same(p, q) /\ p.cert = q.cert /\ p.token = q.token
                                /\ registry # Torn
                                /\ p.reported = "accepted" => Accepts(q)
      BY <2>3 DEF Judged
    <3> QED BY <3>1, <1>0, <1>3, HeldStays
  <2> QED BY <2>1, <2>2, <2>3, PackageStep
<1> QED BY <1>1, <1>4, <1>5 DEF RegInv, Held

LEMMA InitAccept == VInit => AcceptInv
BY DEF VInit, AcceptInv

LEMMA StepAccept ==
    VTypeInv /\ ClockInv /\ (~lost => RegInv) /\ AcceptInv /\ [VNext]_vars => AcceptInv'
<1> SUFFICES ASSUME VTypeInv, ClockInv, ~lost => RegInv, AcceptInv, [VNext]_vars PROVE AcceptInv'
  OBVIOUS
<1>0. \A p \in packages : p.serial \in Serial /\ p.time \in Nat
  BY Numbers DEF VTypeInv, VerdictTypeOK, Package
<1>1. tokens \subseteq tokens'
  BY DEF VNext, Step, vars, StartRevoke, ReadRegistry, StampRevocation, OpenRegistry, FlushRegistry, StartSign,
     Check, Load, StartStamp, InitTsa, OpenKeyFile, FlushKeyFile, GenTime, Fingerprint, SignToken, Verify,
     Replace, Crash
<1>2. ASSUME NEW p \in packages' PROVE p.token \in tokens' /\ (p.reported = "accepted" => p.cert = p.serial)
  <2>1. CASE p \in packages
    BY <2>1, <1>1 DEF AcceptInv
  <2>2. CASE Made(p)
    BY <2>2 DEF Made
  <2>3. CASE Judged(p)
    <3>1. PICK q \in packages : /\ Same(p, q) /\ p.cert = q.cert /\ p.token = q.token
                                /\ registry # Torn
                                /\ p.reported = "accepted" => Accepts(q)
      BY <2>3 DEF Judged
    <3>2. q.token \in tokens
      BY DEF AcceptInv
    <3>3. p.reported = "accepted" => p.cert = p.serial
      BY <3>1 DEF Same, Accepts, TrustedChain
    <3> QED BY <3>1, <3>2, <3>3, <1>1
  <2> QED BY <2>1, <2>2, <2>3, PackageStep
<1>3. ASSUME ~lost', NEW p \in packages', p.reported = "accepted", ~p.raced
      PROVE  Clear(registry', call', p.serial, p.time)
  <2>0. RegInv /\ ~lost
    BY <1>3, RegistryStep
  <2>1. CASE p \in packages
    <3>1. Behind(call, p.serial, p.time) /\ Clear(registry, call, p.serial, p.time)
      BY <2>0, <2>1, <1>3 DEF RegInv, AcceptInv
    <3> QED BY <3>1, <2>0, <2>1, <1>0, <1>3, ClearStays DEF RegInv
  <2>2. CASE Judged(p)
    <3>0. PICK q \in packages : /\ Same(p, q) /\ p.cert = q.cert /\ p.token = q.token
                                /\ registry # Torn
                                /\ p.reported = "accepted" => Accepts(q)
      BY <2>2 DEF Judged
    <3>1. Same(p, q) /\ registry # Torn /\ Accepts(q)
      BY <3>0, <1>3
    <3>2. q.serial \in Serial /\ q.time \in Nat /\ registry \in Registry
      BY <1>0, <3>1 DEF VTypeInv, VerdictTypeOK
    <3>3. LaterIn(registry, q.serial, q.time)
      BY <3>1, <3>2, Times DEF LaterIn, Accepts, TrustedChain, RevokedAt
    <3>4. Clear(registry, call, q.serial, q.time)
      BY <3>1, <3>3, <2>0 DEF Clear, RegInv, WriteInv
    <3>5. Behind(call, q.serial, q.time)
      BY <3>1, <2>0, <1>3 DEF RegInv, Same
    <3>6. Clear(registry', call', q.serial, q.time)
      BY <3>2, <3>4, <3>5, <2>0, <1>3, ClearStays DEF RegInv
    <3> QED BY <3>6, <3>1 DEF Same
  <2>3. CASE Made(p)
    BY <2>3, <1>3 DEF Made
  <2> QED BY <2>1, <2>2, <2>3, <1>3, PackageStep
<1> QED BY <1>2, <1>3 DEF AcceptInv

LEMMA InitVerdict == VInit => VInv
BY InitType, InitClock, InitAccept, InitTsaInv, InitReg DEF VInv

LEMMA StepVerdict == VInv /\ [VNext]_vars => VInv'
<1> SUFFICES ASSUME VInv, [VNext]_vars PROVE VInv'
  OBVIOUS
<1>1. VTypeInv' /\ ClockInv'
  BY StepType, StepClock DEF VInv
<1>2. AcceptInv'
  BY StepAccept DEF VInv
<1>3. ~spoiled' => TsaInv'
  BY <1>1, StepTsa, Spoiled DEF VInv
<1>4. ~lost' => RegInv'
  BY StepReg, RegistryStep DEF VInv
<1> QED BY <1>1, <1>2, <1>3, <1>4 DEF VInv

(* "Revocation after signing is accepted with trusted timestamp"              *)
(* (test_services.py 243), always: an accepted package keeps its verdict      *)
(* whatever is revoked after its timestamp, because every later entry of the  *)
(* registry for it carries a later time.                                      *)
THEOREM AcceptedAlwaysStays == VSpec => []AcceptedStays
<1>1. VInv => AcceptedStays
  <2> SUFFICES ASSUME VInv, ~spoiled, ~lost, registry # Torn,
                      NEW p \in packages, p.reported = "accepted", ~p.raced, Epoch(p.cert) = epoch
               PROVE  Accepts(p)
    BY DEF AcceptedStays
  <2>1. p.cert = p.serial /\ p.token \in tokens /\ LaterIn(registry, p.serial, p.time)
    BY DEF VInv, AcceptInv, Clear
  <2>2. TokenValid(p.token)
    BY <2>1, VerdictAssumption DEF VInv, TsaInv, Settled, TokenValid
  <2>3. p.serial \in Serial /\ p.time \in Nat /\ registry \in Registry
    BY Numbers DEF VInv, VTypeInv, VerdictTypeOK, Package
  <2>4. ~RevokedAt(p.serial, p.time)
    BY <2>1, <2>3, Times DEF LaterIn, RevokedAt
  <2> QED BY <2>1, <2>2, <2>4 DEF Accepts, TrustedChain
<1> QED BY <1>1, InitVerdict, StepVerdict, PTL DEF VSpec

(* A package timestamped after its certificate was revoked is never accepted, *)
(* as long as the certificate is not revoked a second time.                   *)
THEOREM RevokedOnceAlwaysRejected == VSpec => []RevokedOnceRejected
<1>1. VInv => RevokedOnceRejected
  BY DEF VInv, RegInv, Keeps, StaysIn, RevokedOnceRejected, Accepts, TrustedChain, RevokedAt
<1> QED BY <1>1, InitVerdict, StepVerdict, PTL DEF VSpec
=============================================================================
