-------------------------- MODULE PadesSigningProofs --------------------------
(***************************************************************************)
(* Theorems about the demo PKI composed with the PAdES engine: the         *)
(* certificate profiles and the check that decides whether the demo files  *)
(* are created again, the types, the records of the demo certificate, and  *)
(* what a signed PDF holds: evidence, stored level and long-term checks.   *)
(***************************************************************************)
EXTENDS PadesSigning, SequenceTheorems, TLAPS

-----------------------------------------------------------------------------
(* Profiles *)

(* The validator of a role accepts what the builders make for that role and   *)
(* for no other, so a certificate in the wrong file is found out and a        *)
(* generated one is never generated again (pki_service.py 122-246, 562-764).  *)
THEOREM ProfilesTellRoles == \A r, q \in Role : ValidAs(Built(r), q) <=> r = q
<1> SUFFICES ASSUME NEW r \in Role, NEW q \in Role PROVE ValidAs(Built(r), q) <=> r = q
  OBVIOUS
<1>1. CASE r = "root"
  BY <1>1 DEF Role, ValidAs, Built, BuiltCa, ValidSigner, ValidCa, ValidService, Identified, Published
<1>2. CASE r = "intermediate"
  BY <1>2 DEF Role, ValidAs, Built, BuiltCa, ValidSigner, ValidCa, ValidService, Identified, Published
<1>3. CASE r = "signer"
  BY <1>3 DEF Role, ValidAs, Built, BuiltUser, ValidSigner, ValidCa, ValidService, Identified, Published
<1>4. CASE r = "tsa"
  BY <1>4 DEF Role, ValidAs, Built, BuiltService, ValidSigner, ValidCa, ValidService, Identified, Published
<1>5. CASE r = "ocsp"
  BY <1>5 DEF Role, ValidAs, Built, BuiltService, ValidSigner, ValidCa, ValidService, Identified, Published
<1> QED
  BY <1>1, <1>2, <1>3, <1>4, <1>5 DEF Role

\* The name shown for a generated certificate is its role.
LEMMA NamesAreRoles == \A r \in Role : ProfileName(Built(r)) = r
BY DEF Role, ProfileName, Built, BuiltCa, BuiltUser, BuiltService

LEMMA CertRoles ==
    /\ CertFile \subseteq File
    /\ \A f \in CertFile : RoleOf[f] \in Role
BY DEF CertFile, File, Files, RoleOf, Role

LEMMA FileFacts ==
    /\ \A i \in 1 .. 10 : Files[i] \in File
    /\ \A f \in File : \E i \in 1 .. 10 : f = Files[i]
    /\ \A i, j \in 1 .. 10 : Files[i] = Files[j] => i = j
    /\ Len(Files) = 10 /\ Files[10] = "ocspCert" /\ "ocspCert" \in CertFile
BY DEF File, Files, CertFile

\* A PKI of one generation passes the check.
LEMMA WholeIsCurrent ==
    ASSUME NEW g \in Gen, \A f \in File : disk[f] = g
    PROVE  Current
<1>1. \A f \in File : disk[f] # None /\ disk[f] # Torn
  BY PkiAssumption
<1>2. \A f \in CertFile : ValidAs(Built(RoleOf[f]), RoleOf[f])
  BY ProfilesTellRoles, CertRoles
<1> QED
  BY <1>1, <1>2, CertRoles DEF Current, Checked, HasProfile

LEMMA WrittenCurrent == WrittenIsCurrent
BY WholeIsCurrent, NamesAreRoles, CertRoles DEF WrittenIsCurrent

(* Whatever the handlers have done, a PKI that was written in full passes the *)
(* check that would write it again, so creating and describing it never call  *)
(* each other for ever (pki_service.py 265-318).                              *)
THEOREM WrittenStaysCurrent == PadesSpec => []WrittenIsCurrent
<1>1. WrittenIsCurrent
  BY WrittenCurrent
<1> QED
  BY <1>1, PTL
-----------------------------------------------------------------------------
(* The inductive invariant behind CurrentIsWhole.  While a PKI is written,    *)
(* the files behind the writer are of its generation; and as long as no       *)
(* replacement was cut short, the last file holds a certificate only if the   *)
(* PKI is whole, or is being replaced.                                        *)

Holds(g) == \A f \in File : disk[f] = g
Whole == \E g \in Gen : Holds(g)
LastWritten == disk["ocspCert"] \in Gen
NoWriter == \A w \in Worker : ~At(w, "write")

CallsInv ==
    /\ disk \in [File -> Gen \union {None, Torn}]
    /\ call \in [Worker -> Call]
    /\ \A w \in Worker : At(w, "write") => call[w].gen \in Gen
OneWriter == \A v, w \in Worker : At(v, "write") /\ At(w, "write") => v = w
WriterInv ==
    \A w \in Worker : At(w, "write") =>
        /\ \A i \in 1 .. 10 : i < call[w].next => disk[Files[i]] = call[w].gen
        /\ ~cut /\ ~call[w].replaces => ~LastWritten
RestInv == NoWriter /\ ~cut /\ LastWritten => Whole
PkiInv == CallsInv /\ OneWriter /\ WriterInv /\ RestInv

LEMMA CurrentWritten == ASSUME CallsInv, Current PROVE LastWritten
BY FileFacts, CertRoles DEF CallsInv, Current, Checked, LastWritten

LEMMA InvImplies == ASSUME PkiInv PROVE CurrentIsWhole
BY CurrentWritten DEF PkiInv, RestInv, NoWriter, CurrentIsWhole, Undisturbed, Whole, Holds

LEMMA IdleTyped == Idle \in Call /\ Idle.at = "idle"
BY FileFacts DEF Idle, Call, Point, Operation

LEMMA InitInv == PkiInit => PkiInv
<1> SUFFICES ASSUME PkiInit PROVE PkiInv
  OBVIOUS
<1>1. CallsInv
  BY IdleTyped DEF PkiInit, CallsInv, At
<1>2. NoWriter
  BY IdleTyped DEF PkiInit, NoWriter, At
<1>3. ~LastWritten
  BY FileFacts, CertRoles, PkiAssumption DEF PkiInit, LastWritten
<1> QED
  BY <1>1, <1>2, <1>3 DEF PkiInv, OneWriter, WriterInv, RestInv, NoWriter

(* Handlers that are not writing, before and after.                           *)
LEMMA OtherStep ==
    ASSUME PkiInv, NEW w \in Worker, ~At(w, "write"),
           NEW c \in Call, c.at # "write", Become(w, c),
           disk' = disk, cut' = cut
    PROVE  PkiInv'
<1>1. \A v \in Worker : v # w => call'[v] = call[v]
  BY DEF PkiInv, CallsInv, Become
<1>2. call'[w] = c /\ call' \in [Worker -> Call]
  BY DEF PkiInv, CallsInv, Become
<1>3. \A v \in Worker : At(v, "write")' <=> At(v, "write")
  BY <1>1, <1>2 DEF At
<1>4. CallsInv'
  BY <1>1, <1>2, <1>3 DEF PkiInv, CallsInv, At
<1>5. OneWriter'
  BY <1>3 DEF PkiInv, OneWriter
<1>6. WriterInv'
  BY <1>1, <1>3 DEF PkiInv, WriterInv, LastWritten
<1>7. RestInv'
  BY <1>3 DEF PkiInv, RestInv, NoWriter, LastWritten, Whole, Holds
<1> QED
  BY <1>4, <1>5, <1>6, <1>7 DEF PkiInv

LEMMA SameCalls ==
    ASSUME PkiInv, call' = call, disk' = disk, cut' = cut PROVE PkiInv'
BY DEF PkiInv, CallsInv, OneWriter, WriterInv, RestInv, NoWriter, LastWritten, Whole, Holds, At

LEMMA Concatenation == ASSUME NEW S, NEW s \in Seq(S), NEW t \in Seq(S) PROVE s \o t \in Seq(S)
OBVIOUS

(* A handler that begins to create the PKI.                                   *)
LEMMA GenerateStep ==
    ASSUME PkiInv, NEW w \in Worker, ~At(w, "write"),
           NEW c \in Call, NEW fr \in Seq(Frame), Generate(w, c, fr),
           disk' = disk, cut' = cut
    PROVE  PkiInv'
<1>1. CASE \E v \in Worker : At(v, "write")
  <2>1. [Idle EXCEPT !.at = "stuck"] \in Call
    BY IdleTyped DEF Call, Point
  <2> QED
    BY <1>1, <2>1, OtherStep, IdleTyped DEF Generate, Call
<1>2. CASE ~ \E v \in Worker : At(v, "write")
  <2>1. PICK g \in Fresh :
            Become(w, [c EXCEPT !.at = "write", !.gen = g, !.next = 1, !.open = FALSE,
                                !.replaces = Current, !.back = fr \o c.back])
    BY <1>2 DEF Generate
  <2>2. g \in Gen
    BY DEF Fresh
  <2>3. PICK b \in BOOLEAN : b = Current
    BY DEF Current
  <2>4. PICK bk \in Seq(Frame) : bk = fr \o c.back
    <3>1. c.back \in Seq(Frame)
      BY DEF Call
    <3>2. fr \o c.back \in Seq(Frame)
      BY <3>1, Concatenation
    <3> QED
      BY <3>2
  <2> DEFINE e == [c EXCEPT !.at = "write", !.gen = g, !.next = 1, !.open = FALSE,
                            !.replaces = b, !.back = bk]
  <2>5. e \in Call /\ e.at = "write" /\ e.gen = g /\ e.next = 1 /\ e.replaces = b
    <3>1. 1 \in 1 .. Len(Files) /\ "write" \in Point
      BY FileFacts DEF Point
    <3> QED
      BY <2>2, <3>1 DEF Call
  <2>6. call'[w] = e /\ call' \in [Worker -> Call] /\ \A v \in Worker : v # w => call'[v] = call[v]
    BY <2>1, <2>3, <2>4, <2>5 DEF PkiInv, CallsInv, Become
  <2>7. \A v \in Worker : At(v, "write")' <=> v = w
    BY <1>2, <2>5, <2>6 DEF At
  <2>8. ~cut /\ LastWritten => Current
    BY <1>2, WholeIsCurrent DEF PkiInv, RestInv, NoWriter, Whole, Holds
  <2>9. CallsInv'
    BY <2>2, <2>5, <2>6, <2>7 DEF PkiInv, CallsInv
  <2>10. OneWriter'
    BY <2>7 DEF OneWriter
  <2>11. WriterInv'
    <3>1. call'[w].next = 1 /\ call'[w].replaces = b
      BY <2>5, <2>6
    <3>2. ~cut /\ ~b => ~LastWritten
      BY <2>3, <2>8
    <3> QED
      BY <2>7, <3>1, <3>2 DEF WriterInv, LastWritten
  <2>12. RestInv'
    BY <2>7 DEF RestInv, NoWriter
  <2> QED
    BY <2>9, <2>10, <2>11, <2>12 DEF PkiInv
<1> QED
  BY <1>1, <1>2

LEMMA SuffixTyped ==
    ASSUME NEW S, NEW s \in Seq(S), NEW i \in 1 .. Len(s)
    PROVE  SubSeq(s, i + 1, Len(s)) \in Seq(S)
OBVIOUS

(* A call that returns, or raises, out of a frame: frames never resume a      *)
(* write.                                                                     *)
LEMMA ResumeTyped ==
    ASSUME NEW c \in Call, NEW fr \in Frame, NEW bk \in Seq(Frame)
    PROVE  /\ [c EXCEPT !.at = fr.at, !.serial = fr.serial, !.back = bk] \in Call
           /\ fr.at # "write"
<1>1. fr.at \in Point /\ fr.at # "write" /\ fr.serial \in Gen \union {None}
  BY DEF Frame
<1> QED
  BY <1>1 DEF Call

LEMMA ReturnStep ==
    ASSUME PkiInv, NEW w \in Worker, ~At(w, "write"), Return(w), disk' = disk, cut' = cut
    PROVE  PkiInv'
<1>1. call[w] \in Call /\ call[w].back \in Seq(Frame)
  BY DEF PkiInv, CallsInv, Call
<1>2. CASE call[w].back = <<>>
  BY <1>2, OtherStep, IdleTyped DEF Return
<1>3. CASE call[w].back # <<>>
  <2>1. Head(call[w].back) \in Frame /\ Tail(call[w].back) \in Seq(Frame)
    BY <1>1, <1>3
  <2> DEFINE c == [call[w] EXCEPT !.at = Head(call[w].back).at, !.serial = Head(call[w].back).serial,
                                  !.back = Tail(call[w].back)]
  <2>2. c \in Call /\ c.at = Head(call[w].back).at /\ c.at # "write"
    BY <1>1, <2>1, ResumeTyped DEF Call
  <2>3. Become(w, c)
    BY <1>1, <1>3 DEF Return, Call
  <2> QED
    BY <2>2, <2>3, OtherStep
<1> QED
  BY <1>2, <1>3

LEMMA RaiseStep ==
    ASSUME PkiInv, NEW w \in Worker, ~At(w, "write"), Raise(w), disk' = disk, cut' = cut
    PROVE  PkiInv'
<1> DEFINE back == call[w].back
           Catching == {i \in DOMAIN back : back[i].caught}
<1>1. call[w] \in Call /\ back \in Seq(Frame)
  BY DEF PkiInv, CallsInv, Call
<1>2. CASE Catching = {}
  BY <1>2, OtherStep, IdleTyped DEF Raise
<1>3. CASE Catching # {}
  <2>1. PICK i \in Catching : Become(w, [call[w] EXCEPT !.at = back[i].at, !.serial = back[i].serial,
                                                 !.back = SubSeq(back, i + 1, Len(back))])
    BY <1>3 DEF Raise
  <2>2. i \in 1 .. Len(back) /\ back[i] \in Frame
    BY <1>1, <2>1
  <2>3. SubSeq(back, i + 1, Len(back)) \in Seq(Frame)
    BY <1>1, <2>2, SuffixTyped
  <2> DEFINE c == [call[w] EXCEPT !.at = back[i].at, !.serial = back[i].serial,
                                  !.back = SubSeq(back, i + 1, Len(back))]
  <2>4. c \in Call /\ c.at = back[i].at /\ c.at # "write"
    BY <1>1, <2>2, <2>3, ResumeTyped DEF Call
  <2> QED
    BY <2>1, <2>4, OtherStep
<1> QED
  BY <1>2, <1>3
LEMMA DescribeFrame == <<[To("describe") EXCEPT !.caught = TRUE]>> \in Seq(Frame)
<1>1. [To("describe") EXCEPT !.caught = TRUE] \in Frame
  BY DEF To, Frame, Point
<1> QED
  BY <1>1
-----------------------------------------------------------------------------
(* The writes.                                                                *)

LEMMA OpenFileStep ==
    ASSUME PkiInv, NEW w \in Worker, OpenFile(w) PROVE PkiInv'
<1> DEFINE n == call[w].next
           c == [call[w] EXCEPT !.open = TRUE]
<1>1. call[w] \in Call /\ call[w].gen \in Gen /\ n \in 1 .. 10 /\ At(w, "write")
  BY FileFacts DEF PkiInv, CallsInv, OpenFile, Call
<1>2. c \in Call /\ c.at = "write" /\ c.gen = call[w].gen /\ c.next = n /\ c.replaces = call[w].replaces
  BY <1>1 DEF Call, At
<1>3. call' \in [Worker -> Call] /\ call'[w] = c /\ \A v \in Worker : v # w => call'[v] = call[v]
  BY <1>2 DEF PkiInv, CallsInv, OpenFile, Become
<1>4. \A v \in Worker : At(v, "write")' <=> v = w
  BY <1>1, <1>2, <1>3 DEF PkiInv, OneWriter, At
<1>5. /\ disk' \in [File -> Gen \union {None, Torn}]
      /\ \A f \in File : f # Files[n] => disk'[f] = disk[f]
      /\ disk'[Files[n]] = Torn
  BY <1>1, FileFacts DEF PkiInv, CallsInv, OpenFile
<1>6. CallsInv'
  BY <1>1, <1>2, <1>3, <1>4, <1>5 DEF CallsInv
<1>7. OneWriter'
  BY <1>4 DEF OneWriter
<1>8. WriterInv'
  <2>1. \A i \in 1 .. 10 : i < n => disk'[Files[i]] = call[w].gen
    BY <1>1, <1>5, FileFacts DEF PkiInv, WriterInv
  <2>2. LastWritten' => LastWritten
    BY <1>1, <1>5, FileFacts, CertRoles, PkiAssumption DEF LastWritten
  <2>3. cut' = cut
    BY DEF OpenFile
  <2>4. ~cut /\ ~call[w].replaces => ~LastWritten
    BY <1>1 DEF PkiInv, WriterInv
  <2> QED
    BY <1>2, <1>3, <1>4, <2>1, <2>2, <2>3, <2>4 DEF WriterInv
<1>9. RestInv'
  BY <1>4 DEF RestInv, NoWriter
<1> QED
  BY <1>6, <1>7, <1>8, <1>9 DEF PkiInv

LEMMA FlushFileStep ==
    ASSUME PkiInv, NEW w \in Worker, FlushFile(w) PROVE PkiInv'
<1> DEFINE n == call[w].next
           g == call[w].gen
<1>1. call[w] \in Call /\ g \in Gen /\ n \in 1 .. 10 /\ At(w, "write") /\ cut' = cut
  BY FileFacts DEF PkiInv, CallsInv, FlushFile, Call
<1>2. /\ disk' \in [File -> Gen \union {None, Torn}]
      /\ \A f \in File : f # Files[n] => disk'[f] = disk[f]
      /\ disk'[Files[n]] = g
  BY <1>1, FileFacts DEF PkiInv, CallsInv, FlushFile
<1>3. \A i \in 1 .. 10 : i <= n => disk'[Files[i]] = g
  BY <1>1, <1>2, FileFacts DEF PkiInv, WriterInv
<1>4. CASE n < 10
  <2> DEFINE c == [call[w] EXCEPT !.next = n + 1, !.open = FALSE]
  <2>1. n + 1 \in 1 .. Len(Files)
    BY <1>1, <1>4, FileFacts
  <2>2. c \in Call /\ c.at = "write" /\ c.gen = g /\ c.next = n + 1 /\ c.replaces = call[w].replaces
    BY <1>1, <2>1 DEF Call, At
  <2>3. call' \in [Worker -> Call] /\ call'[w] = c /\ \A v \in Worker : v # w => call'[v] = call[v]
    <3>1. Become(w, c)
      BY <1>1, <1>4, FileFacts DEF FlushFile, Call
    <3> QED
      BY <2>2, <3>1 DEF PkiInv, CallsInv, Become
  <2>4. \A v \in Worker : At(v, "write")' <=> v = w
    BY <1>1, <2>2, <2>3 DEF PkiInv, OneWriter, At
  <2>5. CallsInv'
    BY <1>1, <1>2, <2>2, <2>3, <2>4 DEF CallsInv
  <2>6. OneWriter'
    BY <2>4 DEF OneWriter
  <2>7. WriterInv'
    <3>1. \A i \in 1 .. 10 : i < n + 1 => disk'[Files[i]] = g
      BY <1>1, <1>3
    <3>2. LastWritten' => LastWritten
      BY <1>1, <1>2, <1>4, FileFacts, CertRoles DEF LastWritten
    <3>3. ~cut /\ ~call[w].replaces => ~LastWritten
      BY <1>1 DEF PkiInv, WriterInv
    <3>4. call'[w].gen = g /\ call'[w].next = n + 1 /\ call'[w].replaces = call[w].replaces
      BY <2>2, <2>3
    <3>5. ~cut' /\ ~call'[w].replaces => ~LastWritten'
      BY <1>1, <3>2, <3>3, <3>4
    <3> QED
      BY <2>4, <3>1, <3>4, <3>5 DEF WriterInv
  <2>8. RestInv'
    BY <2>4 DEF RestInv, NoWriter
  <2> QED
    BY <2>5, <2>6, <2>7, <2>8 DEF PkiInv
<1>5. CASE n = 10
  <2>1. \A f \in File : disk'[f] = g
    BY <1>3, <1>5, FileFacts
  <2> DEFINE fr == <<[To("describe") EXCEPT !.caught = TRUE]>>
             c == [call[w] EXCEPT !.at = "sync", !.gen = None, !.next = 1, !.open = FALSE,
                                  !.replaces = FALSE, !.back = fr \o call[w].back]
  <2>2. c \in Call /\ c.at = "sync"
    <3>1. fr \in Seq(Frame)
      BY DescribeFrame
    <3>4. call[w].back \in Seq(Frame)
      BY <1>1 DEF Call
    <3>2. fr \o call[w].back \in Seq(Frame)
      BY <3>1, <3>4, Concatenation
    <3>3. 1 \in 1 .. Len(Files) /\ "sync" \in Point
      BY FileFacts DEF Point
    <3> HIDE DEF fr
    <3> QED
      BY <1>1, <3>2, <3>3 DEF Call
  <2>3. call' \in [Worker -> Call] /\ call'[w] = c /\ \A v \in Worker : v # w => call'[v] = call[v]
    <3>1. Become(w, c)
      BY <1>1, <1>5, FileFacts DEF FlushFile, Call
    <3> QED
      BY <2>2, <3>1 DEF PkiInv, CallsInv, Become
  <2>4. \A v \in Worker : ~At(v, "write")'
    BY <1>1, <2>2, <2>3 DEF PkiInv, OneWriter, At
  <2>5. CallsInv'
    BY <1>2, <2>3, <2>4 DEF CallsInv
  <2>6. OneWriter' /\ WriterInv'
    BY <2>4 DEF OneWriter, WriterInv
  <2>7. RestInv'
    BY <1>1, <2>1 DEF RestInv, Whole, Holds
  <2> QED
    BY <2>5, <2>6, <2>7 DEF PkiInv
<1> QED
  BY <1>1, <1>4, <1>5

LEMMA CrashStep == ASSUME PkiInv, Crash PROVE PkiInv'
<1>1. call' \in [Worker -> Call] /\ \A v \in Worker : ~At(v, "write")'
  BY IdleTyped DEF Crash, At
<1>2. CallsInv' /\ OneWriter' /\ WriterInv'
  BY <1>1 DEF PkiInv, CallsInv, OneWriter, WriterInv, Crash
<1>3. RestInv'
  <2> SUFFICES ASSUME ~cut', LastWritten' PROVE Whole'
    BY DEF RestInv
  <2>1. ~cut /\ LastWritten /\ \A w \in Worker : At(w, "write") => ~call[w].replaces
    BY DEF Crash, LastWritten, At
  <2>2. NoWriter
    BY <2>1 DEF PkiInv, WriterInv, NoWriter
  <2> QED
    BY <2>1, <2>2 DEF PkiInv, RestInv, Whole, Holds, Crash
<1> QED
  BY <1>2, <1>3 DEF PkiInv
-----------------------------------------------------------------------------
(* The other steps of the PKI.                                                *)

LEMMA ToTyped == \A l \in Point \ {"write"} : To(l) \in Frame /\ <<To(l)>> \in Seq(Frame)
<1>1. \A l \in Point \ {"write"} : To(l) \in Frame
  BY DEF To, Frame
<1> QED
  BY <1>1

LEMMA SyncTyped ==
    ASSUME NEW op \in Operation, NEW l \in Point \ {"write"}, NEW m \in Point \ {"write"}
    PROVE  /\ [Idle EXCEPT !.at = l, !.op = op, !.back = <<To(m)>>] \in Call
           /\ [Idle EXCEPT !.at = l, !.op = op, !.back = <<To(m)>>].at = l
BY ToTyped, IdleTyped DEF Call

LEMMA FetchTyped ==
    ASSUME NEW op \in Operation, NEW fs \in Seq(File)
    PROVE  [Idle EXCEPT !.at = "load", !.op = op, !.todo = fs] \in Call
BY IdleTyped DEF Call, Point

LEMMA DescribeStep == ASSUME PkiInv, NEW w \in Worker, Describe(w) PROVE PkiInv'
<1>1. ~At(w, "write") /\ call[w] \in Call
  BY DEF Describe, At, PkiInv, CallsInv
<1>2. <<To("describe")>> \in Seq(Frame)
  BY ToTyped DEF Point
<1> QED
  BY <1>1, <1>2, ReturnStep, GenerateStep DEF Describe

LEMMA SyncRecordsStep == ASSUME PkiInv, NEW w \in Worker, SyncRecords(w) PROVE PkiInv'
<1> DEFINE g == disk["userCert"]
           c == [call[w] EXCEPT !.at = "enroll", !.serial = g]
<1>1. ~At(w, "write") /\ call[w] \in Call /\ g \in Gen \union {None, Torn}
  BY FileFacts, CertRoles DEF SyncRecords, At, PkiInv, CallsInv, CertFile
<1>2. CASE g = None
  <2>1. <<To("sync")>> \in Seq(Frame)
    BY ToTyped DEF Point
  <2> QED
    BY <1>1, <1>2, <2>1, GenerateStep DEF SyncRecords
<1>3. CASE g = Torn
  BY <1>1, <1>3, PkiAssumption, RaiseStep DEF SyncRecords
<1>4. CASE g \in Gen
  <2>1. c \in Call /\ c.at # "write"
    BY <1>1, <1>4 DEF Call, Point
  <2>2. Become(w, c) /\ disk' = disk /\ cut' = cut
    BY <1>4, PkiAssumption DEF SyncRecords
  <2> QED
    BY <1>1, <2>1, <2>2, OtherStep
<1> QED
  BY <1>1, <1>2, <1>3, <1>4

LEMMA SyncEnrollmentStep == ASSUME PkiInv, NEW w \in Worker, SyncEnrollment(w) PROVE PkiInv'
<1> DEFINE fr == [To("enroll") EXCEPT !.serial = call[w].serial]
<1>1. ~At(w, "write") /\ call[w] \in Call
  BY DEF SyncEnrollment, At, PkiInv, CallsInv
<1>2. fr \in Frame
  BY <1>1, ToTyped DEF To, Frame, Point, Call
<1>3. <<fr>> \in Seq(Frame)
  BY <1>2
<1>4. disk' = disk /\ cut' = cut
  BY DEF SyncEnrollment
<1>5. CASE Generate(w, call[w], <<fr>>)
  BY <1>1, <1>3, <1>4, <1>5, GenerateStep
<1>6. CASE Raise(w)
  BY <1>1, <1>4, <1>6, RaiseStep
<1>7. CASE Return(w)
  BY <1>1, <1>4, <1>7, ReturnStep
<1> QED
  BY <1>5, <1>6, <1>7 DEF SyncEnrollment

LEMMA LoadStep == ASSUME PkiInv, NEW w \in Worker, Load(w) PROVE PkiInv'
<1> DEFINE f == Head(call[w].todo)
           c == [call[w] EXCEPT !.todo = Tail(@), !.got = Append(@, disk[f])]
<1>1. /\ ~At(w, "write") /\ call[w] \in Call /\ call[w].at = "load"
      /\ call[w].todo \in Seq(File) /\ call[w].todo # <<>> /\ call[w].got \in Seq(Gen)
  BY DEF Load, At, PkiInv, CallsInv, Call
<1>2. f \in File /\ Tail(call[w].todo) \in Seq(File)
  BY <1>1
<1>3. disk' = disk /\ cut' = cut
  BY DEF Load
<1>4. CASE ~Current
  <2>1. <<To("load")>> \in Seq(Frame)
    BY ToTyped DEF Point
  <2> QED
    BY <1>1, <1>3, <1>4, <2>1, GenerateStep DEF Load
<1>5. CASE Current /\ disk[f] = Torn
  BY <1>1, <1>3, <1>5, RaiseStep DEF Load
<1>6. CASE Current /\ disk[f] # Torn
  <2>1. disk[f] \in Gen
    BY <1>2, <1>6 DEF Current, PkiInv, CallsInv
  <2>2. Append(call[w].got, disk[f]) \in Seq(Gen)
    BY <1>1, <2>1
  <2>3. c \in Call /\ c.at # "write"
    BY <1>1, <1>2, <2>2 DEF Call
  <2>4. Become(w, c)
    BY <1>6 DEF Load
  <2> QED
    BY <1>1, <1>3, <2>3, <2>4, OtherStep
<1> QED
  BY <1>4, <1>5, <1>6

LEMMA StartInitStep == ASSUME PkiInv, NEW w \in Worker, StartInit(w) PROVE PkiInv'
<1>1. ~At(w, "write") /\ disk' = disk /\ cut' = cut
  BY DEF StartInit, At, Begin
<1>2. CASE Generate(w, [Idle EXCEPT !.op = "init"], <<To("sync")>>)
  <2>1. [Idle EXCEPT !.op = "init"] \in Call /\ <<To("sync")>> \in Seq(Frame)
    BY IdleTyped, ToTyped DEF Call, Operation, Point
  <2> QED
    BY <1>1, <1>2, <2>1, GenerateStep
<1>3. CASE Become(w, [Idle EXCEPT !.at = "describe", !.op = "init", !.back = <<To("sync")>>])
  <2> DEFINE c == [Idle EXCEPT !.at = "describe", !.op = "init", !.back = <<To("sync")>>]
  <2>1. "init" \in Operation /\ {"describe", "sync"} \subseteq Point \ {"write"}
    BY DEF Operation, Point
  <2>2. c \in Call /\ c.at = "describe"
    BY <2>1, SyncTyped
  <2> QED
    BY <1>1, <1>3, <2>2, OtherStep
<1> QED
  BY <1>2, <1>3 DEF StartInit, Begin

LEMMA StartDemoStep == ASSUME PkiInv, NEW w \in Worker, StartDemo(w) PROVE PkiInv'
<1> DEFINE c == [Idle EXCEPT !.at = "sync", !.op = "demo", !.back = <<To("describe")>>]
<1>1. c \in Call /\ c.at = "sync"
  <2>1. "demo" \in Operation /\ {"describe", "sync"} \subseteq Point \ {"write"}
    BY DEF Operation, Point
  <2> QED
    BY <2>1, SyncTyped
<1>2. ~At(w, "write") /\ disk' = disk /\ cut' = cut /\ Become(w, c)
  BY DEF StartDemo, Begin, At
<1> QED
  BY <1>1, <1>2, OtherStep

LEMMA StartIssueStep == ASSUME PkiInv, NEW w \in Worker, StartIssue(w) PROVE PkiInv'
<1> DEFINE c == [Idle EXCEPT !.at = "load", !.op = "issue", !.todo = <<"intCert", "intKey">>]
<1>1. <<"intCert", "intKey">> \in Seq(File)
  BY DEF File, Files
<1>2. c \in Call /\ c.at # "write"
  BY <1>1, FetchTyped, IdleTyped DEF Call, Operation
<1>3. ~At(w, "write") /\ disk' = disk /\ cut' = cut /\ Become(w, c)
  BY DEF StartIssue, Begin, At
<1> QED
  BY <1>2, <1>3, OtherStep

LEMMA PkiStepInv ==
    ASSUME PkiInv, NEW w \in Worker, PkiStart(w) \/ PkiStep(w) PROVE PkiInv'
<1>1. CASE PkiStart(w)
  BY <1>1, StartInitStep, StartDemoStep, StartIssueStep DEF PkiStart
<1>2. CASE Issue(w)
  BY <1>2, ReturnStep DEF Issue, At
<1>3. CASE PkiStep(w)
  BY <1>2, <1>3, OpenFileStep, FlushFileStep, DescribeStep, SyncRecordsStep, SyncEnrollmentStep,
     LoadStep DEF PkiStep
<1> QED
  BY <1>1, <1>3
-----------------------------------------------------------------------------
(* The steps of the PAdES engine write no file of the PKI.                    *)

LEMMA HandlerStep ==
    ASSUME PkiInv, NEW w \in Worker, NEW c \in Call, c.at # "write", ~At(w, "write"),
           Become(w, c), PkiSame
    PROVE  PkiInv'
BY OtherStep DEF PkiSame

LEMMA FetchStep ==
    ASSUME PkiInv, NEW w \in Worker, ~At(w, "write"), NEW fs \in Seq(File), Fetch(w, fs), PkiSame
    PROVE  PkiInv'
<1> DEFINE c == [Idle EXCEPT !.at = "load", !.todo = fs]
<1>1. c \in Call /\ c.at # "write"
  BY IdleTyped DEF Call, Point
<1> QED
  BY <1>1, HandlerStep DEF Fetch

LEMMA SynchroniseStep ==
    ASSUME PkiInv, NEW w \in Worker, ~At(w, "write"), PkiSame,
           Become(w, [Idle EXCEPT !.at = "sync", !.back = <<To("caller")>>])
    PROVE  PkiInv'
<1> DEFINE c == [Idle EXCEPT !.at = "sync", !.back = <<To("caller")>>]
<1>1. <<To("caller")>> \in Seq(Frame)
  BY ToTyped DEF Point
<1>2. c \in Call /\ c.at # "write"
  BY <1>1, IdleTyped DEF Call, Point
<1> QED
  BY <1>2, HandlerStep

LEMMA EndStep ==
    ASSUME PkiInv, NEW w \in Worker, ~At(w, "write"), End(w), PkiSame
    PROVE  PkiInv'
BY IdleTyped, HandlerStep DEF End

LEMMA PadesStepInv ==
    ASSUME PkiInv, NEW w \in Worker, PadesStep(w) PROVE PkiInv'
<1>1. CASE StartSign(w)
  BY <1>1, SynchroniseStep DEF StartSign, Begin, At
<1>2. CASE Status(w)
  BY <1>2, SynchroniseStep, EndStep DEF Status, Synchronise, Doing, At
<1>3. <<"intCert", "intKey">> \in Seq(File) /\ <<"userKey">> \in Seq(File)
      /\ <<"intCert", "ocspCert", "ocspKey">> \in Seq(File)
  BY DEF File, Files
<1>4. CASE Signer(w)
  <2>1. PkiSame /\ ~At(w, "write")
    BY <1>4 DEF Signer, Doing, At
  <2>2. End(w) \/ Fetch(w, <<"intCert", "intKey">>) \/ Fetch(w, <<"userKey">>)
    BY <1>4 DEF Signer, Collect
  <2> QED
    BY <1>3, <2>1, <2>2, FetchStep, EndStep
<1>5. CASE Match(w)
  <2>1. PkiSame /\ ~At(w, "write")
    BY <1>5 DEF Match, Loaded, At
  <2>2. End(w) \/ Fetch(w, <<"intCert", "intKey">>)
    BY <1>5 DEF Match, Collect
  <2> QED
    BY <1>3, <2>1, <2>2, FetchStep, EndStep
<1>6. CASE Crl(w)
  BY <1>3, <1>6, FetchStep DEF Crl, Loaded, At
<1>7. CASE Ocsp(w)
  <2> DEFINE c == [Idle EXCEPT !.at = "caller"]
  <2>1. c \in Call /\ c.at # "write"
    BY IdleTyped DEF Call, Point
  <2>2. PkiSame /\ ~At(w, "write")
    BY <1>7 DEF Ocsp, Loaded, At
  <2>3. End(w) \/ Become(w, c)
    BY <1>7 DEF Ocsp
  <2> QED
    BY <2>1, <2>2, <2>3, HandlerStep, EndStep
<1>8. CASE SignPdf(w) \/ PrepareClient(w) \/ Finalize(w)
  BY <1>8, EndStep DEF SignPdf, PrepareClient, Finalize, Doing, At
<1>9. CASE StartFinalize(w)
  BY <1>9, SynchroniseStep DEF StartFinalize, Begin, At
<1> QED
  BY <1>1, <1>2, <1>4, <1>5, <1>6, <1>7, <1>8, <1>9 DEF PadesStep

LEMMA NextInv == ASSUME PkiInv, [PadesNext]_all PROVE PkiInv'
<1>1. CASE PadesNext
  BY <1>1, PadesStepInv, PkiStepInv, CrashStep, SameCalls
     DEF PadesNext, Elsewhere, PadesCrash, Revoke
<1>2. CASE UNCHANGED all
  BY <1>2, SameCalls DEF all, pkiVars
<1> QED
  BY <1>1, <1>2

(* However the creation and replacement of the PKI, its repair by the getters *)
(* and by describe_demo_pki, signing and crashes interleave: a PKI that the   *)
(* check takes for usable is of one generation, as long as no two handlers    *)
(* overlapped a write and no replacement was cut short (pki_service.py        *)
(* 249-304, 525-548).                                                         *)
THEOREM CurrentIsAlwaysWhole == PadesSpec => []CurrentIsWhole
<1>1. PadesInit => PkiInv
  BY InitInv DEF PadesInit
<1>2. PkiInv /\ [PadesNext]_all => PkiInv'
  BY NextInv
<1>3. PkiInv => CurrentIsWhole
  BY InvImplies
<1> QED
  BY <1>1, <1>2, <1>3, PTL DEF PadesSpec
-----------------------------------------------------------------------------
(* The list of the demo records: Listed moves a serial to the end.            *)

(* A list that names each serial at most once.                               *)
Once(list) == \A i, j \in DOMAIN list : list[i] = list[j] => i = j
Elements(list) == {list[i] : i \in DOMAIN list}

(* Where the record at place k comes from when the one at i goes to the end.  *)
From(k, i, n) == IF k < i THEN k ELSE IF k < n THEN k + 1 ELSE i

LEMMA FromIsOnce ==
    ASSUME NEW n \in Nat, NEW i \in 1 .. n
    PROVE  /\ \A k \in 1 .. n : From(k, i, n) \in 1 .. n
           /\ \A k, m \in 1 .. n : From(k, i, n) = From(m, i, n) => k = m
  BY DEF From

LEMMA FromIsAll ==
    ASSUME NEW n \in Nat, NEW i \in 1 .. n, NEW k \in 1 .. n
    PROVE  \E m \in 1 .. n : From(m, i, n) = k
  <1>1. CASE k < i
    BY <1>1 DEF From
  <1>2. CASE k = i
    <2>1. From(n, i, n) = k /\ n \in 1 .. n
      BY <1>2 DEF From
    <2>. QED
      BY <2>1
  <1>3. CASE k > i
    <2>1. k - 1 \in 1 .. n /\ From(k - 1, i, n) = k
      BY <1>3 DEF From
    <2>. QED
      BY <2>1
  <1>. QED
    BY <1>1, <1>2, <1>3

LEMMA DroppedOne ==
    ASSUME NEW S, NEW s \in Seq(S), NEW n \in Nat, n = Len(s), NEW i \in 1 .. n
    PROVE  LET c == SubSeq(s, 1, i - 1) \o SubSeq(s, i + 1, n) IN
           /\ c \in Seq(S) /\ Len(c) = n - 1
           /\ \A k \in 1 .. n - 1 : c[k] = IF k < i THEN s[k] ELSE s[k + 1]
  <1> DEFINE a == SubSeq(s, 1, i - 1)
             b == SubSeq(s, i + 1, n)
  <1>1. \A k \in 1 .. n : s[k] \in S
    OBVIOUS
  <1>2. a \in Seq(S) /\ Len(a) = i - 1 /\ \A k \in 1 .. i - 1 : a[k] = s[k]
    <2>1. \A k \in 1 .. i - 1 : s[k] \in S
      BY <1>1
    <2>2. /\ a \in Seq(S)
          /\ Len(a) = IF 1 <= i - 1 THEN (i - 1) - 1 + 1 ELSE 0
          /\ \A k \in 1 .. (i - 1) - 1 + 1 : a[k] = s[1 + k - 1]
      BY <2>1, SubSeqProperties
    <2> HIDE DEF a
    <2>3. \A k \in 1 .. i - 1 : k \in 1 .. (i - 1) - 1 + 1 /\ 1 + k - 1 = k
      OBVIOUS
    <2>. QED
      BY <2>2, <2>3
  <1>3. b \in Seq(S) /\ Len(b) = n - i /\ \A k \in 1 .. n - i : b[k] = s[k + i]
    <2>1. \A k \in i + 1 .. n : s[k] \in S
      BY <1>1
    <2>2. /\ b \in Seq(S)
          /\ Len(b) = IF i + 1 <= n THEN n - (i + 1) + 1 ELSE 0
          /\ \A k \in 1 .. n - (i + 1) + 1 : b[k] = s[(i + 1) + k - 1]
      BY <2>1, SubSeqProperties
    <2> HIDE DEF b
    <2>3. \A k \in 1 .. n - i : k \in 1 .. n - (i + 1) + 1 /\ (i + 1) + k - 1 = k + i
      OBVIOUS
    <2>. QED
      BY <2>2, <2>3
  <1> HIDE DEF a, b
  <1>4. a \o b \in Seq(S) /\ Len(a \o b) = Len(a) + Len(b)
    BY <1>2, <1>3, ConcatProperties
  <1>5. \A k \in 1 .. Len(a) + Len(b) : (a \o b)[k] = IF k <= Len(a) THEN a[k] ELSE b[k - Len(a)]
    BY <1>2, <1>3, ConcatProperties
  <1> DEFINE c == a \o b
  <1> HIDE DEF c
  <1>6. \A k \in 1 .. n - 1 : c[k] = IF k <= i - 1 THEN a[k] ELSE b[k - (i - 1)]
    BY <1>2, <1>3, <1>5 DEF c
  <1>7. ASSUME NEW k \in 1 .. n - 1 PROVE c[k] = IF k < i THEN s[k] ELSE s[k + 1]
    <2>1. CASE k < i
      BY <1>2, <1>6, <2>1
    <2>2. CASE ~(k < i)
      <3>1. k - (i - 1) \in 1 .. n - i /\ (k - (i - 1)) + i = k + 1 /\ ~(k <= i - 1)
        BY <2>2
      <3>. QED
        BY <1>3, <1>6, <2>2, <3>1
    <2>. QED
      BY <2>1, <2>2
  <1>8. c \in Seq(S) /\ Len(c) = n - 1
    BY <1>2, <1>3, <1>4 DEF c
  <1>. QED
    BY <1>7, <1>8 DEF a, b, c

LEMMA MovedToTheEnd ==
    ASSUME NEW S, NEW g \in S, NEW c \in Seq(S), NEW n \in Nat, Len(c) = n - 1,
           NEW s, NEW i \in 1 .. n, s[i] = g, NEW k \in 1 .. n,
           k < n => c[k] = IF k < i THEN s[k] ELSE s[k + 1]
    PROVE  Append(c, g)[k] = s[From(k, i, n)]
  <1>1. CASE k = n
    <2>1. From(k, i, n) = i /\ Append(c, g)[k] = g
      BY <1>1 DEF From
    <2>. QED
      BY <2>1
  <1>2. CASE k < n
    <2>1. From(k, i, n) = IF k < i THEN k ELSE k + 1
      BY <1>2 DEF From
    <2>2. Append(c, g)[k] = c[k]
      BY <1>2
    <2>. QED
      BY <1>2, <2>1, <2>2
  <1>. QED
    BY <1>1, <1>2

LEMMA ListedOnce ==
    ASSUME NEW S, NEW g \in S, NEW s \in Seq(S), Once(s)
    PROVE  /\ Listed(s, g) \in Seq(S) /\ Once(Listed(s, g))
           /\ Elements(Listed(s, g)) = Elements(s) \union {g}
  <1>1. CASE \E i \in DOMAIN s : s[i] = g
    <2>1. PICK n \in Nat : n = Len(s)
      OBVIOUS
    <2>2. PICK i \in 1 .. n : s[i] = g /\ i = CHOOSE k \in DOMAIN s : s[k] = g
      BY <1>1, <2>1
    <2>3. PICK t : t = Listed(s, g)
      OBVIOUS
    <2>14. PICK c : c = SubSeq(s, 1, i - 1) \o SubSeq(s, i + 1, n)
      OBVIOUS
    <2>4. t = Append(c, g)
      BY <1>1, <2>2, <2>1, <2>3, <2>14 DEF Listed
    <2>15. c \in Seq(S) /\ Len(c) = n - 1 /\ \A k \in 1 .. n - 1 : c[k] = IF k < i THEN s[k] ELSE s[k + 1]
      BY <2>1, <2>14, DroppedOne
    <2>5. t \in Seq(S) /\ Len(t) = n /\ \A k \in 1 .. n : t[k] = s[From(k, i, n)]
      <3>1. s[i] = g /\ n = Len(s)
        BY <2>1, <2>2
      <3>2. /\ c \in Seq(S) /\ Len(c) = n - 1 /\ t = Append(c, g)
            /\ \A k \in 1 .. n - 1 : c[k] = IF k < i THEN s[k] ELSE s[k + 1]
        BY <2>4, <2>15
      <3>3. t \in Seq(S) /\ Len(t) = n
        BY <3>2
      <3>4. ASSUME NEW k \in 1 .. n PROVE t[k] = s[From(k, i, n)]
        <4>1. k < n => c[k] = IF k < i THEN s[k] ELSE s[k + 1]
          BY <3>2
        <4>2. Append(c, g)[k] = s[From(k, i, n)]
          BY <3>1, <3>2, <4>1, MovedToTheEnd
        <4>. QED
          BY <3>2, <4>2
      <3>. QED
        BY <3>3, <3>4
    <2>6. \A k \in 1 .. n : From(k, i, n) \in 1 .. n
      BY FromIsOnce
    <2>7. \A k, m \in 1 .. n : From(k, i, n) = From(m, i, n) => k = m
      BY FromIsOnce
    <2>8. DOMAIN t = 1 .. n /\ DOMAIN s = 1 .. n
      BY <2>1, <2>5
    <2>9. Once(t)
      BY <2>5, <2>6, <2>7, <2>8 DEF Once
    <2>10. Elements(t) \subseteq Elements(s)
      BY <2>5, <2>6, <2>8 DEF Elements
    <2>11. ASSUME NEW k \in 1 .. n PROVE \E m \in 1 .. n : t[m] = s[k]
      <3>1. PICK m \in 1 .. n : From(m, i, n) = k
        BY FromIsAll
      <3>. QED
        BY <2>5, <3>1
    <2>12. Elements(s) \subseteq Elements(t)
      BY <2>8, <2>11 DEF Elements
    <2>13. g \in Elements(s)
      BY <2>2, <2>8 DEF Elements
    <2>. QED
      BY <2>3, <2>5, <2>9, <2>10, <2>12, <2>13
  <1>2. CASE ~\E i \in DOMAIN s : s[i] = g
    <2>1. PICK t : t = Append(s, g)
      OBVIOUS
    <2>2. /\ t \in Seq(S) /\ DOMAIN t = 1 .. Len(s) + 1 /\ t[Len(s) + 1] = g
          /\ DOMAIN s = 1 .. Len(s) /\ \A k \in DOMAIN s : t[k] = s[k]
      BY <2>1
    <2>3. Once(t)
      BY <1>2, <2>2 DEF Once
    <2>4. Elements(t) = Elements(s) \union {g}
      BY <2>2 DEF Elements
    <2>5. Listed(s, g) = t
      BY <1>2, <2>1 DEF Listed
    <2>. QED
      BY <2>2, <2>3, <2>4, <2>5
  <1>. QED
    BY <1>1, <1>2
-----------------------------------------------------------------------------
(* What one step does to the handler that takes it.                           *)

Stuck == [Idle EXCEPT !.at = "stuck"]
Others(w) == \A v \in Worker \ {w} : call'[v] = call[v]

(* What a handler has loaded, and what it has yet to load.                    *)
Keeps(c, d) == d.op = c.op /\ d.todo = c.todo /\ d.got = c.got

(* The handler goes on at one of the frames of its call stack.                *)
Resumes(w) ==
    /\ Keeps(call[w], call'[w])
    /\ \E i \in DOMAIN call[w].back :
           call'[w].at = call[w].back[i].at /\ call'[w].serial = call[w].back[i].serial
    /\ \A k \in DOMAIN call'[w].back : \E i \in DOMAIN call[w].back : call'[w].back[k] = call[w].back[i]

(* The handler is the one that creates the PKI from now on.                   *)
Generates(w, c) ==
    /\ NoWriter /\ Keeps(c, call'[w])
    /\ call'[w].at = "write" /\ call'[w].next = 1 /\ ~call'[w].open
    /\ call'[w].gen \in Fresh

LEMMA BecomeShape ==
    ASSUME PkiInv, NEW w \in Worker, NEW c, Become(w, c)
    PROVE  call'[w] = c /\ Others(w)
BY DEF PkiInv, CallsInv, Become, Others

LEMMA GenerateShape ==
    ASSUME PkiInv, NEW w \in Worker, NEW c \in Call, NEW fr \in Seq(Frame), Generate(w, c, fr)
    PROVE  /\ Others(w)
           /\ call'[w] = Stuck \/ (Generates(w, c) /\ call'[w].back = fr \o c.back)
<1>1. CASE \E v \in Worker : At(v, "write")
  BY <1>1, BecomeShape DEF Generate, Stuck
<1>2. CASE ~ \E v \in Worker : At(v, "write")
  <2>1. PICK g \in Fresh :
            Become(w, [c EXCEPT !.at = "write", !.gen = g, !.next = 1, !.open = FALSE,
                                !.replaces = Current, !.back = fr \o c.back])
    BY <1>2 DEF Generate
  <2> DEFINE d == [c EXCEPT !.at = "write", !.gen = g, !.next = 1, !.open = FALSE,
                            !.replaces = Current, !.back = fr \o c.back]
  <2>2. /\ d.at = "write" /\ d.next = 1 /\ d.open = FALSE /\ d.gen = g /\ d.back = fr \o c.back
        /\ Keeps(c, d)
    BY DEF Call, Keeps
  <2>3. call'[w] = d /\ Others(w)
    <3>1. Become(w, d)
      BY <2>1
    <3> HIDE DEF d
    <3> QED
      BY <3>1, BecomeShape
  <2> HIDE DEF d
  <2> QED
    BY <1>2, <2>2, <2>3 DEF Generates, NoWriter
<1> QED
  BY <1>1, <1>2

LEMMA ReturnShape ==
    ASSUME PkiInv, NEW w \in Worker, Return(w)
    PROVE  Others(w) /\ (call'[w] = Idle \/ Resumes(w))
<1>1. call[w] \in Call /\ call[w].back \in Seq(Frame)
  BY DEF PkiInv, CallsInv, Call
<1>2. CASE call[w].back = <<>>
  BY <1>2, BecomeShape DEF Return
<1>3. CASE call[w].back # <<>>
  <2> DEFINE fr == Head(call[w].back)
             c == [call[w] EXCEPT !.at = fr.at, !.serial = fr.serial, !.back = Tail(call[w].back)]
  <2>1. c.at = fr.at /\ c.serial = fr.serial /\ c.back = Tail(call[w].back) /\ Keeps(call[w], c)
    BY <1>1 DEF Call, Keeps
  <2>2. Become(w, c)
    BY <1>1, <1>3 DEF Return, Call
  <2>3. 1 \in DOMAIN call[w].back /\ fr = call[w].back[1]
    BY <1>1, <1>3
  <2>4. \A k \in DOMAIN Tail(call[w].back) :
            k + 1 \in DOMAIN call[w].back /\ Tail(call[w].back)[k] = call[w].back[k + 1]
    BY <1>1, <1>3
  <2> HIDE DEF c, fr
  <2>5. call'[w] = c /\ Others(w)
    BY <2>2, BecomeShape
  <2>6. \A k \in DOMAIN c.back : \E i \in DOMAIN call[w].back : c.back[k] = call[w].back[i]
    BY <2>1, <2>4
  <2> QED
    BY <2>1, <2>3, <2>5, <2>6 DEF Resumes
<1> QED
  BY <1>2, <1>3

LEMMA SuffixElements ==
    ASSUME NEW S, NEW s \in Seq(S), NEW i \in 1 .. Len(s), NEW k \in DOMAIN SubSeq(s, i + 1, Len(s))
    PROVE  k + i \in DOMAIN s /\ SubSeq(s, i + 1, Len(s))[k] = s[k + i]
<1>1. \A m \in i + 1 .. Len(s) : s[m] \in S
  OBVIOUS
<1>2. /\ SubSeq(s, i + 1, Len(s)) \in Seq(S)
      /\ Len(SubSeq(s, i + 1, Len(s))) = IF i + 1 <= Len(s) THEN Len(s) - (i + 1) + 1 ELSE 0
      /\ \A m \in 1 .. Len(s) - (i + 1) + 1 : SubSeq(s, i + 1, Len(s))[m] = s[(i + 1) + m - 1]
  BY <1>1, SubSeqProperties
<1> DEFINE t == SubSeq(s, i + 1, Len(s))
<1> HIDE DEF t
<1>3. k \in 1 .. Len(t)
  BY <1>2 DEF t
<1>4. k \in 1 .. Len(s) - (i + 1) + 1 /\ (i + 1) + k - 1 = k + i /\ k + i \in 1 .. Len(s)
  BY <1>2, <1>3 DEF t
<1> QED
  BY <1>2, <1>4

LEMMA RaiseShape ==
    ASSUME PkiInv, NEW w \in Worker, Raise(w)
    PROVE  Others(w) /\ (call'[w] = Idle \/ Resumes(w))
<1> DEFINE back == call[w].back
           Catching == {i \in DOMAIN back : back[i].caught}
<1>1. call[w] \in Call /\ back \in Seq(Frame)
  BY DEF PkiInv, CallsInv, Call
<1>2. CASE Catching = {}
  BY <1>2, BecomeShape DEF Raise
<1>3. CASE Catching # {}
  <2>1. PICK i \in Catching : Become(w, [call[w] EXCEPT !.at = back[i].at, !.serial = back[i].serial,
                                                 !.back = SubSeq(back, i + 1, Len(back))])
    BY <1>3 DEF Raise
  <2> DEFINE c == [call[w] EXCEPT !.at = back[i].at, !.serial = back[i].serial,
                                  !.back = SubSeq(back, i + 1, Len(back))]
  <2>2. c.at = back[i].at /\ c.serial = back[i].serial /\ c.back = SubSeq(back, i + 1, Len(back)) /\ Keeps(call[w], c)
    BY <1>1 DEF Call, Keeps
  <2>3. \A k \in DOMAIN SubSeq(back, i + 1, Len(back)) :
            k + i \in DOMAIN back /\ SubSeq(back, i + 1, Len(back))[k] = back[k + i]
    <3>1. i \in 1 .. Len(back)
      BY <1>1
    <3> HIDE DEF back, Catching
    <3> QED
      BY <1>1, <3>1, SuffixElements
  <2>4. Become(w, c)
    BY <2>1
  <2> HIDE DEF c
  <2>5. call'[w] = c /\ Others(w)
    BY <2>4, BecomeShape
  <2>6. \A k \in DOMAIN c.back : \E m \in DOMAIN back : c.back[k] = back[m]
    BY <2>2, <2>3
  <2> QED
    BY <2>2, <2>5, <2>6 DEF Resumes
<1> QED
  BY <1>2, <1>3
(* A handler reads a file, or puts the certificate on file on the list.       *)
Loads(w) ==
    /\ Current /\ At(w, "load") /\ call[w].todo # <<>>
    /\ call'[w].at = "load" /\ call'[w].op = call[w].op /\ call'[w].back = call[w].back
    /\ call'[w].todo = Tail(call[w].todo)
    /\ call'[w].got = Append(call[w].got, disk[Head(call[w].todo)])
Lists(w) ==
    /\ disk["userCert"] \in Gen /\ Keeps(call[w], call'[w])
    /\ At(w, "sync") /\ call'[w].at = "enroll"
    /\ call'[w].serial = disk["userCert"] /\ call'[w].back = call[w].back

Repairs(w) ==
    /\ ~Current /\ Generates(w, call[w])
    /\ \E fr \in Frame : fr.at = call[w].at /\ call'[w].back = <<fr>> \o call[w].back

Goes(w) ==
    /\ ~At(w, "idle") /\ overlapped' = overlapped
    /\ \/ call'[w] = Idle \/ call'[w] = Stuck
       \/ Resumes(w) \/ Loads(w) \/ Lists(w) \/ Repairs(w)

Begins(w) ==
    /\ At(w, "idle") /\ ~overlapped /\ (overlapped' <=> ~NoWriter)
    /\ call'[w].at \notin {"idle", "enroll"}
    /\ call'[w].at = "write" => Generates(w, [Idle EXCEPT !.op = "init"])
    /\ call'[w].op = "issue" => call'[w].got = <<>> /\ call'[w].todo = <<"intCert", "intKey">>
    /\ \A k \in DOMAIN call'[w].back : call'[w].back[k].at # "enroll"

LEMMA StartShape ==
    ASSUME PkiInv, NEW w \in Worker, PkiStart(w)
    PROVE  Others(w) /\ Begins(w) /\ disk' = disk /\ cut' = cut
<1>1. At(w, "idle") /\ ~overlapped /\ (overlapped' <=> ~NoWriter) /\ disk' = disk /\ cut' = cut
  BY DEF PkiStart, StartInit, StartDemo, StartIssue, Begin, Overlaps, NoWriter
<1>2. ASSUME NEW op \in Operation \ {"issue"}, NEW l \in {"sync", "describe"}, NEW m \in {"sync", "describe"},
             Become(w, [Idle EXCEPT !.at = l, !.op = op, !.back = <<To(m)>>])
      PROVE  Others(w) /\ Begins(w)
  <2> DEFINE c == [Idle EXCEPT !.at = l, !.op = op, !.back = <<To(m)>>]
  <2>1. c.at = l /\ c.op = op /\ c.back = <<To(m)>> /\ To(m).at = m
    BY DEF Idle, To
  <2>2. \A k \in DOMAIN c.back : c.back[k].at # "enroll"
    BY <2>1
  <2> HIDE DEF c
  <2>3. call'[w] = c /\ Others(w)
    BY <1>2, BecomeShape DEF c
  <2> QED
    BY <1>1, <2>1, <2>2, <2>3 DEF Begins
<1>3. CASE StartDemo(w)
  <2>1. Become(w, [Idle EXCEPT !.at = "sync", !.op = "demo", !.back = <<To("describe")>>])
    BY <1>3 DEF StartDemo, Begin
  <2>2. "demo" \in Operation \ {"issue"}
    BY DEF Operation
  <2> QED
    BY <1>1, <1>2, <2>1, <2>2
<1>4. CASE StartIssue(w)
  <2> DEFINE c == [Idle EXCEPT !.at = "load", !.op = "issue", !.todo = <<"intCert", "intKey">>]
  <2>1. c.at = "load" /\ c.got = <<>> /\ c.todo = <<"intCert", "intKey">> /\ c.back = <<>>
    BY DEF Idle
  <2>2. Become(w, c)
    BY <1>4 DEF StartIssue, Begin
  <2> HIDE DEF c
  <2>3. call'[w] = c /\ Others(w)
    BY <2>2, BecomeShape
  <2> QED
    BY <1>1, <2>1, <2>3 DEF Begins
<1>5. CASE StartInit(w)
  <2>1. CASE Generate(w, [Idle EXCEPT !.op = "init"], <<To("sync")>>)
    <3> DEFINE c == [Idle EXCEPT !.op = "init"]
    <3>1. c \in Call /\ <<To("sync")>> \in Seq(Frame)
      BY IdleTyped, ToTyped DEF Call, Operation, Point
    <3>2. c.op = "init" /\ c.back = <<>>
      BY DEF Idle
    <3> HIDE DEF c
    <3>3. Others(w) /\ (call'[w] = Stuck \/ (Generates(w, c) /\ call'[w].back = <<To("sync")>> \o c.back))
      BY <2>1, <3>1, GenerateShape DEF c
    <3>4. CASE call'[w] = Stuck
      BY <1>1, <3>3, <3>4 DEF Begins, Stuck, Idle
    <3>5. CASE Generates(w, c) /\ call'[w].back = <<To("sync")>> \o c.back
      <4>1. call'[w].back = <<To("sync")>> /\ To("sync").at = "sync"
        BY <3>1, <3>2, <3>5 DEF To
      <4>2. \A k \in DOMAIN call'[w].back : call'[w].back[k].at # "enroll"
        BY <4>1
      <4>3. call'[w].at = "write" /\ call'[w].op = "init"
        BY <3>2, <3>5 DEF Generates, Keeps
      <4> QED
        BY <1>1, <3>3, <3>5, <4>2, <4>3 DEF Begins, c
    <3> QED
      BY <1>1, <3>3, <3>4, <3>5
  <2>2. CASE Become(w, [Idle EXCEPT !.at = "describe", !.op = "init", !.back = <<To("sync")>>])
    <3>1. "init" \in Operation \ {"issue"}
      BY DEF Operation
    <3> QED
      BY <1>1, <1>2, <2>2, <3>1
  <2> QED
    BY <1>5, <2>1, <2>2 DEF StartInit, Begin
<1> QED
  BY <1>1, <1>3, <1>4, <1>5 DEF PkiStart

LEMMA RepairShape ==
    ASSUME PkiInv, NEW w \in Worker, ~Current, NEW fr \in Frame, fr.at = call[w].at,
           Generate(w, call[w], <<fr>>)
    PROVE  Others(w) /\ (call'[w] = Stuck \/ Repairs(w))
<1>1. call[w] \in Call /\ <<fr>> \in Seq(Frame)
  BY DEF PkiInv, CallsInv
<1>2. Others(w) /\ (call'[w] = Stuck \/ (Generates(w, call[w]) /\ call'[w].back = <<fr>> \o call[w].back))
  BY <1>1, GenerateShape
<1> QED
  BY <1>2 DEF Repairs

LEMMA StepShape ==
    ASSUME PkiInv, NEW w \in Worker, PkiStep(w), ~OpenFile(w), ~FlushFile(w)
    PROVE  Others(w) /\ Goes(w) /\ disk' = disk /\ cut' = cut
<1>1. ~At(w, "idle") /\ overlapped' = overlapped /\ disk' = disk /\ cut' = cut /\ call[w] \in Call
  BY DEF PkiStep, Describe, SyncRecords, SyncEnrollment, Load, Issue, At, PkiInv, CallsInv
<1>2. ASSUME NEW l \in {"describe", "sync", "load"}, At(w, l), ~Current, Generate(w, call[w], <<To(l)>>)
      PROVE  Others(w) /\ Goes(w)
  <2>1. To(l) \in Frame /\ To(l).at = call[w].at
    BY <1>2, ToTyped DEF To, At, Point
  <2> QED
    BY <1>1, <1>2, <2>1, RepairShape DEF Goes
<1>3. CASE Return(w) \/ Raise(w)
  BY <1>1, <1>3, ReturnShape, RaiseShape DEF Goes
<1>4. CASE Describe(w)
  BY <1>1, <1>2, <1>3, <1>4 DEF Describe
<1>5. CASE SyncRecords(w)
  <2> DEFINE g == disk["userCert"]
             c == [call[w] EXCEPT !.at = "enroll", !.serial = g]
  <2>1. g \in Gen \union {None, Torn} /\ "userCert" \in File
    BY CertRoles DEF PkiInv, CallsInv, CertFile
  <2>2. CASE g = None
    BY <1>2, <1>5, <2>1, <2>2 DEF SyncRecords, Current
  <2>3. CASE g = Torn
    BY <1>1, <1>3, <1>5, <2>3, PkiAssumption DEF SyncRecords
  <2>4. CASE g \in Gen
    <3>1. c.at = "enroll" /\ c.serial = g /\ c.back = call[w].back /\ Keeps(call[w], c)
      BY <1>1 DEF Call, Keeps
    <3>2. Become(w, c) /\ At(w, "sync")
      BY <1>5, <2>4, PkiAssumption DEF SyncRecords
    <3> HIDE DEF c
    <3>3. call'[w] = c /\ Others(w)
      BY <3>2, BecomeShape
    <3> QED
      BY <1>1, <2>4, <3>1, <3>2, <3>3 DEF Goes, Lists
  <2> QED
    BY <2>1, <2>2, <2>3, <2>4
<1>6. CASE SyncEnrollment(w)
  <2> DEFINE fr == [To("enroll") EXCEPT !.serial = call[w].serial]
  <2>1. CASE ~Current
    <3>1. fr \in Frame /\ fr.at = call[w].at
      BY <1>1, <1>6, ToTyped DEF To, Frame, Point, Call, SyncEnrollment, At
    <3>2. Generate(w, call[w], <<fr>>)
      BY <1>6, <2>1 DEF SyncEnrollment
    <3> QED
      BY <1>1, <2>1, <3>1, <3>2, RepairShape DEF Goes
  <2>2. CASE Current
    BY <1>3, <1>6, <2>2 DEF SyncEnrollment
  <2> QED
    BY <2>1, <2>2
<1>7. CASE Load(w)
  <2> DEFINE f == Head(call[w].todo)
             c == [call[w] EXCEPT !.todo = Tail(@), !.got = Append(@, disk[f])]
  <2>1. CASE ~Current
    BY <1>2, <1>7, <2>1 DEF Load
  <2>2. CASE Current /\ disk[f] = Torn
    BY <1>3, <1>7, <2>2 DEF Load
  <2>3. CASE Current /\ disk[f] # Torn
    <3>1. /\ c.at = call[w].at /\ c.op = call[w].op /\ c.back = call[w].back
          /\ c.todo = Tail(call[w].todo) /\ c.got = Append(call[w].got, disk[f])
      BY <1>1 DEF Call
    <3>2. Become(w, c) /\ At(w, "load") /\ call[w].todo # <<>>
      BY <1>7, <2>3 DEF Load
    <3> HIDE DEF c
    <3>3. call'[w] = c /\ Others(w)
      BY <3>2, BecomeShape
    <3> QED
      BY <1>1, <2>3, <3>1, <3>2, <3>3 DEF Goes, Loads, At
  <2> QED
    BY <2>1, <2>2, <2>3
<1>8. CASE Issue(w)
  BY <1>3, <1>8 DEF Issue
<1> QED
  BY <1>1, <1>4, <1>5, <1>6, <1>7, <1>8 DEF PkiStep
(* The handler that writes the files.                                         *)
Writes(w) ==
    /\ At(w, "write") /\ call[w].next \in 1 .. 10 /\ call[w].gen \in Gen
    /\ Keeps(call[w], call'[w]) /\ Others(w)
    /\ overlapped' = (overlapped \/ \E v \in Worker \ {w} : ~At(v, "idle"))
    /\ disk' \in [File -> Gen \union {None, Torn}]
    /\ \A f \in File : f # Files[call[w].next] => disk'[f] = disk[f]

LEMMA OpenShape ==
    ASSUME PkiInv, NEW w \in Worker, OpenFile(w)
    PROVE  /\ Writes(w)
           /\ disk'[Files[call[w].next]] = Torn
           /\ call'[w].at = "write" /\ call'[w].open /\ call'[w].next = call[w].next
           /\ call'[w].gen = call[w].gen /\ call'[w].back = call[w].back
<1> DEFINE n == call[w].next
           c == [call[w] EXCEPT !.open = TRUE]
<1>1. call[w] \in Call /\ call[w].gen \in Gen /\ n \in 1 .. 10 /\ At(w, "write")
  BY FileFacts DEF PkiInv, CallsInv, OpenFile, Call
<1>2. /\ c.at = "write" /\ c.gen = call[w].gen /\ c.next = n /\ c.open = TRUE /\ c.back = call[w].back
      /\ Keeps(call[w], c)
  BY <1>1 DEF Call, At, Keeps
<1>3. Become(w, c)
  BY DEF OpenFile
<1> HIDE DEF c
<1>4. call'[w] = c /\ Others(w)
  BY <1>3, BecomeShape
<1>5. /\ disk' \in [File -> Gen \union {None, Torn}]
      /\ \A f \in File : f # Files[n] => disk'[f] = disk[f]
      /\ disk'[Files[n]] = Torn
  BY <1>1, FileFacts DEF PkiInv, CallsInv, OpenFile
<1>6. overlapped' = (overlapped \/ \E v \in Worker \ {w} : ~At(v, "idle"))
  BY DEF OpenFile
<1> QED
  BY <1>1, <1>2, <1>4, <1>5, <1>6 DEF Writes

LEMMA FlushShape ==
    ASSUME PkiInv, NEW w \in Worker, FlushFile(w)
    PROVE  /\ Writes(w)
           /\ disk'[Files[call[w].next]] = call[w].gen
           /\ \/ /\ call[w].next < 10 /\ call'[w].next = call[w].next + 1
                 /\ call'[w].at = "write" /\ call'[w].gen = call[w].gen /\ call'[w].back = call[w].back
              \/ /\ call[w].next = 10 /\ call'[w].at = "sync"
                 /\ \E fr \in Frame : fr.at = "describe" /\ call'[w].back = <<fr>> \o call[w].back
<1> DEFINE n == call[w].next
<1>1. call[w] \in Call /\ call[w].gen \in Gen /\ n \in 1 .. 10 /\ At(w, "write")
  BY FileFacts DEF PkiInv, CallsInv, FlushFile, Call
<1>2. /\ disk' \in [File -> Gen \union {None, Torn}]
      /\ \A f \in File : f # Files[n] => disk'[f] = disk[f]
      /\ disk'[Files[n]] = call[w].gen
  BY <1>1, FileFacts DEF PkiInv, CallsInv, FlushFile
<1>3. overlapped' = (overlapped \/ \E v \in Worker \ {w} : ~At(v, "idle"))
  BY DEF FlushFile
<1>4. CASE n < 10
  <2> DEFINE c == [call[w] EXCEPT !.next = n + 1, !.open = FALSE]
  <2>1. c.at = "write" /\ c.gen = call[w].gen /\ c.next = n + 1 /\ c.back = call[w].back /\ Keeps(call[w], c)
    BY <1>1 DEF Call, At, Keeps
  <2>2. Become(w, c)
    BY <1>1, <1>4, FileFacts DEF FlushFile, Call
  <2> HIDE DEF c
  <2>3. call'[w] = c /\ Others(w)
    BY <2>2, BecomeShape
  <2> QED
    BY <1>1, <1>2, <1>3, <1>4, <2>1, <2>3 DEF Writes
<1>5. CASE n = 10
  <2> DEFINE fr == [To("describe") EXCEPT !.caught = TRUE]
             c == [call[w] EXCEPT !.at = "sync", !.gen = None, !.next = 1, !.open = FALSE,
                                  !.replaces = FALSE, !.back = <<fr>> \o call[w].back]
  <2>1. c.at = "sync" /\ c.back = <<fr>> \o call[w].back /\ Keeps(call[w], c)
    BY <1>1 DEF Call, Keeps
  <2>2. fr \in Frame /\ fr.at = "describe"
    BY DEF To, Frame, Point
  <2>3. Become(w, c)
    BY <1>1, <1>5, FileFacts DEF FlushFile, Call
  <2> HIDE DEF c, fr
  <2>4. call'[w] = c /\ Others(w)
    BY <2>3, BecomeShape
  <2> QED
    BY <1>1, <1>2, <1>3, <1>5, <2>1, <2>2, <2>4 DEF Writes
<1>6. n < 10 \/ n = 10
  BY <1>1
<1> QED
  BY <1>4, <1>5, <1>6

(* The steps of the PAdES engine: what the handler does next.                 *)
Fetching(fs) == [Idle EXCEPT !.at = "load", !.todo = fs]
Syncing == [Idle EXCEPT !.at = "sync", !.back = <<To("caller")>>]
Calling == [Idle EXCEPT !.at = "caller"]

LEMMA HandlerCalls ==
    /\ \A fs : /\ Fetching(fs).at = "load" /\ Fetching(fs).op = "none" /\ Fetching(fs).back = <<>>
               /\ Fetching(fs).todo = fs /\ Fetching(fs).got = <<>>
    /\ /\ Syncing.at = "sync" /\ Syncing.op = "none" /\ Syncing.todo = <<>> /\ Syncing.got = <<>>
       /\ Syncing.back = <<To("caller")>> /\ To("caller").at = "caller"
    /\ Calling.at = "caller" /\ Calling.op = "none" /\ Calling.back = <<>> /\ Calling.got = <<>>
    /\ Idle.at = "idle" /\ Idle.op = "none" /\ Idle.back = <<>> /\ Idle.got = <<>>
    /\ Stuck.at = "stuck" /\ Stuck.op = "none" /\ Stuck.back = <<>> /\ Stuck.got = <<>>
BY DEF Fetching, Syncing, Calling, Stuck, Idle, To

LEMMA PadesShape ==
    ASSUME PkiInv, NEW w \in Worker, PadesStep(w)
    PROVE  /\ Others(w) /\ disk' = disk /\ cut' = cut
           /\ call'[w] \in {Idle, Syncing, Calling, Fetching(<<"userKey">>), Fetching(<<"intCert", "intKey">>),
                            Fetching(<<"intCert", "ocspCert", "ocspKey">>)}
           /\ \/ At(w, "idle") /\ ~overlapped /\ (overlapped' <=> ~NoWriter)
              \/ At(w, "caller") /\ overlapped' = overlapped
              \/ At(w, "load") /\ call[w].todo = <<>> /\ overlapped' = overlapped
<1>1. \E c \in {Idle, Syncing, Calling, Fetching(<<"userKey">>), Fetching(<<"intCert", "intKey">>),
                Fetching(<<"intCert", "ocspCert", "ocspKey">>)} : Become(w, c)
  <2> USE DEF Fetch, End, Syncing, Calling, Fetching
  <2>1. CASE StartSign(w) \/ Status(w) \/ StartFinalize(w)
    BY <2>1 DEF StartSign, Status, StartFinalize, Begin, Synchronise
  <2>2. CASE Signer(w) \/ Match(w)
    BY <2>2 DEF Signer, Match, Collect
  <2>3. CASE Crl(w) \/ Ocsp(w)
    BY <2>3 DEF Crl, Ocsp
  <2>4. CASE SignPdf(w) \/ PrepareClient(w) \/ Finalize(w)
    BY <2>4 DEF SignPdf, PrepareClient, Finalize
  <2> QED
    BY <2>1, <2>2, <2>3, <2>4 DEF PadesStep
<1>2. PkiSame
  BY DEF PadesStep, StartSign, Status, Signer, Match, Crl, Ocsp, SignPdf, PrepareClient, StartFinalize, Finalize
<1>3. \/ At(w, "idle") /\ ~overlapped /\ (overlapped' <=> ~NoWriter)
      \/ At(w, "caller") /\ overlapped' = overlapped
      \/ At(w, "load") /\ call[w].todo = <<>> /\ overlapped' = overlapped
  BY DEF PadesStep, StartSign, Status, Signer, Match, Crl, Ocsp, SignPdf, PrepareClient, StartFinalize, Finalize,
         Begin, Overlaps, NoWriter, Doing, Loaded
<1> QED
  BY <1>1, <1>2, <1>3, BecomeShape DEF PkiSame
-----------------------------------------------------------------------------
(* The files while they are written.  The files before the writer are not of  *)
(* its generation yet; as long as no handler was disturbed, nobody else is    *)
(* busy while the writer is; and a whole pair of CA certificates has the      *)
(* intermediate key that belongs to it, wherever a crash cut the writing.     *)

Behind ==
    \A w \in Worker : At(w, "write") =>
        \A i \in 1 .. 10 : i >= call[w].next => disk[Files[i]] # call[w].gen
Writing(w) == At(w, "write") /\ (call[w].open \/ call[w].next > 1)
WriterAlone ==
    ~overlapped => \A v, w \in Worker : Writing(v) /\ v # w => At(w, "idle")
CaInv ==
    disk["rootCert"] = disk["intCert"] /\ disk["intCert"] \in Gen =>
        disk["intKey"] = disk["intCert"]
FilesInv == Behind /\ WriterAlone /\ CaInv

(* A step that writes no file: a handler that begins to create the PKI has    *)
(* drawn a generation that no file holds.                                     *)
Quietly(w) ==
    /\ Others(w) /\ disk' = disk /\ ~At(w, "write")
    /\ call'[w].at = "write" => call'[w].next = 1 /\ ~call'[w].open /\ call'[w].gen \in Fresh
    /\ \/ overlapped' = overlapped /\ ~At(w, "idle")
       \/ (overlapped' <=> ~NoWriter) /\ ~overlapped

LEMMA FreshIsNew == \A g \in Fresh : g \in Gen /\ \A f \in File : disk[f] # g
BY DEF Fresh

LEMMA PkiQuiet ==
    ASSUME PkiInv, NEW w \in Worker, PkiStart(w) \/ PkiStep(w), ~OpenFile(w), ~FlushFile(w)
    PROVE  Quietly(w)
<1>1. CASE PkiStart(w)
  BY <1>1, StartShape DEF Begins, Quietly, Generates, At
<1>2. CASE PkiStep(w)
  <2>1. Others(w) /\ Goes(w) /\ disk' = disk /\ ~At(w, "write")
    BY <1>2, StepShape DEF PkiStep, Describe, SyncRecords, SyncEnrollment, Load, Issue, At
  <2>2. CASE Resumes(w)
    <3>1. PICK i \in DOMAIN call[w].back : call'[w].at = call[w].back[i].at
      BY <2>2 DEF Resumes
    <3>2. call[w].back \in Seq(Frame)
      BY DEF PkiInv, CallsInv, Call
    <3>4. call[w].back[i] \in Frame
      BY <3>1, <3>2
    <3>3. call[w].back[i].at # "write"
      BY <3>4 DEF Frame
    <3> QED
      BY <2>1, <3>1, <3>3 DEF Goes, Quietly
  <2>3. CASE call'[w] = Idle \/ call'[w] = Stuck \/ Loads(w) \/ Lists(w)
    BY <2>1, <2>3, HandlerCalls DEF Goes, Quietly, Loads, Lists
  <2>4. CASE Repairs(w)
    BY <2>1, <2>4 DEF Goes, Quietly, Repairs, Generates
  <2> QED
    BY <2>1, <2>2, <2>3, <2>4 DEF Goes
<1> QED
  BY <1>1, <1>2

LEMMA PadesQuiet ==
    ASSUME PkiInv, NEW w \in Worker, PadesStep(w)
    PROVE  Quietly(w)
BY PadesShape, HandlerCalls DEF Quietly, At

LEMMA QuietKeepsFiles ==
    ASSUME PkiInv, FilesInv, NEW w \in Worker, Quietly(w)
    PROVE  FilesInv'
<1>1. Behind'
  <2> SUFFICES ASSUME NEW v \in Worker, At(v, "write")', NEW i \in 1 .. 10, i >= call'[v].next
               PROVE  disk'[Files[i]] # call'[v].gen
    BY DEF Behind
  <2>1. CASE v = w
    BY <2>1, FileFacts, FreshIsNew DEF Quietly, At
  <2>2. CASE v # w
    BY <2>2 DEF Quietly, Others, At, FilesInv, Behind
  <2> QED
    BY <2>1, <2>2
<1>2. WriterAlone'
  <2> SUFFICES ASSUME ~overlapped', NEW v \in Worker, NEW u \in Worker, Writing(v)', v # u
               PROVE  At(u, "idle")'
    BY DEF WriterAlone
  <2>1. v # w /\ Writing(v)
    BY DEF Quietly, Writing, Others, At
  <2>2. ~overlapped /\ ~At(w, "idle")
    <3>1. ~NoWriter
      BY <2>1 DEF NoWriter, Writing
    <3> QED
      BY <3>1 DEF Quietly
  <2> QED
    BY <2>1, <2>2 DEF FilesInv, WriterAlone, Quietly, Others, At
<1>3. CaInv'
  BY DEF FilesInv, CaInv, Quietly
<1> QED
  BY <1>1, <1>2, <1>3 DEF FilesInv

LEMMA FileNames ==
    /\ Files[1] = "rootKey" /\ Files[2] = "rootCert" /\ Files[3] = "intKey" /\ Files[4] = "intCert"
    /\ {"rootKey", "rootCert", "intKey", "intCert", "userKey", "userCert", "tsaKey", "tsaCert", "ocspKey",
        "ocspCert"} \subseteq File
BY DEF Files, File

LEMMA WriteKeepsFiles ==
    ASSUME PkiInv, FilesInv, NEW w \in Worker, OpenFile(w) \/ FlushFile(w)
    PROVE  FilesInv'
<1> DEFINE n == call[w].next
           g == call[w].gen
<1>1. Writes(w) /\ n \in 1 .. 10 /\ g \in Gen
  BY OpenShape, FlushShape DEF Writes
<1>2. disk'[Files[n]] = Torn \/ disk'[Files[n]] = g
  BY OpenShape, FlushShape
<1>3. \A v \in Worker \ {w} : ~At(v, "write") /\ ~At(v, "write")'
  BY <1>1 DEF Writes, Others, PkiInv, OneWriter, At
<1>4. \A f \in File : f # Files[n] => disk'[f] = disk[f]
  BY <1>1 DEF Writes
<1>5. \A i \in 1 .. 10 : i # n => disk'[Files[i]] = disk[Files[i]]
  BY <1>1, <1>4, FileFacts
<1>6. \A i \in 1 .. 10 : i >= n => disk[Files[i]] # g
  BY <1>1 DEF FilesInv, Behind, Writes
<1>7. \A i \in 1 .. 10 : i < n => disk[Files[i]] = g
  BY <1>1 DEF PkiInv, WriterInv, Writes
<1>8. Behind'
  <2>1. ASSUME At(w, "write")', NEW i \in 1 .. 10, i >= call'[w].next
        PROVE  disk'[Files[i]] # call'[w].gen
    <3>1. CASE OpenFile(w)
      <4>1. call'[w].gen = g /\ call'[w].next = n /\ disk'[Files[n]] = Torn
        BY <3>1, OpenShape
      <4> QED
        BY <1>1, <1>5, <1>6, <2>1, <4>1, PkiAssumption
    <3>2. CASE FlushFile(w)
      <4>1. call'[w].gen = g /\ call'[w].next = n + 1
        BY <2>1, <3>2, FlushShape DEF At
      <4> QED
        BY <1>1, <1>5, <1>6, <2>1, <4>1
    <3> QED
      BY <3>1, <3>2
  <2> QED
    BY <1>3, <2>1 DEF Behind
<1>9. WriterAlone'
  <2>1. ~overlapped' => \A v \in Worker \ {w} : At(v, "idle")'
    BY <1>1 DEF Writes, Others, At
  <2> QED
    BY <1>3, <2>1 DEF WriterAlone, Writing
<1>10. CaInv'
  <2>1. disk'["rootCert"] = IF n = 2 THEN disk'[Files[n]] ELSE disk["rootCert"]
    BY <1>1, <1>5, FileNames
  <2>2. disk'["intCert"] = IF n = 4 THEN disk'[Files[n]] ELSE disk["intCert"]
    BY <1>1, <1>5, FileNames
  <2>3. disk'["intKey"] = IF n = 3 THEN disk'[Files[n]] ELSE disk["intKey"]
    BY <1>1, <1>5, FileNames
  <2>4. n <= 4 => disk["intCert"] # g
    BY <1>1, <1>6, FileNames
  <2>5. /\ n > 2 => disk["rootCert"] = g
        /\ n > 3 => disk["intKey"] = g
    BY <1>1, <1>7, FileNames
  <2>6. CASE n = 2
    BY <1>2, <2>1, <2>2, <2>4, <2>6, PkiAssumption DEF CaInv
  <2>7. CASE n = 3
    BY <1>2, <2>1, <2>2, <2>4, <2>5, <2>7 DEF CaInv
  <2>8. CASE n = 4
    BY <1>2, <2>2, <2>3, <2>5, <2>8, PkiAssumption DEF CaInv
  <2>9. CASE n \notin {2, 3, 4}
    BY <2>1, <2>2, <2>3, <2>9 DEF FilesInv, CaInv
  <2> QED
    BY <2>6, <2>7, <2>8, <2>9
<1> QED
  BY <1>8, <1>9, <1>10 DEF FilesInv

LEMMA CrashKeepsFiles == ASSUME FilesInv, Crash PROVE FilesInv'
BY HandlerCalls DEF Crash, FilesInv, Behind, WriterAlone, CaInv, Writing, At

LEMMA FilesInit == ASSUME PkiInit PROVE FilesInv
BY HandlerCalls, FileNames, PkiAssumption DEF PkiInit, FilesInv, Behind, WriterAlone, CaInv, Writing, At

LEMMA StepKeepsFiles == ASSUME PkiInv, FilesInv, [PadesNext]_all PROVE FilesInv'
<1>1. ASSUME NEW w \in Worker, PadesStep(w) PROVE FilesInv'
  BY <1>1, PadesQuiet, QuietKeepsFiles
<1>2. ASSUME NEW w \in Worker, Elsewhere(w) PROVE FilesInv'
  BY <1>2, PkiQuiet, QuietKeepsFiles, WriteKeepsFiles DEF Elsewhere
<1>3. CASE PadesCrash
  BY <1>3, CrashKeepsFiles DEF PadesCrash
<1>4. CASE UNCHANGED <<disk, call, overlapped>>
  BY <1>4 DEF FilesInv, Behind, WriterAlone, CaInv, Writing, At
<1> QED
  BY <1>1, <1>2, <1>3, <1>4 DEF PadesNext, Revoke, all, pkiVars
-----------------------------------------------------------------------------
(* Types.  PadesTypeOK is not inductive: what a handler puts into a signature *)
(* was read from the files several steps before, in an order of its own.      *)

CertRecord == [serial : Serial \union {None}, by : Gen \union {None}]
EvidenceRecord ==
    [crlBy : Gen \union {None}, listed : BOOLEAN, bad : BOOLEAN, root : Gen \union {None}, inter : Gen \union {None}]
JobRecord ==
    [stage : Stage, serial : Serial \union {None}, cert : CertRecord \union {None}, stamp : Stamper,
     ev : EvidenceRecord, was : SUBSET Serial]

(* What a signing handler knows at each stage.                                *)
JobTyped(j) ==
    /\ j \in JobRecord
    /\ j.stage # "none" => j.serial \in Serial
    /\ j.stage = "match" => j.cert \in CertRecord /\ j.cert.serial = j.cert.by
    /\ j.stage \in {"crl", "ocsp", "sign", "finalize"} => j.cert \in Certificate
    /\ j.stage \in {"ocsp", "sign", "finalize"} => j.ev.crlBy \in Gen
    /\ j.stage \in {"sign", "finalize"} => j.ev \in Evidence

(* Which files a handler has loaded, and which it has yet to load.            *)
Pair(c) ==
    \/ c.got = <<>> /\ c.todo = <<"intCert", "intKey">>
    \/ Len(c.got) = 1 /\ c.todo = <<"intKey">>
    \/ Len(c.got) = 2 /\ c.todo = <<>>
Single(c) ==
    \/ c.got = <<>> /\ c.todo = <<"userKey">>
    \/ Len(c.got) = 1 /\ c.todo = <<>>
Wanted(w) ==
    /\ call[w].op = "issue" => Pair(call[w])
    /\ job[w].stage # "none" => call[w].op = "none" /\ call[w].at \notin {"idle", "stuck"}
    /\ job[w].stage = "match" => Single(call[w])
    /\ job[w].stage = "crl" => Pair(call[w])

RestTyped ==
    /\ records \in Seq(Gen) /\ Once(records)
    /\ enrolled \in [serial : Gen \union {None}, key : Gen \union {None}]
    /\ revoked \subseteq Serial /\ issued \subseteq UserCert
    /\ overlapped \in BOOLEAN /\ cut \in BOOLEAN /\ crashed \in BOOLEAN
JobsTyped ==
    /\ job \in [Worker -> JobRecord]
    /\ \A w \in Worker : JobTyped(job[w]) /\ Wanted(w)
    /\ \A j \in presigns : JobTyped(j) /\ j.stage = "sign"
TypesInv == RestTyped /\ JobsTyped /\ pdfs \subseteq Pdf

LEMMA TypesImply == ASSUME PkiInv, TypesInv PROVE PadesTypeOK
<1>1. PkiTypeOK
  BY DEF PkiInv, CallsInv, TypesInv, RestTyped, PkiTypeOK, Serial
<1>2. ASSUME NEW w \in Worker, job[w].stage \in {"crl", "ocsp", "sign", "finalize"}
      PROVE  job[w].cert \in Certificate /\ job[w].stamp \in Stamper
  BY <1>2 DEF TypesInv, JobsTyped, JobTyped, JobRecord
<1>3. ASSUME NEW w \in Worker, job[w].stage \in {"sign", "finalize"}
      PROVE  job[w].ev \in Evidence
  BY <1>3 DEF TypesInv, JobsTyped, JobTyped
<1> QED
  BY <1>1, <1>2, <1>3 DEF PadesTypeOK, TypesInv

LEMMA PairLoads ==
    ASSUME NEW c \in Call, Pair(c), c.todo # <<>>, NEW g \in Gen, NEW d,
           d.todo = Tail(c.todo), d.got = Append(c.got, g)
    PROVE  Pair(d)
<1>1. c.got \in Seq(Gen)
  BY DEF Call
<1>2. Len(d.got) = Len(c.got) + 1
  BY <1>1
<1>3. CASE c.got = <<>> /\ c.todo = <<"intCert", "intKey">>
  BY <1>2, <1>3 DEF Pair
<1>4. CASE Len(c.got) = 1 /\ c.todo = <<"intKey">>
  BY <1>2, <1>4 DEF Pair
<1> QED
  BY <1>3, <1>4 DEF Pair

LEMMA SingleLoads ==
    ASSUME NEW c \in Call, Single(c), c.todo # <<>>, NEW g \in Gen, NEW d,
           d.todo = Tail(c.todo), d.got = Append(c.got, g)
    PROVE  Single(d)
<1>1. c.got \in Seq(Gen)
  BY DEF Call
<1>2. Len(d.got) = Len(c.got) + 1
  BY <1>1
<1> QED
  BY <1>2 DEF Single

LEMMA IdleJobTyped == JobTyped(IdleJob) /\ IdleJob.stage = "none"
BY DEF IdleJob, JobTyped, JobRecord, Nothing, EvidenceRecord, Stage, Stamper

(* A step of the PKI: the handler begins, ends, keeps what it has loaded or   *)
(* loads one more file.                                                       *)
Proceeds(w) ==
    /\ Others(w)
    /\ \/ Begins(w)
       \/ /\ ~At(w, "idle")
          /\ call'[w] = Idle \/ call'[w] = Stuck \/ Keeps(call[w], call'[w]) \/ Loads(w)

LEMMA StepProceeds ==
    ASSUME PkiInv, NEW w \in Worker, PkiStart(w) \/ PkiStep(w)
    PROVE  Proceeds(w)
<1>1. CASE PkiStart(w)
  BY <1>1, StartShape DEF Proceeds
<1>2. CASE OpenFile(w) \/ FlushFile(w)
  BY <1>2, OpenShape, FlushShape DEF Writes, Proceeds, At
<1>3. CASE PkiStep(w) /\ ~OpenFile(w) /\ ~FlushFile(w)
  BY <1>3, StepShape DEF Proceeds, Goes, Resumes, Lists, Repairs, Generates
<1> QED
  BY <1>1, <1>2, <1>3
LEMMA CurrentFiles == ASSUME PkiInv, Current PROVE \A f \in File : disk[f] \in Gen \union {Torn}
BY DEF PkiInv, CallsInv, Current

LEMMA LoadedIsTyped ==
    ASSUME PkiInv, PkiInv', NEW w \in Worker, Loads(w)
    PROVE  disk[Head(call[w].todo)] \in Gen
<1>1. call[w].got \in Seq(Gen) /\ call[w].todo \in Seq(File) /\ call'[w].got \in Seq(Gen)
  BY DEF PkiInv, CallsInv, Call
<1> DEFINE s == call[w].got
           g == disk[Head(call[w].todo)]
<1>2. call'[w].got = Append(s, g)
  BY DEF Loads
<1> HIDE DEF s, g
<1>3. s \in Seq(Gen) /\ call'[w].got \in Seq(Gen)
  BY <1>1 DEF s
<1>4. Len(s) + 1 \in 1 .. Len(call'[w].got) /\ call'[w].got[Len(s) + 1] = g
  BY <1>2, <1>3
<1>5. g \in Gen
  BY <1>3, <1>4
<1> QED
  BY <1>5 DEF g

LEMMA ProceedsTyped ==
    ASSUME PkiInv, PkiInv', JobsTyped, NEW w \in Worker, Proceeds(w), UNCHANGED presigns,
           job' = IF call'[w].at \in {"idle", "stuck"} THEN [job EXCEPT ![w] = IdleJob] ELSE job
    PROVE  JobsTyped'
<1>1. call[w] \in Call /\ call'[w] \in Call
  BY DEF PkiInv, CallsInv
<1>2. job' \in [Worker -> JobRecord]
  BY IdleJobTyped DEF JobsTyped, JobTyped
<1>3. ASSUME NEW v \in Worker \ {w} PROVE JobTyped(job'[v]) /\ Wanted(v)'
  <2>1. job'[v] = job[v] /\ call'[v] = call[v]
    BY <1>3 DEF JobsTyped, Proceeds, Others
  <2> QED
    BY <2>1 DEF JobsTyped, Wanted
<1>4. JobTyped(job'[w]) /\ (job'[w] = IdleJob \/ job'[w] = job[w])
  BY IdleJobTyped DEF JobsTyped
<1>5. call'[w].at \in {"idle", "stuck"} => job'[w] = IdleJob
  BY DEF JobsTyped
<1>6. CASE Begins(w)
  <2>1. job[w].stage = "none"
    BY <1>6 DEF Begins, JobsTyped, Wanted, At
  <2>2. job'[w].stage = "none"
    BY <1>4, <2>1, IdleJobTyped
  <2>3. Wanted(w)'
    BY <1>6, <2>2 DEF Begins, Wanted, Pair
  <2> QED
    BY <1>2, <1>3, <1>4, <2>3 DEF JobsTyped
<1>7. CASE call'[w] = Idle \/ call'[w] = Stuck
  <2>1. Wanted(w)'
    BY <1>5, <1>7, IdleJobTyped, HandlerCalls DEF Wanted
  <2> QED
    BY <1>2, <1>3, <1>4, <2>1 DEF JobsTyped
<1>8. CASE Keeps(call[w], call'[w])
  <2>1. Wanted(w)
    BY DEF JobsTyped
  <2>2. Wanted(w)'
    BY <1>4, <1>5, <1>8, <2>1, IdleJobTyped DEF Wanted, Keeps, Pair, Single
  <2> QED
    BY <1>2, <1>3, <1>4, <2>2 DEF JobsTyped
<1>9. CASE Loads(w)
  <2>1. Wanted(w)
    BY DEF JobsTyped
  <2>2. disk[Head(call[w].todo)] \in Gen
    BY <1>9, LoadedIsTyped
  <2>3. Pair(call[w]) => Pair(call'[w])
    BY <1>1, <1>9, <2>2, PairLoads DEF Loads
  <2>4. Single(call[w]) => Single(call'[w])
    BY <1>1, <1>9, <2>2, SingleLoads DEF Loads
  <2>5. call'[w].op = call[w].op /\ call'[w].at = "load"
    BY <1>9 DEF Loads
  <2>6. Wanted(w)'
    BY <1>4, <2>1, <2>3, <2>4, <2>5, IdleJobTyped DEF Wanted
  <2> QED
    BY <1>2, <1>3, <1>4, <2>6 DEF JobsTyped
<1> QED
  BY <1>6, <1>7, <1>8, <1>9 DEF Proceeds

LEMMA PairGot ==
    ASSUME NEW c \in Call, Pair(c), c.todo = <<>>
    PROVE  c.got[1] \in Gen /\ c.got[2] \in Gen
BY DEF Call, Pair

LEMMA PkiKeepsRest ==
    ASSUME PkiInv, RestTyped, JobsTyped, NEW w \in Worker, PkiStart(w) \/ PkiStep(w)
    PROVE  RestTyped'
<1>1. call[w] \in Call /\ disk \in [File -> Gen \union {None, Torn}]
  BY DEF PkiInv, CallsInv
<1>2. \A v \in Worker : Writing(v) \in BOOLEAN /\ At(v, "write") \in BOOLEAN /\ At(v, "idle") \in BOOLEAN
  BY DEF Writing, At
<1>3. CASE PkiStart(w)
  BY <1>3 DEF PkiStart, StartInit, StartDemo, StartIssue, Begin, Overlaps, RestTyped
<1>4. CASE OpenFile(w) \/ FlushFile(w)
  BY <1>4 DEF OpenFile, FlushFile, RestTyped
<1>5. CASE Describe(w) \/ Load(w)
  BY <1>5 DEF Describe, Load, RestTyped
<1>6. CASE SyncRecords(w)
  <2>1. disk["userCert"] \in Gen \union {None, Torn}
    BY <1>1, FileNames
  <2>2. records' = records \/ (disk["userCert"] \in Gen /\ records' = Listed(records, disk["userCert"]))
    BY <1>6, <2>1 DEF SyncRecords
  <2>3. records' \in Seq(Gen) /\ Once(records')
    BY <2>2, ListedOnce DEF RestTyped
  <2> QED
    BY <1>6, <2>3 DEF SyncRecords, RestTyped
<1>7. CASE SyncEnrollment(w)
  <2>1. Current => disk["userKey"] \in Gen \union {Torn}
    BY CurrentFiles, FileNames
  <2>2. call[w].serial \in Gen \union {None}
    BY <1>1 DEF Call
  <2>3. enrolled' \in [serial : Gen \union {None}, key : Gen \union {None}]
    BY <1>7, <2>1, <2>2 DEF SyncEnrollment, RestTyped
  <2> QED
    BY <1>7, <2>3 DEF SyncEnrollment, RestTyped
<1>8. CASE Issue(w)
  <2>1. Pair(call[w])
    BY <1>8 DEF Issue, JobsTyped, Wanted
  <2>2. call[w].got[1] \in Gen /\ call[w].got[2] \in Gen
    BY <1>1, <1>8, <2>1, PairGot DEF Issue
  <2>3. issued' \subseteq UserCert
    BY <1>8, <2>2 DEF Issue, RestTyped, UserCert
  <2> QED
    BY <1>8, <2>3 DEF Issue, RestTyped
<1> QED
  BY <1>3, <1>4, <1>5, <1>6, <1>7, <1>8 DEF PkiStep
(* The steps of the PAdES engine.                                             *)
LEMMA HandlerTyped ==
    ASSUME PkiInv, JobsTyped, NEW w \in Worker, NEW j, JobTyped(j), Others(w),
           Set(w, j), presigns' \subseteq presigns \union {job[w]},
           presigns' \subseteq presigns \/ job[w].stage = "sign", Wanted(w)'
    PROVE  JobsTyped'
<1>1. job' \in [Worker -> JobRecord]
  BY DEF JobsTyped, Set, JobTyped
<1>2. ASSUME NEW v \in Worker \ {w} PROVE JobTyped(job'[v]) /\ Wanted(v)'
  <2>1. job'[v] = job[v] /\ call'[v] = call[v]
    BY <1>2 DEF JobsTyped, Set, Others
  <2> QED
    BY <2>1 DEF JobsTyped, Wanted
<1>3. job'[w] = j
  BY DEF JobsTyped, Set
<1> QED
  BY <1>1, <1>2, <1>3 DEF JobsTyped

LEMMA StamperTyped == ASSUME PkiInv PROVE Timestamper \in Stamper
BY DEF Timestamper, Stamper

LEMMA FetchingPair == Pair(Fetching(<<"intCert", "intKey">>)) /\ Single(Fetching(<<"userKey">>))
BY HandlerCalls DEF Pair, Single

LEMMA CollectTyped ==
    ASSUME PkiInv, JobsTyped, NEW w \in Worker, NEW j, j \in JobRecord, j.serial \in Serial,
           j.cert \in Certificate, Collect(w, j), UNCHANGED presigns
    PROVE  JobsTyped'
<1> DEFINE k == [j EXCEPT !.stage = "crl", !.stamp = Timestamper]
<1>1. JobTyped(k) /\ k.stage = "crl"
  BY StamperTyped DEF JobTyped, JobRecord, Stage
<1>2. Set(w, k) /\ Become(w, Fetching(<<"intCert", "intKey">>))
  BY DEF Collect, Fetch, Fetching
<1> HIDE DEF k
<1>3. job'[w] = k
  BY <1>2 DEF Set, JobsTyped
<1>4. call'[w] = Fetching(<<"intCert", "intKey">>) /\ Others(w)
  BY <1>2, BecomeShape
<1>5. Wanted(w)'
  BY <1>1, <1>3, <1>4, FetchingPair, HandlerCalls DEF Wanted
<1> QED
  BY <1>1, <1>2, <1>4, <1>5, HandlerTyped

LEMMA EndTyped ==
    ASSUME PkiInv, JobsTyped, NEW w \in Worker, End(w), presigns' \subseteq presigns \union {job[w]},
           presigns' \subseteq presigns \/ job[w].stage = "sign"
    PROVE  JobsTyped'
<1>1. Become(w, Idle) /\ Set(w, IdleJob)
  BY DEF End
<1>2. job'[w] = IdleJob /\ call'[w] = Idle /\ Others(w)
  BY <1>1, BecomeShape DEF Set, JobsTyped
<1>3. Wanted(w)'
  BY <1>2, IdleJobTyped, HandlerCalls DEF Wanted
<1> QED
  BY <1>1, <1>2, <1>3, IdleJobTyped, HandlerTyped

LEMMA SynchroniseTyped ==
    ASSUME PkiInv, JobsTyped, NEW w \in Worker, NEW j, JobTyped(j), j.stage \notin {"match", "crl"},
           Become(w, Syncing) \/ Become(w, Calling) \/ Become(w, Fetching(<<"intCert", "ocspCert", "ocspKey">>)),
           Set(w, j), presigns' \subseteq presigns
    PROVE  JobsTyped'
<1>1. job'[w] = j
  BY DEF Set, JobsTyped
<1>2. Others(w) /\ call'[w] \in {Syncing, Calling, Fetching(<<"intCert", "ocspCert", "ocspKey">>)}
  BY BecomeShape
<1>3. Wanted(w)'
  BY <1>1, <1>2, HandlerCalls DEF Wanted
<1> QED
  BY <1>2, <1>3, HandlerTyped
LEMMA SerialTyped == ASSUME RestTyped, NEW s \in Listing \union issued PROVE s \in Serial
BY DEF RestTyped, Listing, Serial

LEMMA StartsTyped ==
    ASSUME PkiInv, RestTyped, JobsTyped, NEW w \in Worker, StartSign(w) \/ StartFinalize(w)
    PROVE  JobsTyped'
<1>1. CASE StartSign(w)
  <2>1. PICK s \in Listing \union issued :
            Become(w, Syncing) /\ Set(w, [IdleJob EXCEPT !.stage = "status", !.serial = s, !.was = revoked])
    BY <1>1 DEF StartSign, Begin, Syncing
  <2> DEFINE j == [IdleJob EXCEPT !.stage = "status", !.serial = s, !.was = revoked]
  <2>2. JobTyped(j) /\ j.stage = "status"
    BY SerialTyped, IdleJobTyped DEF JobTyped, JobRecord, IdleJob, Stage, RestTyped
  <2>3. Set(w, j)
    BY <2>1
  <2> HIDE DEF j
  <2> QED
    BY <1>1, <2>1, <2>2, <2>3, SynchroniseTyped DEF StartSign
<1>2. CASE StartFinalize(w)
  <2>1. PICK i \in presigns :
            /\ Become(w, Syncing) /\ Set(w, [i EXCEPT !.stage = "finalize", !.was = revoked])
            /\ presigns' = presigns \ {i}
    BY <1>2 DEF StartFinalize, Begin, Syncing
  <2> DEFINE j == [i EXCEPT !.stage = "finalize", !.was = revoked]
  <2>2. JobTyped(i) /\ i.stage = "sign"
    BY DEF JobsTyped
  <2>3. JobTyped(j) /\ j.stage = "finalize"
    BY <2>2 DEF JobTyped, JobRecord, Stage, RestTyped
  <2>4. Set(w, j)
    BY <2>1
  <2> HIDE DEF j
  <2>5. presigns' \subseteq presigns
    BY <2>1
  <2> QED
    BY <2>1, <2>3, <2>4, <2>5, SynchroniseTyped
<1> QED
  BY <1>1, <1>2

LEMMA StatusTyped ==
    ASSUME PkiInv, JobsTyped, NEW w \in Worker, Status(w)
    PROVE  JobsTyped'
<1> DEFINE j == [job[w] EXCEPT !.stage = "record"]
<1>1. JobTyped(j) /\ j.stage = "record"
  BY DEF JobsTyped, JobTyped, JobRecord, Stage, Status, Doing
<1>2. CASE End(w)
  BY <1>2, EndTyped DEF Status
<1>3. CASE Synchronise(w) /\ Set(w, j)
  <2>1. Become(w, Syncing) /\ Set(w, j) /\ presigns' \subseteq presigns
    BY <1>3 DEF Synchronise, Syncing, Status
  <2> HIDE DEF j
  <2> QED
    BY <1>1, <2>1, SynchroniseTyped
<1> QED
  BY <1>2, <1>3 DEF Status

LEMMA SignerTyped ==
    ASSUME PkiInv, RestTyped, JobsTyped, NEW w \in Worker, Signer(w)
    PROVE  JobsTyped'
<1>1. job[w] \in JobRecord /\ job[w].serial \in Serial /\ presigns' = presigns
  BY DEF JobsTyped, JobTyped, Signer, Doing
<1>2. CASE job[w].serial \in issued
  <2> DEFINE j == [job[w] EXCEPT !.cert = CertOf(job[w].serial)]
  <2>1. CertOf(job[w].serial) \in Certificate
    BY <1>2 DEF RestTyped, UserCert, CertOf, Certificate, Serial
  <2>2. j \in JobRecord /\ j.serial \in Serial /\ j.cert \in Certificate
    BY <1>1, <2>1 DEF JobRecord, CertRecord, Certificate
  <2>3. Collect(w, j)
    BY <1>2 DEF Signer
  <2> HIDE DEF j
  <2> QED
    BY <1>1, <2>2, <2>3, CollectTyped
<1>3. CASE job[w].serial \notin issued /\ disk["userCert"] = Torn
  BY <1>1, <1>3, EndTyped DEF Signer
<1>4. CASE job[w].serial \notin issued /\ disk["userCert"] # Torn
  <2> DEFINE j == [job[w] EXCEPT !.stage = "match", !.cert = DemoCert(disk["userCert"])]
  <2>1. disk["userCert"] \in Gen \union {None}
    BY <1>4, FileNames DEF PkiInv, CallsInv
  <2>2. JobTyped(j) /\ j.stage = "match"
    BY <1>1, <2>1 DEF JobTyped, JobRecord, CertRecord, Stage, DemoCert, Serial
  <2>3. Set(w, j) /\ Become(w, Fetching(<<"userKey">>))
    BY <1>4 DEF Signer, Fetch, Fetching
  <2> HIDE DEF j
  <2>4. job'[w] = j /\ call'[w] = Fetching(<<"userKey">>) /\ Others(w)
    BY <2>3, BecomeShape DEF Set, JobsTyped
  <2>5. Wanted(w)'
    BY <2>2, <2>4, FetchingPair, HandlerCalls DEF Wanted
  <2> QED
    BY <1>1, <2>2, <2>3, <2>4, <2>5, HandlerTyped
<1> QED
  BY <1>2, <1>3, <1>4

LEMMA MatchTyped ==
    ASSUME PkiInv, JobsTyped, NEW w \in Worker, Match(w)
    PROVE  JobsTyped'
<1>1. job[w] \in JobRecord /\ job[w].serial \in Serial /\ presigns' = presigns /\ JobTyped(job[w])
  BY DEF JobsTyped, JobTyped, Match, Loaded
<1>2. CASE call[w].got[1] = job[w].cert.serial
  <2>1. Single(call[w]) /\ call[w].todo = <<>> /\ call[w].got \in Seq(Gen)
    BY DEF JobsTyped, Wanted, Match, Loaded, PkiInv, CallsInv, Call
  <2>2. call[w].got[1] \in Gen
    BY <2>1 DEF Single
  <2>3. job[w].cert \in Certificate
    BY <1>1, <1>2, <2>2 DEF Certificate, CertRecord, JobTyped, Match, Loaded, Serial
  <2> QED
    BY <1>1, <1>2, <2>3, CollectTyped DEF Match
<1>3. CASE call[w].got[1] # job[w].cert.serial
  BY <1>1, <1>3, EndTyped DEF Match
<1> QED
  BY <1>2, <1>3

LEMMA CrlTyped ==
    ASSUME PkiInv, JobsTyped, NEW w \in Worker, Crl(w)
    PROVE  JobsTyped'
<1> DEFINE j == [job[w] EXCEPT !.stage = "ocsp", !.ev.crlBy = call[w].got[2],
                               !.ev.listed = job[w].cert.serial \in revoked]
<1>1. Pair(call[w]) /\ call[w].todo = <<>> /\ call[w] \in Call
  BY DEF JobsTyped, Wanted, Crl, Loaded, PkiInv, CallsInv
<1>2. call[w].got[2] \in Gen
  BY <1>1, PairGot
<1>3. JobTyped(j) /\ j.stage = "ocsp"
  <2> DEFINE l == job[w].cert.serial \in revoked
             e == [job[w].ev EXCEPT !.crlBy = call[w].got[2], !.listed = l]
             k == [job[w] EXCEPT !.stage = "ocsp", !.ev = e]
  <2>1. job[w].ev \in EvidenceRecord /\ job[w] \in JobRecord /\ JobTyped(job[w]) /\ job[w].stage = "crl"
    BY DEF JobsTyped, JobTyped, JobRecord, Crl, Loaded
  <2>2. l \in BOOLEAN
    OBVIOUS
  <2>3. j = k
    BY <2>1 DEF JobRecord, EvidenceRecord
  <2> HIDE DEF l, j
  <2>4. e \in EvidenceRecord /\ e.crlBy \in Gen
    BY <1>2, <2>1, <2>2 DEF EvidenceRecord
  <2> HIDE DEF e
  <2>5. JobTyped(k) /\ k.stage = "ocsp"
    BY <2>1, <2>4 DEF JobTyped, JobRecord, Stage
  <2> QED
    BY <2>3, <2>5
<1>4. Set(w, j) /\ Become(w, Fetching(<<"intCert", "ocspCert", "ocspKey">>)) /\ presigns' \subseteq presigns
  BY DEF Crl, Fetch, Fetching
<1> HIDE DEF j
<1> QED
  BY <1>3, <1>4, SynchroniseTyped

LEMMA OcspTyped ==
    ASSUME PkiInv, JobsTyped, NEW w \in Worker, Ocsp(w)
    PROVE  JobsTyped'
<1> DEFINE j == [job[w] EXCEPT !.stage = "sign", !.ev.bad = job[w].cert.serial \in revoked,
                               !.ev.root = disk["rootCert"], !.ev.inter = disk["intCert"]]
<1>1. CASE {disk["rootCert"], disk["intCert"]} \subseteq Gen
  <2>1. JobTyped(j) /\ j.stage = "sign"
    <3> DEFINE l == job[w].cert.serial \in revoked
               e == [job[w].ev EXCEPT !.bad = l, !.root = disk["rootCert"], !.inter = disk["intCert"]]
               k == [job[w] EXCEPT !.stage = "sign", !.ev = e]
    <3>1. /\ job[w].ev \in EvidenceRecord /\ job[w] \in JobRecord /\ JobTyped(job[w])
          /\ job[w].stage = "ocsp" /\ job[w].ev.crlBy \in Gen
      BY DEF JobsTyped, JobTyped, JobRecord, Ocsp, Loaded
    <3>2. l \in BOOLEAN
      OBVIOUS
    <3>3. j = k
      BY <3>1 DEF JobRecord, EvidenceRecord
    <3> HIDE DEF l, j
    <3>4. e \in EvidenceRecord /\ e \in Evidence
      BY <1>1, <3>1, <3>2 DEF EvidenceRecord, Evidence
    <3> HIDE DEF e
    <3>5. JobTyped(k) /\ k.stage = "sign"
      BY <3>1, <3>4 DEF JobTyped, JobRecord, Stage, Evidence
    <3> QED
      BY <3>3, <3>5
  <2>2. Set(w, j) /\ Become(w, Calling) /\ presigns' \subseteq presigns
    BY <1>1 DEF Ocsp, Calling
  <2> HIDE DEF j
  <2> QED
    BY <2>1, <2>2, SynchroniseTyped
<1>2. CASE ~({disk["rootCert"], disk["intCert"]} \subseteq Gen)
  BY <1>2, EndTyped DEF Ocsp
<1> QED
  BY <1>1, <1>2

LEMMA LastStepTyped ==
    ASSUME PkiInv, JobsTyped, NEW w \in Worker, SignPdf(w) \/ PrepareClient(w) \/ Finalize(w)
    PROVE  JobsTyped'
<1>1. End(w) /\ presigns' \subseteq presigns \union {job[w]}
  BY DEF SignPdf, PrepareClient, Finalize
<1>2. presigns' \subseteq presigns \/ job[w].stage = "sign"
  BY DEF SignPdf, PrepareClient, Finalize, Doing
<1> QED
  BY <1>1, <1>2, EndTyped
LEMMA StoredTyped ==
    ASSUME pdfs \subseteq Pdf, NEW j, j \in JobRecord, j.cert \in Certificate, NEW key \in Serial,
           NEW dss \in BOOLEAN, Store(Draft(j, key, dss))
    PROVE  pdfs' \subseteq Pdf
<1> DEFINE m == disk["intCert"] # j.cert.by
           l == j.cert.serial \in j.was
           p == Draft(j, key, dss)
           a == Achieved(p)
           r == Recomputed(p)
           q == [p EXCEPT !.achieved = a, !.recomputed = r]
<1>1. m \in BOOLEAN /\ l \in BOOLEAN
  OBVIOUS
<1>2. p = [cert |-> j.cert, key |-> key, stamp |-> j.stamp, dss |-> dss, achieved |-> "PAdES-B-B",
           recomputed |-> "PAdES-B-B", moved |-> m, late |-> l]
  BY DEF Draft
<1>3. a \in Profile /\ r \in Profile
  BY DEF Achieved, Recomputed, Profile
<1>4. pdfs' = pdfs \union {q}
  BY DEF Store
<1>5. j.stamp \in Stamper /\ "PAdES-B-B" \in Profile
  BY DEF JobRecord, Profile
<1> HIDE DEF m, l, a, r, p
<1>6. p \in Pdf
  BY <1>1, <1>2, <1>5 DEF Pdf
<1>7. q \in Pdf
  BY <1>3, <1>6 DEF Pdf
<1> QED
  BY <1>4, <1>7

LEMMA PadesKeepsPdfs ==
    ASSUME PkiInv, JobsTyped, pdfs \subseteq Pdf, NEW w \in Worker, PadesStep(w)
    PROVE  pdfs' \subseteq Pdf
<1>1. job[w] \in JobRecord /\ JobTyped(job[w])
  BY DEF JobsTyped, JobTyped
<1>2. CASE SignPdf(w)
  <2>1. job[w].cert \in Certificate
    BY <1>1, <1>2 DEF SignPdf, Doing, JobTyped
  <2>2. ASSUME disk["userKey"] \in Gen, NEW heeded \in BOOLEAN,
               Store(Draft(job[w], disk["userKey"], Embeds(job[w], heeded)))
        PROVE  pdfs' \subseteq Pdf
    <3> DEFINE e == Embeds(job[w], heeded)
    <3>1. e \in BOOLEAN
      BY DEF Embeds, PathValid, StampTrusted
    <3>2. disk["userKey"] \in Serial
      BY <2>2 DEF Serial
    <3>3. Store(Draft(job[w], disk["userKey"], e))
      BY <2>2
    <3> HIDE DEF e
    <3> QED
      BY <1>1, <2>1, <3>1, <3>2, <3>3, StoredTyped
  <2> QED
    BY <1>2, <2>2 DEF SignPdf
<1>3. CASE Finalize(w)
  <2>1. job[w].cert \in Certificate /\ job[w].serial \in Serial
    BY <1>1, <1>3 DEF Finalize, Doing, JobTyped
  <2> QED
    BY <1>1, <1>3, <2>1, StoredTyped DEF Finalize
<1>4. CASE pdfs' = pdfs
  BY <1>4
<1>5. SignPdf(w) \/ Finalize(w) \/ pdfs' = pdfs
  BY DEF PadesStep, StartSign, Status, Signer, Match, Crl, Ocsp, PrepareClient, StartFinalize
<1> QED
  BY <1>2, <1>3, <1>4, <1>5

LEMMA PadesKeepsTypes ==
    ASSUME PkiInv, TypesInv, NEW w \in Worker, PadesStep(w)
    PROVE  TypesInv'
<1>1. RestTyped /\ JobsTyped /\ pdfs \subseteq Pdf
  BY DEF TypesInv
<1>2. JobsTyped'
  BY <1>1, StartsTyped, StatusTyped, SignerTyped, MatchTyped, CrlTyped, OcspTyped, LastStepTyped DEF PadesStep
<1>3. PkiSame /\ overlapped' \in BOOLEAN
  <2>1. PkiSame
    BY DEF PadesStep, StartSign, Status, Signer, Match, Crl, Ocsp, SignPdf, PrepareClient, StartFinalize, Finalize
  <2>2. NoWriter \in BOOLEAN /\ overlapped \in BOOLEAN
    BY <1>1 DEF NoWriter, RestTyped
  <2>3. overlapped' = overlapped \/ Overlaps
    BY DEF PadesStep, StartSign, Status, Signer, Match, Crl, Ocsp, SignPdf, PrepareClient, StartFinalize, Finalize, Begin
  <2>4. Overlaps => overlapped' \in BOOLEAN
    BY DEF Overlaps
  <2> QED
    BY <2>1, <2>2, <2>3, <2>4
<1>4. RestTyped'
  BY <1>1, <1>3 DEF RestTyped, PkiSame
<1>5. pdfs' \subseteq Pdf
  BY <1>1, PadesKeepsPdfs
<1> QED
  BY <1>2, <1>4, <1>5 DEF TypesInv

LEMMA ElsewhereKeepsTypes ==
    ASSUME PkiInv, PkiInv', TypesInv, NEW w \in Worker, Elsewhere(w)
    PROVE  TypesInv'
<1>1. RestTyped /\ JobsTyped /\ pdfs \subseteq Pdf
  BY DEF TypesInv
<1>2. RestTyped'
  BY <1>1, PkiKeepsRest DEF Elsewhere
<1>3. JobsTyped'
  BY <1>1, StepProceeds, ProceedsTyped DEF Elsewhere
<1> QED
  BY <1>1, <1>2, <1>3 DEF TypesInv, Elsewhere

LEMMA RestKeepsTypes ==
    ASSUME PkiInv, TypesInv, PadesCrash \/ (Revoke /\ UNCHANGED padesVars) \/ UNCHANGED all
    PROVE  TypesInv'
<1>1. RestTyped /\ JobsTyped /\ pdfs \subseteq Pdf
  BY DEF TypesInv
<1>2. CASE PadesCrash
  <2>1. RestTyped'
    BY <1>1, <1>2 DEF PadesCrash, Crash, RestTyped, Quiet
  <2>2. ASSUME NEW w \in Worker PROVE JobTyped(job'[w]) /\ Wanted(w)' /\ job'[w] \in JobRecord
    <3>1. job'[w] = IdleJob /\ call'[w] = Idle
      BY <1>2 DEF PadesCrash, Crash
    <3> QED
      BY <3>1, IdleJobTyped, HandlerCalls DEF Wanted, JobTyped
  <2>3. job' \in [Worker -> JobRecord]
    BY <1>2, IdleJobTyped DEF PadesCrash, JobTyped
  <2> QED
    BY <1>2, <2>1, <2>2, <2>3 DEF TypesInv, JobsTyped, PadesCrash
<1>3. CASE Revoke /\ UNCHANGED padesVars
  <2>1. Listing \union issued \subseteq Serial
    BY <1>1, SerialTyped
  <2>2. RestTyped'
    BY <1>1, <1>3, <2>1 DEF Revoke, RestTyped
  <2>3. JobsTyped'
    BY <1>1, <1>3 DEF Revoke, padesVars, JobsTyped, Wanted
  <2> QED
    BY <1>1, <1>3, <2>2, <2>3 DEF TypesInv, padesVars
<1>4. CASE UNCHANGED all
  BY <1>1, <1>4 DEF TypesInv, RestTyped, JobsTyped, Wanted, all, pkiVars, padesVars
<1> QED
  BY <1>2, <1>3, <1>4

LEMMA TypesInit == ASSUME PadesInit PROVE TypesInv
<1>1. RestTyped
  <2>1. records = <<>> /\ enrolled = [serial |-> None, key |-> None] /\ revoked = {} /\ issued = {}
    BY DEF PadesInit, PkiInit
  <2>2. overlapped \in BOOLEAN /\ cut \in BOOLEAN /\ crashed \in BOOLEAN
    BY DEF PadesInit, PkiInit
  <2>3. records \in Seq(Gen) /\ Once(records)
    BY <2>1 DEF Once
  <2>4. enrolled \in [serial : Gen \union {None}, key : Gen \union {None}]
    BY <2>1
  <2> QED
    BY <2>1, <2>2, <2>3, <2>4 DEF RestTyped
<1>2. \A w \in Worker : job[w] = IdleJob /\ call[w] = Idle
  BY DEF PadesInit, PkiInit
<1>3. job \in [Worker -> JobRecord]
  BY IdleJobTyped DEF PadesInit, JobTyped
<1>4. \A w \in Worker : JobTyped(job[w]) /\ Wanted(w)
  BY <1>2, IdleJobTyped, HandlerCalls DEF Wanted
<1> QED
  BY <1>1, <1>3, <1>4 DEF TypesInv, JobsTyped, PadesInit

LEMMA StepKeepsTypes == ASSUME PkiInv, PkiInv', TypesInv, [PadesNext]_all PROVE TypesInv'
BY PadesKeepsTypes, ElsewhereKeepsTypes, RestKeepsTypes DEF PadesNext

(* Every variable keeps its type: in particular a handler that gets to a      *)
(* signature holds a certificate with a serial and an issuer, a timestamper   *)
(* that could be built or none, and the evidence of two CA certificates that  *)
(* loaded, whatever crash or repair came between its reads.                   *)
THEOREM PadesTypes == PadesSpec => []PadesTypeOK
<1>1. PadesInit => PkiInv /\ TypesInv
  BY InitInv, TypesInit DEF PadesInit
<1>2. PkiInv /\ TypesInv /\ [PadesNext]_all => (PkiInv /\ TypesInv)'
  BY NextInv, StepKeepsTypes
<1>3. PkiInv /\ TypesInv => PadesTypeOK
  BY TypesImply
<1> QED
  BY <1>1, <1>2, <1>3, PTL DEF PadesSpec
-----------------------------------------------------------------------------
(* What a signing handler may rely on between its reads, although it reads    *)
(* the PKI file by file.  Tracking: it has read a file whose generation it    *)
(* depends on.  As long as nobody wrote under a handler, the files are then   *)
(* still the ones that it read, and the list of its CRL names every           *)
(* certificate that had been revoked when it began.                           *)

Tracking(w) ==
    \/ job[w].stage \in {"match", "crl"} /\ call[w].got # <<>>
    \/ job[w].stage \in {"ocsp", "sign"}
    \/ job[w].stage = "crl" /\ job[w].cert.serial \in Gen
Watched(w) ==
    /\ Current /\ ~At(w, "write")
    /\ job[w].stage = "match" => call[w].got[1] = disk["userKey"]
    /\ job[w].stage # "match" /\ job[w].cert.serial \in Gen => disk["userKey"] = job[w].cert.serial
    /\ job[w].stage = "crl" /\ call[w].todo = <<>> => call[w].got[2] = disk["intKey"]
    /\ job[w].stage \in {"ocsp", "sign"} =>
           job[w].ev.crlBy = disk["intKey"] /\ (job[w].cert.serial \in job[w].was => job[w].ev.listed)
    /\ job[w].stage = "sign" => job[w].ev.root = disk["rootCert"] /\ job[w].ev.inter = disk["intCert"]
Watch(w) == ~overlapped /\ Tracking(w) => Watched(w)

(* The certificate of a user is the one of the request; what had been revoked *)
(* when a handler began stays revoked.                                        *)
Own(w) ==
    job[w].stage \in {"crl", "ocsp", "sign"} /\ job[w].cert.serial \notin Gen =>
        job[w].cert.serial = job[w].serial
Follows(w) == Watch(w) /\ Own(w) /\ job[w].was \subseteq revoked
WatchInv == \A w \in Worker : Follows(w)

JobOthers(w) == \A v \in Worker \ {w} : job'[v] = job[v]

LEMMA OthersFollow ==
    ASSUME PkiInv, WatchInv, NEW w \in Worker, NEW v \in Worker \ {w}, Others(w), JobOthers(w),
           disk' = disk, revoked \subseteq revoked', overlapped => overlapped'
    PROVE  Follows(v)'
<1>1. job'[v] = job[v] /\ call'[v] = call[v] /\ Follows(v)
  BY DEF Others, JobOthers, WatchInv
<1>2. Current' <=> Current
  BY DEF Current
<1>3. Tracking(v)' <=> Tracking(v)
  BY <1>1 DEF Tracking
<1>4. Watched(v) => Watched(v)'
  BY <1>1, <1>2 DEF Watched, At
<1>5. Own(v)' /\ job'[v].was \subseteq revoked'
  BY <1>1 DEF Own, Follows
<1> QED
  BY <1>1, <1>3, <1>4, <1>5 DEF Follows, Watch

LEMMA WriteFollows ==
    ASSUME PkiInv, JobsTyped, WatchInv, NEW w \in Worker, OpenFile(w) \/ FlushFile(w), UNCHANGED <<job, revoked>>
    PROVE  WatchInv'
<1>1. Writes(w)
  BY OpenShape, FlushShape
<1>2. SUFFICES ASSUME NEW v \in Worker PROVE Follows(v)'
  BY DEF WatchInv
<1>3. Follows(v) /\ job'[v] = job[v] /\ revoked' = revoked
  BY DEF WatchInv
<1>4. Own(v)' /\ job'[v].was \subseteq revoked'
  BY <1>3 DEF Own, Follows
<1>5. call'[v].got = call[v].got
  BY <1>1 DEF Writes, Keeps, Others
<1>6. Tracking(v)' => Tracking(v)
  BY <1>3, <1>5 DEF Tracking
<1>7. Tracking(v) => ~At(v, "idle")
  BY DEF Tracking, JobsTyped, Wanted, At
<1>8. ~(~overlapped' /\ Tracking(v)')
  <2>1. CASE v = w
    BY <1>1, <1>3, <1>6, <2>1 DEF Follows, Watch, Watched, Writes
  <2>2. CASE v # w
    BY <1>1, <1>6, <1>7, <2>2 DEF Writes
  <2> QED
    BY <2>1, <2>2
<1> QED
  BY <1>4, <1>8 DEF Follows, Watch

LEMMA IdleJobFollows ==
    ASSUME NEW w \in Worker, job'[w].stage \in {"none", "status", "record", "finalize"},
           job'[w].was \subseteq revoked'
    PROVE  Follows(w)'
BY DEF Follows, Watch, Tracking, Own
LEMMA OnlyRepairsWrite ==
    ASSUME PkiInv, NEW w \in Worker, PkiStep(w), ~OpenFile(w), ~FlushFile(w), call'[w].at = "write"
    PROVE  ~Current
<1>1. Goes(w)
  BY StepShape
<1>2. ~Resumes(w)
  <2> SUFFICES ASSUME Resumes(w) PROVE FALSE
    OBVIOUS
  <2>1. PICK i \in DOMAIN call[w].back : call'[w].at = call[w].back[i].at
    BY DEF Resumes
  <2>2. call[w].back \in Seq(Frame)
    BY DEF PkiInv, CallsInv, Call
  <2>3. call[w].back[i] \in Frame
    BY <2>1, <2>2
  <2> QED
    BY <2>1, <2>3 DEF Frame
<1> QED
  BY <1>1, <1>2, HandlerCalls DEF Goes, Loads, Lists, Repairs

LEMMA LoadFollows ==
    ASSUME PkiInv, PkiInv', JobsTyped, NEW w \in Worker, Loads(w), Watch(w), disk' = disk,
           overlapped' = overlapped, job'[w] = job[w]
    PROVE  Watch(w)'
<1> DEFINE g == disk[Head(call[w].todo)]
<1>1. /\ call[w].got \in Seq(Gen) /\ g \in Gen /\ call'[w].got = Append(call[w].got, g)
      /\ call[w].todo # <<>> /\ call'[w].todo = Tail(call[w].todo) /\ call'[w].at = "load"
  BY LoadedIsTyped DEF PkiInv, CallsInv, Call, Loads
<1>2. Current /\ Current'
  BY DEF Loads, Current
<1>3. CASE job[w].stage = "match"
  <2>1. call[w].got = <<>> /\ call[w].todo = <<"userKey">>
    <3>1. Single(call[w])
      BY <1>3 DEF JobsTyped, Wanted
    <3> QED
      BY <1>1, <3>1 DEF Single
  <2>2. call'[w].got[1] = disk["userKey"]
    BY <1>1, <2>1
  <2> QED
    BY <1>1, <1>2, <1>3, <2>2 DEF Watch, Watched, At
<1>4. CASE job[w].stage = "crl"
  <2>1. Pair(call[w])
    BY <1>4 DEF JobsTyped, Wanted
  <2>2. call'[w].todo = <<>> => call'[w].got[2] = disk["intKey"]
    <3>1. CASE call[w].got = <<>> /\ call[w].todo = <<"intCert", "intKey">>
      <4>1. Len(Tail(<<"intCert", "intKey">>)) = 1
        OBVIOUS
      <4>2. Len(call'[w].todo) = 1
        BY <1>1, <3>1, <4>1
      <4> QED
        BY <4>2
    <3>2. CASE Len(call[w].got) = 1 /\ call[w].todo = <<"intKey">>
      BY <1>1, <3>2
    <3> QED
      BY <1>1, <2>1, <3>1, <3>2 DEF Pair
  <2>3. job[w].cert.serial \in Gen /\ ~overlapped => disk["userKey"] = job[w].cert.serial
    BY <1>4 DEF Watch, Watched, Tracking
  <2> QED
    BY <1>1, <1>2, <1>4, <2>2, <2>3 DEF Watch, Watched, At
<1>5. CASE job[w].stage \notin {"match", "crl"}
  BY <1>1, <1>2, <1>5 DEF Watch, Watched, Tracking, At
<1> QED
  BY <1>3, <1>4, <1>5

LEMMA QuietFollows ==
    ASSUME PkiInv, PkiInv', JobsTyped, WatchInv, NEW w \in Worker, PkiStart(w) \/ PkiStep(w),
           ~OpenFile(w), ~FlushFile(w), disk' = disk, revoked' = revoked,
           job' = IF call'[w].at \in {"idle", "stuck"} THEN [job EXCEPT ![w] = IdleJob] ELSE job
    PROVE  WatchInv'
<1>1. Proceeds(w) /\ Others(w) /\ JobOthers(w) /\ Follows(w) /\ (overlapped => overlapped')
  <2>1. Proceeds(w)
    BY StepProceeds
  <2>2. overlapped => overlapped'
    BY StartShape, StepShape DEF Begins, Goes
  <2> QED
    BY <2>1, <2>2 DEF Proceeds, JobOthers, JobsTyped, WatchInv
<1>2. \A v \in Worker \ {w} : Follows(v)'
  BY <1>1, OthersFollow
<1>3. job'[w] = IdleJob \/ (job'[w] = job[w] /\ call'[w].at \notin {"idle", "stuck"})
  BY DEF JobsTyped
<1>4. CASE job'[w] = IdleJob
  <2>1. job'[w].stage = "none" /\ job'[w].was = {}
    BY <1>4 DEF IdleJob
  <2> QED
    BY <1>2, <2>1, IdleJobFollows DEF WatchInv
<1>5. CASE job'[w] = job[w] /\ call'[w].at \notin {"idle", "stuck"}
  <2>1. Own(w)' /\ job'[w].was \subseteq revoked'
    BY <1>1, <1>5 DEF Own, Follows
  <2>2. CASE PkiStart(w)
    <3>1. job[w].stage = "none"
      BY <2>2, StartShape DEF Begins, JobsTyped, Wanted, At
    <3> QED
      BY <1>2, <1>5, <2>1, <3>1, IdleJobFollows DEF WatchInv
  <2>3. CASE PkiStep(w)
    <3>1. overlapped' = overlapped /\ ~At(w, "idle")
      BY <2>3, StepShape DEF Goes
    <3>2. CASE Loads(w)
      BY <1>1, <1>2, <1>5, <2>1, <3>1, <3>2, LoadFollows DEF Follows, WatchInv
    <3>3. CASE Keeps(call[w], call'[w])
      <4>1. Tracking(w)' <=> Tracking(w)
        BY <1>5, <3>3 DEF Tracking, Keeps
      <4>2. Current' <=> Current
        BY DEF Current
      <4>3. Watched(w) => Watched(w)'
        BY <1>5, <2>3, <3>3, <4>2, OnlyRepairsWrite DEF Watched, Keeps, At
      <4>4. Watch(w)'
        BY <1>1, <3>1, <4>1, <4>3 DEF Watch, Follows
      <4> QED
        BY <1>2, <2>1, <4>4 DEF Follows, WatchInv
    <3> QED
      BY <1>1, <1>5, <3>1, <3>2, <3>3, HandlerCalls DEF Proceeds, Begins
  <2> QED
    BY <2>2, <2>3
<1> QED
  BY <1>3, <1>4, <1>5
(* The steps of the PAdES engine.                                             *)
LEMMA StepSame ==
    ASSUME NEW w \in Worker, PadesStep(w), JobsTyped
    PROVE  JobOthers(w) /\ PkiSame /\ (overlapped => overlapped')
<1>1. PkiSame
  BY DEF PadesStep, StartSign, Status, Signer, Match, Crl, Ocsp, SignPdf, PrepareClient, StartFinalize, Finalize
<1>2. \E j : Set(w, j)
  BY DEF PadesStep, StartSign, Status, Signer, Match, Crl, Ocsp, SignPdf, PrepareClient, StartFinalize, Finalize,
         Collect, End
<1>3. overlapped => overlapped'
  BY DEF PadesStep, StartSign, Status, Signer, Match, Crl, Ocsp, SignPdf, PrepareClient, StartFinalize, Finalize,
         Begin
<1> QED
  BY <1>1, <1>2, <1>3 DEF Set, JobOthers, JobsTyped

LEMMA EndFollows ==
    ASSUME JobsTyped, NEW w \in Worker, End(w)
    PROVE  Follows(w)'
<1>1. job'[w] = IdleJob
  BY DEF End, Set, JobsTyped
<1>2. job'[w].stage = "none" /\ job'[w].was = {}
  BY <1>1 DEF IdleJob
<1> QED
  BY <1>2, IdleJobFollows

LEMMA EarlyFollows ==
    ASSUME PkiInv, JobsTyped, WatchInv, NEW w \in Worker,
           StartSign(w) \/ Status(w) \/ StartFinalize(w) \/ SignPdf(w) \/ PrepareClient(w) \/ Finalize(w)
    PROVE  Follows(w)'
<1>1. job[w] \in JobRecord /\ job[w].was \subseteq revoked
  BY DEF JobsTyped, JobTyped, WatchInv, Follows
<1>2. CASE StartSign(w)
  <2>1. PICK s : Set(w, [IdleJob EXCEPT !.stage = "status", !.serial = s, !.was = revoked])
    BY <1>2 DEF StartSign
  <2> DEFINE j == [IdleJob EXCEPT !.stage = "status", !.serial = s, !.was = revoked]
  <2>2. j.stage = "status" /\ j.was = revoked
    BY DEF IdleJob
  <2>3. job'[w] = j /\ revoked' = revoked
    BY <1>2, <2>1 DEF Set, JobsTyped, StartSign, PkiSame
  <2> HIDE DEF j
  <2> QED
    BY <2>2, <2>3, IdleJobFollows
<1>3. CASE StartFinalize(w)
  <2>1. PICK i \in presigns : Set(w, [i EXCEPT !.stage = "finalize", !.was = revoked])
    BY <1>3 DEF StartFinalize
  <2> DEFINE j == [i EXCEPT !.stage = "finalize", !.was = revoked]
  <2>2. j.stage = "finalize" /\ j.was = revoked
    BY DEF JobsTyped, JobTyped, JobRecord
  <2>3. job'[w] = j /\ revoked' = revoked
    BY <1>3, <2>1 DEF Set, JobsTyped, StartFinalize, PkiSame
  <2> HIDE DEF j
  <2> QED
    BY <2>2, <2>3, IdleJobFollows
<1>4. CASE End(w)
  BY <1>4, EndFollows
<1>5. CASE Status(w) /\ ~End(w)
  <2> DEFINE j == [job[w] EXCEPT !.stage = "record"]
  <2>1. j.stage = "record" /\ j.was = job[w].was
    BY <1>1 DEF JobRecord
  <2>2. job'[w] = j /\ revoked' = revoked
    BY <1>5 DEF Status, Set, JobsTyped, PkiSame
  <2> HIDE DEF j
  <2> QED
    BY <1>1, <2>1, <2>2, IdleJobFollows
<1> QED
  BY <1>2, <1>3, <1>4, <1>5 DEF SignPdf, PrepareClient, Finalize

LEMMA CollectFollows ==
    ASSUME PkiInv, JobsTyped, NEW w \in Worker, NEW j \in JobRecord, j.cert \in Certificate,
           j.was \subseteq revoked, Collect(w, j), PkiSame,
           j.cert.serial \notin Gen => j.cert.serial = j.serial,
           ~overlapped' /\ j.cert.serial \in Gen => Current /\ disk["userKey"] = j.cert.serial
    PROVE  Follows(w)'
<1> DEFINE k == [j EXCEPT !.stage = "crl", !.stamp = Timestamper]
<1>1. k.stage = "crl" /\ k.cert = j.cert /\ k.serial = j.serial /\ k.was = j.was
  BY DEF JobRecord
<1>2. job'[w] = k /\ call'[w] = Fetching(<<"intCert", "intKey">>)
  <2>1. Set(w, k) /\ Become(w, Fetching(<<"intCert", "intKey">>))
    BY DEF Collect, Fetch, Fetching
  <2> HIDE DEF k
  <2> QED
    BY <2>1, BecomeShape DEF Set, JobsTyped
<1> HIDE DEF k
<1>3. disk' = disk /\ revoked' = revoked /\ (Current' <=> Current)
  BY DEF PkiSame, Current
<1>4. call'[w].got = <<>> /\ call'[w].todo = <<"intCert", "intKey">> /\ call'[w].at = "load"
  <2> DEFINE c == Fetching(<<"intCert", "intKey">>)
  <2>1. c.got = <<>> /\ c.todo = <<"intCert", "intKey">> /\ c.at = "load"
    BY HandlerCalls
  <2> HIDE DEF c
  <2> QED
    BY <1>2, <2>1 DEF c
<1>5. Own(w)' /\ job'[w].was \subseteq revoked'
  BY <1>1, <1>2, <1>3 DEF Own
<1>6. Tracking(w)' => j.cert.serial \in Gen
  BY <1>1, <1>2, <1>4 DEF Tracking
<1>7. Watch(w)'
  BY <1>1, <1>2, <1>3, <1>4, <1>6 DEF Watch, Watched, At
<1> QED
  BY <1>5, <1>7 DEF Follows
LEMMA SignerFollows ==
    ASSUME PkiInv, RestTyped, JobsTyped, WatchInv, NEW w \in Worker, Signer(w)
    PROVE  Follows(w)'
<1>1. job[w] \in JobRecord /\ job[w].was \subseteq revoked /\ PkiSame
  BY DEF JobsTyped, JobTyped, WatchInv, Follows, Signer
<1>2. CASE job[w].serial \in issued
  <2> DEFINE j == [job[w] EXCEPT !.cert = CertOf(job[w].serial)]
  <2>1. CertOf(job[w].serial) \in Certificate /\ CertOf(job[w].serial).serial = job[w].serial
    BY <1>2 DEF RestTyped, UserCert, CertOf, Certificate, Serial
  <2>2. job[w].serial \notin Gen
    BY <1>2, SerialAssumption DEF RestTyped
  <2>3. j \in JobRecord /\ j.serial = job[w].serial /\ j.cert = CertOf(job[w].serial) /\ j.was = job[w].was
    BY <1>1, <2>1 DEF JobRecord, CertRecord, Certificate
  <2>4. Collect(w, j)
    BY <1>2 DEF Signer
  <2> HIDE DEF j
  <2> QED
    BY <1>1, <2>1, <2>2, <2>3, <2>4, CollectFollows
<1>3. CASE job[w].serial \notin issued /\ disk["userCert"] = Torn
  BY <1>3, EndFollows DEF Signer
<1>4. CASE job[w].serial \notin issued /\ disk["userCert"] # Torn
  <2> DEFINE j == [job[w] EXCEPT !.stage = "match", !.cert = DemoCert(disk["userCert"])]
             c == Fetching(<<"userKey">>)
  <2>1. j.stage = "match" /\ j.was = job[w].was
    BY <1>1 DEF JobRecord
  <2>2. c.got = <<>>
    BY HandlerCalls
  <2>3. Set(w, j) /\ Become(w, c)
    BY <1>4 DEF Signer, Fetch, Fetching
  <2> HIDE DEF j, c
  <2>4. job'[w] = j /\ call'[w] = c
    BY <2>3, BecomeShape DEF Set, JobsTyped
  <2> QED
    BY <1>1, <2>1, <2>2, <2>4 DEF Follows, Watch, Tracking, Own, PkiSame
<1> QED
  BY <1>2, <1>3, <1>4

LEMMA MatchFollows ==
    ASSUME PkiInv, JobsTyped, WatchInv, NEW w \in Worker, Match(w)
    PROVE  Follows(w)'
<1>1. job[w] \in JobRecord /\ job[w].was \subseteq revoked /\ PkiSame /\ job[w].stage = "match" /\ Watch(w)
  BY DEF JobsTyped, JobTyped, WatchInv, Follows, Match, Loaded
<1>2. CASE call[w].got[1] = job[w].cert.serial
  <2>1. Single(call[w]) /\ call[w].todo = <<>> /\ call[w].got \in Seq(Gen)
    BY DEF JobsTyped, Wanted, Match, Loaded, PkiInv, CallsInv, Call
  <2>2. call[w].got[1] \in Gen /\ call[w].got # <<>>
    BY <2>1 DEF Single
  <2>3. job[w].cert \in Certificate
    BY <1>1, <1>2, <2>2 DEF JobsTyped, Certificate, CertRecord, JobTyped, Serial
  <2>4. ~overlapped => Current /\ disk["userKey"] = job[w].cert.serial
    BY <1>1, <1>2, <2>2 DEF Watch, Watched, Tracking
  <2> QED
    BY <1>1, <1>2, <2>2, <2>3, <2>4, CollectFollows DEF Match
<1>3. CASE call[w].got[1] # job[w].cert.serial
  BY <1>3, EndFollows DEF Match
<1> QED
  BY <1>2, <1>3

LEMMA CrlFollows ==
    ASSUME PkiInv, JobsTyped, WatchInv, NEW w \in Worker, Crl(w)
    PROVE  Follows(w)'
<1> DEFINE l == job[w].cert.serial \in revoked
           e == [job[w].ev EXCEPT !.crlBy = call[w].got[2], !.listed = l]
           k == [job[w] EXCEPT !.stage = "ocsp", !.ev = e]
           c == Fetching(<<"intCert", "ocspCert", "ocspKey">>)
<1>1. /\ job[w].ev \in EvidenceRecord /\ job[w] \in JobRecord /\ job[w].was \subseteq revoked
      /\ job[w].stage = "crl" /\ Watch(w) /\ Own(w) /\ call[w].todo = <<>>
  BY DEF JobsTyped, JobTyped, JobRecord, Crl, Loaded, WatchInv, Follows
<1>2. e.crlBy = call[w].got[2] /\ (e.listed <=> job[w].cert.serial \in revoked)
  BY <1>1 DEF EvidenceRecord
<1>3. Set(w, k) /\ Become(w, c) /\ PkiSame /\ overlapped' = overlapped
  <2>1. Set(w, [job[w] EXCEPT !.stage = "ocsp", !.ev.crlBy = call[w].got[2],
                              !.ev.listed = job[w].cert.serial \in revoked])
    BY DEF Crl
  <2>2. k = [job[w] EXCEPT !.stage = "ocsp", !.ev.crlBy = call[w].got[2],
                           !.ev.listed = job[w].cert.serial \in revoked]
    BY <1>1 DEF JobRecord, EvidenceRecord
  <2> QED
    BY <2>1, <2>2 DEF Crl, Fetch, Fetching
<1>4. c.at = "load"
  BY HandlerCalls
<1> HIDE DEF l, e, c
<1>5. k.stage = "ocsp" /\ k.ev = e /\ k.cert = job[w].cert /\ k.serial = job[w].serial /\ k.was = job[w].was
  BY <1>1 DEF JobRecord
<1> HIDE DEF k
<1>6. job'[w] = k /\ call'[w] = c /\ disk' = disk /\ revoked' = revoked
  BY <1>3, BecomeShape DEF Set, JobsTyped, PkiSame
<1>7. Own(w)' /\ job'[w].was \subseteq revoked'
  BY <1>1, <1>5, <1>6 DEF Own
<1>8. ~overlapped => Watched(w)
  <2>1. call[w].got # <<>>
    <3>1. Pair(call[w]) /\ call[w].got \in Seq(Gen)
      BY <1>1 DEF JobsTyped, Wanted, PkiInv, CallsInv, Call
    <3>2. Len(call[w].got) = 2
      BY <1>1, <3>1 DEF Pair
    <3> QED
      BY <3>2
  <2> QED
    BY <1>1, <2>1 DEF Watch, Tracking
<1>9. Current' <=> Current
  BY <1>6 DEF Current
<1>10. Watched(w) => Watched(w)'
  BY <1>1, <1>2, <1>4, <1>5, <1>6, <1>9 DEF Watched, At
<1> QED
  BY <1>3, <1>7, <1>8, <1>10 DEF Follows, Watch
LEMMA OcspFollows ==
    ASSUME PkiInv, JobsTyped, WatchInv, NEW w \in Worker, Ocsp(w)
    PROVE  Follows(w)'
<1>1. CASE {disk["rootCert"], disk["intCert"]} \subseteq Gen
  <2> DEFINE l == job[w].cert.serial \in revoked
             e == [job[w].ev EXCEPT !.bad = l, !.root = disk["rootCert"], !.inter = disk["intCert"]]
             k == [job[w] EXCEPT !.stage = "sign", !.ev = e]
  <2>1. /\ job[w].ev \in EvidenceRecord /\ job[w] \in JobRecord /\ job[w].was \subseteq revoked
        /\ job[w].stage = "ocsp" /\ Watch(w) /\ Own(w)
    BY DEF JobsTyped, JobTyped, JobRecord, Ocsp, Loaded, WatchInv, Follows
  <2>2. /\ e.crlBy = job[w].ev.crlBy /\ e.listed = job[w].ev.listed
        /\ e.root = disk["rootCert"] /\ e.inter = disk["intCert"]
    BY <2>1 DEF EvidenceRecord
  <2>3. Set(w, k) /\ Become(w, Calling) /\ PkiSame /\ overlapped' = overlapped
    <3>1. Set(w, [job[w] EXCEPT !.stage = "sign", !.ev.bad = job[w].cert.serial \in revoked,
                                !.ev.root = disk["rootCert"], !.ev.inter = disk["intCert"]])
      BY <1>1 DEF Ocsp
    <3>2. k = [job[w] EXCEPT !.stage = "sign", !.ev.bad = job[w].cert.serial \in revoked,
                             !.ev.root = disk["rootCert"], !.ev.inter = disk["intCert"]]
      BY <2>1 DEF JobRecord, EvidenceRecord
    <3> QED
      BY <1>1, <3>1, <3>2 DEF Ocsp, Calling
  <2> HIDE DEF l, e
  <2>5. k.stage = "sign" /\ k.ev = e /\ k.cert = job[w].cert /\ k.serial = job[w].serial /\ k.was = job[w].was
    BY <2>1 DEF JobRecord
  <2> HIDE DEF k
  <2>6. job'[w] = k /\ call'[w] = Calling /\ disk' = disk /\ revoked' = revoked
    BY <2>3, BecomeShape DEF Set, JobsTyped, PkiSame
  <2>7. Own(w)' /\ job'[w].was \subseteq revoked'
    BY <2>1, <2>5, <2>6 DEF Own
  <2>8. ~overlapped => Watched(w)
    BY <2>1 DEF Watch, Tracking
  <2>9. Current' <=> Current
    BY <2>6 DEF Current
  <2>10. Watched(w) => Watched(w)'
    BY <2>1, <2>2, <2>5, <2>6, <2>9, HandlerCalls DEF Watched, At
  <2> QED
    BY <2>3, <2>7, <2>8, <2>10 DEF Follows, Watch
<1>2. CASE ~({disk["rootCert"], disk["intCert"]} \subseteq Gen)
  BY <1>2, EndFollows DEF Ocsp
<1> QED
  BY <1>1, <1>2

LEMMA WatchInit == ASSUME PadesInit PROVE WatchInv
BY DEF PadesInit, WatchInv, Follows, Watch, Tracking, Own, IdleJob

LEMMA StepKeepsWatch ==
    ASSUME PkiInv, PkiInv', TypesInv, WatchInv, [PadesNext]_all
    PROVE  WatchInv'
<1>1. RestTyped /\ JobsTyped
  BY DEF TypesInv
<1>2. ASSUME NEW w \in Worker, PadesStep(w) PROVE WatchInv'
  <2>1. Follows(w)'
    BY <1>1, <1>2, EarlyFollows, SignerFollows, MatchFollows, CrlFollows, OcspFollows DEF PadesStep
  <2>2. Others(w) /\ JobOthers(w) /\ disk' = disk /\ revoked' = revoked /\ (overlapped => overlapped')
    BY <1>1, <1>2, PadesShape, StepSame DEF PkiSame
  <2> QED
    BY <2>1, <2>2, OthersFollow DEF WatchInv
<1>3. ASSUME NEW w \in Worker, Elsewhere(w) PROVE WatchInv'
  <2>1. revoked' = revoked
    BY <1>3 DEF Elsewhere, PkiStart, PkiStep, StartInit, StartDemo, StartIssue, OpenFile, FlushFile, Describe,
                SyncRecords, SyncEnrollment, Load, Issue
  <2>2. job' = IF call'[w].at \in {"idle", "stuck"} THEN [job EXCEPT ![w] = IdleJob] ELSE job
    BY <1>3 DEF Elsewhere
  <2>3. CASE OpenFile(w) \/ FlushFile(w)
    <3>1. call'[w].at \in {"write", "sync"}
      BY <2>3, OpenShape, FlushShape
    <3>2. job' = job
      BY <2>2, <3>1
    <3> QED
      BY <1>1, <2>1, <2>3, <3>2, WriteFollows
  <2>4. CASE ~OpenFile(w) /\ ~FlushFile(w)
    <3>1. disk' = disk
      BY <1>3, <2>4, StartShape, StepShape DEF Elsewhere
    <3> QED
      BY <1>1, <1>3, <2>1, <2>2, <2>4, <3>1, QuietFollows DEF Elsewhere
  <2> QED
    BY <2>3, <2>4
<1>4. CASE PadesCrash
  BY <1>4 DEF PadesCrash, WatchInv, Follows, Watch, Tracking, Own, IdleJob
<1>5. CASE UNCHANGED <<disk, call, overlapped, job>> /\ revoked \subseteq revoked'
  BY <1>5 DEF WatchInv, Follows, Watch, Watched, Tracking, Own, Current, At
<1>6. CASE (Revoke /\ UNCHANGED padesVars) \/ UNCHANGED all
  BY <1>5, <1>6 DEF Revoke, padesVars, all, pkiVars
<1> QED
  BY <1>2, <1>3, <1>4, <1>6 DEF PadesNext
-----------------------------------------------------------------------------
(* What is prepared for a client.  The intermediate CA of a prepared          *)
(* certificate keeps its root as long as it is the one on file, except while  *)
(* another generation is being written; the stamp of a prepared signature is  *)
(* of the same PKI as the certificate.                                        *)

CaHolds(b) ==
    disk["intCert"] = b => disk["rootCert"] = b \/ \E v \in Worker : Writing(v) /\ call[v].gen # b
Prepared(j) ==
    j.cert.serial = j.serial /\
    (~overlapped => (j.stamp # None => j.stamp.cert = j.cert.by) /\ CaHolds(j.cert.by))
PreparedInv ==
    /\ \A j \in presigns : Prepared(j)
    /\ \A w \in Worker : job[w].stage = "finalize" => Prepared(job[w])

LEMMA WriteKeepsCa ==
    ASSUME PkiInv, FilesInv, NEW w \in Worker, OpenFile(w) \/ FlushFile(w), NEW b \in Gen
    PROVE  CaHolds(b)'
<1> DEFINE n == call[w].next
           g == call[w].gen
<1>1. Writes(w) /\ n \in 1 .. 10 /\ g \in Gen
  BY OpenShape, FlushShape DEF Writes
<1>2. \A i \in 1 .. 10 : i # n => disk'[Files[i]] = disk[Files[i]]
  BY <1>1, FileFacts DEF Writes
<1>3. \A i \in 1 .. 10 : i >= n => disk[Files[i]] # g
  BY <1>1 DEF FilesInv, Behind, Writes
<1>4. \A i \in 1 .. 10 : i < n => disk[Files[i]] = g
  BY <1>1 DEF PkiInv, WriterInv, Writes
<1>5. CASE n < 4
  <2>1. disk'["intCert"] = disk["intCert"] /\ disk["intCert"] # g
    BY <1>1, <1>2, <1>3, <1>5, FileNames
  <2>2. call'[w].gen = g /\ Writing(w)'
    <3>1. CASE OpenFile(w)
      BY <3>1, OpenShape DEF Writing, At
    <3>2. CASE FlushFile(w)
      <4>1. call'[w].at = "write" /\ call'[w].next = n + 1 /\ call'[w].gen = g
        BY <1>5, <3>2, FlushShape
      <4> QED
        BY <1>1, <4>1 DEF Writing, At
    <3> QED
      BY <3>1, <3>2
  <2> QED
    BY <2>1, <2>2 DEF CaHolds
<1>6. CASE n >= 4
  <2>1. disk'["rootCert"] = g
    BY <1>1, <1>2, <1>4, <1>6, FileNames
  <2>2. disk'["intCert"] \in {g, Torn}
    <3>1. CASE n = 4
      BY <3>1, OpenShape, FlushShape, FileNames
    <3>2. CASE n > 4
      BY <1>1, <1>2, <1>4, <3>2, FileNames
    <3> QED
      BY <1>1, <1>6, <3>1, <3>2
  <2> QED
    BY <2>1, <2>2, PkiAssumption DEF CaHolds
<1> QED
  BY <1>1, <1>5, <1>6

LEMMA QuietKeepsCa ==
    ASSUME PkiInv, NEW w \in Worker, Quietly(w), NEW b, CaHolds(b)
    PROVE  CaHolds(b)'
<1>1. CASE \E v \in Worker : Writing(v) /\ call[v].gen # b
  <2>1. PICK v \in Worker : Writing(v) /\ call[v].gen # b
    BY <1>1
  <2>2. v # w
    BY <2>1 DEF Quietly, Writing
  <2>3. Writing(v)' /\ call'[v].gen # b
    BY <2>1, <2>2 DEF Quietly, Others, Writing, At
  <2> QED
    BY <2>3 DEF CaHolds
<1>2. CASE ~ \E v \in Worker : Writing(v) /\ call[v].gen # b
  BY <1>2 DEF CaHolds, Quietly
<1> QED
  BY <1>1, <1>2

LEMMA PreparedStays ==
    ASSUME PkiInv, FilesInv, NEW w \in Worker, Quietly(w) \/ OpenFile(w) \/ FlushFile(w), NEW j,
           j.cert \in Certificate, Prepared(j)
    PROVE  Prepared(j)'
<1>1. overlapped => overlapped'
  BY DEF Quietly, OpenFile, FlushFile
<1>2. CaHolds(j.cert.by) => CaHolds(j.cert.by)'
  <2>1. j.cert.by \in Gen
    BY DEF Certificate
  <2> DEFINE b == j.cert.by
  <2> HIDE DEF b
  <2>2. b \in Gen
    BY <2>1 DEF b
  <2>3. CaHolds(b) => CaHolds(b)'
    BY <2>2, QuietKeepsCa, WriteKeepsCa
  <2> QED
    BY <2>3 DEF b
<1> QED
  BY <1>1, <1>2 DEF Prepared

(* A client's signature is prepared only with evidence, so in a PKI whose     *)
(* root, intermediate CA and timestamper belong together.                     *)
LEMMA Prepares ==
    ASSUME PkiInv, FilesInv, TypesInv, WatchInv, NEW w \in Worker, PrepareClient(w), NEW j \in presigns'
    PROVE  j \in presigns \/ Prepared(j)'
<1>1. PICK heeded \in BOOLEAN :
          presigns' = IF Embeds(job[w], heeded) THEN presigns \union {job[w]} ELSE presigns
  BY DEF PrepareClient
<1>2. CASE Embeds(job[w], heeded) /\ j = job[w]
  <2>1. j.stage = "sign" /\ j.cert.serial \notin Gen /\ disk' = disk /\ overlapped' = overlapped
    BY <1>2 DEF PrepareClient, Doing, PkiSame
  <2>2. Own(w) /\ Watch(w)
    BY DEF WatchInv, Follows
  <2>3. ~overlapped => j.ev.root = disk["rootCert"] /\ j.ev.inter = disk["intCert"]
    BY <1>2, <2>1, <2>2 DEF Watch, Watched, Tracking
  <2>4. /\ j.cert.by = j.ev.inter /\ j.ev.inter = j.ev.root
        /\ j.stamp # None => j.stamp.cert = j.ev.inter
    BY <1>2 DEF Embeds, PathValid, StampTrusted
  <2>5. ~overlapped => CaHolds(j.cert.by)'
    BY <2>1, <2>3, <2>4 DEF CaHolds
  <2>6. j.cert.serial = j.serial
    BY <1>2, <2>1, <2>2 DEF Own
  <2>7. ~overlapped => (j.stamp # None => j.stamp.cert = j.cert.by)
    BY <2>4
  <2> QED
    BY <2>1, <2>5, <2>6, <2>7 DEF Prepared
<1> QED
  BY <1>1, <1>2
LEMMA StartsPrepared ==
    ASSUME PkiInv, FilesInv, TypesInv, PreparedInv, NEW w \in Worker, StartFinalize(w)
    PROVE  /\ presigns' \subseteq presigns
           /\ Prepared(job[w])'
<1>1. PICK i \in presigns : Set(w, [i EXCEPT !.stage = "finalize", !.was = revoked]) /\ presigns' = presigns \ {i}
  BY DEF StartFinalize
<1> DEFINE j == [i EXCEPT !.stage = "finalize", !.was = revoked]
<1>2. i \in JobRecord /\ i.cert \in Certificate /\ Prepared(i)
  BY DEF TypesInv, JobsTyped, JobTyped, PreparedInv
<1>3. j.cert = i.cert /\ j.serial = i.serial /\ j.stamp = i.stamp
  BY <1>2 DEF JobRecord
<1>4. job'[w] = j
  BY <1>1 DEF Set, TypesInv, JobsTyped
<1>5. Quietly(w)
  BY PadesQuiet DEF PadesStep
<1>6. Prepared(i)'
  BY <1>2, <1>5, PreparedStays
<1> HIDE DEF j
<1>7. Prepared(job[w])'
  BY <1>3, <1>4, <1>6 DEF Prepared, CaHolds
<1> QED
  BY <1>1, <1>7

LEMMA JobsStayPrepared ==
    ASSUME PkiInv, FilesInv, TypesInv, PreparedInv, NEW w \in Worker, Quietly(w) \/ OpenFile(w) \/ FlushFile(w),
           NEW v \in Worker, job'[v] = job[v], job[v].stage = "finalize"
    PROVE  Prepared(job[v])'
<1>1. PICK j : j = job[v]
  OBVIOUS
<1>2. j.cert \in Certificate /\ Prepared(j)
  BY <1>1 DEF TypesInv, JobsTyped, JobTyped, PreparedInv
<1>3. Prepared(j)'
  BY <1>2, PreparedStays
<1> QED
  BY <1>1, <1>3 DEF Prepared, CaHolds

LEMMA PresignsStayPrepared ==
    ASSUME PkiInv, FilesInv, TypesInv, PreparedInv, NEW w \in Worker, Quietly(w) \/ OpenFile(w) \/ FlushFile(w),
           NEW j \in presigns
    PROVE  Prepared(j)'
<1>1. j.cert \in Certificate /\ Prepared(j)
  BY DEF TypesInv, JobsTyped, JobTyped, PreparedInv
<1> QED
  BY <1>1, PreparedStays

LEMMA OtherStages ==
    ASSUME TypesInv, NEW w \in Worker, PadesStep(w), ~StartFinalize(w)
    PROVE  \E j : Set(w, j) /\ j.stage # "finalize"
<1>1. job[w] \in JobRecord /\ IdleJob.stage = "none"
  BY IdleJobTyped DEF TypesInv, JobsTyped
<1>2. CASE End(w)
  BY <1>1, <1>2 DEF End
<1>3. CASE StartSign(w)
  <2>1. PICK s : Set(w, [IdleJob EXCEPT !.stage = "status", !.serial = s, !.was = revoked])
    BY <1>3 DEF StartSign
  <2>2. [IdleJob EXCEPT !.stage = "status", !.serial = s, !.was = revoked].stage = "status"
    BY DEF IdleJob
  <2> QED
    BY <2>1, <2>2
<1>4. CASE Status(w)
  BY <1>1, <1>2, <1>4 DEF Status, JobRecord
<1>5. ASSUME NEW i \in JobRecord, Collect(w, i) PROVE \E k : Set(w, k) /\ k.stage # "finalize"
  <2>1. [i EXCEPT !.stage = "crl", !.stamp = Timestamper].stage = "crl"
    BY DEF JobRecord
  <2> QED
    BY <1>5, <2>1 DEF Collect
<1>6. CASE Signer(w)
  <2>1. CASE job[w].serial \in issued
    <3> DEFINE i == [job[w] EXCEPT !.cert = CertOf(job[w].serial)]
    <3>1. CertOf(job[w].serial) \in CertRecord
      BY <2>1 DEF TypesInv, RestTyped, UserCert, CertOf, CertRecord, Serial
    <3>2. i \in JobRecord
      BY <1>1, <3>1 DEF JobRecord
    <3>3. Collect(w, i)
      BY <1>6, <2>1 DEF Signer
    <3> HIDE DEF i
    <3> QED
      BY <1>5, <3>2, <3>3
  <2>2. CASE job[w].serial \notin issued
    <3> DEFINE k == [job[w] EXCEPT !.stage = "match", !.cert = DemoCert(disk["userCert"])]
    <3>1. k.stage = "match"
      BY <1>1 DEF JobRecord
    <3>2. Set(w, k) \/ End(w)
      BY <1>6, <2>2 DEF Signer
    <3> HIDE DEF k
    <3> QED
      BY <1>2, <3>1, <3>2
  <2> QED
    BY <2>1, <2>2
<1>7. CASE Match(w)
  BY <1>1, <1>2, <1>5, <1>7 DEF Match
<1>8. CASE Crl(w)
  <2> DEFINE k == [job[w] EXCEPT !.stage = "ocsp", !.ev.crlBy = call[w].got[2],
                                 !.ev.listed = job[w].cert.serial \in revoked]
  <2>1. k.stage = "ocsp"
    BY <1>1 DEF JobRecord
  <2>2. Set(w, k)
    BY <1>8 DEF Crl
  <2> HIDE DEF k
  <2> QED
    BY <2>1, <2>2
<1>9. CASE Ocsp(w)
  <2> DEFINE k == [job[w] EXCEPT !.stage = "sign", !.ev.bad = job[w].cert.serial \in revoked,
                                 !.ev.root = disk["rootCert"], !.ev.inter = disk["intCert"]]
  <2>1. k.stage = "sign"
    BY <1>1 DEF JobRecord
  <2>2. Set(w, k) \/ End(w)
    BY <1>9 DEF Ocsp
  <2> HIDE DEF k
  <2> QED
    BY <1>2, <2>1, <2>2
<1> QED
  BY <1>2, <1>3, <1>4, <1>6, <1>7, <1>8, <1>9 DEF PadesStep, SignPdf, PrepareClient, Finalize

LEMMA PadesKeepsPrepared ==
    ASSUME PkiInv, FilesInv, TypesInv, WatchInv, PreparedInv, NEW w \in Worker, PadesStep(w)
    PROVE  PreparedInv'
<1>1. Quietly(w) /\ JobOthers(w)
  BY PadesQuiet, StepSame DEF TypesInv
<1>2. ASSUME NEW j \in presigns' PROVE Prepared(j)'
  <2>1. j \in presigns => Prepared(j)'
    BY <1>1, PresignsStayPrepared
  <2>2. PrepareClient(w) \/ presigns' \subseteq presigns
    BY StartsPrepared DEF PadesStep, StartSign, Status, Signer, Match, Crl, Ocsp, SignPdf, Finalize
  <2> QED
    BY <1>2, <2>1, <2>2, Prepares
<1>3. ASSUME NEW v \in Worker, job'[v].stage = "finalize" PROVE Prepared(job[v])'
  <2>1. CASE v # w
    BY <1>1, <1>3, <2>1, JobsStayPrepared DEF JobOthers
  <2>2. CASE v = w /\ StartFinalize(w)
    BY <2>2, StartsPrepared
  <2>3. CASE v = w /\ ~StartFinalize(w)
    <3>1. PICK j : Set(w, j) /\ j.stage # "finalize"
      BY <2>3, OtherStages
    <3>2. job'[w] = j
      BY <3>1 DEF Set, TypesInv, JobsTyped
    <3> QED
      BY <1>3, <2>3, <3>1, <3>2
  <2> QED
    BY <2>1, <2>2, <2>3
<1> QED
  BY <1>2, <1>3 DEF PreparedInv
LEMMA StepKeepsPrepared ==
    ASSUME PkiInv, FilesInv, TypesInv, WatchInv, PreparedInv, [PadesNext]_all
    PROVE  PreparedInv'
<1>1. ASSUME NEW w \in Worker, Elsewhere(w) PROVE PreparedInv'
  <2>1. Quietly(w) \/ OpenFile(w) \/ FlushFile(w)
    BY <1>1, PkiQuiet DEF Elsewhere
  <2>2. presigns' = presigns
    BY <1>1 DEF Elsewhere
  <2>3. ASSUME NEW v \in Worker, job'[v].stage = "finalize" PROVE job'[v] = job[v]
    <3>1. job' = [job EXCEPT ![w] = IdleJob] \/ job' = job
      BY <1>1 DEF Elsewhere
    <3>2. IdleJob.stage = "none"
      BY IdleJobTyped
    <3> QED
      BY <2>3, <3>1, <3>2 DEF TypesInv, JobsTyped
  <2> QED
    BY <2>1, <2>2, <2>3, PresignsStayPrepared, JobsStayPrepared DEF PreparedInv
<1>2. CASE PadesCrash
  <2>1. \A w \in Worker : job'[w].stage = "none"
    BY <1>2, IdleJobTyped DEF PadesCrash
  <2> QED
    BY <1>2, <2>1 DEF PadesCrash, PreparedInv
<1>3. CASE UNCHANGED <<disk, call, overlapped, job, presigns>>
  BY <1>3 DEF PreparedInv, Prepared, CaHolds, Writing, At
<1> QED
  BY <1>1, <1>2, <1>3, PadesKeepsPrepared DEF PadesNext, Revoke, all, pkiVars, padesVars
-----------------------------------------------------------------------------
(* The signed files.                                                          *)

Kept(p) ==
    /\ p.dss => ~p.late
    /\ p.achieved = "PAdES-B-LT" => p.key = p.cert.serial /\ Stamped(p) /\ p.stamp.cert = p.cert.by
    /\ p.achieved = "PAdES-B-LT" /\ ~p.moved => p.recomputed = "PAdES-B-LT"
PdfInv == ~overlapped => \A p \in pdfs : Kept(p)

LEMMA DraftShape ==
    ASSUME NEW j, NEW key, NEW dss \in BOOLEAN, NEW p, p \in pdfs', Store(Draft(j, key, dss))
    PROVE  \/ p \in pdfs
           \/ /\ p.cert = j.cert /\ p.key = key /\ p.stamp = j.stamp /\ (p.dss <=> dss)
              /\ (p.moved <=> disk["intCert"] # j.cert.by) /\ (p.late <=> j.cert.serial \in j.was)
              /\ p.achieved = "PAdES-B-LT" => Stamped(p) /\ p.dss
              /\ Accepted(p) /\ Stamped(p) /\ p.dss => p.recomputed = "PAdES-B-LT"
<1> DEFINE m == disk["intCert"] # j.cert.by
           l == j.cert.serial \in j.was
           d == Draft(j, key, dss)
           a == Achieved(d)
           r == Recomputed(d)
           q == [d EXCEPT !.achieved = a, !.recomputed = r]
<1>1. d = [cert |-> j.cert, key |-> key, stamp |-> j.stamp, dss |-> dss, achieved |-> "PAdES-B-B",
           recomputed |-> "PAdES-B-B", moved |-> m, late |-> l]
  BY DEF Draft
<1>2. p \in pdfs \/ p = q
  BY DEF Store
<1>3. a = "PAdES-B-LT" => Stamped(d) /\ d.dss
  BY DEF Achieved
<1>4. Accepted(d) /\ Stamped(d) /\ d.dss => r = "PAdES-B-LT"
  BY DEF Recomputed
<1>5. (m <=> disk["intCert"] # j.cert.by) /\ (l <=> j.cert.serial \in j.was)
  OBVIOUS
<1> HIDE DEF m, l, a, r, d
<1>6. /\ q.cert = j.cert /\ q.key = key /\ q.stamp = j.stamp /\ q.dss = dss /\ q.moved = m /\ q.late = l
      /\ q.achieved = a /\ q.recomputed = r
  BY <1>1
<1>7. d.cert = j.cert /\ d.key = key /\ d.stamp = j.stamp /\ d.dss = dss
  BY <1>1
<1> HIDE DEF q
<1>8. (Stamped(q) <=> Stamped(d)) /\ (Accepted(q) <=> Accepted(d))
  BY <1>6, <1>7 DEF Stamped, Accepted, Trusted
<1> QED
  BY <1>2, <1>3, <1>4, <1>5, <1>6, <1>7, <1>8
(* A server's signature, made while nobody wrote under the handler: evidence  *)
(* is embedded only if the CRL counts and does not list the signer, and the   *)
(* CRL counts, as its key is the one of the intermediate CA on file.          *)
LEMMA SignKeeps ==
    ASSUME PkiInv, FilesInv, TypesInv, WatchInv, NEW w \in Worker, SignPdf(w), ~overlapped,
           NEW p \in pdfs', p \notin pdfs
    PROVE  Kept(p)
<1>1. job[w].stage = "sign" /\ job[w].cert.serial \in Gen
  BY DEF SignPdf, Doing
<1>2. /\ disk["userKey"] = job[w].cert.serial
      /\ job[w].ev.crlBy = disk["intKey"] /\ (job[w].cert.serial \in job[w].was => job[w].ev.listed)
      /\ job[w].ev.root = disk["rootCert"] /\ job[w].ev.inter = disk["intCert"]
  BY <1>1 DEF WatchInv, Follows, Watch, Watched, Tracking
<1>3. PICK heeded \in BOOLEAN : Store(Draft(job[w], disk["userKey"], Embeds(job[w], heeded)))
  BY DEF SignPdf
<1>4. disk["intCert"] \in Gen
  BY DEF SignPdf
<1> DEFINE e == Embeds(job[w], heeded)
<1>5. e \in BOOLEAN
  BY DEF Embeds, PathValid, StampTrusted
<1>6. e => /\ job[w].cert.by = disk["intCert"] /\ disk["intCert"] = disk["rootCert"]
           /\ job[w].stamp # None => job[w].stamp.cert = disk["intCert"]
           /\ ~(job[w].ev.listed /\ job[w].ev.crlBy = disk["intCert"])
  BY <1>2 DEF Embeds, PathValid, StampTrusted
<1>7. e => job[w].cert.serial \notin job[w].was
  BY <1>2, <1>4, <1>6 DEF FilesInv, CaInv
<1>10. Store(Draft(job[w], disk["userKey"], e))
  BY <1>3
<1> HIDE DEF e
<1>8. /\ p.cert = job[w].cert /\ p.key = disk["userKey"] /\ p.stamp = job[w].stamp /\ (p.dss <=> e)
      /\ (p.late <=> job[w].cert.serial \in job[w].was)
      /\ p.achieved = "PAdES-B-LT" => Stamped(p) /\ p.dss
      /\ Accepted(p) /\ Stamped(p) /\ p.dss => p.recomputed = "PAdES-B-LT"
  BY <1>5, <1>10, DraftShape
<1>9. p.achieved = "PAdES-B-LT" => p.stamp.cert = p.cert.by /\ Accepted(p)
  BY <1>2, <1>6, <1>8 DEF Accepted, Trusted, PathValid, StampTrusted, Stamped
<1> QED
  BY <1>2, <1>7, <1>8, <1>9 DEF Kept

(* A client's signature: the status is asked for again, and unless the        *)
(* intermediate CA was replaced it still has the root of its preparation.     *)
LEMMA FinalizeKeeps ==
    ASSUME PkiInv, FilesInv, TypesInv, WatchInv, PreparedInv, NEW w \in Worker, Finalize(w), ~overlapped,
           NEW p \in pdfs', p \notin pdfs
    PROVE  Kept(p)
<1>1. job[w].stage = "finalize" /\ At(w, "caller")
  BY DEF Finalize, Doing
<1>2. /\ job[w].cert.serial = job[w].serial /\ CaHolds(job[w].cert.by)
      /\ job[w].stamp # None => job[w].stamp.cert = job[w].cert.by
  BY <1>1 DEF PreparedInv, Prepared
<1>3. Usable(job[w].serial) /\ Store(Draft(job[w], job[w].serial, TRUE))
  BY DEF Finalize
<1>4. job[w].cert.serial \notin job[w].was
  BY <1>2, <1>3 DEF Usable, WatchInv, Follows
<1>5. disk["intCert"] = job[w].cert.by => disk["rootCert"] = job[w].cert.by
  <2>1. \A v \in Worker : ~Writing(v)
    BY <1>1 DEF FilesInv, WriterAlone, Writing, At
  <2> QED
    BY <1>2, <2>1 DEF CaHolds
<1>6. /\ p.cert = job[w].cert /\ p.key = job[w].serial /\ p.stamp = job[w].stamp /\ p.dss
      /\ (p.moved <=> disk["intCert"] # job[w].cert.by) /\ (p.late <=> job[w].cert.serial \in job[w].was)
      /\ p.achieved = "PAdES-B-LT" => Stamped(p) /\ p.dss
      /\ Accepted(p) /\ Stamped(p) /\ p.dss => p.recomputed = "PAdES-B-LT"
  <2>1. PICK b \in BOOLEAN : b
    OBVIOUS
  <2>2. Store(Draft(job[w], job[w].serial, b))
    <3>1. b = TRUE
      BY <2>1
    <3> QED
      BY <1>3, <3>1
  <2>3. /\ p.cert = job[w].cert /\ p.key = job[w].serial /\ p.stamp = job[w].stamp /\ (p.dss <=> b)
        /\ (p.moved <=> disk["intCert"] # job[w].cert.by) /\ (p.late <=> job[w].cert.serial \in job[w].was)
        /\ p.achieved = "PAdES-B-LT" => Stamped(p) /\ p.dss
        /\ Accepted(p) /\ Stamped(p) /\ p.dss => p.recomputed = "PAdES-B-LT"
    BY <2>2, DraftShape
  <2> QED
    BY <2>1, <2>3
<1>7. p.achieved = "PAdES-B-LT" /\ ~p.moved => Accepted(p)
  BY <1>2, <1>5, <1>6 DEF Accepted, Trusted, PathValid, StampTrusted, Stamped
<1> QED
  BY <1>2, <1>4, <1>6, <1>7 DEF Kept, Stamped

LEMMA StepKeepsPdfs ==
    ASSUME PkiInv, FilesInv, TypesInv, WatchInv, PreparedInv, PdfInv, [PadesNext]_all
    PROVE  PdfInv'
<1>1. SUFFICES ASSUME ~overlapped', NEW p \in pdfs' PROVE Kept(p)
  BY DEF PdfInv, Kept, Stamped
<1>2. overlapped => overlapped'
  <2>1. ASSUME NEW w \in Worker, PadesStep(w) PROVE overlapped => overlapped'
    BY <2>1, StepSame DEF TypesInv
  <2>2. ASSUME NEW w \in Worker, Elsewhere(w) PROVE overlapped => overlapped'
    BY <2>2, PkiQuiet DEF Elsewhere, Quietly, OpenFile, FlushFile
  <2> QED
    BY <2>1, <2>2 DEF PadesNext, PadesCrash, Crash, Revoke, all, pkiVars
<1>3. CASE p \in pdfs
  BY <1>1, <1>2, <1>3 DEF PdfInv
<1>4. CASE p \notin pdfs
  <2>1. PICK w \in Worker : SignPdf(w) \/ Finalize(w)
    BY <1>1, <1>4 DEF PadesNext, PadesStep, StartSign, Status, Signer, Match, Crl, Ocsp, PrepareClient, StartFinalize,
                      Elsewhere, PadesCrash, padesVars, all
  <2> QED
    BY <1>1, <1>2, <1>4, <2>1, SignKeeps, FinalizeKeeps
<1> QED
  BY <1>3, <1>4

PadesInv == PkiInv /\ FilesInv /\ TypesInv /\ WatchInv /\ PreparedInv /\ PdfInv

LEMMA PadesInitInv == ASSUME PadesInit PROVE PadesInv
<1>1. PkiInv /\ FilesInv /\ TypesInv /\ WatchInv
  BY InitInv, FilesInit, TypesInit, WatchInit DEF PadesInit
<1>2. PreparedInv /\ PdfInv
  BY IdleJobTyped DEF PadesInit, PreparedInv, PdfInv
<1> QED
  BY <1>1, <1>2 DEF PadesInv

LEMMA PadesStepKeeps == ASSUME PadesInv, [PadesNext]_all PROVE PadesInv'
<1>1. PkiInv'
  BY NextInv DEF PadesInv
<1> QED
  BY <1>1, StepKeepsFiles, StepKeepsTypes, StepKeepsWatch, StepKeepsPrepared, StepKeepsPdfs DEF PadesInv

LEMMA PadesAlways == PadesSpec => []PadesInv
<1>1. PadesInit => PadesInv
  BY PadesInitInv
<1>2. PadesInv /\ [PadesNext]_all => PadesInv'
  BY PadesStepKeeps
<1> QED
  BY <1>1, <1>2, PTL DEF PadesSpec

(* A certificate that had been revoked when a signing handler began gets no   *)
(* embedded evidence, although the handler reads the registry twice and the   *)
(* files one by one, wherever a crash or a repair comes in between.           *)
THEOREM NoEvidenceForRevoked == PadesSpec => []RevokedGetsNoEvidence
<1>1. PadesInv => RevokedGetsNoEvidence
  BY DEF PadesInv, PdfInv, Kept, RevokedGetsNoEvidence
<1> QED
  BY <1>1, PadesAlways, PTL

(* The level stored with a file is the one that the recomputation finds, for  *)
(* whatever is revoked, repaired or cut short while the handler reads the     *)
(* PKI, unless the intermediate CA was replaced after the preparation.        *)
THEOREM StoredLevelHolds == PadesSpec => []LevelHolds
<1>1. PadesInv => LevelHolds
  BY DEF PadesInv, PdfInv, Kept, LevelHolds
<1> QED
  BY <1>1, PadesAlways, PTL

(* A file that reached B-LT is accepted for as long as the CA of its          *)
(* certificate is on file, also when the certificate is revoked later.        *)
THEOREM AcceptedForLong == PadesSpec => []LongTerm
<1>1. PadesInv => LongTerm
  BY DEF PadesInv, PdfInv, Kept, LongTerm, Accepted, Trusted, PathValid, StampTrusted
<1> QED
  BY <1>1, PadesAlways, PTL
-----------------------------------------------------------------------------
(* The demo record and the demo enrollment.  As long as no file was written   *)
(* under a handler and no handler was cut short, the files are of one         *)
(* generation whenever nobody is in the middle of writing them; so the key    *)
(* that an enrollment loads is the one of the certificate it was listed for,  *)
(* and no enrollment ever has to repair the PKI first.                        *)

NoneWriting == \A v \in Worker : ~Writing(v)
Blank == \A f \in File : disk[f] = None
Calm == ~overlapped /\ ~cut /\ ~crashed

WholeOrBlank == NoneWriting => Whole \/ Blank
EnrollsWhole ==
    \A w \in Worker : At(w, "enroll") => call[w].serial \in Gen /\ Holds(call[w].serial)
NeverBack == \A w \in Worker : \A i \in DOMAIN call[w].back : call[w].back[i].at # "enroll"
OnFileListed ==
    NoneWriting /\ Whole => disk["userCert"] \in Elements(records) \/ \E w \in Worker : At(w, "sync")
Orderly ==
    /\ WholeOrBlank /\ EnrollsWhole /\ NeverBack
    /\ enrolled.key = enrolled.serial
    /\ OnFileListed
ListedInv == Calm => Orderly

LEMMA ListedImplies == ASSUME PkiInv, TypesInv, ListedInv PROVE DemoIsListed
<1>1. Once(records)
  BY DEF TypesInv, RestTyped
<1>2. Undisturbed /\ ~crashed => Calm
  BY DEF Undisturbed, Calm
<1>3. ASSUME Undisturbed, ~crashed, Quiet, Current
      PROVE  \E i \in DOMAIN records : records[i] = disk["userCert"]
  <2>1. NoneWriting /\ NoWriter /\ ~cut
    BY <1>3 DEF Quiet, NoneWriting, Writing, NoWriter, At, Undisturbed
  <2>2. LastWritten
    BY <1>3, CurrentWritten DEF PkiInv
  <2>3. Whole
    BY <2>1, <2>2 DEF PkiInv, RestInv
  <2>4. \A w \in Worker : ~At(w, "sync")
    BY <1>3 DEF Quiet, At
  <2>5. disk["userCert"] \in Elements(records)
    BY <1>2, <1>3, <2>1, <2>3, <2>4 DEF ListedInv, Orderly, OnFileListed
  <2> QED
    BY <2>5 DEF Elements
<1> QED
  BY <1>1, <1>2, <1>3 DEF DemoIsListed, Once, ListedInv, Orderly

LEMMA QuietWriting ==
    ASSUME NEW w \in Worker, Quietly(w)
    PROVE  (NoneWriting' <=> NoneWriting) /\ (overlapped => overlapped')
<1>1. ~Writing(w) /\ ~Writing(w)'
  BY DEF Quietly, Writing, At
<1>2. \A v \in Worker \ {w} : Writing(v)' <=> Writing(v)
  BY DEF Quietly, Others, Writing, At
<1> QED
  BY <1>1, <1>2 DEF NoneWriting, Quietly

LEMMA BusyIsWhole ==
    ASSUME PkiInv, FilesInv, ~overlapped, WholeOrBlank, NEW w \in Worker, ~At(w, "idle"), ~At(w, "write"),
           disk["userCert"] \in Gen
    PROVE  NoneWriting /\ Holds(disk["userCert"])
<1>1. NoneWriting
  BY DEF NoneWriting, FilesInv, WriterAlone, Writing
<1>2. ~Blank
  BY FileNames, PkiAssumption DEF Blank
<1> QED
  BY <1>1, <1>2, FileNames DEF WholeOrBlank, Whole, Holds

LEMMA RecordsStep ==
    ASSUME PkiInv, TypesInv, NEW w \in Worker, PkiStep(w), ~OpenFile(w), ~FlushFile(w)
    PROVE  IF At(w, "sync") /\ disk["userCert"] \in Gen
           THEN Elements(records') = Elements(records) \union {disk["userCert"]}
           ELSE records' = records
<1>1. SyncRecords(w) => At(w, "sync")
  BY DEF SyncRecords
<1>2. At(w, "sync") => SyncRecords(w)
  BY DEF PkiStep, Describe, SyncEnrollment, Load, Issue, At
<1>3. ~SyncRecords(w) => records' = records
  BY DEF PkiStep, Describe, SyncEnrollment, Load, Issue
<1>4. disk["userCert"] \in Gen \union {None, Torn}
  BY FileNames DEF PkiInv, CallsInv
<1>5. SyncRecords(w) /\ disk["userCert"] \in Gen => records' = Listed(records, disk["userCert"])
  BY PkiAssumption DEF SyncRecords
<1>6. SyncRecords(w) /\ disk["userCert"] \notin Gen => records' = records
  BY <1>4 DEF SyncRecords
<1>7. records \in Seq(Gen) /\ Once(records)
  BY DEF TypesInv, RestTyped
<1> QED
  BY <1>1, <1>2, <1>3, <1>5, <1>6, <1>7, ListedOnce
LEMMA EnrollsOthers ==
    ASSUME EnrollsWhole, NeverBack, NEW w \in Worker, Others(w), disk' = disk,
           call'[w].at = "enroll" => call'[w].serial \in Gen /\ Holds(call'[w].serial),
           \A i \in DOMAIN call'[w].back : call'[w].back[i].at # "enroll"
    PROVE  EnrollsWhole' /\ NeverBack'
<1>1. ASSUME NEW v \in Worker, At(v, "enroll")' PROVE call'[v].serial \in Gen /\ Holds(call[v].serial)'
  <2>1. CASE v = w
    BY <1>1, <2>1 DEF At, Holds
  <2>2. CASE v # w
    BY <1>1, <2>2 DEF Others, At, EnrollsWhole, Holds
  <2> QED
    BY <2>1, <2>2
<1>2. ASSUME NEW v \in Worker, NEW i \in DOMAIN call'[v].back PROVE call'[v].back[i].at # "enroll"
  BY <1>2 DEF Others, NeverBack
<1> QED
  BY <1>1, <1>2 DEF EnrollsWhole, NeverBack

LEMMA WholeSame == ASSUME disk' = disk PROVE (Whole' <=> Whole) /\ (Blank' <=> Blank)
BY DEF Whole, Holds, Blank

(* A step that writes no file and synchronises nothing.                       *)
LEMMA QuietOrderly ==
    ASSUME PkiInv, Orderly, NEW w \in Worker, Quietly(w), ~At(w, "sync"),
           UNCHANGED <<records, enrolled>>, EnrollsWhole', NeverBack'
    PROVE  Orderly'
<1>1. disk' = disk /\ (NoneWriting' <=> NoneWriting) /\ (Whole' <=> Whole) /\ (Blank' <=> Blank)
  BY QuietWriting, WholeSame DEF Quietly
<1>2. WholeOrBlank'
  BY <1>1 DEF Orderly, WholeOrBlank
<1>3. ASSUME NEW v \in Worker, At(v, "sync") PROVE At(v, "sync")'
  BY <1>3 DEF Quietly, Others, At
<1>4. OnFileListed'
  BY <1>1, <1>3 DEF Orderly, OnFileListed, Elements
<1> QED
  BY <1>2, <1>4 DEF Orderly

LEMMA StartOrderly ==
    ASSUME PkiInv, ~overlapped, Orderly, NEW w \in Worker, PkiStart(w)
    PROVE  Orderly'
<1>1. Quietly(w) /\ Others(w) /\ Begins(w) /\ disk' = disk
  BY PkiQuiet, StartShape DEF PkiStart, StartInit, StartDemo, StartIssue, Begin, OpenFile, FlushFile, At
<1>2. EnrollsWhole' /\ NeverBack'
  BY <1>1, EnrollsOthers DEF Begins, Orderly
<1>3. UNCHANGED <<records, enrolled>>
  BY DEF PkiStart, StartInit, StartDemo, StartIssue
<1>4. ~At(w, "sync")
  BY <1>1 DEF Begins, At
<1> QED
  BY <1>1, <1>2, <1>3, <1>4, QuietOrderly

LEMMA PadesOrderly ==
    ASSUME PkiInv, Orderly, TypesInv, NEW w \in Worker, PadesStep(w)
    PROVE  Orderly'
<1>1. Quietly(w) /\ Others(w) /\ disk' = disk
  BY PadesQuiet, PadesShape
<1>2. ~At(w, "sync")
  BY PadesShape DEF At
<1>3. call'[w].at # "enroll" /\ \A i \in DOMAIN call'[w].back : call'[w].back[i].at # "enroll"
  <2>1. call'[w] \in {Idle, Syncing, Calling, Fetching(<<"userKey">>), Fetching(<<"intCert", "intKey">>),
                      Fetching(<<"intCert", "ocspCert", "ocspKey">>)}
    BY PadesShape
  <2>2. call'[w].at \in {"idle", "sync", "caller", "load"}
    BY <2>1, HandlerCalls
  <2>3. call'[w].back \in {<<>>, <<To("caller")>>}
    BY <2>1, HandlerCalls
  <2>4. To("caller").at = "caller"
    BY HandlerCalls
  <2> QED
    BY <2>2, <2>3, <2>4
<1>4. EnrollsWhole' /\ NeverBack'
  BY <1>1, <1>3, EnrollsOthers DEF Orderly
<1>5. UNCHANGED <<records, enrolled>>
  BY StepSame DEF PkiSame, TypesInv
<1> QED
  BY <1>1, <1>2, <1>4, <1>5, QuietOrderly
LEMMA GoesOrderly ==
    ASSUME PkiInv, FilesInv, ~overlapped, Orderly, NEW w \in Worker, PkiStep(w), ~OpenFile(w), ~FlushFile(w)
    PROVE  EnrollsWhole' /\ NeverBack'
<1>1. Others(w) /\ Goes(w) /\ disk' = disk /\ ~At(w, "idle") /\ ~At(w, "write")
  BY StepShape, PkiQuiet DEF Goes, Quietly
<1>2. \A i \in DOMAIN call[w].back : call[w].back[i].at # "enroll"
  BY DEF Orderly, NeverBack
<1>3. call'[w].at = "enroll" => call'[w].serial \in Gen /\ Holds(call'[w].serial)
  <2>1. CASE Lists(w)
    BY <1>1, <2>1, BusyIsWhole DEF Lists, Orderly
  <2>2. CASE ~Lists(w)
    BY <1>1, <1>2, <2>2, HandlerCalls DEF Goes, Resumes, Loads, Repairs, Generates
  <2> QED
    BY <2>1, <2>2
<1>4. \A i \in DOMAIN call'[w].back : call'[w].back[i].at # "enroll"
  <2>1. CASE Repairs(w)
    <3>1. PICK fr \in Frame : fr.at = call[w].at /\ call'[w].back = <<fr>> \o call[w].back
      BY <2>1 DEF Repairs
    <3>2. ~At(w, "enroll")
      <4>1. ~Current
        BY <2>1 DEF Repairs
      <4> QED
        BY <4>1, WholeIsCurrent DEF Orderly, EnrollsWhole, Holds
    <3>3. call[w].back \in Seq(Frame)
      BY DEF PkiInv, CallsInv, Call
    <3> DEFINE s == call[w].back
    <3>4. s \in Seq(Frame) /\ <<fr>> \in Seq(Frame)
      BY <3>3
    <3>5. \A i \in DOMAIN s : s[i].at # "enroll"
      BY <1>2
    <3>6. fr.at # "enroll"
      BY <3>1, <3>2 DEF At
    <3> HIDE DEF s
    <3>7. \A i \in DOMAIN (<<fr>> \o s) : (<<fr>> \o s)[i].at # "enroll"
      BY <3>4, <3>5, <3>6
    <3> QED
      BY <3>1, <3>7 DEF s
  <2>2. CASE Resumes(w)
    BY <1>2, <2>2 DEF Resumes
  <2>3. CASE Loads(w) \/ Lists(w)
    BY <1>2, <2>3 DEF Loads, Lists
  <2>4. CASE call'[w] = Idle \/ call'[w] = Stuck
    BY <2>4, HandlerCalls
  <2> QED
    BY <1>1, <2>1, <2>2, <2>3, <2>4 DEF Goes
<1> QED
  BY <1>1, <1>3, <1>4, EnrollsOthers DEF Orderly

LEMMA StepOrderly ==
    ASSUME PkiInv, FilesInv, TypesInv, ~overlapped, Orderly, NEW w \in Worker, PkiStep(w),
           ~OpenFile(w), ~FlushFile(w)
    PROVE  Orderly'
<1>1. Quietly(w) /\ EnrollsWhole' /\ NeverBack' /\ disk' = disk /\ ~At(w, "idle") /\ ~At(w, "write")
  BY PkiQuiet, GoesOrderly, StepShape DEF Quietly, Goes
<1>2. enrolled'.key = enrolled'.serial
  <2>1. CASE SyncEnrollment(w)
    <3>1. Holds(call[w].serial)
      BY <2>1 DEF SyncEnrollment, Orderly, EnrollsWhole
    <3>2. enrolled' = enrolled \/ enrolled' = [serial |-> call[w].serial, key |-> disk["userKey"]]
      BY <2>1 DEF SyncEnrollment
    <3> QED
      BY <3>1, <3>2, FileNames DEF Orderly, Holds
  <2>2. CASE ~SyncEnrollment(w)
    BY <2>2 DEF PkiStep, Describe, SyncRecords, Load, Issue, Orderly
  <2> QED
    BY <2>1, <2>2
<1>3. disk' = disk /\ (NoneWriting' <=> NoneWriting) /\ (Whole' <=> Whole) /\ (Blank' <=> Blank)
  BY <1>1, QuietWriting, WholeSame
<1>4. WholeOrBlank'
  BY <1>3 DEF Orderly, WholeOrBlank
<1>5. OnFileListed'
  <2>1. SUFFICES ASSUME NoneWriting, Whole
                 PROVE  disk["userCert"] \in Elements(records') \/ \E v \in Worker : At(v, "sync")'
    BY <1>3 DEF OnFileListed, Elements
  <2>2. disk["userCert"] \in Gen
    BY <2>1, FileNames DEF Whole, Holds
  <2>3. CASE At(w, "sync")
    BY <2>2, <2>3, RecordsStep
  <2>4. CASE ~At(w, "sync")
    <3>1. records' = records
      BY <2>4, RecordsStep
    <3>2. ASSUME NEW v \in Worker, At(v, "sync") PROVE At(v, "sync")'
      BY <1>1, <2>4, <3>2 DEF Quietly, Others, At
    <3> QED
      BY <2>1, <3>1, <3>2 DEF Orderly, OnFileListed
  <2> QED
    BY <2>3, <2>4
<1> QED
  BY <1>1, <1>2, <1>4, <1>5 DEF Orderly

LEMMA WriteOrderly ==
    ASSUME PkiInv, Orderly, NEW w \in Worker, OpenFile(w) \/ FlushFile(w), ~overlapped'
    PROVE  Orderly'
<1> DEFINE n == call[w].next
           g == call[w].gen
<1>1. Writes(w) /\ Others(w) /\ n \in 1 .. 10 /\ g \in Gen
  BY OpenShape, FlushShape DEF Writes
<1>2. UNCHANGED <<records, enrolled>>
  BY DEF OpenFile, FlushFile
<1>3. \A v \in Worker \ {w} : At(v, "idle")'
  BY <1>1 DEF Writes, Others, At
<1>4. call'[w].at \in {"write", "sync"}
  BY OpenShape, FlushShape
<1>5. EnrollsWhole'
  BY <1>3, <1>4 DEF EnrollsWhole, At
<1>6. \A i \in DOMAIN call'[w].back : call'[w].back[i].at # "enroll"
  <2>1. CASE call'[w].back = call[w].back
    BY <2>1 DEF Orderly, NeverBack
  <2>2. ASSUME NEW fr \in Frame, fr.at = "describe", call'[w].back = <<fr>> \o call[w].back
        PROVE  \A i \in DOMAIN call'[w].back : call'[w].back[i].at # "enroll"
    <3> DEFINE s == call[w].back
    <3>1. s \in Seq(Frame) /\ <<fr>> \in Seq(Frame)
      BY DEF PkiInv, CallsInv, Call
    <3>2. \A i \in DOMAIN s : s[i].at # "enroll"
      BY DEF Orderly, NeverBack
    <3> HIDE DEF s
    <3>3. \A i \in DOMAIN (<<fr>> \o s) : (<<fr>> \o s)[i].at # "enroll"
      BY <2>2, <3>1, <3>2
    <3> QED
      BY <2>2, <3>3 DEF s
  <2> QED
    BY <2>1, <2>2, OpenShape, FlushShape
<1>7. NeverBack'
  BY <1>1, <1>6 DEF Others, Orderly, NeverBack
<1>8. NoneWriting' => Whole' /\ At(w, "sync")'
  <2>1. CASE OpenFile(w)
    BY <2>1, OpenShape DEF NoneWriting, Writing, At
  <2>2. CASE FlushFile(w) /\ n < 10
    <3>1. call'[w].at = "write" /\ call'[w].next = n + 1
      BY <2>2, FlushShape
    <3> QED
      BY <1>1, <3>1 DEF NoneWriting, Writing, At
  <2>3. CASE FlushFile(w) /\ n = 10
    <3>1. \A i \in 1 .. 10 : i < 10 => disk[Files[i]] = g
      BY <1>1, <2>3 DEF PkiInv, WriterInv, Writes
    <3>2. \A i \in 1 .. 10 : disk'[Files[i]] = g
      BY <1>1, <2>3, <3>1, FlushShape, FileFacts DEF Writes
    <3>3. Whole'
      BY <1>1, <3>2, FileFacts DEF Whole, Holds
    <3> QED
      BY <2>3, <3>3, FlushShape DEF At
  <2> QED
    BY <1>1, <2>1, <2>2, <2>3
<1>9. WholeOrBlank' /\ OnFileListed'
  BY <1>8 DEF WholeOrBlank, OnFileListed
<1> QED
  BY <1>2, <1>5, <1>7, <1>9 DEF Orderly
LEMMA StepKeepsListed ==
    ASSUME PkiInv, FilesInv, TypesInv, ListedInv, [PadesNext]_all
    PROVE  ListedInv'
<1>1. SUFFICES ASSUME Calm' PROVE Orderly'
  BY DEF ListedInv
<1>2. ASSUME NEW w \in Worker, PadesStep(w) PROVE Orderly'
  <2>1. Calm
    BY <1>1, <1>2, StepSame DEF TypesInv, Calm, PkiSame
  <2> QED
    BY <1>2, <2>1, PadesOrderly DEF ListedInv
<1>3. ASSUME NEW w \in Worker, Elsewhere(w) PROVE Orderly'
  <2>1. PkiStart(w) \/ PkiStep(w)
    BY <1>3 DEF Elsewhere
  <2>2. overlapped => overlapped'
    BY <2>1, PkiQuiet DEF Quietly, OpenFile, FlushFile
  <2>3. UNCHANGED <<cut, crashed>>
    BY <2>1 DEF PkiStart, PkiStep, StartInit, StartDemo, StartIssue, OpenFile, FlushFile, Describe,
                SyncRecords, SyncEnrollment, Load, Issue
  <2>4. Calm /\ Orderly
    BY <1>1, <2>2, <2>3 DEF Calm, ListedInv
  <2> QED
    BY <1>1, <2>1, <2>4, StartOrderly, StepOrderly, WriteOrderly DEF Calm
<1>4. CASE PadesCrash
  <2>1. Calm /\ Quiet
    BY <1>1, <1>4 DEF Calm, PadesCrash, Crash
  <2>2. UNCHANGED <<disk, records, enrolled>> /\ \A w \in Worker : call'[w] = Idle
    BY <1>4 DEF PadesCrash, Crash
  <2>3. NoneWriting /\ \A w \in Worker : ~At(w, "sync")
    BY <2>1 DEF Quiet, NoneWriting, Writing, At
  <2>4. EnrollsWhole' /\ NeverBack'
    BY <2>2, HandlerCalls DEF EnrollsWhole, NeverBack, At
  <2>5. (Whole' <=> Whole) /\ (Blank' <=> Blank)
    BY <2>2, WholeSame
  <2>6. WholeOrBlank' /\ OnFileListed'
    BY <2>1, <2>2, <2>3, <2>5 DEF ListedInv, Orderly, WholeOrBlank, OnFileListed, Elements
  <2> QED
    BY <2>1, <2>2, <2>4, <2>6 DEF ListedInv, Orderly
<1>5. CASE UNCHANGED <<disk, records, enrolled, call, overlapped, cut, crashed>>
  <2>1. Orderly
    BY <1>1, <1>5 DEF Calm, ListedInv
  <2> QED
    BY <1>5, <2>1 DEF Orderly, WholeOrBlank, EnrollsWhole, NeverBack, OnFileListed, NoneWriting, Writing,
                      Whole, Holds, Blank, Elements, At
<1> QED
  BY <1>2, <1>3, <1>4, <1>5 DEF PadesNext, Revoke, all, pkiVars

LEMMA ListedInit == ASSUME PadesInit PROVE ListedInv
<1>1. \A w \in Worker : call[w] = Idle
  BY DEF PadesInit, PkiInit
<1>2. enrolled.key = enrolled.serial /\ Blank /\ ~Whole
  BY FileNames, PkiAssumption DEF PadesInit, PkiInit, Blank, Whole, Holds
<1>3. EnrollsWhole /\ NeverBack
  BY <1>1, HandlerCalls DEF EnrollsWhole, NeverBack, At
<1> QED
  BY <1>2, <1>3 DEF ListedInv, Orderly, WholeOrBlank, OnFileListed

(* No demo record is ever there twice; and as long as no file was written     *)
(* under a handler and no handler was cut short, the demo enrollment holds    *)
(* the key of the certificate it names, and the certificate on file is listed *)
(* whenever no handler runs.                                                  *)
THEOREM DemoAlwaysListed == PadesSpec => []DemoIsListed
<1>1. PadesInit => PadesInv /\ ListedInv
  BY PadesInitInv, ListedInit
<1>2. PadesInv /\ ListedInv /\ [PadesNext]_all => (PadesInv /\ ListedInv)'
  BY PadesStepKeeps, StepKeepsListed DEF PadesInv
<1>3. PadesInv /\ ListedInv => DemoIsListed
  BY ListedImplies DEF PadesInv
<1> QED
  BY <1>1, <1>2, <1>3, PTL DEF PadesSpec
=============================================================================
