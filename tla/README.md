# SecureDoc: TLA+ models, model checks and proofs

This directory models the backend of SecureDoc (`src/backend/app`), a FastAPI
service that enrolls keys, issues and revokes demo certificates, and signs
documents with them. The models are translated from the Python source; the
documentation of the repository is only quoted for what it promises.

Contents: 1 the system, 2 the modules, 3 modelling decisions, 4 runs,
5 findings, 6 proofs, 7 what is not modelled, 8 plan.

## 1. The system

### Components, their state and their operations

| Component | State | Operations |
|---|---|---|
| Certificate lifecycle (`services/certificate_lifecycle_service.py`, `api/routes_certificates.py`) | `enrollments.json`, `certificates.json`, one PEM file per certificate | enroll, enroll-demo-backend-key, issue-demo, activate, revoke, status, my-active, list, init-pki / demo-pki |
| Revocation registry (`services/revocation_service.py`, `api/routes_revocation.py`) | the revocation file | revoke, status, status_at, CRL, OCSP |
| Key enrollment (`services/proof_of_possession_service.py`, `api/routes_key_enrollment.py`) | `challenges.json` | challenge, submit-public-key |
| Signing (`services/signing_service.py`, `api/routes_user_signing.py`) | dictionaries of the process: `_REQUESTS`, `_SIGNED_PACKAGES`, `_SIGNED_PDF_FILES`, `_CLIENT_PDF_PRESIGNS` | prepare, confirm, sign-and-verify, sign-pdf, submit-client-signature, client-pades prepare and finalize |
| Remote signing (`services/remote_signing_service.py`) | none | MFA check, then sign or sign-pdf |
| Blind signature tokens (`services/blind_signature_service.py`) | signer key file and its cached copy, spent-token registry | prepare, blind, blind-sign, unblind, verify, redeem |
| Audit log (`services/audit_service.py`) | `audit` file, one hash-chained event per line | append_event, list_events |
| Timestamping (`services/timestamp_service.py`) | two TSA key files | issue, verify |
| Demo PKI (`services/pki_service.py`) | ten key and certificate files | init (create or force), describe, issue, load |
| PAdES engine (`services/pades_service.py`) | none; works on the demo PKI files and the registry | sign with evidence or without, client-side prepare and finalize, verify, recompute the level |
| Verification and pipeline routes | none | verify a PDF; run the demo pipeline |
| Algorithm policy, key custody, crypto helpers | none | library work and constant tables |
| Frontend (`src/frontend/src`) | React state | calls the endpoints above |

### Interactions

* Every signing handler asks the lifecycle service for a status
  (`get_certificate_status`) and then for the record of the certificate. Both
  calls first run `sync_demo_certificate_record`, which **rewrites both
  lifecycle files**: a read in this system is a write.
* `submit-public-key` calls `create_enrollment` and then `issue_enrollment`.
* `activate_certificate` asks for a status between its own read and its own
  write of `certificates.json`.
* `revoke_certificate` writes the registry and then `certificates.json`; the
  revocation route writes the registry alone. A status is derived from both
  files and the clock.
* Every getter of the demo PKI first calls `init_demo_pki`, which checks the
  files and, if they do not pass, generates and writes all ten again; it then
  synchronises the lifecycle and calls `describe_demo_pki`, which checks again.
* A PDF signing handler loads the signer's certificate, the timestamping key, a
  CRL, an OCSP response and two CA certificates one after the other, some
  through the getters and some straight from the files.
* A JSON signing handler timestamps its package and judges it with
  `verify_signed_package`, which asks the registry about the timestamp's time.
* All services append to the audit log.

### What is hard about it

The endpoints are plain `def` functions, so FastAPI runs them in a thread pool
(`POST /user-signing/prepare` is `async` and runs on the event loop, one at a
time but beside the threads: `LoopFree`); there is no lock in the whole backend. Every store is a JSON file that is read
completely, changed in memory and written back completely with `write_text`,
which truncates the file first. The questions worth asking are therefore:
which facts survive a stale copy written back, which survive a process that
dies between two writes or between truncation and write, what a decision taken
on an earlier read is still worth when it is acted on, and what holds at least
when clients call one endpoint after the other, in every order. `PROJECT.json`
lists each hazard at its line, with the properties aimed at it.

### What makes each component correct

* Lifecycle: an enrollment is certified once and only with a proven key; the
  two files agree between requests; an issued enrollment gets its record; a
  user is offered only certificates minted for that user.
* Revocation: once written, a revocation is never undone; what was signed and
  timestamped before it stays valid, what was timestamped after it never is.
* Key enrollment: a challenge is accepted once, closed challenges stay closed,
  a fixed number of failed proofs locks it, and a used one names its enrollment.
* Signing: a request is signed after it was confirmed, once, by whichever of
  the five ways, and never with a certificate that was already revoked when
  the handler began.
* Blind signatures: a token is redeemed once, and what a wallet holds keeps
  verifying whenever the process is restarted.
* Audit log: every event names the one before it.
* Timestamps: every token ever given out keeps verifying.
* Demo PKI: the files that the check takes for usable belong together, what was
  written in full passes the check, and the demo records follow the files.
* PAdES: the level stored with a file is the one a verifier finds, a revoked
  signer gets no embedded evidence, and a B-LT file keeps verifying.

## 2. The modules

| Module | Models | Extends |
|---|---|---|
| `CertificateLifecycle` | lifecycle service and revocation registry, one action per file access | |
| `KeyEnrollment` | challenge service, calling into the lifecycle | `CertificateLifecycle` |
| `ChallengePolicy` | abstract: what README.md:111-115 promises of a challenge | |
| `SigningRequests` | signing service and remote signing, calling into the lifecycle | `CertificateLifecycle` |
| `SigningPromise` | abstract: the phases of a request and its one document | |
| `AuditChain` | `append_event`: read of the last hash, append of a line | |
| `BlindTokens` | blind signature service, with the audit event of every answer | `AuditChain` |
| `CertificateProfiles` | what the certificate builders put in and the profile validators demand, without state | |
| `DemoPKI` | the ten files, their check, creation, repair and forced replacement, the mutual calls, the demo records | `CertificateProfiles` |
| `PadesSigning` | PDF signing and verification on top of the demo PKI | `DemoPKI` |
| `SigningVerdict` | the timestamp service, the registry with its times, and `verify_signed_package` | |
| `MCCertificateLifecycle`, `MCKeyEnrollment`, `MCSigningRequests`, `MCBlindTokens`, `MCPadesSigning`, `MCSigningVerdict` | instances for TLC: initial certificates, symmetry | the above |
| `CertificateLifecycleProofs`, `KeyEnrollmentProofs`, `SigningRequestsProofs`, `BlindTokensProofs`, `SigningVerdictProofs`, `PadesSigningProofs` | theorems and proofs about the module of the name | that module |
| `SequentialLifecycleProofs`, `SigningPromiseProofs` | what the lifecycle and the signing service promise clients that wait for each answer | `CertificateLifecycleProofs`, `SigningRequestsProofs` |

### How the state corresponds to the code

* `enrollments`, `certificates`, `registry`, `challenges` are the JSON files.
  A truncated or cut-off lifecycle or challenge file reads as empty
  (`_read_json` returns its default); a registry that does not parse makes
  `json.loads` raise, hence its field `ok`.
* `certificates` is a function from serials to records, together with the
  relation "stands before in the list": the list order decides which active
  certificate `get_active_certificate_record` finds.
* `frame[w]` is the call stack of worker `w`: `pc` names the next file access,
  `then` where the caller goes on, `snapE`, `snapK`, `held` and `snapR` are the
  copies of the files the handler works on. `attempt[w]` and `job[w]` are the
  local variables of the challenge and the signing handlers; while such a
  handler is not inside the lifecycle service, `frame[w].pc` is `"caller"`.
* `minted` stands for the PEM files, `lapsed` for the clock and the validity
  periods. `owner`, `acked`, `uses`, `failures`, `made` and `late` are history:
  no action reads them to decide anything except for the bounds named below.
* In `BlindTokens`, `cached` is `_BLIND_SIGNER_KEY`, `keyFile` the PEM file,
  `spent` the registry, and `call[w]` the handler of worker `w` with its local
  variables. Every handler looks the signer key up, some several times (`left`
  counts the lookups to come); `key` is the one it was told or found first.
  `held` is what the wallets have: which token is signed with which key. In
  `AuditChain`, `log` holds for each event the position of the event its
  `previousHash` names, `note[w]` the one worker `w` has read. `redeemed`,
  `overlapped` and `emptied` are history.
* In `DemoPKI`, `disk` is the ten files, each holding a *generation* (all keys
  and certificates of one call of `init_demo_pki`), nothing, or the torn file
  that truncating leaves; the serial of the demo certificate is its
  generation. `records` is the list of demo records in `certificates.json`,
  `enrolled` the demo enrollment. `call[w]` is the handler of worker `w`:
  `back` is its call stack, in which a frame marked `caught` is the `try` block
  around the synchronisation; `todo` and `got` are the loads to come and what
  the earlier ones returned. `overlapped`, `cut` and `crashed` are history, but
  see the bound on overlaps below.
* In `PadesSigning`, `pdfs` is `_SIGNED_PDF_FILES` with the files, `presigns`
  `_CLIENT_PDF_PRESIGNS`, and `job[w]` the local variables of the signing
  handler of worker `w`, which calls into `DemoPKI` through `call[w]`.
* In `SigningVerdict`, `registry` maps serials to `revoked_at`, `tsa` is the
  two TSA files, `epoch` the generation of the PKI on file, `packages` the kept
  packages, `tokens` every timestamp token given out, and `clock` the last
  instant read. `spoiled`, `lost` and `again` are history.
* An action named `Start...` is a request arriving, with the handler's work up
  to its first file access; the others are the steps in between. `Open...`
  truncates a file and `Flush...` writes it. Two overlapping writes of one file
  leave the later one's data, or a file that does not parse (`Written`).

## 3. Modelling decisions

* **Granularity.** One read, one truncation or one write of a file is one
  step. Merged into one step are: the reads of certificates and registry with
  which a status is evaluated; the enrollment lookups of one pass over the list
  (`_email_from_record`); drawing an id, checking a proof and the read of the
  file that follows; and, in `SigningRequests`, dictionary updates with no file
  access between them. The merged reads have no write of the same handler
  between them.
* **Data.** Keys, names, documents and signatures are abstracted to whether a
  proof or signature is genuine, whether a document is a PDF with an allowed
  digest, and who holds the key (`ClientHeld`). Except in
  `CertificateProfiles`, certificate profiles are assumed valid: the code mints
  the certificates itself, and `WrittenIsCurrent` is about whether what it
  builds passes its own validators.
* **Calls.** A handler that raises ends; a lifecycle step that raises inside a
  signing handler ends that too (`Elsewhere`).
* **Sequential.** With `Sequential = TRUE` a request starts only when no
  handler runs, the way the tests in `backend/tests` and a single user of the
  pages call the service. `FALSE` lets all handlers overlap. Both are useful:
  the documented promises hold in the first; in the second several fail
  (issuing twice and using a challenge twice among them), as README.md:118 of
  the repository concedes for the JSON stores.
* **SerialRevocation = TRUE** keeps revocations from overlapping each other
  (and nothing else): the run `lifecycle_lost_revocation` shows why.
* **Blind signatures.** RSA-PSS is abstracted to which key a signature verifies
  under: a signature blinded for one key and made with another verifies under
  none. Clients send a token with the hash of that token, as the pages do.
  Appending one line to the audit file is one write. Here nothing keeps
  handlers apart; instead, history variables record whether handlers have
  ever overlapped and whether the process died in the one window where a
  truncated registry reads as an empty one, and each property names the one it
  depends on. So one run covers all situations, and the invariants still speak
  of every state up to the first overlap.
* **Demo PKI.** A certificate fits the keys of its own generation and no other;
  that is all the models keep of keys, certificates and signatures.
  The list of demo records names a serial at most once, which `DemoIsListed`
  checks and `DemoAlwaysListed` proves, so `Listed` has one record to drop where
  the code filters the whole list.
  Certificates carry their extensions only in `CertificateProfiles`, whose
  `ValidAs` is part of the check `Current`. Two handlers that would write the
  ten files at the same time mix generations in every way; the model stops
  following the second one (`"stuck"`), and no request starts once a file was
  written under a running handler (`overlapped`). What the running handlers do
  with the mixture is modelled to their end.
* **PDF signatures.** pyHanko is modelled from how the code uses it: it embeds
  evidence if the signer's and the timestamper's paths validate in the context
  and no CRL of the right issuer lists the signer; whether an OCSP response
  that says "revoked" is heeded is left open, and properties hold either way.
  The read-only steps between the last load and the stored file (sign, verify,
  recompute) are one step; the loads before it are steps of their own.
* **Verdicts.** A replacement of the PKI is one step, since `DemoPKI` has it in
  detail, and so is the report (`Verify`), whose reads are all of different
  files. No two reads of the clock return the same instant; the code's clock
  has microseconds. A package whose revocation has taken its time but is not
  yet written when the timestamp is made is marked `raced`: neither verdict on
  it is wrong.
* **Signing handlers.** `SigningRequests` has their control; the loads, the
  timestamps and the report are in `PadesSigning` and `SigningVerdict`, whose
  handlers see the lifecycle as two sets, the listed serials and the revoked
  ones. None of it feeds back into the state of `SigningRequests`.
* **Bounds.** `SerialLeft`, `EnrollmentLeft` and `FileLeft` let a request start
  only if an id is left for it, so the finite sets of ids never block a handler
  half way. `MaxClock` bounds the clock; `made` counts to 2, which is enough to
  see "more than once"; `failures` counts to one above the limit; clients draw
  at most `Cardinality(Challenge)` challenges and `Cardinality(Request)`
  requests. In `BlindTokens`, `EventLeft` keeps the log within `MaxEvents` and
  `KeyLeft` lets a request start only if a key is left for it to generate;
  `redeemed` counts to 2. In `DemoPKI` and `SigningVerdict`, `Fresh` and
  `FreshKey` draw a generation or key pair that nothing mentions any more, so a
  small set stands for any number of them; a handler that needs one when all
  are mentioned waits, which only leaves behaviours out. `Lapsing` names the
  certificates whose validity period may end; `MaxIssued`, `MaxPdfs`,
  `MaxPackages`, `MaxClock` and `MaxReplace` bound what they name. In the proofs
  these sets and numbers are arbitrary.

## 4. Runs

| Run | Instance | Shows |
|---|---|---|
| `lifecycle_sequential` | 1 worker, 2 users, 2 enrollments of which one is issued at the start and one is free to be enrolled, 2 serials + the demo certificate, every request, the issued certificate may lapse, the process may die between any two steps | `OneCertificatePerEnrollment`, `IssuedOnProof`, `RevokedStaysRevoked`, `ActiveIsOwn` |
| `enrollment_sequential` | 1 worker, 2 challenges, 2 users, limit 3, clock to 2 | `KeyTypeOK`, `IssuedIsFound`, `SingleUse`, `LockoutHolds`, `UsedNamesEnrollment`, `ClosedStaysClosed`, `AcceptedIsRecorded`, `IssuedGetsRecord`, and `PolicySpec`: refinement of `ChallengePolicy` |
| `enrollment_concurrent` | 2 workers, 1 challenge, limit 2, crashes | `AttemptsBounded` |
| `signing_sequential` | 1 worker, 2 requests, 2 files, a client-held and the backend's certificate, activations and revocations | `SignTypeOK`, `OneSignaturePerRequest`, and `PromiseSpec`: refinement of `SigningPromise` |
| `signing_concurrent` | 2 workers, 1 request, the backend's certificate, activations, revocations, synchronisations, lapsing, crashes | `TypeOK`, `RevokedStaysRevoked`, `NoLateSignature` |
| `tokens` | 2 workers, 1 token, 2 keys, 4 audited requests, crashes | `TokenTypeOK`, `RedeemedOnce`, `HeldVerifies`, `ChainUnbroken` |
| `pades` | 2 workers, 2 generations, 1 certificate issued for a user, 1 signed or prepared file, every request of the demo PKI and of PDF signing, revocations, crashes | `PadesTypeOK`, `CurrentIsWhole`, `WrittenIsCurrent`, `DemoIsListed`, `LevelHolds`, `RevokedGetsNoEvidence`, `LongTerm` |
| `verdict` | 2 workers, a user's and the demo certificates, 3 key pairs, 1 replacement, 3 clock reads, 1 package, free timestamps, crashes | `VerdictTypeOK`, `TokensVerify`, `AcceptedStays`, `RevokedOnceRejected` |
| `lifecycle_superseded` | 1 worker, one issued certificate, activations | violation: my-active offers the superseded one |
| `lifecycle_lost_revocation` | 2 workers, registry revocations that may overlap | violation: a revocation is lost |
| `verdict_rerevoked` | 2 workers, one package, revocations | violation: a second revocation makes a rejected package accepted |
| `pades_level` | 1 worker, one client-signed file, a replacement | violation: stored as B-LT, recomputed as B-B |

*Why the bounds are enough.* The interesting cases need two enrollments of two
users (a certificate offered to the wrong one), two serials besides the demo
certificate (a second mint, a supersession), a second challenge (a write that
loses another record) and two workers (a stale copy of one overwriting the
other). A third worker adds only a second stale copy of the same kind. The
expiry of a challenge needs a clock that passes `TTL` once; the limit of failed
proofs is 5 in the code and 2 or 3 in the runs, where before, at and after the
limit all occur. `signing_concurrent` leaves client-held certificates to the
sequential run; the theorem `RevokedIsRefused` covers them under concurrency.
In `tokens`, one token is redeemed, refused and
redeemed again; a second key is there to be generated by mistake, after a
restart or beside the first; four events are a signature, two redemptions and
one more. In `pades`, two generations are what a mixture needs, and a third
appears when the first is no longer mentioned; the second worker replaces or
describes the PKI under the first. In `verdict`, three clock reads are a
revocation, a timestamp and a second revocation in any order, and the third
key pair is one drawn beside two that tokens already name. The properties are
about one package each, and packages do not influence one another.

*Fairness.* Only the liveness properties use it: weak fairness of the steps of
a handler that has started (`Handle`, `HandleKey`). The code has no locks and
no waiting between file accesses, so a thread of the pool that is running
reaches its next access. Requests, ticks, lapses and crashes have no fairness.
`IssuedGetsRecord` and `AcceptedIsRecorded` are checked without crashes: the
code has no recovery that would complete an interrupted issuance.

*Deadlock* is checked in every run. In every state where no handler runs some
request can be made, if only one that is refused.

## 5. Findings

Four runs show statements of the repository that the code does not keep
(`PROJECT.json`, `findings`):

* `lifecycle_superseded`: the active certificate is the one User Mode uses
  (docs/SECUREDOC_NEXT_IMPROVEMENTS_WITH_REPO_BASELINE.md:434-437), but
  activating a second one leaves the first active, and it is found first.
* `lifecycle_lost_revocation`: a revoked certificate stays revoked
  (docs/README_TEST_GUIDE.md:207-208), unless two revocations overlap.
* `verdict_rerevoked`: the registry's times tell a revocation before signing
  from one after it (revocation_service.py:4-5), but revoking again moves the
  time, no overlap needed.
* `pades_level`: B-LT is only claimed with everything validated (README.md:25),
  but the level is derived without the verdict on the signature, and a client's
  PDF finalised after the PKI was replaced is stored as B-LT.

The last three are stated in a form that does hold as well: with revocations
that do not overlap (`RevokedStaysRevoked`), for serials revoked once
(`RevokedOnceRejected`), and while the signer's CA stays in place
(`LevelHolds`).

## 6. Proofs

TLAPS checks the following for all finite or infinite sets of workers, ids,
users and files and all values of `Requests`, with overlapping handlers and with
crashes unless the table says otherwise. They assume the named assumptions on
the constants (`ConstantsAssumption`, `ChallengeAssumption`,
`SigningAssumption`, `AuditAssumption`, `TokenAssumption`, `VerdictAssumption`,
`PkiAssumption`, `SerialAssumption`) and nothing else but what stands in the
third column. `SerialAssumption` says that a user's certificate and the demo
certificate never have the same serial: the builders draw every serial from
`x509.random_serial_number` (pki_service.py 130, 175, 219). The properties of the blind signature service,
the audit log, the timestamp service, the packages, the demo PKI and the PDF
files name the histories they hold in (`overlapped`, `emptied`, `spoiled`,
`lost`, `cut`, `crashed`) in their own statements.

| Theorem | States | Provided |
|---|---|---|
| `TypeCorrect` | `Spec => []TypeOK` | |
| `RevocationIsFinal` | `Spec => []RevokedStaysRevoked` | `SerialRevocation` |
| `RecordsHaveProof` | `Spec => []IssuedOnProof` | |
| `ActiveIsOwner` | `Spec => []ActiveIsOwn` | |
| `IssuedOnce` | `Spec => []OneCertificatePerEnrollment` | `Sequential` |
| `FilesAgree` | `Spec => []IssuedIsFound` | `Sequential`, no crash |
| `KeyTypeCorrect` | `KeySpec => [](TypeOK /\ KeyTypeOK)` | |
| `AttemptsAreBounded` | `KeySpec => []AttemptsBounded` | |
| `ClosedNeverTried` | `KeySpec => ClosedStaysClosed` | `Sequential` |
| `UsedOnce` | `KeySpec => []SingleUse` | `Sequential`, no crash |
| `LockedOut` | `KeySpec => []LockoutHolds` | `Sequential`, no crash |
| `UsedNamesItsEnrollment` | `KeySpec => []UsedNamesEnrollment` | `Sequential`, no crash |
| `ComposedFilesAgree` | `KeySpec => []IssuedIsFound` | `Sequential`, no crash |
| `FollowsPolicy` | `KeySpec => PolicySpec`, the refinement of `ChallengePolicy` | `Sequential`, no crash |
| `SignTypeCorrect` | `SignSpec => [](TypeOK /\ SignTypeOK)` | |
| `RevokedIsRefused` | `SignSpec => []NoLateSignature` | `SerialRevocation` |
| `SignedAtMostOnce` | `SignSpec => []OneSignaturePerRequest` | `Sequential` |
| `KeepsPromise` | `SignSpec => PromiseSpec`, the refinement of `SigningPromise` | `Sequential`, no crash |
| `TokenTypeCorrect` | `TokenSpec => []TokenTypeOK` | |
| `TokensAreRedeemedOnce` | `TokenSpec => []RedeemedOnce` | |
| `SignaturesKeepVerifying` | `TokenSpec => []HeldVerifies` | |
| `ChainIsUnbroken` | `TokenSpec => []ChainUnbroken` | |
| `VerdictTypes` | `VSpec => []VerdictTypeOK` | |
| `TokensAlwaysVerify` | `VSpec => []TokensVerify` | |
| `AcceptedAlwaysStays` | `VSpec => []AcceptedStays` | |
| `RevokedOnceAlwaysRejected` | `VSpec => []RevokedOnceRejected` | |
| `CurrentIsAlwaysWhole` | `PadesSpec => []CurrentIsWhole` | |
| `WrittenStaysCurrent` | `PadesSpec => []WrittenIsCurrent` | |
| `PadesTypes` | `PadesSpec => []PadesTypeOK` | |
| `NoEvidenceForRevoked` | `PadesSpec => []RevokedGetsNoEvidence` | |
| `StoredLevelHolds` | `PadesSpec => []LevelHolds` | |
| `AcceptedForLong` | `PadesSpec => []LongTerm` | |
| `DemoAlwaysListed` | `PadesSpec => []DemoIsListed` | |
| `ProfilesTellRoles` | the validator of a role accepts what the builders make for that role and for no other | |

"Sequential" is the way of use the repository's tests have (section 3). Where
crashes are excluded, they are because the code loses what is asserted: a
process that dies after a mint and before the record, or after an enrollment
and before the challenge is marked, leaves the files as they are. `IssuedOnce`,
`ClosedNeverTried` and `SignedAtMostOnce` hold with crashes as well.

The arguments:

* *Types.* `TypeOK` is inductive only because `Frame` says more than types: a
  handler that works on an enrollment or a certificate knows which
  (`Addressed`), also after a call returns to it (`then`).
* *Revocation.* `RevokedStaysRevoked` alone is not inductive: a handler that
  read the registry before a revocation could write it back. The invariant
  `RegistryInv` adds that a readable registry contains every written
  revocation, that at most one worker is in a revocation, and that the copy
  this worker is about to write contains them too; between truncation and
  write the registry cannot be read, and nothing is derived from it. Stale
  copies of `certificates.json` need no condition: the derived status depends
  on the registry first.
* *Origins.* Stale lists are written back by overlapping handlers, so
  `OriginInv` says of every copy in every frame what it says of the files: a
  recorded certificate was minted for the enrollment it names, an enrollment was
  proven by the user it was drawn for. Whichever copy is written last, no record
  is made up; this needs no assumption on who overlaps.
* *One request at a time.* `AloneInv` gives every step of a busy worker the
  knowledge that no other worker holds a copy. `OneInv` then follows the two
  files through an issue: an enrollment is pending only while no list, on file
  or in a copy, has a record for it, with the handler between its mint and its
  write as the exception; that order makes `IssuedOnce` survive a crash.
  `FoundInv` says between which two writes the files do not agree yet, and that
  the copies of the one busy handler hold what is missing.
* *Challenges in sequence.* `View` is the list of challenges as the next
  request will see it, whether or not it is just being written. `CountInv` ties
  the histories of accepted and failed proofs to it; each action then changes
  `View` as an action of `ChallengePolicy` does or not at all, which is the
  refinement. `UsedInv` follows the id of the enrollment from the lifecycle's
  frame into the challenge.
* *One signature.* That a request has no signature is checked when a handler
  begins and relied on after many steps in the lifecycle service. `JobFresh`
  says it still has none then; `FilesApart`, that a pending presign has a file
  of its own that nothing was stored in, so that finalising it overwrites no
  other signature. From these every step is a step of `SigningPromise` or a
  stutter.
* *Attempts.* `KeyInv` says of every copy a worker holds what `AttemptsBounded`
  says of the file: a copy with an open challenge has an attempt left. So it does
  not matter which copy is written last.
* *Late signatures.* `LateInv` connects the past to the present: a job marked
  late is for a serial whose revocation has been written. When its status is
  evaluated, the registry, if it can be read, contains that serial
  (`RegistryInv`), so the job is refused. `JobInv` says what a job that got past
  its status check has been checked for.
* *Tokens and the audit log.* `CallInv` adds to the types that a handler past
  the lookup finds a key in the cache. Until handlers overlap, `OrderInv` adds
  that one worker at most is busy (`Alone`) and follows its handler: a noted
  position is that of the last event (`ChainInv`); a key is generated only when
  there is no file, hence before any wallet holds a signature, and outside the
  two steps that write it the cached key is the one on file (`KeyFileInv`); a
  token accepted is in the registry, or in the copy about to be written over a
  truncated one (`SpentInv`). `KeyFileInv` and `ChainInv` survive a crash at any
  step, `SpentInv` at any but the one between truncation and write, which is
  what `emptied` records.
* *Timestamps.* `TsaInv`, kept until `spoiled`: at most one handler writes the
  two files; until it is done the public key is missing or truncated and no
  token exists; from then on both files hold one key, and every token names it
  and is signed with it. A crash between the two files leaves no public key, so
  the pair is made anew before any token is.
* *Verdicts.* `ClockInv` says that nothing carries a time ahead of the clock,
  so a new revocation lies after every package. `RegInv`, kept until `lost`,
  follows the revocations through the registry and through the list a handler
  is about to write over the truncated file: for a package timestamped when its
  serial was revoked, the record stays with a time not after the package's
  unless the serial is revoked again. `AcceptInv` says of an accepted package
  that its serial is revoked only at a later time, in the registry and in every
  list about to be written, which no revocation begun after the timestamp can
  change.
* *Demo PKI.* `CurrentIsWhole` is not inductive: the check sees only the five
  certificates. `PkiInv` adds that one handler at most writes; that the files
  behind it are of its generation (`WriterInv`); and that the file written last
  holds a certificate only if the ten belong together, or a usable PKI is being
  replaced (`RestInv`). A creation or repair that is cut short leaves that last
  file missing, truncated, or of a PKI that was not usable, and is begun anew.
  The history `cut` records the one case in which the last file is of an older
  usable generation.
* *Types of a signature.* `PadesTypeOK` is not inductive: what is signed with
  was read several steps before. `TypesInv` says which files a handler has
  loaded at each stage (`Pair`, `Single`) and what its job holds by then.
* *PDF signatures.* `WatchInv` is what a handler may rely on between reads it
  makes one by one: once it has read a file its signature depends on, and
  nobody wrote under it, the PKI is current, and what it read is what is on
  file; in particular its CRL is signed by the key on file, and lists every
  certificate that had been revoked when it began. It needs no statement about
  generations: a handler of which `WatchInv` speaks never repairs the PKI, and
  another one's write is an overlap. That the CRL then counts follows from
  `CaInv`: wherever a crash cut the writing, two CA certificates of one
  generation come with the intermediate key of that generation. A client's PDF
  spans two handlers; `PreparedInv` follows the presign in between: the CA it
  was prepared under is on file with its root, or is not on file, or is being
  replaced by another generation, which a running handler never sees
  (`WriterAlone`). `PdfInv` collects what was true at the signature.
* *Demo records.* `Orderly`, kept until an overlap or a crash in a handler: the
  files are of one generation or all missing whenever nobody is in the middle
  of writing them, so a handler between its two synchronisation steps finds the
  key of the certificate it listed and never repairs; and a certificate on file
  that is not on the list has a worker about to list it. `ListedOnce` is the
  lemma about the list.
* `LifecycleSide` and `SigningSide` lemmas let the invariants of the lifecycle
  carry over to the composed specifications: every step of a composition is a
  step of the lifecycle, leaves it unchanged, or moves a worker between
  `"idle"`, `"caller"` and the first label of a call.

*Only model-checked*: the two liveness properties `IssuedGetsRecord` and
`AcceptedIsRecorded`, since the proof system cannot treat fairness. What the
four runs of section 5 refute is of course not proved.

## 7. Not modelled

* Cryptography, X.509, CMS and PDF encoding: library work, abstracted to which
  key made what. The RSA-PSS arithmetic of blind signatures is out of reach of
  a model checker.
* The audit events of handlers other than the blind signature ones: the audit
  log has no effect on any other state.
* The external TSA mode of the PAdES engine, which depends on a service the
  repository does not contain, and `init_demo_tsa(force=True)`, which nothing
  calls.
* Algorithm policy and crypto helpers: constant tables and library work without
  state. `SigningRequests` keeps the policy's answer as the field `pdf`.
* The pipeline route: a fixed sequence of modelled calls.
* Application shell and frontend: the models let clients call any endpoint at
  any time, which includes every order the pages use.

## 8. Plan

Done, in this order: `CertificateLifecycle` (the files everything else depends
on), `KeyEnrollment` with `ChallengePolicy`, `SigningRequests` with
`SigningPromise`, `AuditChain` and `BlindTokens`, `SigningVerdict`,
`CertificateProfiles`, `DemoPKI` and `PadesSigning`, and the theorems above,
which now state every invariant, action property and refinement that a run
checks. Next:

1. Theorems for the crashes that `FilesAgree` and `UsedOnce` leave out: what
   exactly a restart may find.
2. The steps behind the liveness properties: that the measure of a handler
   falls with each of its steps.

Runs are merged where one instance answers several questions, so that the
whole suite stays quick to repeat.
