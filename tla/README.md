# Formal verification of ErasureProof

ErasureProof is a memory store for agents that can *prove* it forgot. Every
subject's vector and content are encrypted under a key of its own; an erasure
destroys the key and the vector in one serializable CockroachDB transaction,
retains a row of a hash-chained decision log, and then has a crypto service sign
a proof, put it under S3 Object Lock and record it for anyone to verify.

This directory holds TLA+ models of that program, TLC configurations that check
them on small instances, and proofs checked by TLAPS. Paths below are relative
to the repository; `PROJECT.json` maps every definition to its lines.

## 1. Inventory

| component | state it keeps | operations | talks to |
|---|---|---|---|
| Erasure transaction (`services/api/internal/erasure/erasure.go`, `chain/`, `db/queries/erasure.sql`) | tables `subject_keys`, `agent_memory`, `decision_log`, `erasure_record` | `Service.Erase`, inside `crdbpgx.ExecuteTx` | CockroachDB |
| Ingest transaction (`ingest/ingest.go`, `db/queries/memory.sql`) | `subject_keys`, `agent_memory` | `Ingest` | CockroachDB, cryptod `/prepare` |
| Anchoring (`erasure/orchestrator.go`, `cmd/api/main.go`, `cmd/anchor-reconciler`) | the proof columns of `erasure_record` | `EraseAndAnchor`, `Reconcile` | CockroachDB, cryptod `/shred`, `/anchor` |
| cryptod (`services/cryptod`) | none of its own; KMS keys, the S3 bucket | `/prepare`, `/shred`, `/anchor`, `/invert` | KMS, S3, the inversion worker |
| HTTP API (`httpapi/server.go`) | the in-flight requests | `handleErase`, `handleIngest`, the read-only gateway, the SSE stream | all of the above |
| Live decision stream (`stream/hub.go`, `stream/changefeed.go`) | the subscribers' buffers | `Subscribe`, `Publish`, `Run` | a CockroachDB changefeed, SSE clients |
| Demo gateway (`demo/demo.go`) | live-inversion job slot, hourly budgets, warm-up flag, caches | `GetMemory`, `Search`, `StartLiveInversion`, `LiveInversionStatus`, `TimeTravel`, `GetProof`, `Inclusion`, `Consistency` ... | CockroachDB, cryptod |
| Forensics agent (`agent/agent.go`, `demo/forensics_tools.go`) | the trace of an audit | `Audit`, three read-only tools | a language model, CockroachDB |
| Merkle log (`merkle/`) | none: pure functions | root, inclusion and consistency proofs and their verifiers | - |
| MCP server, Python agents | none | read-only queries, ingest clients | CockroachDB, the API |
| Web console (`web/src/useDemo.ts`, `pages/DemoConsole.tsx`, `api/`) | what is shown, `subjectRef` and `embeddingRef`, the flows under way; the mock's closure | eleven flows of awaited calls, the autopilot, reset | the API, or the mock in the tab |
| Proof page (`web/src/pages/ProofVerifier.tsx`, `verify.ts`) | the status, the generation of the newest check | visit, up to four requests per check, download | the API |
| Mobile verifier (`mobile/App.tsx`, `mobile/src/verify.ts`) | the text pasted, the result | edit, verify, demo, clear | nothing: works offline |

How the parts meet: two kinds of transactions share four tables; after its
commit an erasure is carried on by the API process through two remote calls and
one update, none of them transactional with the rest; the same three steps are
done by sweeps over the rows that lack a proof. Readers (stream, gateway,
verifiers) take snapshots of a log that keeps growing.

What is hard in it:

* *Transactions that fail in three ways.* A 40001 restarts the closure; another
  error ends it; and an error may hide a commit. Locals assigned in the closure
  outlive all three.
* *Races on the head of the chain*, and between an erasure and an ingest of the
  same subject, whose AAD is computed outside the transaction.
* *Crash windows*: between commit and proof, between the put and the record,
  between the deletion of key material and its answer.
* *Timeouts that race late answers*: cryptod goes on after its client is gone.
* *Several anchorers* (handler, boot pass, scheduled sweep) of one erasure.
* *Lossy fan-out*: buffers that drop, a changefeed without an initial scan.
* *Boundary arithmetic* of RFC 6962 trees, in provers and verifiers written in
  different languages.
* *Pages made of awaits*: a stage is up to four calls; refs move after the first,
  the screen after the last, and other flows, a reset or a new route come between.

What makes each component correct:

* erasure and ingest: key, vector, log row and erasure record change together;
  the log is one gapless chain; no erased subject has a key again; an answer
  never says less was erased than was.
* anchoring: no proof claims what is not so (an erasure that did not happen, a
  tree without its row, key material that still exists); what a row serves was
  put under Object Lock; every erasure gets a proof in the end.
* stream: no committed row is missed that the code does not give up knowingly; no
  stalled or vanished viewer costs the others anything.
* gateway: a poll gets the result of its own embedding's run; what a read calls
  gone was erased, though it takes two statements.
* agent: `evidence_proven` follows from the tools' results alone.
* merkle and the proof page: an honest log passes at every size and whenever it
  grows; what the page says of a log is so; the verdict is of the route.
* console: what the next stage acts on is what is shown; the erase stage shows one
  erasure; whatever is shown running ends.
* phone: facts under a recognized signer were signed by it; what the page verified
  verifies offline.

## 2. Modules

| module | role |
|---|---|
| `ErasureSpec` | abstract service: `Provision`, `DestroyAndRetain`, each one step |
| `Erasure` | the two transactions, statement by statement where it matters |
| `ErasureProps` | their properties and the refinement mapping |
| `ErasureProofs` | inductive invariants and theorems about `Erasure` |
| `ErasureRefinement` | theorem: `Erasure` implements `ErasureSpec` |
| `Anchoring` | everything after the commit; composes `ErasureSpec` (its commit) with handlers, sweeps, cryptod, KMS and the bucket |
| `AnchoringProofs` | inductive invariant and theorems about `Anchoring` |
| `Stream` | changefeed, hub, stream handlers and the pages at their other end |
| `StreamProofs` | inductive invariant and theorems about `Stream` |
| `Merkle` | roots, inclusion and consistency proofs and the browser's verifiers, as functions over hash terms |
| `MerkleProofs` | theorems about `Merkle`, for every log of up to 2^30 rows |
| `ProofPage` | the verifier page against a gateway whose log grows, and the phone that takes the certificate on; extends `Merkle` |
| `ProofPageProofs` | inductive invariants and theorems about `ProofPage` |
| `Backends` | what a `DemoApi` calls: the gateway over HTTP, or the mock |
| `Console` | the console's flows against either; extends `Backends` |
| `ConsoleProofs` | inductive invariants and theorems about `Console`: types, what runs, what is gone, live results |
| `ConsoleErasureProofs` | two more invariants on top of them: what is shown as an erasure is one, and what the next stage acts on is what is shown |
| `MCErasure`, `MCAnchoring`, `MCStream`, `MCProofPage`, `MCConsole` | what TLC needs in addition |

### Erasure

*State.* The four tables as relations (`subject_keys`, `agent_memory`,
`decision_log`, `erasure_record`); for each request its program counter, the
subject it names, what it has read (`ReadSubject`, `ReadHead`), the closure's
`res`, its retries and its answer. A hash is modelled as an injective
constructor of what it is taken of, so two different inputs never collide: a
chain hash is the sequence of subject hashes it covers. A subject id has two
spellings of one UUID; tables compare the UUID, `SubjectHash` the string, as in
the code (`CanonicalUUID` is what ingest does and erase does not do).

*Transactions.* Under SERIALIZABLE isolation a transaction takes effect at its
release and only if what it read still holds; otherwise it restarts. So a
closure is two steps: its reads (`BeginErase`, `BeginIngest`), and its end,
which either commits (`EraseCommit`, guarded by `EraseReadsCurrent`), restarts
(`TxRetry`, bounded by `MaxRetries`; in the code the retry budget and the 30 s
deadline), or fails (`TxFail`) with or without having been applied. Failing,
restarting and committing are all possible wherever the driver can do so.

*Answers.* `FailureAnswer` is `handleErase`'s switch on `(err, res.Seq)`,
including that `res` may stem from an attempt that was rolled back.

### Anchoring

*State.* `pc` and `doc` for every handler (named by its subject: a subject is
erased once) and every reconciler; `todo`, a reconciler's list; `rpc`, the
`/anchor` requests cryptod has not finished, which outlive their callers;
`material`, KMS's imported key material; `bucket` and `current`, the versions
put under Object Lock and the one an unversioned key fetches; `record`, the
proof columns.

*Actions.* `Erase` is the commit (one `DestroyAndRetain`). `Shred`, `Anchor`,
`Record` are `EraseAndAnchor`; `Scan`, `SweepHead`, `SweepRow`, `Record`,
`EndSweep` are `Reconcile` with its one tree head per sweep;
`CryptodAnchors`/`CryptodFails` are the service. Each remote call may fail
before or after taking effect; `GiveUp` is the client's timeout; `SweepAborts`
the sweep's own; `Crash` ends the API process with everything in it.
`MaxFaults` bounds the failures, and nothing else.

### Stream

*State.* The log as the number of rows committed; `feed` and `owed`, the
changefeed and what it has yet to emit; the hub's `subscribers`, their channels
(`chan`) and the `Publish` that holds its lock (`pub`: the event, the
subscribers it has yet to serve, the one it is at); each handler's `pc`; each
page's `rows` and `status`. `gap`, `dropped` and `blind` are observers: the rows
that the code gives up knowingly (committed while no changefeed runs, or
unreadable; dropped from a full channel; hidden by a failed snapshot or by a reset).

*Actions.* `Emit`, `Send`, `FindFull`, `DropOldest`, `Unlock` are `Publish`, one step
per `select`, since a reader may receive between two of them; `Subscribe`,
`Snapshot`, `Forward`, `Hangup`, `Unsubscribe` are the handler; `FeedStarts` and
`FeedDrops` are `Consumer.Run`, and `Skip` is its `continue` over a row that does not
parse (counted in `gap`, since no page will see it). A changefeed emits rows of
different keys in any order and may repeat them; the page merges them by `seq`
(`MergeRow`). A snapshot that cannot be read is sent as an empty one that says
`live: true`; the code logs it and goes on, so `blind` takes it out of `NothingElseMissed`,
which cannot catch it. Keepalives and the backoff's times are left out: a connection
and a feed may end anywhere.

### Merkle and ProofPage

*State.* The server: `log`, whose rows are chain hashes (a number: the `seq`, moved
by `Gap` for every cut, so that a row written after a cut differs from the one it
replaces); `record`, one row of `erasure_record` per subject with its stored proof;
`signed`, an observer of every signature ever made. The page: `route`, `generation`,
`checks` (one per generation, with the request it waits for and what it has learnt)
and `status`. `cert` is the file downloaded, `phone` the app's text, result and
error. A hash is a term: `Hash(leaf)` or a node of two terms, so a root in a signed
body is the list of leaves it commits to, and an audit path a sequence of terms. A
signature is the body and the key; it verifies if both are the ones at hand.

*Trees.* Provers and verifiers are functions on sizes (`Tree`, `InclusionProof`,
`ConsistencyProof`, `ComputeRoot`), recursive on the split at `SplitPoint`, as the Go
code and `computeRoot` are. `VerifyConsistency` has no such recursion in the code: it
reads the levels off the bits of the two sizes (`TrailingZeros`, `DifferingBits`,
`OnesAbove`, here sets of bit positions) and hashes a seed upwards (`Climb`). The split
point is a power of two among `Powers`, up to 2^30: the browser doubles a number with
`<<` in 32 bits, so that beyond that size its loop does not end. Hence the size bound of
the module and of every theorem that rests on it.

*Server.* `Grow`, `Erase` and `AnchorProof` (which signs the tree as it is when the
anchor is built, hence possibly larger than the row's `seq`). `Damage` alters a
stored proof, makes its signature undecodable, or serves another signed one;
`CutLog` removes rows from the end of the log. `MaxFaults` bounds these two.
`GetProof`, `GetInclusion`, `GetTreeHead`, `GetConsistency` are the handlers, with
their refusals for sizes and rows the log does not have.

*Page.* `Visit` is the effect of a new route: it bumps the generation and starts a
check; `Respond` handles the answer of the request a check waits for, in the order
of `check` and `checkTransparency`: `HandleProof` (with `Refusal`: pending,
malformed, failed, mismatch), `HandleInclusion`, `HandleHead`, `HandleConsistency`,
and `TransparencyFails`. `Put` is `setStatus` under the generation guard. `Leave` and
`Download` end it. Every request may fail.

*Phone.* `Edit` puts a file into the text field: the certificate as downloaded, one
altered in any field that is signed or names a key, one of another deployment, no
JSON, nothing. `VerifyPasted`, `LoadDemo` and `Clear` are the buttons. The phone acts
once a certificate is there, and the rest stops: nothing but the file connects them,
and the file is one of all that could have been downloaded before.

### Backends and Console

*State.* `backend` says which client was built in. `gateway` is the stored memories,
the erased ones, those of them whose proof is anchored, and the live-inversion job;
`mock` is the closure of `mock.ts`. `tasks` are the flows under way, each with the
call it awaits (`op`, `answer`) and the locals that live across its awaits; a slot
without a flow holds `NoTask`. `page` is `DemoState` with `running`, the stages and
panels whose status is "running"; `ref` is `subjectRef` and `embeddingRef`. `torn` is
an observer: flows that use the refs overlapped, or a loader failed after it had
moved them, and no memory was loaded cleanly since.

*Actions.* A call is served (`Gateway`, one action per handler), lost before or after
it takes effect (`Drop`, `Reply`), or answered by the mock. `GetMemory` and
`ConfirmKeyDestroyed` are two steps, as they are two statements. `Erase` answers with
the proof anchored or pending, as `handleErase` does; `RecordedProof` signs nothing
until it is anchored, which a sweep may do at any time after (`Reconciled`).
`StartInversion` may lose the answer of a job that did start, so that no flow owns
it. With the answer a flow does in one step what its code does up to its next `await`
(`GoesOn`). The mock's calls resolve in microtasks: a flow on the mock runs without
interruption until it awaits WebCrypto (`Urgent`, `Turn`), which is where the writer
and the erasure may be overtaken. `Background` is a sweep that anchors a pending
proof, the GPU run that ends, another visitor who takes the job slot, and a restart
of the gateway. `Begins` is a click: stages exclude one another (`Busy`), panels only
themselves; `RunAll` is the autopilot, which goes on in `StageDone`; `Reset` leaves
flows under way.

Apart from those two reads, each operation of the gateway is one step here, and a 200 to
an erasure is an erasure that committed: how transactions fail, and the 200 without a commit that
`erasure_phantom` finds, are the matter of `Erasure`. After such a 200 the console
would read a memory whose key is still there, and then meet a 404 for its proof.

A session fixes which flows a reader starts. TLC explores eight, each with the flows
that share state; any two of a session's flows overlap.

## 3. Runs

| run | question | bounds | result |
|---|---|---|---|
| `erasure` | are the transactions atomic, the log one chain, refusals truthful, and every step a step of the abstract service? | 2 subjects, 2 erasures, 2 ingests, 1 restart each | holds, about 407,000 states |
| `erasure_phantom` | does 200 mean erased? | see the cfg | **violated** |
| `erasure_spelling` | is `subject_hash` a hash of the UUID? | see the cfg | **violated** |
| `anchoring` | is every proof put or served sound? | 2 subjects (1 with imported material), 1 scheduled sweeper and the boot pass, 1 fault | holds, about 994,000 states |
| `anchoring_live` | does every erasure get its proof? | 1 subject, 4 faults, fair sweeps | holds, about 13,000 states |
| `anchoring_race` | is the served proof the one its `proof_ref` fetches? | as `anchoring` | **violated** |
| `stream` | which rows can a page miss, and can the hub leak a slot? | 2 pages, channels of 1 row, 2 rows, 1 fault, 1 reset | holds, about 661,000 states |
| `stream_live` | does the cap hold, does every `Publish` end, and do rows arrive? | 2 pages and 1 slot, 2 rows, 1 fault | holds, about 55,000 states |
| `stream_gap` | does a live page show the log? | no fault, no reset | **violated** |
| `stream_reset` | does a reset page show history again? | no fault, 1 reset | **violated** |
| `proof_page` | is the verdict right, honest and final, whatever is damaged or overtaken, and does the phone agree? | 2 subjects, 1 erased, a log of up to 5 rows, 2 checks, 1 fault | holds, about 441,000 states |
| `console` | is an erasure shown whole, do panels and refs stay together, and does every flow end? | 2 overlapping flows, up to 2 memories, 1 fault, 1 extra poll, 8 sessions, both backends | holds, about 230,000 states |

Why the bounds are enough for what is asked. Two erasures are what a race for one
head needs, two ingests what a duplicate key needs, and with two subjects they may
collide or not. One restart lets a closure leave a result behind and run again. In
`anchoring` two subjects make the log grow under a sweep's stale head and give the
sweep a list with more than one row; one fault anywhere lets a handler leave its work
to a sweep while its own late put is still under way. In `stream` a channel of one
row is full after the first of two, so that a drop and its race with the reader
happen, and the second row may overtake the first; two pages let one stall while the
other is served. `MaxSubs` binds in `stream_live`, where two pages want one slot. In
`proof_page` five rows reach trees of every shape up to 5, with 2^k and 2^k +- 1
among them, and every pair of sizes between which a consistency proof is asked; two
checks are what an overtaken answer needs; the fault may fall anywhere, and a cut may
be followed by new rows up to the old size and beyond. In `console` two flows suffice
for one to be overtaken by another, by a reset and by a visitor of the job slot; two
memories for the refs to differ from what is shown, and one lost answer for a loader
to stop halfway. The proofs of section 5 lift these bounds for the safety properties
they cover.

Deadlock checking is off in the `erasure` runs, because finitely many requests are
all answered in the end, and in `proof_page`, where the reader may stop. It is on
everywhere else: there is always a sweep, a connection or a flow to start.

### What the violations say

* `erasure_phantom`: `res` is assigned inside the retried closure
  (`erasure.go:188`) and returned with the error. If the closure ran to its end
  and the release failed for good, `handleErase` takes `res.Seq != 0` for
  "erased durably" and answers 200 with `proof_pending` for an erasure that was
  rolled back.
* `erasure_spelling`: erase does not canonicalise the id as ingest does, so the
  log holds the hash of a spelling.
* `anchoring_race`: two anchorers of one erasure may leave a row whose proof is
  not the latest version of its object.
* `stream_gap`: the changefeed has no initial scan and no cursor. A row committed
  after a page's snapshot while no changefeed runs (at boot, or during a
  reconnection's backoff of up to 30 s) never reaches that page, which goes on
  saying "live".
* `stream_reset`: the console's reset empties the timeline but keeps the
  subscription, so that no snapshot seeds it again.

### What the console does around its flows

Seen while modelling and part of the model, but contradicted by no line of the
repository, so no run claims them:

* A loader that fails after its memory was stored leaves the refs ahead of the
  screen: the next stage acts on a memory that is not shown (`MemoryStored`,
  `Fails`). Likewise when the writer overlaps the erase stage: it may search with the
  new embedding after it erased the old subject (`ProofSeen` reads `embeddingRef`
  late). `ActsOnWhatIsShown` therefore excludes what `torn` marks: it says that loads,
  erasures and resets in sequence leave refs and panels on one memory, and cannot catch
  what overtaken answers do to each other. The code has no guard against that.
* A writer that ends sets the memory stage to "done", also while that stage is still
  under way, and the stages are no longer busy (`WriterLoaded`).
* An answer that arrives after a reset fills the page again.
* The agent's verdict stays when another memory is loaded (`Loaded` keeps `audit`).
  So does the Titan panel's sentence.
* If the erasure commits and a later read of that stage fails, a retry meets 409 and
  the result is never shown.
* The mock's writer names the subject after its digest, so that it may name one
  stored meanwhile (`MockWriteEnds`).
* On the phone the text `null` is JSON: it passes the parser and fails in
  `verifyProof`. `NotJson` does not stand for it; it is not in `Files`.

## 4. Fairness

Safety runs assume none. `FairSpec` of `Anchoring` assumes that a reconciler
with something to do goes on (its goroutine or process is scheduled), that a
scheduled sweep is started again and again, and that cryptod serves what it was
sent. The second is the comment of `cmd/anchor-reconciler/main.go` ("a scheduled
job runs it periodically"), an assumption on the deployment and not on the code:
nothing in the repository schedules that command, and with the boot pass alone an
erasure whose anchor fails later gets no proof until the next start. Nothing is
assumed of request handlers, which may stop at any point. Faults stop after
`MaxFaults`; without such a bound no retry scheme terminates.

`FairSpec` of `Stream` assumes that a `Publish` goes on (the consumer's goroutine
is scheduled, and its `select`s never block), that the changefeed emits what it
owes, and that a handler sends what its channel holds, to a client that reads it
(`Forward`). `RowsArrive` needs the last, since it is about the page that reads;
`PublishEnds` does not: a `Publish` ends whatever clients do. Nothing is assumed of
how long a client stays, nor of who gets the hub's lock: handlers that subscribe or
leave may wait for ever.

`FairSpec` of `ProofPage` is weak fairness of each check's `Respond`: a `fetch` is
answered or rejected, and the event loop runs its continuation. `FairSpec` of
`Console` is strong fairness of each flow's `Moves`: a call is answered or fails
(the handlers of `server.go` work under context timeouts and a lost connection
rejects the `fetch`; `client.ts` itself sets no timeout on a request), and the event
loop takes its tasks in order. Strong, because a flow that awaits WebCrypto cannot
move while one on the mock runs, and those may come and go; a queue of tasks still
gives it its turn. Polls end because their deadline passes, at any poll or after
`MaxPolls` of them. Nothing is assumed of the reader, the visitors, the GPU or the
model.

## 5. Proofs

`tlapm` checks all of these for every set of subjects, erasures, ingests,
sweepers, pages, checks and flows, and every bound on retries and faults.

*Erasure.* The inductive invariant grows in four layers. `TypeInv` is `TypeOK`,
`LogDense` (the `seq`s are 1..n, so that a chain head exists) and `ClosureOK`
(what a closure that has run to its end has established). `ChainInv` adds
`ChainIntact`, `HashLength` and `HeadsKnown`: every head a request has read is a
row that is still in the log. `ChainIntact` alone is not inductive: an append
must know that the head it read is the last row *and* that there is no gap below
it. `RecordsInv` adds the bijection of log rows and erasure records and the state
of each memory, which needs that what a transaction read still holds at its
release (`EraseReadsCurrent`, `IngestReadsCurrent`). `AnswersInv` says that a
refused request is not in `committed`. From these follow `TypeCorrect`,
`ChainCorrect`, `RetentionCorrect`, `DestructionCorrect`, `AadCorrect` and
`RefusalsCorrect`.
`ErasureRefinement` uses the same invariant to show that each action maps to
`Provision`, `DestroyAndRetain` or a stutter (`Implements`).

*Anchoring.* The safety properties speak of documents in the bucket, which are
put long after what they state was observed, possibly by a request whose caller
is gone. The argument is that a statement is true when it is made and stays true.
`StepMonotone` is the second half: no step takes a row from the ledger, makes a
destroyed key exist, or brings deleted key material back. The first half is the
inductive invariant `SoundInv`, in layers that follow a document on its way:
what a handler holds (`HandlersSound`: it works for a committed erasure, and says
that key material was deleted only if it was), what a sweep holds (`SweepsSound`: the rows in `todo` were read *before* the head
their tree is taken at, which is why the one head of a sweep covers all of them),
and what is about to be sent, in flight, answered or put (`DocumentsSound`). `KeysGone` (a subject with a row
has no key) holds by the abstract erasure that `Anchoring` composes. `ServedInv`
relates answers and rows to the bucket. From these follow `AnchoringTypeCorrect`,
`TreeCorrect`, `ClaimsCorrect` and `ServingCorrect`.

*Stream.* `TypeInv` adds to `TypeOK` that there is an event in hand whenever a
subscriber is yet to be served (`LockSound`), without which what is sent need not be
a row. `SlotsCorrect`: the hub's map is exactly the set of handlers that have an
unsubscription to run, and no one else is yet to be sent to, so that no `Publish`
sends on a closed channel. `RowsCorrect` needs it: only because a streaming page is
in the map does a row that leaves `owed` come to be in hand for that page; from there
it moves to the channel, and from the channel to the page or into `dropped`
(`SendQueued`, `ReceiveQueued`). A snapshot covers everything committed before it,
hence everything emitted before the subscription.

*Merkle.* Three kinds of facts, for every log of up to 2^30 rows and any proof served.
`TreeCommits`: two trees of one size have one root exactly if they have the same
leaves. Soundness: what a verifier accepts is so, whoever made the proof
(`InclusionSound`, `ConsistencySound`). Completeness: it accepts what the gateway's
prover makes, at every index and every pair of sizes (`InclusionComplete`,
`ConsistencyComplete`). All are inductions on the size of the tree. The definitions are
recursive functions, so each is first shown to exist (`TreeExists`, `PathExists`,
`UpExists`, `SubExists`); the induction itself is the least element of a set of
counterexamples (`LeastElement`, `StrongInduction`), a set where the library's theorems
take an operator. The inclusion verifier recurses as the prover does. The consistency
verifier does not, and that is where the work is: `LevelsRight`, `LevelsSame` and
`LevelsLeft` say how its bit counts for (m, n) follow from those for the part of the
tree that the split leaves, so that a climb over the whole is a climb over that part and
one more sibling (`RungsRight`, `RungsLeft`, `ClimbSound`).

*ProofPage.* The lemma `Responds` says what any answer does to a check: nothing but
its own slot changes; it goes on only with the proof it had or with the stored one,
found genuine and of its subject; and only the newest check writes the status, of
those. On it rest two invariants. `RouteInv`: the check of the current generation is
about the route, there is none when there is no route, and a check past its first
answer holds a proof of its subject. Types are needed for it, since a check's slot is
its generation and must be free when the generation moves on (`PageInv`). It gives
`VerdictCorrect`. `SignedInv`: each signature ever made names its body and the key
that body embeds (`Made`), and everything a step can take a signature from (rows,
checks, the status, the certificate) holds a made one or an undecodable one
(`PaperOk`). Damage keeps that because it cannot forge. The phone's files then hold
made signatures only (`FilesOk`), so that what verifies under a recognized key was
signed by it (`TrustedCorrect`); and a certificate from the page has the same key
inside and outside the signed bytes, so that the phone's choice of the key cannot
reject it (`DownloadCorrect`).

The Merkle theorems carry two more. `SoundInv` is what a check has learnt so far: at the
consistency request, that its leaf is in the signed tree; when it is done, that also
(`CheckSound`, `StatusSound`). `RespondSound` gets each from the soundness of the
verifiers, and `TransparencyCorrect` holds whatever was damaged or cut. `HonestInv` is
for the other direction: while nothing was damaged or cut, row i of the log is i, every
tree that anyone holds is a beginning of it (`CountsTo`), every body names the row it is
about, and no check holds anything but that. A longer log preserves it (`LongerLog`);
then no answer is missing (`HonestAnswers`), and what the prover makes verifies by the
completeness theorems (`HonestInclusion`, `HonestConsistency`). `HonestCorrect` assumes
that erasures are requested in lower case. That is no convenience: in upper case the log
holds the hash of another spelling, which is what `erasure_spelling` shows, and the page
then refuses an honest proof.

*Console.* `TypeInv` adds to `TypeOK` what each flow has at hand: a loader is at a call
that stores its memory, or knows that memory; an envelope, erase or agent flow has a
subject (`ConsoleTypeCorrect`). `RunningIsUnderWay` is inductive once it is known what a
step does to *every* flow: a call that is served keeps what each flow is (`Kept`), and a
continuation moves one flow, which asks on, ends with its mark taken from the screen, or
hands over to the autopilot's next stage (`Follows`, `Proceeds`, `GoesOnProceeds`). From
that `RunningCorrect` follows: no mark outlives the last flow that could take it away.

`ConsoleInv` says of each task what it may know at the call it awaits (`TaskOk`): it
holds the job slot (`ours`) only while the slot's job inverts its embedding; a view
whose key is gone is of an erased subject; `proven` implies the erasure. All of it is
stable, since the gateway only adds memories and erasures (`Grows`), and a job that
is replaced takes `ours` from everyone (`DisplacedOk`). The second statement of
`GetMemory` decides `key` by itself and the row was there at the first, which is the
whole reason why two statements suffice. That an erasure comes between them is
harmless because erasures are not taken back; what could go wrong is a failed
statement taken for an absent row, which is what the property guards against.
`LiveCorrect` and `GoneCorrect` follow through `PageOk`. The proof holds for any
number of flows, also on the mock, where it says what is left of the invariant.

`ErasureShownCorrect` rests on `WholeInv`, which says what an erase flow has
established at each of its calls. Over HTTP this is local to the flow (`HttpOk`): its
subject is erased and stays so, each view and proof is of that subject, and the proof
is signed if it was anchored when the erasure answered (`Recorded`), because once
anchored it stays so (`AnchoredStays`). If it was pending, it may be read signed or
not, as a sweep comes before or after, and the panel says "(anchoring pending)". On
the mock it is not (`MockOk`), since all flows share one subject: an erase flow only
knows that if `mock.erased` still holds, the subject is still its own. That takes two
more facts. No other erasure can set `mock.erased` again, because there is one stage
at a time and it is shown running (`StageOk`; a writer that ends does hide a memory
stage, but not on the mock, where none can be under way then). And from the signature
to the end of the stage nothing intervenes: while the mock serves a call, every other
flow awaits WebCrypto (`Turn`), so that the view, the proof and its signature are
read in one go. A writer that did come before the signature clears `mock.erased`, and
the proof is refused.

`ActsCorrect` needs to know of a flow what became of the memory it works on, which other
flows may spoil. The invariant `ActsInv` therefore speaks of flows that are not
`crossed`: such a flow knows that its memory is the one the refs name, and that it is
stored, viewed or erased, according to how far it is (`KnowsOk`, by the kind of flow:
`Storer`, `Finder`, `Viewer`, `Eraser`). Two flows of the refs that overlap are both
crossed (`CrossedOk`), so that a step of one never breaks what an uncrossed one knows.
As long as no loader has moved the refs and none was torn, the panels are of the refs
(`ShownIs`); a loader moves them after it has stored its memory and shows the memory
when it ends, and what `Finder` knows at that end re-establishes it. On the mock the one
subject is also that of the refs (`MockIs`), or an erase stage would erase another. The
invariant was first checked by TLC on the run `console`.

These proofs assume the constants' assumptions only. `AnchoringAssumption`,
`ConstantsAssumption` and `StreamAssumption` say what sets the constants are.
`ProofPageAssumption`, `ValuesAssumption` and `BackendsAssumption` say in addition that
the value "none" is no id, body, key, number or failure, that what is signed elsewhere is
signed as here, and that logs and the trees signed elsewhere have at most 2^30 rows.

Only model-checked: the liveness properties `EveryErasureGetsAProof`, `PublishEnds`,
`RowsArrive`, `FlowsEnd` and `EveryCheckEnds`, since liveness under fairness is out of
the prover's reach, and the five violations, which are counterexamples. Every safety
property that a passing run checks is also a theorem.

Assumed throughout: SERIALIZABLE isolation as described above (so that a failure
between two of a closure's statements leaves none of them: what is checked is that
all four are in the closure that commits, not that the database rolls back), hashes
without collisions, ideal encryption and signatures, Object Lock (a put version is
never lost).

## 6. Not modelled, and the plan

Left out for good:

* the cryptography (the Rust inversion worker, AEAD, KMS wrapping, signatures,
  ASN.1 and base64), taken as ideal or as "decodes or not";
* the hourly budgets of `demo.go` (`allowLiveInvert`, `allowForensics`): sliding windows
  of a clock that only refuse a start; and the background poll of `WarmForensics`. A
  refusal or a cold model is one of the failures `Console` allows anywhere;
* the row that `TimeTravel` inserts and deletes: of a random subject nobody can name;
* the Go verifiers of `merkle/`, which only its tests call (the provers are modelled,
  and the verifiers of the browser are what checks them);
* audio, health checks, the probes of what is wired, animation and layout;
* the MCP server and the Python agents, which are stateless readers and ingest
  clients (a client of `POST /memories` is an `Ingester` of `Erasure`);
* the deployment files, spikes and data.

What could follow, in this order: the refinement of `Anchoring`'s commit by `Erasure`
as one composed specification; a clock for the budgets and for a sweep whose first rows
hang.
