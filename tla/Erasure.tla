------------------------------ MODULE Erasure ------------------------------
(***************************************************************************)
(* The erasure and ingest transactions of services/api over the four       *)
(* tables of db/migrations/0001_schema.sql.                                *)
(*                                                                         *)
(* Each HTTP request is a process.  A transaction takes its reads from one *)
(* snapshot (Begin...), runs its closure on them, and is applied only if   *)
(* what it read still holds when it releases its savepoint: CockroachDB at *)
(* SERIALIZABLE, the database this code relies on.  Every statement and    *)
(* the release may also fail, retryably (40001) or not, and the release    *)
(* may be applied although the client is told it failed.                   *)
(*                                                                         *)
(* A request whose server crashes simply takes no further step.            *)
(***************************************************************************)
EXTENDS Naturals, Sequences

CONSTANTS Subjects,    \* the data subjects (the UUID column's values)
          Erasers,     \* POST /erase requests
          Ingesters,   \* POST /memories requests
          NoKey,       \* the absent subject_keys row
          MaxRetries   \* retry budget of ExecuteTx (50 in cockroach-go)

ASSUME ConstantsAssumption == /\ Erasers \cap Ingesters = {}
                              /\ NoKey \notin Ingesters
                              /\ MaxRetries \in Nat

Requests == Erasers \cup Ingesters

(* The id string a request carries.  The database compares UUIDs, so both  *)
(* spellings of a subject name the same rows; a hash of the string does    *)
(* not.                                                                    *)
Spellings == {"lower", "upper"}
SubjectId == [subject : Subjects, spelling : Spellings]

CanonicalUUID(sid) == [sid EXCEPT !.spelling = "lower"]

-----------------------------------------------------------------------------
(* SHA-256 is modelled by its preimage: equal hashes mean equal histories. *)

SubjectHash(sid) == [sha256_of |-> sid]
SubjectHashes == [sha256_of : SubjectId]
Hash == Seq(Nat \X SubjectHashes)
GenesisPrevHash == <<>>
Link(prevHash, seq, subjectHash) == Append(prevHash, <<seq, subjectHash>>)

(* Table rows.  A key, its wrapped form and its fingerprint are named by    *)
(* the ingest request that had cryptod generate it.                        *)
Key == Ingesters \cup {NoKey}
MemoryRow == [subject : Subjects, key : Ingesters, live : BOOLEAN, aad : Hash]
LogRow == [seq : Nat, subject_hash : SubjectHashes, prev_hash : Hash, hash : Hash]
ErasureRow == [seq : Nat, fingerprint : Key]
NoRecord == [seq |-> 0, fingerprint |-> NoKey]
HeadRead == [seq : Nat, hash : Hash]

VARIABLES subject_keys,    \* subject_id -> the key of its row, or NoKey
          agent_memory,    \* the memory rows; live: embedding IS NOT NULL
          decision_log,    \* the retained, hash-chained rows
          erasure_record,  \* subject_id -> its erasure, or NoRecord
          pc,              \* where each request stands
          id,              \* the subject id in each request's body
          view,            \* what its transaction read of that subject
          head,            \* the chain head it read
          res,             \* Result.Seq of Service.Erase (0: the zero Result)
          retries,         \* restarts of its closure so far
          answer,          \* the HTTP answer
          committed        \* observer: requests whose transaction was applied

tables == <<subject_keys, agent_memory, decision_log, erasure_record>>
vars == <<subject_keys, agent_memory, decision_log, erasure_record,
          pc, id, view, head, res, retries, answer, committed>>

PCs == {"idle", "prepare", "begin", "closure", "release", "done"}
Answers == {"none",
            "erased", "already erased", "unknown subject", "erasure failed",
            "stored", "subject erased", "already provisioned", "ingest failed"}

TypeOK ==
    /\ subject_keys \in [Subjects -> Key]
    /\ agent_memory \subseteq MemoryRow
    /\ decision_log \subseteq LogRow
    /\ erasure_record \in [Subjects -> ErasureRow]
    /\ pc \in [Requests -> PCs]
    /\ id \in [Requests -> SubjectId]
    /\ view \in [Requests -> [key : Key, erased : BOOLEAN]]
    /\ head \in [Requests -> HeadRead]
    /\ res \in [Requests -> Nat]
    /\ retries \in [Requests -> 0..MaxRetries]
    /\ answer \in [Requests -> Answers]
    /\ committed \subseteq Requests

-----------------------------------------------------------------------------
(* The named statements the closures run. *)

Erased(s) == erasure_record[s].seq # 0

(* Mutant: the empty log is read so that the first row gets seq 0. *)
ChainHeadFromZero ==
    IF decision_log = {}
    THEN [seq |-> 0 - 1, hash |-> GenesisPrevHash]
    ELSE LET last == CHOOSE r \in decision_log :
                         \A q \in decision_log : q.seq <= r.seq
         IN  [seq |-> last.seq, hash |-> last.hash]

(* chain_head: ORDER BY seq DESC LIMIT 1; no rows means genesis. *)
ChainHead ==
    IF decision_log = {}
    THEN [seq |-> 0, hash |-> GenesisPrevHash]
    ELSE LET last == CHOOSE r \in decision_log :
                         \A q \in decision_log : q.seq <= r.seq
         IN  [seq |-> last.seq, hash |-> last.hash]

(* Mutant: null_embeddings matches no row. *)
NullEmbeddingsSkipped(s) == agent_memory

NullEmbeddings(s) ==
    {IF m.subject = s THEN [m EXCEPT !.live = FALSE] ELSE m : m \in agent_memory}

SubjectOf(r) == id[r].subject

Init ==
    /\ subject_keys = [s \in Subjects |-> NoKey]
    /\ agent_memory = {}
    /\ decision_log = {}
    /\ erasure_record = [s \in Subjects |-> NoRecord]
    /\ pc = [r \in Requests |-> "idle"]
    /\ id \in [Requests -> SubjectId]
    /\ view = [r \in Requests |-> [key |-> NoKey, erased |-> FALSE]]
    /\ head = [r \in Requests |-> [seq |-> 0, hash |-> GenesisPrevHash]]
    /\ res = [r \in Requests |-> 0]
    /\ retries = [r \in Requests |-> 0]
    /\ answer = [r \in Requests |-> "none"]
    /\ committed = {}

Goto(r, l) == pc' = [pc EXCEPT ![r] = l]

Reply(r, a) == /\ Goto(r, "done")
               /\ answer' = [answer EXCEPT ![r] = a]

(* The snapshot a transaction reads from. *)
ReadSubject(r) ==
    view' = [view EXCEPT ![r] = [key |-> subject_keys[SubjectOf(r)],
                                 erased |-> Erased(SubjectOf(r))]]

ReadHead(r) == head' = [head EXCEPT ![r] = ChainHead]

-----------------------------------------------------------------------------
(* What ExecuteTx does for both closures. *)

(* Mutant: the handler answers by the error alone. *)
FailureAnswerByError(r) == IF r \in Ingesters THEN "ingest failed" ELSE "erasure failed"

(* The answer to a failed transaction.  Erase returns the Result of the     *)
(* last closure run together with the error, and the handler tells "nothing *)
(* was erased" from "erased, proof pending" by Result.Seq.                  *)
FailureAnswer(r) ==
    IF r \in Ingesters THEN "ingest failed"
    ELSE IF res[r] = 0 THEN "erasure failed"
    ELSE "erased"

(* A statement or the release returns 40001 and nothing is applied: roll    *)
(* back to the savepoint and run the closure again, within the budget.      *)
TxRetry(r) ==
    /\ pc[r] \in {"closure", "release"}
    /\ IF retries[r] < MaxRetries
       THEN /\ retries' = [retries EXCEPT ![r] = @ + 1]
            /\ Goto(r, "begin")
            /\ UNCHANGED answer
       ELSE /\ Reply(r, FailureAnswer(r))
            /\ UNCHANGED retries
    /\ UNCHANGED <<tables, id, view, head, res, committed>>

(* Any other failure (the 30 s deadline, a lost connection): rolled back.   *)
TxFail(r) ==
    /\ pc[r] \in {"begin", "closure", "release"}
    /\ Reply(r, FailureAnswer(r))
    /\ UNCHANGED <<tables, id, view, head, res, retries, committed>>

-----------------------------------------------------------------------------
(* POST /erase: Service.Erase. *)

ReceiveErase(e) ==
    /\ pc[e] = "idle"
    /\ Goto(e, "begin")
    /\ UNCHANGED <<tables, id, view, head, res, retries, answer, committed>>

BeginErase(e) ==
    /\ pc[e] = "begin"
    /\ ReadSubject(e)
    /\ ReadHead(e)
    /\ Goto(e, "closure")
    /\ UNCHANGED <<tables, id, res, retries, answer, committed>>

(* No key row to lock: already erased, or an unknown id. *)
EraseRefused(e) ==
    /\ pc[e] = "closure"
    /\ view[e].key = NoKey
    /\ Reply(e, IF view[e].erased THEN "already erased" ELSE "unknown subject")
    /\ UNCHANGED <<tables, id, view, head, res, retries, committed>>

(* Every statement succeeded: the closure leaves its Result behind, before  *)
(* anything is committed.                                                   *)
EraseClosure(e) ==
    /\ pc[e] = "closure"
    /\ view[e].key # NoKey
    /\ res' = [res EXCEPT ![e] = head[e].seq + 1]
    /\ Goto(e, "release")
    /\ UNCHANGED <<tables, id, view, head, retries, answer, committed>>

(* The rows read inside the closure: the locked key row and the chain head. *)
EraseReadsCurrent(e) ==
    /\ subject_keys[SubjectOf(e)] = view[e].key
    /\ ChainHead = head[e]

(* Mutant: the row is linked to genesis, not to the head that was read. *)
DecisionRowUnlinked(e) ==
    [seq |-> res[e],
     subject_hash |-> SubjectHash(id[e]),
     prev_hash |-> GenesisPrevHash,
     hash |-> Link(GenesisPrevHash, res[e], SubjectHash(id[e]))]

DecisionRow(e) ==
    [seq |-> res[e],
     subject_hash |-> SubjectHash(id[e]),
     prev_hash |-> head[e].hash,
     hash |-> Link(head[e].hash, res[e], SubjectHash(id[e]))]

(* PRIMARY KEY (seq) and PRIMARY KEY (subject_id). *)
ErasePrimaryKeysFree(e) ==
    /\ \A r \in decision_log : r.seq # res[e]
    /\ ~Erased(SubjectOf(e))

(* Mutants: one of the four statements is lost. *)
ApplyEraseNoRecord(e) ==
    /\ decision_log' = decision_log \cup {DecisionRow(e)}
    /\ subject_keys' = [subject_keys EXCEPT ![SubjectOf(e)] = NoKey]
    /\ agent_memory' = NullEmbeddings(SubjectOf(e))
    /\ UNCHANGED erasure_record

ApplyEraseKeepsKey(e) ==
    /\ decision_log' = decision_log \cup {DecisionRow(e)}
    /\ agent_memory' = NullEmbeddings(SubjectOf(e))
    /\ erasure_record' = [erasure_record EXCEPT
                             ![SubjectOf(e)] = [seq |-> res[e], fingerprint |-> view[e].key]]
    /\ UNCHANGED subject_keys

ApplyErase(e) ==
    LET s == SubjectOf(e) IN
    /\ decision_log' = decision_log \cup {DecisionRow(e)}
    /\ subject_keys' = [subject_keys EXCEPT ![s] = NoKey]
    /\ agent_memory' = NullEmbeddings(s)
    /\ erasure_record' = [erasure_record EXCEPT
                             ![s] = [seq |-> res[e], fingerprint |-> view[e].key]]

(* The release is applied.  The client learns so, or (an ambiguous commit)  *)
(* gets an error that ExecuteTx does not retry.                             *)
EraseCommit(e) ==
    /\ pc[e] = "release"
    /\ EraseReadsCurrent(e)
    /\ ErasePrimaryKeysFree(e)
    /\ ApplyErase(e)
    /\ \/ Reply(e, "erased")
       \/ Reply(e, FailureAnswer(e))
    /\ committed' = committed \cup {e}
    /\ UNCHANGED <<id, view, head, res, retries>>

-----------------------------------------------------------------------------
(* POST /memories: Ingester.Ingest. *)

(* The chain head that goes into the AAD is read before the transaction. *)
ReceiveIngest(i) ==
    /\ pc[i] = "idle"
    /\ id' = [id EXCEPT ![i] = CanonicalUUID(@)]
    /\ ReadHead(i)
    /\ Goto(i, "prepare")
    /\ UNCHANGED <<tables, view, res, retries, answer, committed>>

(* cryptod generates the keys and encrypts, or fails (or its answer fails   *)
(* validation): nothing has been stored.                                    *)
Prepare(i) ==
    /\ pc[i] = "prepare"
    /\ \/ Goto(i, "begin") /\ UNCHANGED answer
       \/ Reply(i, "ingest failed")
    /\ UNCHANGED <<tables, id, view, head, res, retries, committed>>

BeginIngest(i) ==
    /\ pc[i] = "begin"
    /\ ReadSubject(i)
    /\ Goto(i, "closure")
    /\ UNCHANGED <<tables, id, head, res, retries, answer, committed>>

(* The resurrection guard comes first, then the provisioned guard. *)
IngestRefused(i) ==
    /\ pc[i] = "closure"
    /\ \/ /\ view[i].erased
          /\ Reply(i, "subject erased")
       \/ /\ ~view[i].erased
          /\ view[i].key # NoKey
          /\ Reply(i, "already provisioned")
    /\ UNCHANGED <<tables, id, view, head, res, retries, committed>>

(* Mutant: no resurrection guard. *)
IngestClosureUnguarded(i) ==
    /\ pc[i] = "closure"
    /\ view[i].key = NoKey
    /\ Goto(i, "release")
    /\ UNCHANGED <<tables, id, view, head, res, retries, answer, committed>>

IngestClosure(i) ==
    /\ pc[i] = "closure"
    /\ ~view[i].erased
    /\ view[i].key = NoKey
    /\ Goto(i, "release")
    /\ UNCHANGED <<tables, id, view, head, res, retries, answer, committed>>

(* Both guards are read inside the closure. *)
IngestReadsCurrent(i) ==
    /\ Erased(SubjectOf(i)) = view[i].erased
    /\ subject_keys[SubjectOf(i)] = view[i].key

IngestPrimaryKeysFree(i) == subject_keys[SubjectOf(i)] = NoKey

ApplyIngest(i) ==
    LET s == SubjectOf(i) IN
    /\ subject_keys' = [subject_keys EXCEPT ![s] = i]
    /\ agent_memory' = agent_memory \cup
          {[subject |-> s, key |-> i, live |-> TRUE, aad |-> head[i].hash]}
    /\ UNCHANGED <<decision_log, erasure_record>>

IngestCommit(i) ==
    /\ pc[i] = "release"
    /\ IngestReadsCurrent(i)
    /\ IngestPrimaryKeysFree(i)
    /\ ApplyIngest(i)
    /\ \/ Reply(i, "stored")
       \/ Reply(i, FailureAnswer(i))
    /\ committed' = committed \cup {i}
    /\ UNCHANGED <<id, view, head, res, retries>>

-----------------------------------------------------------------------------
EraseStep(e) == \/ ReceiveErase(e) \/ BeginErase(e) \/ EraseRefused(e)
                \/ EraseClosure(e) \/ EraseCommit(e)

IngestStep(i) == \/ ReceiveIngest(i) \/ Prepare(i) \/ BeginIngest(i)
                 \/ IngestRefused(i) \/ IngestClosure(i) \/ IngestCommit(i)

Next == \/ \E e \in Erasers : EraseStep(e)
        \/ \E i \in Ingesters : IngestStep(i)
        \/ \E r \in Requests : TxRetry(r) \/ TxFail(r)

Spec == Init /\ [][Next]_vars

=============================================================================
