--------------------------- MODULE ErasureProofs ---------------------------
(***************************************************************************)
(* Theorems about Erasure, for every set of subjects and requests and      *)
(* every retry budget, and their proofs.                                   *)
(*                                                                         *)
(* The argument.  The log is dense (its seq values are 1..n), so the chain *)
(* head exists; a commit is applied only if the head it read is still the  *)
(* head, so it appends row n + 1 linked to row n.  A subject's record and  *)
(* its key exclude each other, so an ingest whose guards still hold at its *)
(* commit cannot revive an erased subject.                                 *)
(***************************************************************************)
EXTENDS ErasureProps, TLAPS

(* The seq values in the log are 1..n for some n. *)
LogDense ==
    \E n \in Nat : /\ \A r \in decision_log : r.seq \in 1..n
                   /\ \A k \in 1..n : \E r \in decision_log : r.seq = k

(* What a closure that reached its release has established. *)
ClosureOK ==
    /\ \A e \in Erasers : pc[e] = "release" =>
          view[e].key # NoKey /\ res[e] = head[e].seq + 1
    /\ \A i \in Ingesters : pc[i] = "release" =>
          view[i].key = NoKey /\ ~view[i].erased
    /\ \A r \in committed : pc[r] = "done"

TypeInv == TypeOK /\ LogDense /\ ClosureOK

(* A head somebody read: genesis, or a row that is in the log. *)
KnownHead(h) ==
    \/ h = [seq |-> 0, hash |-> GenesisPrevHash]
    \/ \E q \in decision_log : h = [seq |-> q.seq, hash |-> q.hash]

HeadsKnown == \A r \in Requests : KnownHead(head[r])

(* A hash covers as many rows as its seq says. *)
HashLength == \A r \in decision_log : Len(r.hash) = r.seq

-----------------------------------------------------------------------------
(* The chain_head statement, on a dense log: the row every other precedes. *)
LEMMA ChainHeadIsLast ==
  ASSUME TypeOK, LogDense
  PROVE  /\ ChainHead \in HeadRead
         /\ KnownHead(ChainHead)
         /\ \A r \in decision_log : r.seq \in 1..ChainHead.seq
         /\ \A k \in 1..ChainHead.seq : \E r \in decision_log : r.seq = k
<1>1. PICK n \in Nat : /\ \A r \in decision_log : r.seq \in 1..n
                       /\ \A k \in 1..n : \E r \in decision_log : r.seq = k
  BY DEF LogDense
<1>2. CASE decision_log = {}
  <2>1. ChainHead = [seq |-> 0, hash |-> GenesisPrevHash]
    BY <1>2 DEF ChainHead
  <2>2. GenesisPrevHash \in Hash
    BY DEF GenesisPrevHash, Hash
  <2>. QED
    BY <1>2, <2>1, <2>2 DEF KnownHead, HeadRead
<1>3. CASE decision_log # {}
  <2>. DEFINE IsLast(r) == \A q \in decision_log : q.seq <= r.seq
              last == CHOOSE r \in decision_log : IsLast(r)
  <2>1. n \in 1..n
    BY <1>1, <1>3
  <2>2. \E r \in decision_log : r.seq = n
    BY <1>1, <2>1
  <2>3. \E r \in decision_log : IsLast(r)
    BY <1>1, <2>2
  <2>4. last \in decision_log /\ IsLast(last)
    BY <2>3
  <2>5. last \in LogRow
    BY <2>4 DEF TypeOK
  <2>6. ChainHead = [seq |-> last.seq, hash |-> last.hash]
    BY <1>3 DEF ChainHead
  <2>7. last.seq = n
    BY <1>1, <2>2, <2>4, <2>5 DEF LogRow
  <2>8. ChainHead \in HeadRead /\ ChainHead.seq = n
    BY <2>5, <2>6, <2>7 DEF LogRow, HeadRead
  <2>9. KnownHead(ChainHead)
    BY <2>4, <2>6 DEF KnownHead
  <2>. QED
    BY <1>1, <2>8, <2>9
<1>. QED
  BY <1>2, <1>3

-----------------------------------------------------------------------------
(* Types. *)

LEMMA InitTypeInv == Init => TypeInv
<1>. SUFFICES ASSUME Init PROVE TypeInv
  OBVIOUS
<1>1. TypeOK
  BY ConstantsAssumption
  DEF Init, TypeOK, Key, NoRecord, ErasureRow, PCs, HeadRead, Hash,
      GenesisPrevHash, Answers, Requests
<1>2. LogDense
  <2>1. /\ \A r \in decision_log : r.seq \in 1..0
        /\ \A k \in 1..0 : \E r \in decision_log : r.seq = k
    BY DEF Init
  <2>. QED
    BY <2>1 DEF LogDense
<1>3. ClosureOK
  BY DEF Init, ClosureOK, Requests
<1>. QED
  BY <1>1, <1>2, <1>3 DEF TypeInv

(* A step that leaves the log alone keeps it dense. *)
LEMMA LogDenseUnchanged ==
  ASSUME LogDense, UNCHANGED decision_log
  PROVE  LogDense'
BY DEF LogDense

(* The steps that touch no table: only the request's own locals change. *)
LEMMA LocalStepTypeInv ==
  ASSUME TypeInv, NEW r \in Requests,
         \/ TxRetry(r) \/ TxFail(r)
         \/ r \in Erasers /\ (ReceiveErase(r) \/ EraseRefused(r))
         \/ r \in Ingesters /\ (Prepare(r) \/ IngestRefused(r))
  PROVE  TypeInv'
<1>. USE DEF TypeInv, Goto, Reply, tables
<1>1. LogDense'
  BY LogDenseUnchanged
     DEF TxRetry, TxFail, ReceiveErase, EraseRefused, Prepare, IngestRefused
<1>2. /\ UNCHANGED <<tables, id, view, head, res, committed>>
      /\ pc' = [pc EXCEPT ![r] = "begin"] \/ pc' = [pc EXCEPT ![r] = "done"]
      /\ pc[r] # "done"
  BY DEF TxRetry, TxFail, ReceiveErase, Prepare, EraseRefused, IngestRefused
<1>3. TypeOK'
  <2>1. pc' \in [Requests -> PCs]
    BY <1>2 DEF TypeOK, PCs
  <2>2. answer' \in [Requests -> Answers]
    <3>1. FailureAnswer(r) \in Answers
      BY DEF FailureAnswer, Answers
    <3>2. CASE TxRetry(r) \/ TxFail(r)
      BY <3>1, <3>2 DEF TypeOK, TxRetry, TxFail
    <3>3. CASE ReceiveErase(r) \/ Prepare(r)
      BY <3>3 DEF TypeOK, ReceiveErase, Prepare, Answers
    <3>4. CASE EraseRefused(r) \/ IngestRefused(r)
      BY <3>4 DEF TypeOK, EraseRefused, IngestRefused, Answers
    <3>. QED
      BY <3>2, <3>3, <3>4
  <2>3. retries' \in [Requests -> 0..MaxRetries]
    <3>1. \/ retries' = retries
          \/ retries[r] < MaxRetries /\ retries' = [retries EXCEPT ![r] = retries[r] + 1]
      BY DEF TxRetry, TxFail, ReceiveErase, Prepare, EraseRefused, IngestRefused
    <3>2. retries[r] \in 0..MaxRetries
      BY DEF TypeOK
    <3>3. retries[r] < MaxRetries => retries[r] + 1 \in 0..MaxRetries
      BY <3>2, ConstantsAssumption
    <3>. QED
      BY <3>1, <3>3 DEF TypeOK
  <2>. QED
    BY <1>2, <2>1, <2>2, <2>3 DEF TypeOK
<1>4. ClosureOK'
  BY <1>2 DEF TypeOK, ClosureOK, Requests
<1>. QED
  BY <1>1, <1>3, <1>4

(* The steps that read the tables. *)
LEMMA ReadStepTypeInv ==
  ASSUME TypeInv, NEW r \in Requests,
         \/ r \in Erasers /\ BeginErase(r)
         \/ r \in Ingesters /\ (ReceiveIngest(r) \/ BeginIngest(r))
  PROVE  TypeInv'
<1>. USE DEF TypeInv, Goto, tables
<1>1. LogDense'
  BY LogDenseUnchanged DEF BeginErase, ReceiveIngest, BeginIngest
<1>2. SubjectOf(r) \in Subjects
  BY DEF TypeOK, SubjectOf, SubjectId
<1>3. subject_keys[SubjectOf(r)] \in Key /\ Erased(SubjectOf(r)) \in BOOLEAN
  BY <1>2 DEF TypeOK, Erased
<1>4. ChainHead \in HeadRead
  BY ChainHeadIsLast
<1>5. CanonicalUUID(id[r]) \in SubjectId
  BY DEF TypeOK, CanonicalUUID, SubjectId, Spellings
<1>6. TypeOK'
  <2>1. pc' \in [Requests -> PCs]
    BY DEF TypeOK, BeginErase, ReceiveIngest, BeginIngest, PCs
  <2>2. view' \in [Requests -> [key : Key, erased : BOOLEAN]]
    BY <1>3 DEF TypeOK, BeginErase, ReceiveIngest, BeginIngest, ReadSubject
  <2>3. head' \in [Requests -> HeadRead]
    BY <1>4 DEF TypeOK, BeginErase, ReceiveIngest, BeginIngest, ReadHead
  <2>4. id' \in [Requests -> SubjectId]
    BY <1>5 DEF TypeOK, BeginErase, ReceiveIngest, BeginIngest
  <2>. QED
    BY <2>1, <2>2, <2>3, <2>4
       DEF TypeOK, BeginErase, ReceiveIngest, BeginIngest
<1>7. ClosureOK'
  BY ConstantsAssumption
     DEF TypeOK, ClosureOK, BeginErase, ReceiveIngest, BeginIngest, ReadSubject,
         ReadHead, Requests
<1>. QED
  BY <1>1, <1>6, <1>7

(* The ends of the two closures. *)
LEMMA ClosureStepTypeInv ==
  ASSUME TypeInv, NEW r \in Requests,
         \/ r \in Erasers /\ EraseClosure(r)
         \/ r \in Ingesters /\ IngestClosure(r)
  PROVE  TypeInv'
<1>. USE DEF TypeInv, Goto, tables
<1>1. LogDense'
  BY LogDenseUnchanged DEF EraseClosure, IngestClosure
<1>2. head[r].seq \in Nat
  BY DEF TypeOK, HeadRead
<1>3. TypeOK'
  BY <1>2 DEF TypeOK, EraseClosure, IngestClosure, PCs
<1>4. ClosureOK'
  BY ConstantsAssumption DEF TypeOK, ClosureOK, EraseClosure, IngestClosure, Requests
<1>. QED
  BY <1>1, <1>3, <1>4

(* What an erasure whose release is applied appends: the next row. *)
LEMMA CommitAppendsNext ==
  ASSUME TypeInv, NEW e \in Erasers, EraseCommit(e)
  PROVE  /\ SubjectOf(e) \in Subjects
         /\ view[e].key \in Ingesters
         /\ res[e] = ChainHead.seq + 1
         /\ head[e] = ChainHead
         /\ DecisionRow(e) \in LogRow
         /\ DecisionRow(e).seq = ChainHead.seq + 1
<1>. USE DEF TypeInv
<1>1. e \in Requests
  BY DEF Requests
<1>2. SubjectOf(e) \in Subjects /\ id[e] \in SubjectId
  BY <1>1 DEF TypeOK, SubjectOf, SubjectId
<1>3. head[e] = ChainHead /\ ChainHead \in HeadRead
  BY ChainHeadIsLast DEF EraseCommit, EraseReadsCurrent
<1>4. view[e].key \in Ingesters /\ res[e] = ChainHead.seq + 1
  BY <1>1, <1>3 DEF TypeOK, ClosureOK, EraseCommit, Key
<1>5. ChainHead.seq \in Nat /\ ChainHead.hash \in Hash
  BY <1>3 DEF HeadRead
<1>6. SubjectHash(id[e]) \in SubjectHashes
  BY <1>2 DEF SubjectHash, SubjectHashes
<1>7. Link(ChainHead.hash, res[e], SubjectHash(id[e])) \in Hash
  BY <1>4, <1>5, <1>6 DEF Link, Hash
<1>. QED
  BY <1>2, <1>3, <1>4, <1>5, <1>6, <1>7 DEF DecisionRow, LogRow

LEMMA EraseCommitTypeInv ==
  ASSUME TypeInv, NEW e \in Erasers, EraseCommit(e)
  PROVE  TypeInv'
<1>. USE DEF TypeInv
<1>. DEFINE n == ChainHead.seq
<1>1. e \in Requests
  BY DEF Requests
<1>2. decision_log' = decision_log \cup {DecisionRow(e)}
  BY DEF EraseCommit, ApplyErase
<1>3. LogDense'
  <2>1. n \in Nat
    BY ChainHeadIsLast DEF HeadRead
  <2>2. \A r \in decision_log' : r.seq \in 1..(n + 1)
    BY <1>2, <2>1, ChainHeadIsLast, CommitAppendsNext
  <2>3. \A k \in 1..(n + 1) : \E r \in decision_log' : r.seq = k
    BY <1>2, <2>1, ChainHeadIsLast, CommitAppendsNext
  <2>. QED
    BY <2>1, <2>2, <2>3 DEF LogDense
<1>4. TypeOK'
  <2>1. decision_log' \subseteq LogRow
    BY <1>2, CommitAppendsNext DEF TypeOK
  <2>2. agent_memory' \subseteq MemoryRow
    BY DEF EraseCommit, ApplyErase, NullEmbeddings, TypeOK, MemoryRow
  <2>3. subject_keys' \in [Subjects -> Key]
    BY DEF EraseCommit, ApplyErase, TypeOK, Key
  <2>4. [seq |-> res[e], fingerprint |-> view[e].key] \in ErasureRow
    BY <1>1 DEF TypeOK, ErasureRow
  <2>5. erasure_record' \in [Subjects -> ErasureRow]
    BY <2>4 DEF EraseCommit, ApplyErase, TypeOK
  <2>6. /\ pc' \in [Requests -> PCs]
        /\ answer' \in [Requests -> Answers]
        /\ committed' \subseteq Requests
    BY <1>1 DEF EraseCommit, Reply, Goto, FailureAnswer, TypeOK, PCs, Answers
  <2>. QED
    BY <2>1, <2>2, <2>3, <2>5, <2>6 DEF TypeOK, EraseCommit
<1>5. ClosureOK'
  BY <1>1 DEF TypeOK, ClosureOK, EraseCommit, Reply, Goto, Requests
<1>. QED
  BY <1>3, <1>4, <1>5

LEMMA IngestCommitTypeInv ==
  ASSUME TypeInv, NEW i \in Ingesters, IngestCommit(i)
  PROVE  TypeInv'
<1>. USE DEF TypeInv
<1>1. i \in Requests
  BY DEF Requests
<1>2. LogDense'
  BY LogDenseUnchanged DEF IngestCommit, ApplyIngest
<1>3. SubjectOf(i) \in Subjects /\ head[i].hash \in Hash
  BY <1>1 DEF TypeOK, SubjectOf, SubjectId, HeadRead
<1>4. [subject |-> SubjectOf(i), key |-> i, live |-> TRUE, aad |-> head[i].hash]
         \in MemoryRow
  BY <1>3 DEF MemoryRow
<1>5. agent_memory' \subseteq MemoryRow
  BY <1>4 DEF TypeOK, IngestCommit, ApplyIngest
<1>6. subject_keys' \in [Subjects -> Key]
  BY DEF TypeOK, IngestCommit, ApplyIngest, Key
<1>7. /\ pc' \in [Requests -> PCs]
      /\ answer' \in [Requests -> Answers]
      /\ committed' \subseteq Requests
  BY <1>1 DEF IngestCommit, Reply, Goto, FailureAnswer, TypeOK, PCs, Answers
<1>8. TypeOK'
  BY <1>5, <1>6, <1>7 DEF TypeOK, IngestCommit, ApplyIngest
<1>9. ClosureOK'
  BY <1>1 DEF TypeOK, ClosureOK, IngestCommit, Reply, Goto, Requests
<1>. QED
  BY <1>2, <1>8, <1>9

LEMMA NextTypeInv == TypeInv /\ [Next]_vars => TypeInv'
<1>. SUFFICES ASSUME TypeInv, [Next]_vars PROVE TypeInv'
  OBVIOUS
<1>1. ASSUME NEW e \in Erasers, EraseStep(e) PROVE TypeInv'
  <2>1. e \in Requests
    BY DEF Requests
  <2>. QED
    BY <1>1, <2>1, LocalStepTypeInv, ReadStepTypeInv, ClosureStepTypeInv,
       EraseCommitTypeInv DEF EraseStep
<1>2. ASSUME NEW i \in Ingesters, IngestStep(i) PROVE TypeInv'
  <2>1. i \in Requests
    BY DEF Requests
  <2>. QED
    BY <1>2, <2>1, LocalStepTypeInv, ReadStepTypeInv, ClosureStepTypeInv,
       IngestCommitTypeInv DEF IngestStep
<1>3. ASSUME NEW r \in Requests, TxRetry(r) \/ TxFail(r) PROVE TypeInv'
  BY <1>3, LocalStepTypeInv
<1>4. CASE UNCHANGED vars
  BY <1>4 DEF vars, TypeInv, TypeOK, LogDense, ClosureOK
<1>. QED
  BY <1>1, <1>2, <1>3, <1>4 DEF Next

(* Every table and every local keeps its type, whatever the interleaving:   *)
(* in particular no request ever reads a chain head that does not exist.    *)
THEOREM TypeCorrect == Spec => []TypeOK
<1>1. TypeInv => TypeOK
  BY DEF TypeInv
<1>. QED
  BY <1>1, InitTypeInv, NextTypeInv, PTL DEF Spec
-----------------------------------------------------------------------------
(* The chain. *)

ChainInv == ChainIntact /\ HashLength /\ HeadsKnown

(* Only the two commits write a table; any other step leaves them alone,    *)
(* and the observer with them.                                              *)
LEMMA StepKinds ==
  ASSUME [Next]_vars
  PROVE  \/ \E e \in Erasers : EraseCommit(e)
         \/ \E i \in Ingesters : IngestCommit(i)
         \/ UNCHANGED tables /\ UNCHANGED committed
<1>1. ASSUME NEW e \in Erasers, EraseStep(e)
      PROVE  EraseCommit(e) \/ (UNCHANGED tables /\ UNCHANGED committed)
  BY <1>1 DEF EraseStep, ReceiveErase, BeginErase, EraseRefused, EraseClosure
<1>2. ASSUME NEW i \in Ingesters, IngestStep(i)
      PROVE  IngestCommit(i) \/ (UNCHANGED tables /\ UNCHANGED committed)
  BY <1>2
     DEF IngestStep, ReceiveIngest, Prepare, BeginIngest, IngestRefused, IngestClosure
<1>3. ASSUME NEW r \in Requests, TxRetry(r) \/ TxFail(r)
      PROVE  UNCHANGED tables /\ UNCHANGED committed
  BY <1>3 DEF TxRetry, TxFail
<1>4. CASE UNCHANGED vars
  BY <1>4 DEF vars, tables
<1>. QED
  BY <1>1, <1>2, <1>3, <1>4 DEF Next

(* A head changes only by reading the current one. *)
LEMMA HeadStep ==
  ASSUME TypeInv, [Next]_vars, NEW r \in Requests
  PROVE  head'[r] = head[r] \/ (head'[r] = ChainHead /\ UNCHANGED tables)
<1>. USE DEF TypeInv, TypeOK
<1>1. ASSUME NEW e \in Erasers, EraseStep(e)
      PROVE  head'[r] = head[r] \/ (head'[r] = ChainHead /\ UNCHANGED tables)
  BY <1>1 DEF EraseStep, ReceiveErase, BeginErase, EraseRefused, EraseClosure,
              EraseCommit, ReadHead
<1>2. ASSUME NEW i \in Ingesters, IngestStep(i)
      PROVE  head'[r] = head[r] \/ (head'[r] = ChainHead /\ UNCHANGED tables)
  BY <1>2 DEF IngestStep, ReceiveIngest, Prepare, BeginIngest, IngestRefused,
              IngestClosure, IngestCommit, ReadHead
<1>3. ASSUME NEW q \in Requests, TxRetry(q) \/ TxFail(q)
      PROVE  head'[r] = head[r]
  BY <1>3 DEF TxRetry, TxFail
<1>4. CASE UNCHANGED vars
  BY <1>4 DEF vars
<1>. QED
  BY <1>1, <1>2, <1>3, <1>4 DEF Next

LEMMA HeadsKnownStep ==
  ASSUME TypeInv, HeadsKnown, [Next]_vars
  PROVE  HeadsKnown'
<1>1. decision_log \subseteq decision_log'
  BY StepKinds DEF EraseCommit, ApplyErase, IngestCommit, ApplyIngest, tables
<1>2. ASSUME NEW r \in Requests PROVE KnownHead(head[r])'
  <2>1. KnownHead(head[r]) /\ KnownHead(ChainHead)
    BY ChainHeadIsLast DEF HeadsKnown, TypeInv
  <2>. QED
    BY <1>1, <2>1, HeadStep DEF KnownHead
<1>. QED
  BY <1>2 DEF HeadsKnown

(* The appended row continues the chain. *)
LEMMA EraseCommitChain ==
  ASSUME TypeInv, ChainInv, NEW e \in Erasers, EraseCommit(e)
  PROVE  ChainIntact' /\ HashLength'
<1>. DEFINE d == DecisionRow(e)
<1>. USE DEF TypeInv, ChainInv
<1>1. decision_log' = decision_log \cup {d}
  BY DEF EraseCommit, ApplyErase
<1>2. d.seq = ChainHead.seq + 1 /\ d.prev_hash = ChainHead.hash
  BY CommitAppendsNext DEF DecisionRow
<1>3. d.hash = Link(d.prev_hash, d.seq, d.subject_hash)
  BY DEF DecisionRow
<1>4. ChainHead \in HeadRead /\ d \in LogRow
  BY ChainHeadIsLast, CommitAppendsNext
<1>5. \/ d.seq = 1 /\ d.prev_hash = GenesisPrevHash /\ ChainHead.seq = 0
      \/ \E q \in decision_log :
            d.seq = q.seq + 1 /\ d.prev_hash = q.hash /\ ChainHead.seq = q.seq
  BY <1>2, ChainHeadIsLast DEF KnownHead
<1>6. \A r \in decision_log : r \in LogRow /\ r.seq # d.seq
  BY <1>2, <1>4, ChainHeadIsLast DEF TypeOK, LogRow, HeadRead
<1>7. ChainIntact'
  <2>1. \A r, q \in decision_log' : r.seq = q.seq => r = q
    BY <1>1, <1>6 DEF ChainIntact
  <2>2. ASSUME NEW r \in decision_log'
        PROVE  /\ r.hash = Link(r.prev_hash, r.seq, r.subject_hash)
               /\ \/ r.seq = 1 /\ r.prev_hash = GenesisPrevHash
                  \/ \E q \in decision_log' : r.seq = q.seq + 1 /\ r.prev_hash = q.hash
    BY <1>1, <1>3, <1>5 DEF ChainIntact
  <2>. QED
    BY <2>1, <2>2 DEF ChainIntact
<1>8. HashLength'
  <2>1. Len(d.prev_hash) = ChainHead.seq
    <3>1. Len(GenesisPrevHash) = 0
      BY DEF GenesisPrevHash
    <3>. QED
      BY <1>5, <3>1 DEF HashLength
  <2>2. d.prev_hash \in Seq(Nat \X SubjectHashes)
    BY <1>4 DEF LogRow, Hash
  <2>3. <<d.seq, d.subject_hash>> \in Nat \X SubjectHashes
    BY <1>4 DEF LogRow
  <2>4. Len(d.hash) = Len(d.prev_hash) + 1
    BY <1>3, <2>2, <2>3 DEF Link
  <2>. QED
    BY <1>1, <1>2, <2>1, <2>4 DEF HashLength
<1>. QED
  BY <1>7, <1>8

LEMMA NextChainInv == TypeInv /\ ChainInv /\ [Next]_vars => ChainInv'
<1>. SUFFICES ASSUME TypeInv, ChainInv, [Next]_vars PROVE ChainInv'
  OBVIOUS
<1>1. HeadsKnown'
  BY HeadsKnownStep DEF ChainInv
<1>2. CASE \E e \in Erasers : EraseCommit(e)
  BY <1>1, <1>2, EraseCommitChain DEF ChainInv
<1>3. CASE UNCHANGED decision_log
  BY <1>1, <1>3 DEF ChainInv, ChainIntact, HashLength
<1>. QED
  BY <1>2, <1>3, StepKinds DEF IngestCommit, ApplyIngest, tables

LEMMA InitChainInv == Init => ChainInv
BY DEF Init, ChainInv, ChainIntact, HashLength, HeadsKnown, KnownHead

(* However many erasures race, fail, retry or commit ambiguously, the       *)
(* decision log is one gapless hash chain: what VerifyChain checks.         *)
THEOREM ChainCorrect == Spec => []ChainIntact
<1>1. ChainInv => ChainIntact
  BY DEF ChainInv
<1>2. TypeInv /\ ChainInv /\ [Next]_vars => TypeInv' /\ ChainInv'
  BY NextTypeInv, NextChainInv
<1>. QED
  BY <1>1, <1>2, InitTypeInv, InitChainInv, PTL DEF Spec
-----------------------------------------------------------------------------
(* Destruction and retention. *)

RecordsInv == LogMatchesRecords /\ WholeOrNoise

LEMMA InitRecordsInv == Init => RecordsInv
BY DEF Init, RecordsInv, LogMatchesRecords, WholeOrNoise, Erased, NoRecord

(* An erasure that is applied: its subject was whole, and had no record.    *)
LEMMA EraseCommitRecords ==
  ASSUME TypeInv, RecordsInv, NEW e \in Erasers, EraseCommit(e)
  PROVE  RecordsInv'
<1>. DEFINE s == SubjectOf(e)
            d == DecisionRow(e)
            rec == [seq |-> res[e], fingerprint |-> view[e].key]
<1>. USE DEF TypeInv, RecordsInv
<1>1. /\ decision_log' = decision_log \cup {d}
      /\ subject_keys' = [subject_keys EXCEPT ![s] = NoKey]
      /\ agent_memory' = NullEmbeddings(s)
      /\ erasure_record' = [erasure_record EXCEPT ![s] = rec]
      /\ ~Erased(s)
      /\ subject_keys[s] = view[e].key
  BY DEF EraseCommit, ApplyErase, EraseReadsCurrent, ErasePrimaryKeysFree
<1>2. s \in Subjects /\ view[e].key \in Ingesters
  BY CommitAppendsNext
<1>3. d.seq = res[e] /\ d.subject_hash.sha256_of.subject = s /\ res[e] # 0
  <2>1. ChainHead.seq \in Nat
    BY ChainHeadIsLast DEF HeadRead
  <2>2. res[e] # 0
    BY <2>1, CommitAppendsNext
  <2>. QED
    BY <2>2 DEF DecisionRow, SubjectHash, SubjectOf
<1>4. /\ erasure_record'[s] = rec
      /\ \A x \in Subjects \ {s} : /\ erasure_record'[x] = erasure_record[x]
                                   /\ subject_keys'[x] = subject_keys[x]
      /\ subject_keys'[s] = NoKey
  BY <1>1, <1>2 DEF TypeOK
<1>5. erasure_record'[s].seq # 0
  BY <1>3, <1>4
<1>6. \A r \in decision_log : r.subject_hash.sha256_of.subject \in Subjects \ {s}
  <2>1. \A r \in decision_log : r.seq # 0 /\ r \in LogRow
    BY ChainHeadIsLast DEF TypeOK
  <2>. QED
    BY <1>1, <2>1 DEF LogMatchesRecords, Erased, LogRow, SubjectHashes, SubjectId
<1>7. LogMatchesRecords'
  <2>1. \A r \in decision_log' :
           erasure_record'[r.subject_hash.sha256_of.subject].seq = r.seq
    BY <1>1, <1>3, <1>4, <1>6 DEF LogMatchesRecords
  <2>2. ASSUME NEW x \in Subjects, erasure_record'[x].seq # 0
        PROVE  \E r \in decision_log' : /\ r.seq = erasure_record'[x].seq
                                        /\ r.subject_hash.sha256_of.subject = x
    BY <1>1, <1>3, <1>4, <2>2 DEF LogMatchesRecords, Erased
  <2>. QED
    BY <2>1, <2>2 DEF LogMatchesRecords, Erased
<1>8. WholeOrNoise'
  <2>1. ASSUME NEW m \in agent_memory'
        PROVE  LET x == m.subject IN
               \/ /\ erasure_record'[x].seq = 0
                  /\ subject_keys'[x] = m.key /\ m.live
               \/ /\ erasure_record'[x].seq # 0
                  /\ erasure_record'[x].fingerprint = m.key /\ ~m.live
    <3>1. PICK m0 \in agent_memory :
             m = IF m0.subject = s THEN [m0 EXCEPT !.live = FALSE] ELSE m0
      BY <1>1 DEF NullEmbeddings
    <3>2. m0 \in MemoryRow
      BY DEF TypeOK
    <3>3. CASE m0.subject = s
      <4>1. m0.key = view[e].key
        BY <1>1, <3>3 DEF WholeOrNoise
      <4>2. m.subject = s /\ m.key = m0.key /\ m.live = FALSE
        BY <3>1, <3>2, <3>3 DEF MemoryRow
      <4>. QED
        BY <1>4, <1>5, <4>1, <4>2
    <3>4. CASE m0.subject # s
      BY <1>4, <3>1, <3>2, <3>4 DEF WholeOrNoise, MemoryRow, Erased
    <3>. QED
      BY <3>3, <3>4
  <2>2. \A x \in Subjects : erasure_record'[x].seq # 0 => subject_keys'[x] = NoKey
    BY <1>4 DEF WholeOrNoise, Erased
  <2>. QED
    BY <2>1, <2>2 DEF WholeOrNoise, Erased
<1>. QED
  BY <1>7, <1>8

(* An ingest that is applied: both guards still hold, so its subject is     *)
(* neither erased nor provisioned, and has no memory yet.                   *)
LEMMA IngestCommitRecords ==
  ASSUME TypeInv, RecordsInv, NEW i \in Ingesters, IngestCommit(i)
  PROVE  RecordsInv'
<1>. DEFINE s == SubjectOf(i)
            m == [subject |-> s, key |-> i, live |-> TRUE, aad |-> head[i].hash]
<1>. USE DEF TypeInv, RecordsInv
<1>1. /\ subject_keys' = [subject_keys EXCEPT ![s] = i]
      /\ agent_memory' = agent_memory \cup {m}
      /\ UNCHANGED <<decision_log, erasure_record>>
      /\ subject_keys[s] = NoKey
      /\ ~Erased(s)
  BY DEF IngestCommit, ApplyIngest, IngestReadsCurrent, IngestPrimaryKeysFree, ClosureOK
<1>2. s \in Subjects
  BY DEF TypeOK, SubjectOf, SubjectId, Requests
<1>3. \A x \in agent_memory : x.subject # s
  BY <1>1, ConstantsAssumption DEF WholeOrNoise, TypeOK, MemoryRow
<1>4. /\ subject_keys'[s] = i
      /\ \A x \in Subjects \ {s} : subject_keys'[x] = subject_keys[x]
  BY <1>1, <1>2 DEF TypeOK
<1>5. LogMatchesRecords'
  BY <1>1 DEF LogMatchesRecords, Erased
<1>6. WholeOrNoise'
  <2>1. \A x \in agent_memory' :
          LET y == x.subject IN
          \/ /\ erasure_record[y].seq = 0
             /\ subject_keys'[y] = x.key /\ x.live
          \/ /\ erasure_record[y].seq # 0
             /\ erasure_record[y].fingerprint = x.key /\ ~x.live
    BY <1>1, <1>3, <1>4 DEF WholeOrNoise, TypeOK, MemoryRow, Erased
  <2>2. \A x \in Subjects : erasure_record[x].seq # 0 => subject_keys'[x] = NoKey
    BY <1>1, <1>4 DEF WholeOrNoise, Erased
  <2>. QED
    BY <1>1, <2>1, <2>2 DEF WholeOrNoise, Erased
<1>. QED
  BY <1>5, <1>6

LEMMA NextRecordsInv == TypeInv /\ RecordsInv /\ [Next]_vars => RecordsInv'
<1>. SUFFICES ASSUME TypeInv, RecordsInv, [Next]_vars PROVE RecordsInv'
  OBVIOUS
<1>1. CASE UNCHANGED tables
  BY <1>1 DEF RecordsInv, tables, LogMatchesRecords, WholeOrNoise, Erased
<1>. QED
  BY <1>1, StepKinds, EraseCommitRecords, IngestCommitRecords

(* Both or neither: a memory is whole or its key and vector are gone, its   *)
(* erasure is recorded under the fingerprint of the very key it was         *)
(* encrypted with, and nothing ever brings the key back.                    *)
THEOREM DestructionCorrect == Spec => []WholeOrNoise
<1>1. RecordsInv => WholeOrNoise
  BY DEF RecordsInv
<1>2. TypeInv /\ RecordsInv /\ [Next]_vars => TypeInv' /\ RecordsInv'
  BY NextTypeInv, NextRecordsInv
<1>. QED
  BY <1>1, <1>2, InitTypeInv, InitRecordsInv, PTL DEF Spec

(* The log and the erasure records name each other one to one.              *)
THEOREM RetentionCorrect == Spec => []LogMatchesRecords
<1>1. RecordsInv => LogMatchesRecords
  BY DEF RecordsInv
<1>2. TypeInv /\ RecordsInv /\ [Next]_vars => TypeInv' /\ RecordsInv'
  BY NextTypeInv, NextRecordsInv
<1>. QED
  BY <1>1, <1>2, InitTypeInv, InitRecordsInv, PTL DEF Spec

-----------------------------------------------------------------------------
(* The AAD.  A known hash is at most as long as the log, and an erasure     *)
(* takes the next seq, so it comes after every head a memory was bound to.  *)

KnownHash(h) == h = GenesisPrevHash \/ \E r \in decision_log : r.hash = h

LEMMA KnownHashLength ==
  ASSUME TypeInv, ChainInv, NEW h, KnownHash(h)
  PROVE  Len(h) <= ChainHead.seq
<1>1. ChainHead \in HeadRead /\ \A r \in decision_log : r.seq \in 1..ChainHead.seq
  BY ChainHeadIsLast DEF TypeInv
<1>2. CASE h = GenesisPrevHash
  <2>1. Len(h) = 0
    BY <1>2 DEF GenesisPrevHash
  <2>. QED
    BY <1>1, <2>1 DEF HeadRead
<1>3. CASE \E r \in decision_log : r.hash = h
  BY <1>1, <1>3 DEF ChainInv, HashLength, HeadRead
<1>. QED
  BY <1>2, <1>3 DEF KnownHash

LEMMA NextAad ==
  ASSUME TypeInv, ChainInv, AadPrecedesErasure, [Next]_vars
  PROVE  AadPrecedesErasure'
<1>1. ASSUME NEW e \in Erasers, EraseCommit(e) PROVE AadPrecedesErasure'
  <2>. DEFINE s == SubjectOf(e)
              rec == [seq |-> res[e], fingerprint |-> view[e].key]
  <2>1. /\ decision_log' = decision_log \cup {DecisionRow(e)}
        /\ agent_memory' = NullEmbeddings(s)
        /\ erasure_record' = [erasure_record EXCEPT ![s] = rec]
    BY <1>1 DEF EraseCommit, ApplyErase
  <2>2. res[e] = ChainHead.seq + 1 /\ ChainHead.seq \in Nat /\ s \in Subjects
    BY <1>1, CommitAppendsNext, ChainHeadIsLast DEF TypeInv, HeadRead
  <2>3. /\ erasure_record'[s].seq = res[e]
        /\ \A x \in Subjects \ {s} : erasure_record'[x] = erasure_record[x]
    BY <2>1, <2>2 DEF TypeInv, TypeOK
  <2>4. ASSUME NEW m \in agent_memory'
        PROVE  /\ m.aad = GenesisPrevHash \/ \E r \in decision_log' : r.hash = m.aad
               /\ erasure_record'[m.subject].seq # 0
                     => erasure_record'[m.subject].seq > Len(m.aad)
    <3>1. PICK m0 \in agent_memory :
             m = IF m0.subject = s THEN [m0 EXCEPT !.live = FALSE] ELSE m0
      BY <2>1 DEF NullEmbeddings
    <3>2. m0 \in MemoryRow
      BY DEF TypeInv, TypeOK
    <3>3. m.subject = m0.subject /\ m.aad = m0.aad /\ m0.subject \in Subjects
      BY <3>1, <3>2 DEF MemoryRow
    <3>4. KnownHash(m0.aad)
      BY DEF AadPrecedesErasure, KnownHash
    <3>5. Len(m0.aad) <= ChainHead.seq /\ Len(m0.aad) \in Nat
      <4>1. m0.aad \in Seq(Nat \X SubjectHashes)
        BY <3>2 DEF MemoryRow, Hash
      <4>. QED
        BY <3>4, <4>1, KnownHashLength
    <3>6. CASE m0.subject = s
      BY <2>1, <2>2, <2>3, <3>3, <3>4, <3>5, <3>6 DEF KnownHash
    <3>7. CASE m0.subject # s
      BY <2>1, <2>3, <3>3, <3>4, <3>7 DEF KnownHash, AadPrecedesErasure, Erased
    <3>. QED
      BY <3>6, <3>7
  <2>. QED
    BY <2>4 DEF AadPrecedesErasure, Erased
<1>2. ASSUME NEW i \in Ingesters, IngestCommit(i) PROVE AadPrecedesErasure'
  <2>. DEFINE s == SubjectOf(i)
              m == [subject |-> s, key |-> i, live |-> TRUE, aad |-> head[i].hash]
  <2>1. /\ agent_memory' = agent_memory \cup {m}
        /\ UNCHANGED <<decision_log, erasure_record>>
        /\ ~Erased(s)
    BY <1>2 DEF IngestCommit, ApplyIngest, IngestReadsCurrent, ClosureOK, TypeInv
  <2>2. KnownHash(head[i].hash)
    <3>1. KnownHead(head[i])
      BY DEF ChainInv, HeadsKnown, Requests
    <3>2. CASE head[i] = [seq |-> 0, hash |-> GenesisPrevHash]
      BY <3>2 DEF KnownHash
    <3>3. ASSUME NEW q \in decision_log, head[i] = [seq |-> q.seq, hash |-> q.hash]
          PROVE  KnownHash(head[i].hash)
      <4>1. head[i].hash = q.hash
        BY <3>3
      <4>. QED
        BY <4>1 DEF KnownHash
    <3>. QED
      BY <3>1, <3>2, <3>3 DEF KnownHead
  <2>. QED
    BY <2>1, <2>2 DEF AadPrecedesErasure, KnownHash, Erased
<1>3. CASE UNCHANGED tables
  BY <1>3 DEF tables, AadPrecedesErasure, Erased
<1>. QED
  BY <1>1, <1>2, <1>3, StepKinds

(* A memory's AAD holds a head the log had before the subject's erasure,    *)
(* although ingest reads it outside its transaction.                        *)
THEOREM AadCorrect == Spec => []AadPrecedesErasure
<1>1. Init => AadPrecedesErasure
  BY DEF Init, AadPrecedesErasure
<1>2. TypeInv /\ ChainInv /\ AadPrecedesErasure /\ [Next]_vars
         => TypeInv' /\ ChainInv' /\ AadPrecedesErasure'
  BY NextTypeInv, NextChainInv, NextAad
<1>. QED
  BY <1>1, <1>2, InitTypeInv, InitChainInv, PTL DEF Spec

-----------------------------------------------------------------------------
(* The answers. *)

(* Strengthened: a committed erasure has left its Result behind, so no      *)
(* failure reported after it can be taken for "nothing was erased".         *)
AnswersInv ==
    /\ RefusalsEraseNothing
    /\ \A e \in Erasers : e \in committed => res[e] # 0

LEMMA NextAnswers ==
  ASSUME TypeInv, AnswersInv, [Next]_vars
  PROVE  AnswersInv'
<1>0. ASSUME NEW e \in Erasers, EraseCommit(e) PROVE res[e] # 0
  <2>1. ChainHead.seq \in Nat
    BY ChainHeadIsLast DEF HeadRead, TypeInv
  <2>. QED
    BY <1>0, <2>1, CommitAppendsNext
<1>. USE DEF TypeInv, TypeOK, Requests, AnswersInv, RefusalsEraseNothing, Goto, Reply
<1>1. ASSUME NEW e \in Erasers, EraseStep(e) PROVE AnswersInv'
  <2>1. CASE EraseCommit(e)
    <3>1. res[e] # 0
      BY <1>0, <2>1
    <3>2. e \notin Ingesters
      BY ConstantsAssumption
    <3>3. /\ \A x \in Erasers \ {e} : answer'[x] = answer[x]
          /\ answer'[e] = "erased"
          /\ committed' = committed \cup {e}
          /\ UNCHANGED res
      BY <2>1, <3>1, <3>2 DEF EraseCommit, FailureAnswer
    <3>. QED
      BY <3>1, <3>3
  <2>2. CASE EraseClosure(e)
    <3>1. e \notin committed
      BY <2>2 DEF EraseClosure, ClosureOK
    <3>2. /\ UNCHANGED <<answer, committed>>
          /\ \A x \in Erasers \ {e} : res'[x] = res[x]
      BY <2>2 DEF EraseClosure
    <3>. QED
      BY <3>1, <3>2
  <2>3. CASE ReceiveErase(e) \/ BeginErase(e)
    BY <2>3 DEF ReceiveErase, BeginErase
  <2>4. CASE EraseRefused(e)
    <3>1. e \notin committed
      BY <2>4 DEF EraseRefused, ClosureOK
    <3>. QED
      BY <2>4, <3>1 DEF EraseRefused
  <2>. QED
    BY <1>1, <2>1, <2>2, <2>3, <2>4 DEF EraseStep
<1>2. ASSUME NEW i \in Ingesters, IngestStep(i) PROVE AnswersInv'
  <2>1. i \notin Erasers
    BY ConstantsAssumption
  <2>2. /\ \A e \in Erasers : /\ answer'[e] = answer[e]
                              /\ e \in committed' <=> e \in committed
        /\ UNCHANGED res
    BY <1>2, <2>1 DEF IngestStep, ReceiveIngest, Prepare, BeginIngest,
                      IngestRefused, IngestClosure, IngestCommit
  <2>. QED
    BY <2>2
<1>3. ASSUME NEW r \in Requests, TxRetry(r) \/ TxFail(r) PROVE AnswersInv'
  <2>1. r \notin committed
    BY <1>3 DEF TxRetry, TxFail, ClosureOK
  <2>2. /\ \A e \in Requests \ {r} : answer'[e] = answer[e]
        /\ UNCHANGED <<res, committed>>
    BY <1>3 DEF TxRetry, TxFail
  <2>. QED
    BY <2>1, <2>2
<1>4. CASE UNCHANGED vars
  BY <1>4 DEF vars
<1>. QED
  BY <1>1, <1>2, <1>3, <1>4 DEF Next

(* 404, 409 and 500 are never the answer to an erasure that was applied,    *)
(* ambiguous commits included.                                              *)
THEOREM RefusalsCorrect == Spec => []RefusalsEraseNothing
<1>1. Init => AnswersInv
  BY DEF Init, AnswersInv, RefusalsEraseNothing
<1>2. AnswersInv => RefusalsEraseNothing
  BY DEF AnswersInv
<1>. QED
  BY <1>1, <1>2, InitTypeInv, NextTypeInv, NextAnswers, PTL DEF Spec

=============================================================================
