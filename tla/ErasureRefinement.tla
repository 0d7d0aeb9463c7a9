-------------------------- MODULE ErasureRefinement --------------------------
(***************************************************************************)
(* Erasure implements ErasureSpec: proof.                                  *)
(*                                                                         *)
(* The abstract ledger is the log read in seq order.  The log is a chain   *)
(* (ErasureProofs), so there is exactly one row per seq, an applied erasure *)
(* appends the subject it destroys, an applied ingest is for a subject that *)
(* no row names, and every other step leaves all four tables alone.        *)
(***************************************************************************)
EXTENDS ErasureProofs

(* Everything proved invariant in ErasureProofs. *)
FullInv == TypeInv /\ ChainInv /\ RecordsInv

LEMMA InitFullInv == Init => FullInv
BY InitTypeInv, InitChainInv, InitRecordsInv DEF FullInv

LEMMA NextFullInv == FullInv /\ [Next]_vars => FullInv'
BY NextTypeInv, NextChainInv, NextRecordsInv DEF FullInv

-----------------------------------------------------------------------------
(* Reading the log by seq. *)

Row(n) == CHOOSE r \in decision_log : r.seq = n

RowSubject(r) == r.subject_hash.sha256_of.subject

(* The log is rows 1..n, one of each. *)
LogIs(n) == /\ n \in Nat
            /\ \A r \in decision_log : r \in LogRow /\ r.seq \in 1..n
            /\ \A k \in 1..n : \E r \in decision_log : r.seq = k
            /\ \A r, q \in decision_log : r.seq = q.seq => r = q

LEMMA LogIsHead == FullInv => LogIs(ChainHead.seq)
<1>. SUFFICES ASSUME FullInv PROVE LogIs(ChainHead.seq)
  OBVIOUS
<1>1. ChainHead.seq \in Nat
  BY ChainHeadIsLast DEF FullInv, TypeInv, HeadRead
<1>2. \A r \in decision_log : r \in LogRow
  BY DEF FullInv, TypeInv, TypeOK
<1>3. \A r, q \in decision_log : r.seq = q.seq => r = q
  BY DEF FullInv, ChainInv, ChainIntact
<1>. QED
  BY <1>1, <1>2, <1>3, ChainHeadIsLast DEF LogIs, FullInv, TypeInv

LEMMA RowIsUnique ==
  ASSUME NEW n, LogIs(n), NEW r \in decision_log
  PROVE  Row(r.seq) = r
BY DEF LogIs, Row

LEMMA LedgerTyped ==
  ASSUME FullInv
  PROVE  /\ Ledger \in Seq(Subjects)
         /\ Len(Ledger) = ChainHead.seq
         /\ \A r \in decision_log : /\ r.seq \in 1..Len(Ledger)
                                    /\ Ledger[r.seq] = RowSubject(r)
         /\ \A k \in 1..Len(Ledger) :
               \E r \in decision_log : r.seq = k /\ Ledger[k] = RowSubject(r)
<1>. DEFINE n == ChainHead.seq
<1>1. LogIs(n)
  BY LogIsHead
<1>2. Ledger = [k \in 1..n |-> RowSubject(Row(k))]
  BY DEF Ledger, Row, RowSubject
<1>3. \A r \in decision_log : Row(r.seq) = r /\ RowSubject(r) \in Subjects
  BY <1>1, RowIsUnique DEF LogIs, LogRow, SubjectHashes, SubjectId, RowSubject
<1>. HIDE DEF n
<1>4. \A k \in 1..n : \E r \in decision_log : r.seq = k /\ Row(k) = r
  BY <1>1, <1>3 DEF LogIs
<1>5. \A k \in 1..n : RowSubject(Row(k)) \in Subjects
  BY <1>3, <1>4
<1>6. Ledger \in [1..n -> Subjects] /\ n \in Nat
  BY <1>1, <1>2, <1>5 DEF LogIs
<1>7. Ledger \in Seq(Subjects) /\ Len(Ledger) = n
  BY <1>6
<1>8. \A r \in decision_log : r.seq \in 1..n /\ Ledger[r.seq] = RowSubject(r)
  BY <1>1, <1>2, <1>3 DEF LogIs
<1>9. \A k \in 1..n : \E r \in decision_log : r.seq = k /\ Ledger[k] = RowSubject(r)
  BY <1>2, <1>4
<1>. QED
  BY <1>7, <1>8, <1>9 DEF n

LEMMA LedgerIsSeq ==
  FullInv => Ledger \in Seq(Subjects) /\ Len(Ledger) = ChainHead.seq
BY LedgerTyped

-----------------------------------------------------------------------------
(* The steps. *)

(* An applied erasure makes the log one row longer; the row is its subject. *)
LEMMA EraseAppends ==
  ASSUME FullInv, FullInv', NEW e \in Erasers, EraseCommit(e)
  PROVE  Ledger' = Append(Ledger, SubjectOf(e))
<1>. DEFINE d == DecisionRow(e)
            n == ChainHead.seq
            k == ChainHead'.seq
            s == SubjectOf(e)
<1>1. decision_log' = decision_log \cup {d} /\ d.seq = n + 1 /\ RowSubject(d) = s
  <2>1. RowSubject(d) = s
    BY DEF DecisionRow, RowSubject, SubjectHash, SubjectOf
  <2>. QED
    BY <2>1, CommitAppendsNext DEF EraseCommit, ApplyErase, FullInv
<1>2. LogIs(n) /\ LogIs(ChainHead.seq)'
  <2>1. (FullInv => LogIs(ChainHead.seq))'
    BY LogIsHead, PTL
  <2>. QED
    BY <2>1, LogIsHead
<1>3. /\ n \in Nat /\ k \in Nat
      /\ \A r \in decision_log : r.seq \in 1..n
      /\ \A r \in decision_log' : r.seq \in 1..k
      /\ \A j \in 1..k : \E r \in decision_log' : r.seq = j
      /\ \A j \in 1..n : \E r \in decision_log : r.seq = j
      /\ \A r, q \in decision_log' : r.seq = q.seq => r = q
  BY <1>2 DEF LogIs
<1>. HIDE DEF d, n, k, s
<1>4. k = n + 1
  <2>1. k >= n + 1
    BY <1>1, <1>3
  <2>2. ~(k > n + 1)
    BY <1>1, <1>3
  <2>. QED
    BY <1>3, <2>1, <2>2
<1>5. /\ Ledger = [j \in 1..n |-> RowSubject(CHOOSE r \in decision_log : r.seq = j)]
      /\ Ledger' = [j \in 1..k |-> RowSubject(CHOOSE r \in decision_log' : r.seq = j)]
  BY DEF Ledger, RowSubject, n, k
<1>6. \A r \in decision_log' : (CHOOSE q \in decision_log' : q.seq = r.seq) = r
  BY <1>3
<1>7. \A r \in decision_log : (CHOOSE q \in decision_log : q.seq = r.seq) = r
  BY <1>1, <1>3
<1>8. ASSUME NEW j \in 1..n PROVE Ledger'[j] = Ledger[j]
  <2>1. PICK r \in decision_log : r.seq = j
    BY <1>3
  <2>2. j \in 1..k
    BY <1>3, <1>4
  <2>. QED
    BY <1>1, <1>5, <1>6, <1>7, <2>1, <2>2
<1>9. Ledger'[n + 1] = s
  <2>1. n + 1 \in 1..k
    BY <1>3, <1>4
  <2>2. (CHOOSE q \in decision_log' : q.seq = n + 1) = d
    BY <1>1, <1>6
  <2>. QED
    BY <1>1, <1>5, <2>1, <2>2
<1>10. Ledger \in Seq(Subjects) /\ Len(Ledger) = n /\ s \in Subjects
  BY LedgerTyped, CommitAppendsNext DEF n, s, FullInv
<1>11. Ledger' \in Seq(Subjects) /\ Len(Ledger') = n + 1
  <2>1. (FullInv => Ledger \in Seq(Subjects) /\ Len(Ledger) = ChainHead.seq)'
    BY LedgerIsSeq, PTL
  <2>. QED
    BY <1>4, <2>1 DEF k
<1>12. Append(Ledger, s) \in Seq(Subjects) /\ Len(Append(Ledger, s)) = n + 1
  BY <1>10
<1>13. \A j \in 1..n + 1 : Append(Ledger, s)[j] = Ledger'[j]
  BY <1>3, <1>8, <1>9, <1>10
<1>14. Ledger' = Append(Ledger, s)
  BY <1>3, <1>11, <1>12, <1>13
<1>. QED
  BY <1>14 DEF s

LEMMA EraseIsDestroyAndRetain ==
  ASSUME FullInv, FullInv', NEW e \in Erasers, EraseCommit(e)
  PROVE  Abstract!DestroyAndRetain(SubjectOf(e))
<1>. DEFINE s == SubjectOf(e)
<1>1. /\ subject_keys' = [subject_keys EXCEPT ![s] = NoKey]
      /\ agent_memory' = NullEmbeddings(s)
      /\ subject_keys[s] = view[e].key
  BY DEF EraseCommit, ApplyErase, EraseReadsCurrent
<1>2. s \in Subjects /\ view[e].key # NoKey
  BY CommitAppendsNext, ConstantsAssumption DEF FullInv
<1>3. s \in Keyed /\ Keyed' = Keyed \ {s}
  BY <1>1, <1>2 DEF Keyed, FullInv, TypeInv, TypeOK
<1>4. \A m \in agent_memory : m \in MemoryRow
  BY DEF FullInv, TypeInv, TypeOK
<1>5. Searchable' = Searchable \ {s}
  <2>1. ASSUME NEW x \in Subjects, x # s
        PROVE  (\E m \in agent_memory' : m.subject = x /\ m.live)
                  <=> (\E m \in agent_memory : m.subject = x /\ m.live)
    BY <1>1, <1>4, <2>1 DEF NullEmbeddings, MemoryRow
  <2>2. ASSUME NEW m \in agent_memory', m.subject = s
        PROVE  ~m.live
    BY <1>1, <1>4, <2>2 DEF NullEmbeddings, MemoryRow
  <2>. QED
    BY <1>2, <2>1, <2>2 DEF Searchable
<1>. QED
  BY <1>3, <1>5, EraseAppends DEF Abstract!DestroyAndRetain

LEMMA IngestIsProvision ==
  ASSUME FullInv, NEW i \in Ingesters, IngestCommit(i)
  PROVE  Abstract!Provision(SubjectOf(i))
<1>. DEFINE s == SubjectOf(i)
            m == [subject |-> s, key |-> i, live |-> TRUE, aad |-> head[i].hash]
<1>1. /\ subject_keys' = [subject_keys EXCEPT ![s] = i]
      /\ agent_memory' = agent_memory \cup {m}
      /\ UNCHANGED <<decision_log, erasure_record>>
      /\ subject_keys[s] = NoKey
      /\ ~Erased(s)
  BY DEF IngestCommit, ApplyIngest, IngestReadsCurrent, IngestPrimaryKeysFree,
         ClosureOK, FullInv, TypeInv
<1>2. s \in Subjects /\ i # NoKey
  BY ConstantsAssumption DEF FullInv, TypeInv, TypeOK, SubjectOf, SubjectId, Requests
<1>3. s \notin Keyed /\ Keyed' = Keyed \cup {s}
  BY <1>1, <1>2 DEF Keyed, FullInv, TypeInv, TypeOK
<1>4. Searchable' = Searchable \cup {s}
  <2>1. m.subject = s /\ m.live
    OBVIOUS
  <2>2. ASSUME NEW x \in Subjects, x # s
        PROVE  (\E q \in agent_memory' : q.subject = x /\ q.live)
                  <=> (\E q \in agent_memory : q.subject = x /\ q.live)
    BY <1>1, <2>1, <2>2
  <2>. HIDE DEF m
  <2>. QED
    BY <1>1, <1>2, <2>1, <2>2 DEF Searchable
<1>5. UNCHANGED Ledger
  BY <1>1 DEF Ledger, ChainHead
<1>6. s \notin Abstract!ErasedSubjects
  <2>1. \A r \in decision_log : RowSubject(r) # s
    <3>1. \A r \in decision_log : r.seq # 0
      BY LogIsHead DEF LogIs
    <3>. QED
      BY <1>1, <3>1 DEF FullInv, RecordsInv, LogMatchesRecords, Erased, RowSubject
  <2>2. \A k \in DOMAIN Ledger : Ledger[k] # s
    BY <2>1, LedgerTyped
  <2>. QED
    BY <2>2 DEF Abstract!ErasedSubjects
<1>. QED
  BY <1>3, <1>4, <1>5, <1>6 DEF Abstract!Provision

LEMMA StepRefines ==
  FullInv /\ FullInv' /\ [Next]_vars
     => [Abstract!SpecNext]_(Abstract!specVars)
<1>. SUFFICES ASSUME FullInv, FullInv', [Next]_vars
              PROVE  [Abstract!SpecNext]_(Abstract!specVars)
  OBVIOUS
<1>1. ASSUME NEW e \in Erasers, EraseCommit(e) PROVE Abstract!SpecNext
  <2>1. SubjectOf(e) \in Subjects
    BY <1>1, CommitAppendsNext DEF FullInv
  <2>. QED
    BY <1>1, <2>1, EraseIsDestroyAndRetain DEF Abstract!SpecNext
<1>2. ASSUME NEW i \in Ingesters, IngestCommit(i) PROVE Abstract!SpecNext
  <2>1. SubjectOf(i) \in Subjects
    BY DEF FullInv, TypeInv, TypeOK, SubjectOf, SubjectId, Requests
  <2>. QED
    BY <1>2, <2>1, IngestIsProvision DEF Abstract!SpecNext
<1>3. CASE UNCHANGED tables
  BY <1>3 DEF Abstract!specVars, tables, Keyed, Searchable, Ledger, ChainHead
<1>. QED
  BY <1>1, <1>2, <1>3, StepKinds

LEMMA InitRefines == Init => Abstract!SpecInit
<1>. SUFFICES ASSUME Init PROVE Abstract!SpecInit
  OBVIOUS
<1>1. Keyed = {} /\ Searchable = {}
  BY DEF Init, Keyed, Searchable
<1>2. Ledger = << >>
  <2>1. ChainHead.seq = 0
    BY DEF Init, ChainHead
  <2>. QED
    BY <2>1 DEF Ledger
<1>. QED
  BY <1>1, <1>2 DEF Abstract!SpecInit

(* Destroy-and-retain is atomic and provisioning happens once, before it,   *)
(* for any number of concurrent requests, retries and failures.             *)
THEOREM Implements == Spec => ImplementsErasureSpec
<1>. QED
  BY InitFullInv, NextFullInv, StepRefines, InitRefines, PTL
     DEF Spec, ImplementsErasureSpec, Abstract!AbstractSpec
=============================================================================
