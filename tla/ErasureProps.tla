---------------------------- MODULE ErasureProps ----------------------------
(***************************************************************************)
(* What must hold of the erasure and ingest transactions, and the mapping  *)
(* onto the abstract service of ErasureSpec.                               *)
(***************************************************************************)
EXTENDS Erasure

(* The retained log verifies: seq runs from 1 without a gap or a duplicate, *)
(* every row carries its predecessor's hash and its own recomputes          *)
(* (demo.go VerifyChain, tools.py verify_hash_chain), however many erasures *)
(* raced for the same head.                                                 *)
ChainIntact ==
    /\ \A r, q \in decision_log : r.seq = q.seq => r = q
    /\ \A r \in decision_log :
          /\ r.hash = Link(r.prev_hash, r.seq, r.subject_hash)
          /\ \/ r.seq = 1 /\ r.prev_hash = GenesisPrevHash
             \/ \E q \in decision_log :
                   r.seq = q.seq + 1 /\ r.prev_hash = q.hash

(* The log and the erasure records name each other one to one: an erasure   *)
(* is retained if and only if it happened, and once.                        *)
LogMatchesRecords ==
    /\ \A r \in decision_log :
          erasure_record[r.subject_hash.sha256_of.subject].seq = r.seq
    /\ \A s \in Subjects : Erased(s) =>
          \E r \in decision_log : /\ r.seq = erasure_record[s].seq
                                  /\ r.subject_hash.sha256_of.subject = s

(* A memory is whole (its own key is stored and its vector is searchable)   *)
(* or noise (key gone, vector NULL, and the fingerprint the proof will      *)
(* attest is the one of the key it was encrypted under), and an erased      *)
(* subject never has a key again.                                           *)
WholeOrNoise ==
    /\ \A m \in agent_memory :
          LET s == m.subject IN
          \/ ~Erased(s) /\ subject_keys[s] = m.key /\ m.live
          \/ Erased(s) /\ erasure_record[s].fingerprint = m.key /\ ~m.live
    /\ \A s \in Subjects : Erased(s) => subject_keys[s] = NoKey

(* The head bound into a memory's AAD is one the log really had, and is     *)
(* older than the subject's own erasure, although it is read outside the    *)
(* transaction and may be stale by then.                                    *)
AadPrecedesErasure ==
    \A m \in agent_memory :
       /\ m.aad = GenesisPrevHash \/ \E r \in decision_log : r.hash = m.aad
       /\ Erased(m.subject) => erasure_record[m.subject].seq > Len(m.aad)

(* 404, 409 and 500 tell the truth: a request refused or failed that way    *)
(* erased nothing ("The erasure transaction itself failed: nothing was      *)
(* erased", server.go), even when a commit was ambiguous.                   *)
RefusalsEraseNothing ==
    \A e \in Erasers :
       answer[e] \in {"already erased", "unknown subject", "erasure failed"}
          => e \notin committed

(* What handleErase says of its 200 answers: "Erased durably".              *)
SuccessMeansErased ==
    \A e \in Erasers : answer[e] = "erased" => Erased(SubjectOf(e))

(* What the schema says of subject_hash: "SHA-256(subject_id)", the UUID    *)
(* column's value, which has one string form.                               *)
SubjectHashIsOfTheUUID ==
    \A r \in decision_log :
       r.subject_hash = SubjectHash(CanonicalUUID(r.subject_hash.sha256_of))

-----------------------------------------------------------------------------
(* The refinement: the ledger is the log read in seq order. *)

Keyed == {s \in Subjects : subject_keys[s] # NoKey}
Searchable == {s \in Subjects : \E m \in agent_memory : m.subject = s /\ m.live}
Ledger == [n \in 1..ChainHead.seq |->
              (CHOOSE r \in decision_log : r.seq = n).subject_hash.sha256_of.subject]

Abstract == INSTANCE ErasureSpec
               WITH keyed <- Keyed, searchable <- Searchable, ledger <- Ledger

(* Every step of every interleaving, with its retries and failures, is one  *)
(* step of the abstract service or none: destroy-and-retain is atomic.      *)
ImplementsErasureSpec == Abstract!AbstractSpec
=============================================================================
