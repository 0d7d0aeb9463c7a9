----------------------------- MODULE Anchoring -----------------------------
(***************************************************************************)
(* What happens after an erasure commits: the second kill switch, the tree *)
(* head, the signed proof in S3 Object Lock and its serving copy in        *)
(* erasure_record (Orchestrator.EraseAndAnchor), and the sweeps that do it *)
(* for erasures whose own handler did not (Orchestrator.Reconcile, run at  *)
(* every boot of the API and by cmd/anchor-reconciler).                    *)
(*                                                                         *)
(* The erasure transaction itself is the one step DestroyAndRetain of      *)
(* ErasureSpec, which module Erasure implements; the ledger is the         *)
(* decision log, so a subject's seq is its place in it.  The handler of an *)
(* erasure is named by its subject: a subject is erased once.              *)
(***************************************************************************)
EXTENDS ErasureSpec, Naturals

CONSTANTS Imported,   \* subjects with key_origin IMPORTED_MATERIAL and an ARN
          Sweepers,   \* the scheduled runs of cmd/anchor-reconciler
          Boot,       \* the API process' one pass at boot
          NoProof,    \* proof_ref and proof_body IS NULL
          MaxFaults   \* bound on crashes, timeouts and failed or lost calls

Reconcilers == Sweepers \cup {Boot}
Callers == Subjects \cup Reconcilers

ASSUME AnchoringAssumption == /\ Imported \subseteq Subjects
                              /\ Boot \notin Sweepers
                              /\ Reconcilers \cap Subjects = {}
                              /\ Subjects # {}
                              /\ MaxFaults \in Nat

(* What a proof says that the properties tell apart: the erasure it is of,  *)
(* the size of the tree whose root it signs, and the key's state.           *)
(* "shredded" is any state /shred reports once the material is deleted:     *)
(* PendingImport, or the unconfirmed one it saw last.                       *)
KeyStates == {"wrapped_key_destroyed", "shredded"}
Proof == [subject : Subjects, size : Nat, key_state : KeyStates]

ASSUME NoProofAssumption == NoProof \notin Proof

(* Mutant: the reconciler states no key state. *)
BlankNoState(c) == [subject |-> IF c \in Subjects THEN c ELSE CHOOSE s \in Subjects : TRUE,
                    size |-> 0,
                    key_state |-> ""]

(* A handler's or a reconciler's locals before it has read anything. *)
Blank(c) == [subject |-> IF c \in Subjects THEN c ELSE CHOOSE s \in Subjects : TRUE,
             size |-> 0,
             key_state |-> "wrapped_key_destroyed"]

VARIABLES pc,        \* where each handler and each reconciler stands
          doc,       \* the proof it is anchoring
          todo,      \* what is left of a reconciler's list
          rpc,       \* POST /anchor requests that cryptod has not finished
          material,  \* the imported key material in KMS
          bucket,    \* the versions of each subject's object; none is ever lost
          current,   \* the version its key, given no version, fetches
          record,    \* erasure_record's proof columns
          faults     \* faults so far

vars == <<specVars, pc, doc, todo, rpc, material, bucket, current, record, faults>>

LivePCs == {"none", "shred", "head", "waiting", "record",
            "proof_ref", "proof_pending", "crashed"}
Answered == {"proof_ref", "proof_pending"}
SweepPCs == {"idle", "scan", "head", "sweep", "waiting", "record"}

TypeOK ==
    /\ ledger \in Seq(Subjects)
    /\ keyed \subseteq Subjects
    /\ searchable \subseteq Subjects
    /\ pc \in [Callers -> LivePCs \cup SweepPCs]
    /\ doc \in [Callers -> Proof]
    /\ todo \in [Reconcilers -> SUBSET Subjects]
    /\ rpc \subseteq [caller : Callers, proof : Proof]
    /\ material \in [Subjects -> {"none", "imported", "deleted"}]
    /\ bucket \in [Subjects -> SUBSET Proof]
    /\ current \in [Subjects -> Proof \cup {NoProof}]
    /\ record \in [Subjects -> Proof \cup {NoProof}]
    /\ faults \in 0..MaxFaults

(* Everything is ingested; the API has just booted. *)
Init ==
    /\ keyed = Subjects
    /\ searchable = Subjects
    /\ ledger = <<>>
    /\ pc = [c \in Callers |-> CASE c \in Subjects -> "none"
                                 [] c = Boot       -> "scan"
                                 [] OTHER          -> "idle"]
    /\ doc = [c \in Callers |-> Blank(c)]
    /\ todo = [r \in Reconcilers |-> {}]
    /\ rpc = {}
    /\ material = [s \in Subjects |-> IF s \in Imported THEN "imported" ELSE "none"]
    /\ bucket = [s \in Subjects |-> {}]
    /\ current = [s \in Subjects |-> NoProof]
    /\ record = [s \in Subjects |-> NoProof]
    /\ faults = 0

-----------------------------------------------------------------------------
Fault == /\ faults < MaxFaults
         /\ faults' = faults + 1

Goto(c, l) == pc' = [pc EXCEPT ![c] = l]

(* The handler answers; a reconciler goes on with its next row. *)
Done(c, a) ==
    IF c \in Subjects
    THEN /\ Goto(c, a)
         /\ doc' = [doc EXCEPT ![c] = Blank(c)]
         /\ UNCHANGED todo
    ELSE /\ Goto(c, "sweep")
         /\ todo' = [todo EXCEPT ![c] = @ \ {doc[c].subject}]
         /\ doc' = [doc EXCEPT ![c] = [Blank(c) EXCEPT !.size = doc[c].size]]

(* An error of the anchor call or of set_proof_ref: 200 with proof_pending, *)
(* or the row is left for the next sweep.                                   *)
AnchorFailed(c) == Done(c, "proof_pending")

-----------------------------------------------------------------------------
(* EraseAndAnchor. *)

(* The transaction commits.  If its commit was ambiguous the handler sees   *)
(* an error and anchors nothing.                                            *)
Erase(s) ==
    /\ pc[s] = "none"
    /\ DestroyAndRetain(s)
    /\ \/ /\ Goto(s, IF s \in Imported THEN "shred" ELSE "head")
          /\ UNCHANGED faults
       \/ /\ Fault
          /\ Goto(s, "proof_pending")
    /\ UNCHANGED <<doc, todo, rpc, material, bucket, current, record>>

(* Mutant: the shred's error is ignored. *)
ShredErrorIgnored(s) ==
    /\ pc[s] = "shred"
    /\ Fault
    /\ doc' = [doc EXCEPT ![s].key_state = "shredded"]
    /\ Goto(s, "head")
    /\ UNCHANGED <<specVars, todo, rpc, material, bucket, current, record>>

(* Nothing deleted, or deleted and the answer lost: either way an error.    *)
ShredFails(s) ==
    /\ pc[s] = "shred"
    /\ Fault
    /\ \/ UNCHANGED material
       \/ material' = [material EXCEPT ![s] = "deleted"]
    /\ AnchorFailed(s)
    /\ UNCHANGED <<specVars, rpc, bucket, current, record>>

(* DeleteImportedKeyMaterial succeeded; DescribeKey confirmed it in time or *)
(* did not.  The proof states what was observed.                            *)
Shred(s) ==
    /\ pc[s] = "shred"
    /\ material' = [material EXCEPT ![s] = "deleted"]
    /\ doc' = [doc EXCEPT ![s].key_state = "shredded"]
    /\ Goto(s, "head")
    /\ UNCHANGED <<specVars, todo, rpc, bucket, current, record, faults>>

(* merkleHead: the size of the tree over the decision log as it is now. *)
TreeSize == Len(ledger)

Call(c) == rpc' = rpc \cup {[caller |-> c, proof |-> doc'[c]]}

(* The handler reads the tree head and calls cryptod with it. *)
Anchor(s) ==
    /\ pc[s] = "head"
    /\ doc' = [doc EXCEPT ![s].size = TreeSize]
    /\ Call(s)
    /\ Goto(s, "waiting")
    /\ UNCHANGED <<specVars, todo, material, bucket, current, record, faults>>

(* set_proof_ref: an unconditional update of the subject's row. *)
Record(c) ==
    /\ pc[c] = "record"
    /\ record' = [record EXCEPT ![doc[c].subject] = doc[c]]
    /\ Done(c, "proof_ref")
    /\ UNCHANGED <<specVars, rpc, material, bucket, current, faults>>

(* It fails, applied or not. *)
RecordFails(c) ==
    /\ pc[c] = "record"
    /\ Fault
    /\ \/ UNCHANGED record
       \/ record' = [record EXCEPT ![doc[c].subject] = doc[c]]
    /\ AnchorFailed(c)
    /\ UNCHANGED <<specVars, rpc, material, bucket, current>>

-----------------------------------------------------------------------------
(* cryptod's POST /anchor: sign, then put.  It works on after its caller    *)
(* has given up.                                                            *)

Awaits(x) == pc[x.caller] = "waiting" /\ doc[x.caller] = x.proof

(* The object is put; the answer arrives, or is lost or incomplete. *)
CryptodAnchors(x) ==
    /\ x \in rpc
    /\ rpc' = rpc \ {x}
    /\ bucket' = [bucket EXCEPT ![x.proof.subject] = @ \cup {x.proof}]
    /\ current' = [current EXCEPT ![x.proof.subject] = x.proof]
    /\ \/ /\ Awaits(x)
          /\ Goto(x.caller, "record")
          /\ UNCHANGED <<doc, todo, faults>>
       \/ /\ Awaits(x)
          /\ Fault
          /\ AnchorFailed(x.caller)
       \/ /\ ~Awaits(x)
          /\ UNCHANGED <<pc, doc, todo, faults>>
    /\ UNCHANGED <<specVars, material, record>>

(* Mutant: a failure of cryptod is taken for an answer. *)
CryptodFailsOpen(x) ==
    /\ x \in rpc
    /\ Fault
    /\ rpc' = rpc \ {x}
    /\ IF Awaits(x) THEN Goto(x.caller, "record") ELSE UNCHANGED pc
    /\ UNCHANGED <<specVars, doc, todo, material, bucket, current, record>>

(* The signing or the put fails, or cryptod crashes: nothing is put. *)
CryptodFails(x) ==
    /\ x \in rpc
    /\ Fault
    /\ rpc' = rpc \ {x}
    /\ \/ Awaits(x) /\ AnchorFailed(x.caller)
       \/ ~Awaits(x) /\ UNCHANGED <<pc, doc, todo>>
    /\ UNCHANGED <<specVars, material, bucket, current, record>>

(* The client's 30 s, or the handler's, run out. *)
GiveUp(c) ==
    /\ pc[c] = "waiting"
    /\ Fault
    /\ AnchorFailed(c)
    /\ UNCHANGED <<specVars, rpc, material, bucket, current, record>>

-----------------------------------------------------------------------------
(* Reconcile. *)

(* Mutant: rows with an object in the bucket are not swept again. *)
UnanchoredByBucket == {s \in ErasedSubjects : record[s] = NoProof /\ bucket[s] = {}}

Unanchored == {s \in ErasedSubjects : record[s] = NoProof}

(* A sweep starts, at boot or when it is scheduled.  Its list is read once, *)
(* before the tree head; with an empty list nothing more happens.           *)
Scan(r) ==
    /\ pc[r] = "scan" \/ (pc[r] = "idle" /\ r \in Sweepers)
    /\ todo' = [todo EXCEPT ![r] = Unanchored]
    /\ Goto(r, IF Unanchored = {} THEN "idle" ELSE "head")
    /\ UNCHANGED <<specVars, doc, rpc, material, bucket, current, record, faults>>

(* One tree head for the whole sweep. *)
SweepHead(r) ==
    /\ pc[r] = "head"
    /\ doc' = [doc EXCEPT ![r].size = TreeSize]
    /\ Goto(r, "sweep")
    /\ UNCHANGED <<specVars, todo, rpc, material, bucket, current, record, faults>>

(* Mutant: the sweep takes any row that is un-anchored by now. *)
SweepRowFresh(r) ==
    /\ pc[r] = "sweep"
    /\ \E s \in todo[r] \cup Unanchored :
          doc' = [doc EXCEPT ![r] = [subject |-> s, size |-> @.size,
                                     key_state |-> "wrapped_key_destroyed"]]
    /\ Call(r)
    /\ Goto(r, "waiting")
    /\ UNCHANGED <<specVars, todo, material, bucket, current, record, faults>>

(* The next row of the list, in the order the query returned them (any),    *)
(* with the one tree head of this sweep.  The shred's outcome is not stored *)
(* and not repeated.                                                        *)
SweepRow(r) ==
    /\ pc[r] = "sweep"
    /\ \E s \in todo[r] :
          doc' = [doc EXCEPT ![r] = [subject |-> s, size |-> @.size,
                                     key_state |-> "wrapped_key_destroyed"]]
    /\ Call(r)
    /\ Goto(r, "waiting")
    /\ UNCHANGED <<specVars, todo, material, bucket, current, record, faults>>

EndSweep(r) ==
    /\ pc[r] = "sweep"
    /\ todo[r] = {}
    /\ Goto(r, "idle")
    /\ doc' = [doc EXCEPT ![r] = Blank(r)]
    /\ UNCHANGED <<specVars, todo, rpc, material, bucket, current, record, faults>>

(* A query fails: the handler reports a pending proof, a sweep ends. *)
QueryFails(c) ==
    /\ pc[c] = "head"
    /\ Fault
    /\ IF c \in Subjects
       THEN AnchorFailed(c)
       ELSE /\ Goto(c, "idle")
            /\ todo' = [todo EXCEPT ![c] = {}]
            /\ UNCHANGED doc
    /\ UNCHANGED <<specVars, rpc, material, bucket, current, record>>

(* A sweep is cut off at any point: its list cannot be read, its 60 s are   *)
(* over, or its process dies.                                               *)
SweepAborts(r) ==
    /\ pc[r] # "idle"
    /\ Fault
    /\ Goto(r, "idle")
    /\ todo' = [todo EXCEPT ![r] = {}]
    /\ doc' = [doc EXCEPT ![r] = Blank(r)]
    /\ UNCHANGED <<specVars, rpc, material, bucket, current, record>>

(* The API dies with every handler and the boot pass, and boots again. *)
Crash ==
    /\ Fault
    /\ pc' = [c \in Callers |->
                 CASE c \in Subjects -> IF pc[c] \in {"none"} \cup Answered THEN pc[c]
                                       ELSE "crashed"
                   [] c = Boot       -> "scan"
                   [] OTHER          -> pc[c]]
    /\ todo' = [todo EXCEPT ![Boot] = {}]
    /\ doc' = [c \in Callers |-> IF c \in Sweepers THEN doc[c] ELSE Blank(c)]
    /\ UNCHANGED <<specVars, rpc, material, bucket, current, record>>

-----------------------------------------------------------------------------
HandlerGoesOn(s) == Shred(s) \/ Anchor(s)

HandlerStep(s) == Erase(s) \/ HandlerGoesOn(s) \/ ShredFails(s)

SweepStep(r) == \/ Scan(r) \/ SweepHead(r) \/ SweepRow(r) \/ EndSweep(r)

CallFails(c) == \/ RecordFails(c) \/ GiveUp(c) \/ QueryFails(c)

Next == \/ \E s \in Subjects : HandlerStep(s)
        \/ \E r \in Reconcilers : SweepStep(r) \/ SweepAborts(r)
        \/ \E c \in Callers : Record(c) \/ CallFails(c)
        \/ \E x \in rpc : CryptodAnchors(x) \/ CryptodFails(x)
        \/ Crash

Spec == Init /\ [][Next]_vars

(* The scheduler keeps starting sweeps, a sweep keeps going and cryptod     *)
(* serves what it was sent.  Nothing is assumed of the handlers: they may   *)
(* stop anywhere.                                                           *)
Fairness ==
    /\ \A r \in Reconcilers : WF_vars(SweepStep(r) \/ Record(r))
    /\ \A c \in Callers :
          WF_vars(\E x \in rpc : x.caller = c /\ CryptodAnchors(x))

FairSpec == Spec /\ Fairness

-----------------------------------------------------------------------------
(* Properties. *)

(* The tree over the first n rows of the log includes an erasure of s. *)
Includes(n, s) == n <= Len(ledger) /\ \E k \in 1..n : ledger[k] = s

(* A proof is only ever of an erasure that happened, and the tree whose     *)
(* root it signs includes that erasure's own row ("the returned tree        *)
(* includes it", orchestrator.go; "includes each row's own seq"), although  *)
(* the log grows between the reads and sweeps reuse one head for many rows. *)
TreeCoversErasure ==
    \A s \in Subjects : \A p \in bucket[s] :
       p.subject = s /\ Includes(p.size, s)

(* No proof, wherever it came from, states that key material is gone which  *)
(* is not ("it never overclaims", orchestrator.go).                         *)
NeverOverclaims ==
    \A s \in Subjects : \A p \in bucket[s] :
       /\ s \notin keyed
       /\ p.key_state = "shredded" => material[s] = "deleted"

(* The proof a subject's row serves was put under Object Lock before, and a *)
(* client that was answered with a proof_ref finds one there ("The          *)
(* proof_ref is recorded ONLY after cryptod confirms the anchor").          *)
RecordedIsAnchored ==
    \A s \in Subjects :
       /\ record[s] # NoProof => record[s] \in bucket[s]
       /\ pc[s] = "proof_ref" => record[s] # NoProof

(* With nothing under way, the proof served from the row is the one that    *)
(* its proof_ref (a key, without a version) fetches: "recorded S3 anchor,   *)
(* which you can fetch and compare against the proof digest" (the           *)
(* verifier's page).                                                        *)
Quiet == /\ rpc = {}
         /\ \A s \in Subjects : pc[s] \in {"none", "crashed"} \cup Answered
         /\ \A r \in Reconcilers : pc[r] \in {"idle", "scan"}

ServingCopyIsTheAnchor ==
    Quiet => \A s \in Subjects :
                record[s] # NoProof => record[s] = current[s]

(* Every erasure gets its proof, whichever of the steps after its commit    *)
(* failed ("the reconciler will anchor it", server.go).                     *)
EveryErasureGetsAProof ==
    \A s \in Subjects : (s \in ErasedSubjects) ~> (record[s] # NoProof)
=============================================================================
