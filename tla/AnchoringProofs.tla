-------------------------- MODULE AnchoringProofs --------------------------
(***************************************************************************)
(* Theorems about Anchoring, for every set of subjects and sweepers and    *)
(* every number of faults, and their proofs.                               *)
(*                                                                         *)
(* The argument.  What a proof states is true when its request is sent and *)
(* stays true: the ledger only grows and deleted material stays deleted.   *)
(* It is true then because a tree head is read after the rows it is used   *)
(* for were seen in the ledger, by a handler and by a sweep alike, and     *)
(* because a handler that saw no deletion never gets past its shred.       *)
(***************************************************************************)
EXTENDS Anchoring, TLAPS

-----------------------------------------------------------------------------
(* Types. *)

LEMMA BlankIsProof ==
  ASSUME NEW c \in Callers
  PROVE  Blank(c) \in Proof /\ Blank(c).key_state = "wrapped_key_destroyed"
<1>1. (CHOOSE s \in Subjects : TRUE) \in Subjects
  BY AnchoringAssumption
<1>2. (IF c \in Subjects THEN c ELSE CHOOSE s \in Subjects : TRUE) \in Subjects
  BY <1>1
<1>. QED
  BY <1>2 DEF Blank, Proof, KeyStates

(* What Done leaves well-typed: the three variables it writes. *)
LocalTypes == /\ pc \in [Callers -> LivePCs \cup SweepPCs]
              /\ doc \in [Callers -> Proof]
              /\ todo \in [Reconcilers -> SUBSET Subjects]

LEMMA DoneTypes ==
  ASSUME NEW c \in Callers, NEW a \in Answered, LocalTypes, Done(c, a)
  PROVE  LocalTypes'
<1>1. Blank(c) \in Proof
  BY BlankIsProof
<1>2. CASE c \in Subjects
  <2>1. pc' = [pc EXCEPT ![c] = a] /\ doc' = [doc EXCEPT ![c] = Blank(c)] /\ todo' = todo
    BY <1>2 DEF Done, Goto
  <2>. QED
    BY <1>1, <2>1 DEF LocalTypes, LivePCs, Answered
<1>3. CASE c \notin Subjects
  <2>. DEFINE d == [Blank(c) EXCEPT !.size = doc[c].size]
  <2>1. c \in Reconcilers
    BY <1>3 DEF Callers
  <2>2. /\ pc' = [pc EXCEPT ![c] = "sweep"]
        /\ doc' = [doc EXCEPT ![c] = d]
        /\ todo' = [todo EXCEPT ![c] = @ \ {doc[c].subject}]
    BY <1>3 DEF Done, Goto
  <2>3. d \in Proof
    BY <1>1 DEF LocalTypes, Proof
  <2>4. todo' \in [Reconcilers -> SUBSET Subjects]
    BY <2>1, <2>2 DEF LocalTypes
  <2>5. doc' \in [Callers -> Proof]
    BY <2>2, <2>3 DEF LocalTypes
  <2>. QED
    BY <2>2, <2>4, <2>5 DEF LocalTypes, SweepPCs
<1>. QED
  BY <1>2, <1>3

LEMMA FaultType ==
  ASSUME faults \in 0..MaxFaults, Fault
  PROVE  faults' \in 0..MaxFaults
BY AnchoringAssumption DEF Fault

LEMMA InitTypes == Init => TypeOK
<1>. SUFFICES ASSUME Init PROVE TypeOK
  OBVIOUS
<1>1. \A c \in Callers : Blank(c) \in Proof
  BY BlankIsProof
<1>2. doc \in [Callers -> Proof]
  BY <1>1 DEF Init
<1>3. pc \in [Callers -> LivePCs \cup SweepPCs]
  BY DEF Init, LivePCs, SweepPCs
<1>. QED
  BY <1>2, <1>3, AnchoringAssumption DEF Init, TypeOK

LEMMA TreeSizeType == TypeOK => TreeSize \in Nat
BY DEF TypeOK, TreeSize

(* A handler's step. *)
LEMMA HandlerTypes ==
  ASSUME TypeOK, NEW s \in Subjects, HandlerStep(s)
  PROVE  TypeOK'
<1>1. s \in Callers
  BY DEF Callers
<1>2. LocalTypes
  BY DEF TypeOK, LocalTypes
<1>3. doc[s] \in Proof
  BY <1>1 DEF TypeOK
<1>4. CASE Erase(s)
  BY <1>1, <1>4, FaultType
     DEF Erase, DestroyAndRetain, Goto, TypeOK, LivePCs
<1>5. CASE ShredFails(s)
  <2>1. LocalTypes'
    BY <1>1, <1>2, <1>5, DoneTypes DEF ShredFails, AnchorFailed, Answered
  <2>2. material' \in [Subjects -> {"none", "imported", "deleted"}]
    BY <1>5 DEF ShredFails, TypeOK
  <2>. QED
    BY <1>5, <2>1, <2>2, FaultType DEF ShredFails, TypeOK, LocalTypes, specVars
<1>6. CASE Shred(s)
  <2>1. [doc[s] EXCEPT !.key_state = "shredded"] \in Proof
    BY <1>3 DEF Proof, KeyStates
  <2>2. doc' \in [Callers -> Proof]
    BY <1>1, <1>6, <2>1 DEF Shred, TypeOK
  <2>. QED
    BY <1>1, <1>6, <2>2 DEF Shred, Goto, TypeOK, LivePCs, specVars
<1>7. CASE Anchor(s)
  <2>1. [doc[s] EXCEPT !.size = TreeSize] \in Proof
    BY <1>3, TreeSizeType DEF Proof
  <2>2. doc' \in [Callers -> Proof] /\ doc'[s] \in Proof
    BY <1>1, <1>7, <2>1 DEF Anchor, TypeOK
  <2>3. rpc' \subseteq [caller : Callers, proof : Proof]
    BY <1>1, <1>7, <2>2 DEF Anchor, Call, TypeOK
  <2>. QED
    BY <1>1, <1>7, <2>2, <2>3 DEF Anchor, Goto, TypeOK, LivePCs, specVars
<1>. QED
  BY <1>4, <1>5, <1>6, <1>7 DEF HandlerStep, HandlerGoesOn

(* A sweep's step. *)
LEMMA SweepTypes ==
  ASSUME TypeOK, NEW r \in Reconcilers, SweepStep(r) \/ SweepAborts(r)
  PROVE  TypeOK'
<1>1. r \in Callers /\ doc[r] \in Proof /\ Blank(r) \in Proof
  BY BlankIsProof DEF Callers, TypeOK
<1>2. CASE Scan(r)
  <2>1. Unanchored \subseteq Subjects
    BY DEF Unanchored, ErasedSubjects, TypeOK
  <2>2. todo' \in [Reconcilers -> SUBSET Subjects]
    BY <1>2, <2>1 DEF Scan, TypeOK
  <2>3. pc' \in [Callers -> LivePCs \cup SweepPCs]
    BY <1>1, <1>2 DEF Scan, Goto, TypeOK, SweepPCs
  <2>. QED
    BY <1>2, <2>2, <2>3 DEF Scan, TypeOK, specVars
<1>3. CASE SweepHead(r)
  <2>1. [doc[r] EXCEPT !.size = TreeSize] \in Proof
    BY <1>1, TreeSizeType DEF Proof
  <2>2. doc' \in [Callers -> Proof]
    BY <1>3, <2>1 DEF SweepHead, TypeOK
  <2>. QED
    BY <1>1, <1>3, <2>2 DEF SweepHead, Goto, TypeOK, SweepPCs, specVars
<1>4. CASE SweepRow(r)
  <2>1. PICK s \in todo[r] :
           doc' = [doc EXCEPT ![r] = [subject |-> s, size |-> doc[r].size,
                                      key_state |-> "wrapped_key_destroyed"]]
    BY <1>4 DEF SweepRow
  <2>2. s \in Subjects
    BY DEF TypeOK
  <2>3. [subject |-> s, size |-> doc[r].size,
         key_state |-> "wrapped_key_destroyed"] \in Proof
    BY <1>1, <2>2 DEF Proof, KeyStates
  <2>4. doc' \in [Callers -> Proof] /\ doc'[r] \in Proof
    BY <1>1, <2>1, <2>3 DEF TypeOK
  <2>5. rpc' \subseteq [caller : Callers, proof : Proof]
    BY <1>1, <1>4, <2>4 DEF SweepRow, Call, TypeOK
  <2>. QED
    BY <1>1, <1>4, <2>4, <2>5 DEF SweepRow, Goto, TypeOK, SweepPCs, specVars
<1>5. CASE EndSweep(r)
  <2>1. doc' \in [Callers -> Proof]
    BY <1>1, <1>5 DEF EndSweep, TypeOK
  <2>. QED
    BY <1>1, <1>5, <2>1 DEF EndSweep, Goto, TypeOK, SweepPCs, specVars
<1>6. CASE SweepAborts(r)
  <2>1. doc' \in [Callers -> Proof]
    BY <1>1, <1>6 DEF SweepAborts, TypeOK
  <2>2. todo' \in [Reconcilers -> SUBSET Subjects]
    BY <1>6 DEF SweepAborts, TypeOK
  <2>. QED
    BY <1>1, <1>6, <2>1, <2>2, FaultType
       DEF SweepAborts, Goto, TypeOK, SweepPCs, specVars
<1>. QED
  BY <1>2, <1>3, <1>4, <1>5, <1>6 DEF SweepStep

(* The steps handlers and sweeps share. *)
LEMMA CallTypes ==
  ASSUME TypeOK, NEW c \in Callers, Record(c) \/ CallFails(c)
  PROVE  TypeOK'
<1>1. doc[c] \in Proof /\ doc[c].subject \in Subjects
  BY DEF TypeOK, Proof
<1>2. LocalTypes
  BY DEF TypeOK, LocalTypes
<1>3. ASSUME record' = [record EXCEPT ![doc[c].subject] = doc[c]] \/ record' = record
      PROVE  record' \in [Subjects -> Proof \cup {NoProof}]
  BY <1>1, <1>3 DEF TypeOK
<1>4. CASE Record(c)
  <2>1. LocalTypes'
    BY <1>2, <1>4, DoneTypes DEF Record, Answered
  <2>. QED
    BY <1>3, <1>4, <2>1 DEF Record, TypeOK, LocalTypes, specVars
<1>5. CASE RecordFails(c)
  <2>1. LocalTypes'
    BY <1>2, <1>5, DoneTypes DEF RecordFails, AnchorFailed, Answered
  <2>2. record' \in [Subjects -> Proof \cup {NoProof}]
    BY <1>3, <1>5 DEF RecordFails
  <2>. QED
    BY <1>5, <2>1, <2>2, FaultType DEF RecordFails, TypeOK, LocalTypes, specVars
<1>6. CASE GiveUp(c)
  <2>1. LocalTypes'
    BY <1>2, <1>6, DoneTypes DEF GiveUp, AnchorFailed, Answered
  <2>. QED
    BY <1>6, <2>1, FaultType DEF GiveUp, TypeOK, LocalTypes, specVars
<1>7. CASE QueryFails(c)
  <2>1. CASE c \in Subjects
    <3>1. LocalTypes'
      BY <1>2, <1>7, <2>1, DoneTypes DEF QueryFails, AnchorFailed, Answered
    <3>. QED
      BY <1>7, <3>1, FaultType DEF QueryFails, TypeOK, LocalTypes, specVars
  <2>2. CASE c \notin Subjects
    <3>1. c \in Reconcilers
      BY <2>2 DEF Callers
    <3>2. pc' = [pc EXCEPT ![c] = "idle"] /\ todo' = [todo EXCEPT ![c] = {}] /\ doc' = doc
      BY <1>7, <2>2 DEF QueryFails, Goto
    <3>3. LocalTypes'
      BY <1>2, <3>1, <3>2 DEF LocalTypes, SweepPCs
    <3>. QED
      BY <1>7, <3>3, FaultType DEF QueryFails, TypeOK, LocalTypes, specVars
  <2>. QED
    BY <2>1, <2>2
<1>. QED
  BY <1>4, <1>5, <1>6, <1>7 DEF CallFails

(* cryptod's steps. *)
LEMMA CryptodTypes ==
  ASSUME TypeOK, NEW x \in rpc, CryptodAnchors(x) \/ CryptodFails(x)
  PROVE  TypeOK'
<1>1. x.caller \in Callers /\ x.proof \in Proof /\ x.proof.subject \in Subjects
  BY DEF TypeOK, Proof
<1>2. LocalTypes
  BY DEF TypeOK, LocalTypes
<1>3. ASSUME AnchorFailed(x.caller) PROVE LocalTypes'
  BY <1>1, <1>2, <1>3, DoneTypes DEF AnchorFailed, Answered
<1>4. CASE CryptodAnchors(x)
  <2>1. LocalTypes' /\ faults' \in 0..MaxFaults
    <3>1. CASE Goto(x.caller, "record") /\ UNCHANGED <<doc, todo, faults>>
      BY <1>1, <1>2, <3>1 DEF Goto, LocalTypes, LivePCs, TypeOK
    <3>2. CASE Fault /\ AnchorFailed(x.caller)
      BY <1>3, <3>2, FaultType DEF TypeOK
    <3>3. CASE UNCHANGED <<pc, doc, todo, faults>>
      BY <1>2, <3>3 DEF LocalTypes, TypeOK
    <3>. QED
      BY <1>4, <3>1, <3>2, <3>3 DEF CryptodAnchors
  <2>2. bucket' \in [Subjects -> SUBSET Proof]
    BY <1>1, <1>4 DEF CryptodAnchors, TypeOK
  <2>3. current' \in [Subjects -> Proof \cup {NoProof}]
    BY <1>1, <1>4 DEF CryptodAnchors, TypeOK
  <2>. QED
    BY <1>4, <2>1, <2>2, <2>3 DEF CryptodAnchors, TypeOK, LocalTypes, specVars
<1>5. CASE CryptodFails(x)
  <2>1. LocalTypes'
    <3>1. CASE AnchorFailed(x.caller)
      BY <1>3, <3>1
    <3>2. CASE UNCHANGED <<pc, doc, todo>>
      BY <1>2, <3>2 DEF LocalTypes
    <3>. QED
      BY <1>5, <3>1, <3>2 DEF CryptodFails
  <2>. QED
    BY <1>5, <2>1, FaultType DEF CryptodFails, TypeOK, LocalTypes, specVars
<1>. QED
  BY <1>4, <1>5

LEMMA CrashTypes == TypeOK /\ Crash => TypeOK'
<1>. SUFFICES ASSUME TypeOK, Crash PROVE TypeOK'
  OBVIOUS
<1>1. pc' \in [Callers -> LivePCs \cup SweepPCs]
  BY DEF Crash, TypeOK, LivePCs, SweepPCs
<1>2. \A c \in Callers : Blank(c) \in Proof
  BY BlankIsProof
<1>3. doc' \in [Callers -> Proof]
  BY <1>2 DEF Crash, TypeOK
<1>4. todo' \in [Reconcilers -> SUBSET Subjects]
  BY DEF Crash, TypeOK
<1>. QED
  BY <1>1, <1>3, <1>4, FaultType DEF Crash, TypeOK, specVars

LEMMA NextTypes == TypeOK /\ [Next]_vars => TypeOK'
<1>1. TypeOK /\ UNCHANGED vars => TypeOK'
  BY DEF TypeOK, vars, specVars
<1>. QED
  BY <1>1, HandlerTypes, SweepTypes, CallTypes, CryptodTypes, CrashTypes DEF Next

(* Every document and every table keeps its type: no proof is ever of       *)
(* something that is not a subject, whoever anchors it and whatever fails.  *)
THEOREM AnchoringTypeCorrect == Spec => []TypeOK
BY InitTypes, NextTypes, PTL DEF Spec

-----------------------------------------------------------------------------
(* What stays true once it is. *)

(* A proof that states nothing but what is so. *)
SoundProof(p) ==
    /\ Includes(p.size, p.subject)
    /\ p.key_state = "shredded" => material[p.subject] = "deleted"

(* Everything a step of the next-state relation may do to the four things   *)
(* that proofs are about.                                                   *)
Monotone ==
    /\ ErasedSubjects \subseteq ErasedSubjects'
    /\ \A n \in Nat, s \in Subjects : Includes(n, s) => Includes(n, s)'
    /\ \A s \in Subjects : material[s] = "deleted" => material'[s] = "deleted"
    /\ \A s \in Subjects : bucket[s] \subseteq bucket'[s]

LEMMA AppendIncludes ==
  ASSUME TypeOK, NEW s \in Subjects, ledger' = Append(ledger, s)
  PROVE  /\ \A n \in Nat, t \in Subjects : Includes(n, t) => Includes(n, t)'
         /\ ErasedSubjects' = ErasedSubjects \cup {s}
<1>1. /\ Len(ledger') = Len(ledger) + 1 /\ Len(ledger) \in Nat
      /\ \A k \in 1..Len(ledger) : ledger'[k] = ledger[k]
      /\ ledger'[Len(ledger')] = s
  BY DEF TypeOK
<1>2. ASSUME NEW n \in Nat, NEW t \in Subjects, Includes(n, t) PROVE Includes(n, t)'
  <2>1. PICK k \in 1..n : ledger[k] = t
    BY <1>2 DEF Includes
  <2>2. n <= Len(ledger) /\ k \in 1..Len(ledger)
    BY <1>1, <1>2, <2>1 DEF Includes
  <2>. QED
    BY <1>1, <2>1, <2>2 DEF Includes
<1>3. ErasedSubjects' = ErasedSubjects \cup {s}
  <2>1. DOMAIN ledger = 1..Len(ledger) /\ DOMAIN ledger' = 1..(Len(ledger) + 1)
    BY DEF TypeOK
  <2>. QED
    BY <1>1, <2>1 DEF ErasedSubjects
<1>. QED
  BY <1>2, <1>3

LEMMA StepMonotone ==
  ASSUME TypeOK, [Next]_vars
  PROVE  Monotone
<1>1. ASSUME NEW s \in Subjects, HandlerStep(s) PROVE Monotone
  <2>1. CASE Erase(s)
    <3>1. \A n \in Nat, t \in Subjects : Includes(n, t) => Includes(n, t)'
      BY <2>1, AppendIncludes DEF Erase, DestroyAndRetain
    <3>2. ErasedSubjects \subseteq ErasedSubjects'
      BY <2>1, AppendIncludes DEF Erase, DestroyAndRetain
    <3>. QED
      BY <2>1, <3>1, <3>2 DEF Erase, Monotone, DestroyAndRetain
  <2>2. CASE ShredFails(s)
    BY <2>2 DEF ShredFails, Monotone, Includes, ErasedSubjects, specVars, TypeOK
  <2>3. CASE Shred(s)
    BY <2>3 DEF Shred, Monotone, Includes, ErasedSubjects, specVars, TypeOK
  <2>4. CASE Anchor(s)
    BY <2>4 DEF Anchor, Monotone, Includes, ErasedSubjects, specVars
  <2>. QED
    BY <1>1, <2>1, <2>2, <2>3, <2>4 DEF HandlerStep, HandlerGoesOn
<1>2. ASSUME UNCHANGED <<specVars, material, bucket>> PROVE Monotone
  BY <1>2 DEF Monotone, Includes, ErasedSubjects, specVars
<1>3. ASSUME NEW r \in Reconcilers, SweepStep(r) \/ SweepAborts(r) PROVE Monotone
  BY <1>2, <1>3 DEF SweepStep, Scan, SweepHead, SweepRow, EndSweep, SweepAborts
<1>4. ASSUME NEW c \in Callers, Record(c) \/ CallFails(c) PROVE Monotone
  BY <1>2, <1>4 DEF CallFails, Record, RecordFails, GiveUp, QueryFails
<1>5. ASSUME NEW x \in rpc, CryptodAnchors(x) PROVE Monotone
  <2>1. \A s \in Subjects : bucket[s] \subseteq bucket'[s]
    BY <1>5 DEF CryptodAnchors, TypeOK
  <2>. QED
    BY <1>5, <2>1 DEF CryptodAnchors, Monotone, Includes, ErasedSubjects, specVars
<1>6. ASSUME NEW x \in rpc, CryptodFails(x) PROVE Monotone
  BY <1>2, <1>6 DEF CryptodFails
<1>7. CASE Crash
  BY <1>2, <1>7 DEF Crash
<1>8. CASE UNCHANGED vars
  BY <1>2, <1>8 DEF vars
<1>. QED
  BY <1>1, <1>3, <1>4, <1>5, <1>6, <1>7, <1>8 DEF Next

LEMMA SoundStays ==
  ASSUME TypeOK, [Next]_vars, NEW p \in Proof, SoundProof(p)
  PROVE  SoundProof(p)'
<1>1. p.size \in Nat /\ p.subject \in Subjects
  BY DEF Proof
<1>. QED
  BY <1>1, StepMonotone DEF Monotone, SoundProof

-----------------------------------------------------------------------------
(* The inductive invariant. *)

Working == {"shred", "head", "waiting", "record"}
Sweeping == {"sweep", "waiting", "record"}
Holding == {"waiting", "record"}

(* A handler at work is of a committed erasure, and has seen what its       *)
(* document says of the key material.                                       *)
HandlersSound ==
    \A s \in Subjects :
       /\ doc[s].subject = s
       /\ pc[s] \in Working => s \in ErasedSubjects
       /\ doc[s].key_state = "shredded" => material[s] = "deleted"

(* A sweep's list holds erased subjects only, and the head it reads later   *)
(* covers all of them.                                                      *)
SweepsSound ==
    \A r \in Reconcilers : \A s \in todo[r] :
       /\ s \in ErasedSubjects
       /\ pc[r] \in Sweeping => Includes(doc[r].size, s)

(* Every document that was sent, has arrived or was put is sound. *)
DocumentsSound ==
    /\ \A c \in Callers : pc[c] \in Holding => SoundProof(doc[c])
    /\ \A x \in rpc : SoundProof(x.proof)
    /\ \A s \in Subjects : \A p \in bucket[s] : p.subject = s /\ SoundProof(p)

SoundInv == TypeOK /\ HandlersSound /\ SweepsSound /\ DocumentsSound

LEMMA InitSound == Init => SoundInv
<1>. SUFFICES ASSUME Init PROVE SoundInv
  OBVIOUS
<1>1. TypeOK
  BY InitTypes
<1>2. \A s \in Subjects : s \in Callers /\ s \notin Reconcilers
  BY AnchoringAssumption DEF Callers
<1>3. HandlersSound
  BY <1>2 DEF Init, HandlersSound, Blank, Working
<1>4. \A c \in Callers : pc[c] \notin Holding
  BY DEF Init, Holding
<1>. QED
  BY <1>1, <1>3, <1>4 DEF Init, SoundInv, SweepsSound, DocumentsSound

(* What a step has to show for each part: what is new is sound. *)
HandlersStep ==
    \A s \in Subjects :
       /\ doc'[s].subject = s
       /\ pc'[s] \in Working => pc[s] \in Working \/ s \in ErasedSubjects'
       /\ doc'[s].key_state = "shredded" =>
             doc[s].key_state = "shredded" \/ material'[s] = "deleted"

SweepsStep ==
    \A r \in Reconcilers : \A s \in todo'[r] :
       /\ s \in todo[r] \cup ErasedSubjects
       /\ pc'[r] \in Sweeping =>
             \/ s \in todo[r] /\ pc[r] \in Sweeping /\ doc'[r].size = doc[r].size
             \/ Includes(doc[r].size, s)'

HoldersStep ==
    \A c \in Callers : pc'[c] \in Holding =>
       (pc[c] \in Holding /\ doc'[c] = doc[c]) \/ SoundProof(doc'[c])

DocumentsStep ==
    /\ HoldersStep
    /\ \A x \in rpc' : x \in rpc \/ SoundProof(x.proof)
    /\ \A s \in Subjects : \A p \in bucket'[s] :
          p \in bucket[s] \/ (p.subject = s /\ SoundProof(p))

LEMMA StepKeepsSound ==
  ASSUME SoundInv, [Next]_vars, HandlersStep, SweepsStep, DocumentsStep
  PROVE  SoundInv'
<1>1. TypeOK /\ TypeOK' /\ Monotone
  BY NextTypes, StepMonotone DEF SoundInv
<1>2. HandlersSound'
  BY <1>1 DEF SoundInv, HandlersSound, HandlersStep, Monotone
<1>3. SweepsSound'
  <2>. SUFFICES ASSUME NEW r \in Reconcilers, NEW s \in todo'[r]
                PROVE  /\ s \in ErasedSubjects'
                       /\ pc'[r] \in Sweeping => Includes(doc[r].size, s)'
    BY DEF SweepsSound
  <2>1. s \in ErasedSubjects'
    BY <1>1 DEF SoundInv, SweepsSound, SweepsStep, Monotone
  <2>2. ASSUME pc'[r] \in Sweeping, ~Includes(doc[r].size, s)'
        PROVE  FALSE
    <3>1. s \in todo[r] /\ pc[r] \in Sweeping /\ doc'[r].size = doc[r].size
      BY <2>2 DEF SweepsStep
    <3>2. Includes(doc[r].size, s)
      BY <3>1 DEF SoundInv, SweepsSound
    <3>3. doc[r].size \in Nat /\ s \in Subjects
      BY <1>1, <3>1 DEF TypeOK, Proof, Callers
    <3>. QED
      BY <1>1, <2>2, <3>1, <3>2, <3>3 DEF Monotone
  <2>. QED
    BY <2>1, <2>2
<1>4. DocumentsSound'
  BY <1>1, SoundStays DEF SoundInv, DocumentsSound, DocumentsStep, HoldersStep, TypeOK
<1>. QED
  BY <1>1, <1>2, <1>3, <1>4 DEF SoundInv

(* A caller that is done keeps nothing but, in a sweep, the tree's size and *)
(* the rest of its list.                                                    *)
LEMMA DoneKeeps ==
  ASSUME SoundInv, NEW c \in Callers, NEW a \in Answered, Done(c, a),
         c \in Reconcilers => pc[c] \in Sweeping
  PROVE  HandlersStep /\ SweepsStep /\ HoldersStep
<1>1. \A s \in Subjects : s \in Callers /\ s \notin Reconcilers
  BY AnchoringAssumption DEF Callers
<1>2. \A r \in Reconcilers : r \in Callers /\ r \notin Subjects
  BY AnchoringAssumption DEF Callers
<1>3. CASE c \in Subjects
  <2>1. /\ pc' = [pc EXCEPT ![c] = a] /\ doc' = [doc EXCEPT ![c] = Blank(c)]
        /\ todo' = todo /\ a \notin Working /\ a \notin Holding
    BY <1>3 DEF Done, Goto, Answered, Working, Holding
  <2>2. Blank(c).subject = c /\ Blank(c).key_state # "shredded"
    BY <1>3 DEF Blank
  <2>3. pc \in [Callers -> LivePCs \cup SweepPCs] /\ doc \in [Callers -> Proof]
    BY DEF SoundInv, TypeOK
  <2>4. HandlersStep
    BY <1>1, <2>1, <2>2, <2>3 DEF SoundInv, HandlersSound, HandlersStep
  <2>5. SweepsStep
    BY <1>2, <1>3, <2>1, <2>3 DEF SweepsStep
  <2>6. HoldersStep
    BY <2>1, <2>3 DEF HoldersStep
  <2>. QED
    BY <2>4, <2>5, <2>6
<1>4. CASE c \notin Subjects
  <2>. DEFINE d == [Blank(c) EXCEPT !.size = doc[c].size]
  <2>1. /\ pc' = [pc EXCEPT ![c] = "sweep"] /\ doc' = [doc EXCEPT ![c] = d]
        /\ todo' = [todo EXCEPT ![c] = @ \ {doc[c].subject}]
        /\ d.size = doc[c].size /\ "sweep" \notin Holding
    BY <1>4 DEF Done, Goto, Blank, Holding
  <2>. HIDE DEF d
  <2>2. /\ pc \in [Callers -> LivePCs \cup SweepPCs] /\ doc \in [Callers -> Proof]
        /\ todo \in [Reconcilers -> SUBSET Subjects]
    BY DEF SoundInv, TypeOK
  <2>3. HandlersStep
    BY <1>1, <1>4, <2>1, <2>2 DEF SoundInv, HandlersSound, HandlersStep
  <2>4. SweepsStep
    BY <1>2, <1>4, <2>1, <2>2 DEF SweepsStep, Callers
  <2>5. HoldersStep
    BY <2>1, <2>2 DEF HoldersStep
  <2>. QED
    BY <2>3, <2>4, <2>5
<1>. QED
  BY <1>3, <1>4

LEMMA LocalsKeep ==
  ASSUME SoundInv, UNCHANGED <<pc, doc, todo>>
  PROVE  HandlersStep /\ SweepsStep /\ HoldersStep
BY DEF SoundInv, HandlersSound, HandlersStep, SweepsStep, HoldersStep

LEMMA DoneSound ==
  ASSUME SoundInv, [Next]_vars, UNCHANGED <<rpc, bucket>>,
         HandlersStep, SweepsStep, HoldersStep
  PROVE  SoundInv'
BY StepKeepsSound DEF DocumentsStep

(* A tree head read now covers every erasure there is. *)
LEMMA HeadCovers ==
  ASSUME TypeOK, NEW s \in ErasedSubjects
  PROVE  Includes(TreeSize, s)
BY DEF TypeOK, ErasedSubjects, Includes, TreeSize

LEMMA HandlerSound ==
  ASSUME SoundInv, NEW s \in Subjects, HandlerStep(s)
  PROVE  SoundInv'
<1>0. [Next]_vars
  BY DEF Next
<1>1. /\ s \in Callers /\ s \notin Reconcilers
      /\ \A r \in Reconcilers : r \in Callers /\ r # s
      /\ \A t \in Subjects : t \in Callers
  BY AnchoringAssumption DEF Callers
<1>2. /\ pc \in [Callers -> LivePCs \cup SweepPCs] /\ doc \in [Callers -> Proof]
      /\ material \in [Subjects -> {"none", "imported", "deleted"}]
      /\ TypeOK
  BY DEF SoundInv, TypeOK
<1>3. HandlersSound
  BY DEF SoundInv
<1>4. CASE Erase(s)
  <2>1. s \in ErasedSubjects'
    BY <1>2, <1>4, AppendIncludes DEF Erase, DestroyAndRetain
  <2>2. /\ \E l \in {"shred", "head", "proof_pending"} : pc' = [pc EXCEPT ![s] = l]
        /\ UNCHANGED <<doc, todo, rpc, bucket>>
    BY <1>4 DEF Erase, Goto
  <2>3. HandlersStep
    BY <1>1, <1>2, <1>3, <2>1, <2>2 DEF HandlersSound, HandlersStep
  <2>4. SweepsStep
    BY <1>1, <1>2, <2>2 DEF SweepsStep
  <2>5. HoldersStep
    BY <1>2, <2>2 DEF HoldersStep, Holding
  <2>. QED
    BY <1>0, <2>2, <2>3, <2>4, <2>5, DoneSound
<1>5. CASE ShredFails(s)
  <2>1. Done(s, "proof_pending") /\ UNCHANGED <<rpc, bucket>>
    BY <1>5 DEF ShredFails, AnchorFailed
  <2>. QED
    BY <1>0, <1>1, <2>1, DoneKeeps, DoneSound DEF Answered
<1>6. CASE Shred(s)
  <2>1. /\ pc[s] \in Working /\ pc' = [pc EXCEPT ![s] = "head"]
        /\ material' = [material EXCEPT ![s] = "deleted"]
        /\ doc' = [doc EXCEPT ![s].key_state = "shredded"]
        /\ UNCHANGED <<todo, rpc, bucket>>
    BY <1>6 DEF Shred, Goto, Working
  <2>2. HandlersStep
    BY <1>1, <1>2, <1>3, <2>1 DEF HandlersSound, HandlersStep, Proof
  <2>3. SweepsStep
    BY <1>1, <1>2, <2>1 DEF SweepsStep
  <2>4. HoldersStep
    BY <1>2, <2>1 DEF HoldersStep, Holding
  <2>. QED
    BY <1>0, <2>1, <2>2, <2>3, <2>4, DoneSound
<1>7. CASE Anchor(s)
  <2>1. /\ pc[s] \in Working /\ pc' = [pc EXCEPT ![s] = "waiting"]
        /\ doc' = [doc EXCEPT ![s].size = TreeSize]
        /\ rpc' = rpc \cup {[caller |-> s, proof |-> doc'[s]]}
        /\ UNCHANGED <<todo, bucket, material, ledger>>
    BY <1>7 DEF Anchor, Call, Goto, Working, specVars
  <2>2. HandlersStep
    BY <1>1, <1>2, <1>3, <2>1 DEF HandlersSound, HandlersStep, Proof
  <2>3. SweepsStep
    BY <1>1, <1>2, <2>1 DEF SweepsStep
  <2>4. SoundProof(doc'[s])
    <3>1. Includes(TreeSize, s)
      BY <1>2, <1>3, <2>1, HeadCovers DEF HandlersSound
    <3>2. /\ doc'[s].size = TreeSize /\ doc'[s].subject = s
          /\ doc'[s].key_state = "shredded" => material[s] = "deleted"
      BY <1>1, <1>2, <1>3, <2>1 DEF HandlersSound, Proof
    <3>. QED
      BY <3>1, <3>2 DEF SoundProof
  <2>5. DocumentsStep
    BY <1>2, <2>1, <2>4 DEF DocumentsStep, HoldersStep
  <2>. QED
    BY <1>0, <2>2, <2>3, <2>5, StepKeepsSound
<1>. QED
  BY <1>4, <1>5, <1>6, <1>7 DEF HandlerStep, HandlerGoesOn

LEMMA SweepSound ==
  ASSUME SoundInv, NEW r \in Reconcilers, SweepStep(r) \/ SweepAborts(r)
  PROVE  SoundInv'
<1>0. [Next]_vars
  BY DEF Next
<1>1. /\ r \in Callers /\ r \notin Subjects
      /\ \A q \in Reconcilers : q \in Callers
      /\ \A s \in Subjects : s \in Callers /\ s # r
  BY AnchoringAssumption DEF Callers
<1>2. /\ pc \in [Callers -> LivePCs \cup SweepPCs] /\ doc \in [Callers -> Proof]
      /\ todo \in [Reconcilers -> SUBSET Subjects] /\ TypeOK
  BY DEF SoundInv, TypeOK
<1>3. ASSUME \A s \in Subjects : doc'[s] = doc[s] /\ pc'[s] = pc[s]
      PROVE  HandlersStep
  BY <1>3 DEF SoundInv, HandlersSound, HandlersStep
<1>4. CASE Scan(r)
  <2>1. /\ \E l \in {"idle", "head"} : pc' = [pc EXCEPT ![r] = l]
        /\ todo' = [todo EXCEPT ![r] = Unanchored]
        /\ UNCHANGED <<doc, rpc, bucket>>
    BY <1>4 DEF Scan, Goto
  <2>2. HandlersStep
    BY <1>1, <1>2, <1>3, <2>1
  <2>3. SweepsStep
    BY <1>1, <1>2, <2>1 DEF SweepsStep, Sweeping, Unanchored
  <2>4. HoldersStep
    BY <1>2, <2>1 DEF HoldersStep, Holding
  <2>. QED
    BY <1>0, <2>1, <2>2, <2>3, <2>4, DoneSound
<1>5. CASE SweepHead(r)
  <2>1. /\ pc' = [pc EXCEPT ![r] = "sweep"]
        /\ doc' = [doc EXCEPT ![r].size = TreeSize]
        /\ UNCHANGED <<todo, rpc, bucket, ledger>>
    BY <1>5 DEF SweepHead, Goto, specVars
  <2>2. HandlersStep
    BY <1>1, <1>2, <1>3, <2>1
  <2>3. SweepsStep
    <3>1. doc'[r].size = TreeSize
      BY <1>1, <1>2, <2>1 DEF Proof
    <3>2. \A s \in todo[r] : Includes(TreeSize, s)
      BY <1>2, HeadCovers DEF SoundInv, SweepsSound
    <3>3. \A s \in todo'[r] : Includes(doc[r].size, s)'
      BY <2>1, <3>1, <3>2 DEF Includes
    <3>4. \A q \in Reconcilers \ {r} : doc'[q] = doc[q] /\ pc'[q] = pc[q]
      BY <1>1, <1>2, <2>1
    <3>. QED
      BY <2>1, <3>3, <3>4 DEF SweepsStep
  <2>4. HoldersStep
    BY <1>2, <2>1 DEF HoldersStep, Holding
  <2>. QED
    BY <1>0, <2>1, <2>2, <2>3, <2>4, DoneSound
<1>6. CASE SweepRow(r)
  <2>1. PICK s \in todo[r] :
           doc' = [doc EXCEPT ![r] = [subject |-> s, size |-> doc[r].size,
                                      key_state |-> "wrapped_key_destroyed"]]
    BY <1>6 DEF SweepRow
  <2>2. /\ pc[r] = "sweep" /\ pc' = [pc EXCEPT ![r] = "waiting"]
        /\ rpc' = rpc \cup {[caller |-> r, proof |-> doc'[r]]}
        /\ UNCHANGED <<todo, bucket>>
    BY <1>6 DEF SweepRow, Call, Goto
  <2>3. HandlersStep
    BY <1>1, <1>2, <1>3, <2>1, <2>2
  <2>4. SweepsStep
    BY <1>1, <1>2, <2>1, <2>2 DEF SweepsStep, Sweeping
  <2>5. SoundProof(doc'[r])
    <3>1. doc'[r] = [subject |-> s, size |-> doc[r].size,
                     key_state |-> "wrapped_key_destroyed"]
      BY <1>1, <1>2, <2>1
    <3>2. Includes(doc[r].size, s)
      BY <2>1, <2>2 DEF SoundInv, SweepsSound, Sweeping
    <3>. QED
      BY <3>1, <3>2 DEF SoundProof
  <2>6. DocumentsStep
    BY <1>2, <2>1, <2>2, <2>5 DEF DocumentsStep, HoldersStep
  <2>. QED
    BY <1>0, <2>3, <2>4, <2>6, StepKeepsSound
<1>7. CASE EndSweep(r) \/ SweepAborts(r)
  <2>1. /\ pc' = [pc EXCEPT ![r] = "idle"] /\ doc' = [doc EXCEPT ![r] = Blank(r)]
        /\ todo' = todo \/ todo' = [todo EXCEPT ![r] = {}]
        /\ UNCHANGED <<rpc, bucket>>
    BY <1>7 DEF EndSweep, SweepAborts, Goto
  <2>2. HandlersStep
    BY <1>1, <1>2, <1>3, <2>1
  <2>3. SweepsStep
    BY <1>1, <1>2, <2>1 DEF SweepsStep, Sweeping
  <2>4. HoldersStep
    BY <1>2, <2>1 DEF HoldersStep, Holding
  <2>. QED
    BY <1>0, <2>1, <2>2, <2>3, <2>4, DoneSound
<1>. QED
  BY <1>4, <1>5, <1>6, <1>7 DEF SweepStep

LEMMA CallSound ==
  ASSUME SoundInv, NEW c \in Callers, Record(c) \/ CallFails(c)
  PROVE  SoundInv'
<1>0. [Next]_vars
  BY DEF Next
<1>1. CASE Record(c) \/ RecordFails(c) \/ GiveUp(c)
  <2>1. /\ \E a \in Answered : Done(c, a)
        /\ pc[c] \in Sweeping
        /\ UNCHANGED <<rpc, bucket>>
    BY <1>1 DEF Record, RecordFails, GiveUp, AnchorFailed, Answered, Sweeping
  <2>. QED
    BY <1>0, <2>1, DoneKeeps, DoneSound
<1>2. CASE QueryFails(c) /\ c \in Subjects
  <2>1. Done(c, "proof_pending") /\ UNCHANGED <<rpc, bucket>> /\ c \notin Reconcilers
    BY <1>2, AnchoringAssumption DEF QueryFails, AnchorFailed
  <2>. QED
    BY <1>0, <2>1, DoneKeeps, DoneSound DEF Answered
<1>3. CASE QueryFails(c) /\ c \notin Subjects
  <2>1. /\ pc' = [pc EXCEPT ![c] = "idle"] /\ todo' = [todo EXCEPT ![c] = {}]
        /\ UNCHANGED <<doc, rpc, bucket>>
    BY <1>3 DEF QueryFails, Goto
  <2>2. /\ pc \in [Callers -> LivePCs \cup SweepPCs]
        /\ todo \in [Reconcilers -> SUBSET Subjects]
        /\ Subjects \subseteq Callers /\ Reconcilers \subseteq Callers
    BY DEF SoundInv, TypeOK, Callers
  <2>3. HandlersStep
    BY <1>3, <2>1, <2>2 DEF SoundInv, HandlersSound, HandlersStep
  <2>4. SweepsStep
    BY <2>1, <2>2 DEF SweepsStep, Sweeping
  <2>5. HoldersStep
    BY <2>1, <2>2 DEF HoldersStep, Holding
  <2>. QED
    BY <1>0, <2>1, <2>3, <2>4, <2>5, DoneSound
<1>. QED
  BY <1>1, <1>2, <1>3 DEF CallFails

LEMMA CryptodSound ==
  ASSUME SoundInv, NEW x \in rpc, CryptodAnchors(x) \/ CryptodFails(x)
  PROVE  SoundInv'
<1>0. [Next]_vars
  BY DEF Next
<1>1. /\ x.caller \in Callers /\ x.proof \in Proof /\ SoundProof(x.proof)
      /\ rpc' = rpc \ {x}
  BY DEF SoundInv, TypeOK, DocumentsSound, CryptodAnchors, CryptodFails
<1>2. HandlersStep /\ SweepsStep /\ HoldersStep
  <2>1. CASE Awaits(x) /\ AnchorFailed(x.caller)
    <3>1. pc[x.caller] \in Sweeping /\ Done(x.caller, "proof_pending")
      BY <2>1 DEF Awaits, AnchorFailed, Sweeping
    <3>. QED
      BY <1>1, <3>1, DoneKeeps DEF Answered
  <2>2. CASE UNCHANGED <<pc, doc, todo>>
    BY <2>2, LocalsKeep
  <2>3. CASE Awaits(x) /\ Goto(x.caller, "record") /\ UNCHANGED <<doc, todo>>
    <3>1. /\ pc[x.caller] \in Working \cap Sweeping \cap Holding
          /\ pc' = [pc EXCEPT ![x.caller] = "record"] /\ UNCHANGED <<doc, todo>>
          /\ pc \in [Callers -> LivePCs \cup SweepPCs]
          /\ Subjects \subseteq Callers /\ Reconcilers \subseteq Callers
      BY <2>3 DEF Awaits, Goto, Working, Sweeping, Holding, SoundInv, TypeOK, Callers
    <3>. QED
      BY <3>1 DEF SoundInv, HandlersSound, HandlersStep, SweepsStep, HoldersStep
  <2>. QED
    BY <2>1, <2>2, <2>3 DEF CryptodAnchors, CryptodFails
<1>3. \A s \in Subjects : \A p \in bucket'[s] :
         p \in bucket[s] \/ (p.subject = s /\ SoundProof(p))
  <2>1. CASE CryptodAnchors(x)
    BY <1>1, <2>1 DEF CryptodAnchors, SoundInv, TypeOK
  <2>2. CASE CryptodFails(x)
    BY <2>2 DEF CryptodFails
  <2>. QED
    BY <2>1, <2>2
<1>4. DocumentsStep
  BY <1>1, <1>2, <1>3 DEF DocumentsStep
<1>. QED
  BY <1>0, <1>2, <1>4, StepKeepsSound

LEMMA CrashSound == SoundInv /\ Crash => SoundInv'
<1>. SUFFICES ASSUME SoundInv, Crash PROVE SoundInv'
  OBVIOUS
<1>0. [Next]_vars
  BY DEF Next
<1>1. /\ UNCHANGED <<rpc, bucket>>
      /\ pc'[Boot] = "scan" /\ todo'[Boot] = {}
      /\ \A r \in Sweepers : pc'[r] = pc[r] /\ doc'[r] = doc[r] /\ todo'[r] = todo[r]
  BY AnchoringAssumption DEF Crash, Callers, Reconcilers, SoundInv, TypeOK
<1>2. ASSUME NEW s \in Subjects
      PROVE  /\ pc'[s] \notin Working /\ pc'[s] \notin Holding
             /\ doc'[s] = Blank(s)
  <2>1. s \in Callers /\ s \notin Sweepers /\ s # Boot
    BY AnchoringAssumption DEF Callers, Reconcilers
  <2>2. pc'[s] = IF pc[s] \in {"none"} \cup Answered THEN pc[s] ELSE "crashed"
    BY <2>1 DEF Crash
  <2>3. doc'[s] = Blank(s)
    BY <2>1 DEF Crash
  <2>. QED
    BY <2>2, <2>3 DEF Working, Holding, Answered
<1>3. HandlersStep
  <2>1. ASSUME NEW s \in Subjects
        PROVE  doc'[s].subject = s /\ doc'[s].key_state # "shredded"
    <3>1. Blank(s).subject = s /\ Blank(s).key_state # "shredded"
      BY DEF Blank
    <3>. QED
      BY <1>2, <3>1
  <2>. QED
    BY <1>2, <2>1 DEF HandlersStep
<1>4. SweepsStep
  BY <1>1 DEF SweepsStep, Reconcilers
<1>5. HoldersStep
  BY <1>1, <1>2 DEF HoldersStep, Callers, Reconcilers, Holding
<1>. QED
  BY <1>0, <1>1, <1>3, <1>4, <1>5, DoneSound

LEMMA NextSound == SoundInv /\ [Next]_vars => SoundInv'
<1>. SUFFICES ASSUME SoundInv, [Next]_vars PROVE SoundInv'
  OBVIOUS
<1>1. CASE UNCHANGED vars
  <2>1. UNCHANGED <<pc, doc, todo, rpc, bucket>>
    BY <1>1 DEF vars
  <2>. QED
    BY <2>1, LocalsKeep, DoneSound
<1>. QED
  BY <1>1, HandlerSound, SweepSound, CallSound, CryptodSound, CrashSound DEF Next

(* Every version ever put under Object Lock is of an erasure that happened, *)
(* and the tree whose root it signs includes that erasure's row: however    *)
(* long ago a sweep read its head, whatever was erased since, and whenever  *)
(* a request of a caller that gave up is served.                            *)
THEOREM TreeCorrect == Spec => []TreeCoversErasure
<1>1. SoundInv => TreeCoversErasure
  BY DEF SoundInv, DocumentsSound, SoundProof, TreeCoversErasure
<1>. QED
  BY <1>1, InitSound, NextSound, PTL DEF Spec

-----------------------------------------------------------------------------
(* What the proofs claim of keys. *)

KeysGone == keyed \cap ErasedSubjects = {}

LEMMA NextKeysGone == TypeOK /\ KeysGone /\ [Next]_vars => KeysGone'
<1>. SUFFICES ASSUME TypeOK, KeysGone, [Next]_vars PROVE KeysGone'
  OBVIOUS
<1>1. ASSUME NEW s \in Subjects, DestroyAndRetain(s) PROVE KeysGone'
  BY <1>1, AppendIncludes DEF DestroyAndRetain, KeysGone
<1>2. CASE UNCHANGED specVars
  BY <1>2 DEF specVars, KeysGone, ErasedSubjects
<1>3. \/ UNCHANGED specVars
      \/ \E s \in Subjects : DestroyAndRetain(s)
  BY DEF Next, vars, HandlerStep, HandlerGoesOn, SweepStep, CallFails,
         Erase, Shred, ShredFails, Anchor, Record, RecordFails, CryptodAnchors,
         CryptodFails, GiveUp, Scan, SweepHead, SweepRow, EndSweep, QueryFails,
         SweepAborts, Crash
<1>. QED
  BY <1>1, <1>2, <1>3

(* No version states that key material is gone which still exists: not      *)
(* after a shred whose answer was lost, and not when a sweep anchors what a *)
(* handler could not.                                                       *)
THEOREM ClaimsCorrect == Spec => []NeverOverclaims
<1>1. SoundInv /\ KeysGone => NeverOverclaims
  <2>. SUFFICES ASSUME SoundInv, KeysGone, NEW s \in Subjects, NEW p \in bucket[s]
                PROVE  /\ s \notin keyed
                       /\ p.key_state = "shredded" => material[s] = "deleted"
    BY DEF NeverOverclaims
  <2>1. p.subject = s /\ SoundProof(p) /\ p.size \in Nat /\ ledger \in Seq(Subjects)
    BY DEF SoundInv, DocumentsSound, TypeOK, Proof
  <2>2. s \in ErasedSubjects
    BY <2>1 DEF SoundProof, Includes, ErasedSubjects
  <2>. QED
    BY <2>1, <2>2 DEF KeysGone, SoundProof
<1>2. Init => KeysGone
  BY DEF Init, KeysGone, ErasedSubjects
<1>3. SoundInv /\ KeysGone /\ [Next]_vars => SoundInv' /\ KeysGone'
  BY NextSound, NextKeysGone DEF SoundInv
<1>. QED
  BY <1>1, <1>2, <1>3, InitSound, PTL DEF Spec

-----------------------------------------------------------------------------
(* What a row serves. *)

(* Strengthened: a caller about to record a proof holds one that was put.   *)
ServedInv == /\ RecordedIsAnchored
             /\ \A c \in Callers : pc[c] = "record" => doc[c] \in bucket[doc[c].subject]

(* A step that neither records nor lets anybody begin to. *)
LEMMA ServedKept ==
  ASSUME TypeOK, ServedInv, [Next]_vars, UNCHANGED record,
         \A c \in Callers : pc'[c] = "record" => pc[c] = "record" /\ doc'[c] = doc[c],
         \A s \in Subjects : pc'[s] = "proof_ref" => pc[s] = "proof_ref"
  PROVE  ServedInv'
<1>1. \A s \in Subjects : bucket[s] \subseteq bucket'[s]
  BY StepMonotone DEF Monotone
<1>2. \A c \in Callers : doc[c].subject \in Subjects
  BY DEF TypeOK, Proof
<1>. QED
  BY <1>1, <1>2 DEF ServedInv, RecordedIsAnchored

(* Any other caller's answer and document are untouched by Done. *)
LEMMA DoneServes ==
  ASSUME TypeOK, NEW c \in Callers, NEW a \in Answered, Done(c, a)
  PROVE  /\ \A d \in Callers : pc'[d] = "record" => pc[d] = "record" /\ doc'[d] = doc[d]
         /\ \A s \in Subjects : pc'[s] = "proof_ref" =>
               pc[s] = "proof_ref" \/ (s = c /\ a = "proof_ref")
<1>1. /\ \E l \in Answered \cup {"sweep"} :
            pc' = [pc EXCEPT ![c] = l] /\ (l = "proof_ref" => a = "proof_ref")
      /\ \A d \in Callers \ {c} : doc'[d] = doc[d]
  BY DEF Done, Goto, TypeOK
<1>. QED
  BY <1>1 DEF TypeOK, Answered, Callers

LEMMA RecordServes ==
  ASSUME SoundInv, ServedInv, NEW c \in Callers, Record(c) \/ RecordFails(c)
  PROVE  ServedInv'
<1>1. /\ doc[c] \in Proof /\ doc[c].subject \in Subjects
      /\ c \in Subjects => doc[c].subject = c
      /\ doc[c] \in bucket[doc[c].subject]
      /\ record \in [Subjects -> Proof \cup {NoProof}] /\ TypeOK
      /\ UNCHANGED bucket
  BY DEF SoundInv, TypeOK, Proof, HandlersSound, ServedInv, Record, RecordFails
<1>2. PICK a \in Answered : Done(c, a) /\ (a = "proof_ref" => Record(c))
  BY DEF Record, RecordFails, AnchorFailed, Answered
<1>3. \/ record' = [record EXCEPT ![doc[c].subject] = doc[c]]
      \/ record' = record /\ ~Record(c)
  BY DEF Record, RecordFails
<1>4. \A s \in Subjects :
         record'[s] = record[s] \/ (s = doc[c].subject /\ record'[s] = doc[c])
  BY <1>1, <1>3
<1>5. \A s \in Subjects : record'[s] # NoProof => record'[s] \in bucket'[s]
  BY <1>1, <1>4 DEF ServedInv, RecordedIsAnchored
<1>6. \A s \in Subjects : pc'[s] = "proof_ref" => record'[s] # NoProof
  <2>. SUFFICES ASSUME NEW s \in Subjects, pc'[s] = "proof_ref"
                PROVE  record'[s] # NoProof
    OBVIOUS
  <2>1. CASE pc[s] = "proof_ref"
    BY <1>1, <1>4, <2>1, NoProofAssumption DEF ServedInv, RecordedIsAnchored
  <2>2. CASE pc[s] # "proof_ref"
    <3>1. s = c /\ Record(c)
      BY <1>1, <1>2, <2>2, DoneServes
    <3>. QED
      BY <1>1, <1>3, <3>1, NoProofAssumption
  <2>. QED
    BY <2>1, <2>2
<1>7. \A d \in Callers : pc'[d] = "record" => doc'[d] \in bucket'[doc'[d].subject]
  BY <1>1, <1>2, DoneServes DEF ServedInv
<1>. QED
  BY <1>5, <1>6, <1>7 DEF ServedInv, RecordedIsAnchored

LEMMA CryptodServes ==
  ASSUME SoundInv, ServedInv, NEW x \in rpc, CryptodAnchors(x) \/ CryptodFails(x)
  PROVE  ServedInv'
<1>0. [Next]_vars /\ TypeOK /\ UNCHANGED record
  BY DEF Next, SoundInv, CryptodAnchors, CryptodFails
<1>1. /\ x.caller \in Callers /\ x.proof.subject \in Subjects
      /\ pc \in [Callers -> LivePCs \cup SweepPCs]
      /\ bucket \in [Subjects -> SUBSET Proof]
      /\ Subjects \subseteq Callers
  BY <1>0 DEF TypeOK, Proof, Callers
<1>2. CASE AnchorFailed(x.caller)
  <2>1. Done(x.caller, "proof_pending")
    BY <1>2 DEF AnchorFailed
  <2>. QED
    BY <1>0, <1>1, <2>1, DoneServes, ServedKept DEF Answered
<1>3. CASE UNCHANGED <<pc, doc>>
  BY <1>0, <1>3, ServedKept
<1>4. CASE CryptodAnchors(x) /\ Awaits(x) /\ Goto(x.caller, "record") /\ UNCHANGED doc
  <2>1. /\ pc' = [pc EXCEPT ![x.caller] = "record"] /\ doc' = doc
        /\ doc[x.caller] = x.proof
        /\ bucket' = [bucket EXCEPT ![x.proof.subject] = @ \cup {x.proof}]
    BY <1>4 DEF CryptodAnchors, Awaits, Goto
  <2>2. \A s \in Subjects : bucket[s] \subseteq bucket'[s]
    BY <1>1, <2>1
  <2>3. RecordedIsAnchored'
    BY <1>0, <1>1, <2>1, <2>2 DEF ServedInv, RecordedIsAnchored
  <2>4. \A d \in Callers : pc'[d] = "record" => doc'[d] \in bucket'[doc'[d].subject]
    <3>1. x.proof \in bucket'[x.proof.subject]
      BY <1>1, <2>1
    <3>2. \A d \in Callers : doc[d].subject \in Subjects
      BY <1>0 DEF TypeOK, Proof
    <3>. QED
      BY <1>1, <2>1, <2>2, <3>1, <3>2 DEF ServedInv
  <2>. QED
    BY <2>3, <2>4 DEF ServedInv
<1>. QED
  BY <1>2, <1>3, <1>4 DEF CryptodAnchors, CryptodFails

(* Nobody begins to record, or answers with a proof_ref, in any other step. *)
LEMMA OtherServes ==
  ASSUME SoundInv, ServedInv,
         \/ \E s \in Subjects : HandlerStep(s)
         \/ \E r \in Reconcilers : SweepStep(r) \/ SweepAborts(r)
         \/ \E c \in Callers : GiveUp(c) \/ QueryFails(c)
         \/ Crash
         \/ UNCHANGED vars
  PROVE  ServedInv'
<1>0. [Next]_vars /\ TypeOK /\ UNCHANGED record
  BY DEF Next, SoundInv, HandlerStep, HandlerGoesOn, SweepStep, CallFails, vars,
         Erase, Shred, ShredFails, Anchor, GiveUp, Scan, SweepHead, SweepRow,
         EndSweep, QueryFails, SweepAborts, Crash
<1>1. /\ pc \in [Callers -> LivePCs \cup SweepPCs] /\ doc \in [Callers -> Proof]
      /\ Subjects \subseteq Callers /\ Reconcilers \subseteq Callers
  BY <1>0 DEF TypeOK, Callers
<1>2. ASSUME NEW c \in Callers, Done(c, "proof_pending") PROVE ServedInv'
  BY <1>0, <1>1, <1>2, DoneServes, ServedKept DEF Answered
<1>3. ASSUME NEW c \in Callers,
             NEW l \in {"shred", "head", "waiting", "proof_pending", "idle", "sweep"},
             pc' = [pc EXCEPT ![c] = l],
             \A d \in Callers \ {c} : doc'[d] = doc[d]
      PROVE  ServedInv'
  BY <1>0, <1>1, <1>3, ServedKept
<1>4. ASSUME NEW s \in Subjects, HandlerStep(s) PROVE ServedInv'
  BY <1>1, <1>2, <1>3, <1>4
     DEF HandlerStep, HandlerGoesOn, Erase, Shred, ShredFails, Anchor, Goto, AnchorFailed
<1>5. ASSUME NEW r \in Reconcilers, SweepStep(r) \/ SweepAborts(r) PROVE ServedInv'
  BY <1>1, <1>3, <1>5
     DEF SweepStep, Scan, SweepHead, SweepRow, EndSweep, SweepAborts, Goto
<1>6. ASSUME NEW c \in Callers, GiveUp(c) \/ QueryFails(c) PROVE ServedInv'
  BY <1>1, <1>2, <1>3, <1>6 DEF GiveUp, QueryFails, AnchorFailed, Goto
<1>7. CASE Crash
  <2>1. \A r \in Sweepers : pc'[r] = pc[r] /\ doc'[r] = doc[r]
    BY <1>7, AnchoringAssumption DEF Crash, Callers, Reconcilers
  <2>2. pc'[Boot] = "scan"
    BY <1>7, AnchoringAssumption DEF Crash, Callers, Reconcilers
  <2>3. ASSUME NEW s \in Subjects
        PROVE  /\ pc'[s] # "record"
               /\ pc'[s] = "proof_ref" => pc[s] = "proof_ref"
    <3>1. s \in Callers /\ s # Boot /\ s \notin Sweepers
      BY <1>1, AnchoringAssumption DEF Reconcilers
    <3>2. pc'[s] = IF pc[s] \in {"none"} \cup Answered THEN pc[s] ELSE "crashed"
      BY <1>7, <3>1 DEF Crash
    <3>. QED
      BY <3>2 DEF Answered
  <2>4. \A c \in Callers : pc'[c] = "record" => pc[c] = "record" /\ doc'[c] = doc[c]
    BY <2>1, <2>2, <2>3 DEF Callers, Reconcilers
  <2>. QED
    BY <1>0, <2>3, <2>4, ServedKept
<1>8. CASE UNCHANGED vars
  BY <1>0, <1>8, ServedKept DEF vars
<1>. QED
  BY <1>4, <1>5, <1>6, <1>7, <1>8

(* What a row serves was put under Object Lock before, by whoever recorded  *)
(* it; and the client of an answer with a proof_ref finds a proof.          *)
THEOREM ServingCorrect == Spec => []RecordedIsAnchored
<1>1. ServedInv => RecordedIsAnchored
  BY DEF ServedInv
<1>2. Init => ServedInv
  <2>1. Init => \A c \in Callers : pc[c] \notin {"record", "proof_ref"}
    BY DEF Init
  <2>. QED
    BY <2>1 DEF Init, ServedInv, RecordedIsAnchored, Callers
<1>3. SoundInv /\ ServedInv /\ [Next]_vars => SoundInv' /\ ServedInv'
  BY NextSound, RecordServes, CryptodServes, OtherServes DEF Next, CallFails
<1>. QED
  BY <1>1, <1>2, <1>3, InitSound, PTL DEF Spec
=============================================================================
