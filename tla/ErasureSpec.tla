---------------------------- MODULE ErasureSpec ----------------------------
(***************************************************************************)
(* What the erasure service promises, with no tables, no transactions and  *)
(* no retries: a subject is provisioned at most once, and erasing it       *)
(* destroys its key and its searchable vector and appends it to the        *)
(* retained ledger in one indivisible step.  Module Erasure implements it. *)
(***************************************************************************)
EXTENDS Sequences

CONSTANT Subjects

VARIABLES keyed,       \* subjects whose wrapped key exists
          searchable,  \* subjects with a plaintext vector the search can return
          ledger       \* the erased subjects, in the order of their erasure

specVars == <<keyed, searchable, ledger>>

ErasedSubjects == {ledger[i] : i \in DOMAIN ledger}

SpecInit == /\ keyed = {}
            /\ searchable = {}
            /\ ledger = <<>>

(* A subject is given a key and a memory, once, and never after an erasure. *)
Provision(s) ==
    /\ s \notin keyed \cup ErasedSubjects
    /\ keyed' = keyed \cup {s}
    /\ searchable' = searchable \cup {s}
    /\ UNCHANGED ledger

(* Destroy and retain are one step: there is no state between them. *)
DestroyAndRetain(s) ==
    /\ s \in keyed
    /\ keyed' = keyed \ {s}
    /\ searchable' = searchable \ {s}
    /\ ledger' = Append(ledger, s)

SpecNext == \E s \in Subjects : Provision(s) \/ DestroyAndRetain(s)

AbstractSpec == SpecInit /\ [][SpecNext]_specVars
=============================================================================
