-------------------------- MODULE ProofPageProofs ---------------------------
(***************************************************************************)
(* Theorems about ProofPage: what the verifier page shows is about the     *)
(* subject of its URL, and what the phone shows under a recognized signer  *)
(* was signed by it, for any number of subjects, checks and faults.        *)
(***************************************************************************)
EXTENDS ProofPage, MerkleProofs

Gs          == 1..MaxChecks
CheckFields == {"subject", "waits", "proof", "included", "head"}
PaperFields == {"proof_body", "proof_signature", "signer_pubkey_pem"}
Kinds == {"idle", "loading", "notfound", "error", "pending", "malformed", "failed",
          "mismatch", "verified"}

\* The checks of a page, in any of its states.
PageInv ==
    /\ route \in SubjectId \union {None}
    /\ generation \in Nat
    /\ route # None => generation \in Gs
    /\ generation <= MaxChecks + 1
    /\ DOMAIN checks = Gs
    /\ \A g \in Gs : checks[g] # None =>
          /\ DOMAIN checks[g] = CheckFields
          /\ g <= generation
          /\ checks[g].subject \in SubjectId
          /\ checks[g].waits \in Waits
    /\ status.kind \in Kinds

\* A proof whose signature holds.
Genuine(p) == /\ p.proof_signature # Undecodable
              /\ p.proof_signature = Signature(p.proof_body, p.signer_pubkey_pem)

\* The proof a step of check c goes on with, or shows as verified: the one
\* stored, found genuine and of its subject, or the one it had.
Learnt(c, p) == IF c.waits = "proof"
                THEN /\ record[c.subject.subject] # None
                     /\ p = record[c.subject.subject].proof /\ p # None
                     /\ Genuine(p) /\ p.proof_body.subject_hash = c.subject
                ELSE p = c.proof

Continues(c, d) == /\ DOMAIN d = CheckFields
                   /\ d.subject = c.subject
                   /\ d.waits \in Waits \ {"proof"}
                   /\ Learnt(c, d.proof)

Shows(c, s) == \/ s.kind \in {"notfound", "error", "malformed", "failed"}
               \/ s.kind = "pending" /\ s.subject = c.subject.subject
               \/ s.kind = "mismatch" /\ s.want = c.subject
               \/ s.kind = "verified" /\ Learnt(c, s.document)

----------------------------------------------------------------------------
\* What the page does with an answer.

LEMMA AnswerToProof ==
    ASSUME NEW c, c.waits = "proof"
    PROVE  Answer(c) = GetProof(c.subject.subject)
  BY DEF Answer

LEMMA AsksContinues ==
    ASSUME NEW g \in Gs, NEW c, NEW d, NEW r \in Waits \ {"proof"},
           DOMAIN d = CheckFields, d.subject = c.subject, Learnt(c, d.proof), Asks(g, d, r)
    PROVE  \E x : /\ checks' = [checks EXCEPT ![g] = x]
                  /\ Continues(c, x)
<1> DEFINE x == [d EXCEPT !.waits = r]
<1>1. checks' = [checks EXCEPT ![g] = x]
  BY DEF Asks
<1>2. /\ DOMAIN x = CheckFields
      /\ x.subject = d.subject /\ x.proof = d.proof /\ x.waits = r
  BY DEF CheckFields
<1>3. Continues(c, x)
  BY <1>2 DEF Continues
<1> QED
  BY <1>1, <1>3

LEMMA Responds ==
    ASSUME PageInv, NEW g \in Gs, Respond(g)
    PROVE  /\ checks[g] # None
           /\ \E x : /\ checks' = [checks EXCEPT ![g] = x]
                     /\ x = None \/ Continues(checks[g], x)
           /\ status' = status \/ (generation = g /\ Shows(checks[g], status'))
<1> DEFINE c == checks[g]
<1>1. PICK a \in Answers(g) : \/ HandleProof(g, a)
                              \/ TransparencyFails(g, a)
                              \/ HandleInclusion(g, a)
                              \/ HandleHead(g, a)
                              \/ HandleConsistency(g, a)
  BY DEF Respond
<1>2. c # None /\ a \in {Answer(c), Failed}
  BY DEF Answers
<1>3. DOMAIN c = CheckFields /\ c.waits \in Waits
  BY <1>2 DEF PageInv
<1>4. CASE HandleProof(g, a)
  <2> DEFINE view  == a.value
             known == [c EXCEPT !.proof = view.document]
  <2>1. c.waits = "proof"
    BY <1>4 DEF HandleProof
  <2>2. ASSUME NEW s, Put(g, s), Shows(c, s)
        PROVE  status' = status \/ (generation = g /\ Shows(c, status'))
    BY <2>2 DEF Put
  <2>3. CASE a = Missing /\ Put(g, [kind |-> "notfound"]) /\ Ends(g)
    BY <1>2, <2>2, <2>3 DEF Ends, Shows
  <2>4. CASE a = Failed /\ Put(g, [kind |-> "error"]) /\ Ends(g)
    BY <1>2, <2>2, <2>4 DEF Ends, Shows
  <2>5. CASE a.kind = "ok"
    <3>1. a = GetProof(c.subject.subject)
      BY <1>2, <2>1, <2>5, AnswerToProof DEF Failed
    <3>2. /\ record[c.subject.subject] # None
          /\ view.subject = c.subject.subject
          /\ view.document = record[c.subject.subject].proof
      BY <2>5, <3>1 DEF GetProof, Ok, Missing
    <3>3. CASE Refusal(c, view) # NotRefused /\ Put(g, Refusal(c, view)) /\ Ends(g)
      <4>1. Shows(c, Refusal(c, view))
        BY <3>2, <3>3 DEF Refusal, NotRefused, Shows
      <4> QED
        BY <1>2, <2>2, <3>3, <4>1 DEF Ends
    <3>4. CASE /\ Refusal(c, view) = NotRefused
               /\ IF known.proof.proof_body.tree = <<>>
                  THEN Put(g, Verified(known, NoTransparency("unavailable"))) /\ Ends(g)
                  ELSE /\ Put(g, Verified(known, NoTransparency("checking")))
                       /\ Asks(g, known, "inclusion")
      <4>1. /\ view.document # None /\ Genuine(view.document)
            /\ view.document.proof_body.subject_hash = c.subject
        BY <3>4 DEF Refusal, NotRefused, Genuine
      <4>2. Learnt(c, view.document)
        BY <2>1, <3>2, <4>1 DEF Learnt
      <4>3. DOMAIN known = CheckFields /\ known.subject = c.subject /\ known.proof = view.document
        BY <1>3 DEF CheckFields
      <4> HIDE DEF known
      <4>4. ASSUME NEW state
            PROVE  Shows(c, Verified(known, NoTransparency(state)))
        BY <4>2, <4>3 DEF Verified, Shows
      <4>5. CASE Ends(g)
        BY <1>2, <2>2, <3>4, <4>4, <4>5 DEF Ends
      <4>6. CASE Asks(g, known, "inclusion")
        <5>1. \E x : checks' = [checks EXCEPT ![g] = x] /\ Continues(c, x)
          BY <4>2, <4>3, <4>6, AsksContinues DEF Waits
        <5> QED
          BY <1>2, <2>2, <3>4, <4>4, <5>1
      <4> QED
        BY <3>4, <4>5, <4>6
    <3> QED
      BY <1>4, <2>5, <3>3, <3>4 DEF HandleProof, Missing, Failed
  <2> QED
    BY <1>4, <2>3, <2>4, <2>5 DEF HandleProof
<1>5. ASSUME c.waits # "proof", NEW t, Put(g, Verified(c, t))
      PROVE  status' = status \/ (generation = g /\ Shows(c, status'))
  BY <1>5 DEF Put, Verified, Shows, Learnt
<1>6. CASE TransparencyFails(g, a)
  <2>1. /\ c.waits # "proof" /\ Ends(g)
        /\ Put(g, Verified(c, [state |-> "error", lost |-> a = Failed]))
    BY <1>6 DEF TransparencyFails
  <2> QED
    BY <1>2, <1>5, <2>1 DEF Ends
<1>7. CASE HandleInclusion(g, a)
  <2> DEFINE included == VerifyInclusion(Hash(c.proof.proof_body.decision_log_head),
                             a.value.leaf_index, Len(c.proof.proof_body.tree),
                             a.value.audit_path, Root(c.proof.proof_body.tree))
             d == [c EXCEPT !.included = included]
  <2>1. c.waits = "inclusion" /\ Asks(g, d, "head") /\ status' = status
    BY <1>7 DEF HandleInclusion
  <2> HIDE DEF included
  <2>2. DOMAIN d = CheckFields /\ d.subject = c.subject /\ d.proof = c.proof
    BY <1>3 DEF CheckFields
  <2>3. Learnt(c, d.proof)
    BY <2>1, <2>2 DEF Learnt
  <2>4. \E x : checks' = [checks EXCEPT ![g] = x] /\ Continues(c, x)
    BY <2>1, <2>2, <2>3, AsksContinues DEF Waits
  <2> QED
    BY <1>2, <2>1, <2>4
<1>8. CASE HandleHead(g, a)
  <2> DEFINE d == [c EXCEPT !.head = a.value]
  <2>1. c.waits = "head"
    BY <1>8 DEF HandleHead
  <2>2. CASE Asks(g, d, "consistency") /\ status' = status
    <3>1. DOMAIN d = CheckFields /\ d.subject = c.subject /\ d.proof = c.proof
      BY <1>3 DEF CheckFields
    <3>2. Learnt(c, d.proof)
      BY <2>1, <3>1 DEF Learnt
    <3>3. \E x : checks' = [checks EXCEPT ![g] = x] /\ Continues(c, x)
      BY <2>2, <3>1, <3>2, AsksContinues DEF Waits
    <3> QED
      BY <1>2, <2>2, <3>3
  <2>3. CASE \E t : Put(g, Verified(c, t)) /\ Ends(g)
    BY <1>2, <1>5, <2>1, <2>3 DEF Ends
  <2> QED
    BY <1>8, <2>2, <2>3 DEF HandleHead, Done
<1>9. CASE HandleConsistency(g, a)
  <2>1. c.waits = "consistency" /\ (\E t : Put(g, Verified(c, t))) /\ Ends(g)
    BY <1>9 DEF HandleConsistency, Done
  <2> QED
    BY <1>2, <1>5, <2>1 DEF Ends
<1> QED
  BY <1>1, <1>4, <1>6, <1>7, <1>8, <1>9

----------------------------------------------------------------------------
\* Types.

TypeInv ==
    /\ PageInv
    /\ log \in Seq(Nat) /\ cuts \in Nat /\ faults \in 0..MaxFaults
    /\ DOMAIN record = Subjects
    /\ DOMAIN phone = {"pasted", "result", "error"}
    /\ phone.error \in BOOLEAN

LEMMA TypeInvImplies == TypeInv => TypeOK
<1>1. MaxChecks \in Nat
  BY ProofPageAssumption
<1> QED
  BY <1>1 DEF TypeInv, PageInv, TypeOK, Gs, Kinds

LEMMA TypeInvInit == Init => TypeInv
<1> SUFFICES ASSUME Init PROVE TypeInv
  OBVIOUS
<1>1. PageInv
  BY ProofPageAssumption DEF Init, PageInv, Gs, Idle, Kinds
<1>2. log \in Seq(Nat) /\ cuts \in Nat /\ faults \in 0..MaxFaults
  BY ProofPageAssumption DEF Init
<1>3. DOMAIN record = Subjects
  BY DEF Init
<1>4. DOMAIN phone = {"pasted", "result", "error"} /\ phone.error \in BOOLEAN
  BY DEF Init, NewPhone
<1> QED
  BY <1>1, <1>2, <1>3, <1>4 DEF TypeInv

LEMMA TypeServer == TypeInv /\ Server => TypeInv'
<1> SUFFICES ASSUME TypeInv, Server PROVE TypeInv'
  OBVIOUS
<1> USE ProofPageAssumption
<1>1. UNCHANGED <<page, phone>>
  BY DEF Server, Grow, Erase, AnchorProof, Damage, CutLog
<1>2. PageInv'
  BY <1>1 DEF TypeInv, PageInv, page
<1>3. phone' = phone
  BY <1>1
<1>4. /\ log' \in Seq(Nat) /\ cuts' \in Nat /\ faults' \in 0..MaxFaults
      /\ DOMAIN record' = Subjects
  <2>1. ASSUME NEW n \in 1..MaxLog, Grow(n)
        PROVE  log' \in Seq(Nat) /\ UNCHANGED <<record, cuts, faults>>
    <3>1. \A i \in 1..n : (IF i <= Len(log) THEN log[i] ELSE Chain(i)) \in Nat
      BY DEF TypeInv, Chain, Gap
    <3> QED
      BY <2>1, <3>1 DEF Grow
  <2>2. ASSUME NEW s \in Subjects, NEW sp \in ErasedAs, Erase(s, sp)
        PROVE  log' \in Seq(Nat) /\ DOMAIN record' = Subjects /\ UNCHANGED <<cuts, faults>>
    <3>1. Len(log) + 1 \in Nat /\ Chain(Len(log) + 1) \in Nat
      BY DEF TypeInv, Chain, Gap
    <3> QED
      BY <2>2, <3>1 DEF Erase, TypeInv
  <2>3. ASSUME NEW s \in Subjects, NEW k \in Signers, AnchorProof(s, k)
        PROVE  DOMAIN record' = Subjects /\ UNCHANGED <<log, cuts, faults>>
    BY <2>3 DEF AnchorProof, TypeInv
  <2>4. ASSUME NEW s \in Subjects, Damage(s)
        PROVE  /\ DOMAIN record' = Subjects /\ faults' \in 0..MaxFaults
               /\ UNCHANGED <<log, cuts>>
    BY <2>4 DEF Damage, TypeInv
  <2>5. ASSUME NEW n \in 0..MaxLog, CutLog(n)
        PROVE  /\ log' \in Seq(Nat) /\ cuts' \in Nat /\ faults' \in 0..MaxFaults
               /\ UNCHANGED record
    BY <2>5, SMTT(30) DEF CutLog, TypeInv
  <2> QED
    BY <2>1, <2>2, <2>3, <2>4, <2>5 DEF Server, TypeInv
<1> QED
  BY <1>2, <1>3, <1>4 DEF TypeInv

LEMMA TypePage == TypeInv /\ Page => TypeInv'
<1> SUFFICES ASSUME TypeInv, Page PROVE TypeInv'
  OBVIOUS
<1> USE ProofPageAssumption
<1>1. UNCHANGED <<server, phone>>
  BY DEF Page, Visit, Leave, Respond, Download
<1>2. ASSUME NEW id \in Pasted, Visit(id)
      PROVE  PageInv'
  <2>1. id \in SubjectId /\ LowerCase(id) \in SubjectId
    BY DEF SubjectId, Spellings, LowerCase
  <2>2. generation \in Nat /\ generation < MaxChecks /\ generation' = generation + 1
    BY <1>2 DEF Visit, TypeInv, PageInv
  <2>3. DOMAIN Check(LowerCase(id)) = CheckFields
    BY DEF Check, CheckFields
  <2>4. /\ Check(LowerCase(id)).subject \in SubjectId
        /\ Check(LowerCase(id)).waits \in Waits
    BY <2>1 DEF Check, Waits
  <2>5. checks' = [checks EXCEPT ![generation + 1] = Check(LowerCase(id))]
    BY <1>2 DEF Visit
  <2>6. \A g \in Gs : checks'[g] # None =>
          /\ DOMAIN checks'[g] = CheckFields
          /\ g <= generation'
          /\ checks'[g].subject \in SubjectId
          /\ checks'[g].waits \in Waits
    BY <2>2, <2>3, <2>4, <2>5 DEF TypeInv, PageInv, Gs
  <2>7. DOMAIN checks' = Gs /\ route' = id /\ status'.kind \in Kinds
    BY <1>2, <2>5 DEF Visit, Kinds, TypeInv, PageInv
  <2> QED
    BY <2>1, <2>2, <2>6, <2>7 DEF PageInv, Gs
<1>3. ASSUME Leave PROVE PageInv'
  <2>1. /\ route # None /\ route' = None /\ checks' = checks
        /\ generation' = generation + 1 /\ status' = Idle
    BY <1>3 DEF Leave
  <2>2. generation \in Nat /\ generation \in Gs
    BY <2>1 DEF TypeInv, PageInv
  <2>3. \A g \in Gs : checks'[g] # None =>
          /\ DOMAIN checks'[g] = CheckFields
          /\ g <= generation'
          /\ checks'[g].subject \in SubjectId
          /\ checks'[g].waits \in Waits
    <3> SUFFICES ASSUME NEW g \in Gs, checks[g] # None
                 PROVE  g <= generation + 1
      BY <2>1 DEF TypeInv, PageInv
    <3>1. g <= generation
      BY DEF TypeInv, PageInv
    <3> QED
      BY <2>2, <3>1 DEF Gs
  <2>4. generation' \in Nat /\ generation' <= MaxChecks + 1
    BY <2>1, <2>2 DEF Gs
  <2>5. DOMAIN checks' = Gs /\ status'.kind \in Kinds
    BY <2>1 DEF TypeInv, PageInv, Idle, Kinds
  <2> QED
    BY <2>1, <2>3, <2>4, <2>5 DEF PageInv
<1>4. ASSUME NEW g \in Gs, Respond(g)
      PROVE  PageInv'
  <2>1. PICK x : /\ checks' = [checks EXCEPT ![g] = x]
                 /\ x = None \/ Continues(checks[g], x)
    BY <1>4, Responds DEF TypeInv
  <2>2. checks[g] # None
    BY <1>4, Responds DEF TypeInv
  <2>3. status'.kind \in Kinds
    BY <1>4, Responds DEF TypeInv, PageInv, Shows, Kinds
  <2>4. UNCHANGED <<route, generation>>
    BY <1>4 DEF Respond
  <2>5. \A h \in Gs : checks'[h] # None =>
          /\ DOMAIN checks'[h] = CheckFields
          /\ h <= generation
          /\ checks'[h].subject \in SubjectId
          /\ checks'[h].waits \in Waits
    BY <2>1, <2>2 DEF TypeInv, PageInv, Continues
  <2> QED
    BY <2>1, <2>3, <2>4, <2>5 DEF TypeInv, PageInv
<1>5. ASSUME Download PROVE PageInv'
  <2>1. /\ route' = None /\ checks' = [g \in Gs |-> None]
        /\ generation' = generation /\ status' = Idle
    BY <1>5 DEF Download, Gs
  <2>2. DOMAIN checks' = Gs /\ \A g \in Gs : checks'[g] = None
    BY <2>1
  <2>3. status'.kind \in Kinds
    BY <2>1 DEF Idle, Kinds
  <2> QED
    BY <2>1, <2>2, <2>3 DEF TypeInv, PageInv
<1>6. PageInv'
  BY <1>2, <1>3, <1>4, <1>5 DEF Page, Gs
<1> QED
  BY <1>1, <1>6 DEF TypeInv, server

LEMMA TypePhone == TypeInv /\ Phone => TypeInv'
<1> SUFFICES ASSUME TypeInv, Phone PROVE TypeInv'
  OBVIOUS
<1>1. UNCHANGED <<server, page>>
  BY DEF Phone
<1>2. PageInv'
  BY <1>1 DEF TypeInv, PageInv, page
<1>3. DOMAIN phone' = {"pasted", "result", "error"} /\ phone'.error \in BOOLEAN
  <2>1. CASE \E f \in Files : Edit(f)
    BY <2>1 DEF Edit, TypeInv
  <2>2. CASE VerifyPasted
    BY <2>2 DEF VerifyPasted, RunVerify, TypeInv
  <2>3. CASE LoadDemo
    BY <2>3 DEF LoadDemo, RunVerify
  <2>4. CASE Clear
    BY <2>4 DEF Clear, NewPhone
  <2> QED
    BY <2>1, <2>2, <2>3, <2>4 DEF Phone
<1> QED
  BY <1>1, <1>2, <1>3 DEF TypeInv, server

LEMMA TypeStutters == TypeInv /\ UNCHANGED vars => TypeInv'
  BY DEF TypeInv, PageInv, vars, server, page

LEMMA TypeInvStep == TypeInv /\ [Next]_vars => TypeInv'
  BY TypeServer, TypePage, TypePhone, TypeStutters DEF Next

\* Every variable keeps its type, and the checks under way are those up to
\* the page's generation: the route effect never reuses a generation.
THEOREM ProofPageTypeCorrect == Spec => []TypeOK
<1>1. Init => TypeInv
  BY TypeInvInit
<1>2. TypeInv /\ [Next]_vars => TypeInv'
  BY TypeInvStep
<1>3. TypeInv => TypeOK
  BY TypeInvImplies
<1> QED
  BY <1>1, <1>2, <1>3, PTL DEF Spec

LEMMA TypesHold == Spec => []TypeInv
<1>1. Init => TypeInv
  BY TypeInvInit
<1>2. TypeInv /\ [Next]_vars => TypeInv'
  BY TypeInvStep
<1> QED
  BY <1>1, <1>2, PTL DEF Spec

----------------------------------------------------------------------------
\* The verdict is of the route.

\* Only the newest check writes, and it is of the route; a check that has its
\* proof has found it to be of its subject.
RouteInv ==
    /\ route = None /\ generation \in Gs => checks[generation] = None
    /\ route # None /\ checks[generation] # None =>
          checks[generation].subject = LowerCase(route)
    /\ \A g \in Gs : checks[g] # None /\ checks[g].waits # "proof" =>
          checks[g].proof.proof_body.subject_hash = checks[g].subject
    /\ VerdictIsOfTheRoute

LEMMA RouteInit == Init => RouteInv
  BY ProofPageAssumption DEF Init, RouteInv, VerdictIsOfTheRoute, Idle, Gs

LEMMA RoutePage == TypeInv /\ RouteInv /\ Page => RouteInv'
<1> SUFFICES ASSUME TypeInv, RouteInv, Page PROVE RouteInv'
  OBVIOUS
<1> USE ProofPageAssumption
<1>1. ASSUME NEW id \in Pasted, Visit(id)
      PROVE  RouteInv'
  <2>1. generation + 1 \in Gs
    BY <1>1 DEF Visit, TypeInv, PageInv, Gs
  <2>2. /\ route' = id /\ generation' = generation + 1 /\ status' = [kind |-> "loading"]
        /\ checks' = [checks EXCEPT ![generation + 1] = Check(LowerCase(id))]
    BY <1>1 DEF Visit
  <2>3. checks'[generation'] = Check(LowerCase(id))
    BY <2>1, <2>2 DEF TypeInv, PageInv
  <2>4. id # None
    <3>1. id \in SubjectId
      BY DEF SubjectId, Spellings
    <3> QED
      BY <3>1, ValuesAssumption
  <2>5. ASSUME NEW g \in Gs, checks'[g] # None, checks'[g].waits # "proof"
        PROVE  checks'[g].proof.proof_body.subject_hash = checks'[g].subject
    <3>1. g # generation + 1
      BY <2>2, <2>3, <2>5 DEF Check
    <3> QED
      BY <2>2, <2>5, <3>1 DEF RouteInv, TypeInv, PageInv
  <2>6. VerdictIsOfTheRoute'
    BY <2>2, <2>4 DEF VerdictIsOfTheRoute
  <2>7. Check(LowerCase(id)).subject = LowerCase(id)
    BY DEF Check
  <2> QED
    BY <2>2, <2>3, <2>4, <2>5, <2>6, <2>7 DEF RouteInv
<1>2. ASSUME Leave
      PROVE  RouteInv'
  <2>1. /\ route' = None /\ checks' = checks /\ generation' = generation + 1 /\ status' = Idle
    BY <1>2 DEF Leave
  <2>2. generation' \in Gs => checks[generation'] = None
    BY <2>1 DEF TypeInv, PageInv, Gs
  <2>3. VerdictIsOfTheRoute'
    BY <2>1 DEF VerdictIsOfTheRoute, Idle
  <2> QED
    BY <2>1, <2>2, <2>3 DEF RouteInv
<1>3. ASSUME NEW g \in Gs, Respond(g)
      PROVE  RouteInv'
  <2>1. PICK x : /\ checks' = [checks EXCEPT ![g] = x]
                 /\ x = None \/ Continues(checks[g], x)
    BY <1>3, Responds DEF TypeInv
  <2>2. checks[g] # None /\ UNCHANGED <<route, generation>>
    BY <1>3, Responds DEF TypeInv, Respond
  <2>3. ASSUME NEW p, Learnt(checks[g], p)
        PROVE  p.proof_body.subject_hash = checks[g].subject
    BY <2>2, <2>3 DEF Learnt, RouteInv
  <2>4. checks'[g] = x /\ \A h \in Gs \ {g} : checks'[h] = checks[h]
    BY <2>1 DEF TypeInv, PageInv
  <2>5. x = None \/ (x.subject = checks[g].subject
                     /\ x.proof.proof_body.subject_hash = x.subject)
    BY <2>1, <2>3 DEF Continues
  <2>6. \A h \in Gs : checks'[h] # None /\ checks'[h].waits # "proof" =>
          checks'[h].proof.proof_body.subject_hash = checks'[h].subject
    BY <2>4, <2>5 DEF RouteInv
  <2>7. route = None /\ generation \in Gs => checks'[generation] = None
    BY <2>2, <2>4 DEF RouteInv
  <2>8. route # None /\ checks'[generation] # None =>
          checks'[generation].subject = LowerCase(route)
    BY <2>2, <2>4, <2>5 DEF RouteInv, TypeInv, PageInv
  <2>9. VerdictIsOfTheRoute'
    <3>1. CASE status' = status
      BY <2>2, <3>1 DEF VerdictIsOfTheRoute, RouteInv
    <3>2. CASE generation = g /\ Shows(checks[g], status')
      <4>1. route # None /\ checks[g].subject = LowerCase(route)
        BY <2>2, <3>2 DEF RouteInv
      <4>2. route \in SubjectId
        BY <4>1 DEF TypeInv, PageInv
      <4>3. LowerCase(route).subject = route.subject
        BY <4>2 DEF LowerCase, SubjectId
      <4>4. status'.kind = "verified" =>
              status'.document.proof_body.subject_hash = checks[g].subject
        BY <2>3, <3>2 DEF Shows
      <4> QED
        BY <2>2, <3>2, <4>1, <4>3, <4>4 DEF VerdictIsOfTheRoute, Shows
    <3> QED
      BY <1>3, <3>1, <3>2, Responds DEF TypeInv
  <2> QED
    BY <2>2, <2>6, <2>7, <2>8, <2>9 DEF RouteInv
<1>4. ASSUME Download
      PROVE  RouteInv'
  <2>1. /\ route' = None /\ checks' = [g \in Gs |-> None]
        /\ generation' = generation /\ status' = Idle
    BY <1>4 DEF Download, Gs
  <2>2. VerdictIsOfTheRoute'
    BY <2>1 DEF VerdictIsOfTheRoute, Idle
  <2> QED
    BY <2>1, <2>2 DEF RouteInv
<1> QED
  BY <1>1, <1>2, <1>3, <1>4 DEF Page, Gs

LEMMA RouteStep == TypeInv /\ RouteInv /\ [Next]_vars => RouteInv'
<1> SUFFICES ASSUME TypeInv, RouteInv, [Next]_vars, UNCHANGED page PROVE RouteInv'
  <2>1. (Server \/ Phone \/ UNCHANGED vars) => UNCHANGED page
    BY DEF Server, Grow, Erase, AnchorProof, Damage, CutLog, Phone, vars
  <2> QED
    BY <2>1, RoutePage DEF Next
<1> QED
  BY DEF RouteInv, VerdictIsOfTheRoute, page

\* What the page shows is about the subject of its URL, whatever answers of
\* earlier checks (ProofVerifier.tsx) arrive, and in whatever order.
THEOREM VerdictCorrect == Spec => []VerdictIsOfTheRoute
<1>1. Init => RouteInv
  BY RouteInit
<1>2. TypeInv /\ RouteInv /\ [Next]_vars => RouteInv'
  BY RouteStep
<1>3. RouteInv => VerdictIsOfTheRoute
  BY DEF RouteInv
<1> QED
  BY <1>1, <1>2, <1>3, TypesHold, PTL DEF Spec

----------------------------------------------------------------------------
\* Signatures.

\* A signature made names its body and the key, which the body names too.
Made(o) == /\ o = Signature(o.over, o.by)
           /\ o.over.signer_public_key = o.by
           /\ None \notin {o.over, o.by}

\* A signed, or at worst undecodable, file.
PaperOk(p, made) == /\ DOMAIN p = PaperFields
                    /\ p.proof_signature \in made \union {Undecodable}
FileOk(f) == f.signature \in signed \union {Undecodable}

\* A certificate downloaded: its signature was made, and holds.
CertOk(c, made) ==
    /\ DOMAIN c = {"proof_canonical", "signature", "signer_public_key_pem"}
    /\ c.signature \in made
    /\ c.signature = Signature(c.proof_canonical, c.signer_public_key_pem)

RecordOk(r, made) == /\ DOMAIN r = {"id", "seq", "head", "proof"}
                     /\ r.id \in SubjectId /\ r.seq \in Nat /\ r.head \in Nat
                     /\ r.proof # None => PaperOk(r.proof, made)

SignedInv ==
    /\ \A o \in signed : Made(o)
    /\ \A p \in Elsewhere : p.proof_signature \in signed
    /\ \A s \in Subjects : record[s] # None => RecordOk(record[s], signed)
    /\ \A g \in Gs : checks[g] # None /\ checks[g].waits # "proof" =>
          checks[g].proof.proof_signature \in signed /\ Genuine(checks[g].proof)
    /\ status.kind = "verified" =>
          status.document.proof_signature \in signed /\ Genuine(status.document)
    /\ cert # None => CertOk(cert, signed)

PhoneInv ==
    /\ phone.pasted \notin {None, NotJson} => FileOk(phone.pasted)
    /\ phone.result.kind \in {"none", "malformed", "invalid", "verified"}
    /\ phone.result.kind = "verified" /\ phone.result.signerTrusted =>
          \E k \in Known : Signature(phone.result.facts, k) \in signed

LEMMA SigningMakes ==
    ASSUME NEW id \in SubjectId, NEW seq \in Nat, NEW head \in Nat, NEW tree \in Seq(Nat),
           NEW k \in Signers
    PROVE  Made(Signature(Body(id, seq, head, tree, k), k))
<1>1. Body(id, seq, head, tree, k) # None
  BY ValuesAssumption DEF Body
<1>2. k # None
  BY ProofPageAssumption
<1> QED
  BY <1>1, <1>2 DEF Made, Signature, Body

LEMMA ElsewhereMade == \A p \in Elsewhere : Made(p.proof_signature)
<1> SUFFICES ASSUME NEW p \in Elsewhere PROVE Made(p.proof_signature)
  OBVIOUS
<1>1. p = Proof(p.proof_body, p.signer_pubkey_pem)
  BY ValuesAssumption
<1>2. p.proof_signature = Signature(p.proof_body, p.signer_pubkey_pem)
  BY <1>1 DEF Proof
<1> QED
  BY <1>2, ValuesAssumption DEF Made, Signature

LEMMA UndecodableNotMade == ~Made(Undecodable)
  BY DEF Made, Undecodable, Signature

LEMMA SignedInit == Init => SignedInv
<1> SUFFICES ASSUME Init PROVE SignedInv
  OBVIOUS
<1> DEFINE Id(s)      == [subject |-> s, spelling |-> "lower"]
           Old(s, k)  == Body(Id(s), 1, 1, <<>>, k)
           Row(s, k)  == [id |-> Id(s), seq |-> 1, head |-> 1, proof |-> Proof(Old(s, k), k)]
           Others     == {p.proof_signature : p \in Elsewhere}
<1>1. /\ \A g \in Gs : checks[g] = None
      /\ status.kind # "verified" /\ cert = None
  BY DEF Init, Gs, Idle
<1>2. \/ record = [s \in Subjects |-> None] /\ signed = Others
      \/ \E s \in Subjects, k \in Signers :
            /\ record = [t \in Subjects |-> IF t = s THEN Row(s, k) ELSE None]
            /\ signed = Others \union {Signature(Old(s, k), k)}
  BY DEF Init
<1>3. ASSUME NEW s \in Subjects, NEW k \in Signers
      PROVE  /\ Made(Signature(Old(s, k), k))
             /\ Signature(Old(s, k), k) \in signed => RecordOk(Row(s, k), signed)
  <2>1. Id(s) \in SubjectId /\ <<>> \in Seq(Nat)
    BY DEF SubjectId, Spellings
  <2>2. Made(Signature(Old(s, k), k))
    BY <2>1, SigningMakes
  <2>3. Signature(Old(s, k), k) \in signed => PaperOk(Proof(Old(s, k), k), signed)
    BY DEF PaperOk, Proof, PaperFields
  <2>4. /\ DOMAIN Row(s, k) = {"id", "seq", "head", "proof"}
        /\ Row(s, k).id = Id(s) /\ Row(s, k).seq = 1 /\ Row(s, k).head = 1
        /\ Row(s, k).proof = Proof(Old(s, k), k)
    OBVIOUS
  <2> QED
    BY <2>1, <2>2, <2>3, <2>4 DEF RecordOk
<1> HIDE DEF Old, Row
<1>4. /\ \A o \in signed : Made(o)
      /\ \A p \in Elsewhere : p.proof_signature \in signed
      /\ \A s \in Subjects : record[s] # None => RecordOk(record[s], signed)
  BY <1>2, <1>3, ElsewhereMade
<1> QED
  BY <1>1, <1>4 DEF SignedInv

\* A step that only adds signatures, and keeps the rest, keeps what is signed.
LEMMA MoreIsSigned ==
    ASSUME SignedInv, signed \subseteq signed', \A o \in signed' : Made(o),
           \A s \in Subjects : record'[s] # None => RecordOk(record'[s], signed'),
           UNCHANGED <<page, cert>>
    PROVE  SignedInv'
<1>1. \A p \in Elsewhere : p.proof_signature \in signed'
  BY DEF SignedInv
<1>2. \A g \in Gs : checks'[g] # None /\ checks'[g].waits # "proof" =>
          checks'[g].proof.proof_signature \in signed' /\ Genuine(checks'[g].proof)
  BY DEF SignedInv, page
<1>3. status'.kind = "verified" =>
          status'.document.proof_signature \in signed' /\ Genuine(status'.document)
  BY DEF SignedInv, page
<1>4. cert' # None => CertOk(cert', signed')
  BY DEF SignedInv, CertOk
<1> QED
  BY <1>1, <1>2, <1>3, <1>4 DEF SignedInv, Genuine

LEMMA SignedServer == TypeInv /\ SignedInv /\ Server => SignedInv'
<1> SUFFICES ASSUME TypeInv, SignedInv, Server PROVE SignedInv'
  OBVIOUS
<1> USE ProofPageAssumption
<1>1. UNCHANGED <<page, cert>>
  BY DEF Server, Grow, Erase, AnchorProof, Damage, CutLog
<1>2. ASSUME record' = record, signed' = signed
      PROVE  SignedInv'
  BY <1>1, <1>2 DEF SignedInv, page, RecordOk, PaperOk, CertOk
<1>3. ASSUME NEW s \in Subjects, NEW r, record' = [record EXCEPT ![s] = r],
             signed \subseteq signed', \A o \in signed' : Made(o),
             RecordOk(r, signed')
      PROVE  SignedInv'
  <2>1. \A t \in Subjects : record[t] # None => RecordOk(record[t], signed)
    BY DEF SignedInv
  <2>2. ASSUME NEW t \in Subjects, record'[t] # None
        PROVE  RecordOk(record'[t], signed')
    <3>1. CASE t = s
      BY <1>3, <3>1 DEF TypeInv, RecordOk, PaperOk
    <3>2. CASE t # s
      BY <1>3, <2>1, <2>2, <3>2 DEF TypeInv, RecordOk, PaperOk
    <3> QED
      BY <3>1, <3>2
  <2> QED
    BY <1>1, <1>3, <2>2, MoreIsSigned
<1>4. ASSUME NEW s \in Subjects, NEW sp \in ErasedAs, Erase(s, sp)
      PROVE  SignedInv'
  <2> DEFINE r == [id |-> [subject |-> s, spelling |-> sp], seq |-> Len(log) + 1,
                   head |-> Chain(Len(log) + 1), proof |-> None]
  <2>1. record' = [record EXCEPT ![s] = r] /\ signed' = signed
    BY <1>4 DEF Erase
  <2>2. Len(log) + 1 \in Nat /\ Chain(Len(log) + 1) \in Nat
    BY DEF TypeInv, Chain, Gap
  <2>3. [subject |-> s, spelling |-> sp] \in SubjectId
    BY DEF SubjectId, Spellings
  <2>4. RecordOk(r, signed')
    BY <2>2, <2>3 DEF RecordOk
  <2> HIDE DEF r
  <2> QED
    BY <1>3, <2>1, <2>4 DEF SignedInv
<1>5. ASSUME NEW s \in Subjects, NEW k \in Signers, AnchorProof(s, k)
      PROVE  SignedInv'
  <2> DEFINE r    == record[s]
             body == Body(r.id, r.seq, r.head, log, k)
             d    == [r EXCEPT !.proof = Proof(body, k)]
  <2>1. /\ r # None /\ record' = [record EXCEPT ![s] = d]
        /\ signed' = signed \union {Signature(body, k)}
    BY <1>5 DEF AnchorProof
  <2>2. RecordOk(r, signed)
    BY <2>1 DEF SignedInv
  <2>3. Made(Signature(body, k))
    BY <2>2, SigningMakes DEF RecordOk, TypeInv
  <2>4. PaperOk(Proof(body, k), signed')
    BY <2>1 DEF PaperOk, Proof, PaperFields
  <2> HIDE DEF body
  <2>5. RecordOk(d, signed')
    BY <2>2, <2>4 DEF RecordOk
  <2>6. signed \subseteq signed' /\ \A o \in signed' : Made(o)
    BY <2>1, <2>3 DEF SignedInv
  <2> HIDE DEF d
  <2> QED
    BY <1>3, <2>1, <2>5, <2>6
<1>6. ASSUME NEW s \in Subjects, Damage(s)
      PROVE  SignedInv'
  <2> DEFINE r == record[s]
  <2>1. PICK p \in DamagedProofs(s) : record' = [record EXCEPT ![s].proof = p]
    BY <1>6 DEF Damage
  <2>2. /\ r # None /\ r.proof # None /\ signed' = signed
    BY <1>6 DEF Damage
  <2>3. RecordOk(r, signed) /\ PaperOk(r.proof, signed)
    BY <2>2 DEF SignedInv, RecordOk
  <2>4. PaperOk(p, signed)
    <3>1. CASE p = [r.proof EXCEPT !.proof_body.decision_log_seq = @ + 1]
      BY <2>3, <3>1 DEF PaperOk, PaperFields
    <3>2. CASE p = [r.proof EXCEPT !.proof_signature = Undecodable]
      BY <2>3, <3>2 DEF PaperOk, PaperFields
    <3>3. ASSUME NEW o \in signed, p = Proof(o.over, o.by)
          PROVE  PaperOk(p, signed)
      <4>1. Signature(o.over, o.by) = o
        BY DEF SignedInv, Made
      <4> QED
        BY <3>3, <4>1 DEF PaperOk, Proof, PaperFields
    <3> QED
      BY <2>1, <3>1, <3>2, <3>3 DEF DamagedProofs
  <2>5. record' = [record EXCEPT ![s] = [r EXCEPT !.proof = p]]
    BY <2>1
  <2>6. RecordOk([r EXCEPT !.proof = p], signed')
    BY <2>2, <2>3, <2>4 DEF RecordOk, PaperOk
  <2> QED
    BY <1>3, <2>2, <2>5, <2>6 DEF SignedInv
<1> QED
  BY <1>2, <1>4, <1>5, <1>6 DEF Server, Grow, CutLog

LEMMA SignedPage == TypeInv /\ SignedInv /\ Page => SignedInv'
<1> SUFFICES ASSUME TypeInv, SignedInv, Page PROVE SignedInv'
  OBVIOUS
<1> USE ProofPageAssumption
<1>1. UNCHANGED server
  BY DEF Page, Visit, Leave, Respond, Download
<1>2. ASSUME \A g \in Gs : checks'[g] # None /\ checks'[g].waits # "proof" =>
                 checks'[g].proof.proof_signature \in signed /\ Genuine(checks'[g].proof),
             status'.kind = "verified" =>
                 status'.document.proof_signature \in signed /\ Genuine(status'.document),
             cert' # None => CertOk(cert', signed)
      PROVE  SignedInv'
  BY <1>1, <1>2 DEF SignedInv, RecordOk, PaperOk, CertOk, Genuine, server
<1>3. ASSUME NEW id \in Pasted, Visit(id)
      PROVE  SignedInv'
  <2>1. /\ checks' = [checks EXCEPT ![generation + 1] = Check(LowerCase(id))]
        /\ status' = [kind |-> "loading"] /\ cert' = cert
    BY <1>3 DEF Visit
  <2>2. Check(LowerCase(id)).waits = "proof"
    BY DEF Check
  <2> QED
    BY <1>2, <2>1, <2>2 DEF SignedInv, TypeInv, PageInv
<1>4. ASSUME Leave
      PROVE  SignedInv'
  BY <1>2, <1>4 DEF Leave, Idle, SignedInv
<1>5. ASSUME NEW g \in Gs, Respond(g)
      PROVE  SignedInv'
  <2> DEFINE c == checks[g]
  <2>1. /\ c # None
        /\ \E x : /\ checks' = [checks EXCEPT ![g] = x]
                  /\ x = None \/ Continues(c, x)
        /\ status' = status \/ (generation = g /\ Shows(c, status'))
    BY <1>5, Responds DEF TypeInv
  <2>2. ASSUME NEW p, Learnt(c, p)
        PROVE  p.proof_signature \in signed /\ Genuine(p)
    <3>1. CASE c.waits # "proof"
      BY <2>1, <2>2, <3>1 DEF Learnt, SignedInv
    <3>2. CASE c.waits = "proof"
      <4>1. /\ record[c.subject.subject] # None
            /\ p = record[c.subject.subject].proof /\ p # None /\ Genuine(p)
        BY <2>2, <3>2 DEF Learnt
      <4>2. c.subject.subject \in Subjects
        BY <2>1 DEF TypeInv, PageInv, SubjectId
      <4>3. PaperOk(p, signed)
        BY <4>1, <4>2 DEF SignedInv, RecordOk
      <4> QED
        BY <4>1, <4>3 DEF PaperOk, Genuine
    <3> QED
      BY <3>1, <3>2
  <2>3. \A h \in Gs : checks'[h] # None /\ checks'[h].waits # "proof" =>
            checks'[h].proof.proof_signature \in signed /\ Genuine(checks'[h].proof)
    <3>1. PICK x : /\ checks' = [checks EXCEPT ![g] = x]
                   /\ x = None \/ Continues(c, x)
      BY <2>1
    <3>2. x # None => x.proof.proof_signature \in signed /\ Genuine(x.proof)
      BY <2>2, <3>1 DEF Continues
    <3>3. checks'[g] = x /\ \A h \in Gs \ {g} : checks'[h] = checks[h]
      BY <3>1 DEF TypeInv, PageInv
    <3> QED
      BY <3>2, <3>3 DEF SignedInv
  <2>4. status'.kind = "verified" =>
            status'.document.proof_signature \in signed /\ Genuine(status'.document)
    BY <2>1, <2>2 DEF Shows, SignedInv
  <2>5. cert' = cert
    BY <1>5 DEF Respond
  <2> QED
    BY <1>2, <2>3, <2>4, <2>5 DEF SignedInv
<1>6. ASSUME Download
      PROVE  SignedInv'
  <2>1. /\ status.kind = "verified" /\ cert' = Certificate(status.document)
        /\ checks' = [g \in Gs |-> None] /\ status' = Idle
    BY <1>6 DEF Download, Gs
  <2>2. CertOk(cert', signed)
    BY <2>1 DEF SignedInv, CertOk, Certificate, Genuine
  <2> QED
    BY <1>2, <2>1, <2>2 DEF Idle
<1> QED
  BY <1>3, <1>4, <1>5, <1>6 DEF Page, Gs

LEMMA SignedStep == TypeInv /\ SignedInv /\ [Next]_vars => SignedInv'
<1> SUFFICES ASSUME TypeInv, SignedInv, [Next]_vars, UNCHANGED <<server, page, cert>>
             PROVE  SignedInv'
  <2>1. (Phone \/ UNCHANGED vars) => UNCHANGED <<server, page, cert>>
    BY DEF Phone, vars
  <2> QED
    BY <2>1, SignedServer, SignedPage DEF Next
<1> QED
  BY DEF SignedInv, server, page, RecordOk, PaperOk, CertOk, Genuine

LEMMA SignaturesHold == Spec => []SignedInv
<1>1. Init => SignedInv
  BY SignedInit
<1>2. TypeInv /\ SignedInv /\ [Next]_vars => SignedInv'
  BY SignedStep
<1> QED
  BY <1>1, <1>2, TypesHold, PTL DEF Spec

----------------------------------------------------------------------------
\* The phone's verdict.

\* Every file in the text field holds a signature that was made, or none.
LEMMA FilesOk ==
    ASSUME SignedInv, cert # None, NEW f \in Files, f \notin {None, NotJson}
    PROVE  FileOk(f)
<1> DEFINE certs == {Certificate(p) : p \in Elsewhere} \union {cert}
<1>1. ASSUME NEW c \in certs
      PROVE  /\ DOMAIN c = {"proof_canonical", "signature", "signer_public_key_pem"}
             /\ FileOk(c)
  BY DEF SignedInv, CertOk, FileOk, Certificate
<1>2. CASE f \in certs
  BY <1>1, <1>2
<1>3. ASSUME NEW c \in certs, NEW k, f = [c EXCEPT !.signer_public_key_pem = k]
      PROVE  FileOk(f)
  BY <1>1, <1>3 DEF FileOk
<1>4. ASSUME \/ f = [cert EXCEPT !.proof_canonical = None]
             \/ f = [cert EXCEPT !.proof_canonical.decision_log_seq = @ + 1]
             \/ f = [cert EXCEPT !.proof_canonical.signer_public_key = None]
      PROVE  FileOk(f)
  BY <1>1, <1>4 DEF FileOk
<1>5. CASE f = [cert EXCEPT !.signature = Undecodable]
  BY <1>1, <1>5 DEF FileOk
<1> QED
  BY <1>2, <1>3, <1>4, <1>5 DEF Files

\* The verdict on such a file.
LEMMA RunVerifyOk ==
    ASSUME NEW f, FileOk(f), phone' = RunVerify(f), signed' = signed
    PROVE  PhoneInv'
<1> DEFINE r == VerifyProof(f)
<1>1. phone'.pasted = f /\ phone'.result = r
  BY DEF RunVerify
<1>2. r.kind \in {"malformed", "invalid", "verified"}
  BY DEF VerifyProof
<1>3. ASSUME r.kind = "verified", r.signerTrusted
      PROVE  \E k \in Known : Signature(r.facts, k) \in signed
  <2>1. /\ f.signature # Undecodable
        /\ f.signature = Signature(f.proof_canonical, VerifyKey(f))
        /\ r.facts = f.proof_canonical /\ r.signerTrusted = Trusted(f)
    BY <1>3 DEF VerifyProof
  <2>2. VerifyKey(f) \in Known
    BY <1>3, <2>1 DEF Trusted
  <2> QED
    BY <2>1, <2>2 DEF FileOk
<1>4. phone'.pasted.signature \in signed' \union {Undecodable}
  BY <1>1 DEF FileOk
<1> HIDE DEF r
<1> QED
  BY <1>1, <1>2, <1>3, <1>4 DEF PhoneInv, FileOk

LEMMA PhoneInit == Init => PhoneInv
  BY DEF Init, PhoneInv, NewPhone, NoResult

LEMMA PhoneStep == TypeInv /\ SignedInv /\ PhoneInv /\ [Next]_vars => PhoneInv'
<1> SUFFICES ASSUME TypeInv, SignedInv, PhoneInv, [Next]_vars PROVE PhoneInv'
  OBVIOUS
<1>1. CASE UNCHANGED phone
  <2>1. signed \subseteq signed'
    BY DEF Next, Server, Grow, Erase, AnchorProof, Damage, CutLog, Page, Visit, Leave,
           Respond, Download, Phone, vars, server
  <2>2. phone'.pasted \notin {None, NotJson} => phone'.pasted.signature \in signed' \union {Undecodable}
    BY <1>1, <2>1 DEF PhoneInv, FileOk
  <2> QED
    BY <1>1, <2>1, <2>2 DEF PhoneInv, FileOk
<1>2. CASE cert # None /\ Phone
  <2>1. signed' = signed
    BY <1>2 DEF Phone, server
  <2>2. ASSUME NEW f \in Files, Edit(f)
        PROVE  PhoneInv'
    <3>1. f \notin {None, NotJson} => FileOk(f)
      BY <1>2, FilesOk
    <3>2. phone'.pasted = f /\ phone'.result = phone.result
      BY <2>2 DEF Edit, TypeInv
    <3> QED
      BY <2>1, <3>1, <3>2 DEF PhoneInv, FileOk
  <2>3. CASE VerifyPasted
    <3>1. CASE phone.pasted \in {None, NotJson}
      <4>1. phone'.pasted = phone.pasted /\ phone'.result = NoResult
        BY <2>3, <3>1 DEF VerifyPasted, TypeInv
      <4> QED
        BY <3>1, <4>1 DEF PhoneInv, NoResult
    <3>2. CASE phone.pasted \notin {None, NotJson}
      BY <2>1, <2>3, <3>2, RunVerifyOk DEF VerifyPasted, PhoneInv
    <3> QED
      BY <3>1, <3>2
  <2>4. CASE LoadDemo
    <3>1. FileOk(Certificate(Demo))
      BY ProofPageAssumption DEF SignedInv, FileOk, Certificate
    <3> QED
      BY <2>1, <2>4, <3>1, RunVerifyOk DEF LoadDemo
  <2>5. CASE Clear
    BY <2>5 DEF Clear, NewPhone, NoResult, PhoneInv
  <2> QED
    BY <1>2, <2>2, <2>3, <2>4, <2>5 DEF Phone
<1>3. (Server \/ Page \/ UNCHANGED vars) => UNCHANGED phone
  BY DEF Server, Grow, Erase, AnchorProof, Damage, CutLog, Page, Visit, Leave, Respond,
         Download, vars
<1> QED
  BY <1>1, <1>2, <1>3 DEF Next

\* A recognized signer on the phone (mobile/App.tsx) signed the facts shown,
\* whatever was done to the proof in the store and to the file on the way.
THEOREM TrustedCorrect == Spec => []TrustedFactsWereSigned
<1>1. Init => PhoneInv
  BY PhoneInit
<1>2. TypeInv /\ SignedInv /\ PhoneInv /\ [Next]_vars => PhoneInv'
  BY PhoneStep
<1>3. PhoneInv => TrustedFactsWereSigned
  BY DEF PhoneInv, TrustedFactsWereSigned, PhoneSays
<1> QED
  BY <1>1, <1>2, <1>3, TypesHold, SignaturesHold, PTL DEF Spec

\* A certificate the page let the reader download verifies on the phone with
\* its facts, if it arrives as it was.
LEMMA DownloadedVerifies ==
    ASSUME SignedInv, cert # None, phone.pasted = cert, VerifyPasted
    PROVE  /\ phone'.result.kind = "verified"
           /\ phone'.result.facts = cert.proof_canonical
<1>1. /\ DOMAIN cert = {"proof_canonical", "signature", "signer_public_key_pem"}
      /\ cert.signature = Signature(cert.proof_canonical, cert.signer_public_key_pem)
      /\ Made(cert.signature)
  BY DEF SignedInv, CertOk
<1>2. cert # NotJson
  <2>1. DOMAIN NotJson = {"kind"}
    BY DEF NotJson
  <2> QED
    BY <1>1, <2>1
<1>3. /\ cert.signature.over = cert.proof_canonical
      /\ cert.signature.by = cert.signer_public_key_pem
  BY <1>1 DEF Signature
<1>4. /\ cert.proof_canonical # None /\ cert.signer_public_key_pem # None
      /\ cert.proof_canonical.signer_public_key = cert.signer_public_key_pem
  BY <1>1, <1>3 DEF Made
<1>5. VerifyKey(cert) = cert.signer_public_key_pem
  BY <1>4 DEF VerifyKey
<1>6. cert.signature # Undecodable
  BY <1>1, UndecodableNotMade
<1>7. VerifyProof(cert) = [kind |-> "verified", facts |-> cert.proof_canonical,
                           signerTrusted |-> Trusted(cert)]
  BY <1>1, <1>4, <1>5, <1>6 DEF VerifyProof
<1>8. phone' = RunVerify(cert)
  BY <1>2 DEF VerifyPasted
<1> QED
  BY <1>7, <1>8 DEF RunVerify

\* The two verifiers agree: what the page (verify.ts) found genuine, the
\* phone (mobile/src/verify.ts) finds genuine offline.
THEOREM DownloadCorrect == Spec => DownloadVerifiesOffline
<1>1. SignedInv /\ [Next]_vars =>
        [cert # None /\ phone.pasted = cert /\ VerifyPasted =>
            /\ phone'.result.kind = "verified"
            /\ phone'.result.facts = cert.proof_canonical]_vars
  BY DownloadedVerifies
<1> QED
  BY <1>1, SignaturesHold, PTL DEF Spec, DownloadVerifiesOffline
----------------------------------------------------------------------------
\* Transparency: what the panel says of the log is so.

\* Trees of the size the verifier's operators are right for.
SizeOk(t) == t \in Seq(Nat) /\ Len(t) <= MaxSize

Leaf(body) == \E i \in DOMAIN body.tree : body.tree[i] = body.decision_log_head

CheckSound(c) ==
    /\ c.included => c.waits # "proof" /\ Leaf(c.proof.proof_body)
    /\ c.waits = "consistency" => SizeOk(c.head)

StatusSound(s) ==
    s.kind = "verified" =>
        LET body  == s.document.proof_body
            panel == TransparencyPanel(s.transparency)
        IN /\ panel.included => Leaf(body)
           /\ panel.appendOnly =>
                 /\ Len(body.tree) <= Len(s.transparency.served)
                 /\ SubSeq(s.transparency.served, 1, Len(body.tree)) = body.tree

SoundInv ==
    /\ Len(log) <= MaxLog
    /\ \A o \in signed : SizeOk(o.over.tree)
    /\ \A g \in Gs : checks[g] # None => CheckSound(checks[g])
    /\ StatusSound(status)

LEMMA SequencesEqual ==
    ASSUME NEW s \in Seq(Nat), NEW t \in Seq(Nat), Len(s) = Len(t),
           \A i \in 1..Len(s) : s[i] = t[i]
    PROVE  s = t
OBVIOUS

LEMMA LogSize == TypeInv /\ SoundInv => SizeOk(log)
<1>1. MaxLog \in Nat /\ MaxLog <= MaxSize
  BY ProofPageAssumption DEF MaxSize
<1> QED
  BY <1>1, MaxSizeType DEF TypeInv, SoundInv, SizeOk

LEMMA HeldTree ==
    ASSUME SignedInv, SoundInv, NEW g \in Gs, checks[g] # None, checks[g].waits # "proof"
    PROVE  SizeOk(checks[g].proof.proof_body.tree)
<1> DEFINE p == checks[g].proof
<1>1. p.proof_signature \in signed /\ p.proof_signature = Signature(p.proof_body, p.signer_pubkey_pem)
  BY DEF SignedInv, Genuine
<1>2. p.proof_signature.over = p.proof_body
  BY <1>1 DEF Signature
<1> QED
  BY <1>1, <1>2 DEF SoundInv

\* The answers to the later requests.
LEMMA AnswerToInclusion ==
    ASSUME NEW c, c.waits = "inclusion"
    PROVE  Answer(c) = GetInclusion(c.proof.proof_body.decision_log_seq,
                                    Len(c.proof.proof_body.tree))
  BY DEF Answer

LEMMA AnswerToHead ==
    ASSUME NEW c, c.waits = "head"
    PROVE  Answer(c) = Ok(log)
  BY DEF Answer, GetTreeHead

LEMMA AnswerToConsistency ==
    ASSUME NEW c, c.waits = "consistency"
    PROVE  Answer(c) = GetConsistency(Len(c.proof.proof_body.tree), Len(c.head))
  BY DEF Answer

\* A leaf that verifies as included is one of the tree.
LEMMA IncludedIsLeaf ==
    ASSUME NEW body, SizeOk(body.tree), NEW index, NEW path, Len(path) \in Nat,
           VerifyInclusion(Hash(body.decision_log_head), index, Len(body.tree), path,
                           Root(body.tree))
    PROVE  Leaf(body)
<1> DEFINE tree == body.tree
           n    == Len(tree)
<1>1. index \in 0..(n - 1)
  BY DEF VerifyInclusion
<1>2. n \in 1..MaxSize /\ index + 1 \in DOMAIN tree
  BY <1>1, MaxSizeType DEF SizeOk
<1>3. VerifyInclusion(Hash(body.decision_log_head), index, n, path, Tree(tree, 0, n))
  BY DEF Root
<1> HIDE DEF tree, n
<1>4. tree[index + 1] = body.decision_log_head
  BY <1>2, <1>3, InclusionSound
<1> QED
  BY <1>2, <1>4 DEF Leaf, tree

\* Trees of the same size and root are the same.
LEMMA SameRoot ==
    ASSUME NEW s, NEW t, SizeOk(s), SizeOk(t), Len(s) = Len(t), Root(s) = Root(t)
    PROVE  s = t
<1>1. CASE Len(s) = 0
  <2>1. \A i \in 1..Len(s) : s[i] = t[i]
    BY <1>1
  <2> QED
    BY <2>1, SequencesEqual DEF SizeOk
<1>2. CASE Len(s) # 0
  <2>1. Len(s) \in 1..MaxSize /\ 0 \in Nat
    BY <1>2 DEF SizeOk
  <2>2. Tree(s, 0, Len(s)) = Tree(t, 0, Len(s))
    BY DEF Root
  <2>3. \A i \in 1..Len(s) : s[0 + i] = t[0 + i]
    BY <2>1, <2>2, TreeCommits
  <2>4. \A i \in 1..Len(s) : s[i] = t[i]
    BY <2>1, <2>3
  <2> QED
    BY <2>4, SequencesEqual DEF SizeOk
<1> QED
  BY <1>1, <1>2

LEMMA IsPrefix ==
    ASSUME NEW s \in Seq(Nat), NEW t \in Seq(Nat), Len(t) <= Len(s),
           \A i \in 1..Len(t) : t[i] = s[i]
    PROVE  SubSeq(s, 1, Len(t)) = t
<1> DEFINE u == SubSeq(s, 1, Len(t))
<1>1. u \in Seq(Nat) /\ Len(u) = Len(t) /\ \A i \in 1..Len(t) : u[i] = s[i]
  OBVIOUS
<1> HIDE DEF u
<1>2. u = t
  BY <1>1, SequencesEqual
<1> QED
  BY <1>2 DEF u

\* What verifies as consistent is a beginning.
LEMMA ConsistentIsPrefix ==
    ASSUME NEW tree, NEW head, SizeOk(tree), SizeOk(head), NEW proof,
           VerifyConsistency(Len(tree), Len(head), proof, Root(tree), Root(head))
    PROVE  Len(tree) <= Len(head) /\ SubSeq(head, 1, Len(tree)) = tree
<1> DEFINE m == Len(tree)
           n == Len(head)
<1>1. m \in 1..n
  BY DEF VerifyConsistency
<1>2. n \in 1..MaxSize
  BY <1>1 DEF SizeOk
<1>3. VerifyConsistency(m, n, proof, Tree(tree, 0, m), Tree(head, 0, n))
  BY DEF Root
<1> HIDE DEF m, n
<1>4. m \in 1..n /\ \A i \in 1..m : tree[i] = head[i]
  BY ONLY <1>2, <1>3, ConsistencySound
<1> QED
  BY <1>1, <1>4, IsPrefix DEF SizeOk, m, n

LEMMA AuditPathLength ==
    ASSUME NEW leaves, Len(leaves) \in 0..MaxSize, NEW index
    PROVE  Len(InclusionProof(leaves, index)) \in Nat
<1> DEFINE H    == Hashes(leaves)
           path == InclusionProof(leaves, index)
<1>1. path \in Seq(H)
  BY PathType, InclusionProofIsPath, MaxSizeType
<1> HIDE DEF H, path
<1> QED
  BY <1>1

\* A verdict without its log says nothing of it.
LEMMA NotDoneSound ==
    ASSUME NEW c, NEW t, t.state # "done"
    PROVE  StatusSound(Verified(c, t))
  BY DEF StatusSound, Verified, TransparencyPanel

LEMMA DoneSound ==
    ASSUME NEW c, NEW head, NEW ok, c.included => Leaf(c.proof.proof_body),
           ok => LET tree == c.proof.proof_body.tree
                 IN Len(tree) <= Len(head) /\ SubSeq(head, 1, Len(tree)) = tree
    PROVE  StatusSound(Done(c, head, ok))
<1> DEFINE s == Done(c, head, ok)
           t == s.transparency
<1>1. s.document = c.proof
  BY DEF Done, Verified
<1>2. t.served = head /\ t.inclusionOk = c.included /\ t.consistencyOk = ok
  BY DEF Done, Verified
<1>3. TransparencyPanel(t).included = (t.state = "done" /\ t.inclusionOk)
  BY DEF TransparencyPanel
<1>4. TransparencyPanel(t).appendOnly = (t.state = "done" /\ t.consistencyOk)
  BY DEF TransparencyPanel
<1> HIDE DEF s
<1>5. TransparencyPanel(t).included => c.included
  BY <1>2, <1>3
<1>6. TransparencyPanel(t).appendOnly => ok
  BY <1>2, <1>4
<1>7. TransparencyPanel(t).included => Leaf(s.document.proof_body)
  BY <1>1, <1>5
<1>8. TransparencyPanel(t).appendOnly =>
        LET tree == s.document.proof_body.tree
        IN Len(tree) <= Len(t.served) /\ SubSeq(t.served, 1, Len(tree)) = tree
  BY <1>1, <1>2, <1>6
<1>9. StatusSound(s)
  BY <1>7, <1>8 DEF StatusSound
<1> QED
  BY <1>9 DEF s

LEMMA AsksSound ==
    ASSUME NEW g \in Gs, NEW c, NEW r \in Waits \ {"proof"}, Asks(g, c, r),
           {"waits", "included", "proof", "head"} \subseteq DOMAIN c,
           c.included => Leaf(c.proof.proof_body), r = "consistency" => SizeOk(c.head)
    PROVE  \E x : checks' = [checks EXCEPT ![g] = x] /\ CheckSound(x)
<1> DEFINE x == [c EXCEPT !.waits = r]
<1>1. /\ x.waits = r /\ x.included = c.included /\ x.proof = c.proof /\ x.head = c.head
  OBVIOUS
<1>2. checks' = [checks EXCEPT ![g] = x]
  BY DEF Asks
<1> HIDE DEF x
<1>3. CheckSound(x)
  BY <1>1 DEF CheckSound
<1> QED
  BY <1>2, <1>3

LEMMA RespondSound ==
    ASSUME TypeInv, SignedInv, SoundInv, NEW g \in Gs, Respond(g)
    PROVE  /\ \E x : checks' = [checks EXCEPT ![g] = x] /\ (x = None \/ CheckSound(x))
           /\ status' = status \/ StatusSound(status')
<1> DEFINE c    == checks[g]
           body == c.proof.proof_body
           tree == body.tree
<1>1. PICK a \in Answers(g) : \/ HandleProof(g, a)
                              \/ TransparencyFails(g, a)
                              \/ HandleInclusion(g, a)
                              \/ HandleHead(g, a)
                              \/ HandleConsistency(g, a)
  BY DEF Respond
<1>2. c # None /\ a \in {Answer(c), Failed}
  BY DEF Answers
<1>3. DOMAIN c = CheckFields /\ c.waits \in Waits /\ CheckSound(c)
  BY <1>2 DEF TypeInv, PageInv, SoundInv
<1>4. c.waits # "proof" => SizeOk(tree)
  BY <1>2, HeldTree
<1>5. ASSUME NEW s, Put(g, s), StatusSound(s)
      PROVE  status' = status \/ StatusSound(status')
  BY <1>5 DEF Put
<1>6. ASSUME Ends(g)
      PROVE  \E x : checks' = [checks EXCEPT ![g] = x] /\ (x = None \/ CheckSound(x))
  BY <1>6 DEF Ends
<1>7. CASE HandleProof(g, a)
  <2> DEFINE view  == a.value
             known == [c EXCEPT !.proof = view.document]
  <2>1. c.waits = "proof"
    BY <1>7 DEF HandleProof
  <2>2. DOMAIN known = CheckFields /\ known.included = c.included
    BY <1>3 DEF CheckFields
  <2>3. ~known.included
    BY <1>3, <2>1, <2>2 DEF CheckSound
  <2>4. CASE a = Missing /\ Put(g, [kind |-> "notfound"]) /\ Ends(g)
    BY <1>5, <1>6, <2>4 DEF StatusSound
  <2>5. CASE a = Failed /\ Put(g, [kind |-> "error"]) /\ Ends(g)
    BY <1>5, <1>6, <2>5 DEF StatusSound
  <2>6. CASE Refusal(c, view) # NotRefused /\ Put(g, Refusal(c, view)) /\ Ends(g)
    <3>1. StatusSound(Refusal(c, view))
      BY <2>6 DEF Refusal, StatusSound
    <3> QED
      BY <1>5, <1>6, <2>6, <3>1
  <2>7. ASSUME NEW state, state # "done"
        PROVE  StatusSound(Verified(known, NoTransparency(state)))
    BY <2>7, NotDoneSound DEF NoTransparency
  <2> HIDE DEF known
  <2>8. CASE Put(g, Verified(known, NoTransparency("unavailable"))) /\ Ends(g)
    BY <1>5, <1>6, <2>7, <2>8
  <2>9. CASE /\ Put(g, Verified(known, NoTransparency("checking")))
             /\ Asks(g, known, "inclusion")
    <3>1. \E x : checks' = [checks EXCEPT ![g] = x] /\ CheckSound(x)
      BY <2>2, <2>3, <2>9, AsksSound DEF Waits, CheckFields
    <3> QED
      BY <1>5, <2>7, <2>9, <3>1
  <2> QED
    BY <1>7, <2>4, <2>5, <2>6, <2>8, <2>9 DEF HandleProof, known
<1>8. CASE TransparencyFails(g, a)
  <2>1. Put(g, Verified(c, [state |-> "error", lost |-> a = Failed])) /\ Ends(g)
    BY <1>8 DEF TransparencyFails
  <2>2. StatusSound(Verified(c, [state |-> "error", lost |-> a = Failed]))
    BY NotDoneSound
  <2> QED
    BY <1>5, <1>6, <2>1, <2>2
<1>9. CASE HandleInclusion(g, a)
  <2> DEFINE index == a.value.leaf_index
             path  == a.value.audit_path
             included == VerifyInclusion(Hash(body.decision_log_head), index, Len(tree), path,
                                         Root(tree))
             d == [c EXCEPT !.included = included]
  <2>1. c.waits = "inclusion" /\ a.kind = "ok" /\ Asks(g, d, "head") /\ status' = status
    BY <1>9 DEF HandleInclusion
  <2>2. a = GetInclusion(body.decision_log_seq, Len(tree))
    BY <1>2, <2>1, AnswerToInclusion DEF Failed
  <2>3. /\ ~(Len(tree) > Len(log))
        /\ path = InclusionProof(SubSeq(log, 1, Len(tree)), body.decision_log_seq - 1)
    BY <2>1, <2>2 DEF GetInclusion, Ok, Missing
  <2>4. Len(path) \in Nat
    <3> DEFINE early == SubSeq(log, 1, Len(tree))
    <3>1. Len(tree) \in 0..MaxSize /\ log \in Seq(Nat)
      BY <1>4, <2>1, MaxSizeType, SMTT(30) DEF SizeOk, TypeInv
    <3>2. Len(early) = Len(tree)
      BY <2>3, <3>1
    <3> HIDE DEF early
    <3> QED
      BY <2>3, <3>1, <3>2, AuditPathLength DEF early
  <2>5. included => Leaf(body)
    BY <1>4, <2>1, <2>4, IncludedIsLeaf
  <2> HIDE DEF included
  <2>6. /\ DOMAIN d = CheckFields /\ d.included = included /\ d.proof = c.proof
    BY <1>3 DEF CheckFields
  <2> HIDE DEF d
  <2>7. \E x : checks' = [checks EXCEPT ![g] = x] /\ CheckSound(x)
    BY <2>1, <2>5, <2>6, AsksSound DEF Waits, CheckFields
  <2> QED
    BY <2>1, <2>7
<1>10. CASE HandleHead(g, a)
  <2> DEFINE head == a.value
             same == Len(head) = Len(tree) /\ Root(head) = Root(tree)
             d    == [c EXCEPT !.head = head]
  <2>1. c.waits = "head" /\ a.kind = "ok"
    BY <1>10 DEF HandleHead
  <2>2. head = log /\ SizeOk(head)
    BY <1>2, <2>1, AnswerToHead, LogSize DEF Failed, Ok
  <2>3. CASE Asks(g, d, "consistency") /\ status' = status
    <3>1. /\ DOMAIN d = CheckFields /\ d.included = c.included /\ d.proof = c.proof
          /\ d.head = head
      BY <1>3 DEF CheckFields
    <3> HIDE DEF d
    <3>2. \E x : checks' = [checks EXCEPT ![g] = x] /\ CheckSound(x)
      BY <1>3, <2>2, <2>3, <3>1, AsksSound DEF Waits, CheckFields, CheckSound
    <3> QED
      BY <2>3, <3>2
  <2>4. CASE Put(g, Done(c, head, same)) /\ Ends(g)
    <3>1. SizeOk(tree)
      BY <1>4, <2>1
    <3>2. same => Len(tree) <= Len(head) /\ SubSeq(head, 1, Len(tree)) = tree
      <4> HAVE same
      <4>1. head = tree
        BY <2>2, <3>1, SameRoot
      <4> QED
        BY <3>1, <4>1 DEF SizeOk
    <3>3. c.included => Leaf(body)
      BY <1>3 DEF CheckSound
    <3> HIDE DEF same, head
    <3>4. StatusSound(Done(c, head, same))
      BY <3>2, <3>3, DoneSound
    <3> QED
      BY <1>5, <1>6, <2>4, <3>4
  <2> QED
    BY <1>10, <2>3, <2>4 DEF HandleHead
<1>11. CASE HandleConsistency(g, a)
  <2> DEFINE head == c.head
             ok   == /\ a.value.root_to = Root(head)
                     /\ VerifyConsistency(Len(tree), Len(head), a.value.proof, Root(tree),
                                          a.value.root_to)
  <2>1. c.waits = "consistency" /\ Put(g, Done(c, head, ok)) /\ Ends(g)
    BY <1>11 DEF HandleConsistency
  <2>2. SizeOk(tree) /\ SizeOk(head)
    BY <1>3, <1>4, <2>1 DEF CheckSound
  <2>3. ok => Len(tree) <= Len(head) /\ SubSeq(head, 1, Len(tree)) = tree
    <3> HAVE ok
    <3>1. VerifyConsistency(Len(tree), Len(head), a.value.proof, Root(tree), Root(head))
      OBVIOUS
    <3> QED
      BY <2>2, <3>1, ConsistentIsPrefix
  <2>4. c.included => Leaf(body)
    BY <1>3 DEF CheckSound
  <2> HIDE DEF ok, head
  <2>5. StatusSound(Done(c, head, ok))
    BY <2>3, <2>4, DoneSound
  <2> QED
    BY <1>5, <1>6, <2>1, <2>5
<1> QED
  BY <1>1, <1>7, <1>8, <1>9, <1>10, <1>11

LEMMA SoundInit == Init => SoundInv
<1> SUFFICES ASSUME Init PROVE SoundInv
  OBVIOUS
<1>1. Len(log) <= MaxLog
  BY ProofPageAssumption DEF Init
<1>2. \A g \in Gs : checks[g] = None
  BY DEF Init, Gs
<1>3. StatusSound(status)
  BY DEF Init, Idle, StatusSound
<1>4. ASSUME NEW p \in Elsewhere
      PROVE  SizeOk(p.proof_signature.over.tree)
  <2>1. p.proof_signature.over = p.proof_body
    BY ValuesAssumption DEF Proof, Signature
  <2> QED
    BY <2>1, ValuesAssumption DEF SizeOk, MaxSize
<1>5. ASSUME NEW id, NEW k
      PROVE  SizeOk(Signature(Body(id, 1, 1, <<>>, k), k).over.tree)
  <2>1. Signature(Body(id, 1, 1, <<>>, k), k).over.tree = <<>>
    BY DEF Signature, Body
  <2>2. <<>> \in Seq(Nat) /\ Len(<<>>) = 0 /\ 0 <= MaxSize
    BY MaxSizeType
  <2> QED
    BY <2>1, <2>2 DEF SizeOk
<1>6. \A o \in signed : SizeOk(o.over.tree)
  <2> DEFINE others == {p.proof_signature : p \in Elsewhere}
  <2>1. \A o \in others : SizeOk(o.over.tree)
    BY <1>4
  <2> HIDE DEF others
  <2>2. \/ signed = others
        \/ \E id, k : signed = others \union {Signature(Body(id, 1, 1, <<>>, k), k)}
    BY DEF Init, others
  <2>3. ASSUME NEW id, NEW k, signed = others \union {Signature(Body(id, 1, 1, <<>>, k), k)}
        PROVE  \A o \in signed : SizeOk(o.over.tree)
    BY <1>5, <2>1, <2>3
  <2> QED
    BY <2>1, <2>2, <2>3
<1> QED
  BY <1>1, <1>2, <1>3, <1>6 DEF SoundInv

LEMMA SoundServer == TypeInv /\ SoundInv /\ Server => SoundInv'
<1> SUFFICES ASSUME TypeInv, SoundInv, Server PROVE SoundInv'
  OBVIOUS
<1> USE ProofPageAssumption
<1>1. checks' = checks /\ status' = status
  BY DEF Server, Grow, Erase, AnchorProof, Damage, CutLog, page
<1>2. Len(log') <= MaxLog
  <2>1. ASSUME NEW n \in 1..MaxLog, Grow(n) PROVE Len(log') <= MaxLog
    BY <2>1 DEF Grow
  <2>2. ASSUME NEW s \in Subjects, NEW sp \in ErasedAs, Erase(s, sp)
        PROVE  Len(log') <= MaxLog
    <3>1. Len(log') = Len(log) + 1 /\ Len(log) < MaxLog
      BY <2>2 DEF Erase, TypeInv
    <3> QED
      BY <3>1 DEF TypeInv
  <2>3. ASSUME NEW n \in 0..MaxLog, CutLog(n) PROVE Len(log') <= MaxLog
    <3>1. Len(log') = n
      BY <2>3 DEF CutLog, TypeInv
    <3> QED
      BY <3>1
  <2>4. ASSUME log' = log PROVE Len(log') <= MaxLog
    BY <2>4 DEF SoundInv
  <2> QED
    BY <2>1, <2>2, <2>3, <2>4 DEF Server, AnchorProof, Damage
<1>3. ASSUME NEW o \in signed'
      PROVE  SizeOk(o.over.tree)
  <2>1. ASSUME NEW s \in Subjects, NEW k \in Signers, AnchorProof(s, k)
        PROVE  o \in signed \/ o.over.tree = log
    <3>1. PICK id, seq, head : signed' = signed \union {Signature(Body(id, seq, head, log, k), k)}
      BY <2>1 DEF AnchorProof
    <3>2. Signature(Body(id, seq, head, log, k), k).over.tree = log
      BY DEF Signature, Body
    <3> QED
      BY <3>1, <3>2
  <2>2. o \in signed \/ o.over.tree = log
    BY <2>1 DEF Server, Grow, Erase, Damage, CutLog
  <2> QED
    BY <2>2, LogSize DEF SoundInv
<1> QED
  BY <1>1, <1>2, <1>3 DEF SoundInv

LEMMA SoundPage == TypeInv /\ SignedInv /\ SoundInv /\ Page => SoundInv'
<1> SUFFICES ASSUME TypeInv, SignedInv, SoundInv, Page PROVE SoundInv'
  OBVIOUS
<1>1. log' = log /\ signed' = signed
  BY DEF Page, Visit, Leave, Respond, Download, server
<1>2. ASSUME NEW g \in Gs, NEW x, checks' = [checks EXCEPT ![g] = x],
             x = None \/ CheckSound(x), status' = status \/ StatusSound(status')
      PROVE  SoundInv'
  <2>1. \A h \in Gs : checks'[h] = IF h = g THEN x ELSE checks[h]
    BY <1>2 DEF TypeInv, PageInv
  <2>2. \A h \in Gs : checks'[h] # None => CheckSound(checks'[h])
    BY <1>2, <2>1 DEF SoundInv
  <2>3. StatusSound(status')
    BY <1>2 DEF SoundInv
  <2> QED
    BY <1>1, <2>2, <2>3 DEF SoundInv
<1>3. ASSUME NEW id \in Pasted, Visit(id) PROVE SoundInv'
  <2> DEFINE x == Check(LowerCase(id))
  <2>1. checks' = [checks EXCEPT ![generation + 1] = x] /\ status' = [kind |-> "loading"]
    BY <1>3 DEF Visit
  <2>2. CheckSound(x) /\ StatusSound(status')
    BY <2>1 DEF Check, CheckSound, StatusSound
  <2>3. generation + 1 \in Gs
    BY <1>3, ProofPageAssumption DEF Visit, TypeInv, PageInv, Gs
  <2> HIDE DEF x
  <2> QED
    BY <1>2, <2>1, <2>2, <2>3
<1>4. ASSUME Leave PROVE SoundInv'
  <2>1. checks' = checks /\ status' = Idle
    BY <1>4 DEF Leave
  <2>2. StatusSound(status')
    BY <2>1 DEF Idle, StatusSound
  <2> QED
    BY <1>1, <2>1, <2>2 DEF SoundInv
<1>5. ASSUME NEW g \in Gs, Respond(g) PROVE SoundInv'
  BY <1>2, <1>5, RespondSound
<1>6. ASSUME Download PROVE SoundInv'
  <2>1. checks' = [g \in Gs |-> None] /\ status' = Idle
    BY <1>6 DEF Download, Gs
  <2>2. StatusSound(status')
    BY <2>1 DEF Idle, StatusSound
  <2> QED
    BY <1>1, <2>1, <2>2 DEF SoundInv
<1> QED
  BY <1>3, <1>4, <1>5, <1>6 DEF Page, Gs

LEMMA SoundStep == TypeInv /\ SignedInv /\ SoundInv /\ [Next]_vars => SoundInv'
<1>1. Phone \/ UNCHANGED vars => UNCHANGED <<server, page>>
  BY DEF Phone, vars
<1>2. SoundInv /\ UNCHANGED <<server, page>> => SoundInv'
  BY DEF SoundInv, server, page
<1> QED
  BY <1>1, <1>2, SoundServer, SoundPage DEF Next

LEMMA SoundHolds == Spec => []SoundInv
<1> QED
  BY SoundInit, SoundStep, TypesHold, SignaturesHold, PTL DEF Spec

\* The panel about the log (ProofVerifier.tsx, verify.ts) is never wrong in
\* saying yes, whatever the gateway answers with after damage or a cut log:
\* an erasure shown as included is a leaf of the tree that was signed, and a
\* log shown as append-only starts with that whole tree.
THEOREM TransparencyCorrect == Spec => []TransparencyIsSound
<1>1. SoundInv => TransparencyIsSound
  BY DEF SoundInv, StatusSound, Leaf, TransparencyIsSound
<1> QED
  BY <1>1, SoundHolds, PTL

----------------------------------------------------------------------------
\* A genuine proof never alarms.

\* While nothing was cut, row i of the log is i, and every tree is of it.
CountsTo(t, n) == /\ t \in Seq(Nat) /\ Len(t) <= n
                  /\ \A i \in 1..Len(t) : t[i] = i

BodyOk(body, n) == /\ body.decision_log_head = body.decision_log_seq
                   /\ CountsTo(body.tree, n)
                   /\ body.tree # <<>> => body.decision_log_seq \in 1..Len(body.tree)

ProofOk(p, id, n) == Genuine(p) /\ p.proof_body.subject_hash = id /\ BodyOk(p.proof_body, n)

HonestRecord(s, r, n) ==
    /\ r.id = [subject |-> s, spelling |-> "lower"]
    /\ r.seq \in 1..n /\ r.head = r.seq
    /\ r.proof # None => ProofOk(r.proof, r.id, n)

HonestCheck(c, n) ==
    LET body == c.proof.proof_body
    IN /\ c.subject.spelling = "lower"
       /\ c.waits # "proof" => BodyOk(body, n) /\ body.tree # <<>>
       /\ c.waits \in {"head", "consistency"} => c.included
       /\ c.waits = "consistency" => CountsTo(c.head, n) /\ Len(body.tree) < Len(c.head)

HonestStatus(s) ==
    /\ s.kind \notin {"malformed", "failed", "mismatch"}
    /\ s.kind = "verified" /\ TransparencyPanel(s.transparency).alarm =>
          s.transparency.state = "error" /\ s.transparency.lost

HonestInv ==
    /\ cuts = 0 /\ CountsTo(log, Len(log))
    /\ \A s \in Subjects : record[s] # None => HonestRecord(s, record[s], Len(log))
    /\ \A g \in Gs : checks[g] # None => HonestCheck(checks[g], Len(log))
    /\ HonestStatus(status)

\* What held of a log holds of a longer one.
LEMMA LongerCounts ==
    ASSUME NEW n \in Nat, NEW m \in Nat, n <= m, NEW t, CountsTo(t, n)
    PROVE  CountsTo(t, m)
<1>1. t \in Seq(Nat) /\ Len(t) \in Nat /\ Len(t) <= n
  BY DEF CountsTo
<1> QED
  BY <1>1 DEF CountsTo

LEMMA LongerLog ==
    ASSUME NEW n \in Nat, NEW m \in Nat, n <= m
    PROVE  /\ \A s, r : HonestRecord(s, r, n) => HonestRecord(s, r, m)
           /\ \A c : HonestCheck(c, n) => HonestCheck(c, m)
<1>1. \A t : CountsTo(t, n) => CountsTo(t, m)
  BY LongerCounts
<1>2. \A body : BodyOk(body, n) => BodyOk(body, m)
  BY <1>1 DEF BodyOk
<1>3. ASSUME NEW s, NEW r, HonestRecord(s, r, n)
      PROVE  HonestRecord(s, r, m)
  BY <1>2, <1>3 DEF HonestRecord, ProofOk
<1>4. ASSUME NEW c, HonestCheck(c, n)
      PROVE  HonestCheck(c, m)
  BY <1>1, <1>2, <1>4 DEF HonestCheck
<1> QED
  BY <1>3, <1>4

LEMMA CountedAlike ==
    ASSUME NEW s, NEW t, NEW n, NEW m, CountsTo(s, n), CountsTo(t, m), Len(s) = Len(t)
    PROVE  s = t
<1>1. s \in Seq(Nat) /\ t \in Seq(Nat) /\ \A i \in 1..Len(s) : s[i] = t[i]
  BY DEF CountsTo
<1> QED
  BY <1>1, SequencesEqual

LEMMA EarlyLog ==
    ASSUME NEW s, NEW t, NEW n, CountsTo(s, n), CountsTo(t, Len(s))
    PROVE  SubSeq(s, 1, Len(t)) = t
<1>1. /\ s \in Seq(Nat) /\ t \in Seq(Nat) /\ Len(t) <= Len(s)
      /\ Len(t) \in Nat /\ Len(s) \in Nat
  BY DEF CountsTo
<1>2. \A i \in 1..Len(t) : t[i] = s[i]
  BY <1>1 DEF CountsTo
<1> QED
  BY <1>1, <1>2, IsPrefix

\* The roots of what both begin with are the same.
LEMMA EarlyRoot ==
    ASSUME NEW s, NEW t, NEW n, CountsTo(s, n), CountsTo(t, Len(s)), Len(t) \in 1..MaxSize
    PROVE  Tree(s, 0, Len(t)) = Root(t)
<1>1. Len(t) <= Len(s) /\ Len(s) \in Nat /\ 0 \in Nat
  BY DEF CountsTo
<1>2. \A i \in 1..Len(t) : s[0 + i] = t[0 + i]
  BY <1>1 DEF CountsTo
<1>3. Tree(s, 0, Len(t)) = Tree(t, 0, Len(t))
  BY <1>1, <1>2, TreeCommits
<1> QED
  BY <1>3 DEF Root

LEMMA NotEmpty == \A t \in Seq(Nat) : t # <<>> => Len(t) \in Nat \ {0}
OBVIOUS

LEMMA HonestInit == Init => HonestInv
<1> SUFFICES ASSUME Init PROVE HonestInv
  OBVIOUS
<1>1. PICK n \in 0..(MaxLog - 1) : log = [i \in 1..n |-> i]
  BY DEF Init
<1>2. CountsTo(log, Len(log)) /\ Len(log) = n /\ n \in Nat
  BY <1>1, ProofPageAssumption DEF CountsTo
<1>3. cuts = 0 /\ (\A g \in Gs : checks[g] = None) /\ status = Idle
  BY DEF Init, Gs
<1>4. HonestStatus(status)
  BY <1>3 DEF Idle, HonestStatus
<1>5. ASSUME NEW s \in Subjects, record[s] # None
      PROVE  HonestRecord(s, record[s], Len(log))
  <2> DEFINE id == [subject |-> s, spelling |-> "lower"]
  <2>1. PICK k \in Signers :
          /\ log # <<>>
          /\ record[s] = [id |-> id, seq |-> 1, head |-> 1,
                          proof |-> Proof(Body(id, 1, 1, <<>>, k), k)]
    BY <1>5 DEF Init
  <2> DEFINE body == Body(id, 1, 1, <<>>, k)
  <2>2. 1 \in 1..Len(log)
    BY <1>2, <2>1, NotEmpty DEF CountsTo
  <2>3. /\ body.decision_log_head = 1 /\ body.decision_log_seq = 1
        /\ body.tree = <<>> /\ body.subject_hash = id
    BY DEF Body
  <2>4. CountsTo(<<>>, Len(log))
    BY <1>2 DEF CountsTo
  <2>5. BodyOk(body, Len(log))
    BY <2>3, <2>4 DEF BodyOk
  <2>6. /\ record[s].id = id /\ record[s].seq = 1 /\ record[s].head = 1
        /\ record[s].proof = Proof(body, k)
    BY <2>1
  <2>7. /\ Proof(body, k).proof_body = body /\ Proof(body, k).signer_pubkey_pem = k
        /\ Proof(body, k).proof_signature = Signature(body, k)
    BY DEF Proof
  <2>8. Signature(body, k) # Undecodable
    BY ProofPageAssumption DEF Signature, Undecodable
  <2> HIDE DEF body, id
  <2>9. ProofOk(Proof(body, k), id, Len(log))
    BY <2>3, <2>5, <2>7, <2>8 DEF ProofOk, Genuine
  <2> QED
    BY <2>2, <2>6, <2>9 DEF HonestRecord, id
<1> QED
  BY <1>2, <1>3, <1>4, <1>5 DEF HonestInv

LEMMA HonestServer ==
    ErasedAs \subseteq {"lower"} /\ TypeInv /\ SignedInv /\ HonestInv /\ Server /\ faults' = 0
        => HonestInv'
<1> SUFFICES ASSUME ErasedAs \subseteq {"lower"}, TypeInv, SignedInv, HonestInv, Server,
                    faults' = 0
             PROVE  HonestInv'
  OBVIOUS
<1> USE ProofPageAssumption
<1>1. checks' = checks /\ status' = status
  BY DEF Server, Grow, Erase, AnchorProof, Damage, CutLog, page
<1>2. /\ log \in Seq(Nat) /\ Len(log) \in Nat /\ cuts = 0
      /\ \A i \in 1..Len(log) : log[i] = i
  BY DEF TypeInv, HonestInv, CountsTo
<1>3. \A i \in Nat : Chain(i) = i
  BY <1>2 DEF Chain, Gap
<1>4. ASSUME CountsTo(log', Len(log')), Len(log) <= Len(log'), cuts' = cuts,
             \A s \in Subjects : record'[s] # None =>
                record'[s] = record[s] \/ HonestRecord(s, record'[s], Len(log'))
      PROVE  HonestInv'
  <2>1. Len(log') \in Nat
    BY <1>4 DEF CountsTo
  <2>2. ASSUME NEW s \in Subjects, record'[s] # None
        PROVE  HonestRecord(s, record'[s], Len(log'))
    BY <1>2, <1>4, <2>1, <2>2, LongerLog DEF HonestInv
  <2>3. ASSUME NEW g \in Gs, checks'[g] # None
        PROVE  HonestCheck(checks'[g], Len(log'))
    BY <1>1, <1>2, <1>4, <2>1, <2>3, LongerLog DEF HonestInv
  <2> QED
    BY <1>1, <1>2, <1>4, <2>2, <2>3 DEF HonestInv
<1>5. ASSUME NEW n \in 1..MaxLog, Grow(n) PROVE HonestInv'
  <2>1. n \in (Len(log) + 1)..MaxLog /\ UNCHANGED <<record, cuts>>
    BY <1>5 DEF Grow
  <2>2. log' = [i \in 1..n |-> IF i <= Len(log) THEN log[i] ELSE Chain(i)]
    BY <1>5 DEF Grow
  <2>3. log' = [i \in 1..n |-> i]
    BY <1>2, <1>3, <2>2
  <2>4. CountsTo(log', Len(log')) /\ Len(log') = n
    BY <2>3 DEF CountsTo
  <2> QED
    BY <1>2, <1>4, <2>1, <2>4
<1>6. ASSUME NEW s \in Subjects, NEW sp \in ErasedAs, Erase(s, sp) PROVE HonestInv'
  <2> DEFINE r == [id |-> [subject |-> s, spelling |-> sp], seq |-> Len(log) + 1,
                   head |-> Chain(Len(log) + 1), proof |-> None]
  <2>1. /\ log' = Append(log, Chain(Len(log) + 1)) /\ record' = [record EXCEPT ![s] = r]
        /\ cuts' = cuts
    BY <1>6 DEF Erase
  <2>2. Chain(Len(log) + 1) = Len(log) + 1
    BY <1>2, <1>3
  <2>3. log' = Append(log, Len(log) + 1)
    BY <2>1, <2>2
  <2>4. Len(log') = Len(log) + 1 /\ log' \in Seq(Nat)
    BY <1>2, <2>3
  <2>5. \A i \in 1..Len(log') : log'[i] = i
    BY <1>2, <2>3
  <2>6. CountsTo(log', Len(log'))
    BY <1>2, <2>4, <2>5 DEF CountsTo
  <2>7. sp = "lower"
    OBVIOUS
  <2>8. /\ r.id = [subject |-> s, spelling |-> "lower"] /\ r.seq = Len(log) + 1
        /\ r.head = Len(log) + 1 /\ r.proof = None
    BY <2>2, <2>7
  <2>9. HonestRecord(s, r, Len(log'))
    BY <1>2, <2>4, <2>8 DEF HonestRecord
  <2> HIDE DEF r
  <2>10. \A t \in Subjects : record'[t] = IF t = s THEN r ELSE record[t]
    BY <2>1 DEF TypeInv
  <2> QED
    BY <1>2, <1>4, <2>1, <2>4, <2>6, <2>9, <2>10
<1>7. ASSUME NEW s \in Subjects, NEW k \in Signers, AnchorProof(s, k) PROVE HonestInv'
  <2> DEFINE r    == record[s]
             body == Body(r.id, r.seq, r.head, log, k)
             d    == [r EXCEPT !.proof = Proof(body, k)]
             n    == Len(log)
  <2>1. /\ r # None /\ record' = [record EXCEPT ![s] = d]
        /\ log' = log /\ cuts' = cuts
    BY <1>7 DEF AnchorProof
  <2>2. HonestRecord(s, r, n) /\ RecordOk(r, signed)
    BY <2>1 DEF HonestInv, SignedInv
  <2>3. /\ body.decision_log_head = r.head /\ body.decision_log_seq = r.seq
        /\ body.tree = log /\ body.subject_hash = r.id
    BY DEF Body
  <2>4. /\ Proof(body, k).proof_body = body /\ Proof(body, k).signer_pubkey_pem = k
        /\ Proof(body, k).proof_signature = Signature(body, k)
    BY DEF Proof
  <2>5. Signature(body, k) # Undecodable
    BY DEF Signature, Undecodable
  <2> HIDE DEF body
  <2>6. BodyOk(body, n)
    BY <2>2, <2>3 DEF BodyOk, HonestRecord, HonestInv
  <2>7. ProofOk(Proof(body, k), r.id, n)
    BY <2>3, <2>4, <2>5, <2>6 DEF ProofOk, Genuine
  <2>8. d.id = r.id /\ d.seq = r.seq /\ d.head = r.head /\ d.proof = Proof(body, k)
    BY <2>2 DEF RecordOk
  <2> HIDE DEF d
  <2>9. HonestRecord(s, d, n)
    BY <2>2, <2>7, <2>8 DEF HonestRecord
  <2>10. \A t \in Subjects : record'[t] = IF t = s THEN d ELSE record[t]
    BY <2>1 DEF TypeInv
  <2>11. CountsTo(log', Len(log')) /\ Len(log) <= Len(log')
    BY <1>2, <2>1 DEF HonestInv
  <2> QED
    BY <1>4, <2>1, <2>9, <2>10, <2>11
<1>8. ASSUME faults' = faults + 1 PROVE FALSE
  BY <1>8 DEF TypeInv
<1> QED
  BY <1>5, <1>6, <1>7, <1>8 DEF Server, Damage, CutLog

\* What alarms; a verdict without an alarm, and one whose requests were lost.
LEMMA Alarm ==
    ASSUME NEW t
    PROVE  TransparencyPanel(t).alarm =>
              \/ t.state = "error"
              \/ t.state = "done" /\ ~(t.inclusionOk /\ t.consistencyOk)
<1> DEFINE included   == t.state = "done" /\ t.inclusionOk
           appendOnly == t.state = "done" /\ t.consistencyOk
           alarm == \/ t.state = "error"
                    \/ t.state = "done" /\ ~(t.inclusionOk /\ t.consistencyOk)
<1>1. TransparencyPanel(t) = [included |-> included, appendOnly |-> appendOnly, alarm |-> alarm]
  BY DEF TransparencyPanel
<1> HIDE DEF included, appendOnly, alarm
<1>2. TransparencyPanel(t).alarm => alarm
  BY <1>1
<1> QED
  BY <1>2 DEF alarm

LEMMA QuietStatus ==
    ASSUME NEW c, NEW t,
           \/ t.state \notin {"error", "done"}
           \/ t.state = "error" /\ t.lost
    PROVE  HonestStatus(Verified(c, t))
<1>1. Verified(c, t).kind = "verified" /\ Verified(c, t).transparency = t
  BY DEF Verified
<1>2. TransparencyPanel(t).alarm => t.state = "error" /\ t.lost
  BY Alarm
<1> QED
  BY <1>1, <1>2 DEF HonestStatus

LEMMA QuietDone ==
    ASSUME NEW c, NEW head, NEW ok, c.included, ok
    PROVE  HonestStatus(Done(c, head, ok))
<1> DEFINE s == Done(c, head, ok)
           t == s.transparency
<1>1. s.kind = "verified" /\ t.state = "done" /\ t.inclusionOk = c.included
      /\ t.consistencyOk = ok
  BY DEF Done, Verified
<1> HIDE DEF s
<1>2. t.inclusionOk /\ t.consistencyOk
  BY <1>1
<1>3. ~TransparencyPanel(t).alarm
  BY <1>1, <1>2, Alarm
<1>4. HonestStatus(s)
  BY <1>1, <1>3 DEF HonestStatus
<1> QED
  BY <1>4 DEF s

\* Nothing an honest server keeps is refused.
LEMMA HonestAnswers ==
    ASSUME TypeInv, SoundInv, SignedInv, HonestInv, NEW g \in Gs, checks[g] # None,
           checks[g].waits # "proof"
    PROVE  LET c    == checks[g]
               body == c.proof.proof_body
           IN /\ BodyOk(body, Len(log)) /\ SizeOk(body.tree)
              /\ Len(body.tree) \in 1..MaxSize /\ Len(body.tree) <= Len(log)
              /\ body.decision_log_seq \in 1..Len(body.tree)
              /\ Answer(c) # Missing
<1> DEFINE c    == checks[g]
           body == c.proof.proof_body
           tree == body.tree
<1>1. HonestCheck(c, Len(log)) /\ c.waits \in Waits
  BY DEF HonestInv, TypeInv, PageInv
<1>2. BodyOk(body, Len(log)) /\ tree # <<>>
  BY <1>1 DEF HonestCheck
<1>3. SizeOk(tree)
  BY HeldTree
<1>4. Len(tree) \in 1..MaxSize
  BY <1>2, <1>3, NotEmpty, MaxSizeType DEF SizeOk
<1>5. /\ Len(tree) <= Len(log) /\ Len(log) \in Nat
      /\ body.decision_log_seq \in 1..Len(tree)
  BY <1>2 DEF BodyOk, CountsTo, TypeInv
<1>6. CASE c.waits = "inclusion"
  <2>1. Answer(c) = GetInclusion(body.decision_log_seq, Len(tree))
    BY <1>6, AnswerToInclusion
  <2>2. ~(Len(tree) > Len(log) \/ body.decision_log_seq > Len(tree))
    BY <1>4, <1>5
  <2>3. Answer(c).kind = "ok"
    BY <2>1, <2>2 DEF GetInclusion, Ok
  <2> QED
    BY <1>2, <1>3, <1>4, <1>5, <2>3 DEF Missing
<1>7. CASE c.waits = "head"
  <2>1. Answer(c) # Missing
    BY <1>7, AnswerToHead DEF Ok, Missing
  <2> QED
    BY <1>2, <1>3, <1>4, <1>5, <2>1
<1>8. CASE c.waits = "consistency"
  <2>1. Answer(c) = GetConsistency(Len(tree), Len(c.head))
    BY <1>8, AnswerToConsistency
  <2>2. Len(tree) < Len(c.head) /\ Len(c.head) <= Len(log) /\ Len(c.head) \in Nat
    BY <1>1, <1>8 DEF HonestCheck, CountsTo
  <2>3. Len(c.head) \in 1..Len(log) /\ Len(tree) \in 1..Len(c.head)
    BY <1>4, <1>5, <2>2, SMTT(30)
  <2>4. Answer(c) # Missing
    BY <2>1, <2>3 DEF GetConsistency, Ok, Missing
  <2> QED
    BY <1>2, <1>3, <1>4, <1>5, <2>4
<1> QED
  BY <1>1, <1>6, <1>7, <1>8 DEF Waits

\* Both proofs of an honest server verify.
LEMMA HonestInclusion ==
    ASSUME TypeInv, HonestInv, NEW body, BodyOk(body, Len(log)),
           Len(body.tree) \in 1..MaxSize, body.decision_log_seq \in 1..Len(body.tree)
    PROVE  VerifyInclusion(Hash(body.decision_log_head), body.decision_log_seq - 1,
                           Len(body.tree),
                           InclusionProof(SubSeq(log, 1, Len(body.tree)),
                                          body.decision_log_seq - 1),
                           Root(body.tree))
<1> DEFINE tree == body.tree
           seq  == body.decision_log_seq
<1>1. SubSeq(log, 1, Len(tree)) = tree
  BY EarlyLog DEF BodyOk, HonestInv
<1>2. seq - 1 \in 0..(Len(tree) - 1) /\ tree[(seq - 1) + 1] = seq
  BY DEF BodyOk, CountsTo
<1>3. body.decision_log_head = seq
  BY DEF BodyOk
<1> HIDE DEF tree, seq
<1>4. VerifyInclusion(Hash(tree[(seq - 1) + 1]), seq - 1, Len(tree),
                      InclusionProof(tree, seq - 1), Root(tree))
  BY <1>2, InclusionComplete DEF tree
<1>5. VerifyInclusion(Hash(seq), seq - 1, Len(tree), InclusionProof(tree, seq - 1), Root(tree))
  BY <1>2, <1>4
<1> QED
  BY <1>1, <1>3, <1>5 DEF tree, seq

LEMMA HonestConsistency ==
    ASSUME TypeInv, HonestInv, NEW tree, NEW head, CountsTo(tree, Len(log)),
           CountsTo(head, Len(log)), SizeOk(head), Len(tree) \in 1..MaxSize,
           Len(tree) < Len(head)
    PROVE  LET a == GetConsistency(Len(tree), Len(head)).value
           IN /\ a.root_to = Root(head)
              /\ VerifyConsistency(Len(tree), Len(head), a.proof, Root(tree), a.root_to)
<1> DEFINE a == GetConsistency(Len(tree), Len(head)).value
           m == Len(tree)
           n == Len(head)
<1>1. /\ n \in 1..MaxSize /\ n \in 1..Len(log) /\ m \in 1..n
  BY DEF CountsTo, SizeOk
<1>2. GetConsistency(m, n) = Ok([proof     |-> ConsistencyProof(SubSeq(log, 1, n), m),
                                root_from |-> Tree(log, 0, m),
                                root_to   |-> Tree(log, 0, n)])
  BY <1>1 DEF GetConsistency
<1>3. a.proof = ConsistencyProof(SubSeq(log, 1, n), m) /\ a.root_to = Tree(log, 0, n)
  BY <1>2 DEF Ok
<1>4. SubSeq(log, 1, n) = head /\ CountsTo(log, Len(log))
  BY EarlyLog DEF HonestInv
<1>5. Tree(log, 0, n) = Root(head)
  BY <1>1, <1>4, EarlyRoot
<1>6. Tree(head, 0, m) = Root(tree)
  <2>1. CountsTo(tree, Len(head))
    BY <1>1 DEF CountsTo
  <2> QED
    BY <1>1, <2>1, EarlyRoot
<1> HIDE DEF a
<1>7. VerifyConsistency(m, n, ConsistencyProof(head, m), Tree(head, 0, m), Root(head))
  BY <1>1, ConsistencyComplete
<1>8. VerifyConsistency(m, n, a.proof, Root(tree), a.root_to)
  BY <1>3, <1>4, <1>5, <1>6, <1>7
<1>9. a.root_to = Root(head)
  BY <1>3, <1>5
<1> QED
  BY <1>8, <1>9 DEF a

LEMMA HonestAsks ==
    ASSUME NEW g \in Gs, NEW c, NEW r \in Waits \ {"proof"}, NEW n, Asks(g, c, r),
           DOMAIN c = CheckFields, c.subject.spelling = "lower",
           BodyOk(c.proof.proof_body, n), c.proof.proof_body.tree # <<>>,
           r \in {"head", "consistency"} => c.included,
           r = "consistency" =>
              CountsTo(c.head, n) /\ Len(c.proof.proof_body.tree) < Len(c.head)
    PROVE  \E x : checks' = [checks EXCEPT ![g] = x] /\ HonestCheck(x, n)
<1> DEFINE x == [c EXCEPT !.waits = r]
<1>1. /\ x.waits = r /\ x.included = c.included /\ x.proof = c.proof /\ x.head = c.head
      /\ x.subject = c.subject
  BY DEF CheckFields
<1>2. checks' = [checks EXCEPT ![g] = x]
  BY DEF Asks
<1> HIDE DEF x
<1>3. HonestCheck(x, n)
  BY <1>1 DEF HonestCheck
<1> QED
  BY <1>2, <1>3

LEMMA HonestRespond ==
    ASSUME TypeInv, SignedInv, SoundInv, HonestInv, NEW g \in Gs, Respond(g)
    PROVE  /\ \E x : /\ checks' = [checks EXCEPT ![g] = x]
                     /\ x = None \/ HonestCheck(x, Len(log))
           /\ status' = status \/ HonestStatus(status')
<1> DEFINE c    == checks[g]
           body == c.proof.proof_body
           tree == body.tree
           n    == Len(log)
<1>1. PICK a \in Answers(g) : \/ HandleProof(g, a)
                              \/ TransparencyFails(g, a)
                              \/ HandleInclusion(g, a)
                              \/ HandleHead(g, a)
                              \/ HandleConsistency(g, a)
  BY DEF Respond
<1>2. c # None /\ a \in {Answer(c), Failed}
  BY DEF Answers
<1>3. /\ DOMAIN c = CheckFields /\ c.waits \in Waits /\ c.subject \in SubjectId
      /\ HonestCheck(c, n) /\ CheckSound(c)
  BY <1>2 DEF TypeInv, PageInv, HonestInv, SoundInv
<1>4. c.subject.spelling = "lower"
  BY <1>3 DEF HonestCheck
<1>5. c.waits # "proof" =>
         /\ BodyOk(body, n) /\ SizeOk(tree) /\ tree # <<>>
         /\ Len(tree) \in 1..MaxSize /\ Len(tree) <= n
         /\ body.decision_log_seq \in 1..Len(tree)
         /\ Answer(c) # Missing
  BY <1>2, <1>3, HonestAnswers DEF HonestCheck
<1>6. ASSUME NEW s, Put(g, s), HonestStatus(s)
      PROVE  status' = status \/ HonestStatus(status')
  BY <1>6 DEF Put
<1>7. ASSUME Ends(g)
      PROVE  \E x : checks' = [checks EXCEPT ![g] = x] /\ (x = None \/ HonestCheck(x, n))
  BY <1>7 DEF Ends
<1>8. CASE HandleProof(g, a)
  <2> DEFINE view  == a.value
             doc   == view.document
             known == [c EXCEPT !.proof = doc]
  <2>1. c.waits = "proof"
    BY <1>8 DEF HandleProof
  <2>2. CASE a = Missing /\ Put(g, [kind |-> "notfound"]) /\ Ends(g)
    BY <1>6, <1>7, <2>2 DEF HonestStatus
  <2>3. CASE a = Failed /\ Put(g, [kind |-> "error"]) /\ Ends(g)
    BY <1>6, <1>7, <2>3 DEF HonestStatus
  <2>4. CASE a.kind = "ok"
    <3> DEFINE s == c.subject.subject
    <3>1. a = GetProof(s)
      BY <1>2, <2>1, <2>4, AnswerToProof DEF Failed
    <3>2. record[s] # None /\ doc = record[s].proof
      BY <2>4, <3>1 DEF GetProof, Ok, Missing
    <3>3. s \in Subjects /\ c.subject = [subject |-> s, spelling |-> "lower"]
      BY <1>3, <1>4 DEF SubjectId
    <3>4. doc # None => ProofOk(doc, c.subject, n)
      BY <3>2, <3>3 DEF HonestInv, HonestRecord
    <3>5. CASE doc = None
      <4>1. Refusal(c, view) = [kind |-> "pending", subject |-> view.subject]
        BY <3>5 DEF Refusal
      <4>2. Refusal(c, view).kind = "pending"
        BY <4>1
      <4> HIDE DEF view
      <4>3. Refusal(c, view) # NotRefused
        <5>1. NotRefused.kind = ""
          BY DEF NotRefused
        <5> QED
          BY <4>2, <5>1
      <4>5. HonestStatus(Refusal(c, view))
        BY <4>2 DEF HonestStatus
      <4>4. Put(g, Refusal(c, view)) /\ Ends(g)
        BY <1>8, <2>4, <4>3 DEF HandleProof, Missing, Failed, view
      <4> QED
        BY <1>6, <1>7, <4>4, <4>5
    <3>6. CASE doc # None
      <4>1. Refusal(c, view) = NotRefused
        BY <3>4, <3>6 DEF Refusal, ProofOk, Genuine
      <4>2. /\ DOMAIN known = CheckFields /\ known.subject = c.subject /\ known.proof = doc
        BY <1>3 DEF CheckFields
      <4>3. IF known.proof.proof_body.tree = <<>>
            THEN Put(g, Verified(known, NoTransparency("unavailable"))) /\ Ends(g)
            ELSE /\ Put(g, Verified(known, NoTransparency("checking")))
                 /\ Asks(g, known, "inclusion")
        BY <1>8, <2>4, <4>1 DEF HandleProof, Missing, Failed
      <4>4. ASSUME NEW state, state \notin {"error", "done"}
            PROVE  HonestStatus(Verified(known, NoTransparency(state)))
        BY <4>4, QuietStatus DEF NoTransparency
      <4> HIDE DEF known
      <4>5. CASE Put(g, Verified(known, NoTransparency("unavailable"))) /\ Ends(g)
        BY <1>6, <1>7, <4>4, <4>5
      <4>6. CASE /\ known.proof.proof_body.tree # <<>>
                 /\ Put(g, Verified(known, NoTransparency("checking")))
                 /\ Asks(g, known, "inclusion")
        <5>1. BodyOk(known.proof.proof_body, n)
          BY <3>4, <3>6, <4>2 DEF ProofOk
        <5>2. \E x : checks' = [checks EXCEPT ![g] = x] /\ HonestCheck(x, n)
          BY <1>4, <4>2, <4>6, <5>1, HonestAsks DEF Waits
        <5> QED
          BY <1>6, <4>4, <4>6, <5>2
      <4> QED
        BY <4>3, <4>5, <4>6
    <3> QED
      BY <3>5, <3>6
  <2> QED
    BY <1>8, <2>2, <2>3, <2>4 DEF HandleProof
<1>9. CASE TransparencyFails(g, a)
  <2> DEFINE t == [state |-> "error", lost |-> a = Failed]
  <2>1. /\ c.waits # "proof" /\ a \in {Failed, Missing} /\ Ends(g)
        /\ Put(g, Verified(c, t))
    BY <1>9 DEF TransparencyFails
  <2>2. a = Failed
    BY <1>2, <1>5, <2>1
  <2>3. t.state = "error" /\ t.lost
    BY <2>2
  <2> HIDE DEF t
  <2>4. HonestStatus(Verified(c, t))
    BY <2>3, QuietStatus
  <2> QED
    BY <1>6, <1>7, <2>1, <2>4
<1>10. CASE HandleInclusion(g, a)
  <2> DEFINE index == a.value.leaf_index
             path  == a.value.audit_path
             included == VerifyInclusion(Hash(body.decision_log_head), index, Len(tree), path,
                                         Root(tree))
             d == [c EXCEPT !.included = included]
  <2>1. c.waits = "inclusion" /\ a.kind = "ok" /\ Asks(g, d, "head") /\ status' = status
    BY <1>10 DEF HandleInclusion
  <2>2. a = GetInclusion(body.decision_log_seq, Len(tree))
    BY <1>2, <2>1, AnswerToInclusion DEF Failed
  <2>3. /\ index = body.decision_log_seq - 1
        /\ path = InclusionProof(SubSeq(log, 1, Len(tree)), body.decision_log_seq - 1)
    BY <2>1, <2>2 DEF GetInclusion, Ok, Missing
  <2>4. included
    BY <1>5, <2>1, <2>3, HonestInclusion
  <2> HIDE DEF included
  <2>5. /\ DOMAIN d = CheckFields /\ d.included = included /\ d.proof = c.proof
        /\ d.subject = c.subject
    BY <1>3 DEF CheckFields
  <2> HIDE DEF d
  <2>6. \E x : checks' = [checks EXCEPT ![g] = x] /\ HonestCheck(x, n)
    BY <1>4, <1>5, <2>1, <2>4, <2>5, HonestAsks DEF Waits
  <2> QED
    BY <2>1, <2>6
<1>11. CASE HandleHead(g, a)
  <2> DEFINE head == a.value
             same == Len(head) = Len(tree) /\ Root(head) = Root(tree)
             d    == [c EXCEPT !.head = head]
  <2>1. c.waits = "head" /\ a.kind = "ok"
    BY <1>11 DEF HandleHead
  <2>2. head = log /\ CountsTo(head, n) /\ CountsTo(tree, n) /\ c.included
    BY <1>2, <1>3, <1>5, <2>1, AnswerToHead DEF Failed, Ok, HonestInv, HonestCheck, BodyOk
  <2>3. CASE Len(head) > Len(tree) /\ Asks(g, d, "consistency") /\ status' = status
    <3>1. /\ DOMAIN d = CheckFields /\ d.included = c.included /\ d.proof = c.proof
          /\ d.head = head /\ d.subject = c.subject
      BY <1>3 DEF CheckFields
    <3>2. Len(tree) < Len(head)
      BY <2>2, <2>3 DEF CountsTo
    <3> HIDE DEF d, head
    <3>3. \E x : checks' = [checks EXCEPT ![g] = x] /\ HonestCheck(x, n)
      BY <1>4, <1>5, <2>1, <2>2, <2>3, <3>1, <3>2, HonestAsks DEF Waits
    <3> QED
      BY <2>3, <3>3
  <2>4. CASE ~(Len(head) > Len(tree)) /\ Put(g, Done(c, head, same)) /\ Ends(g)
    <3>1. Len(head) = Len(tree)
      BY <1>5, <2>1, <2>2, <2>4 DEF CountsTo
    <3>2. head = tree
      BY <2>2, <3>1, CountedAlike
    <3>3. same
      BY <3>2
    <3> HIDE DEF same, head
    <3>4. HonestStatus(Done(c, head, same))
      BY <2>2, <3>3, QuietDone
    <3> QED
      BY <1>6, <1>7, <2>4, <3>4
  <2> QED
    BY <1>11, <2>3, <2>4 DEF HandleHead
<1>12. CASE HandleConsistency(g, a)
  <2> DEFINE head == c.head
             ok   == /\ a.value.root_to = Root(head)
                     /\ VerifyConsistency(Len(tree), Len(head), a.value.proof, Root(tree),
                                          a.value.root_to)
  <2>1. c.waits = "consistency" /\ a.kind = "ok" /\ Put(g, Done(c, head, ok)) /\ Ends(g)
    BY <1>12 DEF HandleConsistency
  <2>2. a = GetConsistency(Len(tree), Len(head))
    BY <1>2, <2>1, AnswerToConsistency DEF Failed
  <2>3. /\ CountsTo(head, n) /\ SizeOk(head) /\ Len(tree) < Len(head) /\ c.included
        /\ CountsTo(tree, n)
    BY <1>3, <1>5, <2>1 DEF CheckSound, HonestCheck, BodyOk
  <2>4. ok
    BY <1>5, <2>1, <2>2, <2>3, HonestConsistency
  <2> HIDE DEF ok, head
  <2>5. HonestStatus(Done(c, head, ok))
    BY <2>3, <2>4, QuietDone
  <2> QED
    BY <1>6, <1>7, <2>1, <2>5
<1> QED
  BY <1>1, <1>8, <1>9, <1>10, <1>11, <1>12

LEMMA HonestPage == TypeInv /\ SignedInv /\ SoundInv /\ HonestInv /\ Page => HonestInv'
<1> SUFFICES ASSUME TypeInv, SignedInv, SoundInv, HonestInv, Page PROVE HonestInv'
  OBVIOUS
<1>1. log' = log /\ cuts' = cuts /\ record' = record
  BY DEF Page, Visit, Leave, Respond, Download, server
<1>2. ASSUME \A h \in Gs : checks'[h] # None => HonestCheck(checks'[h], Len(log)),
             HonestStatus(status')
      PROVE  HonestInv'
  BY <1>1, <1>2 DEF HonestInv
<1>3. ASSUME NEW g \in Gs, NEW x, checks' = [checks EXCEPT ![g] = x],
             x = None \/ HonestCheck(x, Len(log)), status' = status \/ HonestStatus(status')
      PROVE  HonestInv'
  <2>1. \A h \in Gs : checks'[h] = IF h = g THEN x ELSE checks[h]
    BY <1>3 DEF TypeInv, PageInv
  <2>2. \A h \in Gs : checks'[h] # None => HonestCheck(checks'[h], Len(log))
    BY <1>3, <2>1 DEF HonestInv
  <2>3. HonestStatus(status')
    BY <1>3 DEF HonestInv
  <2> QED
    BY <1>2, <2>2, <2>3
<1>4. ASSUME NEW id \in Pasted, Visit(id) PROVE HonestInv'
  <2> DEFINE x == Check(LowerCase(id))
  <2>1. checks' = [checks EXCEPT ![generation + 1] = x] /\ status' = [kind |-> "loading"]
    BY <1>4 DEF Visit
  <2>2. LowerCase(id).spelling = "lower"
    BY ProofPageAssumption DEF LowerCase
  <2>3. x.subject.spelling = "lower" /\ x.waits = "proof"
    BY <2>2 DEF Check
  <2>4. HonestCheck(x, Len(log))
    BY <2>3 DEF HonestCheck
  <2>5. HonestStatus(status')
    BY <2>1 DEF HonestStatus
  <2>6. generation + 1 \in Gs
    BY <1>4, ProofPageAssumption DEF Visit, TypeInv, PageInv, Gs
  <2> HIDE DEF x
  <2> QED
    BY <1>3, <2>1, <2>4, <2>5, <2>6
<1>5. HonestStatus(Idle)
  BY DEF Idle, HonestStatus
<1>6. ASSUME Leave PROVE HonestInv'
  BY <1>2, <1>5, <1>6 DEF Leave, HonestInv
<1>7. ASSUME NEW g \in Gs, Respond(g) PROVE HonestInv'
  BY <1>3, <1>7, HonestRespond
<1>8. ASSUME Download PROVE HonestInv'
  BY <1>2, <1>5, <1>8 DEF Download, Gs
<1> QED
  BY <1>4, <1>6, <1>7, <1>8 DEF Page, Gs

UnlessFaults == faults = 0 => HonestInv

LEMMA HonestStep ==
    ErasedAs \subseteq {"lower"} /\ TypeInv /\ SignedInv /\ SoundInv /\ UnlessFaults /\ [Next]_vars
        => UnlessFaults'
<1> SUFFICES ASSUME ErasedAs \subseteq {"lower"}, TypeInv, SignedInv, SoundInv,
                    faults = 0 => HonestInv, [Next]_vars, faults' = 0
             PROVE  HonestInv'
  BY DEF UnlessFaults
<1>1. faults = 0
  <2>1. faults' = faults \/ faults' = faults + 1
    BY DEF Next, Server, Grow, Erase, AnchorProof, Damage, CutLog, Page, Visit, Leave, Respond,
           Download, Phone, vars, server
  <2> QED
    BY <2>1 DEF TypeInv
<1>2. Phone \/ UNCHANGED vars => UNCHANGED <<server, page>>
  BY DEF Phone, vars
<1>3. HonestInv /\ UNCHANGED <<server, page>> => HonestInv'
  BY DEF HonestInv, server, page
<1> QED
  BY <1>1, <1>2, <1>3, HonestServer, HonestPage DEF Next

\* No false alarm: as long as nothing stored was damaged and the log only
\* grew, a proof is never refused, and both transparency proofs verify at
\* every size and time unless a request was lost (package merkle and
\* verify.ts).  Erasures are requested in lower case; what one in upper case
\* does is shown by the run erasure_spelling.
THEOREM HonestCorrect == ErasedAs \subseteq {"lower"} => (Spec => []HonestServerPasses)
<1> SUFFICES ASSUME ErasedAs \subseteq {"lower"} PROVE Spec => []HonestServerPasses
  OBVIOUS
<1>1. Init => UnlessFaults
  BY HonestInit DEF UnlessFaults
<1>2. TypeInv /\ SignedInv /\ SoundInv /\ UnlessFaults /\ [Next]_vars => UnlessFaults'
  BY HonestStep
<1>3. UnlessFaults => HonestServerPasses
  BY DEF UnlessFaults, HonestInv, HonestStatus, HonestServerPasses
<1> QED
  BY <1>1, <1>2, <1>3, TypesHold, SignaturesHold, SoundHolds, PTL DEF Spec

=============================================================================
