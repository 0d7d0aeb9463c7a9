----------------------------- MODULE ProofPage ------------------------------
(***************************************************************************)
(* The /proof page (ProofVerifier.tsx, verify.ts) against the gateway it   *)
(* asks, and the phone app that re-verifies a downloaded certificate       *)
(* (mobile/src/verify.ts, mobile/App.tsx).                                 *)
(*                                                                         *)
(* A subject id is a subject in a spelling; its SHA-256 is the id itself.  *)
(* A row of the decision log is its chain hash, a number: its seq, plus    *)
(* Gap for every time the log was cut before it was written.  A Merkle     *)
(* root in a signed body is the list of leaves it commits to.  A signature *)
(* is the body signed and the key.  Every check of the page is a process   *)
(* with one request in flight; the gateway reads its tables and the page   *)
(* goes on in one step, at any time after the request: an answer handled   *)
(* later, on another route, only meets the generation guard, which a step  *)
(* taken then meets as well.                                               *)
(***************************************************************************)
EXTENDS Merkle

CONSTANTS Subjects,    \* the subjects asked about
          Pasted,      \* the ids a reader pastes, in the spellings pasted
          ErasedAs,    \* the spellings an erasure may be requested in
          Signers,     \* keys the service signs with
          Known,       \* KNOWN_SIGNERS, those the phone recognizes
          Elsewhere,   \* proofs signed elsewhere
          Demo,        \* one of them, bundled with the phone
          None,        \* no value
          MaxErased,   \* bound on the subjects among them that are erased
          MaxLog,      \* bound on the decision log
          MaxChecks,   \* bound on the checks the page starts
          MaxFaults    \* bound on damage to stored proofs, the log and files

ASSUME ProofPageAssumption ==
    /\ {MaxErased, MaxLog, MaxChecks, MaxFaults} \subseteq Nat
    /\ MaxLog <= Pow2[30]
    /\ None \notin Subjects \union Signers \union Known
    /\ Demo \in Elsewhere
    /\ ErasedAs \subseteq {"lower", "upper"}
    /\ Pasted \subseteq [subject : Subjects, spelling : {"lower", "upper"}]

VARIABLES log,        \* the decision log
          record,     \* erasure_record: each subject's row
          cuts,       \* how often the log was cut
          faults,
          signed,     \* observer: every signature ever made
          route,      \* the subject in the page's URL
          generation, \* the newest check
          checks,     \* the checks under way
          status,     \* what the page shows
          cert,       \* the certificate downloaded
          phone       \* the phone app

server == <<log, record, cuts, faults, signed>>
page   == <<route, generation, checks, status>>
vars   == <<server, page, cert, phone>>

Gap == 100
Spellings == {"lower", "upper"}
SubjectId == [subject : Subjects, spelling : Spellings]
KeepCase(id) == id          \* mutant: the id as it was pasted
LowerCase(id) == [id EXCEPT !.spelling = "lower"]
Chain(seq)    == seq + Gap * cuts

----------------------------------------------------------------------------
\* Answers to a request, and what a check waits for.
Failed  == [kind |-> "failed"]      \* the network, or an error status
Missing == [kind |-> "notfound"]    \* a 404
Ok(v)   == [kind |-> "ok", value |-> v]
Waits   == {"proof", "inclusion", "head", "consistency"}

\* A check under way: its subject, the request it waits for, and what it
\* has learnt so far.
Check(id) == [subject |-> id, waits |-> "proof",
              proof |-> None, included |-> FALSE, head |-> None]

Idle     == [kind |-> "idle"]
NoResult == [kind |-> "none"]
NotJson  == [kind |-> "text"]
NewPhone == [pasted |-> None, result |-> NoResult, error |-> FALSE]

\* A signed body; a legacy one has no tree fields.
Body(id, seq, head, tree, key) ==
    [subject_hash |-> id, decision_log_seq |-> seq, decision_log_head |-> head,
     tree |-> tree, signer_public_key |-> key]
Signature(body, key) == [over |-> body, by |-> key]
Undecodable == Signature(None, None)
Proof(body, key) == [proof_body |-> body, proof_signature |-> Signature(body, key),
                     signer_pubkey_pem |-> key]

\* What is signed elsewhere is signed like here, and no id or body is "no
\* value".
ASSUME ValuesAssumption ==
    /\ \A p \in Elsewhere : /\ p = Proof(p.proof_body, p.signer_pubkey_pem)
                            /\ p.proof_body.signer_public_key = p.signer_pubkey_pem
                            /\ None \notin {p.proof_body, p.signer_pubkey_pem}
                            /\ p.proof_body.tree \in Seq(Nat)
                            /\ Len(p.proof_body.tree) <= Pow2[30]
    /\ None \notin SubjectId
    /\ None \notin [subject_hash : SubjectId, decision_log_seq : Nat, decision_log_head : Nat,
                    tree : Seq(Nat), signer_public_key : Signers]

Certificate(p) == [proof_canonical |-> p.proof_body, signature |-> p.proof_signature,
                   signer_public_key_pem |-> p.signer_pubkey_pem]

\* The log has some rows; an old erasure may have been proved before the
\* tree fields existed.
Init ==
    /\ \E n \in 0..(MaxLog - 1) : log = [i \in 1..n |-> i]
    /\ cuts = 0 /\ faults = 0
    /\ \/ /\ record = [s \in Subjects |-> None]
          /\ signed = {p.proof_signature : p \in Elsewhere}
       \/ /\ log # <<>>
          /\ \E s \in Subjects, k \in Signers :
                LET id   == [subject |-> s, spelling |-> "lower"]
                    body == Body(id, 1, 1, <<>>, k)
                IN /\ record = [t \in Subjects |-> IF t = s
                                   THEN [id |-> id, seq |-> 1, head |-> 1,
                                         proof |-> Proof(body, k)]
                                   ELSE None]
                   /\ signed = {p.proof_signature : p \in Elsewhere} \union {Signature(body, k)}
    /\ route = None /\ generation = 0
    /\ checks = [g \in 1..MaxChecks |-> None]
    /\ status = Idle
    /\ cert = None
    /\ phone = NewPhone

----------------------------------------------------------------------------
\* The server.

\* Other subjects are erased: the log grows.
Grow(n) ==
    /\ n \in (Len(log) + 1)..MaxLog
    /\ log' = [i \in 1..n |-> IF i <= Len(log) THEN log[i] ELSE Chain(i)]
    /\ UNCHANGED <<record, cuts, faults, signed, page, cert, phone>>

Erase(s, spelling) ==
    /\ record[s] = None /\ Len(log) < MaxLog
    /\ Cardinality({t \in Subjects : record[t] # None}) < MaxErased
    /\ LET seq == Len(log) + 1
       IN /\ log' = Append(log, Chain(seq))
          /\ record' = [record EXCEPT ![s] =
                [id |-> [subject |-> s, spelling |-> spelling], seq |-> seq,
                 head |-> Chain(seq), proof |-> None]]
    /\ UNCHANGED <<cuts, faults, signed, page, cert, phone>>

\* The proof signs the root of the log as it is when the anchor is built.
AnchorProof(s, key) ==
    /\ record[s] # None /\ record[s].proof = None
    /\ LET r    == record[s]
           body == Body(r.id, r.seq, r.head, log, key)
       IN /\ record' = [record EXCEPT ![s].proof = Proof(body, key)]
          /\ signed' = signed \union {Signature(body, key)}
    /\ UNCHANGED <<log, cuts, faults, page, cert, phone>>

\* Faults: the stored proof is damaged or another signed one served, and the
\* log loses its last rows, after which new ones take their place.
DamagedProofs(s) ==
    LET p == record[s].proof
    IN {[p EXCEPT !.proof_body.decision_log_seq = @ + 1],
        [p EXCEPT !.proof_signature = Undecodable]}
       \union {Proof(other.over, other.by) :
                  other \in {o \in signed : o.over.subject_hash # record[s].id}}
Damage(s) ==
    /\ faults < MaxFaults
    /\ record[s] # None /\ record[s].proof # None
    /\ \E p \in DamagedProofs(s) : record' = [record EXCEPT ![s].proof = p]
    /\ faults' = faults + 1
    /\ UNCHANGED <<log, cuts, signed, page, cert, phone>>
CutLog(n) ==
    /\ faults < MaxFaults /\ n < Len(log)
    /\ log' = SubSeq(log, 1, n)
    /\ cuts' = cuts + 1 /\ faults' = faults + 1
    /\ UNCHANGED <<record, signed, page, cert, phone>>

Server == \/ \E n \in 1..MaxLog : Grow(n)
          \/ \E s \in Subjects, sp \in ErasedAs : Erase(s, sp)
          \/ \E s \in Subjects, k \in Signers : AnchorProof(s, k)
          \/ \E s \in Subjects : Damage(s)
          \/ \E n \in 0..MaxLog : CutLog(n)

----------------------------------------------------------------------------
\* The gateway's answers.

GetProof(s) == IF record[s] = None THEN Missing
               ELSE Ok([subject |-> s, document |-> record[s].proof])

GetInclusion(seq, size) ==
    IF size > Len(log) \/ seq > size THEN Missing
    ELSE Ok([leaf_index |-> seq - 1,
             audit_path |-> InclusionProof(SubSeq(log, 1, size), seq - 1),
             leaf_hash  |-> Hash(log[seq])])

GetTreeHead == Ok(log)     \* its length and its root

GetConsistency(from, to) ==
    LET size == IF to \in 1..Len(log) THEN to ELSE Len(log)
    IN IF from \notin 1..size THEN Missing
       ELSE Ok([proof     |-> ConsistencyProof(SubSeq(log, 1, size), from),
                root_from |-> Tree(log, 0, from),
                root_to   |-> Tree(log, 0, size)])

Answer(c) ==
    LET body == c.proof.proof_body
    IN CASE c.waits = "proof"       -> GetProof(c.subject.subject)
         [] c.waits = "inclusion"   -> GetInclusion(body.decision_log_seq, Len(body.tree))
         [] c.waits = "head"        -> GetTreeHead
         [] c.waits = "consistency" -> GetConsistency(Len(body.tree), Len(c.head))

\* Every request may also fail on the way.
Answers(g) == IF checks[g] = None THEN {} ELSE {Answer(checks[g]), Failed}

----------------------------------------------------------------------------
\* The page.

\* setStatus, for the newest check only.  The mutant: for a stale one too.
PutAnyway(g, s) == status' = s
Put(g, s) == status' = IF generation = g THEN s ELSE status
Ends(g)   == checks' = [checks EXCEPT ![g] = None]
Asks(g, c, request) == checks' = [checks EXCEPT ![g] = [c EXCEPT !.waits = request]]

\* A mutant: the generation is not bumped.
VisitSameGeneration(id) ==
    /\ generation < MaxChecks /\ route # id
    /\ route' = id
    /\ checks' = [checks EXCEPT ![generation + 1] = Check(LowerCase(id))]
    /\ status' = [kind |-> "loading"]
    /\ UNCHANGED <<server, generation, cert, phone>>

\* The reader opens the page of an id, in the spelling pasted.
Visit(id) ==
    /\ generation < MaxChecks /\ route # id
    /\ route' = id
    /\ generation' = generation + 1
    /\ checks' = [checks EXCEPT ![generation + 1] = Check(LowerCase(id))]
    /\ status' = [kind |-> "loading"]
    /\ UNCHANGED <<server, cert, phone>>

\* Back to the page without an id: a check under way is stale, but goes on.
Leave ==
    /\ route # None
    /\ route' = None
    /\ generation' = generation + 1
    /\ status' = Idle
    /\ UNCHANGED <<server, checks, cert, phone>>

Verified(c, transparency) ==
    [kind |-> "verified", document |-> c.proof, transparency |-> transparency]
NoTransparency(state) == [state |-> state, lost |-> FALSE]

\* transparencyPanel: what the reader is told of the log.
TransparencyPanel(t) ==
    [included   |-> t.state = "done" /\ t.inclusionOk,
     appendOnly |-> t.state = "done" /\ t.consistencyOk,
     alarm      |-> \/ t.state = "error"
                    \/ t.state = "done" /\ ~(t.inclusionOk /\ t.consistencyOk)]

NotRefused == [kind |-> ""]

\* A mutant: the signature is decoded, but not compared.
RefusalUnverified(c, view) ==
    IF view.document = None THEN [kind |-> "pending", subject |-> view.subject]
    ELSE IF view.document.proof_signature = Undecodable THEN [kind |-> "malformed"]
    ELSE IF view.document.proof_body.subject_hash # c.subject
    THEN [kind |-> "mismatch", want |-> c.subject,
          got |-> view.document.proof_body.subject_hash]
    ELSE NotRefused

\* What a proof without a verdict on its log says.
Refusal(c, view) ==
    LET d == view.document
    IN IF d = None THEN [kind |-> "pending", subject |-> view.subject]
       ELSE IF d.proof_signature = Undecodable THEN [kind |-> "malformed"]
       ELSE IF d.proof_signature # Signature(d.proof_body, d.signer_pubkey_pem)
       THEN [kind |-> "failed"]
       ELSE IF d.proof_body.subject_hash # c.subject
       THEN [kind |-> "mismatch", want |-> c.subject, got |-> d.proof_body.subject_hash]
       ELSE NotRefused

HandleProof(g, a) ==
    LET c     == checks[g]
        known == [c EXCEPT !.proof = a.value.document]
    IN /\ c.waits = "proof"
       /\ \/ a = Missing /\ Put(g, [kind |-> "notfound"]) /\ Ends(g)
          \/ a = Failed /\ Put(g, [kind |-> "error"]) /\ Ends(g)
          \/ /\ a.kind = "ok" /\ Refusal(c, a.value) # NotRefused
             /\ Put(g, Refusal(c, a.value)) /\ Ends(g)
          \/ /\ a.kind = "ok" /\ Refusal(c, a.value) = NotRefused
             /\ IF known.proof.proof_body.tree = <<>>
                THEN Put(g, Verified(known, NoTransparency("unavailable"))) /\ Ends(g)
                ELSE /\ Put(g, Verified(known, NoTransparency("checking")))
                     /\ Asks(g, known, "inclusion")

\* A mutant: the catch shows nothing.
TransparencyDies(g, a) ==
    /\ checks[g].waits # "proof" /\ a \in {Failed, Missing}
    /\ status' = status
    /\ Ends(g)

\* checkTransparency: a request that fails, or a 404, ends it.
TransparencyFails(g, a) ==
    /\ checks[g].waits # "proof" /\ a \in {Failed, Missing}
    /\ Put(g, Verified(checks[g], [state |-> "error", lost |-> a = Failed]))
    /\ Ends(g)

HandleInclusion(g, a) ==
    LET c    == checks[g]
        body == c.proof.proof_body
    IN /\ c.waits = "inclusion" /\ a.kind = "ok"
       /\ Asks(g, [c EXCEPT !.included =
                      VerifyInclusion(Hash(body.decision_log_head), a.value.leaf_index,
                                      Len(body.tree), a.value.audit_path, Root(body.tree))],
               "head")
       /\ status' = status

Done(c, head, consistent) ==
    Verified(c, [state |-> "done", inclusionOk |-> c.included,
                 consistencyOk |-> consistent, served |-> head])

HandleHead(g, a) ==
    LET c    == checks[g]
        tree == c.proof.proof_body.tree
        head == a.value
    IN /\ c.waits = "head" /\ a.kind = "ok"
       /\ IF Len(head) > Len(tree)
          THEN Asks(g, [c EXCEPT !.head = head], "consistency") /\ status' = status
          ELSE /\ Put(g, Done(c, head, Len(head) = Len(tree) /\ Root(head) = Root(tree)))
               /\ Ends(g)

\* A mutant: the old root is the one the server states.
HandleConsistencyAsServed(g, a) ==
    LET c    == checks[g]
        tree == c.proof.proof_body.tree
    IN /\ c.waits = "consistency" /\ a.kind = "ok"
       /\ Put(g, Done(c, c.head,
                 /\ a.value.root_to = Root(c.head)
                 /\ VerifyConsistency(Len(tree), Len(c.head), a.value.proof,
                                      a.value.root_from, a.value.root_to)))
       /\ Ends(g)

HandleConsistency(g, a) ==
    LET c    == checks[g]
        tree == c.proof.proof_body.tree
    IN /\ c.waits = "consistency" /\ a.kind = "ok"
       /\ Put(g, Done(c, c.head,
                 /\ a.value.root_to = Root(c.head)
                 /\ VerifyConsistency(Len(tree), Len(c.head), a.value.proof,
                                      Root(tree), a.value.root_to)))
       /\ Ends(g)

\* The answer to the request of a check, and what the page does with it.
Respond(g) ==
    /\ \E a \in Answers(g) : \/ HandleProof(g, a)
                             \/ TransparencyFails(g, a)
                             \/ HandleInclusion(g, a)
                             \/ HandleHead(g, a)
                             \/ HandleConsistency(g, a)
    /\ UNCHANGED <<server, route, generation, cert, phone>>

\* "Download the signed proof": the reader takes it away and closes the
\* page, whose requests die with it.
Download ==
    /\ status.kind = "verified"
    /\ cert' = Certificate(status.document)
    /\ route' = None
    /\ checks' = [g \in 1..MaxChecks |-> None]
    /\ status' = Idle
    /\ UNCHANGED <<server, generation, phone>>

Page == \/ \E id \in Pasted : Visit(id)
        \/ Leave
        \/ \E g \in 1..MaxChecks : Respond(g)
        \/ Download

----------------------------------------------------------------------------
\* The phone.

\* The files the text field may hold: a certificate as downloaded, one
\* damaged on the way, text that is no JSON, or nothing.
Files ==
    LET certs == {Certificate(p) : p \in Elsewhere} \union {cert}
    IN {None, NotJson} \union certs
       \union {[c EXCEPT !.signer_public_key_pem = k] : c \in certs, k \in Known \union {None}}
       \union {[cert EXCEPT !.proof_canonical = None],
               [cert EXCEPT !.proof_canonical.decision_log_seq = @ + 1],
               [cert EXCEPT !.proof_canonical.signer_public_key = None],
               [cert EXCEPT !.signature = Undecodable]}

\* The key is the one the signed bytes embed, or else the outer field.
VerifyKey(f) == IF f.proof_canonical.signer_public_key # None
                THEN f.proof_canonical.signer_public_key
                ELSE f.signer_public_key_pem
TrustedByField(f) == f.signer_public_key_pem \in Known   \* mutant: the outer field
Trusted(f)   == VerifyKey(f) \in Known

VerifyProof(f) ==
    IF \/ f.proof_canonical = None \/ f.signature = Undecodable
       \/ VerifyKey(f) = None
    THEN [kind |-> "malformed"]
    ELSE IF f.signature # Signature(f.proof_canonical, VerifyKey(f))
    THEN [kind |-> "invalid"]
    ELSE [kind |-> "verified", facts |-> f.proof_canonical, signerTrusted |-> Trusted(f)]

Edit(f) ==
    /\ f \in Files
    /\ phone' = [phone EXCEPT !.pasted = f]

RunVerify(f) == [pasted |-> f, result |-> VerifyProof(f), error |-> FALSE]

VerifyPasted ==
    phone' = IF phone.pasted \in {None, NotJson}
             THEN [phone EXCEPT !.result = NoResult, !.error = TRUE]
             ELSE RunVerify(phone.pasted)

LoadDemo == phone' = RunVerify(Certificate(Demo))
Clear    == phone' = NewPhone

\* The verdict on the screen.
PhoneSays == CASE phone.result.kind = "verified" ->
                    IF phone.result.signerTrusted THEN "recognized signer"
                                                  ELSE "signer not recognized"
               [] OTHER -> phone.result.kind

Phone == /\ \/ \E f \in Files : Edit(f)
            \/ VerifyPasted
            \/ LoadDemo
            \/ Clear
         /\ UNCHANGED <<server, page, cert>>

----------------------------------------------------------------------------
\* The phone shares nothing with the rest but the file: its steps follow
\* the download, and the rest rests from then on.
Next == \/ cert = None /\ (Server \/ Page)
        \/ cert # None /\ Phone

Spec == Init /\ [][Next]_vars

\* Every request is answered or fails, and the page takes its answer.
FairSpec == /\ Spec
            /\ \A g \in 1..MaxChecks : WF_vars(Respond(g))

----------------------------------------------------------------------------
\* Properties.

\* Every variable has its type; the checks a page can have under way are
\* those up to its generation.
TypeOK ==
    /\ log \in Seq(Nat) /\ cuts \in Nat /\ faults \in 0..MaxFaults
    /\ DOMAIN record = Subjects
    /\ route \in SubjectId \union {None}
    /\ generation \in 0..(MaxChecks + 1)
    /\ DOMAIN checks = 1..MaxChecks
    /\ \A g \in 1..MaxChecks : checks[g] # None =>
          /\ g <= generation
          /\ checks[g].subject \in SubjectId
          /\ checks[g].waits \in Waits
    /\ status.kind \in {"idle", "loading", "notfound", "error", "pending", "malformed",
                        "failed", "mismatch", "verified"}
    /\ phone.error \in BOOLEAN

\* What the page shows is about the subject of its URL, whatever answers of
\* earlier checks arrive late: a verified body names it, a mismatch was
\* against it, and a pending erasure is its own.
VerdictIsOfTheRoute ==
    /\ route = None => status = Idle
    /\ status.kind = "verified" =>
          status.document.proof_body.subject_hash = LowerCase(route)
    /\ status.kind = "mismatch" => status.want = LowerCase(route)
    /\ status.kind = "pending"  => status.subject = route.subject

\* A genuine proof never alarms: while nothing stored was damaged and the
\* log only grew, at whatever sizes and whenever the requests of a check
\* were answered, the signature holds, the subject matches, and both
\* transparency proofs verify unless a request was lost.
HonestServerPasses ==
    faults = 0 =>
        /\ status.kind \notin {"malformed", "failed", "mismatch"}
        /\ status.kind = "verified" /\ TransparencyPanel(status.transparency).alarm =>
              status.transparency.state = "error" /\ status.transparency.lost

\* What the panel says of the log is so: an included head is a leaf of the
\* signed tree, and a log called append-only starts with that whole tree.
TransparencyIsSound ==
    status.kind = "verified" =>
        LET body  == status.document.proof_body
            t     == status.transparency
            panel == TransparencyPanel(t)
        IN /\ panel.included => \E i \in DOMAIN body.tree : body.tree[i] = body.decision_log_head
           /\ panel.appendOnly => /\ Len(body.tree) <= Len(t.served)
                                  /\ SubSeq(t.served, 1, Len(body.tree)) = body.tree

\* A verdict under a recognized signer shows facts which that signer signed.
TrustedFactsWereSigned ==
    PhoneSays = "recognized signer" =>
        \E k \in Known : Signature(phone.result.facts, k) \in signed

\* A certificate the page verified and nobody changed verifies offline too,
\* with the same facts.
DownloadVerifiesOffline ==
    [][cert # None /\ phone.pasted = cert /\ VerifyPasted =>
          /\ phone'.result.kind = "verified"
          /\ phone'.result.facts = cert.proof_canonical]_vars

\* A check that was started ends: the page neither loads nor verifies the
\* log for ever.
Pending == \/ status.kind = "loading"
           \/ status.kind = "verified" /\ status.transparency.state = "checking"
EveryCheckEnds == Pending ~> ~Pending
=============================================================================
