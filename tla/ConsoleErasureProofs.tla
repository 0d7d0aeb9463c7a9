------------------------- MODULE ConsoleErasureProofs -------------------------
(***************************************************************************)
(* What the console shows as an erasure is one erasure, and what the next  *)
(* stage acts on is what is shown, on either backend and for any number of *)
(* flows that overlap.                                                     *)
(*                                                                         *)
(* Against the gateway each flow carries its own subject.  The mock has    *)
(* one subject for all: there it takes that no other stage runs, and that  *)
(* nothing comes between the calls after the signature.                    *)
(***************************************************************************)
EXTENDS ConsoleProofs

EraseOps == {"erase", "signed", "getMemory", "getKey", "getProof", "search"}

Gone(v, s)   == v.subject = s /\ ~v.embedding /\ ~v.key
Signs(p, s)  == p = [subject |-> s, signs |-> s]

\* A proof read after the erasure that answered e: signed, or pending as e
\* said.
Proves(p, e) == \/ Signs(p, e.subject)
                \/ e.pending /\ p = [subject |-> e.subject, signs |-> None]

\* What POST /erase answers of subject s: it is erased for good, and anchored
\* for good unless the answer says that its proof is pending.
Recorded(e, s, gw) == /\ e.subject = s /\ s \in gw.erased
                      /\ ~e.pending => s \in gw.anchored

\* A flow is at a call of its own.
OpOk(k) == /\ k.flow = "erase" => k.op \in EraseOps
           /\ k.op \in {"erase", "signed", "getProof"} => k.flow = "erase"
           /\ k.op \in {"write", "written"} => k.flow = "writer"

\* What an erase flow knows of its subject at each of its calls: over HTTP,
\* where an erasure that was answered as anchored is read back signed,
HttpOk(k, gw) ==
    /\ k.op \notin {"signed", "written"}
    /\ k.op = "erase" /\ HasAnswer(k) => Recorded(k.answer.value, k.subject, gw)
    /\ k.flow = "erase" =>
          /\ k.op # "erase" => Recorded(k.erased, k.subject, gw)
          /\ k.op = "getKey" => ~k.view.embedding
          /\ k.op = "getKey" /\ HasAnswer(k) => Gone(k.answer.value, k.subject)
          /\ k.op \in {"getProof", "search"} => Gone(k.view, k.subject)
          /\ k.op = "getProof" /\ HasAnswer(k) => Proves(k.answer.value, k.erased)
          /\ k.op = "search" => Proves(k.proof, k.erased)

\* and on the mock, whose subject may be another one's by now.
MockOk(k, mk) ==
    /\ k.op # "getKey"
    /\ k.op = "erase" => ~HasAnswer(k)
    /\ k.op = "signed" /\ HasAnswer(k) =>
          k.answer.value = k.erased /\ mk.signed = k.erased.subject
    /\ k.op = "signed" \/ (k.flow = "erase" /\ k.op # "erase") =>
          (mk.erased => mk.subject = k.erased.subject)
    /\ k.flow = "erase" =>
          /\ k.op \in {"getMemory", "getProof", "search"} => mk.signed = k.erased.subject
          /\ k.op = "getMemory" /\ HasAnswer(k) /\ mk.erased =>
                Gone(k.answer.value, k.erased.subject)
          /\ k.op = "getProof" /\ mk.erased => Gone(k.view, k.erased.subject)
          /\ k.op = "getProof" /\ HasAnswer(k) =>
                mk.erased /\ Signs(k.answer.value, k.erased.subject)
          /\ k.op = "search" =>
                Gone(k.view, k.erased.subject) /\ Signs(k.proof, k.erased.subject)

FlowOk(k, gw, mk, be) == /\ OpOk(k)
                         /\ be = "http" => HttpOk(k, gw)
                         /\ be = "mock" => MockOk(k, mk)

\* On the mock there is one stage at a time, and it is shown running.
StageOk(ts, pg) ==
    /\ \A t \in Slots : ts[t] # NoTask /\ ts[t].flow \in Stages => ts[t].flow \in pg.running
    /\ \A t, u \in Slots : (/\ ts[t] # NoTask /\ ts[t].flow \in Stages
                            /\ ts[u] # NoTask /\ ts[u].flow \in Stages) => t = u

ShownWhole(pg, be) ==
    pg.erase # None => /\ Gone(pg.after, pg.erase.subject)
                       /\ Proves(pg.proof, pg.erase)
                       /\ be = "mock" => Signs(pg.proof, pg.erase.subject)

FlowsOk == \A t \in Slots : tasks[t] # NoTask => FlowOk(tasks[t], gateway, mock, backend)

WholeInv == /\ backend \in {"http", "mock"}
            /\ DOMAIN mock = MockFields
            /\ FlowsOk
            /\ backend = "mock" => StageOk(tasks, page)
            /\ ShownWhole(page, backend)

LEMMA WholeImplies == WholeInv => ErasureIsShownWhole
  BY DEF WholeInv, ShownWhole, ErasureIsShownWhole, ErasePanel, Gone, Signs, Proves

LEMMA WholeInit == Init => WholeInv
<1> SUFFICES ASSUME Init PROVE WholeInv
  OBVIOUS
<1>1. (\A t \in Slots : tasks[t] = NoTask) /\ backend \in {"http", "mock"}
  BY DEF Init, BackendsInit
<1>2. page.erase = None
  BY DEF Init, InitialPage
<1>3. DOMAIN mock = MockFields
  BY DEF Init, BackendsInit, MockFields
<1>4. FlowsOk /\ StageOk(tasks, page) /\ ShownWhole(page, backend)
  BY <1>1, <1>2 DEF FlowsOk, StageOk, ShownWhole
<1> QED
  BY <1>1, <1>3, <1>4 DEF WholeInv

----------------------------------------------------------------------------
\* How flows stay in order.

\* The fields FlowOk looks at.
LEMMA SameFlow ==
    ASSUME NEW k, NEW n, NEW gw, NEW mk, NEW be, FlowOk(k, gw, mk, be),
           n.flow = k.flow, n.op = k.op, n.answer = k.answer, n.subject = k.subject,
           n.view = k.view, n.erased = k.erased, n.proof = k.proof
    PROVE  FlowOk(n, gw, mk, be)
  BY DEF FlowOk, OpOk, HttpOk, MockOk, HasAnswer

\* A flow other than the erasure, at a call of its own.
LEMMA OtherFlow ==
    ASSUME NEW k, NEW gw, NEW mk, NEW be, k.flow # "erase",
           k.op \notin {"erase", "signed", "getProof", "write", "written"},
           be = "mock" => k.op # "getKey"
    PROVE  FlowOk(k, gw, mk, be)
  BY DEF FlowOk, OpOk, HttpOk, MockOk

LEMMA MoreErased ==
    ASSUME NEW k, NEW gw, NEW gw2, NEW mk, NEW be, FlowOk(k, gw, mk, be),
           gw.erased \subseteq gw2.erased, gw.anchored \subseteq gw2.anchored
    PROVE  FlowOk(k, gw2, mk, be)
  BY DEF FlowOk, HttpOk, Recorded

LEMMA FlowBegins ==
    ASSUME NEW flow \in Flows, NEW auto, NEW gw, NEW mk, NEW be
    PROVE  FlowOk(Task(flow, auto), gw, mk, be)
<1>1. /\ FirstCall[flow] \notin {"signed", "getProof", "written", "getKey"}
      /\ FirstCall[flow] = "erase" <=> flow = "erase"
      /\ FirstCall[flow] = "write" <=> flow = "writer"
  BY DEF FirstCall, Flows, Stages, OfSubject, Loaders
<1>2. /\ Task(flow, auto).flow = flow /\ Task(flow, auto).op = FirstCall[flow]
      /\ Task(flow, auto).answer = None
  BY DEF Task
<1>3. flow = "erase" => FirstCall[flow] = "erase"
  BY <1>1
<1> QED
  BY <1>1, <1>2, <1>3 DEF FlowOk, OpOk, HttpOk, MockOk, HasAnswer, EraseOps

\* A flow begins, goes on or ends: marked as crossed or not, it is the same.
LEMMA BecomesSame ==
    ASSUME ConsoleInv, NEW t, NEW k, Becomes(t, k), k # NoTask => DOMAIN k = TaskFields,
           NEW u \in Slots, tasks'[u] # NoTask
    PROVE  LET old == IF u = t THEN k ELSE tasks[u]
               new == tasks'[u]
           IN /\ old # NoTask /\ new.flow = old.flow /\ new.op = old.op
              /\ new.answer = old.answer /\ new.subject = old.subject
              /\ new.view = old.view /\ new.erased = old.erased /\ new.proof = old.proof
<1> DEFINE ts == [tasks EXCEPT ![t] = k]
           old == IF u = t THEN k ELSE tasks[u]
           marked == [old EXCEPT !.crossed = TRUE]
<1>1. ts[u] = old /\ (old # NoTask => DOMAIN old = TaskFields)
  BY DEF ConsoleInv, TasksOk, TaskOk
<1>2. tasks' = Mark(ts)
  BY DEF Becomes
<1> HIDE DEF ts, old
<1>3. \/ tasks' = ts
      \/ tasks' = [w \in Slots |-> IF w \in Running(ts, OfSubject)
                                   THEN [ts[w] EXCEPT !.crossed = TRUE] ELSE ts[w]]
  BY <1>2 DEF Mark
<1>4. tasks'[u] = old \/ (tasks'[u] = marked /\ old # NoTask)
  BY <1>1, <1>3 DEF Running
<1>5. old # NoTask
  BY <1>4
<1>6. DOMAIN old = TaskFields
  BY <1>1, <1>5
<1>7. /\ marked.flow = old.flow /\ marked.op = old.op /\ marked.answer = old.answer
      /\ marked.subject = old.subject /\ marked.view = old.view
      /\ marked.erased = old.erased /\ marked.proof = old.proof
  BY <1>6 DEF TaskFields
<1> HIDE DEF marked
<1>8. /\ old # NoTask /\ tasks'[u].flow = old.flow /\ tasks'[u].op = old.op
      /\ tasks'[u].answer = old.answer /\ tasks'[u].subject = old.subject
      /\ tasks'[u].view = old.view /\ tasks'[u].erased = old.erased
      /\ tasks'[u].proof = old.proof
  BY <1>4, <1>5, <1>7
<1> QED
  BY <1>8 DEF old

LEMMA BecomesFlow ==
    ASSUME ConsoleInv, FlowsOk, NEW t, NEW k, Becomes(t, k),
           k # NoTask => /\ DOMAIN k = TaskFields
                         /\ FlowOk(k, gateway, mock, backend),
           UNCHANGED <<gateway, mock, backend>>
    PROVE  FlowsOk'
<1> SUFFICES ASSUME NEW u \in Slots, tasks'[u] # NoTask
             PROVE  FlowOk(tasks'[u], gateway, mock, backend)
  BY DEF FlowsOk
<1> DEFINE old == IF u = t THEN k ELSE tasks[u]
<1>1. /\ old # NoTask /\ tasks'[u].flow = old.flow /\ tasks'[u].op = old.op
      /\ tasks'[u].answer = old.answer /\ tasks'[u].subject = old.subject
      /\ tasks'[u].view = old.view /\ tasks'[u].erased = old.erased
      /\ tasks'[u].proof = old.proof
  BY BecomesSame
<1>2. FlowOk(old, gateway, mock, backend)
  BY <1>1 DEF FlowsOk
<1> HIDE DEF old
<1> QED
  BY <1>1, <1>2, SameFlow

\* Whether there is another stage than t's.
Alone(t) == \A u \in Slots \ {t} : tasks[u] # NoTask => tasks[u].flow \notin Stages

LEMMA BecomesStage ==
    ASSUME ConsoleInv, StageOk(tasks, page), NEW t, NEW k, Becomes(t, k),
           k # NoTask => /\ DOMAIN k = TaskFields
                         /\ k.flow \in Stages => k.flow \in page'.running /\ Alone(t),
           \A u \in Slots \ {t} : tasks[u] # NoTask /\ tasks[u].flow \in Stages =>
               tasks[u].flow \in page'.running
    PROVE  StageOk(tasks', page')
<1> DEFINE old(u) == IF u = t THEN k ELSE tasks[u]
<1>1. \A u \in Slots : tasks'[u] # NoTask => old(u) # NoTask /\ tasks'[u].flow = old(u).flow
  BY BecomesSame
<1>2. ASSUME NEW u \in Slots, tasks'[u] # NoTask, tasks'[u].flow \in Stages
      PROVE  tasks'[u].flow \in page'.running
  BY <1>1, <1>2
<1>3. ASSUME NEW u \in Slots, tasks'[u] # NoTask, tasks'[u].flow \in Stages,
             NEW w \in Slots, tasks'[w] # NoTask, tasks'[w].flow \in Stages
      PROVE  u = w
  <2>1. CASE u # t /\ w # t
    BY <1>1, <1>3, <2>1 DEF StageOk
  <2>2. CASE u = t \/ w = t
    BY <1>1, <1>3, <2>2 DEF Alone
  <2> QED
    BY <2>1, <2>2
<1> QED
  BY <1>2, <1>3 DEF StageOk

\* A stage is the only one.
LEMMA StageAlone ==
    ASSUME NEW t \in Slots, StageOk(tasks, page), tasks[t] # NoTask, tasks[t].flow \in Stages
    PROVE  Alone(t)
  BY DEF StageOk, Alone

----------------------------------------------------------------------------
\* A call is served.

LEMMA OneFlow ==
    ASSUME ConsoleInv, FlowsOk, NEW t \in Slots, NEW k, tasks' = [tasks EXCEPT ![t] = k],
           FlowOk(k, gateway', mock', backend), UNCHANGED backend,
           \A u \in Slots \ {t} : tasks[u] # NoTask => FlowOk(tasks[u], gateway', mock', backend)
    PROVE  FlowsOk'
<1>1. ASSUME NEW u \in Slots, tasks'[u] # NoTask
      PROVE  FlowOk(tasks'[u], gateway', mock', backend')
  <2>1. DOMAIN tasks = Slots
    BY DEF ConsoleInv, TasksOk
  <2> QED
    BY <1>1, <2>1
<1> QED
  BY <1>1 DEF FlowsOk

\* What an answer to task k may say: as FlowOk, of k with that answer.
LEMMA AnswerFlow ==
    ASSUME ConsoleInv, FlowsOk, NEW t \in Slots, tasks[t] # NoTask, NEW a, Answered(t, a),
           UNCHANGED backend,
           FlowOk([tasks[t] EXCEPT !.answer = a], gateway', mock', backend),
           \A u \in Slots \ {t} : tasks[u] # NoTask => FlowOk(tasks[u], gateway', mock', backend)
    PROVE  FlowsOk'
<1> DEFINE k == [tasks[t] EXCEPT !.answer = a]
<1>1. tasks' = [tasks EXCEPT ![t] = k]
  BY DEF Answered
<1>2. FlowOk(k, gateway', mock', backend)
  OBVIOUS
<1> HIDE DEF k
<1> QED
  BY <1>1, <1>2, OneFlow

LEMMA AnswerFields ==
    ASSUME NEW k, NEW a, DOMAIN k = TaskFields
    PROVE  LET n == [k EXCEPT !.answer = a]
           IN /\ n.answer = a /\ n.flow = k.flow /\ n.op = k.op /\ n.subject = k.subject
              /\ n.view = k.view /\ n.erased = k.erased /\ n.proof = k.proof
  BY DEF TaskFields

\* A failure, or the answer to a call no erasure makes.
LEMMA PlainAnswer ==
    ASSUME NEW k, NEW a, DOMAIN k = TaskFields, NEW gw, NEW mk, NEW be,
           FlowOk(k, gw, mk, be),
           \/ a = Failed
           \/ k.op \notin {"erase", "signed", "getMemory", "getKey", "getProof"}
    PROVE  FlowOk([k EXCEPT !.answer = a], gw, mk, be)
<1> DEFINE n == [k EXCEPT !.answer = a]
<1>1. /\ n.answer = a /\ n.flow = k.flow /\ n.op = k.op /\ n.subject = k.subject
      /\ n.view = k.view /\ n.erased = k.erased /\ n.proof = k.proof
  BY AnswerFields
<1> HIDE DEF n
<1>2. OpOk(n)
  BY <1>1 DEF FlowOk, OpOk
<1>3. be = "http" => HttpOk(n, gw)
  BY <1>1 DEF FlowOk, HttpOk, HasAnswer
<1>4. be = "mock" => MockOk(n, mk)
  BY <1>1 DEF FlowOk, MockOk, HasAnswer
<1>5. FlowOk(n, gw, mk, be)
  BY <1>2, <1>3, <1>4 DEF FlowOk
<1> QED
  BY <1>5 DEF n

\* No call takes a proof back.
LEMMA AnchoredStays ==
    ASSUME ConsoleInv, NEW t \in Slots, Gateway(t)
    PROVE  gateway.anchored \subseteq gateway'.anchored
<1>1. CASE Erase(t)
  BY <1>1, EraseIs, EraseStepIs
<1>2. CASE Ingest(t) \/ WriteMemory(t)
  <2>1. \E vector : gateway' = [gateway EXCEPT !.memories = Append(@, vector)]
    BY <1>2 DEF Ingest, WriteMemory, Stores
  <2> QED
    BY <2>1 DEF ConsoleInv, GatewayOk
<1>3. CASE StartInversion(t)
  <2>1. \/ UNCHANGED gateway
        \/ \E job : gateway' = [gateway EXCEPT !.job = job]
    BY <1>3 DEF StartInversion
  <2> QED
    BY <2>1 DEF ConsoleInv, GatewayOk
<1>4. CASE ~(Erase(t) \/ Ingest(t) \/ WriteMemory(t) \/ StartInversion(t))
  <2>1. UNCHANGED gateway
    BY <1>4 DEF Gateway, Memory, MemoryKey, Search, GetProof, Read, InversionStatus, Warm,
                ConfirmKey, ConfirmRecord, Verdict
  <2> QED
    BY <2>1
<1> QED
  BY <1>1, <1>2, <1>3, <1>4

LEMMA GatewayFlows ==
    ASSUME ConsoleInv, FlowsOk, backend = "http", NEW t \in Slots, Gateway(t)
    PROVE  FlowsOk'
<1> DEFINE k == tasks[t]
<1>1. /\ k # NoTask /\ UNCHANGED <<backend, mock>> /\ gateway.erased \subseteq gateway'.erased
      /\ gateway.anchored \subseteq gateway'.anchored
  <2>1. k # NoTask /\ UNCHANGED <<backend, mock>>
    BY DEF Gateway, Ingest, WriteMemory, Stores, Memory, MemoryKey, Search, Erase, GetProof,
           Read, StartInversion, InversionStatus, Warm, ConfirmKey, ConfirmRecord, Verdict, Calls
  <2> QED
    BY <2>1, GatewayKeeps, AnchoredStays
<1>2. \A u \in Slots : tasks[u] # NoTask => FlowOk(tasks[u], gateway', mock', backend)
  BY <1>1, MoreErased DEF FlowsOk
<1>3. TaskOk(k, gateway, backend) /\ FlowOk(k, gateway, mock, backend) /\ DOMAIN k = TaskFields
  BY <1>1 DEF ConsoleInv, TasksOk, FlowsOk, TaskOk
<1>4. ASSUME NEW a, Answered(t, a),
             \/ a = Failed
             \/ k.op \notin {"erase", "signed", "getMemory", "getKey", "getProof"}
      PROVE  FlowsOk'
  <2>1. FlowOk([k EXCEPT !.answer = a], gateway', mock', backend)
    BY <1>1, <1>2, <1>3, <1>4, PlainAnswer
  <2> QED
    BY <1>1, <1>2, <1>4, <2>1, AnswerFlow
<1>5. ASSUME NEW v, Answered(t, Ok(v)), k.op \in {"erase", "getKey", "getProof"},
             k.op = "erase" => Recorded(v, k.subject, gateway'),
             k.op = "getKey" /\ k.flow = "erase" => Gone(v, k.subject),
             k.op = "getProof" => Proves(v, k.erased)
      PROVE  FlowsOk'
  <2> DEFINE n == [k EXCEPT !.answer = Ok(v)]
  <2>1. /\ n.answer = Ok(v) /\ n.flow = k.flow /\ n.op = k.op /\ n.subject = k.subject
        /\ n.view = k.view /\ n.erased = k.erased /\ n.proof = k.proof
    BY <1>3, AnswerFields
  <2>2. FlowOk(k, gateway', mock', backend) /\ Ok(v).value = v
    BY <1>1, <1>2 DEF Ok
  <2> HIDE DEF n
  <2>3. OpOk(n)
    BY <2>1, <2>2 DEF FlowOk, OpOk
  <2>4. HttpOk(n, gateway')
    BY <1>5, <2>1, <2>2 DEF FlowOk, HttpOk
  <2>5. FlowOk(n, gateway', mock', backend)
    BY <2>3, <2>4 DEF FlowOk
  <2>6. FlowOk([k EXCEPT !.answer = Ok(v)], gateway', mock', backend)
    BY <2>5 DEF n
  <2> QED
    BY <1>1, <1>2, <1>5, <2>6, AnswerFlow
<1>6. ASSUME NEW v, Reply(t, v) \/ Refuse(t)
      PROVE  Answered(t, Ok(v)) \/ Answered(t, Failed)
  BY <1>6 DEF Reply, Refuse
<1>7. CASE \/ Ingest(t) \/ WriteMemory(t) \/ Search(t) \/ Read(t)
           \/ InversionStatus(t) \/ Warm(t) \/ Verdict(t)
  <2>1. /\ k.op \notin {"erase", "signed", "getMemory", "getKey", "getProof"}
        /\ \E v : Reply(t, v)
    BY <1>7 DEF Ingest, WriteMemory, Stores, Search, Read, InversionStatus, Warm, Verdict, Calls
  <2> QED
    BY <1>4, <1>6, <2>1
<1>8. CASE Memory(t)
  <2>1. k.op = "getMemory" /\ k.answer = None
    BY <1>8 DEF Memory, Calls
  <2>2. CASE Refuse(t)
    BY <1>4, <2>2 DEF Refuse
  <2>3. CASE ~Refuse(t)
    <3> DEFINE w == [subject |-> k.subject, embedding |-> Live(k.subject), key |-> FALSE]
               n == [k EXCEPT !.op = "getKey", !.view = w]
    <3>1. tasks' = [tasks EXCEPT ![t] = n]
      <4>1. tasks' = [tasks EXCEPT ![t].op = "getKey", ![t].view = w]
        BY <1>8, <2>3 DEF Memory
      <4> QED
        BY <4>1 DEF ConsoleInv, TasksOk
    <3>2. /\ n.answer = None /\ n.flow = k.flow /\ n.op = "getKey" /\ n.subject = k.subject
          /\ n.view = w /\ n.erased = k.erased /\ n.proof = k.proof
      BY <1>3, <2>1 DEF TaskFields
    <3>3. w.embedding = Live(k.subject)
      OBVIOUS
    <3> HIDE DEF n, w
    <3>4. k.flow = "erase" => ~w.embedding
      BY <1>3, <2>1, <3>3 DEF FlowOk, HttpOk, Recorded, Live
    <3>5. OpOk(n)
      BY <1>3, <2>1, <3>2 DEF FlowOk, OpOk, EraseOps
    <3>6. HttpOk(n, gateway')
      BY <1>1, <1>2, <2>1, <3>2, <3>4 DEF FlowOk, HttpOk, HasAnswer
    <3>7. FlowOk(n, gateway', mock', backend)
      BY <3>5, <3>6 DEF FlowOk
    <3> QED
      BY <1>1, <1>2, <3>1, <3>7, OneFlow
  <2> QED
    BY <2>2, <2>3
<1>9. CASE MemoryKey(t)
  <2> DEFINE v == [k.view EXCEPT !.key = Live(k.subject)]
  <2>1. k.op = "getKey" /\ Reply(t, v)
    BY <1>9 DEF MemoryKey, Calls
  <2>2. /\ v.subject = k.subject /\ v.key = Live(k.subject)
        /\ v.embedding = k.view.embedding
    BY <1>3, <2>1 DEF TaskOk
  <2> HIDE DEF v
  <2>3. k.flow = "erase" => Gone(v, k.subject)
    BY <1>3, <2>1, <2>2 DEF FlowOk, HttpOk, Recorded, Live, Gone
  <2> QED
    BY <1>4, <1>5, <1>6, <2>1, <2>3
<1>10. CASE Erase(t)
  <2>1. k.op = "erase"
    BY <1>10 DEF Erase, Calls
  <2>2. CASE Refuse(t)
    BY <1>4, <2>2 DEF Refuse
  <2>3. ASSUME NEW pending \in BOOLEAN, EraseStep(t, pending)
        PROVE  FlowsOk'
    <3> DEFINE v == EraseResult(k.subject, pending)
    <3>1. Reply(t, v)
      BY <2>3 DEF EraseStep
    <3>2. v.subject = k.subject /\ v.pending = pending
      BY DEF EraseResult
    <3> HIDE DEF v
    <3>3. Recorded(v, k.subject, gateway')
      BY <2>3, <3>2, EraseStepIs DEF Recorded
    <3> QED
      BY <1>4, <1>5, <1>6, <2>1, <3>1, <3>3
  <2> QED
    BY <1>10, <2>2, <2>3, EraseIs
<1>11. CASE GetProof(t)
  <2> DEFINE v == RecordedProof(k.subject)
  <2>1. k.op = "getProof" /\ (Reply(t, v) \/ Refuse(t))
    BY <1>11 DEF GetProof, Calls
  <2>2. Recorded(k.erased, k.subject, gateway)
    BY <1>3, <2>1 DEF FlowOk, OpOk, HttpOk
  <2>3. Proves(v, k.erased)
    BY <2>2 DEF RecordedProof, Recorded, Proves, Signs
  <2> HIDE DEF v
  <2> QED
    BY <1>4, <1>5, <1>6, <2>1, <2>3
<1>12. CASE ConfirmKey(t) \/ ConfirmRecord(t)
  <2>1. /\ k.op \in {"forensics", "confirm"}
        /\ \E n : /\ tasks' = [tasks EXCEPT ![t] = n]
                  /\ n.flow = k.flow /\ n.op \in {"forensics", "confirm"}
    <3>1. CASE ConfirmKey(t)
      <4> DEFINE n == [k EXCEPT !.op = "confirm", !.polls = @ + 1,
                                !.view = [key |-> Live(k.subject)]]
      <4>1. k.op = "forensics" /\ tasks' = [tasks EXCEPT ![t] = n]
        BY <3>1 DEF ConfirmKey, Calls, ConsoleInv, TasksOk
      <4>2. n.flow = k.flow /\ n.op = "confirm"
        BY <1>3 DEF TaskFields
      <4> QED
        BY <4>1, <4>2
    <3>2. CASE ConfirmRecord(t)
      <4>1. PICK proven : tasks' = [tasks EXCEPT ![t].op = "forensics", ![t].proven = proven]
        BY <3>2 DEF ConfirmRecord
      <4> DEFINE n == [k EXCEPT !.op = "forensics", !.proven = proven]
      <4>2. k.op = "confirm" /\ tasks' = [tasks EXCEPT ![t] = n]
        BY <3>2, <4>1 DEF ConfirmRecord, Calls, ConsoleInv, TasksOk
      <4>3. n.flow = k.flow /\ n.op = "forensics"
        BY <1>3 DEF TaskFields
      <4> QED
        BY <4>2, <4>3
    <3> QED
      BY <1>12, <3>1, <3>2
  <2>2. k.flow # "erase"
    BY <1>3, <2>1 DEF FlowOk, OpOk, EraseOps
  <2>3. PICK n : /\ tasks' = [tasks EXCEPT ![t] = n]
                 /\ n.flow = k.flow /\ n.op \in {"forensics", "confirm"}
    BY <2>1
  <2>4. FlowOk(n, gateway', mock', backend)
    BY <2>2, <2>3, OtherFlow
  <2> QED
    BY <1>1, <1>2, <2>3, <2>4, OneFlow
<1>13. CASE StartInversion(t)
  <2>1. CASE Refuse(t)
    BY <1>4, <2>1 DEF Refuse
  <2>2. k.op = "start"
    BY <1>13 DEF StartInversion, Calls
  <2>3. \A u \in Slots : tasks[u] # NoTask => DOMAIN tasks[u] = TaskFields
    BY DEF ConsoleInv, TasksOk, TaskOk
  <2>4. CASE ~Refuse(t)
    <3>1. \E ts \in {tasks, Displaced}, a \in {Ok(None), Failed} :
             tasks' = [ts EXCEPT ![t].ours = TRUE, ![t].answer = a]
      BY <1>13, <2>4 DEF StartInversion
    <3>2. ASSUME NEW u \in Slots, tasks'[u] # NoTask
          PROVE  FlowOk(tasks'[u], gateway', mock', backend)
      <4>1. tasks[u] # NoTask
        BY <1>1, <3>1, <3>2 DEF Displaced, ConsoleInv, TasksOk
      <4>2. CASE u # t
        <5>1. tasks'[u] \in {tasks[u], [tasks[u] EXCEPT !.ours = FALSE]}
          BY <3>1, <4>1, <4>2 DEF Displaced, ConsoleInv, TasksOk
        <5>2. /\ tasks'[u].flow = tasks[u].flow /\ tasks'[u].op = tasks[u].op
              /\ tasks'[u].answer = tasks[u].answer /\ tasks'[u].subject = tasks[u].subject
              /\ tasks'[u].view = tasks[u].view /\ tasks'[u].erased = tasks[u].erased
              /\ tasks'[u].proof = tasks[u].proof
          BY <2>3, <4>1, <5>1 DEF TaskFields
        <5> QED
          BY <1>2, <4>1, <5>2, SameFlow
      <4>3. CASE u = t
        <5>1. \E d \in {k, [k EXCEPT !.ours = FALSE]}, a \in {Ok(None), Failed} :
                 tasks'[t] = [d EXCEPT !.ours = TRUE, !.answer = a]
          BY <1>1, <3>1 DEF Displaced, ConsoleInv, TasksOk
        <5>2. tasks'[t].flow = k.flow /\ tasks'[t].op = "start"
          BY <1>3, <2>2, <5>1 DEF TaskFields
        <5>3. k.flow # "erase"
          BY <1>3, <2>2 DEF FlowOk, OpOk, EraseOps
        <5> QED
          BY <4>3, <5>2, <5>3, OtherFlow
      <4> QED
        BY <4>2, <4>3
    <3> QED
      BY <1>1, <3>2 DEF FlowsOk
  <2> QED
    BY <2>1, <2>4
<1> QED
  BY <1>7, <1>8, <1>9, <1>10, <1>11, <1>12, <1>13 DEF Gateway

----------------------------------------------------------------------------
\* The mock serves a call, while every other flow awaits WebCrypto.

\* A flow that neither has its answer nor reads what it erased bears that the
\* subject comes back, but not that another is erased.
LEMMA SubjectKept ==
    ASSUME NEW k, NEW gw, NEW mk, NEW mk2, NEW be, FlowOk(k, gw, mk, be), ~HasAnswer(k),
           k.flow = "erase" => k.op \notin {"getMemory", "getProof", "search"},
           mk2.erased => mk.erased /\ mk2.subject = mk.subject
    PROVE  FlowOk(k, gw, mk2, be)
  BY DEF FlowOk, MockOk

\* The mock's writer, whose digest is awaited, bears anything.
LEMMA WriterWaits ==
    ASSUME NEW k, NEW gw, NEW mk, NEW be, be = "mock", k.flow = "writer", k.op = "written"
    PROVE  FlowOk(k, gw, mk, be)
  BY DEF FlowOk, OpOk, MockOk

LEMMA MockWhole ==
    ASSUME ConsoleInv, WholeInv, backend = "mock", NEW t \in Slots, Turn(t), Mock(t),
           UNCHANGED page
    PROVE  WholeInv'
<1> DEFINE k == tasks[t]
<1>1. k # NoTask /\ k.answer = None /\ UNCHANGED <<gateway, backend>>
  <2>1. k # NoTask /\ k.answer = None
    BY DEF Mock, MockIngest, MockWrite, MockWriteEnds, MockGetMemory, MockSearch, MockErase,
           MockEraseEnds, MockGetProof, MockRead, MockAgent, Calls
  <2> QED
    BY <2>1, MockKeeps
<1>2. /\ DOMAIN k = TaskFields /\ FlowOk(k, gateway, mock, backend) /\ OpOk(k)
      /\ MockOk(k, mock) /\ DOMAIN mock = MockFields /\ StageOk(tasks, page)
  BY <1>1 DEF ConsoleInv, TasksOk, TaskOk, WholeInv, FlowsOk, FlowOk
<1>3. ASSUME NEW u \in Slots \ {t}, tasks[u] # NoTask
      PROVE  /\ tasks[u].answer = None /\ FlowOk(tasks[u], gateway, mock, backend)
             /\ \/ tasks[u].op = "written" /\ tasks[u].flow = "writer"
                \/ tasks[u].op = "signed" /\ tasks[u].flow = "erase"
  <2>1. tasks[u].op \in {"written", "signed"} /\ tasks[u].answer = None
    BY <1>3 DEF Turn, Urgent, Awaits
  <2>2. FlowOk(tasks[u], gateway, mock, backend)
    BY <1>3 DEF WholeInv, FlowsOk
  <2> QED
    BY <2>1, <2>2 DEF FlowOk, OpOk
<1>4. ASSUME mock'.erased => mock.erased /\ mock'.subject = mock.subject,
             NEW u \in Slots \ {t}, tasks[u] # NoTask
      PROVE  FlowOk(tasks[u], gateway', mock', backend)
  <2>1. ~HasAnswer(tasks[u])
    BY <1>3, <1>4 DEF HasAnswer
  <2>2. FlowOk(tasks[u], gateway, mock', backend)
    BY <1>3, <1>4, <2>1, SubjectKept
  <2> QED
    BY <1>1, <2>2
<1>5. ASSUME k.flow = "erase", NEW u \in Slots \ {t}, tasks[u] # NoTask
      PROVE  FlowOk(tasks[u], gateway', mock', backend)
  <2>1. tasks[u].flow # "erase"
    BY <1>1, <1>2, <1>5 DEF StageOk, Stages
  <2> QED
    BY <1>3, <1>5, <2>1, WriterWaits
<1>6. ASSUME NEW n, tasks' = [tasks EXCEPT ![t] = n], n.flow = k.flow,
             FlowOk(n, gateway', mock', backend), DOMAIN mock' = MockFields,
             \A u \in Slots \ {t} : tasks[u] # NoTask =>
                 FlowOk(tasks[u], gateway', mock', backend)
      PROVE  WholeInv'
  <2>1. FlowsOk'
    BY <1>1, <1>6, OneFlow DEF WholeInv
  <2>2. \A u \in Slots : tasks'[u] # NoTask => tasks[u] # NoTask /\ tasks'[u].flow = tasks[u].flow
    BY <1>1, <1>6 DEF ConsoleInv, TasksOk
  <2>3. StageOk(tasks', page)
    BY <1>2, <2>2 DEF StageOk
  <2> QED
    BY <1>1, <1>6, <2>1, <2>3 DEF WholeInv
<1>7. ASSUME NEW a, Answered(t, a), DOMAIN mock' = MockFields,
             FlowOk([k EXCEPT !.answer = a], gateway', mock', backend),
             \A u \in Slots \ {t} : tasks[u] # NoTask =>
                 FlowOk(tasks[u], gateway', mock', backend)
      PROVE  WholeInv'
  <2> DEFINE n == [k EXCEPT !.answer = a]
  <2>1. tasks' = [tasks EXCEPT ![t] = n] /\ n.flow = k.flow
    BY <1>2, <1>7 DEF Answered, TaskFields
  <2>2. FlowOk(n, gateway', mock', backend)
    BY <1>7
  <2> HIDE DEF n
  <2> QED
    BY <1>6, <1>7, <2>1, <2>2
<1>8. ASSUME NEW a, Answered(t, a), UNCHANGED mock,
             \/ a = Failed
             \/ k.op \notin {"erase", "signed", "getMemory", "getKey", "getProof"}
      PROVE  WholeInv'
  <2>1. FlowOk([k EXCEPT !.answer = a], gateway', mock', backend)
    BY <1>1, <1>2, <1>8, PlainAnswer
  <2> QED
    BY <1>2, <1>4, <1>7, <1>8, <2>1
<1>9. CASE MockIngest(t)
  <2> DEFINE v == [subject |-> MockDemo, vector |-> DemoVector]
  <2>1. /\ k.op = "ingest" /\ mock' = [mock EXCEPT !.subject = MockDemo, !.erased = FALSE]
        /\ Answered(t, Ok(v))
    BY <1>9 DEF MockIngest, Calls, MockSets
  <2>2. DOMAIN mock' = MockFields /\ ~mock'.erased
    BY <1>2, <2>1 DEF MockFields
  <2>3. FlowOk(k, gateway', mock', backend)
    BY <1>1, <1>2, <2>1, <2>2, SubjectKept DEF HasAnswer
  <2> HIDE DEF v
  <2>4. FlowOk([k EXCEPT !.answer = Ok(v)], gateway', mock', backend)
    BY <1>2, <2>1, <2>3, PlainAnswer
  <2> QED
    BY <1>4, <1>7, <2>1, <2>2, <2>4
<1>10. CASE MockWrite(t)
  <2> DEFINE n == [k EXCEPT !.op = "written"]
  <2>1. /\ k.op = "write" /\ mock' = [subject |-> MockWritten, erased |-> FALSE, signed |-> None]
        /\ tasks' = [tasks EXCEPT ![t] = n]
    BY <1>10 DEF MockWrite, Calls, MockSets, Continues, ConsoleInv, TasksOk
  <2>2. n.flow = k.flow /\ n.op = "written" /\ k.flow = "writer"
    BY <1>2, <2>1 DEF TaskFields, OpOk
  <2>3. DOMAIN mock' = MockFields /\ ~mock'.erased
    BY <2>1 DEF MockFields
  <2> HIDE DEF n
  <2>4. FlowOk(n, gateway', mock', backend)
    BY <2>2, WriterWaits
  <2> QED
    BY <1>4, <1>6, <2>1, <2>2, <2>3, <2>4
<1>11. CASE \/ MockWriteEnds(t) \/ MockSearch(t) \/ MockRead(t) \/ MockAgent(t)
  <2>1. /\ k.op \notin {"erase", "signed", "getMemory", "getKey", "getProof"}
        /\ \E a : Answered(t, a)
        /\ mock' = mock
    BY <1>11 DEF MockWriteEnds, MockSearch, MockRead, MockAgent, Calls, MockAnswers
  <2> QED
    BY <1>8, <2>1
<1>12. ASSUME NEW v, k.op \in {"getMemory", "getProof"}, MockAnswers(t, v),
              k.flow = "erase" /\ k.op = "getMemory" /\ mock.erased => Gone(v, k.erased.subject),
              k.op = "getProof" => mock.erased /\ Signs(v, k.erased.subject)
       PROVE  WholeInv'
  <2> DEFINE n == [k EXCEPT !.answer = Ok(v)]
  <2>1. Answered(t, Ok(v)) /\ mock' = mock
    BY <1>12 DEF MockAnswers
  <2>2. /\ n.answer = Ok(v) /\ n.flow = k.flow /\ n.op = k.op /\ n.subject = k.subject
        /\ n.view = k.view /\ n.erased = k.erased /\ n.proof = k.proof
    BY <1>2, AnswerFields
  <2>3. Ok(v).value = v
    BY DEF Ok
  <2> HIDE DEF n
  <2>4. OpOk(n)
    BY <1>2, <2>2 DEF OpOk
  <2>5. MockOk(n, mock)
    BY <1>2, <1>12, <2>2, <2>3 DEF MockOk
  <2>6. FlowOk(n, gateway', mock', backend)
    BY <2>1, <2>4, <2>5 DEF FlowOk
  <2>7. FlowOk([k EXCEPT !.answer = Ok(v)], gateway', mock', backend)
    BY <2>6 DEF n
  <2> QED
    BY <1>2, <1>4, <1>7, <2>1, <2>7
<1>13. CASE MockGetMemory(t)
  <2> DEFINE v == [subject |-> mock.subject, embedding |-> ~mock.erased, key |-> ~mock.erased]
  <2>1. k.op = "getMemory" /\ (MockRefuses(t) \/ MockAnswers(t, v))
    BY <1>13 DEF MockGetMemory, Calls
  <2>2. CASE MockRefuses(t)
    BY <1>8, <2>2 DEF MockRefuses, Refuse
  <2>3. k.flow = "erase" /\ mock.erased => Gone(v, k.erased.subject)
    BY <1>2, <2>1 DEF MockOk, Gone
  <2> HIDE DEF v
  <2> QED
    BY <1>12, <2>1, <2>2, <2>3
<1>14. CASE MockGetProof(t)
  <2> DEFINE v == [subject |-> mock.subject, signs |-> mock.signed]
  <2>1. k.op = "getProof" /\ (MockRefuses(t) \/ (mock.erased /\ MockAnswers(t, v)))
    BY <1>14 DEF MockGetProof, Calls
  <2>2. CASE MockRefuses(t)
    BY <1>8, <2>2 DEF MockRefuses, Refuse
  <2>3. mock.erased => Signs(v, k.erased.subject)
    BY <1>2, <2>1 DEF MockOk, OpOk, Signs
  <2> HIDE DEF v
  <2> QED
    BY <1>12, <2>1, <2>2, <2>3
<1>15. CASE MockErase(t)
  <2>1. k.op = "erase" /\ k.flow = "erase"
    BY <1>2, <1>15 DEF MockErase, Calls, OpOk
  <2>2. CASE MockRefuses(t)
    BY <1>8, <2>2 DEF MockRefuses, Refuse
  <2>3. CASE ~MockRefuses(t)
    <3> DEFINE n == [k EXCEPT !.op = "signed", !.erased = EraseResult(mock.subject, FALSE)]
    <3>1. mock' = [mock EXCEPT !.erased = TRUE] /\ tasks' = [tasks EXCEPT ![t] = n]
      BY <1>15, <2>3 DEF MockErase, MockSets, ConsoleInv, TasksOk
    <3>2. /\ n.flow = "erase" /\ n.op = "signed" /\ n.answer = None
          /\ n.erased.subject = mock.subject
      BY <1>1, <1>2, <2>1 DEF TaskFields, EraseResult
    <3>3. DOMAIN mock' = MockFields /\ mock'.subject = mock.subject
      BY <1>2, <3>1 DEF MockFields
    <3> HIDE DEF n
    <3>4. FlowOk(n, gateway', mock', backend)
      BY <3>2, <3>3 DEF FlowOk, OpOk, MockOk, HasAnswer, EraseOps
    <3> QED
      BY <1>5, <1>6, <2>1, <3>1, <3>2, <3>3, <3>4
  <2> QED
    BY <2>2, <2>3
<1>16. CASE MockEraseEnds(t)
  <2> DEFINE a == Ok(k.erased)
             n == [k EXCEPT !.answer = a]
  <2>1. /\ k.op = "signed" /\ mock' = [mock EXCEPT !.signed = k.erased.subject] /\ Answered(t, a)
    BY <1>16 DEF MockEraseEnds, Calls, MockSets
  <2>2. /\ k.flow = "erase" /\ DOMAIN mock' = MockFields /\ mock'.signed = k.erased.subject
        /\ mock'.subject = mock.subject /\ mock'.erased = mock.erased
    BY <1>2, <2>1 DEF OpOk, MockFields
  <2>3. /\ n.answer = a /\ n.flow = k.flow /\ n.op = k.op /\ n.subject = k.subject
        /\ n.view = k.view /\ n.erased = k.erased /\ n.proof = k.proof
    BY <1>2, AnswerFields
  <2>4. a.value = k.erased
    BY DEF Ok
  <2> HIDE DEF a, n
  <2>5. OpOk(n)
    BY <2>1, <2>2, <2>3 DEF OpOk, EraseOps
  <2>6. MockOk(n, mock')
    BY <1>2, <2>1, <2>2, <2>3, <2>4 DEF MockOk
  <2>7. FlowOk(n, gateway', mock', backend)
    BY <2>5, <2>6 DEF FlowOk
  <2>8. FlowOk([k EXCEPT !.answer = a], gateway', mock', backend)
    BY <2>7 DEF n
  <2> QED
    BY <1>5, <1>7, <2>1, <2>2, <2>8
<1> QED
  BY <1>9, <1>10, <1>11, <1>13, <1>14, <1>15, <1>16 DEF Mock

----------------------------------------------------------------------------
\* A call is served or lost; the job's slot changes hands.

\* Without the mock only the flows count, and what the gateway has erased.
LEMMA OverHttp ==
    ASSUME WholeInv, backend = "http", FlowsOk', UNCHANGED <<backend, mock, page>>
    PROVE  WholeInv'
  BY DEF WholeInv

LEMMA ServeWhole ==
    ASSUME ConsoleInv, WholeInv, NEW t \in Slots, Serve(t), UNCHANGED page
    PROVE  WholeInv'
<1>1. CASE Gateway(t)
  <2>1. backend = "http" /\ UNCHANGED <<backend, mock>>
    BY <1>1 DEF Gateway, Ingest, WriteMemory, Stores, Memory, MemoryKey, Search, Erase, GetProof,
           Read, StartInversion, InversionStatus, Warm, ConfirmKey, ConfirmRecord, Verdict, Calls
  <2> QED
    BY <1>1, <2>1, GatewayFlows, OverHttp DEF WholeInv
<1>2. CASE Drop(t)
  <2> DEFINE k == tasks[t]
  <2>1. /\ backend = "http" /\ k # NoTask /\ Answered(t, Failed)
        /\ UNCHANGED <<backend, gateway, mock>>
    BY <1>2 DEF Drop
  <2>2. /\ DOMAIN k = TaskFields
        /\ \A u \in Slots : tasks[u] # NoTask => FlowOk(tasks[u], gateway, mock, backend)
    BY <2>1 DEF ConsoleInv, TasksOk, TaskOk, WholeInv, FlowsOk
  <2>3. FlowOk([k EXCEPT !.answer = Failed], gateway, mock, backend)
    BY <2>1, <2>2, PlainAnswer
  <2>4. FlowsOk'
    BY <2>1, <2>2, <2>3, AnswerFlow DEF WholeInv
  <2> QED
    BY <2>1, <2>4, OverHttp
<1>3. CASE Turn(t) /\ Mock(t)
  <2>1. backend = "mock"
    BY <1>3 DEF Mock, MockIngest, MockWrite, MockWriteEnds, MockGetMemory, MockSearch, MockErase,
           MockEraseEnds, MockGetProof, MockRead, MockAgent, Calls
  <2> QED
    BY <1>3, <2>1, MockWhole
<1> QED
  BY <1>1, <1>2, <1>3 DEF Serve

LEMMA BackgroundWhole ==
    ASSUME ConsoleInv, WholeInv, Background, UNCHANGED page
    PROVE  WholeInv'
<1>1. /\ UNCHANGED <<backend, mock>> /\ gateway'.erased = gateway.erased
      /\ gateway.anchored \subseteq gateway'.anchored
      /\ tasks' \in {tasks, Displaced}
  <2>1. CASE Reconciled
    BY <2>1, ReconciledIs
  <2>2. CASE InversionEnds \/ VisitorStarts \/ Restart
    BY <2>2 DEF InversionEnds, VisitorStarts, Restart, ConsoleInv, GatewayOk
  <2> QED
    BY <2>1, <2>2 DEF Background
<1>2. ASSUME NEW u \in Slots, tasks'[u] # NoTask
      PROVE  /\ tasks[u] # NoTask /\ tasks'[u].flow = tasks[u].flow
             /\ tasks'[u].op = tasks[u].op /\ tasks'[u].answer = tasks[u].answer
             /\ tasks'[u].subject = tasks[u].subject /\ tasks'[u].view = tasks[u].view
             /\ tasks'[u].erased = tasks[u].erased /\ tasks'[u].proof = tasks[u].proof
  <2>1. tasks[u] # NoTask /\ tasks'[u] \in {tasks[u], [tasks[u] EXCEPT !.ours = FALSE]}
    BY <1>1, <1>2 DEF Displaced
  <2>2. DOMAIN tasks[u] = TaskFields
    BY <2>1 DEF ConsoleInv, TasksOk, TaskOk
  <2> QED
    BY <2>1, <2>2 DEF TaskFields
<1>3. \A u \in Slots : tasks[u] # NoTask => FlowOk(tasks[u], gateway', mock', backend)
  BY <1>1, MoreErased DEF WholeInv, FlowsOk
<1>4. FlowsOk'
  <2> SUFFICES ASSUME NEW u \in Slots, tasks'[u] # NoTask
               PROVE  FlowOk(tasks'[u], gateway', mock', backend)
    BY <1>1 DEF FlowsOk
  <2> QED
    BY <1>2, <1>3, SameFlow
<1>5. backend = "mock" => StageOk(tasks', page)
  BY <1>2 DEF WholeInv, StageOk
<1> QED
  BY <1>1, <1>4, <1>5 DEF WholeInv

----------------------------------------------------------------------------
\* A flow goes on with its answer.

LEMMA AsksWhole ==
    ASSUME ConsoleInv, WholeInv, NEW t \in Slots, tasks[t] # NoTask, NEW d, NEW op,
           Asks(t, d, op), DOMAIN d = TaskFields, d.flow = tasks[t].flow,
           \A n : (/\ n.flow = d.flow /\ n.op = op /\ n.answer = None
                  /\ n.subject = d.subject /\ n.view = d.view /\ n.erased = d.erased
                  /\ n.proof = d.proof) => FlowOk(n, gateway, mock, backend),
           UNCHANGED <<gateway, mock, backend, page>>
    PROVE  WholeInv'
<1> DEFINE n == [d EXCEPT !.op = op, !.answer = None]
<1>1. /\ DOMAIN n = TaskFields /\ n.flow = d.flow /\ n.op = op /\ n.answer = None
      /\ n.subject = d.subject /\ n.view = d.view /\ n.erased = d.erased
      /\ n.proof = d.proof
  BY DEF TaskFields
<1>2. Becomes(t, n)
  BY DEF Asks
<1> HIDE DEF n
<1>3. FlowOk(n, gateway, mock, backend)
  BY <1>1
<1>4. FlowsOk'
  BY <1>1, <1>2, <1>3, BecomesFlow DEF WholeInv
<1>5. ASSUME backend = "mock"
      PROVE  StageOk(tasks', page')
  <2>1. StageOk(tasks, page)
    BY <1>5 DEF WholeInv
  <2>2. \A u \in Slots : tasks[u] # NoTask /\ tasks[u].flow \in Stages =>
            tasks[u].flow \in page'.running
    BY <2>1 DEF StageOk
  <2>3. n.flow \in Stages => Alone(t) /\ n.flow \in page'.running
    BY <1>1, <2>1, <2>2, StageAlone
  <2> QED
    BY <1>1, <1>2, <2>1, <2>2, <2>3, BecomesStage
<1> QED
  BY <1>4, <1>5 DEF WholeInv

\* It ends, and its stage with it, which may give way to the next.
LEMMA EndsWhole ==
    ASSUME ConsoleInv, WholeInv, NEW t \in Slots, tasks[t] # NoTask, NEW k, Becomes(t, k),
           k # NoTask => /\ DOMAIN k = TaskFields /\ FlowOk(k, gateway, mock, backend)
                         /\ tasks[t].flow \in Stages /\ k.flow \in page'.running,
           (page.running \intersect Stages) \ {tasks[t].flow} \subseteq page'.running,
           ShownWhole(page', backend), UNCHANGED <<gateway, mock, backend>>
    PROVE  WholeInv'
<1>1. FlowsOk'
  BY BecomesFlow DEF WholeInv
<1>2. ASSUME backend = "mock"
      PROVE  StageOk(tasks', page')
  <2>1. StageOk(tasks, page)
    BY <1>2 DEF WholeInv
  <2>2. \A u \in Slots \ {t} : tasks[u] # NoTask /\ tasks[u].flow \in Stages =>
            tasks[u].flow \in page'.running
    BY <2>1 DEF StageOk
  <2>3. k # NoTask => Alone(t)
    BY <2>1, StageAlone
  <2> QED
    BY <2>1, <2>2, <2>3, BecomesStage
<1> QED
  BY <1>1, <1>2 DEF WholeInv

LEMMA OverWhole ==
    ASSUME ConsoleInv, WholeInv, NEW t \in Slots, tasks[t] # NoTask, NEW shown,
           Over(t, shown), DOMAIN shown = PageFields, shown.running = page.running,
           ShownWhole(shown, backend), UNCHANGED <<gateway, mock, backend>>
    PROVE  WholeInv'
<1>1. page' = [shown EXCEPT !.running = @ \ {tasks[t].flow}] /\ Becomes(t, NoTask)
  BY DEF Over
<1>2. /\ page'.running = page.running \ {tasks[t].flow} /\ page'.erase = shown.erase
      /\ page'.after = shown.after /\ page'.proof = shown.proof
  BY <1>1 DEF PageFields
<1>3. ShownWhole(page', backend)
  BY <1>2 DEF ShownWhole
<1> QED
  BY <1>1, <1>2, <1>3, EndsWhole

LEMMA StageDoneWhole ==
    ASSUME ConsoleInv, WholeInv, NEW t \in Slots, tasks[t] # NoTask, NEW shown,
           StageDone(t, shown), DOMAIN shown = PageFields,
           page.running \intersect Stages \subseteq shown.running,
           ShownWhole(shown, backend), UNCHANGED <<gateway, mock, backend>>
    PROVE  WholeInv'
<1> DEFINE flow == tasks[t].flow
           done == [shown EXCEPT !.running = @ \ {flow}]
<1>1. /\ DOMAIN done = PageFields /\ done.running = shown.running \ {flow}
      /\ done.erase = shown.erase /\ done.after = shown.after /\ done.proof = shown.proof
  BY DEF PageFields
<1>2. ShownWhole(done, backend)
  BY <1>1 DEF ShownWhole
<1>3. CASE page' = done /\ Becomes(t, NoTask)
  <2> HIDE DEF done
  <2> QED
    BY <1>1, <1>2, <1>3, EndsWhole
<1>4. CASE /\ flow \in DOMAIN After
           /\ page' = [done EXCEPT !.running = @ \union {After[flow]}]
           /\ Becomes(t, Task(After[flow], TRUE))
  <2> DEFINE k == Task(After[flow], TRUE)
  <2>1. flow \in Stages /\ After[flow] \in Flows
    BY <1>4 DEF After, Flows, Stages
  <2>2. FlowOk(k, gateway, mock, backend)
    BY <2>1, FlowBegins
  <2>3. DOMAIN k = TaskFields /\ k.flow = After[flow]
    BY DEF Task, TaskFields
  <2> HIDE DEF done
  <2>4. /\ page'.running = done.running \union {After[flow]} /\ page'.erase = done.erase
        /\ page'.after = done.after /\ page'.proof = done.proof
    BY <1>1, <1>4 DEF PageFields
  <2>5. ShownWhole(page', backend) /\ After[flow] \in page'.running
    BY <1>2, <2>4 DEF ShownWhole
  <2>6. (page.running \intersect Stages) \ {flow} \subseteq page'.running
    BY <1>1, <2>4
  <2>7. Becomes(t, k)
    BY <1>4
  <2> HIDE DEF k
  <2> QED
    BY <2>1, <2>2, <2>3, <2>5, <2>6, <2>7, EndsWhole
<1> QED
  BY <1>3, <1>4 DEF StageDone

\* The writer shows its memory, and with it ends a memory stage: on the mock
\* there is none, for whoever else is under way awaits WebCrypto.
LEMMA WriterWhole ==
    ASSUME ConsoleInv, WholeInv, NEW t \in Slots, Turn(t), WriterLoaded(t)
    PROVE  WholeInv'
<1>1. /\ tasks[t] # NoTask /\ Becomes(t, NoTask) /\ UNCHANGED <<gateway, mock, backend>>
      /\ page' = [Loaded(t) EXCEPT !.written = tasks[t].vector, !.inversion = FALSE,
                                   !.live = None,
                                   !.running = @ \ {"writer", "live", "memory"}]
  BY DEF WriterLoaded, SearchComes, backends
<1>2. /\ DOMAIN Loaded(t) = PageFields /\ Loaded(t).erase = None
      /\ Loaded(t).running = page.running
  BY DEF ConsoleInv, PageOk, PageFields, Loaded
<1>3. page'.erase = None /\ page'.running = page.running \ {"writer", "live", "memory"}
  BY <1>1, <1>2 DEF PageFields
<1>4. FlowsOk'
  BY <1>1, BecomesFlow DEF WholeInv
<1>5. ASSUME backend = "mock"
      PROVE  StageOk(tasks', page')
  <2>1. StageOk(tasks, page)
    BY <1>5 DEF WholeInv
  <2>2. ASSUME NEW u \in Slots \ {t}, tasks[u] # NoTask, tasks[u].flow \in Stages
        PROVE  tasks[u].flow \in page'.running
    <3>1. tasks[u].op \in {"written", "signed"}
      BY <1>5, <2>2 DEF Turn, Urgent, Awaits
    <3>2. tasks[u].flow \in {"writer", "erase"}
      BY <2>2, <3>1 DEF WholeInv, FlowsOk, FlowOk, OpOk
    <3>3. tasks[u].flow \in page.running
      BY <2>1, <2>2 DEF StageOk
    <3> QED
      BY <1>3, <2>2, <3>2, <3>3 DEF Stages
  <2> QED
    BY <1>1, <2>1, <2>2, BecomesStage
<1>6. ShownWhole(page', backend)
  BY <1>3 DEF ShownWhole
<1> QED
  BY <1>1, <1>4, <1>5, <1>6 DEF WholeInv

LEMMA GoesOnWhole ==
    ASSUME ConsoleInv, WholeInv, NEW t \in Slots, Turn(t), GoesOn(t)
    PROVE  WholeInv'
<1> DEFINE k == tasks[t]
           v == Value(t)
<1>1. /\ k # NoTask /\ UNCHANGED <<gateway, mock, backend>>
  BY DEF GoesOn, MemoryStored, Viewed, MemoryLoaded, WriterLoaded, Leaked, EnvelopeSeen,
         Endured, Audited, Erased, AfterSeen, ProofSeen, EraseShown, JobStarted, Polled,
         WarmPolled, VerdictComes, TitanComes, PastComes, Fails, Comes, SearchComes, backends
<1>2. /\ DOMAIN k = TaskFields /\ TaskOk(k, gateway, backend) /\ DOMAIN page = PageFields
      /\ FlowOk(k, gateway, mock, backend) /\ OpOk(k) /\ ShownWhole(page, backend)
      /\ backend \in {"http", "mock"}
  BY <1>1 DEF ConsoleInv, TasksOk, TaskOk, PageOk, WholeInv, FlowsOk, FlowOk
<1>3. backend = "http" => HttpOk(k, gateway) /\ AnswerOk(k, k.answer, gateway, "http")
  BY <1>2 DEF FlowOk, TaskOk
<1>4. backend = "mock" => MockOk(k, mock)
  BY <1>2 DEF FlowOk
<1>5. ASSUME NEW d, NEW op \in {"getMemory", "search", "status", "warm", "forensics"},
             Asks(t, d, op), DOMAIN d = TaskFields, d.flow = k.flow, k.flow # "erase",
             UNCHANGED page
      PROVE  WholeInv'
  <2>1. \A n : n.flow = d.flow /\ n.op = op => FlowOk(n, gateway, mock, backend)
    BY <1>5, OtherFlow
  <2> QED
    BY <1>1, <1>5, <2>1, AsksWhole
<1>6. ASSUME NEW pg, StageDone(t, pg), DOMAIN pg = PageFields, pg.running = page.running,
             pg.erase = page.erase, pg.after = page.after, pg.proof = page.proof
      PROVE  WholeInv'
  <2>1. ShownWhole(pg, backend)
    BY <1>2, <1>6 DEF ShownWhole
  <2> QED
    BY <1>1, <1>6, <2>1, StageDoneWhole
<1>7. ASSUME NEW pg, Over(t, pg), DOMAIN pg = PageFields, pg.running = page.running,
             pg.erase = page.erase, pg.after = page.after, pg.proof = page.proof
      PROVE  WholeInv'
  <2>1. ShownWhole(pg, backend)
    BY <1>2, <1>7 DEF ShownWhole
  <2> QED
    BY <1>1, <1>7, <2>1, OverWhole
<1>8. CASE MemoryStored(t)
  <2> DEFINE d == [k EXCEPT !.subject = v.subject, !.vector = v.vector]
  <2>1. Asks(t, d, "getMemory") /\ k.op \in {"ingest", "write", "written"} /\ page' = page
    BY <1>8 DEF MemoryStored, Comes
  <2>2. DOMAIN d = TaskFields /\ d.flow = k.flow /\ k.flow # "erase"
    BY <1>2, <2>1 DEF TaskFields, OpOk, EraseOps
  <2> HIDE DEF d
  <2> QED
    BY <1>5, <2>1, <2>2
<1>9. CASE Viewed(t)
  <2> DEFINE d == [k EXCEPT !.view = v]
  <2>1. Asks(t, d, "search") /\ k.flow # "erase" /\ page' = page
    BY <1>9 DEF Viewed, Loaders
  <2>2. DOMAIN d = TaskFields /\ d.flow = k.flow
    BY <1>2 DEF TaskFields
  <2> HIDE DEF d
  <2> QED
    BY <1>5, <2>1, <2>2
<1>10. CASE MemoryLoaded(t)
  <2> DEFINE pg == [Loaded(t) EXCEPT !.written = None, !.running = @ \ {"writer"}]
  <2>1. StageDone(t, pg)
    BY <1>10 DEF MemoryLoaded
  <2>2. /\ DOMAIN Loaded(t) = PageFields /\ Loaded(t).erase = None
        /\ Loaded(t).running = page.running
    BY <1>2 DEF PageFields, Loaded
  <2>3. DOMAIN pg = PageFields /\ pg.erase = None /\ pg.running = page.running \ {"writer"}
    BY <2>2 DEF PageFields
  <2> HIDE DEF pg
  <2>4. ShownWhole(pg, backend) /\ page.running \intersect Stages \subseteq pg.running
    BY <2>3 DEF ShownWhole, Stages
  <2> QED
    BY <1>1, <2>1, <2>3, <2>4, StageDoneWhole
<1>11. CASE WriterLoaded(t)
  BY <1>11, WriterWhole
<1>12. CASE Leaked(t)
  <2> DEFINE pg == [page EXCEPT !.inversion = TRUE]
  <2>1. StageDone(t, pg)
    BY <1>12 DEF Leaked
  <2>2. /\ DOMAIN pg = PageFields /\ pg.running = page.running /\ pg.erase = page.erase
        /\ pg.after = page.after /\ pg.proof = page.proof
    BY <1>2 DEF PageFields
  <2> HIDE DEF pg
  <2> QED
    BY <1>6, <2>1, <2>2
<1>13. CASE EnvelopeSeen(t)
  <2> DEFINE pg == [page EXCEPT !.memory = v]
  <2>1. StageDone(t, pg)
    BY <1>13 DEF EnvelopeSeen
  <2>2. /\ DOMAIN pg = PageFields /\ pg.running = page.running /\ pg.erase = page.erase
        /\ pg.after = page.after /\ pg.proof = page.proof
    BY <1>2 DEF PageFields
  <2> HIDE DEF pg
  <2> QED
    BY <1>6, <2>1, <2>2
<1>14. CASE Endured(t) \/ Audited(t)
  BY <1>2, <1>6, <1>14 DEF Endured, Audited
<1>15. CASE Erased(t)
  <2> DEFINE d == [k EXCEPT !.erased = v]
  <2>1. /\ Asks(t, d, "getMemory") /\ k.op \in {"erase", "signed"} /\ HasAnswer(k)
        /\ v = k.answer.value /\ page' = page
    BY <1>15 DEF Erased, Comes, HasAnswer, Value
  <2>2. /\ DOMAIN d = TaskFields /\ d.flow = k.flow /\ k.flow = "erase"
        /\ d.subject = k.subject /\ d.erased = v
    BY <1>2, <2>1 DEF TaskFields, OpOk
  <2>3. ASSUME NEW n, n.flow = d.flow, n.op = "getMemory", n.answer = None,
               n.subject = d.subject, n.erased = d.erased
        PROVE  FlowOk(n, gateway, mock, backend)
    <3>1. OpOk(n)
      BY <2>2, <2>3 DEF OpOk, EraseOps
    <3>2. backend = "http" => HttpOk(n, gateway)
      BY <1>3, <2>1, <2>2, <2>3 DEF HttpOk
    <3>3. backend = "mock" => MockOk(n, mock)
      BY <1>4, <2>1, <2>2, <2>3 DEF MockOk, HasAnswer
    <3> QED
      BY <3>1, <3>2, <3>3 DEF FlowOk
  <2> HIDE DEF d
  <2> QED
    BY <1>1, <2>1, <2>2, <2>3, AsksWhole
<1>16. CASE AfterSeen(t)
  <2> DEFINE d == [k EXCEPT !.view = v]
  <2>1. /\ Asks(t, d, "getProof") /\ k.op \in {"getMemory", "getKey"} /\ HasAnswer(k)
        /\ v = k.answer.value /\ k.flow = "erase" /\ page' = page
    BY <1>16 DEF AfterSeen, Comes, HasAnswer, Value
  <2>2. /\ DOMAIN d = TaskFields /\ d.flow = k.flow /\ d.view = v
        /\ d.subject = k.subject /\ d.erased = k.erased
    BY <1>2 DEF TaskFields
  <2>3. ASSUME NEW n, n.flow = d.flow, n.op = "getProof", n.answer = None,
               n.subject = d.subject, n.erased = d.erased, n.view = d.view
        PROVE  FlowOk(n, gateway, mock, backend)
    <3>1. OpOk(n)
      BY <2>1, <2>2, <2>3 DEF OpOk, EraseOps
    <3>2. backend = "http" => k.op = "getKey"
      BY <1>3, <2>1 DEF AnswerOk, HasAnswer
    <3>3. backend = "http" => HttpOk(n, gateway)
      BY <1>3, <2>1, <2>2, <2>3, <3>2 DEF HttpOk, HasAnswer
    <3>4. backend = "mock" => MockOk(n, mock)
      BY <1>4, <2>1, <2>2, <2>3 DEF MockOk, HasAnswer
    <3> QED
      BY <3>1, <3>3, <3>4 DEF FlowOk
  <2> HIDE DEF d
  <2> QED
    BY <1>1, <2>1, <2>2, <2>3, AsksWhole
<1>17. CASE ProofSeen(t)
  <2> DEFINE d == [k EXCEPT !.proof = v, !.vector = ref.vector]
  <2>1. /\ Asks(t, d, "search") /\ k.op = "getProof" /\ HasAnswer(k)
        /\ v = k.answer.value /\ page' = page
    BY <1>17 DEF ProofSeen, Comes, HasAnswer, Value
  <2>2. /\ DOMAIN d = TaskFields /\ d.flow = k.flow /\ d.proof = v /\ d.view = k.view
        /\ d.subject = k.subject /\ d.erased = k.erased /\ k.flow = "erase"
    BY <1>2, <2>1 DEF TaskFields, OpOk
  <2>3. ASSUME NEW n, n.flow = d.flow, n.op = "search", n.answer = None,
               n.subject = d.subject, n.erased = d.erased, n.view = d.view, n.proof = d.proof
        PROVE  FlowOk(n, gateway, mock, backend)
    <3>1. OpOk(n)
      BY <2>2, <2>3 DEF OpOk, EraseOps
    <3>2. backend = "http" => HttpOk(n, gateway)
      BY <1>3, <2>1, <2>2, <2>3 DEF HttpOk
    <3>3. backend = "mock" => MockOk(n, mock)
      BY <1>4, <2>1, <2>2, <2>3 DEF MockOk
    <3> QED
      BY <3>1, <3>2, <3>3 DEF FlowOk
  <2> HIDE DEF d
  <2> QED
    BY <1>1, <2>1, <2>2, <2>3, AsksWhole
<1>18. CASE EraseShown(t)
  <2> DEFINE pg == [page EXCEPT !.erase = k.erased, !.after = k.view,
                                !.proof = k.proof, !.searchAfter = SearchResult(t)]
  <2>1. StageDone(t, pg) /\ k.op = "search" /\ k.flow = "erase"
    BY <1>18 DEF EraseShown, SearchComes
  <2>2. /\ DOMAIN pg = PageFields /\ pg.running = page.running /\ pg.erase = k.erased
        /\ pg.after = k.view /\ pg.proof = k.proof
    BY <1>2 DEF PageFields
  <2>3. /\ Gone(k.view, k.erased.subject) /\ Proves(k.proof, k.erased)
        /\ backend = "mock" => Signs(k.proof, k.erased.subject)
    BY <1>2, <1>3, <1>4, <2>1 DEF HttpOk, MockOk, Recorded, Proves
  <2> HIDE DEF pg
  <2>4. ShownWhole(pg, backend)
    BY <2>2, <2>3 DEF ShownWhole
  <2> QED
    BY <1>1, <2>1, <2>2, <2>4, StageDoneWhole
<1>19. ASSUME NEW op \in {"status", "warm"}, k.op = op, PollsOn(t, op)
       PROVE  WholeInv'
  <2> DEFINE d == [k EXCEPT !.polls = @ + 1]
  <2>1. CASE Over(t, page)
    BY <1>2, <1>7, <2>1
  <2>2. CASE Asks(t, d, op) /\ UNCHANGED page
    <3>1. DOMAIN d = TaskFields /\ d.flow = k.flow /\ k.flow # "erase"
      BY <1>2, <1>19 DEF TaskFields, OpOk, EraseOps
    <3> HIDE DEF d
    <3> QED
      BY <1>5, <2>2, <3>1
  <2> QED
    BY <1>19, <2>1, <2>2 DEF PollsOn
<1>20. CASE JobStarted(t)
  <2>1. Asks(t, k, "status") /\ k.op = "start" /\ page' = page
    BY <1>20 DEF JobStarted, Comes
  <2>2. k.flow # "erase"
    BY <1>2, <2>1 DEF OpOk, EraseOps
  <2> QED
    BY <1>2, <1>5, <2>1, <2>2
<1>21. CASE Polled(t)
  <2> DEFINE pg == [page EXCEPT !.live = [inverts |-> v.input, asked |-> k.vector]]
  <2>1. k.op = "status" /\ (Over(t, pg) \/ Over(t, page) \/ PollsOn(t, "status"))
    BY <1>21 DEF Polled, Comes
  <2>2. /\ DOMAIN pg = PageFields /\ pg.running = page.running /\ pg.erase = page.erase
        /\ pg.after = page.after /\ pg.proof = page.proof
    BY <1>2 DEF PageFields
  <2> HIDE DEF pg
  <2> QED
    BY <1>2, <1>7, <1>19, <2>1, <2>2
<1>22. CASE WarmPolled(t)
  <2> DEFINE d == [k EXCEPT !.polls = 0]
  <2>1. k.op = "warm" /\ (PollsOn(t, "warm") \/ (Asks(t, d, "forensics") /\ UNCHANGED page))
    BY <1>22 DEF WarmPolled, Comes
  <2>2. DOMAIN d = TaskFields /\ d.flow = k.flow /\ k.flow # "erase"
    BY <1>2, <2>1 DEF TaskFields, OpOk, EraseOps
  <2> HIDE DEF d
  <2> QED
    BY <1>5, <1>19, <2>1, <2>2
<1>23. CASE VerdictComes(t)
  <2> DEFINE pg == [page EXCEPT !.audit = v]
  <2>1. Over(t, pg)
    BY <1>23 DEF VerdictComes
  <2>2. /\ DOMAIN pg = PageFields /\ pg.running = page.running /\ pg.erase = page.erase
        /\ pg.after = page.after /\ pg.proof = page.proof
    BY <1>2 DEF PageFields
  <2> HIDE DEF pg
  <2> QED
    BY <1>7, <2>1, <2>2
<1>24. CASE TitanComes(t) \/ PastComes(t) \/ Fails(t)
  BY <1>2, <1>7, <1>24 DEF TitanComes, PastComes, Fails
<1> QED
  BY <1>8, <1>9, <1>10, <1>11, <1>12, <1>13, <1>14, <1>15, <1>16, <1>17, <1>18, <1>20,
     <1>21, <1>22, <1>23, <1>24 DEF GoesOn

----------------------------------------------------------------------------
\* The reader.

LEMMA BeginsWhole ==
    ASSUME ConsoleInv, WholeInv, NEW flow \in Flows, NEW auto, Begins(flow, auto),
           flow \in Stages => ~Busy
    PROVE  WholeInv'
<1> DEFINE k == Task(flow, auto)
           t == Min(Free)
<1>1. /\ page' = [page EXCEPT !.running = @ \union {flow}] /\ Becomes(t, k)
      /\ UNCHANGED <<gateway, mock, backend>>
  BY DEF Begins, backends
<1>2. /\ page'.running = page.running \union {flow} /\ page'.erase = page.erase
      /\ page'.after = page.after /\ page'.proof = page.proof
  BY <1>1 DEF ConsoleInv, PageOk, PageFields
<1>3. DOMAIN k = TaskFields /\ k.flow = flow /\ FlowOk(k, gateway, mock, backend)
  BY FlowBegins DEF Task, TaskFields
<1> HIDE DEF k, t
<1>4. FlowsOk'
  BY <1>1, <1>3, BecomesFlow DEF WholeInv
<1>5. ASSUME backend = "mock"
      PROVE  StageOk(tasks', page')
  <2>1. StageOk(tasks, page)
    BY <1>5 DEF WholeInv
  <2>2. \A u \in Slots : tasks[u] # NoTask /\ tasks[u].flow \in Stages =>
            tasks[u].flow \in page.running
    BY <2>1 DEF StageOk
  <2>3. flow \in Stages => Alone(t)
    BY <2>2 DEF Busy, Alone
  <2> QED
    BY <1>1, <1>2, <1>3, <2>1, <2>2, <2>3, BecomesStage
<1>6. ShownWhole(page', backend)
  BY <1>2 DEF WholeInv, ShownWhole
<1> QED
  BY <1>1, <1>4, <1>5, <1>6 DEF WholeInv

LEMMA ReaderWhole ==
    ASSUME ConsoleInv, WholeInv, Reader
    PROVE  WholeInv'
<1>1. CASE Reset
  <2>1. /\ page' = InitialPage /\ UNCHANGED <<gateway, mock, backend>> /\ ~Busy
        /\ tasks' = [t \in Slots |-> IF t \in Running(tasks, OfSubject)
                                     THEN [tasks[t] EXCEPT !.crossed = TRUE] ELSE tasks[t]]
    BY <1>1 DEF Reset, backends
  <2>2. ASSUME NEW u \in Slots, tasks'[u] # NoTask
        PROVE  /\ tasks[u] # NoTask /\ tasks'[u].flow = tasks[u].flow
               /\ tasks'[u].op = tasks[u].op /\ tasks'[u].answer = tasks[u].answer
               /\ tasks'[u].subject = tasks[u].subject /\ tasks'[u].view = tasks[u].view
               /\ tasks'[u].erased = tasks[u].erased /\ tasks'[u].proof = tasks[u].proof
    <3>1. /\ tasks[u] # NoTask
          /\ tasks'[u] \in {tasks[u], [tasks[u] EXCEPT !.crossed = TRUE]}
      BY <2>1, <2>2 DEF Running
    <3>2. DOMAIN tasks[u] = TaskFields
      BY <3>1 DEF ConsoleInv, TasksOk, TaskOk
    <3> QED
      BY <3>1, <3>2 DEF TaskFields
  <2>3. FlowsOk'
    <3> SUFFICES ASSUME NEW u \in Slots, tasks'[u] # NoTask
                 PROVE  FlowOk(tasks'[u], gateway, mock, backend)
      BY <2>1 DEF FlowsOk
    <3> QED
      BY <2>2, SameFlow DEF WholeInv, FlowsOk
  <2>4. backend = "mock" => StageOk(tasks', page')
    BY <2>1, <2>2 DEF WholeInv, StageOk, Busy
  <2>5. ShownWhole(page', backend)
    BY <2>1 DEF ShownWhole, InitialPage
  <2> QED
    BY <2>1, <2>3, <2>4, <2>5 DEF WholeInv
<1>2. CASE (\E s \in Stages : RunStage(s, FALSE)) \/ RunAll
  BY <1>2, BeginsWhole DEF RunStage, RunAll, Flows, Stages
<1>3. CASE RunMemoryWriter \/ RunLiveLeak \/ RunTitan \/ RunTimeTravel \/ RunForensics
  <2>1. PICK flow \in {"writer", "live", "titan", "timeTravel", "agent"} : Begins(flow, FALSE)
    BY <1>3 DEF RunMemoryWriter, RunLiveLeak, RunTitan, RunTimeTravel, RunForensics
  <2>2. flow \in Flows /\ flow \notin Stages
    BY DEF Flows, Stages
  <2> QED
    BY <2>1, <2>2, BeginsWhole
<1> QED
  BY <1>1, <1>2, <1>3 DEF Reader

----------------------------------------------------------------------------

LEMMA WholeStep == ConsoleInv /\ WholeInv /\ [Next]_vars => WholeInv'
<1> SUFFICES ASSUME ConsoleInv, WholeInv, [Next]_vars PROVE WholeInv'
  OBVIOUS
<1>1. CASE Reader
  BY <1>1, ReaderWhole
<1>2. ASSUME NEW t \in Slots, Moves(t)
      PROVE  WholeInv'
  BY <1>2, ServeWhole, GoesOnWhole DEF Moves
<1>3. CASE Background /\ UNCHANGED <<page, ref, torn>>
  BY <1>3, BackgroundWhole
<1>4. CASE UNCHANGED vars
  BY <1>4 DEF vars, backends, WholeInv, FlowsOk
<1> QED
  BY <1>1, <1>2, <1>3, <1>4 DEF Next

LEMMA WholeHolds == Spec => []WholeInv
  BY WholeInit, WholeStep, ConsoleHolds, PTL DEF Spec

\* The result of the erase stage (useDemo.ts, runErase) is one erasure: the
\* memory read after it has neither embedding nor key, and the proof is its
\* own and signed, or pending as the erasure answered over HTTP (server.go,
\* handleErase), whatever flows overlap, calls are lost, sweeps or visitors
\* come; on the mock (mock.ts) too, which signs at once and whose one subject
\* the writer may replace meanwhile.
THEOREM ErasureShownCorrect == Spec => []ErasureIsShownWhole
  BY WholeHolds, WholeImplies, PTL

----------------------------------------------------------------------------
\* What the next stage acts on is what is shown.
\*
\* A flow that no other one crosses knows that its memory is that of the
\* refs, and what has become of it.

OfMemory(k) == k # NoTask /\ k.flow \in OfSubject
MemoryOps   == Storing \union EraseOps

RightOp(k) == /\ k.op = "ingest" => k.flow = "memory"
              /\ k.op \in {"write", "written"} => k.flow = "writer"
              /\ k.flow \in Loaders => k.op \in Storing \union {"getMemory", "getKey", "search"}
              /\ k.flow = "envelope" => k.op \in {"getMemory", "getKey"}
              /\ k.flow = "erase" => k.op \in EraseOps
              /\ k.op \in MemoryOps => k.flow \in OfSubject
OpsOk == \A t \in Slots : tasks[t] # NoTask => RightOp(tasks[t])

\* The memory is there: over HTTP, and as the mock's only one.
Current(s, gw, mk, be) == /\ s # None
                          /\ be = "http" => s \in DOMAIN gw.memories /\ s \notin gw.erased
                          /\ be = "mock" => mk.subject = s /\ ~mk.erased
VectorOf(flow, v) == v \in Nat /\ (flow = "memory" <=> v = DemoVector)

Storer(k, gw, mk, be) ==      \* a loader until its memory is stored
    /\ k.subject = None
    /\ k.op = "written" => be = "mock" /\ Current(MockWritten, gw, mk, be)
    /\ be = "mock" => k.answer # Failed
    /\ HasAnswer(k) => /\ k.answer.value = [subject |-> k.answer.value.subject,
                                            vector  |-> k.answer.value.vector]
                       /\ VectorOf(k.flow, k.answer.value.vector)
                       /\ Current(k.answer.value.subject, gw, mk, be)
Finder(k, rf, gw, mk, be) ==  \* a loader from then on
    /\ rf = [subject |-> k.subject, vector |-> k.vector]
    /\ VectorOf(k.flow, k.vector) /\ Current(k.subject, gw, mk, be)
    /\ k.op \in {"getMemory", "getKey"} /\ HasAnswer(k) => k.answer.value.subject = k.subject
    /\ k.op = "search" => k.view.subject = k.subject
    /\ k.op = "search" /\ HasAnswer(k) => /\ k.answer.value.subject = k.subject
                                          /\ k.answer.value.vector = k.vector
                                          /\ k.answer.value.found
Viewer(k, rf, mk, be) ==
    /\ k.subject = rf.subject
    /\ HasAnswer(k) => k.answer.value.subject = IF be = "http" THEN k.subject ELSE mk.subject
Eraser(k, rf, mk, be) ==
    /\ k.subject = rf.subject
    /\ be = "mock" /\ k.op # "erase" => k.erased.subject = mk.subject /\ mk.erased
    /\ k.op = "search" => k.vector = rf.vector
    /\ k.op = "search" /\ HasAnswer(k) => /\ k.answer.value.subject = k.subject
                                          /\ k.answer.value.vector = k.vector
                                          /\ ~k.answer.value.found

Knows(k, rf, gw, mk, be) ==
    /\ k.flow \in Loaders => IF k.op \in Storing THEN Storer(k, gw, mk, be)
                                                 ELSE Finder(k, rf, gw, mk, be)
    /\ k.flow = "envelope" => Viewer(k, rf, mk, be)
    /\ k.flow = "erase" => Eraser(k, rf, mk, be)
KnowsOk == \A t \in Slots : OfMemory(tasks[t]) =>
    tasks[t].crossed \/ Knows(tasks[t], ref, gateway, mock, backend)

\* Two flows that use the refs have crossed.
CrossedOk == \A t, u \in Slots : t # u /\ OfMemory(tasks[t]) /\ OfMemory(tasks[u]) =>
    tasks[t].crossed

\* The loaders under way, if any, have changed nothing yet; what the page
\* shows of the refs' memory; and the mock's memory is theirs.
Loads(k) == k # NoTask /\ k.flow \in Loaders
Clean    == ~torn /\ \A t \in Slots : Loads(tasks[t]) =>
                tasks[t].op \in Storing /\ ~tasks[t].crossed
Result(s, pg) == s # None => s.subject = pg.subject /\ s.vector = pg.vector
ShownIs(pg, rf) ==
    /\ rf = [subject |-> pg.subject, vector |-> pg.vector]
    /\ pg.memory # None => pg.memory.subject = pg.subject
    /\ (pg.written = None <=> pg.vector = DemoVector)
    /\ Result(pg.before, pg) /\ (pg.before # None => pg.before.found)
    /\ Result(pg.searchAfter, pg) /\ (pg.searchAfter # None => ~pg.searchAfter.found)
    /\ pg.erase # None => pg.erase.subject = pg.subject
MockIs == ~torn /\ (\A t \in Slots : ~Loads(tasks[t])) /\ backend = "mock" /\ ref.subject # None =>
    mock.subject = ref.subject

ActsInv == OpsOk /\ KnowsOk /\ CrossedOk /\ (Clean => ShownIs(page, ref)) /\ MockIs

LEMMA ActsImplies == ActsInv => ActsOnWhatIsShown
<1> SUFFICES ASSUME ActsInv, ~torn, Running(tasks, Loaders) = {}
             PROVE  /\ ref = [subject |-> page.subject, vector |-> page.vector]
                    /\ MemoryPanel.memory # None => MemoryPanel.memory.subject = page.subject
                    /\ MemoryPanel.text = None <=> page.vector = DemoVector
                    /\ \A search \in {page.before, page.searchAfter} \ {None} :
                          search.subject = page.subject /\ search.vector = page.vector
                    /\ page.before # None => Retrieval(page.before) = "found"
                    /\ page.searchAfter # None => Retrieval(page.searchAfter) = "0 rows"
                    /\ page.erase # None => page.erase.subject = page.subject
  BY DEF ActsOnWhatIsShown
<1>1. Clean
  BY DEF Clean, Loads, Running
<1>2. ShownIs(page, ref)
  BY <1>1 DEF ActsInv
<1>3. MemoryPanel.memory = page.memory /\ MemoryPanel.text = page.written
  BY DEF MemoryPanel
<1> QED
  BY <1>2, <1>3 DEF ShownIs, Result, Retrieval

LEMMA ActsInit == Init => ActsInv
<1> SUFFICES ASSUME Init PROVE ActsInv
  OBVIOUS
<1>1. \A t \in Slots : tasks[t] = NoTask
  BY DEF Init, BackendsInit
<1>2. ShownIs(page, ref)
  BY DEF Init, InitialPage, NoRef, ShownIs, Result
<1>3. ref.subject = None
  BY DEF Init, NoRef
<1> QED
  BY <1>1, <1>2, <1>3 DEF ActsInv, OpsOk, KnowsOk, CrossedOk, OfMemory, MockIs

\* What Knows looks at.
LEMMA KnowsSame ==
    ASSUME NEW k, NEW rf, NEW gw, NEW mk, NEW be, Knows(k, rf, gw, mk, be),
           NEW n, n.flow = k.flow, n.op = k.op, n.answer = k.answer, n.subject = k.subject,
           n.vector = k.vector, n.view = k.view, n.erased = k.erased,
           NEW gw2, gw2.memories = gw.memories, gw2.erased = gw.erased
    PROVE  Knows(n, rf, gw2, mk, be)
  BY DEF Knows, Storer, Finder, Viewer, Eraser, Current, HasAnswer

\* A call that fails teaches nothing.
LEMMA KnowsFailed ==
    ASSUME NEW k, NEW rf, NEW gw, NEW mk, NEW be, Knows(k, rf, gw, mk, be), k.answer = None,
           NEW n, n.flow = k.flow, n.op = k.op, n.answer = Failed, n.subject = k.subject,
           n.vector = k.vector, n.view = k.view, n.erased = k.erased,
           be = "http" \/ k.op \notin Storing
    PROVE  Knows(n, rf, gw, mk, be)
  BY DEF Knows, Storer, Finder, Viewer, Eraser, HasAnswer

LEMMA OkNotFailed == \A v : Ok(v) # Failed
<1>1. \A v : DOMAIN Ok(v) = {"ok", "value"}
  BY DEF Ok
<1>2. DOMAIN Failed = {"ok"} /\ "value" \in {"ok", "value"} /\ "value" \notin {"ok"}
  BY DEF Failed
<1> QED
  BY <1>1, <1>2

\* A memory is stored at the gateway.
LEMMA StoresIs ==
    ASSUME ConsoleInv, TypeInv, NEW t \in Slots, NEW vector \in Nat, Stores(t, vector),
           backend = "http"
    PROVE  LET s == Len(gateway.memories) + 1
           IN /\ s \in Nat /\ Current(s, gateway', mock', backend)
              /\ gateway'.erased = gateway.erased
              /\ DOMAIN gateway.memories \subseteq DOMAIN gateway'.memories
              /\ \E a : /\ Answered(t, a)
                        /\ a = Failed \/ a = Ok([subject |-> s, vector |-> vector])
<1> DEFINE s == Len(gateway.memories) + 1
<1>1. gateway.memories \in Seq(Nat) /\ gateway.erased \subseteq DOMAIN gateway.memories
  BY DEF TypeInv, GatewayType
<1>2. /\ s \in Nat /\ DOMAIN gateway.memories = 1..Len(gateway.memories)
      /\ DOMAIN Append(gateway.memories, vector) = 1..s /\ Len(gateway.memories) \in Nat
  BY <1>1, AppendIs
<1>3. /\ gateway' = [gateway EXCEPT !.memories = Append(@, vector)]
      /\ Reply(t, [subject |-> s, vector |-> vector])
  BY DEF Stores
<1>4. gateway'.memories = Append(gateway.memories, vector) /\ gateway'.erased = gateway.erased
  BY <1>3 DEF ConsoleInv, GatewayOk
<1>5. s \in 1..s /\ s \notin 1..Len(gateway.memories) /\ s # None
  BY <1>2, BackendsAssumption
<1>6. Current(s, gateway', mock', backend)
  BY <1>1, <1>2, <1>4, <1>5 DEF Current
<1>7. DOMAIN gateway.memories \subseteq DOMAIN gateway'.memories
  BY <1>2, <1>4
<1>8. \E a : Answered(t, a) /\ (a = Failed \/ a = Ok([subject |-> s, vector |-> vector]))
  BY <1>3, ReplyIs
<1> QED
  BY <1>2, <1>4, <1>6, <1>7, <1>8

\* A call is served to a flow that no other one crosses.
LEMMA ServeKnows ==
    ASSUME ConsoleInv, TypeInv, WholeInv, OpsOk, NEW t \in Slots, Serve(t),
           OfMemory(tasks[t]), Knows(tasks[t], ref, gateway, mock, backend), UNCHANGED ref
    PROVE  RightOp(tasks'[t]) /\ Knows(tasks'[t], ref', gateway', mock', backend')
<1> DEFINE k == tasks[t]
           n == tasks'[t]
           Known == RightOp(n) /\ Knows(n, ref, gateway', mock', backend)
<1>1. /\ k # NoTask /\ k.answer = None /\ Kept(n, k) /\ RightOp(k)
      /\ DOMAIN k = TaskFields /\ DOMAIN tasks = Slots
  BY ServedBy, ServeKept DEF AllKept, OpsOk, ConsoleInv, TasksOk, TaskOk
<1>2. backend' = backend /\ backend \in {"http", "mock"}
  <2>1. BoundsType /\ BoundsType' /\ (Drop(t) \/ Gateway(t) \/ Mock(t))
    BY TypeServe DEF TypeInv, Serve
  <2> QED
    BY <2>1, <1>1 DEF Drop, Gateway, Ingest, WriteMemory, Stores, Memory, MemoryKey, Search,
           Erase, GetProof, Read, StartInversion, InversionStatus, Warm, ConfirmKey,
           ConfirmRecord, Verdict, Mock, MockIngest, MockWrite, MockWriteEnds, MockGetMemory,
           MockSearch, MockErase, MockEraseEnds, MockGetProof, MockRead, MockAgent,
           MockAnswers, MockRefuses, MockSets, BoundsType
<1>3. /\ n.flow = k.flow /\ n.subject = k.subject /\ n.vector = k.vector
  BY <1>1 DEF Kept
<1> SUFFICES Known
  BY <1>2
<1>4. ASSUME NEW a, Answered(t, a)
      PROVE  /\ n.answer = a /\ n.op = k.op /\ n.view = k.view /\ n.erased = k.erased
             /\ RightOp(n)
  <2>1. n.answer = a /\ n.op = k.op /\ n.view = k.view /\ n.erased = k.erased
    BY <1>1, <1>4, AnsweredIs
  <2> QED
    BY <1>1, <1>3, <2>1 DEF RightOp
<1>5. ASSUME Answered(t, Failed), UNCHANGED <<gateway, mock>>,
             backend = "http" \/ k.op \notin Storing
      PROVE  Known
  BY <1>1, <1>3, <1>4, <1>5, KnowsFailed
<1>6. CASE Drop(t)
  BY <1>5, <1>6 DEF Drop
<1>7. CASE (k.op = "ingest" /\ Ingest(t)) \/ (k.op = "write" /\ WriteMemory(t))
  <2> DEFINE s == Len(gateway.memories) + 1
  <2>1. /\ backend = "http" /\ k.flow \in Loaders /\ k.op \in Storing /\ k.op # "written"
    BY <1>1, <1>7 DEF Ingest, WriteMemory, Calls, RightOp, Loaders, Storing
  <2>2. PICK vector \in Nat : Stores(t, vector) /\ VectorOf(k.flow, vector)
    <3>1. Len(gateway.memories) \in Nat
      BY DEF ConsoleInv, GatewayOk
    <3>2. /\ DemoVector \in Nat /\ s \in Nat /\ s # DemoVector
      BY <3>1 DEF DemoVector
    <3>3. CASE k.op = "ingest" /\ Ingest(t)
      BY <1>1, <3>2, <3>3 DEF Ingest, RightOp, VectorOf
    <3>4. CASE k.op = "write" /\ WriteMemory(t)
      <4>1. Stores(t, s) /\ k.flow = "writer"
        BY <1>1, <3>4 DEF WriteMemory, RightOp
      <4> HIDE DEF s
      <4> QED
        BY <3>2, <4>1 DEF VectorOf
    <3> QED
      BY <1>7, <3>3, <3>4
  <2>3. PICK a : Answered(t, a) /\ (a = Failed \/ a = Ok([subject |-> s, vector |-> vector]))
    BY <2>1, <2>2, StoresIs
  <2>4. Current(s, gateway', mock', backend)
    BY <2>1, <2>2, StoresIs
  <2> HIDE DEF s
  <2>5. n.answer = a /\ n.op = k.op /\ RightOp(n)
    BY <1>4, <2>3
  <2>6. HasAnswer(n) => /\ n.answer.value.subject = s /\ n.answer.value.vector = vector
                        /\ n.answer.value = [subject |-> s, vector |-> vector]
    BY <2>3, <2>5 DEF HasAnswer, Ok
  <2>7. k.subject = None
    BY <2>1 DEF Knows, Storer
  <2>8. Storer(n, gateway', mock', backend)
    BY <1>3, <2>1, <2>2, <2>4, <2>5, <2>6, <2>7 DEF Storer
  <2> QED
    BY <1>3, <2>1, <2>5, <2>8 DEF Knows, Loaders
<1>8. CASE k.op = "ingest" /\ MockIngest(t)
  <2> DEFINE v == [subject |-> MockDemo, vector |-> DemoVector]
  <2>1. /\ mock' = [mock EXCEPT !.subject = MockDemo, !.erased = FALSE]
        /\ Answered(t, Ok(v)) /\ backend = "mock" /\ k.flow = "memory"
    BY <1>1, <1>8 DEF MockIngest, MockSets, Calls, RightOp
  <2>2. mock'.subject = MockDemo /\ ~mock'.erased
    BY <2>1 DEF WholeInv, MockFields
  <2>3. MockDemo # None /\ MockDemo \in Nat /\ DemoVector \in Nat
    BY BackendsAssumption DEF MockDemo, DemoVector
  <2>4. Current(MockDemo, gateway', mock', backend) /\ VectorOf("memory", DemoVector)
    BY <2>1, <2>2, <2>3 DEF Current, VectorOf
  <2>5. n.answer = Ok(v) /\ n.op = "ingest" /\ RightOp(n) /\ Ok(v) # Failed /\ Ok(v).value = v
    BY <1>4, <1>8, <2>1, OkNotFailed DEF Ok
  <2>6. v.subject = MockDemo /\ v.vector = DemoVector
    OBVIOUS
  <2>7. v = [subject |-> v.subject, vector |-> v.vector]
    OBVIOUS
  <2> HIDE DEF v
  <2>8. k.subject = None
    BY <1>8, <2>1 DEF Knows, Storer, Loaders, Storing
  <2>9. Storer(n, gateway', mock', backend)
    BY <1>3, <2>1, <2>4, <2>5, <2>6, <2>7, <2>8 DEF Storer
  <2> QED
    BY <1>3, <2>1, <2>5, <2>9 DEF Knows, Storing
<1>9. CASE k.op = "write" /\ MockWrite(t)
  <2>1. /\ mock' = [subject |-> MockWritten, erased |-> FALSE, signed |-> None]
        /\ Continues(t, "written") /\ backend = "mock" /\ k.flow = "writer"
    BY <1>1, <1>9 DEF MockWrite, MockSets, Calls, RightOp
  <2>2. mock'.subject = MockWritten /\ ~mock'.erased /\ MockWritten # None
    BY <2>1, BackendsAssumption DEF MockWritten
  <2>3. n.op = "written" /\ n.answer = None
    BY <1>1, <2>1, ContinuesIs
  <2>4. k.subject = None
    BY <1>9, <2>1 DEF Knows, Storer, Loaders, Storing
  <2>5. None # Failed
    BY BackendsAssumption DEF Failed
  <2>6. Storer(n, gateway', mock', backend)
    BY <1>3, <2>1, <2>2, <2>3, <2>4, <2>5 DEF Storer, Current, HasAnswer
  <2>7. RightOp(n)
    BY <1>3, <2>1, <2>3 DEF RightOp, Loaders, Storing, OfSubject
  <2> QED
    BY <1>3, <2>1, <2>3, <2>6, <2>7 DEF Knows, Storing
<1>10. CASE k.op = "written" /\ MockWriteEnds(t)
  <2> DEFINE v == [subject |-> mock.subject, vector |-> MockWritten]
  <2>1. /\ UNCHANGED <<gateway, mock>> /\ Answered(t, Ok(v))
        /\ backend = "mock" /\ k.flow = "writer"
    BY <1>1, <1>10 DEF MockWriteEnds, MockAnswers, Calls, RightOp
  <2>2. n.answer = Ok(v) /\ n.op = "written" /\ RightOp(n) /\ Ok(v) # Failed /\ Ok(v).value = v
    BY <1>4, <1>10, <2>1, OkNotFailed DEF Ok
  <2>3. v.subject = mock.subject /\ v.vector = MockWritten
    OBVIOUS
  <2>4. v = [subject |-> v.subject, vector |-> v.vector]
    OBVIOUS
  <2> HIDE DEF v
  <2>5. k.subject = None /\ Current(MockWritten, gateway, mock, backend)
    BY <1>10, <2>1 DEF Knows, Storer, Loaders, Storing
  <2>6. VectorOf("writer", MockWritten)
    BY DEF VectorOf, MockWritten, DemoVector
  <2>7. mock.subject = MockWritten
    BY <2>1, <2>5 DEF Current
  <2>8. Storer(n, gateway, mock, backend)
    BY <1>3, <2>1, <2>2, <2>3, <2>4, <2>5, <2>6, <2>7 DEF Storer
  <2> QED
    BY <1>3, <2>1, <2>2, <2>8 DEF Knows, Storing
<1>11. CASE k.op = "getMemory" /\ Memory(t)
  <2>1. UNCHANGED <<gateway, mock>> /\ backend = "http"
    BY <1>11 DEF Memory, Calls
  <2>2. CASE Refuse(t)
    BY <1>5, <2>1, <2>2 DEF Refuse
  <2>3. CASE ~Refuse(t)
    <3> DEFINE w == [subject |-> k.subject, embedding |-> Live(k.subject), key |-> FALSE]
               m == [k EXCEPT !.op = "getKey", !.view = w]
    <3>1. tasks' = [tasks EXCEPT ![t].op = "getKey", ![t].view = w]
      BY <1>11, <2>3 DEF Memory
    <3> HIDE DEF w
    <3>2. n = m
      BY <1>1, <3>1
    <3>3. m.op = "getKey" /\ m.answer = None
      BY <1>1 DEF TaskFields
    <3> HIDE DEF m
    <3>4. n.op = "getKey" /\ n.answer = None
      BY <3>2, <3>3
    <3>5. RightOp(n)
      BY <1>1, <1>3, <1>11, <3>4 DEF RightOp, EraseOps, MemoryOps, Storing
    <3>6. Knows(n, ref, gateway, mock, backend)
      BY <1>3, <1>11, <2>1, <3>4 DEF Knows, Storing, Finder, Viewer, Eraser, HasAnswer
    <3> QED
      BY <2>1, <3>5, <3>6
  <2> QED
    BY <2>2, <2>3
<1>12. CASE k.op = "getMemory" /\ MockGetMemory(t)
  <2>1. /\ UNCHANGED <<gateway, mock>> /\ backend = "mock"
        /\ \/ Answered(t, Failed)
           \/ \E v : Answered(t, Ok(v)) /\ v.subject = mock.subject
    BY <1>12 DEF MockGetMemory, MockRefuses, Refuse, MockAnswers, Calls
  <2>2. CASE Answered(t, Failed)
    BY <1>5, <1>12, <2>1, <2>2 DEF Storing
  <2>3. ASSUME NEW v, Answered(t, Ok(v)), v.subject = mock.subject
        PROVE  Known
    <3>1. /\ n.answer = Ok(v) /\ n.op = "getMemory" /\ n.erased = k.erased /\ RightOp(n)
          /\ Ok(v).value = v
      BY <1>4, <1>12, <2>3 DEF Ok
    <3>2. Knows(n, ref, gateway, mock, backend)
      BY <1>3, <1>12, <2>1, <2>3, <3>1 DEF Knows, Storing, Finder, Viewer, Eraser, Current
    <3> QED
      BY <2>1, <3>1, <3>2
  <2> QED
    BY <2>1, <2>2, <2>3
<1>13. CASE k.op = "getKey" /\ MemoryKey(t)
  <2> DEFINE w(key) == [k.view EXCEPT !.key = key]
  <2>1. /\ UNCHANGED <<gateway, mock>> /\ backend = "http"
        /\ Reply(t, w(Live(k.subject)))
    BY <1>13 DEF MemoryKey, Calls
  <2>2. DOMAIN k.view = {"subject", "embedding", "key"} /\ k.view.subject = k.subject
    BY <1>1, <1>13, <2>1 DEF ConsoleInv, TasksOk, TaskOk
  <2>3. \A key : w(key).subject = k.subject
    BY <2>2
  <2> HIDE DEF w
  <2>4. PICK a : Answered(t, a) /\ (a = Failed \/ a = Ok(w(Live(k.subject))))
    BY <2>1, ReplyIs
  <2>5. /\ n.answer = a /\ n.op = "getKey" /\ RightOp(n)
    BY <1>4, <1>13, <2>4
  <2>6. HasAnswer(n) => n.answer.value.subject = k.subject
    BY <2>3, <2>4, <2>5 DEF HasAnswer, Ok
  <2>7. Knows(n, ref, gateway, mock, backend)
    BY <1>3, <1>13, <2>1, <2>5, <2>6 DEF Knows, Storing, Finder, Viewer, Eraser
  <2> QED
    BY <2>1, <2>5, <2>7
<1>14. CASE k.op = "search" /\ (Search(t) \/ MockSearch(t))
  <2>1. /\ UNCHANGED <<gateway, mock>> /\ k.flow \in Loaders \union {"erase"}
    BY <1>1, <1>14 DEF Search, MockSearch, MockAnswers, RightOp, MemoryOps, EraseOps, OfSubject
  <2> DEFINE f == IF backend = "http" THEN Live(k.subject)
                  ELSE ~mock.erased /\ k.subject = mock.subject
             v == Found(t, f)
  <2>2. Reply(t, v) \/ Answered(t, Ok(v))
    BY <1>14 DEF Search, MockSearch, MockAnswers, Calls
  <2>3. v.subject = k.subject /\ v.vector = k.vector /\ v.found = f
    BY DEF Found
  <2>4. k.flow \in Loaders => f
    BY <1>2, <1>14 DEF Knows, Finder, Storing, Current, Live, Stored
  <2>5. k.flow = "erase" => ~f
    BY <1>1, <1>2, <1>14 DEF Knows, Eraser, Live, WholeInv, FlowsOk, FlowOk, HttpOk, Recorded
  <2> HIDE DEF f, v
  <2>6. PICK a : Answered(t, a) /\ (a = Failed \/ a = Ok(v))
    BY <2>2, ReplyIs
  <2>7. n.answer = a /\ n.op = "search" /\ n.view = k.view /\ n.erased = k.erased /\ RightOp(n)
    BY <1>4, <1>14, <2>6
  <2>8. HasAnswer(n) => n.answer.value = v
    BY <2>6, <2>7 DEF HasAnswer, Ok
  <2>9. k.flow \in Loaders => Finder(n, ref, gateway, mock, backend)
    BY <1>3, <1>14, <2>3, <2>4, <2>7, <2>8 DEF Knows, Finder, Storing
  <2>10. k.flow = "erase" => Eraser(n, ref, mock, backend)
    BY <1>3, <1>14, <2>3, <2>5, <2>7, <2>8 DEF Knows, Eraser
  <2> QED
    BY <1>3, <2>1, <2>7, <2>9, <2>10 DEF Knows, Loaders, Storing
<1>15. CASE k.op = "erase" /\ Erase(t)
  <2>1. (\E a : Answered(t, a)) /\ UNCHANGED mock /\ backend = "http" /\ k.flow = "erase"
    BY <1>1, <1>15, ReplyIs DEF Erase, Refuse, Calls, RightOp, MemoryOps,
                                EraseOps, OfSubject, Loaders, Storing
  <2>2. n.op = "erase" /\ RightOp(n)
    BY <1>4, <1>15, <2>1
  <2>3. Knows(n, ref, gateway', mock, backend)
    BY <1>3, <1>15, <2>1, <2>2 DEF Knows, Loaders, Eraser
  <2> QED
    BY <2>1, <2>2, <2>3
<1>16. CASE k.op = "erase" /\ MockErase(t)
  <2>1. backend = "mock" /\ k.flow = "erase"
    BY <1>1, <1>16 DEF MockErase, Calls, RightOp, MemoryOps, EraseOps, OfSubject, Loaders, Storing
  <2>2. CASE MockRefuses(t)
    BY <1>5, <1>16, <2>2 DEF MockRefuses, Refuse, Storing
  <2>3. CASE ~MockRefuses(t)
    <3> DEFINE m == [k EXCEPT !.op = "signed", !.erased = EraseResult(mock.subject, FALSE)]
    <3>1. /\ mock' = [mock EXCEPT !.erased = TRUE]
          /\ tasks' = [tasks EXCEPT ![t].op = "signed", ![t].erased = EraseResult(mock.subject, FALSE)]
      BY <1>16, <2>3 DEF MockErase, MockSets
    <3>2. n = m
      BY <1>1, <3>1
    <3>3. m.op = "signed" /\ m.answer = None /\ m.erased.subject = mock.subject
      BY <1>1 DEF TaskFields, EraseResult
    <3> HIDE DEF m
    <3>4. mock'.subject = mock.subject /\ mock'.erased
      BY <3>1 DEF WholeInv, MockFields
    <3>5. RightOp(n)
      BY <1>3, <2>1, <3>2, <3>3 DEF RightOp, EraseOps, OfSubject, Loaders, Storing
    <3>6. Eraser(n, ref, mock', backend)
      BY <1>3, <2>1, <3>2, <3>3, <3>4 DEF Knows, Eraser
    <3> QED
      BY <1>3, <2>1, <3>5, <3>6 DEF Knows, Loaders
  <2> QED
    BY <2>2, <2>3
<1>17. CASE k.op = "signed" /\ MockEraseEnds(t)
  <2>1. /\ mock' = [mock EXCEPT !.signed = k.erased.subject] /\ Answered(t, Ok(k.erased))
        /\ backend = "mock" /\ k.flow = "erase"
    BY <1>1, <1>17 DEF MockEraseEnds, MockSets, Calls, RightOp, MemoryOps, EraseOps,
                       OfSubject, Loaders, Storing
  <2>2. mock'.subject = mock.subject /\ mock'.erased = mock.erased
    BY <2>1 DEF WholeInv, MockFields
  <2>3. n.op = "signed" /\ n.erased = k.erased /\ RightOp(n)
    BY <1>4, <1>17, <2>1
  <2>4. Eraser(n, ref, mock', backend)
    BY <1>3, <1>17, <2>1, <2>2, <2>3 DEF Knows, Eraser
  <2> QED
    BY <1>3, <2>1, <2>3, <2>4 DEF Knows, Loaders
<1>18. CASE k.op = "getProof" /\ (GetProof(t) \/ MockGetProof(t))
  <2>1. (\E a : Answered(t, a)) /\ UNCHANGED <<gateway, mock>> /\ k.flow = "erase"
    BY <1>1, <1>18, ReplyIs DEF GetProof, MockGetProof, MockAnswers, MockRefuses, Refuse, RightOp,
                MemoryOps, EraseOps, OfSubject, Loaders, Storing
  <2>2. n.op = "getProof" /\ n.erased = k.erased /\ RightOp(n)
    BY <1>4, <1>18, <2>1
  <2>3. Eraser(n, ref, mock, backend)
    BY <1>3, <1>18, <2>1, <2>2 DEF Knows, Eraser
  <2> QED
    BY <1>3, <2>1, <2>2, <2>3 DEF Knows, Loaders
<1>19. k.op \notin PlainOps
  BY <1>1 DEF RightOp, OfMemory, OfSubject, Loaders, Storing, EraseOps, PlainOps
<1> QED
  BY <1>6, <1>7, <1>8, <1>9, <1>10, <1>11, <1>12, <1>13, <1>14, <1>15, <1>16, <1>17, <1>18,
     <1>19, ServedBy

\* A served flow is still at a call of its own.
LEMMA ServeOp ==
    ASSUME ConsoleInv, NEW t \in Slots, Serve(t), RightOp(tasks[t])
    PROVE  RightOp(tasks'[t])
<1> DEFINE k == tasks[t]
           n == tasks'[t]
<1>1. k # NoTask /\ Kept(n, k) /\ DOMAIN k = TaskFields /\ DOMAIN tasks = Slots
  BY ServedBy, ServeKept DEF AllKept, ConsoleInv, TasksOk, TaskOk
<1>2. n.flow = k.flow
  BY <1>1 DEF Kept
<1>3. (\E a : Answered(t, a)) => RightOp(n)
  BY <1>1, <1>2, AnsweredIs DEF RightOp
<1>4. CASE k.op \in PlainOps /\ ServePlain(t)
  <2>1. n.op \in PlainOps
    BY <1>1, <1>4, PlainIs
  <2> QED
    BY <1>2, <1>4, <2>1 DEF RightOp, PlainOps, MemoryOps, Storing, EraseOps, Loaders
<1>5. CASE k.op = "getMemory" /\ Memory(t)
  <2>1. CASE Refuse(t)
    BY <1>3, <2>1 DEF Refuse
  <2>2. CASE ~Refuse(t)
    <3> DEFINE w == [subject |-> k.subject, embedding |-> Live(k.subject), key |-> FALSE]
               m == [k EXCEPT !.op = "getKey", !.view = w]
    <3>1. tasks' = [tasks EXCEPT ![t].op = "getKey", ![t].view = w]
      BY <1>5, <2>2 DEF Memory
    <3> HIDE DEF w
    <3>2. n = m
      BY <1>1, <3>1
    <3>3. m.op = "getKey"
      BY <1>1 DEF TaskFields
    <3> HIDE DEF m
    <3> QED
      BY <1>2, <1>5, <3>2, <3>3 DEF RightOp, EraseOps, MemoryOps, Storing
  <2> QED
    BY <2>1, <2>2
<1>6. CASE k.op = "write" /\ MockWrite(t)
  <2>1. n.op = "written"
    BY <1>1, <1>6, ContinuesIs DEF MockWrite
  <2> QED
    BY <1>2, <1>6, <2>1 DEF RightOp, EraseOps, Storing, Loaders, OfSubject
<1>7. CASE k.op = "erase" /\ MockErase(t)
  <2>1. CASE Refuse(t)
    BY <1>3, <2>1 DEF Refuse
  <2>2. CASE ~Refuse(t)
    <3> DEFINE m == [k EXCEPT !.op = "signed", !.erased = EraseResult(mock.subject, FALSE)]
    <3>1. tasks' = [tasks EXCEPT ![t].op = "signed", ![t].erased = EraseResult(mock.subject, FALSE)]
      BY <1>7, <2>2 DEF MockErase, MockRefuses
    <3>2. n = m
      BY <1>1, <3>1
    <3>3. m.op = "signed"
      BY <1>1 DEF TaskFields
    <3> HIDE DEF m
    <3> QED
      BY <1>2, <1>7, <3>2, <3>3 DEF RightOp, EraseOps, MemoryOps, Storing
  <2> QED
    BY <2>1, <2>2
<1>8. CASE Ingest(t) \/ WriteMemory(t) \/ Erase(t)
  <2>1. Refuse(t) \/ \E v : Reply(t, v)
    BY <1>8 DEF Ingest, WriteMemory, Stores, Erase
  <2> QED
    BY <1>3, <2>1, ReplyIs
<1>9. CASE \/ Drop(t) \/ MockIngest(t) \/ MockWriteEnds(t) \/ MockGetMemory(t) \/ MemoryKey(t)
           \/ Search(t) \/ MockSearch(t) \/ MockEraseEnds(t) \/ GetProof(t) \/ MockGetProof(t)
  BY <1>3, <1>9, ReplyIs DEF Drop, MockIngest, MockWriteEnds, MockGetMemory, MemoryKey, Search,
     MockSearch, MockEraseEnds, GetProof, MockGetProof, MockAnswers, MockRefuses, Refuse
<1> QED
  BY <1>4, <1>5, <1>6, <1>7, <1>8, <1>9, ServedBy

\* A call of a flow that does not use the refs changes no memory.
LEMMA ServeQuiet ==
    ASSUME ConsoleInv, NEW t \in Slots, Serve(t), RightOp(tasks[t]), ~OfMemory(tasks[t])
    PROVE  /\ UNCHANGED <<backend, mock>>
           /\ gateway'.memories = gateway.memories /\ gateway'.erased = gateway.erased
<1>1. tasks[t] # NoTask /\ tasks[t].op \notin MemoryOps
  BY ServedBy DEF RightOp, OfMemory
<1>2. Drop(t) \/ ServePlain(t)
  BY <1>1, ServedBy DEF MemoryOps, EraseOps, Storing
<1> QED
  BY <1>1, <1>2, PlainIs DEF Drop

LEMMA ServeActs ==
    ASSUME ConsoleInv, TypeInv, WholeInv, ActsInv, NEW t \in Slots, Serve(t),
           UNCHANGED <<page, ref, torn>>
    PROVE  ActsInv'
<1> DEFINE k == tasks[t]
           n == tasks'[t]
<1>1. /\ k # NoTask /\ AllKept /\ OthersWait(t) /\ RightOp(k) /\ Kept(n, k)
  BY ServedBy, ServeKept DEF AllKept, ActsInv, OpsOk
<1>2. \A u \in Slots : /\ tasks'[u] # NoTask <=> tasks[u] # NoTask
                       /\ tasks[u] # NoTask => /\ tasks'[u].flow = tasks[u].flow
                                               /\ tasks'[u].crossed = tasks[u].crossed
                                               /\ tasks'[u].subject = tasks[u].subject
  BY <1>1, IsTask DEF AllKept, Kept
<1>3. OpsOk'
  <2>1. RightOp(n)
    BY <1>1, ServeOp
  <2>2. \A u \in Slots \ {t} : tasks[u] # NoTask => RightOp(tasks'[u])
    BY <1>1, <1>2 DEF OthersWait, Waits, RightOp, ActsInv, OpsOk
  <2> QED
    BY <1>2, <2>1, <2>2 DEF OpsOk
<1>4. CrossedOk'
  BY <1>2 DEF ActsInv, CrossedOk, OfMemory
<1>5. KnowsOk'
  <2> SUFFICES ASSUME NEW u \in Slots, OfMemory(tasks'[u]), ~tasks'[u].crossed
               PROVE  Knows(tasks'[u], ref', gateway', mock', backend')
    BY DEF KnowsOk
  <2>1. OfMemory(tasks[u]) /\ ~tasks[u].crossed
    BY <1>2 DEF OfMemory
  <2>2. Knows(tasks[u], ref, gateway, mock, backend)
    BY <2>1 DEF ActsInv, KnowsOk
  <2>3. CASE u = t
    BY <2>1, <2>2, <2>3, ServeKnows DEF ActsInv
  <2>4. CASE u # t
    <3>1. ~OfMemory(k)
      BY <2>1, <2>4 DEF ActsInv, CrossedOk
    <3>2. /\ backend' = backend /\ mock' = mock
          /\ gateway'.memories = gateway.memories /\ gateway'.erased = gateway.erased
      BY <1>1, <3>1, ServeQuiet
    <3>3. Kept(tasks'[u], tasks[u]) /\ Waits(tasks'[u], tasks[u])
      BY <1>1, <2>1, <2>4 DEF AllKept, OthersWait, OfMemory
    <3> QED
      BY <2>2, <3>2, <3>3, KnowsSame DEF Kept, Waits
  <2> QED
    BY <2>3, <2>4
<1>6. Clean' => ShownIs(page, ref)'
  <2> SUFFICES ASSUME Clean' PROVE Clean
    BY DEF ActsInv
  <2> SUFFICES ASSUME NEW u \in Slots, Loads(tasks[u])
               PROVE  tasks[u].op \in Storing /\ ~tasks[u].crossed
    BY DEF Clean
  <2>1. /\ tasks'[u].op \in Storing /\ ~tasks'[u].crossed /\ ~tasks[u].crossed
        /\ OfMemory(tasks[u]) /\ OfMemory(tasks'[u]) /\ tasks'[u].flow \in Loaders
    BY <1>2 DEF Clean, Loads, OfMemory, OfSubject
  <2>2. Knows(tasks[u], ref, gateway, mock, backend) /\ Knows(tasks'[u], ref', gateway', mock', backend')
    BY <1>5, <2>1 DEF ActsInv, KnowsOk
  <2>3. tasks'[u].subject = None /\ tasks[u].subject = None
    BY <1>2, <2>1, <2>2 DEF Knows, Storer, Loads
  <2> QED
    BY <2>1, <2>2, <2>3 DEF Knows, Finder, Current, Loads
<1>7. MockIs'
  <2> SUFFICES ASSUME MockIs, ~torn', \A u \in Slots : ~Loads(tasks'[u]), backend' = "mock",
                      ref'.subject # None
               PROVE  mock'.subject = ref'.subject
    BY DEF ActsInv, MockIs
  <2>1. \A u \in Slots : ~Loads(tasks[u])
    BY <1>2 DEF Loads
  <2>2. backend = "mock" /\ mock'.subject = mock.subject
    <3>1. k.op \notin Storing
      BY <1>1, <2>1 DEF Loads, RightOp, Storing, Loaders
    <3>2. /\ Drop(t) \/ ServePlain(t) \/ Memory(t) \/ MockGetMemory(t) \/ MemoryKey(t) \/ Search(t)
             \/ MockSearch(t) \/ Erase(t) \/ MockErase(t) \/ MockEraseEnds(t)
             \/ GetProof(t) \/ MockGetProof(t)
      BY <3>1, ServedBy DEF Storing
    <3>3. CASE Drop(t) \/ ServePlain(t)
      BY <1>1, <3>3, PlainIs DEF Drop
    <3>4. CASE MockErase(t) \/ MockEraseEnds(t)
      <4>1. /\ backend' = backend
            /\ \/ mock' = mock
               \/ mock' = [mock EXCEPT !.erased = TRUE]
               \/ mock' = [mock EXCEPT !.signed = k.erased.subject]
        BY <3>4 DEF MockErase, MockEraseEnds, MockSets, MockRefuses
      <4> QED
        BY <4>1 DEF WholeInv, MockFields
    <3>5. CASE \/ Memory(t) \/ MockGetMemory(t) \/ MemoryKey(t) \/ Search(t) \/ MockSearch(t)
               \/ Erase(t) \/ GetProof(t) \/ MockGetProof(t)
      BY <3>5 DEF Memory, MockGetMemory, MemoryKey, Search, MockSearch, Erase, GetProof,
                  MockGetProof, MockAnswers, MockRefuses
    <3> QED
      BY <3>2, <3>3, <3>4, <3>5
  <2> QED
    BY <2>1, <2>2 DEF MockIs
<1> QED
  BY <1>3, <1>4, <1>5, <1>6, <1>7 DEF ActsInv

LEMMA BackgroundActs ==
    ASSUME ConsoleInv, ActsInv, Background, UNCHANGED <<page, ref, torn>>
    PROVE  ActsInv'
<1>1. AllKept /\ \A u \in Slots : tasks[u] # NoTask => Waits(tasks'[u], tasks[u])
  BY BackgroundKept
<1>2. /\ UNCHANGED <<backend, mock>>
      /\ gateway'.memories = gateway.memories /\ gateway'.erased = gateway.erased
  <2>1. \/ Reconciled
        \/ /\ UNCHANGED <<backend, mock>>
           /\ \/ \E state \in {"done", "error"} : gateway' = [gateway EXCEPT !.job.state = state]
              \/ \E job : gateway' = [gateway EXCEPT !.job = job]
    BY DEF Background, InversionEnds, VisitorStarts, Restart
  <2>2. DOMAIN gateway = {"memories", "erased", "anchored", "job"}
    BY DEF ConsoleInv, GatewayOk
  <2>3. CASE Reconciled
    BY <2>3, ReconciledIs
  <2>4. CASE ~Reconciled
    <3>1. PICK job : gateway' = [gateway EXCEPT !.job = job]
      BY <2>1, <2>2, <2>4
    <3> QED
      BY <2>1, <2>2, <2>4, <3>1
  <2> QED
    BY <2>3, <2>4
<1>3. \A u \in Slots : /\ tasks'[u] # NoTask <=> tasks[u] # NoTask
                       /\ tasks[u] # NoTask => /\ tasks'[u].flow = tasks[u].flow
                                               /\ tasks'[u].op = tasks[u].op
                                               /\ tasks'[u].crossed = tasks[u].crossed
  BY <1>1, IsTask DEF AllKept, Kept, Waits
<1>4. OpsOk' /\ CrossedOk' /\ MockIs' /\ (Clean' <=> Clean)
  BY <1>2, <1>3 DEF ActsInv, OpsOk, RightOp, CrossedOk, OfMemory, MockIs, Loads, Clean
<1>5. KnowsOk'
  <2> SUFFICES ASSUME NEW u \in Slots, OfMemory(tasks[u]), ~tasks[u].crossed
               PROVE  Knows(tasks'[u], ref', gateway', mock', backend')
    BY <1>3 DEF KnowsOk, OfMemory
  <2>1. Knows(tasks[u], ref, gateway, mock, backend)
    BY DEF ActsInv, KnowsOk
  <2>2. Kept(tasks'[u], tasks[u]) /\ Waits(tasks'[u], tasks[u])
    BY <1>1 DEF AllKept, OfMemory
  <2> QED
    BY <1>2, <2>1, <2>2, KnowsSame DEF Kept, Waits
<1> QED
  BY <1>4, <1>5 DEF ActsInv

----------------------------------------------------------------------------
\* A flow begins, goes on or ends.

\* Any two flows that use the refs have been marked.
LEMMA BecomesCrossed ==
    ASSUME ConsoleInv, NEW t \in Slots, NEW k, Becomes(t, k), k # NoTask => DOMAIN k = TaskFields
    PROVE  CrossedOk'
<1> DEFINE ts == [tasks EXCEPT ![t] = k]
           R == Running(ts, OfSubject)
<1>1. /\ tasks' = Mark(ts)
      /\ \A u \in Slots : ts[u] = (IF u = t THEN k ELSE tasks[u])
      /\ \A u \in Slots : ts[u] # NoTask => DOMAIN ts[u] = TaskFields
  BY DEF Becomes, ConsoleInv, TasksOk, TaskOk
<1>2. \A u \in Slots : IF ts[u] = NoTask THEN tasks'[u] = NoTask ELSE Follows(tasks'[u], ts[u])
  BY <1>1, BecomesFollows
<1> HIDE DEF ts
<1> SUFFICES ASSUME NEW u \in Slots, NEW w \in Slots, u # w,
                    OfMemory(tasks'[u]), OfMemory(tasks'[w])
             PROVE  tasks'[u].crossed
  BY DEF CrossedOk
<1>3. u \in R /\ w \in R /\ ts[u] # NoTask
  BY <1>2 DEF OfMemory, Running, Follows
<1>4. IsFiniteSet(R)
  <2>1. R \in SUBSET Slots
    BY DEF Running
  <2> QED
    BY <2>1, FS_Subset, BackendsAssumption
<1>5. ~(Cardinality(R) <= 1)
  <2>1. Cardinality(R) \in Nat
    BY <1>4, FS_CardinalityType
  <2>2. Cardinality(R) # 0
    BY <1>3, <1>4, FS_EmptySet
  <2>3. Cardinality(R) # 1
    <3>1. ~ \E x : R = {x}
      BY <1>3
    <3> QED
      BY <1>4, <3>1, FS_Singleton
  <2> QED
    BY <2>1, <2>2, <2>3
<1>6. tasks' = [x \in Slots |-> IF x \in R THEN [ts[x] EXCEPT !.crossed = TRUE] ELSE ts[x]]
  BY <1>1, <1>5 DEF Mark
<1>7. tasks'[u] = [ts[u] EXCEPT !.crossed = TRUE]
  BY <1>3, <1>6
<1>8. DOMAIN ts[u] = TaskFields
  BY <1>1, <1>3
<1> QED
  BY <1>7, <1>8 DEF TaskFields

\* What is asked of the task a flow becomes.
Fits(k, rf) == k # NoTask => /\ DOMAIN k = TaskFields /\ RightOp(k)
                             /\ OfMemory(k) => k.crossed \/ Knows(k, rf, gateway, mock, backend)

LEMMA BecomesKnows ==
    ASSUME ConsoleInv, ActsInv, NEW t \in Slots, NEW k, Becomes(t, k), UNCHANGED backends,
           Fits(k, ref'), ref' = ref \/ OfMemory(tasks[t])
    PROVE  OpsOk' /\ KnowsOk' /\ CrossedOk'
<1>1. k # NoTask => DOMAIN k = TaskFields
  BY DEF Fits
<1>2. CrossedOk'
  BY <1>1, BecomesCrossed
<1>3. UNCHANGED <<backend, gateway, mock>>
  BY DEF backends
<1>4. ASSUME NEW u \in Slots, tasks'[u] # NoTask
      PROVE  RightOp(tasks'[u]) /\
             (OfMemory(tasks'[u]) => tasks'[u].crossed \/ Knows(tasks'[u], ref', gateway, mock, backend))
  <2> DEFINE old == IF u = t THEN k ELSE tasks[u]
  <2>1. IF old = NoTask THEN tasks'[u] = NoTask ELSE Follows(tasks'[u], old)
    BY <1>1, BecomesFollows
  <2>2. old # NoTask /\ Follows(tasks'[u], old)
    BY <1>4, <2>1
  <2>3. RightOp(old)
    BY <2>2 DEF Fits, ActsInv, OpsOk
  <2>4. RightOp(tasks'[u])
    <3> HIDE DEF old
    <3> QED
      BY <2>2, <2>3 DEF Follows, Waits, RightOp
  <2>5. ASSUME OfMemory(tasks'[u]), ~tasks'[u].crossed
        PROVE  Knows(tasks'[u], ref', gateway, mock, backend)
    <3>1. OfMemory(old) /\ ~old.crossed
      <4> HIDE DEF old
      <4> QED
        BY <2>2, <2>5 DEF Follows, OfMemory
    <3>2. Knows(old, ref', gateway, mock, backend)
      <4>1. CASE u = t
        BY <2>2, <3>1, <4>1 DEF Fits
      <4>2. CASE u # t
        <5>1. ~OfMemory(tasks[t])
          BY <3>1, <4>2 DEF ActsInv, CrossedOk
        <5> QED
          BY <3>1, <4>2, <5>1 DEF ActsInv, KnowsOk
      <4> QED
        BY <4>1, <4>2
    <3> HIDE DEF old
    <3> QED
      BY <2>2, <3>2, KnowsSame DEF Follows, Waits
  <2> QED
    BY <2>4, <2>5
<1> QED
  BY <1>2, <1>3, <1>4 DEF OpsOk, KnowsOk, OfMemory

\* What the panels that name the refs' memory show.
SameShown(pg, pg2) == /\ pg2.subject = pg.subject /\ pg2.vector = pg.vector
                      /\ pg2.memory = pg.memory /\ pg2.written = pg.written
                      /\ pg2.before = pg.before /\ pg2.searchAfter = pg.searchAfter
                      /\ pg2.erase = pg.erase

LEMMA CleanBefore ==
    ASSUME ConsoleInv, NEW t \in Slots, NEW k, Becomes(t, k), k # NoTask => DOMAIN k = TaskFields,
           torn => torn', Clean',
           Loads(tasks[t]) => tasks[t].op \in Storing /\ ~tasks[t].crossed
    PROVE  Clean
<1> SUFFICES ASSUME NEW u \in Slots, Loads(tasks[u]), u # t
             PROVE  tasks[u].op \in Storing /\ ~tasks[u].crossed
  BY DEF Clean
<1>1. Follows(tasks'[u], tasks[u])
  BY BecomesFollows DEF Loads
<1>2. Loads(tasks'[u])
  BY <1>1, IsTask DEF Follows, Loads
<1> QED
  BY <1>1, <1>2 DEF Follows, Waits, Clean

\* A move that shows and changes nothing of the refs' memory.
LEMMA QuietActs ==
    ASSUME ConsoleInv, ActsInv, NEW t \in Slots, NEW k, Becomes(t, k), UNCHANGED backends,
           Fits(k, ref'), ref' = ref, SameShown(page, page'), torn => torn',
           \/ ~Loads(tasks[t])
           \/ tasks[t].op \in Storing /\ ~tasks[t].crossed /\ backend = "http"
    PROVE  ActsInv'
<1>1. k # NoTask => DOMAIN k = TaskFields
  BY DEF Fits
<1>2. OpsOk' /\ KnowsOk' /\ CrossedOk'
  BY BecomesKnows
<1>3. Clean' => ShownIs(page, ref)'
  <2>1. ASSUME Clean' PROVE ShownIs(page, ref)
    BY <1>1, <2>1, CleanBefore DEF ActsInv
  <2> QED
    BY <2>1 DEF SameShown, ShownIs, Result
<1>4. MockIs'
  <2> SUFFICES ASSUME ~torn', \A u \in Slots : ~Loads(tasks'[u]), backend = "mock",
                      ref.subject # None
               PROVE  mock.subject = ref.subject
    BY DEF MockIs, backends
  <2>1. \A u \in Slots \ {t} : ~Loads(tasks[u])
    <3> SUFFICES ASSUME NEW u \in Slots \ {t}, Loads(tasks[u]) PROVE FALSE
      OBVIOUS
    <3>1. Follows(tasks'[u], tasks[u])
      BY <1>1, BecomesFollows DEF Loads
    <3> QED
      BY <3>1, IsTask DEF Follows, Loads
  <2>2. ~Loads(tasks[t])
    OBVIOUS
  <2> QED
    BY <2>1, <2>2 DEF ActsInv, MockIs
<1> QED
  BY <1>2, <1>3, <1>4 DEF ActsInv

\* A loader that has stored its memory goes on, or is torn.
LEMMA LoaderActs ==
    ASSUME ConsoleInv, ActsInv, NEW t \in Slots, NEW k, Becomes(t, k), UNCHANGED backends,
           Fits(k, ref'), ref' = ref \/ OfMemory(tasks[t]),
           torn' \/ (Loads(k) /\ k.op \notin Storing)
    PROVE  ActsInv'
<1>1. OpsOk' /\ KnowsOk' /\ CrossedOk'
  BY BecomesKnows
<1>2. torn' \/ (Loads(tasks'[t]) /\ tasks'[t].op \notin Storing)
  <2> SUFFICES ASSUME Loads(k), k.op \notin Storing
               PROVE  Loads(tasks'[t]) /\ tasks'[t].op \notin Storing
    OBVIOUS
  <2>1. Follows(tasks'[t], k)
    BY BecomesFollows DEF Fits, Loads
  <2> QED
    BY <2>1, IsTask DEF Follows, Waits, Loads
<1> QED
  BY <1>1, <1>2 DEF ActsInv, Clean, MockIs

\* What is shown at the end is right.
LEMMA ShownActs ==
    ASSUME ConsoleInv, ActsInv, NEW t \in Slots, NEW k, Becomes(t, k), UNCHANGED backends,
           Fits(k, ref'), ref' = ref, Clean' => ShownIs(page', ref),
           backend = "mock" /\ ~torn' => mock.subject = ref.subject
    PROVE  ActsInv'
<1>1. OpsOk' /\ KnowsOk' /\ CrossedOk'
  BY BecomesKnows
<1>2. MockIs'
  BY DEF MockIs, backends
<1> QED
  BY <1>1, <1>2 DEF ActsInv

\* A flow that begins knows what it takes from the refs.
LEMMA TaskFits ==
    ASSUME NEW flow \in Flows, NEW auto
    PROVE  Fits(Task(flow, auto), ref) /\ Task(flow, auto).flow = flow
<1> DEFINE k == Task(flow, auto)
<1>1. /\ k.flow = flow /\ k.op = FirstCall[flow] /\ k.answer = None
      /\ flow \in {"envelope", "erase"} => k.subject = ref.subject
      /\ flow \in Loaders => k.subject = None
  BY DEF Task, Loaders
<1>2. /\ flow = "memory" => FirstCall[flow] = "ingest"
      /\ flow = "writer" => FirstCall[flow] = "write"
      /\ flow = "envelope" => FirstCall[flow] = "getMemory"
      /\ flow = "erase" => FirstCall[flow] = "erase"
      /\ flow \notin OfSubject => FirstCall[flow] \notin MemoryOps
  BY DEF FirstCall, Flows, Stages, OfSubject, Loaders, MemoryOps, Storing, EraseOps
<1>3. None # Failed
  BY BackendsAssumption DEF Failed
<1>4. DOMAIN k = TaskFields
  BY TaskIs
<1> HIDE DEF k
<1>5. RightOp(k)
  BY <1>1, <1>2 DEF RightOp, OfSubject, Loaders, Storing, EraseOps, MemoryOps
<1>6. OfMemory(k) => Knows(k, ref, gateway, mock, backend)
  BY <1>1, <1>2, <1>3 DEF OfMemory, OfSubject, Knows, Loaders, Storing, Storer, Viewer, Eraser,
                          HasAnswer
<1> QED
  BY <1>1, <1>4, <1>5, <1>6 DEF Fits, k

\* How a flow ends: with nothing, or the autopilot's next stage.
Begun(k) == k = NoTask \/ \E flow \in Flows \ Loaders : k = Task(flow, TRUE)

LEMMA BegunFits ==
    ASSUME NEW k, Begun(k)
    PROVE  Fits(k, ref) /\ ~Loads(k)
<1>1. CASE k = NoTask
  BY <1>1 DEF Fits, Loads
<1>2. ASSUME NEW flow \in Flows \ Loaders, k = Task(flow, TRUE)
      PROVE  Fits(k, ref) /\ ~Loads(k)
  BY <1>2, TaskFits DEF Loads
<1> QED
  BY <1>1, <1>2 DEF Begun

LEMMA EndsAs ==
    ASSUME NEW t \in Slots, NEW pg, DOMAIN pg = PageFields,
           StageDone(t, pg) \/ Over(t, pg)
    PROVE  SameShown(pg, page') /\ \E k : Becomes(t, k) /\ Begun(k)
<1> DEFINE flow == tasks[t].flow
           done == [pg EXCEPT !.running = @ \ {flow}]
           next == [done EXCEPT !.running = @ \union {After[flow]}]
<1>1. DOMAIN done = PageFields /\ SameShown(pg, done)
  BY DEF PageFields, SameShown
<1>2. SameShown(pg, next)
  BY DEF PageFields, SameShown
<1>3. \/ page' = done /\ Becomes(t, NoTask)
      \/ /\ flow \in DOMAIN After /\ page' = next
         /\ Becomes(t, Task(After[flow], TRUE))
  BY DEF StageDone, Over
<1>4. flow \in DOMAIN After => After[flow] \in Flows \ Loaders
  BY DEF After, Flows, Stages, Loaders
<1> HIDE DEF done, next
<1> QED
  BY <1>1, <1>2, <1>3, <1>4 DEF Begun

LEMMA AsksIs ==
    ASSUME NEW t \in Slots, NEW d, NEW op, DOMAIN d = TaskFields, Asks(t, d, op)
    PROVE  \E k : /\ Becomes(t, k) /\ DOMAIN k = TaskFields /\ k.op = op /\ k.answer = None
                  /\ k.flow = d.flow /\ k.subject = d.subject /\ k.vector = d.vector
                  /\ k.view = d.view /\ k.erased = d.erased /\ k.crossed = d.crossed
<1> DEFINE k == [d EXCEPT !.op = op, !.answer = None]
<1>1. Becomes(t, k)
  BY DEF Asks
<1>2. /\ DOMAIN k = TaskFields /\ k.op = op /\ k.answer = None
      /\ k.flow = d.flow /\ k.subject = d.subject /\ k.vector = d.vector
      /\ k.view = d.view /\ k.erased = d.erased /\ k.crossed = d.crossed
  BY DEF TaskFields
<1> HIDE DEF k
<1> QED
  BY <1>1, <1>2

\* A flow that does not use the refs goes on.
LEMMA PlainActs ==
    ASSUME ConsoleInv, ActsInv, NEW t \in Slots, GoesOn(t), ~OfMemory(tasks[t])
    PROVE  ActsInv'
<1> DEFINE k == tasks[t]
           v == Value(t)
<1>1. k # NoTask /\ UNCHANGED backends
  BY DEF GoesOn, MemoryStored, Viewed, MemoryLoaded, WriterLoaded, Leaked, EnvelopeSeen,
         Endured, Audited, Erased, AfterSeen, ProofSeen, EraseShown, JobStarted, Polled,
         WarmPolled, VerdictComes, TitanComes, PastComes, Fails, Comes, SearchComes
<1>2. DOMAIN k = TaskFields /\ DOMAIN page = PageFields /\ RightOp(k)
  BY <1>1 DEF ConsoleInv, TasksOk, TaskOk, PageOk, ActsInv, OpsOk
<1>3. k.flow \notin OfSubject /\ ~Loads(k) /\ k.op \notin MemoryOps
  BY <1>1, <1>2 DEF OfMemory, OfSubject, Loads, RightOp
<1>4. ASSUME NEW pg, StageDone(t, pg) \/ Over(t, pg), DOMAIN pg = PageFields,
             SameShown(page, pg), ref' = ref, torn => torn'
      PROVE  ActsInv'
  <2>1. PICK m : Becomes(t, m) /\ Begun(m)
    BY <1>4, EndsAs
  <2>2. Fits(m, ref') /\ SameShown(page, page')
    BY <1>4, <2>1, EndsAs, BegunFits DEF SameShown
  <2> QED
    BY <1>1, <1>3, <1>4, <2>1, <2>2, QuietActs
<1>5. ASSUME NEW d, NEW op \in PlainOps, Asks(t, d, op), DOMAIN d = TaskFields,
             d.flow = k.flow, UNCHANGED <<page, ref, torn>>
      PROVE  ActsInv'
  <2>1. PICK m : Becomes(t, m) /\ DOMAIN m = TaskFields /\ m.op = op /\ m.flow = d.flow
    BY <1>5, AsksIs
  <2>2. ~OfMemory(m) /\ RightOp(m)
    BY <1>3, <1>5, <2>1 DEF OfMemory, RightOp, OfSubject, PlainOps, MemoryOps, Storing, EraseOps,
                            Loaders
  <2>3. Fits(m, ref') /\ SameShown(page, page')
    BY <1>5, <2>1, <2>2 DEF Fits, SameShown
  <2> QED
    BY <1>1, <1>3, <1>5, <2>1, <2>3, QuietActs
<1>6. SameShown(page, page)
  BY DEF SameShown
<1>7. ASSUME NEW op \in PlainOps, PollsOn(t, op), UNCHANGED <<ref, torn>>
      PROVE  ActsInv'
  <2> DEFINE d == [k EXCEPT !.polls = @ + 1]
  <2>1. (Asks(t, d, op) /\ UNCHANGED page) \/ Over(t, page)
    BY <1>7 DEF PollsOn
  <2>2. DOMAIN d = TaskFields /\ d.flow = k.flow
    BY <1>2 DEF TaskFields
  <2> HIDE DEF d
  <2> QED
    BY <1>2, <1>4, <1>5, <1>6, <1>7, <2>1, <2>2
<1>8. CASE Leaked(t)
  <2> DEFINE pg == [page EXCEPT !.inversion = TRUE]
  <2>1. StageDone(t, pg) /\ UNCHANGED <<ref, torn>>
    BY <1>8 DEF Leaked
  <2>2. DOMAIN pg = PageFields /\ SameShown(page, pg)
    BY <1>2 DEF PageFields, SameShown
  <2> HIDE DEF pg
  <2> QED
    BY <1>4, <2>1, <2>2
<1>9. CASE Endured(t) \/ Audited(t) \/ TitanComes(t) \/ PastComes(t)
  BY <1>2, <1>4, <1>6, <1>9 DEF Endured, Audited, TitanComes, PastComes
<1>10. CASE Fails(t)
  <2>1. Over(t, page) /\ ref' = ref /\ torn' = (torn \/ k.crossed \/ Halfway(t))
    BY <1>10 DEF Fails
  <2>2. torn => torn'
    BY <2>1
  <2> QED
    BY <1>2, <1>4, <1>6, <2>1, <2>2
<1>11. CASE JobStarted(t)
  BY <1>2, <1>5, <1>11 DEF JobStarted, PlainOps
<1>12. CASE Polled(t)
  <2> DEFINE pg == [page EXCEPT !.live = [inverts |-> v.input, asked |-> k.vector]]
  <2>1. /\ UNCHANGED <<ref, torn>>
        /\ Over(t, pg) \/ Over(t, page) \/ PollsOn(t, "status")
    BY <1>12 DEF Polled
  <2>2. DOMAIN pg = PageFields /\ SameShown(page, pg)
    BY <1>2 DEF PageFields, SameShown
  <2> HIDE DEF pg
  <2> QED
    BY <1>2, <1>4, <1>6, <1>7, <2>1, <2>2 DEF PlainOps
<1>13. CASE WarmPolled(t)
  <2> DEFINE d == [k EXCEPT !.polls = 0]
  <2>1. /\ UNCHANGED <<ref, torn>>
        /\ (Asks(t, d, "forensics") /\ UNCHANGED page) \/ PollsOn(t, "warm")
    BY <1>13 DEF WarmPolled
  <2>2. DOMAIN d = TaskFields /\ d.flow = k.flow
    BY <1>2 DEF TaskFields
  <2> HIDE DEF d
  <2> QED
    BY <1>5, <1>7, <2>1, <2>2 DEF PlainOps
<1>14. CASE VerdictComes(t)
  <2> DEFINE pg == [page EXCEPT !.audit = v]
  <2>1. Over(t, pg) /\ UNCHANGED <<ref, torn>>
    BY <1>14 DEF VerdictComes
  <2>2. DOMAIN pg = PageFields /\ SameShown(page, pg)
    BY <1>2 DEF PageFields, SameShown
  <2> HIDE DEF pg
  <2> QED
    BY <1>4, <2>1, <2>2
<1>15. ~ (\/ MemoryStored(t) \/ Viewed(t) \/ MemoryLoaded(t) \/ WriterLoaded(t)
          \/ EnvelopeSeen(t) \/ Erased(t) \/ AfterSeen(t) \/ ProofSeen(t) \/ EraseShown(t))
  BY <1>3 DEF MemoryStored, Viewed, MemoryLoaded, WriterLoaded, EnvelopeSeen, Erased, AfterSeen,
              ProofSeen, EraseShown, Comes, OfSubject, Loaders, MemoryOps, Storing, EraseOps
<1> QED
  BY <1>8, <1>9, <1>10, <1>11, <1>12, <1>13, <1>14, <1>15 DEF GoesOn

\* A loader goes on.
LEMMA LoaderGoesOnActs ==
    ASSUME ConsoleInv, TypeInv, ActsInv, NEW t \in Slots, GoesOn(t), Loads(tasks[t])
    PROVE  ActsInv'
<1> DEFINE k == tasks[t]
           v == Value(t)
<1>1. /\ k # NoTask /\ k.flow \in Loaders /\ OfMemory(k)
      /\ k.op \in Storing \union {"getMemory", "getKey", "search"}
      /\ DOMAIN k = TaskFields /\ DOMAIN page = PageFields
  BY DEF Loads, OfMemory, OfSubject, ActsInv, OpsOk, RightOp, ConsoleInv, TasksOk, TaskOk, PageOk
<1>2. ~k.crossed => IF k.op \in Storing THEN Storer(k, gateway, mock, backend)
                    ELSE Finder(k, ref, gateway, mock, backend)
  BY <1>1 DEF ActsInv, KnowsOk, Knows
<1>3. ASSUME NEW m, DOMAIN m = TaskFields, m.flow = k.flow, m.crossed = k.crossed,
             Becomes(t, m), UNCHANGED backends, m.op \in {"getMemory", "search"},
             ~k.crossed => Finder(m, ref', gateway, mock, backend)
      PROVE  ActsInv'
  <2>1. m # NoTask /\ Loads(m) /\ m.op \notin Storing
    BY <1>1, <1>3, IsTask DEF Loads, Storing
  <2>2. RightOp(m)
    BY <1>1, <1>3 DEF RightOp, Loaders, OfSubject, Storing
  <2>3. Knows(m, ref', gateway, mock, backend) \/ k.crossed
    BY <1>1, <1>3, <2>1 DEF Knows, Loaders
  <2>4. Fits(m, ref')
    BY <1>3, <2>2, <2>3 DEF Fits
  <2> QED
    BY <1>1, <1>3, <2>1, <2>4, LoaderActs
<1>4. CASE MemoryStored(t)
  <2> DEFINE d == [k EXCEPT !.subject = v.subject, !.vector = v.vector]
  <2>1. /\ Asks(t, d, "getMemory") /\ ref' = v /\ UNCHANGED backends
        /\ k.op \in Storing /\ HasAnswer(k)
    BY <1>4 DEF MemoryStored, Comes, Storing, HasAnswer
  <2>2. /\ DOMAIN d = TaskFields /\ d.flow = k.flow /\ d.crossed = k.crossed
        /\ d.subject = v.subject /\ d.vector = v.vector
    BY <1>1 DEF TaskFields
  <2> HIDE DEF d
  <2>3. PICK m : /\ Becomes(t, m) /\ DOMAIN m = TaskFields /\ m.op = "getMemory"
                 /\ m.answer = None /\ m.flow = k.flow /\ m.crossed = k.crossed
                 /\ m.subject = v.subject /\ m.vector = v.vector
    BY <2>1, <2>2, AsksIs
  <2>4. ~k.crossed => Finder(m, ref', gateway, mock, backend)
    BY <1>2, <2>1, <2>3 DEF Storer, Finder, Value, HasAnswer
  <2> QED
    BY <1>3, <2>1, <2>3, <2>4
<1>5. CASE Viewed(t)
  <2> DEFINE d == [k EXCEPT !.view = v]
  <2>1. /\ Asks(t, d, "search") /\ UNCHANGED <<backends, ref>>
        /\ k.op \in {"getMemory", "getKey"} /\ HasAnswer(k)
    BY <1>5 DEF Viewed, Comes, HasAnswer
  <2>2. /\ DOMAIN d = TaskFields /\ d.flow = k.flow /\ d.crossed = k.crossed
        /\ d.subject = k.subject /\ d.vector = k.vector /\ d.view = v
    BY <1>1 DEF TaskFields
  <2> HIDE DEF d
  <2>3. PICK m : /\ Becomes(t, m) /\ DOMAIN m = TaskFields /\ m.op = "search"
                 /\ m.answer = None /\ m.flow = k.flow /\ m.crossed = k.crossed
                 /\ m.subject = k.subject /\ m.vector = k.vector /\ m.view = v
    BY <2>1, <2>2, AsksIs
  <2>4. ~k.crossed => Finder(m, ref', gateway, mock, backend)
    BY <1>2, <2>1, <2>3 DEF Finder, Value, HasAnswer, Storing
  <2> QED
    BY <1>3, <2>1, <2>3, <2>4
<1>6. ASSUME NEW m, Becomes(t, m), Begun(m), UNCHANGED <<backends, ref>>, k.op = "search",
             torn' = k.crossed,
             /\ page'.subject = k.subject /\ page'.vector = k.vector
             /\ page'.memory = k.view /\ page'.before = SearchResult(t)
             /\ page'.erase = None /\ page'.searchAfter = None,
             page'.written = IF k.flow = "memory" THEN None ELSE k.vector,
             k.answer # None
      PROVE  ActsInv'
  <2>1. Fits(m, ref')
    BY <1>6, BegunFits
  <2>2. CASE k.crossed
    BY <1>6, <2>1, <2>2, LoaderActs
  <2>3. CASE ~k.crossed
    <3>1. Finder(k, ref, gateway, mock, backend)
      BY <1>2, <1>6, <2>3 DEF Storing
    <3>2. /\ ref.subject = k.subject /\ ref.vector = k.vector
          /\ ref = [subject |-> k.subject, vector |-> k.vector]
      BY <3>1 DEF Finder
    <3>3. Result(page'.before, page') /\ (page'.before # None => page'.before.found)
      BY <1>6, <3>1 DEF Finder, Result, SearchResult, HasAnswer, Value
    <3>4. page'.written = None <=> page'.vector = DemoVector
      <4>1. VectorOf(k.flow, k.vector) /\ (k.flow = "memory" \/ k.flow # "memory")
        BY <3>1 DEF Finder
      <4>2. None \notin Nat
        BY BackendsAssumption
      <4> QED
        BY <1>6, <4>1, <4>2 DEF VectorOf
    <3>5. ShownIs(page', ref)
      <4>1. page'.memory # None => page'.memory.subject = page'.subject
        BY <1>6, <3>1 DEF Finder
      <4>2. Result(page'.searchAfter, page')
        BY <1>6 DEF Result
      <4> QED
        BY <1>6, <3>2, <3>3, <3>4, <4>1, <4>2 DEF ShownIs
    <3>6. backend = "mock" => mock.subject = ref.subject
      BY <3>1, <3>2 DEF Finder, Current
    <3> QED
      BY <1>6, <2>1, <3>5, <3>6, ShownActs
  <2> QED
    BY <2>2, <2>3
<1>7. /\ Loaded(t).subject = k.subject /\ Loaded(t).vector = k.vector
      /\ Loaded(t).memory = k.view /\ Loaded(t).before = SearchResult(t)
      /\ Loaded(t).erase = None /\ Loaded(t).searchAfter = None
      /\ DOMAIN Loaded(t) = PageFields
  BY <1>1 DEF Loaded, PageFields
<1>8. CASE MemoryLoaded(t)
  <2> DEFINE pg == [Loaded(t) EXCEPT !.written = None, !.running = @ \ {"writer"}]
  <2>1. /\ StageDone(t, pg) /\ UNCHANGED <<backends, ref>> /\ k.flow = "memory"
        /\ k.op = "search" /\ k.answer # None
    BY <1>8 DEF MemoryLoaded, SearchComes
  <2>2. torn' = k.crossed
    BY <1>1, <1>8 DEF MemoryLoaded, Ends
  <2>3. /\ DOMAIN pg = PageFields /\ pg.written = None
        /\ pg.subject = k.subject /\ pg.vector = k.vector
        /\ pg.memory = k.view /\ pg.before = SearchResult(t)
        /\ pg.erase = None /\ pg.searchAfter = None
    BY <1>7 DEF PageFields
  <2> HIDE DEF pg
  <2>4. PICK m : Becomes(t, m) /\ Begun(m)
    BY <2>1, <2>3, EndsAs
  <2>5. SameShown(pg, page')
    BY <2>1, <2>3, EndsAs
  <2> QED
    BY <1>6, <2>1, <2>2, <2>3, <2>4, <2>5 DEF SameShown
<1>9. CASE WriterLoaded(t)
  <2>1. /\ page' = [Loaded(t) EXCEPT !.written = k.vector, !.inversion = FALSE, !.live = None,
                                     !.running = @ \ {"writer", "live", "memory"}]
        /\ Becomes(t, NoTask) /\ UNCHANGED <<backends, ref>> /\ k.flow = "writer"
        /\ k.op = "search" /\ k.answer # None
    BY <1>9 DEF WriterLoaded, SearchComes
  <2>2. torn' = k.crossed
    BY <1>1, <1>9 DEF WriterLoaded, Ends
  <2>3. /\ page'.written = k.vector /\ page'.subject = k.subject /\ page'.vector = k.vector
        /\ page'.memory = k.view /\ page'.before = SearchResult(t)
        /\ page'.erase = None /\ page'.searchAfter = None
    BY <1>7, <2>1 DEF PageFields
  <2>4. Begun(NoTask)
    BY DEF Begun
  <2> QED
    BY <1>6, <2>1, <2>2, <2>3, <2>4
<1>10. CASE Fails(t)
  <2>1. /\ Over(t, page) /\ UNCHANGED <<backends, ref>> /\ k.answer = Failed
        /\ torn' = (torn \/ k.crossed \/ Halfway(t))
    BY <1>10 DEF Fails
  <2>2. torn \/ k.crossed \/ Halfway(t) => torn'
    BY <2>1
  <2>3. PICK m : Becomes(t, m) /\ Begun(m)
    BY <1>1, <2>1, EndsAs
  <2>4. Fits(m, ref') /\ SameShown(page, page')
    BY <1>1, <2>1, <2>3, EndsAs, BegunFits
  <2>5. CASE torn'
    BY <1>1, <2>1, <2>3, <2>4, <2>5, LoaderActs
  <2>6. CASE ~torn'
    <3>1. ~k.crossed /\ k.subject = None
      BY <1>1, <2>2, <2>6 DEF Halfway
    <3>2. k.op \in Storing
      BY <1>2, <3>1 DEF Finder, Current
    <3>3. backend = "http"
      BY <1>2, <2>1, <3>1, <3>2 DEF Storer, TypeInv, BoundsType
    <3> QED
      BY <1>1, <2>1, <2>2, <2>3, <2>4, <3>1, <3>2, <3>3, QuietActs
  <2> QED
    BY <2>5, <2>6
<1>11. ~ (\/ Leaked(t) \/ EnvelopeSeen(t) \/ Endured(t) \/ Audited(t)
          \/ Erased(t) \/ AfterSeen(t) \/ ProofSeen(t) \/ EraseShown(t)
          \/ JobStarted(t) \/ Polled(t) \/ WarmPolled(t) \/ VerdictComes(t)
          \/ TitanComes(t) \/ PastComes(t))
  BY <1>1 DEF Leaked, EnvelopeSeen, Endured, Audited, Erased, AfterSeen, ProofSeen, EraseShown,
              JobStarted, Polled, WarmPolled, VerdictComes, TitanComes, PastComes, Comes,
              SearchComes, Loaders, Storing
<1> QED
  BY <1>4, <1>5, <1>8, <1>9, <1>10, <1>11 DEF GoesOn

\* The envelope stage or the erasure goes on.
LEMMA StageGoesOnActs ==
    ASSUME ConsoleInv, TypeInv, WholeInv, ActsInv, NEW t \in Slots, GoesOn(t),
           OfMemory(tasks[t]), ~Loads(tasks[t])
    PROVE  ActsInv'
<1> DEFINE k == tasks[t]
           v == Value(t)
<1>1. /\ k # NoTask /\ k.flow \in {"envelope", "erase"} /\ RightOp(k)
      /\ DOMAIN k = TaskFields /\ DOMAIN page = PageFields /\ k.subject # None
  BY DEF Loads, OfMemory, OfSubject, ActsInv, OpsOk, ConsoleInv, TasksOk, TaskOk, PageOk,
         TypeInv, TasksType, TaskType
<1>2. ~k.crossed => /\ k.flow = "envelope" => Viewer(k, ref, mock, backend)
                    /\ k.flow = "erase" => Eraser(k, ref, mock, backend)
                    /\ k.subject = ref.subject
  BY <1>1 DEF ActsInv, KnowsOk, Knows, Viewer, Eraser
<1>3. FlowOk(k, gateway, mock, backend) /\ backend \in {"http", "mock"}
  BY <1>1 DEF WholeInv, FlowsOk
<1>4. ~k.crossed /\ ~torn => /\ backend = "mock" => mock.subject = ref.subject
                             /\ ref.subject # None
  <2> SUFFICES ASSUME ~k.crossed, ~torn
               PROVE  (backend = "mock" => mock.subject = ref.subject) /\ ref.subject # None
    OBVIOUS
  <2>1. \A u \in Slots : ~Loads(tasks[u])
    BY DEF ActsInv, CrossedOk, Loads, OfMemory, OfSubject
  <2> QED
    BY <1>1, <1>2, <2>1 DEF ActsInv, MockIs
<1>5. SameShown(page, page)
  BY DEF SameShown
\* It ends, and the page has changed in what pg says.
<1>6. ASSUME NEW pg, StageDone(t, pg), DOMAIN pg = PageFields, UNCHANGED <<backends, ref>>,
             torn' = (torn \/ k.crossed),
             ~torn /\ ~k.crossed /\ ShownIs(page, ref) => ShownIs(pg, ref)
      PROVE  ActsInv'
  <2>1. PICK m : Becomes(t, m) /\ Begun(m)
    BY <1>6, EndsAs
  <2>2. Fits(m, ref') /\ SameShown(pg, page')
    BY <1>6, <2>1, EndsAs, BegunFits
  <2>3. torn \/ k.crossed <=> torn'
    BY <1>6
  <2>4. CASE torn'
    BY <1>6, <2>1, <2>2, <2>4, LoaderActs
  <2>5. CASE ~torn'
    <3>1. m # NoTask => DOMAIN m = TaskFields
      BY <2>2 DEF Fits
    <3>2. ASSUME Clean' PROVE ShownIs(page', ref)
      <4>1. Clean
        BY <2>1, <2>3, <3>1, <3>2, CleanBefore
      <4>2. ShownIs(pg, ref)
        BY <1>6, <2>3, <2>5, <4>1 DEF ActsInv
      <4> QED
        BY <2>2, <4>2 DEF SameShown, ShownIs, Result
    <3> QED
      BY <1>4, <1>6, <2>1, <2>2, <2>3, <2>5, <3>2, ShownActs
  <2> QED
    BY <2>4, <2>5
\* It calls again.
<1>7. ASSUME NEW m, DOMAIN m = TaskFields, m.flow = "erase", m.crossed = k.crossed,
             m.op \in {"getMemory", "getProof", "search"},
             Becomes(t, m), UNCHANGED <<backends, page, ref, torn>>,
             ~k.crossed => Eraser(m, ref, mock, backend)
      PROVE  ActsInv'
  <2>1. RightOp(m)
    BY <1>7 DEF RightOp, Loaders, OfSubject, Storing, EraseOps
  <2>2. k.crossed \/ Knows(m, ref, gateway, mock, backend)
    BY <1>7 DEF Knows, Loaders
  <2>3. Fits(m, ref')
    BY <1>7, <2>1, <2>2 DEF Fits
  <2>4. SameShown(page, page')
    BY <1>7 DEF SameShown
  <2> QED
    BY <1>7, <2>3, <2>4, QuietActs
<1>8. CASE EnvelopeSeen(t)
  <2> DEFINE pg == [page EXCEPT !.memory = v]
  <2>1. /\ StageDone(t, pg) /\ UNCHANGED <<backends, ref>> /\ HasAnswer(k)
        /\ k.flow = "envelope"
    BY <1>8 DEF EnvelopeSeen, Comes, HasAnswer
  <2>2. torn' = (torn \/ k.crossed)
    BY <1>8, <2>1 DEF EnvelopeSeen, Ends, Loaders
  <2>3. /\ DOMAIN pg = PageFields /\ pg.memory = v
        /\ pg.subject = page.subject /\ pg.vector = page.vector /\ pg.written = page.written
        /\ pg.before = page.before /\ pg.searchAfter = page.searchAfter
        /\ pg.erase = page.erase
    BY <1>1 DEF PageFields
  <2> HIDE DEF pg
  <2>4. ASSUME ~torn, ~k.crossed, ShownIs(page, ref)
        PROVE  ShownIs(pg, ref)
    <3>1. v.subject = page.subject
      BY <1>2, <1>3, <1>4, <2>1, <2>4 DEF Viewer, Value, ShownIs
    <3> QED
      BY <2>3, <2>4, <3>1 DEF ShownIs, Result
  <2> QED
    BY <1>6, <2>1, <2>2, <2>3, <2>4
<1>9. CASE EraseShown(t)
  <2> DEFINE pg == [page EXCEPT !.erase = k.erased, !.after = k.view,
                                !.proof = k.proof, !.searchAfter = SearchResult(t)]
  <2>1. /\ StageDone(t, pg) /\ UNCHANGED <<backends, ref>> /\ k.op = "search"
        /\ k.flow = "erase" /\ k.answer # None
    BY <1>9 DEF EraseShown, SearchComes
  <2>2. torn' = (torn \/ k.crossed)
    BY <1>9, <2>1 DEF EraseShown, Ends, Loaders
  <2>3. /\ DOMAIN pg = PageFields /\ pg.erase = k.erased /\ pg.searchAfter = SearchResult(t)
        /\ pg.subject = page.subject /\ pg.vector = page.vector /\ pg.written = page.written
        /\ pg.before = page.before /\ pg.memory = page.memory
    BY <1>1 DEF PageFields
  <2> HIDE DEF pg
  <2>4. ASSUME ~torn, ~k.crossed, ShownIs(page, ref)
        PROVE  ShownIs(pg, ref)
    <3>1. Eraser(k, ref, mock, backend)
      BY <1>2, <2>1, <2>4
    <3>2. k.subject = page.subject /\ k.vector = page.vector
      BY <2>1, <2>4, <3>1 DEF Eraser, ShownIs
    <3>3. k.erased.subject = page.subject
      <4>1. CASE backend = "http"
        BY <1>3, <2>1, <3>2, <4>1 DEF FlowOk, HttpOk, Recorded
      <4>2. CASE backend = "mock"
        BY <1>4, <2>1, <2>4, <3>1, <4>2 DEF Eraser, ShownIs
      <4> QED
        BY <1>3, <4>1, <4>2
    <3>4. SearchResult(t) # None => /\ SearchResult(t).subject = page.subject
                                    /\ SearchResult(t).vector = page.vector
                                    /\ ~SearchResult(t).found
      BY <2>1, <3>1, <3>2 DEF Eraser, SearchResult, HasAnswer, Value
    <3> QED
      BY <2>3, <2>4, <3>3, <3>4 DEF ShownIs, Result
  <2> QED
    BY <1>6, <2>1, <2>2, <2>3, <2>4
<1>10. CASE Erased(t)
  <2> DEFINE d == [k EXCEPT !.erased = v]
  <2>1. /\ Asks(t, d, "getMemory") /\ UNCHANGED <<backends, page, ref, torn>>
        /\ k.op \in {"erase", "signed"} /\ HasAnswer(k)
    BY <1>10 DEF Erased, Comes, HasAnswer
  <2>2. /\ DOMAIN d = TaskFields /\ d.flow = k.flow /\ d.crossed = k.crossed
        /\ d.subject = k.subject /\ d.vector = k.vector /\ d.erased = v
    BY <1>1 DEF TaskFields
  <2> HIDE DEF d
  <2>3. k.flow = "erase"
    BY <1>1, <2>1 DEF RightOp
  <2>4. PICK m : /\ Becomes(t, m) /\ DOMAIN m = TaskFields /\ m.op = "getMemory"
                 /\ m.answer = None /\ m.flow = k.flow /\ m.crossed = k.crossed
                 /\ m.subject = k.subject /\ m.vector = k.vector /\ m.erased = v
    BY <2>1, <2>2, AsksIs
  <2>5. backend = "mock" => k.op = "signed" /\ v = k.erased
    BY <1>3, <2>1 DEF FlowOk, MockOk, Value
  <2>6. ~k.crossed => Eraser(m, ref, mock, backend)
    BY <1>2, <2>3, <2>4, <2>5 DEF Eraser, HasAnswer
  <2> QED
    BY <1>7, <2>1, <2>3, <2>4, <2>6
<1>11. CASE AfterSeen(t)
  <2> DEFINE d == [k EXCEPT !.view = v]
  <2>1. /\ Asks(t, d, "getProof") /\ UNCHANGED <<backends, page, ref, torn>>
        /\ k.op \in {"getMemory", "getKey"} /\ k.flow = "erase"
    BY <1>11 DEF AfterSeen, Comes
  <2>2. /\ DOMAIN d = TaskFields /\ d.flow = k.flow /\ d.crossed = k.crossed
        /\ d.subject = k.subject /\ d.vector = k.vector /\ d.erased = k.erased
    BY <1>1 DEF TaskFields
  <2> HIDE DEF d
  <2>3. PICK m : /\ Becomes(t, m) /\ DOMAIN m = TaskFields /\ m.op = "getProof"
                 /\ m.answer = None /\ m.flow = k.flow /\ m.crossed = k.crossed
                 /\ m.subject = k.subject /\ m.vector = k.vector /\ m.erased = k.erased
    BY <2>1, <2>2, AsksIs
  <2>4. ~k.crossed => Eraser(m, ref, mock, backend)
    BY <1>2, <2>1, <2>3 DEF Eraser, HasAnswer
  <2> QED
    BY <1>7, <2>1, <2>3, <2>4
<1>12. CASE ProofSeen(t)
  <2> DEFINE d == [k EXCEPT !.proof = v, !.vector = ref.vector]
  <2>1. /\ Asks(t, d, "search") /\ UNCHANGED <<backends, page, ref, torn>>
        /\ k.op = "getProof"
    BY <1>12 DEF ProofSeen, Comes
  <2>2. /\ DOMAIN d = TaskFields /\ d.flow = k.flow /\ d.crossed = k.crossed
        /\ d.subject = k.subject /\ d.vector = ref.vector /\ d.erased = k.erased
    BY <1>1 DEF TaskFields
  <2> HIDE DEF d
  <2>3. k.flow = "erase"
    BY <1>1, <2>1 DEF RightOp
  <2>4. PICK m : /\ Becomes(t, m) /\ DOMAIN m = TaskFields /\ m.op = "search"
                 /\ m.answer = None /\ m.flow = k.flow /\ m.crossed = k.crossed
                 /\ m.subject = k.subject /\ m.vector = ref.vector /\ m.erased = k.erased
    BY <2>1, <2>2, AsksIs
  <2>5. ~k.crossed => Eraser(m, ref, mock, backend)
    BY <1>2, <2>1, <2>3, <2>4 DEF Eraser, HasAnswer
  <2> QED
    BY <1>7, <2>1, <2>3, <2>4, <2>5
<1>13. CASE Fails(t)
  <2>1. /\ Over(t, page) /\ UNCHANGED <<backends, ref>>
        /\ torn' = (torn \/ k.crossed \/ Halfway(t))
    BY <1>13 DEF Fails
  <2>2. torn => torn'
    BY <2>1
  <2>3. PICK m : Becomes(t, m) /\ Begun(m)
    BY <1>1, <2>1, EndsAs
  <2>4. Fits(m, ref') /\ SameShown(page, page')
    BY <1>1, <2>1, <2>3, EndsAs, BegunFits
  <2> QED
    BY <2>1, <2>2, <2>3, <2>4, QuietActs
<1>14. ~ (\/ MemoryStored(t) \/ Viewed(t) \/ MemoryLoaded(t) \/ WriterLoaded(t)
          \/ Leaked(t) \/ Endured(t) \/ Audited(t) \/ JobStarted(t) \/ Polled(t)
          \/ WarmPolled(t) \/ VerdictComes(t) \/ TitanComes(t) \/ PastComes(t))
  BY <1>1 DEF MemoryStored, Viewed, MemoryLoaded, WriterLoaded, Leaked, Endured, Audited,
              JobStarted, Polled, WarmPolled, VerdictComes, TitanComes, PastComes, Comes,
              SearchComes, RightOp, Loaders, EraseOps
<1> QED
  BY <1>8, <1>9, <1>10, <1>11, <1>12, <1>13, <1>14 DEF GoesOn

LEMMA ReaderActs ==
    ASSUME ConsoleInv, ActsInv, Reader
    PROVE  ActsInv'
<1>1. CASE Reset
  <2>1. /\ page' = InitialPage /\ ref' = NoRef /\ UNCHANGED backends
        /\ tasks' = [t \in Slots |-> IF t \in Running(tasks, OfSubject)
                                     THEN [tasks[t] EXCEPT !.crossed = TRUE] ELSE tasks[t]]
    BY <1>1 DEF Reset
  <2>2. ASSUME NEW u \in Slots, tasks'[u] # NoTask
        PROVE  RightOp(tasks'[u]) /\ (OfMemory(tasks'[u]) => tasks'[u].crossed)
    <3> DEFINE m == [tasks[u] EXCEPT !.crossed = TRUE]
    <3>1. IF OfMemory(tasks[u]) THEN tasks'[u] = m ELSE tasks'[u] = tasks[u]
      BY <2>1 DEF Running, OfMemory
    <3>2. tasks[u] # NoTask
      BY <2>2, <3>1 DEF OfMemory
    <3>3. DOMAIN tasks[u] = TaskFields /\ RightOp(tasks[u])
      BY <3>2 DEF ConsoleInv, TasksOk, TaskOk, ActsInv, OpsOk
    <3>4. m.flow = tasks[u].flow /\ m.op = tasks[u].op /\ m.crossed
      BY <3>3 DEF TaskFields
    <3> HIDE DEF m
    <3> QED
      BY <3>1, <3>3, <3>4 DEF RightOp
  <2>3. OpsOk' /\ CrossedOk' /\ KnowsOk'
    BY <2>2 DEF OpsOk, CrossedOk, KnowsOk, OfMemory
  <2>4. ShownIs(page', ref') /\ ref'.subject = None
    BY <2>1 DEF InitialPage, NoRef, ShownIs, Result
  <2> QED
    BY <2>3, <2>4 DEF ActsInv, MockIs
<1>2. ASSUME NEW flow \in Flows, NEW auto, Begins(flow, auto)
      PROVE  ActsInv'
  <2> DEFINE t == Min(Free)
             k == Task(flow, auto)
  <2>1. /\ t \in Slots /\ tasks[t] = NoTask /\ Becomes(t, k)
        /\ page' = [page EXCEPT !.running = @ \union {flow}]
        /\ UNCHANGED <<backends, ref, torn>>
    BY <1>2, BeginsIs
  <2>2. Fits(k, ref')
    BY <2>1, TaskFits
  <2>3. SameShown(page, page')
    BY <2>1 DEF ConsoleInv, PageOk, PageFields, SameShown
  <2>4. ~Loads(tasks[t])
    BY <2>1 DEF Loads
  <2> HIDE DEF t, k
  <2> QED
    BY <2>1, <2>2, <2>3, <2>4, QuietActs
<1> QED
  BY <1>1, <1>2, ReaderIs

LEMMA ActsStep == ConsoleInv /\ TypeInv /\ WholeInv /\ ActsInv /\ [Next]_vars => ActsInv'
<1> SUFFICES ASSUME ConsoleInv, TypeInv, WholeInv, ActsInv, [Next]_vars PROVE ActsInv'
  OBVIOUS
<1>1. ASSUME NEW t \in Slots, GoesOn(t)
      PROVE  ActsInv'
  BY <1>1, PlainActs, LoaderGoesOnActs, StageGoesOnActs
<1>2. CASE UNCHANGED vars
  BY <1>2 DEF vars, backends, ActsInv, OpsOk, KnowsOk, CrossedOk, Clean, MockIs
<1> QED
  BY <1>1, <1>2, ReaderActs, ServeActs, BackgroundActs DEF Next, Moves

\* The next stage acts on the memory that is shown, embedding included, and
\* all that is shown is of that memory (useDemo.ts: subjectRef, embeddingRef
\* and the state they belong to), unless flows that use the refs overlapped
\* or a loader failed halfway, and until a memory is loaded cleanly again.
THEOREM ActsCorrect == Spec => []ActsOnWhatIsShown
<1>1. Spec => []ActsInv
  BY ActsInit, ActsStep, ConsoleHolds, TypeHolds, WholeHolds, PTL DEF Spec
<1> QED
  BY <1>1, ActsImplies, PTL

===============================================================================
