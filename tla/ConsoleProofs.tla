---------------------------- MODULE ConsoleProofs ----------------------------
(***************************************************************************)
(* Theorems about Console: a live result is of the embedding it was asked  *)
(* for, what is shown as gone was erased, and what is shown running is     *)
(* under way, for any number of flows that overlap, of memories, visitors, *)
(* lost calls and restarts.                                                *)
(***************************************************************************)
EXTENDS Console, FiniteSetTheorems, WellFoundedInduction, TLAPS

TaskFields == {"flow", "auto", "op", "answer", "subject", "vector", "ours", "view",
               "erased", "proof", "proven", "polls", "crossed"}
PageFields == {"subject", "vector", "written", "memory", "after", "erase", "proof", "before",
               "searchAfter", "inversion", "live", "audit", "running"}

\* A view of a memory, or an audit, calls gone only what gw has erased.
GoodView(v, gw)  == ~v.key => v.subject \in gw.erased
GoodAudit(v, gw) == v.proven => v.subject \in gw.erased

\* What the answer a to task k may say, when it is no failure.
AnswerOk(k, a, gw, be) == a \notin {None, Failed} =>
    /\ k.op = "status" /\ a.value.state = "done" => a.value.input = k.vector
    /\ be = "http" => /\ k.op # "getMemory"
                      /\ k.op = "getKey" => GoodView(a.value, gw)
                      /\ k.op = "forensics" => GoodAudit(a.value, gw)

\* A task holds the job slot only while the job inverts its embedding, and
\* what it has learnt is so.
TaskOk(k, gw, be) ==
    /\ DOMAIN k = TaskFields
    /\ k.ours => k.op \in {"start", "status"} /\ gw.job.input = k.vector
    /\ AnswerOk(k, k.answer, gw, be)
    /\ be = "http" =>
          /\ k.op = "getKey" => /\ DOMAIN k.view = {"subject", "embedding", "key"}
                                /\ k.view.subject = k.subject
                                /\ k.subject \in DOMAIN gw.memories
          /\ k.op \in {"getProof", "search"} => GoodView(k.view, gw)
          /\ k.proven => k.op \in {"forensics", "confirm"} /\ k.subject \in gw.erased

TasksOk == /\ DOMAIN tasks = Slots
           /\ \A t \in Slots : tasks[t] # NoTask => TaskOk(tasks[t], gateway, backend)

GatewayOk == /\ DOMAIN gateway = {"memories", "erased", "anchored", "job"}
             /\ DOMAIN gateway.job = {"state", "input"}
             /\ gateway.memories \in Seq(Nat)

PageOk(pg, gw, be) ==
    /\ DOMAIN pg = PageFields
    /\ pg.live # None => pg.live.inverts = pg.live.asked
    /\ be = "http" => /\ pg.memory # None => GoodView(pg.memory, gw)
                      /\ pg.after # None => GoodView(pg.after, gw)
                      /\ pg.audit # None => GoodAudit(pg.audit, gw)

ConsoleInv == TasksOk /\ GatewayOk /\ PageOk(page, gateway, backend)

----------------------------------------------------------------------------
\* What keeps the tasks in order.

\* The gateway only adds memories and erasures, and keeps the job's input.
Grows(gw, gw2) == /\ DOMAIN gw.memories \subseteq DOMAIN gw2.memories
                  /\ gw.erased \subseteq gw2.erased
                  /\ gw2.job.input = gw.job.input

LEMMA TaskStays ==
    ASSUME NEW k, NEW gw, NEW gw2, NEW be, TaskOk(k, gw, be), Grows(gw, gw2)
    PROVE  TaskOk(k, gw2, be)
  BY DEF TaskOk, AnswerOk, GoodView, GoodAudit, Grows

LEMMA PageStays ==
    ASSUME NEW pg, NEW gw, NEW gw2, NEW be, PageOk(pg, gw, be), gw.erased \subseteq gw2.erased
    PROVE  PageOk(pg, gw2, be)
  BY DEF PageOk, GoodView, GoodAudit

\* One task changes.
LEMMA OneTask ==
    ASSUME TasksOk, NEW t \in Slots, NEW k, tasks' = [tasks EXCEPT ![t] = k],
           k # NoTask => TaskOk(k, gateway', backend'),
           backend' = backend, Grows(gateway, gateway')
    PROVE  TasksOk'
<1>1. ASSUME NEW u \in Slots, tasks'[u] # NoTask
      PROVE  TaskOk(tasks'[u], gateway', backend')
  <2>1. CASE u = t
    BY <1>1, <2>1 DEF TasksOk
  <2>2. CASE u # t
    <3>1. tasks'[u] = tasks[u]
      BY <2>2 DEF TasksOk
    <3>2. TaskOk(tasks[u], gateway, backend)
      BY <1>1, <3>1 DEF TasksOk
    <3> QED
      BY <3>1, <3>2, TaskStays
  <2> QED
    BY <2>1, <2>2
<1> QED
  BY <1>1 DEF TasksOk

\* Marking a task as crossed changes nothing else of it.
LEMMA MarkOk ==
    ASSUME NEW k, NEW gw, NEW be, TaskOk(k, gw, be)
    PROVE  TaskOk([k EXCEPT !.crossed = TRUE], gw, be)
<1> DEFINE m == [k EXCEPT !.crossed = TRUE]
<1>1. /\ DOMAIN m = TaskFields /\ m.ours = k.ours /\ m.op = k.op /\ m.vector = k.vector
      /\ m.answer = k.answer /\ m.view = k.view /\ m.subject = k.subject
      /\ m.proven = k.proven
  BY DEF TaskOk, TaskFields
<1> HIDE DEF m
<1> QED
  BY <1>1 DEF TaskOk, AnswerOk

\* A flow begins, goes on to its next call, or ends.
LEMMA BecomesOk ==
    ASSUME TasksOk, NEW t, NEW k, Becomes(t, k),
           k # NoTask => TaskOk(k, gateway', backend'),
           backend' = backend, gateway' = gateway
    PROVE  TasksOk'
<1> DEFINE ts == [tasks EXCEPT ![t] = k]
<1>1. /\ DOMAIN ts = Slots
      /\ \A u \in Slots : ts[u] # NoTask => TaskOk(ts[u], gateway, backend)
  BY DEF TasksOk
<1>2. tasks' = Mark(ts)
  BY DEF Becomes
<1> HIDE DEF ts
<1>3. \/ tasks' = ts
      \/ tasks' = [u \in Slots |-> IF u \in Running(ts, OfSubject)
                                   THEN [ts[u] EXCEPT !.crossed = TRUE] ELSE ts[u]]
  BY <1>2 DEF Mark
<1>4. \A u \in Running(ts, OfSubject) : ts[u] # NoTask
  BY DEF Running
<1>5. \A u \in Slots : tasks'[u] # NoTask => TaskOk(tasks'[u], gateway, backend)
  BY <1>1, <1>3, <1>4, MarkOk
<1> QED
  BY <1>1, <1>3, <1>5 DEF TasksOk

\* A flow that begins knows nothing yet.
LEMMA TaskBegins ==
    ASSUME NEW flow \in Flows, NEW auto
    PROVE  TaskOk(Task(flow, auto), gateway, backend)
<1>1. FirstCall[flow] \notin {"getKey", "getProof", "search"}
  BY DEF FirstCall, Flows, Stages
<1> QED
  BY <1>1 DEF Task, TaskOk, AnswerOk, TaskFields

----------------------------------------------------------------------------
\* A call is served, or lost.

LEMMA AnswerKeeps ==
    ASSUME TasksOk, NEW t \in Slots, tasks[t] # NoTask, NEW a, Answered(t, a),
           backend' = backend, Grows(gateway, gateway'),
           AnswerOk(tasks[t], a, gateway', backend)
    PROVE  TasksOk'
<1> DEFINE k == [tasks[t] EXCEPT !.answer = a]
<1>1. tasks' = [tasks EXCEPT ![t] = k]
  BY DEF Answered
<1>2. TaskOk(tasks[t], gateway', backend)
  BY TaskStays DEF TasksOk
<1>3. /\ DOMAIN k = TaskFields /\ k.ours = tasks[t].ours /\ k.op = tasks[t].op
      /\ k.vector = tasks[t].vector /\ k.view = tasks[t].view /\ k.answer = a
      /\ k.subject = tasks[t].subject /\ k.proven = tasks[t].proven
  BY <1>2 DEF TaskOk, TaskFields
<1> HIDE DEF k
<1>4. TaskOk(k, gateway', backend)
  BY <1>2, <1>3 DEF TaskOk, AnswerOk
<1> QED
  BY <1>1, <1>4, OneTask

\* Grows is reflexive.
LEMMA Unchanged == gateway' = gateway => Grows(gateway, gateway')
  BY DEF Grows

\* A reply that says what is so, and a refusal.
LEMMA ReplyKeeps ==
    ASSUME TasksOk, NEW t \in Slots, tasks[t] # NoTask, NEW v, Reply(t, v) \/ Refuse(t),
           backend' = backend, Grows(gateway, gateway'),
           AnswerOk(tasks[t], Ok(v), gateway', backend)
    PROVE  TasksOk'
<1>1. AnswerOk(tasks[t], Failed, gateway', backend)
  BY DEF AnswerOk
<1>2. Answered(t, Ok(v)) \/ Answered(t, Failed)
  BY DEF Reply, Refuse
<1> QED
  BY <1>1, <1>2, AnswerKeeps

\* Calls whose answer no property speaks of.
LEMMA PlainReply ==
    ASSUME TasksOk, NEW t \in Slots, NEW be, NEW op,
           op \notin {"status", "getMemory", "getKey", "forensics"}, Calls(t, be, op),
           NEW v, Reply(t, v) \/ Refuse(t) \/ Answered(t, Ok(v)),
           backend' = backend, Grows(gateway, gateway')
    PROVE  TasksOk'
<1>1. AnswerOk(tasks[t], Ok(v), gateway', backend) /\ tasks[t] # NoTask
  BY DEF AnswerOk, Calls
<1> QED
  BY <1>1, ReplyKeeps, AnswerKeeps

\* Others lose the slot.
LEMMA DisplacedOk ==
    ASSUME TasksOk, NEW gw, gw.memories = gateway.memories, gw.erased = gateway.erased
    PROVE  /\ DOMAIN Displaced = Slots
           /\ \A t \in Slots : Displaced[t] # NoTask => TaskOk(Displaced[t], gw, backend)
           /\ \A t \in Slots : tasks[t] # NoTask =>
                 Displaced[t] = [tasks[t] EXCEPT !.ours = FALSE]
<1>1. DOMAIN Displaced = Slots
  BY DEF Displaced
<1>2. ASSUME NEW t \in Slots, tasks[t] # NoTask
      PROVE  /\ Displaced[t] = [tasks[t] EXCEPT !.ours = FALSE]
             /\ TaskOk(Displaced[t], gw, backend)
  <2> DEFINE k == [tasks[t] EXCEPT !.ours = FALSE]
  <2>1. Displaced[t] = [tasks[t] EXCEPT !.ours = FALSE] /\ Displaced[t] = k
    BY <1>2 DEF Displaced
  <2>2. TaskOk(tasks[t], gateway, backend)
    BY <1>2 DEF TasksOk
  <2>3. /\ DOMAIN k = TaskFields /\ ~k.ours /\ k.op = tasks[t].op
        /\ k.vector = tasks[t].vector /\ k.view = tasks[t].view
        /\ k.answer = tasks[t].answer
        /\ k.subject = tasks[t].subject /\ k.proven = tasks[t].proven
    BY <2>2 DEF TaskOk, TaskFields
  <2> HIDE DEF k
  <2>4. TaskOk(k, gw, backend)
    BY <2>2, <2>3 DEF TaskOk, AnswerOk, GoodView, GoodAudit
  <2> QED
    BY <2>1, <2>4
<1>3. \A t \in Slots : tasks[t] = NoTask => Displaced[t] = NoTask
  BY DEF Displaced
<1> QED
  BY <1>1, <1>2, <1>3

LEMMA StartKeeps ==
    ASSUME ConsoleInv, NEW t \in Slots, StartInversion(t)
    PROVE  TasksOk' /\ GatewayOk' /\ UNCHANGED backend /\ gateway'.erased = gateway.erased
<1>1. Calls(t, "http", "start") /\ backend' = backend
  BY DEF StartInversion
<1>2. tasks[t] # NoTask /\ tasks[t].op = "start" /\ tasks[t].answer = None
  BY <1>1 DEF Calls
<1>3. TaskOk(tasks[t], gateway, backend)
  BY <1>2 DEF ConsoleInv, TasksOk
<1>4. ASSUME NEW a \in {Ok(None), Failed},
             gateway' = [gateway EXCEPT !.job = Job("running", tasks[t].vector)],
             tasks' = [Displaced EXCEPT ![t].ours = TRUE, ![t].answer = a]
      PROVE  TasksOk' /\ GatewayOk' /\ UNCHANGED backend /\ gateway'.erased = gateway.erased
  <2> DEFINE k == [tasks[t] EXCEPT !.ours = TRUE, !.answer = a]
             d == [tasks[t] EXCEPT !.ours = FALSE]
  <2>1. /\ gateway'.memories = gateway.memories /\ gateway'.erased = gateway.erased
        /\ gateway'.job = Job("running", tasks[t].vector)
        /\ DOMAIN gateway' = DOMAIN gateway
    BY <1>4 DEF ConsoleInv, GatewayOk
  <2>2. gateway'.job.input = tasks[t].vector /\ DOMAIN gateway'.job = {"state", "input"}
    BY <2>1 DEF Job
  <2>3. /\ DOMAIN Displaced = Slots /\ Displaced[t] = d
        /\ \A u \in Slots : Displaced[u] # NoTask => TaskOk(Displaced[u], gateway', backend)
    BY <1>2, <2>1, DisplacedOk DEF ConsoleInv
  <2>4. tasks' = [Displaced EXCEPT ![t] = [d EXCEPT !.ours = TRUE, !.answer = a]]
    BY <1>4, <2>3
  <2>5. [d EXCEPT !.ours = TRUE, !.answer = a] = k
    BY <1>3 DEF TaskOk, TaskFields
  <2>6. /\ DOMAIN k = TaskFields /\ k.ours = TRUE /\ k.answer = a /\ k.op = "start"
        /\ k.vector = tasks[t].vector /\ k.proven = tasks[t].proven
    BY <1>2, <1>3 DEF TaskOk, TaskFields
  <2>7. tasks' = [Displaced EXCEPT ![t] = k]
    BY <2>4, <2>5
  <2> HIDE DEF k, d
  <2>8. TaskOk(k, gateway', backend)
    BY <1>2, <1>3, <1>4, <2>1, <2>2, <2>6 DEF TaskOk, AnswerOk
  <2>9. TasksOk'
    BY <1>1, <2>3, <2>7, <2>8 DEF TasksOk
  <2> QED
    BY <1>1, <2>1, <2>2, <2>9 DEF ConsoleInv, GatewayOk
<1>5. CASE /\ gateway' = gateway /\ gateway.job.input = tasks[t].vector
           /\ tasks' = [tasks EXCEPT ![t].ours = TRUE, ![t].answer = Ok(None)]
  <2> DEFINE k == [tasks[t] EXCEPT !.ours = TRUE, !.answer = Ok(None)]
  <2>1. tasks' = [tasks EXCEPT ![t] = k]
    BY <1>5 DEF ConsoleInv, TasksOk
  <2>2. /\ DOMAIN k = TaskFields /\ k.ours = TRUE /\ k.answer = Ok(None) /\ k.op = "start"
        /\ k.vector = tasks[t].vector /\ k.proven = tasks[t].proven
    BY <1>2, <1>3 DEF TaskOk, TaskFields
  <2> HIDE DEF k
  <2>3. TaskOk(k, gateway', backend)
    BY <1>2, <1>3, <1>5, <2>2 DEF TaskOk, AnswerOk
  <2>4. TasksOk'
    BY <1>1, <1>5, <2>1, <2>3, OneTask, Unchanged DEF ConsoleInv
  <2> QED
    BY <1>1, <1>5, <2>4 DEF ConsoleInv, GatewayOk
<1>6. CASE gateway' = gateway /\ Refuse(t)
  <2>1. TasksOk'
    BY <1>1, <1>6, Unchanged, PlainReply DEF ConsoleInv
  <2> QED
    BY <1>1, <1>6, <2>1 DEF ConsoleInv, GatewayOk
<1> QED
  BY <1>1, <1>4, <1>5, <1>6 DEF StartInversion

\* POST /erase erases, or refuses.
EraseStep(t, pending) ==
    /\ Live(tasks[t].subject)
    /\ gateway' = [gateway EXCEPT
          !.erased = @ \union {tasks[t].subject},
          !.anchored = @ \union IF pending THEN {} ELSE {tasks[t].subject}]
    /\ Reply(t, EraseResult(tasks[t].subject, pending))

LEMMA EraseIs ==
    ASSUME NEW t, Erase(t)
    PROVE  /\ UNCHANGED <<session, backend, mock>>
           /\ \/ Refuse(t) /\ UNCHANGED gateway
              \/ \E pending \in BOOLEAN : EraseStep(t, pending)
  BY DEF Erase, EraseStep

LEMMA EraseStepIs ==
    ASSUME ConsoleInv, NEW t, NEW pending \in BOOLEAN, EraseStep(t, pending)
    PROVE  /\ gateway'.erased = gateway.erased \union {tasks[t].subject}
           /\ gateway'.anchored = gateway.anchored
                 \union IF pending THEN {} ELSE {tasks[t].subject}
           /\ gateway'.memories = gateway.memories /\ gateway'.job = gateway.job
           /\ DOMAIN gateway' = DOMAIN gateway
  BY DEF EraseStep, ConsoleInv, GatewayOk

\* The sweep anchors, and changes nothing else.
LEMMA ReconciledIs ==
    ASSUME ConsoleInv, Reconciled
    PROVE  /\ gateway'.memories = gateway.memories /\ gateway'.erased = gateway.erased
           /\ gateway'.job = gateway.job /\ DOMAIN gateway' = DOMAIN gateway
           /\ \E s \in gateway.erased : gateway'.anchored = gateway.anchored \union {s}
           /\ UNCHANGED <<session, backend, mock, faults, tasks>>
  BY DEF Reconciled, ConsoleInv, GatewayOk

\* A call served by the gateway.
LEMMA GatewayKeeps ==
    ASSUME ConsoleInv, NEW t \in Slots, Gateway(t)
    PROVE  TasksOk' /\ GatewayOk' /\ UNCHANGED backend /\ gateway.erased \subseteq gateway'.erased
<1> DEFINE k  == tasks[t]
           Kept == TasksOk' /\ GatewayOk' /\ UNCHANGED backend
                      /\ gateway.erased \subseteq gateway'.erased
<1>1. ASSUME gateway' = gateway, backend' = backend, TasksOk'
      PROVE  Kept
  BY <1>1 DEF ConsoleInv, GatewayOk
<1>2. k # NoTask => TaskOk(k, gateway, backend)
  BY DEF ConsoleInv, TasksOk
<1>3. ASSUME NEW vector \in Nat, NEW op \in {"ingest", "write"},
             Calls(t, "http", op), Stores(t, vector)
      PROVE  Kept
  <2> DEFINE v == [subject |-> Len(gateway.memories) + 1, vector |-> vector]
  <2>1. /\ gateway' = [gateway EXCEPT !.memories = Append(@, vector)]
        /\ Reply(t, v) /\ backend' = backend
    BY <1>3 DEF Stores
  <2>2. /\ gateway'.memories = Append(gateway.memories, vector)
        /\ gateway'.erased = gateway.erased /\ gateway'.job = gateway.job
        /\ DOMAIN gateway' = DOMAIN gateway
    BY <2>1 DEF ConsoleInv, GatewayOk
  <2>3. /\ gateway'.memories \in Seq(Nat)
        /\ DOMAIN gateway.memories \subseteq DOMAIN gateway'.memories
    BY <2>2 DEF ConsoleInv, GatewayOk
  <2>4. Grows(gateway, gateway')
    BY <2>2, <2>3 DEF Grows
  <2> HIDE DEF v
  <2>5. TasksOk'
    BY <1>3, <2>1, <2>4, PlainReply DEF ConsoleInv
  <2> QED
    BY <2>1, <2>2, <2>3, <2>5 DEF ConsoleInv, GatewayOk
<1>4. CASE Ingest(t)
  BY <1>3, <1>4 DEF Ingest, DemoVector
<1>5. CASE WriteMemory(t)
  <2>1. Len(gateway.memories) + 1 \in Nat
    BY DEF ConsoleInv, GatewayOk
  <2> QED
    BY <1>3, <1>5, <2>1 DEF WriteMemory
<1>6. CASE Memory(t)
  <2>1. k # NoTask /\ k.op = "getMemory" /\ k.answer = None /\ backend = "http"
        /\ gateway' = gateway /\ backend' = backend
    BY <1>6 DEF Memory, Calls
  <2>2. CASE Refuse(t)
    <3>1. AnswerOk(k, Failed, gateway, backend)
      BY DEF AnswerOk
    <3> QED
      BY <1>1, <2>1, <2>2, <3>1, AnswerKeeps, Unchanged DEF Refuse, ConsoleInv
  <2>3. CASE Stored(k.subject) /\ ~Refuse(t)
    <3> DEFINE w == [subject |-> k.subject, embedding |-> Live(k.subject), key |-> FALSE]
               n == [k EXCEPT !.op = "getKey", !.view = w]
    <3>1. tasks' = [tasks EXCEPT ![t].op = "getKey", ![t].view = w]
      BY <1>6, <2>3 DEF Memory
    <3>2. tasks' = [tasks EXCEPT ![t] = n]
      BY <3>1 DEF ConsoleInv, TasksOk
    <3>3. /\ DOMAIN n = TaskFields /\ n.op = "getKey" /\ n.view = w /\ n.ours = k.ours
          /\ n.answer = None /\ n.subject = k.subject /\ n.vector = k.vector
          /\ n.proven = k.proven
      BY <1>2, <2>1 DEF TaskOk, TaskFields
    <3>4. DOMAIN w = {"subject", "embedding", "key"} /\ w.subject = k.subject
      OBVIOUS
    <3> HIDE DEF n, w
    <3>5. TaskOk(n, gateway, backend)
      BY <1>2, <2>1, <2>3, <3>3, <3>4 DEF TaskOk, AnswerOk, Stored
    <3> QED
      BY <1>1, <2>1, <3>2, <3>5, OneTask, Unchanged DEF ConsoleInv
  <2> QED
    BY <1>6, <2>2, <2>3 DEF Memory
<1>7. CASE MemoryKey(t)
  <2> DEFINE v == [k.view EXCEPT !.key = Live(k.subject)]
  <2>1. k # NoTask /\ k.op = "getKey" /\ backend = "http" /\ Reply(t, v)
        /\ gateway' = gateway /\ backend' = backend
    BY <1>7 DEF MemoryKey, Calls
  <2>2. v.subject = k.subject /\ v.key = Live(k.subject) /\ k.subject \in DOMAIN gateway.memories
    BY <1>2, <2>1 DEF TaskOk
  <2> HIDE DEF v
  <2>3. GoodView(v, gateway)
    BY <2>2 DEF GoodView, Live, Stored
  <2>4. AnswerOk(k, Ok(v), gateway, backend)
    BY <2>1, <2>3 DEF AnswerOk, Ok
  <2> QED
    BY <1>1, <2>1, <2>4, ReplyKeeps, Unchanged DEF ConsoleInv
<1>8. CASE Search(t)
  BY <1>1, <1>8, PlainReply, Unchanged DEF Search, ConsoleInv
<1>9. CASE Erase(t)
  <2>1. CASE Refuse(t) /\ UNCHANGED gateway
    BY <1>1, <1>9, <2>1, PlainReply, Unchanged DEF Erase, ConsoleInv
  <2>2. ASSUME NEW pending \in BOOLEAN, EraseStep(t, pending)
        PROVE  Kept
    <3>1. /\ gateway'.erased = gateway.erased \union {k.subject}
          /\ gateway'.memories = gateway.memories /\ gateway'.job = gateway.job
          /\ DOMAIN gateway' = DOMAIN gateway
      BY <2>2, EraseStepIs
    <3>2. Grows(gateway, gateway')
      BY <3>1 DEF Grows
    <3>3. TasksOk' /\ backend' = backend
      BY <1>9, <2>2, <3>2, PlainReply DEF Erase, EraseStep, ConsoleInv
    <3> QED
      BY <3>1, <3>3 DEF ConsoleInv, GatewayOk
  <2> QED
    BY <1>9, <2>1, <2>2, EraseIs
<1>10. CASE GetProof(t)
  BY <1>1, <1>10, PlainReply, Unchanged DEF GetProof, ConsoleInv
<1>11. CASE Read(t)
  BY <1>1, <1>11, PlainReply, Unchanged DEF Read, ConsoleInv
<1>12. CASE StartInversion(t)
  BY <1>12, StartKeeps
<1>13. CASE InversionStatus(t)
  <2>1. k # NoTask /\ k.op = "status" /\ Reply(t, StatusOf(t))
        /\ gateway' = gateway /\ backend' = backend
    BY <1>13 DEF InversionStatus, Calls
  <2>2. StatusOf(t).state = "done" => StatusOf(t).input = k.vector
    <3>1. CASE gateway.job = NoJob
      <4>1. StatusOf(t) = NoJob
        BY <3>1 DEF StatusOf
      <4>2. NoJob.state = "" /\ "" # "done"
        BY DEF NoJob, Job
      <4> QED
        BY <4>1, <4>2
    <3>2. CASE gateway.job # NoJob /\ ~k.ours
      BY <3>2 DEF StatusOf, Job
    <3>3. CASE k.ours
      BY <1>2, <2>1, <3>3 DEF StatusOf, TaskOk
    <3> QED
      BY <3>1, <3>2, <3>3
  <2>3. AnswerOk(k, Ok(StatusOf(t)), gateway, backend)
    BY <2>1, <2>2 DEF AnswerOk, Ok
  <2> QED
    BY <1>1, <2>1, <2>3, ReplyKeeps, Unchanged DEF ConsoleInv
<1>14. CASE Warm(t)
  BY <1>1, <1>14, PlainReply, Unchanged DEF Warm, ConsoleInv
<1>15. CASE ConfirmKey(t)
  <2> DEFINE w == [key |-> Live(k.subject)]
             n == [k EXCEPT !.op = "confirm", !.polls = @ + 1, !.view = w]
  <2>1. /\ k # NoTask /\ k.op = "forensics" /\ k.answer = None /\ gateway' = gateway
        /\ backend' = backend
    BY <1>15 DEF ConfirmKey, Calls
  <2>2. tasks' = [tasks EXCEPT ![t] = n]
    BY <1>15 DEF ConfirmKey, ConsoleInv, TasksOk
  <2>3. /\ DOMAIN n = TaskFields /\ n.op = "confirm" /\ n.ours = k.ours
        /\ n.answer = None /\ n.subject = k.subject /\ n.vector = k.vector
        /\ n.proven = k.proven
    BY <1>2, <2>1 DEF TaskOk, TaskFields
  <2> HIDE DEF n
  <2>4. TaskOk(n, gateway, backend)
    BY <1>2, <2>1, <2>3 DEF TaskOk, AnswerOk
  <2> QED
    BY <1>1, <2>1, <2>2, <2>4, OneTask, Unchanged DEF ConsoleInv
<1>16. CASE ConfirmRecord(t)
  <2>1. /\ k # NoTask /\ k.op = "confirm" /\ k.answer = None /\ gateway' = gateway
        /\ backend' = backend
    BY <1>16 DEF ConfirmRecord, Calls
  <2>2. PICK proven : /\ tasks' = [tasks EXCEPT ![t].op = "forensics", ![t].proven = proven]
                      /\ proven => k.subject \in gateway.erased
    BY <1>16 DEF ConfirmRecord
  <2> DEFINE n == [k EXCEPT !.op = "forensics", !.proven = proven]
  <2>3. tasks' = [tasks EXCEPT ![t] = n]
    BY <2>2 DEF ConsoleInv, TasksOk
  <2>4. /\ DOMAIN n = TaskFields /\ n.op = "forensics" /\ n.ours = k.ours
        /\ n.answer = None /\ n.subject = k.subject /\ n.vector = k.vector
        /\ n.proven = proven
    BY <1>2, <2>1 DEF TaskOk, TaskFields
  <2> HIDE DEF n
  <2>5. TaskOk(n, gateway, backend)
    BY <1>2, <2>1, <2>2, <2>4 DEF TaskOk, AnswerOk
  <2> QED
    BY <1>1, <2>1, <2>3, <2>5, OneTask, Unchanged DEF ConsoleInv
<1>17. CASE Verdict(t)
  <2> DEFINE v == [subject |-> k.subject, proven |-> k.proven]
  <2>1. /\ k # NoTask /\ k.op = "forensics" /\ backend = "http" /\ Reply(t, v)
        /\ gateway' = gateway /\ backend' = backend
    BY <1>17 DEF Verdict, Calls
  <2>2. GoodAudit(v, gateway)
    BY <1>2, <2>1 DEF TaskOk, GoodAudit
  <2> HIDE DEF v
  <2>3. AnswerOk(k, Ok(v), gateway, backend)
    BY <2>1, <2>2 DEF AnswerOk, Ok
  <2> QED
    BY <1>1, <2>1, <2>3, ReplyKeeps, Unchanged DEF ConsoleInv
<1> QED
  BY <1>4, <1>5, <1>6, <1>7, <1>8, <1>9, <1>10, <1>11, <1>12, <1>13, <1>14, <1>15,
     <1>16, <1>17 DEF Gateway

\* A call served by the mock.
LEMMA MockKeeps ==
    ASSUME ConsoleInv, NEW t \in Slots, Mock(t)
    PROVE  TasksOk' /\ UNCHANGED <<gateway, backend>>
<1> DEFINE k == tasks[t]
<1>1. k # NoTask => TaskOk(k, gateway, backend)
  BY DEF ConsoleInv, TasksOk
<1>2. /\ UNCHANGED <<gateway, backend>> /\ backend = "mock"
      /\ k # NoTask /\ k.answer = None
  BY DEF Mock, MockIngest, MockWrite, MockWriteEnds, MockGetMemory, MockSearch, MockErase,
         MockEraseEnds, MockGetProof, MockRead, MockAgent, Calls, MockSets, MockAnswers,
         MockRefuses
<1>3. ASSUME k.op # "status", NEW a, Answered(t, a)
      PROVE  TasksOk'
  <2>1. AnswerOk(k, a, gateway, backend)
    BY <1>2, <1>3 DEF AnswerOk
  <2> QED
    BY <1>2, <1>3, <2>1, AnswerKeeps, Unchanged DEF ConsoleInv
<1>4. CASE MockWrite(t)
  <2> DEFINE n == [k EXCEPT !.op = "written"]
  <2>1. tasks' = [tasks EXCEPT ![t] = n] /\ k.op = "write"
    BY <1>4 DEF MockWrite, Continues, Calls, ConsoleInv, TasksOk
  <2>2. /\ DOMAIN n = TaskFields /\ n.op = "written" /\ n.ours = k.ours /\ n.answer = None
        /\ n.vector = k.vector
    BY <1>1, <1>2 DEF TaskOk, TaskFields
  <2> HIDE DEF n
  <2>3. TaskOk(n, gateway, backend)
    BY <1>1, <1>2, <2>1, <2>2 DEF TaskOk, AnswerOk
  <2> QED
    BY <1>2, <2>1, <2>3, OneTask, Unchanged DEF ConsoleInv
<1>5. CASE MockErase(t)
  <2>1. CASE Answered(t, Failed)
    BY <1>2, <1>3, <1>5, <2>1 DEF MockErase, Calls
  <2>2. CASE tasks' = [tasks EXCEPT ![t].op = "signed",
                                     ![t].erased = EraseResult(mock.subject, FALSE)]
    <3> DEFINE n == [k EXCEPT !.op = "signed", !.erased = EraseResult(mock.subject, FALSE)]
    <3>1. tasks' = [tasks EXCEPT ![t] = n] /\ k.op = "erase"
      BY <1>5, <2>2 DEF MockErase, Calls, ConsoleInv, TasksOk
    <3>2. /\ DOMAIN n = TaskFields /\ n.op = "signed" /\ n.ours = k.ours /\ n.answer = None
          /\ n.vector = k.vector
      BY <1>1, <1>2 DEF TaskOk, TaskFields
    <3> HIDE DEF n
    <3>3. TaskOk(n, gateway, backend)
      BY <1>1, <1>2, <3>1, <3>2 DEF TaskOk, AnswerOk
    <3> QED
      BY <1>2, <3>1, <3>3, OneTask, Unchanged DEF ConsoleInv
  <2> QED
    BY <1>5, <2>1, <2>2 DEF MockErase, MockRefuses, Refuse
<1>6. CASE \/ MockIngest(t) \/ MockWriteEnds(t) \/ MockGetMemory(t) \/ MockSearch(t)
           \/ MockEraseEnds(t) \/ MockGetProof(t) \/ MockRead(t) \/ MockAgent(t)
  <2>1. k.op # "status" /\ \E a : Answered(t, a)
    BY <1>6 DEF MockIngest, MockWriteEnds, MockGetMemory, MockSearch, MockEraseEnds,
                MockGetProof, MockRead, MockAgent, Calls, MockAnswers, MockRefuses, Refuse
  <2> QED
    BY <1>2, <1>3, <2>1
<1> QED
  BY <1>2, <1>4, <1>5, <1>6 DEF Mock

LEMMA ServeKeeps ==
    ASSUME ConsoleInv, NEW t \in Slots, Serve(t), UNCHANGED page
    PROVE  ConsoleInv'
<1>1. TasksOk' /\ GatewayOk' /\ UNCHANGED backend /\ gateway.erased \subseteq gateway'.erased
  <2>1. CASE Drop(t)
    <3>1. /\ tasks[t] # NoTask /\ Answered(t, Failed) /\ gateway' = gateway
          /\ backend' = backend
      BY <2>1 DEF Drop
    <3>2. AnswerOk(tasks[t], Failed, gateway, backend)
      BY DEF AnswerOk
    <3> QED
      BY <3>1, <3>2, AnswerKeeps, Unchanged DEF ConsoleInv, GatewayOk
  <2>2. CASE Gateway(t)
    BY <2>2, GatewayKeeps
  <2>3. CASE Mock(t)
    BY <2>3, MockKeeps DEF ConsoleInv, GatewayOk
  <2> QED
    BY <2>1, <2>2, <2>3 DEF Serve
<1>2. PageOk(page, gateway', backend)
  BY <1>1, PageStays DEF ConsoleInv
<1> QED
  BY <1>1, <1>2 DEF ConsoleInv

\* The job ends, or a visitor or a restart takes the slot.
LEMMA BackgroundKeeps ==
    ASSUME ConsoleInv, Background, UNCHANGED page
    PROVE  ConsoleInv'
<1>1. backend' = backend
  BY DEF Background, Reconciled, InversionEnds, VisitorStarts, Restart
<1>2. ASSUME gateway'.memories = gateway.memories, gateway'.erased = gateway.erased,
             DOMAIN gateway' = DOMAIN gateway, DOMAIN gateway'.job = {"state", "input"},
             TasksOk'
      PROVE  ConsoleInv'
  <2>1. PageOk(page, gateway', backend)
    BY <1>2, PageStays DEF ConsoleInv
  <2> QED
    BY <1>1, <1>2, <2>1 DEF ConsoleInv, GatewayOk
<1>3. CASE InversionEnds
  <2>1. PICK state : gateway' = [gateway EXCEPT !.job.state = state] /\ tasks' = tasks
    BY <1>3 DEF InversionEnds
  <2>2. /\ gateway'.memories = gateway.memories /\ gateway'.erased = gateway.erased
        /\ DOMAIN gateway' = DOMAIN gateway /\ DOMAIN gateway'.job = {"state", "input"}
        /\ gateway'.job.input = gateway.job.input
    BY <2>1 DEF ConsoleInv, GatewayOk
  <2>3. Grows(gateway, gateway')
    BY <2>2 DEF Grows
  <2>4. TasksOk'
    BY <1>1, <2>1, <2>3, TaskStays DEF ConsoleInv, TasksOk
  <2> QED
    BY <1>2, <2>2, <2>4
<1>4. ASSUME NEW job, DOMAIN job = {"state", "input"}, tasks' = Displaced,
             gateway' = [gateway EXCEPT !.job = job]
      PROVE  ConsoleInv'
  <2>1. /\ gateway'.memories = gateway.memories /\ gateway'.erased = gateway.erased
        /\ DOMAIN gateway' = DOMAIN gateway /\ gateway'.job = job
    BY <1>4 DEF ConsoleInv, GatewayOk
  <2>2. TasksOk'
    BY <1>1, <1>4, <2>1, DisplacedOk DEF ConsoleInv, TasksOk
  <2> QED
    BY <1>2, <1>4, <2>1, <2>2
<1>5. CASE VisitorStarts \/ Restart
  <2>1. \A state, input : DOMAIN Job(state, input) = {"state", "input"}
    BY DEF Job
  <2> QED
    BY <1>4, <1>5, <2>1 DEF VisitorStarts, Restart, NoJob
<1>6. CASE Reconciled
  <2>1. /\ gateway'.memories = gateway.memories /\ gateway'.erased = gateway.erased
        /\ gateway'.job = gateway.job /\ DOMAIN gateway' = DOMAIN gateway /\ tasks' = tasks
    BY <1>6, ReconciledIs
  <2>2. Grows(gateway, gateway')
    BY <2>1 DEF Grows
  <2>3. TasksOk'
    BY <1>1, <2>1, <2>2, TaskStays DEF ConsoleInv, TasksOk
  <2> QED
    BY <1>2, <2>1, <2>3 DEF ConsoleInv, GatewayOk
<1> QED
  BY <1>3, <1>5, <1>6 DEF Background

----------------------------------------------------------------------------
\* A flow goes on with its answer.

LEMMA RunningOk ==
    ASSUME NEW pg, NEW gw, NEW be, PageOk(pg, gw, be), NEW r
    PROVE  PageOk([pg EXCEPT !.running = r], gw, be)
<1> DEFINE p == [pg EXCEPT !.running = r]
<1>1. /\ DOMAIN p = PageFields /\ p.live = pg.live /\ p.memory = pg.memory
      /\ p.after = pg.after /\ p.audit = pg.audit
  BY DEF PageOk, PageFields
<1> HIDE DEF p
<1> QED
  BY <1>1 DEF PageOk

\* It ends, its stage gives way to the next, or it asks for more.
LEMMA OverKeeps ==
    ASSUME ConsoleInv, NEW t \in Slots, NEW shown, PageOk(shown, gateway, backend),
           Over(t, shown), UNCHANGED <<gateway, backend>>
    PROVE  ConsoleInv'
<1>1. TasksOk'
  BY BecomesOk DEF Over, ConsoleInv
<1>2. PageOk(page', gateway, backend)
  BY RunningOk DEF Over
<1> QED
  BY <1>1, <1>2 DEF ConsoleInv, GatewayOk

LEMMA StageDoneKeeps ==
    ASSUME ConsoleInv, NEW t \in Slots, NEW shown, PageOk(shown, gateway, backend),
           StageDone(t, shown), UNCHANGED <<gateway, backend>>
    PROVE  ConsoleInv'
<1> DEFINE flow == tasks[t].flow
           done == [shown EXCEPT !.running = @ \ {flow}]
<1>1. PageOk(done, gateway, backend)
  BY RunningOk
<1>2. CASE page' = done /\ Becomes(t, NoTask)
  BY <1>1, <1>2, BecomesOk DEF ConsoleInv, GatewayOk
<1>3. CASE /\ flow \in DOMAIN After
           /\ page' = [done EXCEPT !.running = @ \union {After[flow]}]
           /\ Becomes(t, Task(After[flow], TRUE))
  <2>1. After[flow] \in Flows
    BY <1>3 DEF After, Flows, Stages
  <2>2. TaskOk(Task(After[flow], TRUE), gateway, backend)
    BY <2>1, TaskBegins
  <2>3. TasksOk'
    BY <1>3, <2>2, BecomesOk DEF ConsoleInv
  <2> HIDE DEF done
  <2>4. PageOk(page', gateway, backend)
    BY <1>1, <1>3, RunningOk
  <2> QED
    BY <2>3, <2>4 DEF ConsoleInv, GatewayOk
<1> QED
  BY <1>2, <1>3 DEF StageDone

LEMMA AsksKeeps ==
    ASSUME ConsoleInv, NEW t \in Slots, NEW d, NEW op, op # "getKey",
           Asks(t, d, op), DOMAIN d = TaskFields,
           d.ours => op = "status" /\ gateway.job.input = d.vector,
           backend = "http" => /\ ~d.proven
                               /\ op \in {"getProof", "search"} => GoodView(d.view, gateway),
           UNCHANGED <<gateway, backend, page>>
    PROVE  ConsoleInv'
<1> DEFINE n == [d EXCEPT !.op = op, !.answer = None]
<1>1. /\ DOMAIN n = TaskFields /\ n.op = op /\ n.answer = None /\ n.ours = d.ours
      /\ n.vector = d.vector /\ n.view = d.view /\ n.proven = d.proven
  BY DEF TaskFields
<1>2. Becomes(t, n)
  BY DEF Asks
<1> HIDE DEF n
<1>3. TaskOk(n, gateway, backend)
  BY <1>1 DEF TaskOk, AnswerOk
<1>4. TasksOk'
  BY <1>2, <1>3, BecomesOk DEF ConsoleInv
<1> QED
  BY <1>4 DEF ConsoleInv, GatewayOk

LEMMA PollsOnKeeps ==
    ASSUME ConsoleInv, NEW t \in Slots, tasks[t] # NoTask, NEW op \in {"status", "warm"},
           tasks[t].op = op, PollsOn(t, op), UNCHANGED <<gateway, backend>>
    PROVE  ConsoleInv'
<1> DEFINE k == tasks[t]
           d == [k EXCEPT !.polls = @ + 1]
<1>1. TaskOk(k, gateway, backend) /\ PageOk(page, gateway, backend)
  BY DEF ConsoleInv, TasksOk
<1>2. CASE Over(t, page)
  BY <1>1, <1>2, OverKeeps
<1>3. CASE Asks(t, d, op) /\ UNCHANGED page
  <2>1. DOMAIN d = TaskFields /\ d.ours = k.ours /\ d.vector = k.vector /\ d.proven = k.proven
    BY <1>1 DEF TaskOk, TaskFields
  <2>2. op # "getKey" /\ op \notin {"getProof", "search"}
    OBVIOUS
  <2>3. d.ours => op = "status" /\ gateway.job.input = d.vector
    BY <1>1, <2>1 DEF TaskOk
  <2>4. backend = "http" => ~d.proven
    BY <1>1, <2>1 DEF TaskOk
  <2> HIDE DEF d
  <2> QED
    BY <1>3, <2>1, <2>2, <2>3, <2>4, AsksKeeps
<1> QED
  BY <1>2, <1>3 DEF PollsOn

LEMMA GoesOnKeeps ==
    ASSUME ConsoleInv, NEW t \in Slots, GoesOn(t)
    PROVE  ConsoleInv'
<1> DEFINE k == tasks[t]
           v == Value(t)
<1>1. /\ k # NoTask /\ UNCHANGED <<gateway, backend>>
  BY DEF GoesOn, MemoryStored, Viewed, MemoryLoaded, WriterLoaded, Leaked, EnvelopeSeen,
         Endured, Audited, Erased, AfterSeen, ProofSeen, EraseShown, JobStarted, Polled,
         WarmPolled, VerdictComes, TitanComes, PastComes, Fails, Comes, SearchComes, backends
<1>2. TaskOk(k, gateway, backend) /\ PageOk(page, gateway, backend)
  BY <1>1 DEF ConsoleInv, TasksOk
<1>3. ASSUME NEW d, NEW op \in {"getMemory", "search", "getProof"}, Asks(t, d, op),
             k.op \notin {"start", "status", "forensics", "confirm"},
             DOMAIN d = TaskFields, d.ours = k.ours, d.proven = k.proven,
             backend = "http" /\ op # "getMemory" => GoodView(d.view, gateway), UNCHANGED page
      PROVE  ConsoleInv'
  <2>1. op # "getKey"
    OBVIOUS
  <2>2. ~d.ours /\ (backend = "http" => ~d.proven)
    BY <1>2, <1>3 DEF TaskOk
  <2> QED
    BY <1>1, <1>3, <2>1, <2>2, AsksKeeps
<1>4. ASSUME \E op \in {"getMemory", "getKey"} : Comes(t, op)
      PROVE  /\ k.op \in {"getMemory", "getKey"}
             /\ backend = "http" => GoodView(v, gateway)
  BY <1>2, <1>4 DEF Comes, TaskOk, AnswerOk, Value
<1>5. CASE MemoryStored(t)
  <2> DEFINE d == [k EXCEPT !.subject = v.subject, !.vector = v.vector]
  <2>1. Asks(t, d, "getMemory") /\ k.op \in {"ingest", "write", "written"} /\ page' = page
    BY <1>5 DEF MemoryStored, Comes
  <2>2. DOMAIN d = TaskFields /\ d.ours = k.ours /\ d.proven = k.proven
    BY <1>2 DEF TaskOk, TaskFields
  <2> HIDE DEF d
  <2> QED
    BY <1>3, <2>1, <2>2
<1>6. CASE Viewed(t)
  <2> DEFINE d == [k EXCEPT !.view = v]
  <2>1. Asks(t, d, "search") /\ page' = page
    BY <1>6 DEF Viewed
  <2>2. k.op \in {"getMemory", "getKey"} /\ (backend = "http" => GoodView(v, gateway))
    BY <1>4, <1>6 DEF Viewed
  <2>3. DOMAIN d = TaskFields /\ d.ours = k.ours /\ d.proven = k.proven /\ d.view = v
    BY <1>2 DEF TaskOk, TaskFields
  <2> HIDE DEF d
  <2> QED
    BY <1>3, <2>1, <2>2, <2>3
<1>7. ASSUME SearchComes(t), NEW pg, DOMAIN pg = PageFields, pg.live \in {page.live, None},
             pg.audit = page.audit, pg.memory \in {page.memory, k.view},
             pg.after \in {None, k.view}
      PROVE  PageOk(pg, gateway, backend)
  <2>1. backend = "http" => GoodView(k.view, gateway)
    BY <1>2, <1>7 DEF SearchComes, TaskOk
  <2> QED
    BY <1>2, <1>7, <2>1 DEF PageOk
<1>8. /\ DOMAIN Loaded(t) = PageFields /\ Loaded(t).live = page.live
      /\ Loaded(t).audit = page.audit /\ Loaded(t).memory = k.view /\ Loaded(t).after = None
  BY <1>2 DEF Loaded, PageOk, PageFields
<1>9. CASE MemoryLoaded(t)
  <2> DEFINE pg == [Loaded(t) EXCEPT !.written = None, !.running = @ \ {"writer"}]
  <2>1. StageDone(t, pg) /\ SearchComes(t)
    BY <1>9 DEF MemoryLoaded
  <2>2. /\ DOMAIN pg = PageFields /\ pg.live = page.live /\ pg.audit = page.audit
        /\ pg.memory = k.view /\ pg.after = None
    BY <1>8 DEF PageFields
  <2> HIDE DEF pg
  <2>3. PageOk(pg, gateway, backend)
    BY <1>7, <2>1, <2>2
  <2> QED
    BY <1>1, <2>1, <2>3, StageDoneKeeps
<1>10. CASE WriterLoaded(t)
  <2>1. /\ page' = [Loaded(t) EXCEPT !.written = k.vector, !.inversion = FALSE, !.live = None,
                                     !.running = @ \ {"writer", "live", "memory"}]
        /\ Becomes(t, NoTask) /\ SearchComes(t)
    BY <1>10 DEF WriterLoaded
  <2>2. /\ DOMAIN page' = PageFields /\ page'.live = None /\ page'.audit = page.audit
        /\ page'.memory = k.view /\ page'.after = None
    BY <1>8, <2>1 DEF PageFields
  <2>3. PageOk(page', gateway, backend)
    BY <1>7, <2>1, <2>2
  <2> QED
    BY <1>1, <2>1, <2>3, BecomesOk DEF ConsoleInv, GatewayOk
<1>11. CASE Leaked(t)
  <2> DEFINE pg == [page EXCEPT !.inversion = TRUE]
  <2>1. StageDone(t, pg)
    BY <1>11 DEF Leaked
  <2>2. /\ DOMAIN pg = PageFields /\ pg.live = page.live /\ pg.audit = page.audit
        /\ pg.memory = page.memory /\ pg.after = page.after
    BY <1>2 DEF PageOk, PageFields
  <2> HIDE DEF pg
  <2>3. PageOk(pg, gateway, backend)
    BY <1>2, <2>2 DEF PageOk
  <2> QED
    BY <1>1, <2>1, <2>3, StageDoneKeeps
<1>12. CASE EnvelopeSeen(t)
  <2> DEFINE pg == [page EXCEPT !.memory = v]
  <2>1. StageDone(t, pg) /\ (backend = "http" => GoodView(v, gateway))
    BY <1>4, <1>12 DEF EnvelopeSeen
  <2>2. /\ DOMAIN pg = PageFields /\ pg.live = page.live /\ pg.audit = page.audit
        /\ pg.memory = v /\ pg.after = page.after
    BY <1>2 DEF PageOk, PageFields
  <2> HIDE DEF pg
  <2>3. PageOk(pg, gateway, backend)
    BY <1>2, <2>1, <2>2 DEF PageOk
  <2> QED
    BY <1>1, <2>1, <2>3, StageDoneKeeps
<1>13. CASE Endured(t) \/ Audited(t)
  BY <1>1, <1>2, <1>13, StageDoneKeeps DEF Endured, Audited
<1>14. CASE Erased(t)
  <2> DEFINE d == [k EXCEPT !.erased = v]
  <2>1. Asks(t, d, "getMemory") /\ k.op \in {"erase", "signed"} /\ page' = page
    BY <1>14 DEF Erased, Comes
  <2>2. DOMAIN d = TaskFields /\ d.ours = k.ours /\ d.proven = k.proven
    BY <1>2 DEF TaskOk, TaskFields
  <2> HIDE DEF d
  <2> QED
    BY <1>3, <2>1, <2>2
<1>15. CASE AfterSeen(t)
  <2> DEFINE d == [k EXCEPT !.view = v]
  <2>1. Asks(t, d, "getProof") /\ page' = page
    BY <1>15 DEF AfterSeen
  <2>2. k.op \in {"getMemory", "getKey"} /\ (backend = "http" => GoodView(v, gateway))
    BY <1>4, <1>15 DEF AfterSeen
  <2>3. DOMAIN d = TaskFields /\ d.ours = k.ours /\ d.proven = k.proven /\ d.view = v
    BY <1>2 DEF TaskOk, TaskFields
  <2> HIDE DEF d
  <2> QED
    BY <1>3, <2>1, <2>2, <2>3
<1>16. CASE ProofSeen(t)
  <2> DEFINE d == [k EXCEPT !.proof = v, !.vector = ref.vector]
  <2>1. Asks(t, d, "search") /\ k.op = "getProof" /\ page' = page
    BY <1>16 DEF ProofSeen, Comes
  <2>2. DOMAIN d = TaskFields /\ d.ours = k.ours /\ d.proven = k.proven /\ d.view = k.view
    BY <1>2 DEF TaskOk, TaskFields
  <2>3. backend = "http" => GoodView(k.view, gateway)
    BY <1>2, <2>1 DEF TaskOk
  <2> HIDE DEF d
  <2> QED
    BY <1>3, <2>1, <2>2, <2>3
<1>17. CASE EraseShown(t)
  <2> DEFINE pg == [page EXCEPT !.erase = k.erased, !.after = k.view,
                                !.proof = k.proof, !.searchAfter = SearchResult(t)]
  <2>1. StageDone(t, pg) /\ SearchComes(t)
    BY <1>17 DEF EraseShown
  <2>2. /\ DOMAIN pg = PageFields /\ pg.live = page.live /\ pg.audit = page.audit
        /\ pg.memory = page.memory /\ pg.after = k.view
    BY <1>2 DEF PageOk, PageFields
  <2> HIDE DEF pg
  <2>3. PageOk(pg, gateway, backend)
    BY <1>7, <2>1, <2>2
  <2> QED
    BY <1>1, <2>1, <2>3, StageDoneKeeps
<1>18. CASE JobStarted(t)
  <2>1. Asks(t, k, "status") /\ k.op = "start" /\ page' = page
    BY <1>18 DEF JobStarted, Comes
  <2>2. /\ DOMAIN k = TaskFields /\ (k.ours => gateway.job.input = k.vector)
        /\ backend = "http" => ~k.proven
    BY <1>2, <2>1 DEF TaskOk
  <2> QED
    BY <1>1, <2>1, <2>2, AsksKeeps
<1>19. CASE Polled(t)
  <2>1. k.op = "status" /\ k.answer \notin {None, Failed}
    BY <1>19 DEF Polled, Comes
  <2>2. CASE v.state = "done" /\ Over(t, [page EXCEPT !.live = [inverts |-> v.input,
                                                               asked |-> k.vector]])
    <3> DEFINE pg == [page EXCEPT !.live = [inverts |-> v.input, asked |-> k.vector]]
    <3>1. v.input = k.vector
      BY <1>2, <2>1, <2>2 DEF TaskOk, AnswerOk, Value
    <3>2. /\ DOMAIN pg = PageFields /\ pg.live.inverts = pg.live.asked
          /\ pg.audit = page.audit /\ pg.memory = page.memory /\ pg.after = page.after
      BY <1>2, <3>1 DEF PageOk, PageFields
    <3> HIDE DEF pg
    <3>3. PageOk(pg, gateway, backend)
      BY <1>2, <3>2 DEF PageOk
    <3>4. Over(t, pg)
      BY <2>2 DEF pg
    <3> QED
      BY <1>1, <3>3, <3>4, OverKeeps
  <2>3. CASE Over(t, page)
    BY <1>1, <1>2, <2>3, OverKeeps
  <2>4. CASE PollsOn(t, "status")
    BY <1>1, <2>1, <2>4, PollsOnKeeps
  <2> QED
    BY <1>19, <2>2, <2>3, <2>4 DEF Polled
<1>20. CASE WarmPolled(t)
  <2>1. k.op = "warm"
    BY <1>20 DEF WarmPolled, Comes
  <2>2. CASE Asks(t, [k EXCEPT !.polls = 0], "forensics") /\ UNCHANGED page
    <3> DEFINE d == [k EXCEPT !.polls = 0]
    <3>1. DOMAIN d = TaskFields /\ d.ours = k.ours /\ d.proven = k.proven
      BY <1>2 DEF TaskOk, TaskFields
    <3>2. ~d.ours /\ (backend = "http" => ~d.proven)
      BY <1>2, <2>1, <3>1 DEF TaskOk
    <3>3. Asks(t, d, "forensics")
      BY <2>2
    <3> HIDE DEF d
    <3> QED
      BY <1>1, <2>2, <3>1, <3>2, <3>3, AsksKeeps
  <2>3. CASE PollsOn(t, "warm")
    BY <1>1, <2>1, <2>3, PollsOnKeeps
  <2> QED
    BY <1>20, <2>2, <2>3 DEF WarmPolled
<1>21. CASE VerdictComes(t)
  <2> DEFINE pg == [page EXCEPT !.audit = v]
  <2>1. Over(t, pg) /\ k.op = "forensics" /\ k.answer \notin {None, Failed}
    BY <1>21 DEF VerdictComes, Comes
  <2>2. backend = "http" => GoodAudit(v, gateway)
    BY <1>2, <2>1 DEF TaskOk, AnswerOk, Value
  <2>3. /\ DOMAIN pg = PageFields /\ pg.live = page.live /\ pg.audit = v
        /\ pg.memory = page.memory /\ pg.after = page.after
    BY <1>2 DEF PageOk, PageFields
  <2> HIDE DEF pg
  <2>4. PageOk(pg, gateway, backend)
    BY <1>2, <2>2, <2>3 DEF PageOk
  <2> QED
    BY <1>1, <2>1, <2>4, OverKeeps
<1>22. CASE TitanComes(t) \/ PastComes(t) \/ Fails(t)
  BY <1>1, <1>2, <1>22, OverKeeps DEF TitanComes, PastComes, Fails
<1> QED
  BY <1>5, <1>6, <1>9, <1>10, <1>11, <1>12, <1>13, <1>14, <1>15, <1>16, <1>17, <1>18,
     <1>19, <1>20, <1>21, <1>22 DEF GoesOn

----------------------------------------------------------------------------
\* The reader.

LEMMA BeginsKeeps ==
    ASSUME ConsoleInv, NEW flow \in Flows, NEW auto, Begins(flow, auto)
    PROVE  ConsoleInv'
<1>1. /\ page' = [page EXCEPT !.running = @ \union {flow}]
      /\ Becomes(Min(Free), Task(flow, auto))
      /\ UNCHANGED <<gateway, backend>>
  BY DEF Begins, backends
<1>2. TaskOk(Task(flow, auto), gateway, backend)
  BY TaskBegins
<1>3. TasksOk'
  BY <1>1, <1>2, BecomesOk DEF ConsoleInv
<1>4. PageOk(page', gateway, backend)
  BY <1>1, RunningOk DEF ConsoleInv
<1> QED
  BY <1>1, <1>3, <1>4 DEF ConsoleInv, GatewayOk

LEMMA ReaderKeeps == ConsoleInv /\ Reader => ConsoleInv'
<1> SUFFICES ASSUME ConsoleInv, Reader PROVE ConsoleInv'
  OBVIOUS
<1>1. CASE Reset
  <2>1. /\ page' = InitialPage /\ UNCHANGED backends
        /\ tasks' = [t \in Slots |-> IF t \in Running(tasks, OfSubject)
                                     THEN [tasks[t] EXCEPT !.crossed = TRUE] ELSE tasks[t]]
    BY <1>1 DEF Reset
  <2>2. \A t \in Running(tasks, OfSubject) : tasks[t] # NoTask
    BY DEF Running
  <2>3. TasksOk'
    BY <2>1, <2>2, MarkOk DEF ConsoleInv, TasksOk, backends
  <2>4. PageOk(page', gateway, backend)
    BY <2>1 DEF InitialPage, PageOk, PageFields
  <2> QED
    BY <2>1, <2>3, <2>4 DEF ConsoleInv, GatewayOk, backends
<1>2. ASSUME NEW flow \in Flows, NEW auto, Begins(flow, auto)
      PROVE  ConsoleInv'
  BY <1>2, BeginsKeeps
<1>3. CASE (\E s \in Stages : RunStage(s, FALSE)) \/ RunAll
  BY <1>2, <1>3 DEF RunStage, RunAll, Flows, Stages
<1>4. CASE RunMemoryWriter \/ RunLiveLeak \/ RunTitan \/ RunTimeTravel \/ RunForensics
  BY <1>2, <1>4 DEF RunMemoryWriter, RunLiveLeak, RunTitan, RunTimeTravel, RunForensics, Flows
<1> QED
  BY <1>1, <1>3, <1>4 DEF Reader

----------------------------------------------------------------------------

LEMMA ConsoleInit == Init => ConsoleInv
<1> SUFFICES ASSUME Init PROVE ConsoleInv
  OBVIOUS
<1>1. TasksOk
  BY DEF Init, BackendsInit, TasksOk
<1>2. GatewayOk
  <2>1. /\ gateway = [memories |-> <<>>, erased |-> {}, anchored |-> {}, job |-> NoJob]
        /\ <<>> \in Seq(Nat)
    BY DEF Init, BackendsInit
  <2>2. DOMAIN NoJob = {"state", "input"}
    BY DEF NoJob, Job
  <2> QED
    BY <2>1, <2>2 DEF GatewayOk
<1>3. PageOk(page, gateway, backend)
  BY DEF Init, InitialPage, PageOk, PageFields
<1> QED
  BY <1>1, <1>2, <1>3 DEF ConsoleInv

LEMMA ConsoleStep == ConsoleInv /\ [Next]_vars => ConsoleInv'
<1> SUFFICES ASSUME ConsoleInv, [Next]_vars PROVE ConsoleInv'
  OBVIOUS
<1>1. CASE Reader
  BY <1>1, ReaderKeeps
<1>2. ASSUME NEW t \in Slots, Moves(t)
      PROVE  ConsoleInv'
  BY <1>2, ServeKeeps, GoesOnKeeps DEF Moves
<1>3. CASE Background /\ UNCHANGED <<page, ref, torn>>
  BY <1>3, BackgroundKeeps
<1>4. CASE UNCHANGED vars
  BY <1>4 DEF vars, backends, ConsoleInv, TasksOk, GatewayOk
<1> QED
  BY <1>1, <1>2, <1>3, <1>4 DEF Next

LEMMA ConsoleHolds == Spec => []ConsoleInv
  BY ConsoleInit, ConsoleStep, PTL DEF Spec

\* A live result (useDemo.ts, runLiveLeak) inverts the embedding it was asked
\* for, however many visitors share the gateway's one job slot.
THEOREM LiveCorrect == Spec => []LiveResultIsOurs
<1>1. ConsoleInv => LiveResultIsOurs
  BY DEF ConsoleInv, PageOk, LiveResultIsOurs
<1> QED
  BY <1>1, ConsoleHolds, PTL

\* The key's light and the agent's evidence say "gone" only of a subject that
\* was erased, whatever was read, or failed to be, between the two statements
\* of GetMemory (demo.go) and of ConfirmKeyDestroyed (forensics_tools.go).
THEOREM GoneCorrect == Spec => []GoneMeansErased
<1>1. ConsoleInv => GoneMeansErased
  <2> SUFFICES ASSUME ConsoleInv, backend = "http"
               PROVE  /\ KeyLight = "OFF" => LatestMemory.subject \in gateway.erased
                      /\ ProvenByEvidence => page.audit.subject \in gateway.erased
    BY DEF GoneMeansErased
  <2>1. LatestMemory # None => GoodView(LatestMemory, gateway)
    BY DEF ConsoleInv, PageOk, LatestMemory
  <2>2. KeyLight = "OFF" => LatestMemory # None /\ ~LatestMemory.key
    BY DEF KeyLight
  <2>3. KeyLight = "OFF" => LatestMemory.subject \in gateway.erased
    BY <2>1, <2>2 DEF GoodView
  <2>4. ProvenByEvidence => page.audit.subject \in gateway.erased
    BY DEF ConsoleInv, PageOk, GoodAudit, ProvenByEvidence
  <2> QED
    BY <2>3, <2>4
<1> QED
  BY <1>1, ConsoleHolds, PTL

----------------------------------------------------------------------------
\* What becomes of the flows.

\* What a flow keeps while its call is served, and what it keeps meanwhile.
Kept(n, k) == /\ DOMAIN n = TaskFields
              /\ n.flow = k.flow /\ n.auto = k.auto /\ n.subject = k.subject
              /\ n.vector = k.vector /\ n.proof = k.proof /\ n.crossed = k.crossed
Waits(n, k) == /\ n.op = k.op /\ n.answer = k.answer
               /\ n.view = k.view /\ n.erased = k.erased

AllKept == \A u \in Slots : IF tasks[u] = NoTask THEN tasks'[u] = NoTask
                                                 ELSE Kept(tasks'[u], tasks[u])
OthersWait(t) == \A u \in Slots \ {t} : tasks[u] # NoTask => Waits(tasks'[u], tasks[u])

LEMMA IsTask == \A k : DOMAIN k = TaskFields => k # NoTask
<1>1. DOMAIN NoTask = {"flow"}
  BY DEF NoTask
<1>2. "op" \in TaskFields /\ "op" \notin {"flow"}
  BY DEF TaskFields
<1> QED
  BY <1>1, <1>2

\* One flow has moved.
LEMMA OneKept ==
    ASSUME ConsoleInv, NEW t \in Slots, tasks[t] # NoTask, NEW n, Kept(n, tasks[t]),
           tasks' = [tasks EXCEPT ![t] = n]
    PROVE  AllKept /\ OthersWait(t)
<1>1. ASSUME NEW u \in Slots, tasks[u] # NoTask
      PROVE  Kept(tasks[u], tasks[u]) /\ Waits(tasks[u], tasks[u])
  BY <1>1 DEF ConsoleInv, TasksOk, TaskOk, Kept, Waits
<1>2. DOMAIN tasks = Slots
  BY DEF ConsoleInv, TasksOk
<1>3. \A u \in Slots : tasks'[u] = IF u = t THEN n ELSE tasks[u]
  BY <1>2
<1> QED
  BY <1>1, <1>3 DEF AllKept, OthersWait

LEMMA AnswerKept ==
    ASSUME ConsoleInv, NEW t \in Slots, tasks[t] # NoTask, NEW a, Answered(t, a)
    PROVE  AllKept /\ OthersWait(t)
<1> DEFINE n == [tasks[t] EXCEPT !.answer = a]
<1>1. tasks' = [tasks EXCEPT ![t] = n]
  BY DEF Answered
<1>2. DOMAIN tasks[t] = TaskFields
  BY DEF ConsoleInv, TasksOk, TaskOk
<1>3. Kept(n, tasks[t])
  BY <1>2 DEF Kept, TaskFields
<1> HIDE DEF n
<1> QED
  BY <1>1, <1>3, OneKept

\* The job's slot has changed hands.
LEMMA DisplacedKept ==
    ASSUME ConsoleInv, NEW t \in Slots
    PROVE  IF tasks[t] = NoTask THEN Displaced[t] = NoTask
           ELSE Kept(Displaced[t], tasks[t]) /\ Waits(Displaced[t], tasks[t])
<1>1. CASE tasks[t] = NoTask
  BY <1>1 DEF Displaced
<1>2. CASE tasks[t] # NoTask
  <2> DEFINE n == [tasks[t] EXCEPT !.ours = FALSE]
  <2>1. Displaced[t] = n
    BY <1>2 DEF Displaced
  <2>2. DOMAIN tasks[t] = TaskFields
    BY <1>2 DEF ConsoleInv, TasksOk, TaskOk
  <2>3. Kept(n, tasks[t]) /\ Waits(n, tasks[t])
    BY <2>2 DEF Kept, Waits, TaskFields
  <2> QED
    BY <1>2, <2>1, <2>3
<1> QED
  BY <1>1, <1>2

LEMMA ServeKept ==
    ASSUME ConsoleInv, NEW t \in Slots, Serve(t)
    PROVE  tasks[t] # NoTask /\ AllKept /\ OthersWait(t)
<1> DEFINE k == tasks[t]
<1>1. k # NoTask
  BY DEF Serve, Drop, Gateway, Ingest, WriteMemory, Memory, MemoryKey, Search, Erase, GetProof,
         Read, StartInversion, InversionStatus, Warm, ConfirmKey, ConfirmRecord, Verdict,
         Mock, MockIngest, MockWrite, MockWriteEnds, MockGetMemory, MockSearch, MockErase,
         MockEraseEnds, MockGetProof, MockRead, MockAgent, Calls
<1>2. DOMAIN k = TaskFields /\ DOMAIN tasks = Slots
  BY <1>1 DEF ConsoleInv, TasksOk, TaskOk
<1>3. ASSUME NEW a, Answered(t, a)
      PROVE  AllKept /\ OthersWait(t)
  BY <1>1, <1>3, AnswerKept
<1> SUFFICES AllKept /\ OthersWait(t)
  BY <1>1
<1>4. Refuse(t) \/ (\E v : Reply(t, v)) => AllKept /\ OthersWait(t)
  BY <1>3 DEF Reply, Refuse
<1>5. CASE Drop(t)
  BY <1>3, <1>5 DEF Drop
<1>6. CASE \/ Ingest(t) \/ WriteMemory(t) \/ MemoryKey(t) \/ Search(t) \/ Erase(t) \/ GetProof(t)
           \/ Read(t) \/ InversionStatus(t) \/ Warm(t) \/ Verdict(t)
  <2>1. Refuse(t) \/ \E v : Reply(t, v)
    BY <1>6 DEF Ingest, WriteMemory, Stores, MemoryKey, Search, Erase, GetProof, Read,
                InversionStatus, Warm, Verdict
  <2> QED
    BY <1>4, <2>1
<1>7. CASE Memory(t)
  <2>1. CASE Refuse(t)
    BY <1>4, <2>1
  <2>2. CASE ~Refuse(t)
    <3> DEFINE w == [subject |-> k.subject, embedding |-> Live(k.subject), key |-> FALSE]
               n == [k EXCEPT !.op = "getKey", !.view = w]
    <3>1. tasks' = [tasks EXCEPT ![t].op = "getKey", ![t].view = w]
      BY <1>7, <2>2 DEF Memory
    <3> HIDE DEF w
    <3>2. tasks' = [tasks EXCEPT ![t] = n]
      BY <1>2, <3>1
    <3>3. Kept(n, k)
      BY <1>2 DEF Kept, TaskFields
    <3> HIDE DEF n
    <3> QED
      BY <1>1, <3>2, <3>3, OneKept
  <2> QED
    BY <2>1, <2>2
<1>8. CASE StartInversion(t)
  <2>1. CASE Refuse(t)
    BY <1>4, <2>1
  <2>2. CASE tasks' = [tasks EXCEPT ![t].ours = TRUE, ![t].answer = Ok(None)]
    <3> DEFINE n == [k EXCEPT !.ours = TRUE, !.answer = Ok(None)]
    <3>1. tasks' = [tasks EXCEPT ![t] = n]
      BY <1>2, <2>2
    <3>2. Kept(n, k)
      BY <1>2 DEF Kept, TaskFields
    <3> HIDE DEF n
    <3> QED
      BY <1>1, <3>1, <3>2, OneKept
  <2>3. ASSUME NEW a, tasks' = [Displaced EXCEPT ![t].ours = TRUE, ![t].answer = a]
        PROVE  AllKept /\ OthersWait(t)
    <3> DEFINE d == Displaced[t]
               n == [d EXCEPT !.ours = TRUE, !.answer = a]
    <3>1. DOMAIN Displaced = Slots
      BY DEF Displaced
    <3>2. tasks' = [Displaced EXCEPT ![t] = n]
      BY <2>3, <3>1
    <3>3. Kept(d, k)
      BY <1>1, DisplacedKept
    <3> HIDE DEF d
    <3>4. Kept(n, k)
      BY <3>3 DEF Kept, TaskFields
    <3> HIDE DEF n
    <3>5. tasks'[t] = n /\ \A u \in Slots \ {t} : tasks'[u] = Displaced[u]
      BY <3>1, <3>2
    <3>6. \A u \in Slots \ {t} :
             IF tasks[u] = NoTask THEN tasks'[u] = NoTask
             ELSE Kept(tasks'[u], tasks[u]) /\ Waits(tasks'[u], tasks[u])
      BY <3>5, DisplacedKept
    <3> QED
      BY <1>1, <3>4, <3>5, <3>6 DEF AllKept, OthersWait
  <2> QED
    BY <1>8, <2>1, <2>2, <2>3 DEF StartInversion
<1>9. CASE ConfirmKey(t)
  <2> DEFINE w == [key |-> Live(k.subject)]
             n == [k EXCEPT !.op = "confirm", !.polls = @ + 1, !.view = w]
  <2>1. tasks' = [tasks EXCEPT ![t] = n]
    BY <1>2, <1>9 DEF ConfirmKey
  <2> HIDE DEF w
  <2>2. Kept(n, k)
    BY <1>2 DEF Kept, TaskFields
  <2> HIDE DEF n
  <2> QED
    BY <1>1, <2>1, <2>2, OneKept
<1>10. CASE ConfirmRecord(t)
  <2>1. PICK proven : tasks' = [tasks EXCEPT ![t].op = "forensics", ![t].proven = proven]
    BY <1>10 DEF ConfirmRecord
  <2> DEFINE n == [k EXCEPT !.op = "forensics", !.proven = proven]
  <2>2. tasks' = [tasks EXCEPT ![t] = n]
    BY <1>2, <2>1
  <2>3. Kept(n, k)
    BY <1>2 DEF Kept, TaskFields
  <2> HIDE DEF n
  <2> QED
    BY <1>1, <2>2, <2>3, OneKept
<1>11. CASE MockWrite(t)
  <2> DEFINE n == [k EXCEPT !.op = "written"]
  <2>1. tasks' = [tasks EXCEPT ![t] = n]
    BY <1>2, <1>11 DEF MockWrite, Continues
  <2>2. Kept(n, k)
    BY <1>2 DEF Kept, TaskFields
  <2> HIDE DEF n
  <2> QED
    BY <1>1, <2>1, <2>2, OneKept
<1>12. CASE MockErase(t)
  <2>1. CASE MockRefuses(t)
    BY <1>4, <2>1 DEF MockRefuses
  <2>2. CASE tasks' = [tasks EXCEPT ![t].op = "signed",
                                     ![t].erased = EraseResult(mock.subject, FALSE)]
    <3> DEFINE n == [k EXCEPT !.op = "signed", !.erased = EraseResult(mock.subject, FALSE)]
    <3>1. tasks' = [tasks EXCEPT ![t] = n]
      BY <1>2, <2>2
    <3>2. Kept(n, k)
      BY <1>2 DEF Kept, TaskFields
    <3> HIDE DEF n
    <3> QED
      BY <1>1, <3>1, <3>2, OneKept
  <2> QED
    BY <1>12, <2>1, <2>2 DEF MockErase
<1>13. CASE \/ MockIngest(t) \/ MockWriteEnds(t) \/ MockGetMemory(t) \/ MockSearch(t)
            \/ MockEraseEnds(t) \/ MockGetProof(t) \/ MockRead(t) \/ MockAgent(t)
  <2>1. \E a : Answered(t, a)
    BY <1>13 DEF MockIngest, MockWriteEnds, MockGetMemory, MockSearch, MockEraseEnds,
                 MockGetProof, MockRead, MockAgent, MockAnswers, MockRefuses, Refuse
  <2> QED
    BY <1>3, <2>1
<1> QED
  BY <1>1, <1>5, <1>6, <1>7, <1>8, <1>9, <1>10, <1>11, <1>12, <1>13 DEF Serve, Gateway, Mock

LEMMA BackgroundKept ==
    ASSUME ConsoleInv, Background
    PROVE  AllKept /\ \A t \in Slots : tasks[t] # NoTask => Waits(tasks'[t], tasks[t])
<1>1. tasks' = tasks \/ tasks' = Displaced
  BY DEF Background, Reconciled, InversionEnds, VisitorStarts, Restart
<1>2. CASE tasks' = tasks
  BY <1>2 DEF ConsoleInv, TasksOk, TaskOk, AllKept, Kept, Waits
<1>3. CASE tasks' = Displaced
  BY <1>3, DisplacedKept DEF AllKept
<1> QED
  BY <1>1, <1>2, <1>3

\* A flow begins, goes on or ends, and so may have been marked as crossed.
Follows(n, k) == /\ DOMAIN n = TaskFields
                 /\ n.flow = k.flow /\ n.auto = k.auto /\ n.subject = k.subject
                 /\ n.vector = k.vector /\ n.proof = k.proof /\ Waits(n, k)
                 /\ k.crossed => n.crossed

LEMMA MarkFollows ==
    ASSUME NEW k, DOMAIN k = TaskFields
    PROVE  Follows(k, k) /\ Follows([k EXCEPT !.crossed = TRUE], k)
BY DEF Follows, Waits, TaskFields

LEMMA BecomesFollows ==
    ASSUME ConsoleInv, NEW t, NEW k, Becomes(t, k), k # NoTask => DOMAIN k = TaskFields,
           NEW u \in Slots, NEW old, old = IF u = t THEN k ELSE tasks[u]
    PROVE  IF old = NoTask THEN tasks'[u] = NoTask ELSE Follows(tasks'[u], old)
<1> DEFINE ts == [tasks EXCEPT ![t] = k]
           marked == [old EXCEPT !.crossed = TRUE]
<1>1. ts[u] = old /\ (old # NoTask => DOMAIN old = TaskFields)
  BY DEF ConsoleInv, TasksOk, TaskOk
<1>2. tasks' = Mark(ts)
  BY DEF Becomes
<1> HIDE DEF ts
<1>3. \/ tasks' = ts
      \/ tasks' = [w \in Slots |-> IF w \in Running(ts, OfSubject)
                                   THEN [ts[w] EXCEPT !.crossed = TRUE] ELSE ts[w]]
  BY <1>2 DEF Mark
<1>4. tasks'[u] = old \/ (tasks'[u] = marked /\ old # NoTask)
  BY <1>1, <1>3 DEF Running
<1>5. old # NoTask => Follows(old, old) /\ Follows(marked, old)
  BY <1>1, MarkFollows
<1> HIDE DEF marked
<1> QED
  BY <1>4, <1>5

\* What going on with an answer makes of flow t: k is the task it becomes.
NowStored(t, k) ==      \* its memory is stored, and the refs move
    /\ tasks[t].op \in {"ingest", "write", "written"} /\ tasks[t].answer \notin {None, Failed}
    /\ ref' = Value(t) /\ k.op = "getMemory"
    /\ k.subject = Value(t).subject /\ k.vector = Value(t).vector
Asked(t, k) ==        \* it calls again
    /\ DOMAIN k = TaskFields /\ k.flow = tasks[t].flow /\ k.auto = tasks[t].auto
    /\ page' = page
    /\ \/ NowStored(t, k)
       \/ /\ {tasks[t].op, k.op} \intersect {"ingest", "write", "written"} = {}
          /\ ref' = ref /\ k.subject = tasks[t].subject
          /\ k.vector \in {tasks[t].vector, ref.vector}
NowOver(t, k) ==        \* it ends, and its stage may give way to the next
    /\ \/ k = NoTask
       \/ /\ tasks[t].flow \in DOMAIN After /\ k = Task(After[tasks[t].flow], TRUE)
          /\ MaySucceed(After[tasks[t].flow])
    /\ ref' = ref
    /\ \A f \in page'.running :
          f \in page.running \ {tasks[t].flow} \/ (k # NoTask /\ f = k.flow)
    /\ \/ page'.subject = page.subject /\ page'.vector = page.vector
       \/ /\ tasks[t].flow \in Loaders /\ tasks[t].op = "search"
          /\ page'.subject = tasks[t].subject /\ page'.vector = tasks[t].vector
Proceeds(t, k) == /\ tasks[t] # NoTask /\ Becomes(t, k) /\ UNCHANGED backends
                  /\ Asked(t, k) \/ NowOver(t, k)

LEMMA TaskIs ==
    ASSUME NEW flow, NEW auto
    PROVE  DOMAIN Task(flow, auto) = TaskFields /\ Task(flow, auto).flow = flow
BY DEF Task, TaskFields

LEMMA AsksProceeds ==
    ASSUME ConsoleInv, NEW t \in Slots, tasks[t] # NoTask, NEW d, NEW op, Asks(t, d, op),
           DOMAIN d = TaskFields, d.flow = tasks[t].flow, d.auto = tasks[t].auto,
           UNCHANGED <<backends, page>>,
           \/ /\ tasks[t].op \in {"ingest", "write", "written"}
              /\ tasks[t].answer \notin {None, Failed} /\ ref' = Value(t) /\ op = "getMemory"
              /\ d.subject = Value(t).subject /\ d.vector = Value(t).vector
           \/ /\ {tasks[t].op, op} \intersect {"ingest", "write", "written"} = {}
              /\ ref' = ref /\ d.subject = tasks[t].subject
              /\ d.vector \in {tasks[t].vector, ref.vector}
    PROVE  \E k : Proceeds(t, k)
<1> DEFINE n == [d EXCEPT !.op = op, !.answer = None]
<1>1. /\ DOMAIN n = TaskFields /\ n.flow = d.flow /\ n.auto = d.auto /\ n.op = op
      /\ n.subject = d.subject /\ n.vector = d.vector
  BY DEF TaskFields
<1>2. Becomes(t, n)
  BY DEF Asks
<1> HIDE DEF n
<1>3. Asked(t, n)
  BY <1>1 DEF Asked, NowStored
<1> QED
  BY <1>2, <1>3 DEF Proceeds

\* The page shown in the end, apart from what runs.
LEMMA OverProceeds ==
    ASSUME ConsoleInv, NEW t \in Slots, tasks[t] # NoTask, NEW shown,
           DOMAIN shown = PageFields, shown.running \subseteq page.running,
           Over(t, shown) \/ StageDone(t, shown), UNCHANGED <<backends, ref>>,
           \/ shown.subject = page.subject /\ shown.vector = page.vector
           \/ /\ tasks[t].flow \in Loaders /\ tasks[t].op = "search"
              /\ shown.subject = tasks[t].subject /\ shown.vector = tasks[t].vector
    PROVE  \E k : Proceeds(t, k)
<1> DEFINE flow == tasks[t].flow
           done == [shown EXCEPT !.running = @ \ {flow}]
<1>1. /\ DOMAIN done = PageFields /\ done.running = shown.running \ {flow}
      /\ done.subject = shown.subject /\ done.vector = shown.vector
  BY DEF PageFields
<1>2. CASE page' = done /\ Becomes(t, NoTask)
  <2>1. NowOver(t, NoTask)
    <3> HIDE DEF done
    <3> QED
      BY <1>1, <1>2 DEF NowOver
  <2> QED
    BY <1>2, <2>1 DEF Proceeds
<1>3. CASE /\ flow \in DOMAIN After /\ MaySucceed(After[flow])
           /\ page' = [done EXCEPT !.running = @ \union {After[flow]}]
           /\ Becomes(t, Task(After[flow], TRUE))
  <2> DEFINE k == Task(After[flow], TRUE)
  <2>1. k # NoTask /\ k.flow = After[flow]
    BY TaskIs, IsTask
  <2> HIDE DEF done
  <2>2. /\ page'.running = done.running \union {After[flow]}
        /\ page'.subject = done.subject /\ page'.vector = done.vector
    BY <1>1, <1>3 DEF PageFields
  <2>3. NowOver(t, k) /\ Becomes(t, k)
    <3>1. k = Task(After[flow], TRUE)
      OBVIOUS
    <3> HIDE DEF k
    <3> QED
      BY <1>1, <1>3, <2>1, <2>2, <3>1 DEF NowOver
  <2> HIDE DEF k
  <2> QED
    BY <2>3 DEF Proceeds
<1> QED
  BY <1>2, <1>3 DEF Over, StageDone

LEMMA PollsOnProceeds ==
    ASSUME ConsoleInv, NEW t \in Slots, tasks[t] # NoTask, NEW op \in {"status", "warm"},
           tasks[t].op = op, PollsOn(t, op), UNCHANGED <<backends, ref>>
    PROVE  \E k : Proceeds(t, k)
<1> DEFINE d == [tasks[t] EXCEPT !.polls = @ + 1]
<1>1. CASE Over(t, page)
  BY <1>1, OverProceeds DEF ConsoleInv, PageOk
<1>2. CASE Asks(t, d, op) /\ UNCHANGED page
  <2>1. DOMAIN tasks[t] = TaskFields
    BY DEF ConsoleInv, TasksOk, TaskOk
  <2>2. /\ DOMAIN d = TaskFields /\ d.flow = tasks[t].flow /\ d.auto = tasks[t].auto
        /\ d.subject = tasks[t].subject /\ d.vector = tasks[t].vector
    BY <2>1 DEF TaskFields
  <2>3. {tasks[t].op, op} \intersect {"ingest", "write", "written"} = {}
    OBVIOUS
  <2> HIDE DEF d
  <2> QED
    BY <1>2, <2>2, <2>3, AsksProceeds
<1> QED
  BY <1>1, <1>2 DEF PollsOn

LEMMA GoesOnProceeds ==
    ASSUME ConsoleInv, NEW t \in Slots, GoesOn(t)
    PROVE  \E k : Proceeds(t, k)
<1> DEFINE k == tasks[t]
           v == Value(t)
           Goes == \E n : Proceeds(t, n)
<1>1. k # NoTask /\ UNCHANGED backends
  BY DEF GoesOn, MemoryStored, Viewed, MemoryLoaded, WriterLoaded, Leaked, EnvelopeSeen,
         Endured, Audited, Erased, AfterSeen, ProofSeen, EraseShown, JobStarted, Polled,
         WarmPolled, VerdictComes, TitanComes, PastComes, Fails, Comes, SearchComes
<1>2. DOMAIN k = TaskFields /\ DOMAIN page = PageFields
  BY <1>1 DEF ConsoleInv, TasksOk, TaskOk, PageOk
<1> SUFFICES Goes
  OBVIOUS
<1> HIDE DEF Goes
<1>3. ASSUME NEW d, NEW op, Asks(t, d, op), UNCHANGED <<page, ref>>,
             op \in {"getMemory", "getProof", "search", "status", "forensics"},
             k.op \notin {"ingest", "write", "written"},
             DOMAIN d = TaskFields, d.flow = k.flow, d.auto = k.auto, d.subject = k.subject,
             d.vector \in {k.vector, ref.vector}
      PROVE  Goes
  BY <1>1, <1>3, AsksProceeds DEF Goes
<1>4. ASSUME NEW pg, Over(t, pg) \/ StageDone(t, pg), DOMAIN pg = PageFields, ref' = ref,
             pg.running \subseteq page.running,
             pg.subject = page.subject, pg.vector = page.vector
      PROVE  Goes
  BY <1>1, <1>4, OverProceeds DEF Goes
<1>5. /\ DOMAIN Loaded(t) = PageFields /\ Loaded(t).subject = k.subject
      /\ Loaded(t).vector = k.vector /\ Loaded(t).running = page.running
  BY <1>2 DEF Loaded, PageFields
<1>6. CASE MemoryStored(t)
  <2> DEFINE d == [k EXCEPT !.subject = v.subject, !.vector = v.vector]
  <2>1. /\ Asks(t, d, "getMemory") /\ page' = page /\ ref' = v
        /\ k.op \in {"ingest", "write", "written"} /\ k.answer \notin {None, Failed}
    BY <1>6 DEF MemoryStored, Comes
  <2>2. /\ DOMAIN d = TaskFields /\ d.flow = k.flow /\ d.auto = k.auto
        /\ d.subject = v.subject /\ d.vector = v.vector
    BY <1>2 DEF TaskFields
  <2> HIDE DEF d
  <2> QED
    BY <1>1, <2>1, <2>2, AsksProceeds DEF Goes
<1>7. CASE Viewed(t) \/ AfterSeen(t)
  <2> DEFINE d == [k EXCEPT !.view = v]
  <2>1. /\ Asks(t, d, "search") \/ Asks(t, d, "getProof")
        /\ k.op \in {"getMemory", "getKey"} /\ UNCHANGED <<page, ref>>
    BY <1>7 DEF Viewed, AfterSeen, Comes
  <2>2. /\ DOMAIN d = TaskFields /\ d.flow = k.flow /\ d.auto = k.auto
        /\ d.subject = k.subject /\ d.vector = k.vector
    BY <1>2 DEF TaskFields
  <2> HIDE DEF d
  <2> QED
    BY <1>3, <2>1, <2>2
<1>8. CASE MemoryLoaded(t)
  <2> DEFINE pg == [Loaded(t) EXCEPT !.written = None, !.running = @ \ {"writer"}]
  <2>1. StageDone(t, pg) /\ k.flow \in Loaders /\ k.op = "search" /\ ref' = ref
    BY <1>8 DEF MemoryLoaded, SearchComes, Loaders
  <2>2. /\ DOMAIN pg = PageFields /\ pg.subject = k.subject /\ pg.vector = k.vector
        /\ pg.running \subseteq page.running
    BY <1>5 DEF PageFields
  <2> HIDE DEF pg
  <2> QED
    BY <1>1, <2>1, <2>2, OverProceeds DEF Goes
<1>9. CASE WriterLoaded(t)
  <2>1. /\ page' = [Loaded(t) EXCEPT !.written = k.vector, !.inversion = FALSE, !.live = None,
                                     !.running = @ \ {"writer", "live", "memory"}]
        /\ Becomes(t, NoTask) /\ k.flow = "writer" /\ k.op = "search" /\ ref' = ref
    BY <1>9 DEF WriterLoaded, SearchComes
  <2>2. /\ page'.subject = k.subject /\ page'.vector = k.vector
        /\ page'.running = page.running \ {"writer", "live", "memory"}
    BY <1>5, <2>1 DEF PageFields
  <2>3. NowOver(t, NoTask)
    BY <2>1, <2>2 DEF NowOver, Loaders
  <2> QED
    BY <1>1, <2>1, <2>3 DEF Proceeds, Goes
<1>10. CASE Leaked(t)
  <2> DEFINE pg == [page EXCEPT !.inversion = TRUE]
  <2>1. StageDone(t, pg) /\ ref' = ref
    BY <1>10 DEF Leaked
  <2>2. /\ DOMAIN pg = PageFields /\ pg.subject = page.subject /\ pg.vector = page.vector
        /\ pg.running = page.running
    BY <1>2 DEF PageFields
  <2> HIDE DEF pg
  <2> QED
    BY <1>4, <2>1, <2>2
<1>11. CASE EnvelopeSeen(t)
  <2> DEFINE pg == [page EXCEPT !.memory = v]
  <2>1. StageDone(t, pg) /\ ref' = ref
    BY <1>11 DEF EnvelopeSeen
  <2>2. /\ DOMAIN pg = PageFields /\ pg.subject = page.subject /\ pg.vector = page.vector
        /\ pg.running = page.running
    BY <1>2 DEF PageFields
  <2> HIDE DEF pg
  <2> QED
    BY <1>4, <2>1, <2>2
<1>12. CASE Endured(t) \/ Audited(t) \/ TitanComes(t) \/ PastComes(t) \/ Fails(t)
  BY <1>2, <1>4, <1>12 DEF Endured, Audited, TitanComes, PastComes, Fails
<1>13. CASE Erased(t)
  <2> DEFINE d == [k EXCEPT !.erased = v]
  <2>1. /\ Asks(t, d, "getMemory") /\ k.op \in {"erase", "signed"} /\ UNCHANGED <<page, ref>>
    BY <1>13 DEF Erased, Comes
  <2>2. /\ DOMAIN d = TaskFields /\ d.flow = k.flow /\ d.auto = k.auto
        /\ d.subject = k.subject /\ d.vector = k.vector
    BY <1>2 DEF TaskFields
  <2> HIDE DEF d
  <2> QED
    BY <1>3, <2>1, <2>2
<1>14. CASE ProofSeen(t)
  <2> DEFINE d == [k EXCEPT !.proof = v, !.vector = ref.vector]
  <2>1. /\ Asks(t, d, "search") /\ k.op = "getProof" /\ UNCHANGED <<page, ref>>
    BY <1>14 DEF ProofSeen, Comes
  <2>2. /\ DOMAIN d = TaskFields /\ d.flow = k.flow /\ d.auto = k.auto
        /\ d.subject = k.subject /\ d.vector = ref.vector
    BY <1>2 DEF TaskFields
  <2> HIDE DEF d
  <2> QED
    BY <1>3, <2>1, <2>2
<1>15. CASE EraseShown(t)
  <2> DEFINE pg == [page EXCEPT !.erase = k.erased, !.after = k.view,
                                !.proof = k.proof, !.searchAfter = SearchResult(t)]
  <2>1. StageDone(t, pg) /\ ref' = ref
    BY <1>15 DEF EraseShown
  <2>2. /\ DOMAIN pg = PageFields /\ pg.subject = page.subject /\ pg.vector = page.vector
        /\ pg.running = page.running
    BY <1>2 DEF PageFields
  <2> HIDE DEF pg
  <2> QED
    BY <1>4, <2>1, <2>2
<1>16. CASE JobStarted(t)
  <2>1. Asks(t, k, "status") /\ k.op = "start" /\ UNCHANGED <<page, ref>>
    BY <1>16 DEF JobStarted, Comes
  <2> QED
    BY <1>2, <1>3, <2>1
<1>17. CASE Polled(t)
  <2> DEFINE pg == [page EXCEPT !.live = [inverts |-> v.input, asked |-> k.vector]]
  <2>1. /\ k.op = "status" /\ ref' = ref
        /\ Over(t, pg) \/ Over(t, page) \/ PollsOn(t, "status")
    BY <1>17 DEF Polled, Comes
  <2>2. /\ DOMAIN pg = PageFields /\ pg.subject = page.subject /\ pg.vector = page.vector
        /\ pg.running = page.running
    BY <1>2 DEF PageFields
  <2> HIDE DEF pg
  <2>3. CASE PollsOn(t, "status")
    BY <1>1, <2>1, <2>3, PollsOnProceeds DEF Goes
  <2> QED
    BY <1>2, <1>4, <2>1, <2>2, <2>3
<1>18. CASE WarmPolled(t)
  <2> DEFINE d == [k EXCEPT !.polls = 0]
  <2>1. /\ k.op = "warm" /\ ref' = ref
        /\ (Asks(t, d, "forensics") /\ UNCHANGED page) \/ PollsOn(t, "warm")
    BY <1>18 DEF WarmPolled, Comes
  <2>2. /\ DOMAIN d = TaskFields /\ d.flow = k.flow /\ d.auto = k.auto
        /\ d.subject = k.subject /\ d.vector = k.vector
    BY <1>2 DEF TaskFields
  <2> HIDE DEF d
  <2>3. CASE PollsOn(t, "warm")
    BY <1>1, <2>1, <2>3, PollsOnProceeds DEF Goes
  <2> QED
    BY <1>3, <2>1, <2>2, <2>3
<1>19. CASE VerdictComes(t)
  <2> DEFINE pg == [page EXCEPT !.audit = v]
  <2>1. Over(t, pg) /\ ref' = ref
    BY <1>19 DEF VerdictComes
  <2>2. /\ DOMAIN pg = PageFields /\ pg.subject = page.subject /\ pg.vector = page.vector
        /\ pg.running = page.running
    BY <1>2 DEF PageFields
  <2> HIDE DEF pg
  <2> QED
    BY <1>4, <2>1, <2>2
<1> QED
  BY <1>6, <1>7, <1>8, <1>9, <1>10, <1>11, <1>12, <1>13, <1>14, <1>15, <1>16, <1>17, <1>18,
     <1>19 DEF GoesOn

----------------------------------------------------------------------------
\* What is shown running is under way.

LEMMA LeastFree ==
    ASSUME Free # {}
    PROVE  Min(Free) \in Slots /\ tasks[Min(Free)] = NoTask
<1>1. Free \subseteq Nat
  BY BackendsAssumption DEF Free
<1>2. \E x \in Free : \A y \in Free : ~(<<y, x>> \in OpToRel(<, Nat))
  BY <1>1, NatLessThanWellFounded, WFMin, Zenon
<1>3. PICK x \in Free : \A y \in Free : ~(<<y, x>> \in OpToRel(<, Nat))
  BY <1>2
<1>4. \A y \in Free : ~(y < x)
  BY <1>1, <1>3 DEF OpToRel
<1>5. \E y \in Free : \A z \in Free : y <= z
  BY <1>1, <1>4
<1>6. Min(Free) \in Free
  BY <1>5, Zenon DEF Min
<1> QED
  BY <1>6 DEF Free

\* A flow turns into another, or ends, and is no longer shown running.
LEMMA BecomesUnderWay ==
    ASSUME ConsoleInv, RunningIsUnderWay, NEW t \in Slots, NEW k, Becomes(t, k),
           k # NoTask => DOMAIN k = TaskFields,
           \A f \in page'.running :
              \/ k # NoTask /\ f = k.flow
              \/ f \in page.running /\ ~(tasks[t] # NoTask /\ tasks[t].flow = f)
    PROVE  RunningIsUnderWay'
<1> SUFFICES ASSUME NEW f \in page'.running
             PROVE  \E u \in Slots : tasks'[u] # NoTask /\ tasks'[u].flow = f
  BY DEF RunningIsUnderWay, Running
<1>1. ASSUME NEW u \in Slots, NEW old, old = IF u = t THEN k ELSE tasks[u],
             old # NoTask, old.flow = f
      PROVE  tasks'[u] # NoTask /\ tasks'[u].flow = f
  <2>1. Follows(tasks'[u], old)
    BY <1>1, BecomesFollows
  <2> QED
    BY <1>1, <2>1, IsTask DEF Follows
<1>2. CASE k # NoTask /\ f = k.flow
  BY <1>1, <1>2
<1>3. CASE f \in page.running /\ ~(tasks[t] # NoTask /\ tasks[t].flow = f)
  <2>1. PICK u \in Slots : tasks[u] # NoTask /\ tasks[u].flow = f
    BY <1>3 DEF RunningIsUnderWay, Running
  <2>2. u # t
    BY <1>3, <2>1
  <2> QED
    BY <1>1, <2>1, <2>2
<1> QED
  BY <1>2, <1>3

LEMMA AllKeptUnderWay ==
    ASSUME RunningIsUnderWay, AllKept, UNCHANGED page
    PROVE  RunningIsUnderWay'
<1> SUFFICES ASSUME NEW f \in page.running
             PROVE  \E u \in Slots : tasks'[u] # NoTask /\ tasks'[u].flow = f
  BY DEF RunningIsUnderWay, Running
<1>1. PICK u \in Slots : tasks[u] # NoTask /\ tasks[u].flow = f
  BY DEF RunningIsUnderWay, Running
<1>2. Kept(tasks'[u], tasks[u])
  BY <1>1 DEF AllKept
<1> QED
  BY <1>1, <1>2, IsTask DEF Kept

LEMMA BeginsIs ==
    ASSUME ConsoleInv, NEW flow, NEW auto, Begins(flow, auto)
    PROVE  /\ Min(Free) \in Slots /\ tasks[Min(Free)] = NoTask
           /\ Becomes(Min(Free), Task(flow, auto)) /\ MaySucceed(flow)
           /\ page' = [page EXCEPT !.running = @ \union {flow}]
           /\ DOMAIN page' = PageFields /\ page'.running = page.running \union {flow}
           /\ UNCHANGED <<backends, ref, torn>>
<1>1. /\ Becomes(Min(Free), Task(flow, auto)) /\ MaySucceed(flow)
      /\ page' = [page EXCEPT !.running = @ \union {flow}]
      /\ UNCHANGED <<backends, ref, torn>> /\ Free # {}
  BY DEF Begins, Click
<1>2. DOMAIN page' = PageFields /\ page'.running = page.running \union {flow}
  BY <1>1 DEF ConsoleInv, PageOk, PageFields
<1> QED
  BY <1>1, <1>2, LeastFree

\* What the reader may begin.
LEMMA ReaderIs ==
    ASSUME Reader
    PROVE  \/ Reset
           \/ \E flow \in Flows, auto \in BOOLEAN :
                 (auto => flow \in Stages) /\ Begins(flow, auto)
<1>1. CASE \E s \in Stages : RunStage(s, FALSE)
  BY <1>1 DEF RunStage, Flows
<1>2. CASE RunAll
  BY <1>2 DEF RunAll, RunStage, Flows, Stages
<1>3. CASE RunMemoryWriter \/ RunLiveLeak \/ RunTitan \/ RunTimeTravel \/ RunForensics
  <2>1. \E flow \in {"writer", "live", "titan", "timeTravel", "agent"} : Begins(flow, FALSE)
    BY <1>3 DEF RunMemoryWriter, RunLiveLeak, RunTitan, RunTimeTravel, RunForensics
  <2> QED
    BY <2>1 DEF Flows
<1> QED
  BY <1>1, <1>2, <1>3 DEF Reader

LEMMA UnderWayStep == ConsoleInv /\ RunningIsUnderWay /\ [Next]_vars => RunningIsUnderWay'
<1> SUFFICES ASSUME ConsoleInv, RunningIsUnderWay, [Next]_vars PROVE RunningIsUnderWay'
  OBVIOUS
<1>1. CASE Reader
  <2>1. CASE Reset
    BY <2>1 DEF Reset, InitialPage, RunningIsUnderWay
  <2>2. ASSUME NEW flow, NEW auto, Begins(flow, auto)
        PROVE  RunningIsUnderWay'
    <3> DEFINE t == Min(Free)
               k == Task(flow, auto)
    <3>1. /\ t \in Slots /\ tasks[t] = NoTask /\ Becomes(t, k)
          /\ page'.running = page.running \union {flow}
      BY <2>2, BeginsIs
    <3>2. DOMAIN k = TaskFields /\ k # NoTask /\ k.flow = flow
      BY TaskIs, IsTask
    <3> HIDE DEF k, t
    <3> QED
      BY <3>1, <3>2, BecomesUnderWay
  <2> QED
    BY <1>1, <2>1, <2>2, ReaderIs
<1>2. ASSUME NEW t \in Slots, Serve(t), UNCHANGED page
      PROVE  RunningIsUnderWay'
  BY <1>2, ServeKept, AllKeptUnderWay
<1>3. ASSUME NEW t \in Slots, GoesOn(t)
      PROVE  RunningIsUnderWay'
  <2>1. PICK k : Proceeds(t, k)
    BY <1>3, GoesOnProceeds
  <2>2. k # NoTask => DOMAIN k = TaskFields
    <3>1. Asked(t, k) \/ NowOver(t, k)
      BY <2>1 DEF Proceeds
    <3>2. Asked(t, k) => DOMAIN k = TaskFields
      BY DEF Asked
    <3>3. NowOver(t, k) => k = NoTask \/ \E flow : k = Task(flow, TRUE)
      BY DEF NowOver
    <3> QED
      BY <3>1, <3>2, <3>3, TaskIs
  <2>3. CASE Asked(t, k)
    <3>1. page' = page /\ k # NoTask /\ k.flow = tasks[t].flow
      BY <2>3, IsTask DEF Asked
    <3> QED
      BY <2>1, <2>2, <3>1, BecomesUnderWay DEF Proceeds
  <2>4. CASE NowOver(t, k)
    BY <2>1, <2>2, <2>4, BecomesUnderWay DEF Proceeds, NowOver
  <2> QED
    BY <2>1, <2>3, <2>4 DEF Proceeds
<1>4. CASE Background /\ UNCHANGED page
  BY <1>4, BackgroundKept, AllKeptUnderWay
<1>5. CASE UNCHANGED vars
  BY <1>5 DEF vars, RunningIsUnderWay, Running
<1> QED
  BY <1>1, <1>2, <1>3, <1>4, <1>5 DEF Next, Moves

\* No stage or panel of the console stays "running" with no flow left that
\* could end it (useDemo.ts, setStatus and step), whatever overlaps, fails or
\* is reset.
THEOREM RunningCorrect == Spec => []RunningIsUnderWay
<1>1. Init => RunningIsUnderWay
  BY DEF Init, InitialPage, RunningIsUnderWay
<1> QED
  BY <1>1, UnderWayStep, ConsoleHolds, PTL DEF Spec

----------------------------------------------------------------------------
\* What serves a call, and what it changes.

Storing  == {"ingest", "write", "written"}
PlainOps == {"inversion", "audit", "titan", "timeTravel", "start", "status", "warm",
             "forensics", "confirm"}

\* The calls that neither store, erase nor are about one memory's state.
ServePlain(t) == \/ Read(t) \/ StartInversion(t) \/ InversionStatus(t) \/ Warm(t)
                 \/ ConfirmKey(t) \/ ConfirmRecord(t) \/ Verdict(t)
                 \/ MockRead(t) \/ MockAgent(t)

LEMMA ServedBy ==
    ASSUME NEW t \in Slots, Serve(t)
    PROVE  /\ tasks[t] # NoTask /\ tasks[t].answer = None
           /\ LET op == tasks[t].op
              IN \/ Drop(t)
                 \/ op = "ingest" /\ (Ingest(t) \/ MockIngest(t))
                 \/ op = "write" /\ (WriteMemory(t) \/ MockWrite(t))
                 \/ op = "written" /\ MockWriteEnds(t)
                 \/ op = "getMemory" /\ (Memory(t) \/ MockGetMemory(t))
                 \/ op = "getKey" /\ MemoryKey(t)
                 \/ op = "search" /\ (Search(t) \/ MockSearch(t))
                 \/ op = "erase" /\ (Erase(t) \/ MockErase(t))
                 \/ op = "signed" /\ MockEraseEnds(t)
                 \/ op = "getProof" /\ (GetProof(t) \/ MockGetProof(t))
                 \/ op \in PlainOps /\ ServePlain(t)
<1>1. CASE Drop(t)
  BY <1>1 DEF Drop
<1>2. CASE ServePlain(t)
  BY <1>2 DEF ServePlain, Read, StartInversion, InversionStatus, Warm, ConfirmKey,
              ConfirmRecord, Verdict, MockRead, MockAgent, Calls, PlainOps
<1>3. CASE \/ Ingest(t) \/ WriteMemory(t) \/ Memory(t) \/ MemoryKey(t) \/ Search(t)
           \/ Erase(t) \/ GetProof(t)
  BY <1>3 DEF Ingest, WriteMemory, Memory, MemoryKey, Search, Erase, GetProof, Calls
<1>4. CASE \/ MockIngest(t) \/ MockWrite(t) \/ MockWriteEnds(t) \/ MockGetMemory(t)
           \/ MockSearch(t) \/ MockErase(t) \/ MockEraseEnds(t) \/ MockGetProof(t)
  BY <1>4 DEF MockIngest, MockWrite, MockWriteEnds, MockGetMemory, MockSearch, MockErase,
              MockEraseEnds, MockGetProof, Calls
<1> QED
  BY <1>1, <1>2, <1>3, <1>4 DEF Serve, Gateway, Mock, ServePlain

\* A flow after its answer.
LEMMA AnsweredIs ==
    ASSUME ConsoleInv, NEW t \in Slots, tasks[t] # NoTask, NEW a, Answered(t, a)
    PROVE  /\ tasks'[t].answer = a /\ tasks'[t].op = tasks[t].op
           /\ tasks'[t].view = tasks[t].view /\ tasks'[t].erased = tasks[t].erased
<1> DEFINE n == [tasks[t] EXCEPT !.answer = a]
<1>1. DOMAIN tasks[t] = TaskFields /\ DOMAIN tasks = Slots
  BY DEF ConsoleInv, TasksOk, TaskOk
<1>2. tasks'[t] = n
  BY <1>1 DEF Answered
<1>3. /\ n.answer = a /\ n.op = tasks[t].op /\ n.view = tasks[t].view
      /\ n.erased = tasks[t].erased
  BY <1>1 DEF TaskFields
<1> HIDE DEF n
<1> QED
  BY <1>2, <1>3

LEMMA ReplyIs ==
    ASSUME NEW t, NEW v, Reply(t, v) \/ Refuse(t)
    PROVE  \E a : Answered(t, a) /\ (a = Failed \/ (a = Ok(v) /\ Reply(t, v)))
  BY DEF Reply, Refuse

\* A plain call changes no memory, on either backend.
LEMMA PlainIs ==
    ASSUME ConsoleInv, NEW t \in Slots, tasks[t] # NoTask, ServePlain(t)
    PROVE  /\ UNCHANGED <<session, backend, mock>>
           /\ gateway'.memories = gateway.memories /\ gateway'.erased = gateway.erased
           /\ gateway'.anchored = gateway.anchored
           /\ gateway'.job.state \in {gateway.job.state, "running"}
           /\ tasks'[t].op \in PlainOps
<1> DEFINE k == tasks[t]
           Plain == tasks'[t].op \in PlainOps
<1>1. DOMAIN k = TaskFields /\ DOMAIN tasks = Slots
  BY DEF ConsoleInv, TasksOk, TaskOk
<1>2. k.op \in PlainOps
  BY DEF ServePlain, Read, StartInversion, InversionStatus, Warm, ConfirmKey,
         ConfirmRecord, Verdict, MockRead, MockAgent, Calls, PlainOps
<1>3. (\E a : Answered(t, a)) => Plain
  BY <1>2, AnsweredIs
<1>4. CASE StartInversion(t)
  <2>1. /\ UNCHANGED <<session, backend, mock>>
        /\ gateway' = gateway \/ gateway' = [gateway EXCEPT !.job = Job("running", k.vector)]
    BY <1>4 DEF StartInversion
  <2>2. /\ gateway'.memories = gateway.memories /\ gateway'.erased = gateway.erased
        /\ gateway'.anchored = gateway.anchored
        /\ gateway'.job.state \in {gateway.job.state, "running"}
    BY <2>1 DEF ConsoleInv, GatewayOk, Job
  <2>3. \/ \E a : Answered(t, a)
        \/ \E ts \in {tasks, Displaced}, a \in {Ok(None), Failed} :
              tasks' = [ts EXCEPT ![t].ours = TRUE, ![t].answer = a]
    BY <1>4 DEF StartInversion, Refuse
  <2>4. ASSUME NEW ts \in {tasks, Displaced}, NEW a \in {Ok(None), Failed},
               tasks' = [ts EXCEPT ![t].ours = TRUE, ![t].answer = a]
        PROVE  Plain
    <3> DEFINE d == ts[t]
               n == [d EXCEPT !.ours = TRUE, !.answer = a]
    <3>1. t \in DOMAIN ts
      BY <1>1, <2>4 DEF Displaced
    <3>2. tasks'[t] = n
      BY <2>4, <3>1
    <3>3. DOMAIN d = TaskFields /\ d.op = k.op
      <4>1. CASE ts = tasks
        BY <1>1, <4>1
      <4>2. CASE ts = Displaced
        BY <4>2, DisplacedKept DEF Kept, Waits
      <4> QED
        BY <4>1, <4>2
    <3> HIDE DEF d
    <3>4. n.op = d.op
      BY <3>3 DEF TaskFields
    <3> HIDE DEF n
    <3> QED
      BY <1>2, <3>2, <3>3, <3>4
  <2> QED
    BY <1>3, <2>1, <2>2, <2>3, <2>4
<1>5. CASE ConfirmKey(t)
  <2> DEFINE w == [key |-> Live(k.subject)]
             n == [k EXCEPT !.op = "confirm", !.polls = @ + 1, !.view = w]
  <2>1. /\ tasks' = [tasks EXCEPT ![t].op = "confirm", ![t].polls = @ + 1, ![t].view = w]
        /\ UNCHANGED <<session, backend, gateway, mock>>
    BY <1>5 DEF ConfirmKey
  <2> HIDE DEF w
  <2>2. tasks'[t] = n
    BY <1>1, <2>1
  <2>3. n.op = "confirm"
    BY <1>1 DEF TaskFields
  <2> HIDE DEF n
  <2> QED
    BY <2>1, <2>2, <2>3 DEF PlainOps
<1>6. CASE ConfirmRecord(t)
  <2>1. /\ UNCHANGED <<session, backend, gateway, mock>>
        /\ \E p : tasks' = [tasks EXCEPT ![t].op = "forensics", ![t].proven = p]
    BY <1>6, Zenon DEF ConfirmRecord
  <2>2. PICK p : tasks' = [tasks EXCEPT ![t].op = "forensics", ![t].proven = p]
    BY <2>1
  <2> DEFINE n == [k EXCEPT !.op = "forensics", !.proven = p]
  <2>3. tasks'[t] = n
    BY <1>1, <2>2
  <2>4. n.op = "forensics"
    BY <1>1 DEF TaskFields
  <2> HIDE DEF n
  <2> QED
    BY <2>1, <2>3, <2>4 DEF PlainOps
<1>7. CASE Read(t) \/ InversionStatus(t) \/ Warm(t) \/ Verdict(t) \/ MockRead(t) \/ MockAgent(t)
  <2>1. (\E a : Answered(t, a)) /\ UNCHANGED <<session, backend, gateway, mock>>
    BY <1>7, ReplyIs DEF Read, InversionStatus, Warm, Verdict, MockRead, MockAgent, MockAnswers
  <2> QED
    BY <1>3, <2>1
<1> QED
  BY <1>4, <1>5, <1>6, <1>7 DEF ServePlain

----------------------------------------------------------------------------
\* Types.

HasAnswer(k) == k.answer \notin {None, Failed}
MockFields   == {"subject", "erased", "signed"}

\* A loader is where it stores its memory, and then knows it; the other flows
\* that need a memory have one.
TaskType(k) ==
    /\ k.flow \in Flows
    /\ k.auto => k.flow \in Stages
    /\ k.flow \in {"envelope", "erase", "agent"} => k.subject # None
    /\ k.op \in Storing => k.flow \in Loaders
    /\ k.op \in Storing /\ HasAnswer(k) =>
          k.answer.value.subject \in Ids /\ k.answer.value.vector \in Nat
    /\ k.flow \in Loaders /\ k.op \notin Storing => k.subject \in Ids /\ k.vector \in Nat

TasksType   == \A t \in Slots : tasks[t] # NoTask => TaskType(tasks[t])
GatewayType == /\ gateway.memories \in Seq(Nat) /\ gateway.erased \subseteq DOMAIN gateway.memories
               /\ gateway.anchored \subseteq gateway.erased
               /\ gateway.job.state \in {"", "running", "done", "error"}
BoundsType  == backend \in {"http", "mock"} /\ session \in Sessions /\ faults \in 0..session.faults
ShownType   == /\ ref.subject \in Ids /\ ref.vector \in Nat
               /\ page.subject \in Ids /\ page.vector \in Nat
               /\ page.running \subseteq Flows
MockType    == DOMAIN mock = MockFields /\ mock.subject \in Ids

TypeInv == TasksType /\ GatewayType /\ BoundsType /\ ShownType /\ MockType

LEMMA TypeInit == Init => TypeInv
<1> SUFFICES ASSUME Init PROVE TypeInv
  OBVIOUS
<1>1. \A t \in Slots : tasks[t] = NoTask
  BY DEF Init, BackendsInit
<1>2. GatewayType
  <2>1. gateway = [memories |-> <<>>, erased |-> {}, anchored |-> {},
                   job |-> [state |-> "", input |-> None]]
    BY DEF Init, BackendsInit, NoJob, Job
  <2>2. /\ gateway.memories = <<>> /\ gateway.erased = {} /\ gateway.anchored = {}
        /\ gateway.job.state = ""
    BY <2>1
  <2>3. <<>> \in Seq(Nat)
    OBVIOUS
  <2> QED
    BY <2>2, <2>3 DEF GatewayType
<1>3. BoundsType
  <2>1. session.faults \in Nat
    BY BackendsAssumption DEF Init, BackendsInit
  <2> QED
    BY <2>1 DEF Init, BackendsInit, BoundsType
<1>4. ShownType
  BY DEF Init, InitialPage, NoRef, DemoVector, Ids, ShownType
<1>5. MockType
  BY DEF Init, BackendsInit, Ids, MockType, MockFields
<1> QED
  BY <1>1, <1>2, <1>3, <1>4, <1>5 DEF TypeInv, TasksType

LEMMA TypeBegins ==
    ASSUME NEW flow \in Flows, NEW auto, auto => flow \in Stages, MaySucceed(flow)
    PROVE  TaskType(Task(flow, auto))
<1> DEFINE k == Task(flow, auto)
<1>1. /\ k.flow = flow /\ k.auto = auto /\ k.op = FirstCall[flow] /\ k.answer = None
      /\ flow \in {"envelope", "erase", "agent"} => k.subject = ref.subject
  BY DEF Task
<1>2. FirstCall[flow] \in Storing <=> flow \in Loaders
  BY DEF FirstCall, Flows, Stages, Loaders, Storing
<1> HIDE DEF k
<1>3. TaskType(k)
  BY <1>1, <1>2 DEF TaskType, MaySucceed, HasAnswer
<1> QED
  BY <1>3 DEF k

LEMMA TypeFollows ==
    ASSUME NEW k, TaskType(k), NEW n, n.flow = k.flow, n.auto = k.auto, n.op = k.op,
           n.answer = k.answer, n.subject = k.subject, n.vector = k.vector
    PROVE  TaskType(n)
  BY DEF TaskType, HasAnswer

LEMMA TypeBecomes ==
    ASSUME ConsoleInv, TasksType, NEW t, NEW k, Becomes(t, k),
           k # NoTask => DOMAIN k = TaskFields /\ TaskType(k)
    PROVE  TasksType'
<1> SUFFICES ASSUME NEW u \in Slots, tasks'[u] # NoTask
             PROVE  TaskType(tasks'[u])
  BY DEF TasksType
<1> DEFINE old == IF u = t THEN k ELSE tasks[u]
<1>1. IF old = NoTask THEN tasks'[u] = NoTask ELSE Follows(tasks'[u], old)
  BY BecomesFollows
<1>2. old # NoTask => TaskType(old)
  BY DEF TasksType
<1> HIDE DEF old
<1> QED
  BY <1>1, <1>2, TypeFollows DEF Follows, Waits

LEMMA ContinuesIs ==
    ASSUME ConsoleInv, NEW t \in Slots, tasks[t] # NoTask, NEW op, Continues(t, op)
    PROVE  tasks'[t].op = op /\ tasks'[t].answer = tasks[t].answer
<1> DEFINE n == [tasks[t] EXCEPT !.op = op]
<1>1. DOMAIN tasks[t] = TaskFields /\ DOMAIN tasks = Slots
  BY DEF ConsoleInv, TasksOk, TaskOk
<1>2. tasks'[t] = n
  BY <1>1 DEF Continues
<1>3. n.op = op /\ n.answer = tasks[t].answer
  BY <1>1 DEF TaskFields
<1> HIDE DEF n
<1> QED
  BY <1>2, <1>3

LEMMA AppendIs ==
    ASSUME NEW seq \in Seq(Nat), NEW v \in Nat
    PROVE  /\ Len(seq) \in Nat /\ Len(seq) + 1 \in Nat
           /\ Append(seq, v) \in Seq(Nat)
           /\ DOMAIN seq = 1..Len(seq) /\ DOMAIN Append(seq, v) = 1..(Len(seq) + 1)
           /\ DOMAIN seq \subseteq DOMAIN Append(seq, v)
<1>1. /\ Len(seq) \in Nat /\ Len(Append(seq, v)) = Len(seq) + 1
      /\ Append(seq, v) \in Seq(Nat)
      /\ DOMAIN seq = 1..Len(seq) /\ DOMAIN Append(seq, v) = 1..Len(Append(seq, v))
  OBVIOUS
<1> QED
  BY <1>1

LEMMA TypeServe ==
    ASSUME ConsoleInv, TypeInv, NEW t \in Slots, Serve(t)
    PROVE  TasksType' /\ GatewayType' /\ BoundsType' /\ MockType'
<1> DEFINE k == tasks[t]
           n == tasks'[t]
           Value2 == n.answer.value
<1>1. /\ k # NoTask /\ k.answer = None /\ AllKept /\ OthersWait(t) /\ TaskType(k)
      /\ Kept(n, k)
  BY ServedBy, ServeKept DEF TypeInv, TasksType, AllKept
<1>2. BoundsType'
  <2>1. UNCHANGED <<session, backend>> /\ (UNCHANGED faults \/ Fault)
    BY <1>1 DEF Serve, Drop, Gateway, Ingest, WriteMemory, Stores, Memory, MemoryKey, Search,
           Erase, GetProof, Read, StartInversion, InversionStatus, Warm, ConfirmKey,
           ConfirmRecord, Verdict, Mock, MockIngest, MockWrite, MockWriteEnds, MockGetMemory,
           MockSearch, MockErase, MockEraseEnds, MockGetProof, MockRead, MockAgent,
           MockAnswers, MockRefuses, MockSets, Reply, Refuse
  <2>2. session.faults \in Nat
    BY BackendsAssumption DEF TypeInv, BoundsType
  <2> QED
    BY <2>1, <2>2 DEF TypeInv, BoundsType, Fault
<1>3. \A u \in Slots \ {t} : tasks'[u] # NoTask => TaskType(tasks'[u])
  BY <1>1, TypeFollows DEF AllKept, OthersWait, Kept, Waits, TypeInv, TasksType
<1>4. ASSUME n.op \in Storing <=> k.op \in Storing,
             n.op \in Storing /\ HasAnswer(n) => Value2.subject \in Ids /\ Value2.vector \in Nat
      PROVE  TasksType'
  <2>1. TaskType(n)
    BY <1>1, <1>4 DEF TaskType, Kept
  <2> QED
    BY <1>3, <2>1 DEF TasksType
<1>5. ASSUME NEW a, Answered(t, a),
             k.op \in Storing => \/ a = Failed
                                 \/ a.value.subject \in Ids /\ a.value.vector \in Nat
      PROVE  TasksType'
  BY <1>1, <1>4, <1>5, AnsweredIs DEF HasAnswer
<1>6. ASSUME UNCHANGED <<gateway, mock>>
      PROVE  GatewayType' /\ MockType'
  BY <1>6 DEF TypeInv, GatewayType, MockType
<1>7. GatewayType /\ MockType
  BY DEF TypeInv
<1>8. CASE Drop(t)
  BY <1>2, <1>5, <1>6, <1>8 DEF Drop
<1>9. CASE Ingest(t) \/ WriteMemory(t)
  <2> DEFINE s == Len(gateway.memories) + 1
  <2>1. gateway.memories \in Seq(Nat)
    BY DEF ConsoleInv, GatewayOk
  <2>2. s \in Nat /\ DemoVector \in Nat
    BY <2>1, AppendIs DEF DemoVector
  <2>3. PICK vector \in Nat : Stores(t, vector)
    BY <1>9, <2>2 DEF Ingest, WriteMemory
  <2>4. /\ gateway' = [gateway EXCEPT !.memories = Append(@, vector)] /\ UNCHANGED mock
        /\ Reply(t, [subject |-> s, vector |-> vector])
    BY <2>3 DEF Stores
  <2>5. PICK a : Answered(t, a) /\ (a = Failed \/ a = Ok([subject |-> s, vector |-> vector]))
    BY <2>4, ReplyIs
  <2> HIDE DEF s
  <2>6. a = Failed \/ (a.value.subject \in Ids /\ a.value.vector \in Nat)
    BY <2>2, <2>5 DEF Ok, Ids
  <2>7. TasksType'
    BY <1>5, <2>5, <2>6
  <2>8. /\ gateway'.memories = Append(gateway.memories, vector)
        /\ gateway'.erased = gateway.erased /\ gateway'.job = gateway.job
        /\ gateway'.anchored = gateway.anchored
    BY <2>4 DEF ConsoleInv, GatewayOk
  <2>9. /\ Append(gateway.memories, vector) \in Seq(Nat)
        /\ DOMAIN gateway.memories \subseteq DOMAIN Append(gateway.memories, vector)
    BY <2>1, <2>3, AppendIs
  <2>10. GatewayType'
    BY <1>7, <2>8, <2>9 DEF GatewayType
  <2> QED
    BY <1>2, <1>7, <2>4, <2>7, <2>10 DEF MockType
<1>10. CASE k.op \in PlainOps /\ ServePlain(t)
  <2>1. /\ mock' = mock /\ n.op \in PlainOps
        /\ gateway'.memories = gateway.memories /\ gateway'.erased = gateway.erased
        /\ gateway'.anchored = gateway.anchored
        /\ gateway'.job.state \in {gateway.job.state, "running"}
    BY <1>1, <1>10, PlainIs
  <2>2. PlainOps \intersect Storing = {}
    BY DEF PlainOps, Storing
  <2>3. TasksType'
    BY <1>4, <1>10, <2>1, <2>2
  <2> QED
    BY <1>2, <1>7, <2>1, <2>3 DEF GatewayType, MockType
<1>11. CASE k.op = "getMemory" /\ Memory(t)
  <2>1. UNCHANGED <<gateway, mock>>
    BY <1>11 DEF Memory
  <2>2. CASE Refuse(t)
    BY <1>2, <1>5, <1>6, <2>1, <2>2 DEF Refuse
  <2>3. CASE ~Refuse(t)
    <3> DEFINE w == [subject |-> k.subject, embedding |-> Live(k.subject), key |-> FALSE]
               m == [k EXCEPT !.op = "getKey", !.view = w]
    <3>1. tasks' = [tasks EXCEPT ![t].op = "getKey", ![t].view = w]
      BY <1>11, <2>3 DEF Memory
    <3> HIDE DEF w
    <3>2. DOMAIN tasks = Slots /\ DOMAIN k = TaskFields
      BY <1>1 DEF ConsoleInv, TasksOk, TaskOk
    <3>3. n = m
      BY <3>1, <3>2
    <3>4. m.op = "getKey"
      BY <3>2 DEF TaskFields
    <3> HIDE DEF m
    <3>5. TasksType'
      BY <1>4, <1>11, <3>3, <3>4 DEF Storing
    <3> QED
      BY <1>2, <1>6, <2>1, <3>5
  <2> QED
    BY <2>2, <2>3
<1>12. CASE k.op \notin Storing /\ (MemoryKey(t) \/ Search(t) \/ GetProof(t) \/ MockGetMemory(t)
              \/ MockSearch(t) \/ MockGetProof(t))
  <2>1. (\E a : Answered(t, a)) /\ UNCHANGED <<gateway, mock>>
    BY <1>12, ReplyIs DEF MemoryKey, Search, GetProof, MockGetMemory, MockSearch, MockGetProof,
                          MockAnswers, MockRefuses, Refuse
  <2> QED
    BY <1>2, <1>5, <1>6, <1>12, <2>1
<1>13. CASE k.op = "erase" /\ Erase(t)
  <2>1. /\ \E a : Answered(t, a)
        /\ mock' = mock
        /\ \/ gateway' = gateway
           \/ \E pending \in BOOLEAN : EraseStep(t, pending)
    BY <1>13, EraseIs, ReplyIs DEF EraseStep, Refuse
  <2>2. TasksType'
    BY <1>5, <1>13, <2>1 DEF Storing
  <2>3. GatewayType'
    <3>1. CASE gateway' = gateway
      BY <1>7, <3>1 DEF GatewayType
    <3>2. ASSUME NEW pending \in BOOLEAN, EraseStep(t, pending)
          PROVE  GatewayType'
      <4>1. /\ gateway'.memories = gateway.memories /\ gateway'.job = gateway.job
            /\ gateway'.erased = gateway.erased \union {k.subject}
            /\ gateway'.anchored \subseteq gateway.anchored \union {k.subject}
        BY <3>2, EraseStepIs
      <4> QED
        BY <1>7, <3>2, <4>1 DEF GatewayType, EraseStep, Live, Stored
    <3> QED
      BY <2>1, <3>1, <3>2
  <2> QED
    BY <1>2, <1>7, <2>1, <2>2, <2>3 DEF MockType
<1>14. ASSUME gateway' = gateway, mock'.subject \in Ids, DOMAIN mock' = MockFields
       PROVE  GatewayType' /\ MockType'
  BY <1>7, <1>14 DEF GatewayType, MockType
<1>15. CASE k.op = "ingest" /\ MockIngest(t)
  <2>1. /\ mock' = [mock EXCEPT !.subject = MockDemo, !.erased = FALSE] /\ gateway' = gateway
        /\ Answered(t, Ok([subject |-> MockDemo, vector |-> DemoVector]))
    BY <1>15 DEF MockIngest, MockSets
  <2>2. mock'.subject \in Ids /\ DOMAIN mock' = MockFields
    BY <1>7, <2>1 DEF MockType, MockFields, MockDemo, Ids
  <2>3. TasksType'
    <3> DEFINE a == Ok([subject |-> MockDemo, vector |-> DemoVector])
    <3>1. a.value.subject \in Ids /\ a.value.vector \in Nat
      BY DEF Ok, MockDemo, DemoVector, Ids
    <3> HIDE DEF a
    <3> QED
      BY <1>5, <2>1, <3>1 DEF a
  <2> QED
    BY <1>2, <1>14, <2>1, <2>2, <2>3
<1>16. CASE k.op = "written" /\ MockWriteEnds(t)
  <2> DEFINE a == Ok([subject |-> mock.subject, vector |-> MockWritten])
  <2>1. Answered(t, a) /\ UNCHANGED <<gateway, mock>>
    BY <1>16 DEF MockWriteEnds, MockAnswers
  <2>2. a.value.subject \in Ids /\ a.value.vector \in Nat
    BY <1>7 DEF Ok, MockWritten, MockType
  <2> HIDE DEF a
  <2> QED
    BY <1>2, <1>5, <1>6, <2>1, <2>2
<1>17. CASE k.op = "write" /\ MockWrite(t)
  <2>1. /\ mock' = [subject |-> MockWritten, erased |-> FALSE, signed |-> None]
        /\ gateway' = gateway /\ Continues(t, "written")
    BY <1>17 DEF MockWrite, MockSets
  <2>2. mock'.subject \in Ids /\ DOMAIN mock' = MockFields
    BY <2>1 DEF MockWritten, MockFields, Ids
  <2>3. n.op = "written" /\ n.answer = None
    BY <1>1, <2>1, ContinuesIs
  <2>4. TasksType'
    BY <1>4, <1>17, <2>3 DEF Storing, HasAnswer
  <2> QED
    BY <1>2, <1>14, <2>1, <2>2, <2>4
<1>18. CASE k.op = "erase" /\ MockErase(t)
  <2>1. CASE Refuse(t) /\ UNCHANGED <<gateway, mock>>
    BY <1>2, <1>5, <1>6, <2>1 DEF Refuse
  <2>2. CASE ~(Refuse(t) /\ UNCHANGED <<gateway, mock>>)
    <3> DEFINE m == [k EXCEPT !.op = "signed", !.erased = EraseResult(mock.subject, FALSE)]
    <3>1. /\ mock' = [mock EXCEPT !.erased = TRUE] /\ gateway' = gateway
          /\ tasks' = [tasks EXCEPT ![t].op = "signed",
                                    ![t].erased = EraseResult(mock.subject, FALSE)]
      BY <1>18, <2>2 DEF MockErase, MockRefuses, MockSets
    <3>2. mock'.subject \in Ids /\ DOMAIN mock' = MockFields
      BY <1>7, <3>1 DEF MockType, MockFields
    <3>3. DOMAIN tasks = Slots /\ DOMAIN k = TaskFields
      BY <1>1 DEF ConsoleInv, TasksOk, TaskOk
    <3>4. n = m
      BY <3>1, <3>3
    <3>5. m.op = "signed"
      BY <3>3 DEF TaskFields
    <3> HIDE DEF m
    <3>6. TasksType'
      BY <1>4, <1>18, <3>4, <3>5 DEF Storing
    <3> QED
      BY <1>2, <1>14, <3>1, <3>2, <3>6
  <2> QED
    BY <2>1, <2>2
<1>19. CASE k.op = "signed" /\ MockEraseEnds(t)
  <2>1. /\ mock' = [mock EXCEPT !.signed = k.erased.subject] /\ gateway' = gateway
        /\ \E a : Answered(t, a)
    BY <1>19 DEF MockEraseEnds, MockSets
  <2>2. mock'.subject \in Ids /\ DOMAIN mock' = MockFields
    BY <1>7, <2>1 DEF MockType, MockFields
  <2>3. TasksType'
    BY <1>5, <1>19, <2>1 DEF Storing
  <2> QED
    BY <1>2, <1>14, <2>1, <2>2, <2>3
<1> QED
  BY <1>8, <1>9, <1>10, <1>11, <1>12, <1>13, <1>15, <1>16, <1>17, <1>18, <1>19, ServedBy
     DEF Storing

LEMMA TypeStep == ConsoleInv /\ TypeInv /\ [Next]_vars => TypeInv'
<1> SUFFICES ASSUME ConsoleInv, TypeInv, [Next]_vars PROVE TypeInv'
  OBVIOUS
<1>1. ASSUME UNCHANGED backends
      PROVE  GatewayType' /\ BoundsType' /\ MockType'
  BY <1>1 DEF backends, TypeInv, GatewayType, BoundsType, MockType
<1>2. CASE Reset
  <2>1. TasksType'
    <3> SUFFICES ASSUME NEW u \in Slots, tasks'[u] # NoTask PROVE TaskType(tasks'[u])
      BY DEF TasksType
    <3> DEFINE m == [tasks[u] EXCEPT !.crossed = TRUE]
    <3>1. tasks'[u] = tasks[u] \/ (tasks'[u] = m /\ tasks[u] # NoTask)
      BY <1>2 DEF Reset, Running
    <3>2. tasks[u] # NoTask
      BY <3>1
    <3>3. DOMAIN tasks[u] = TaskFields /\ TaskType(tasks[u])
      BY <3>2 DEF ConsoleInv, TasksOk, TaskOk, TypeInv, TasksType
    <3>4. /\ m.flow = tasks[u].flow /\ m.auto = tasks[u].auto /\ m.op = tasks[u].op
          /\ m.answer = tasks[u].answer /\ m.subject = tasks[u].subject
          /\ m.vector = tasks[u].vector
      BY <3>3 DEF TaskFields
    <3> HIDE DEF m
    <3> QED
      BY <3>1, <3>3, <3>4, TypeFollows
  <2>2. ShownType'
    BY <1>2 DEF Reset, InitialPage, NoRef, DemoVector, Ids, ShownType
  <2> QED
    BY <1>1, <1>2, <2>1, <2>2 DEF Reset, TypeInv
<1>3. ASSUME NEW flow \in Flows, NEW auto, auto => flow \in Stages, Begins(flow, auto)
      PROVE  TypeInv'
  <2> DEFINE k == Task(flow, auto)
  <2>1. /\ Becomes(Min(Free), k) /\ MaySucceed(flow) /\ UNCHANGED <<backends, ref, torn>>
        /\ page' = [page EXCEPT !.running = @ \union {flow}]
    BY <1>3, BeginsIs
  <2>2. DOMAIN k = TaskFields /\ TaskType(k)
    BY <1>3, <2>1, TaskIs, TypeBegins
  <2> HIDE DEF k
  <2>3. TasksType'
    BY <2>1, <2>2, TypeBecomes DEF TypeInv
  <2>4. ShownType'
    <3>1. /\ page'.subject = page.subject /\ page'.vector = page.vector
          /\ page'.running = page.running \union {flow}
      BY <2>1 DEF ConsoleInv, PageOk, PageFields
    <3> QED
      BY <2>1, <3>1 DEF TypeInv, ShownType
  <2> QED
    BY <1>1, <2>1, <2>3, <2>4 DEF TypeInv
<1>4. ASSUME NEW t \in Slots, Serve(t), UNCHANGED <<page, ref, torn>>
      PROVE  TypeInv'
  BY <1>4, TypeServe DEF TypeInv, ShownType
<1>5. ASSUME NEW t \in Slots, GoesOn(t)
      PROVE  TypeInv'
  <2>1. PICK k : Proceeds(t, k)
    BY <1>5, GoesOnProceeds
  <2>2. tasks[t] # NoTask /\ Becomes(t, k) /\ UNCHANGED backends /\ TaskType(tasks[t])
    BY <2>1 DEF Proceeds, TypeInv, TasksType
  <2> SUFFICES (k # NoTask => DOMAIN k = TaskFields /\ TaskType(k)) /\ ShownType'
    BY <1>1, <2>2, TypeBecomes DEF TypeInv
  <2>3. CASE Asked(t, k)
    <3>1. CASE NowStored(t, k)
      <4>1. /\ tasks[t].op \in Storing /\ HasAnswer(tasks[t]) /\ k.op = "getMemory"
            /\ ref' = Value(t)
            /\ k.subject = Value(t).subject /\ k.vector = Value(t).vector
        BY <3>1 DEF NowStored, Storing, HasAnswer
      <4>2. Value(t).subject \in Ids /\ Value(t).vector \in Nat /\ tasks[t].flow \in Loaders
        BY <2>2, <4>1 DEF TaskType, Value
      <4>3. TaskType(k)
        BY <2>2, <2>3, <4>1, <4>2 DEF TaskType, Asked, Storing, Loaders
      <4>4. ShownType'
        BY <2>3, <4>1, <4>2 DEF Asked, TypeInv, ShownType
      <4> QED
        BY <2>3, <4>3, <4>4 DEF Asked
    <3>2. CASE ~NowStored(t, k)
      <4>1. /\ tasks[t].op \notin Storing /\ k.op \notin Storing
            /\ ref' = ref /\ k.subject = tasks[t].subject
            /\ k.vector \in {tasks[t].vector, ref.vector}
        BY <2>3, <3>2 DEF Asked, Storing
      <4>2. TaskType(k)
        BY <2>2, <2>3, <4>1 DEF TaskType, Asked, TypeInv, ShownType
      <4>3. ShownType'
        BY <2>3, <4>1 DEF Asked, TypeInv, ShownType
      <4> QED
        BY <2>3, <4>2, <4>3 DEF Asked
    <3> QED
      BY <3>1, <3>2
  <2>4. CASE NowOver(t, k)
    <3>1. \/ k = NoTask
          \/ \E flow \in Stages : k = Task(flow, TRUE) /\ MaySucceed(flow)
      <4>1. CASE k = NoTask
        BY <4>1
      <4>2. CASE k # NoTask
        <5> DEFINE flow == After[tasks[t].flow]
        <5>1. /\ tasks[t].flow \in DOMAIN After /\ k = Task(flow, TRUE) /\ MaySucceed(flow)
          BY <2>4, <4>2 DEF NowOver
        <5>2. flow \in Stages
          BY <5>1 DEF After, Stages
        <5> HIDE DEF flow
        <5> QED
          BY <5>1, <5>2
      <4> QED
        BY <4>1, <4>2
    <3>2. k # NoTask => DOMAIN k = TaskFields /\ TaskType(k)
      BY <3>1, TaskIs, TypeBegins DEF Flows
    <3>3. k # NoTask => k.flow \in Flows
      BY <3>2 DEF TaskType
    <3>4. /\ ref' = ref /\ page'.running \subseteq Flows
      BY <2>4, <3>3 DEF NowOver, TypeInv, ShownType
    <3>5. page'.subject \in Ids /\ page'.vector \in Nat
      BY <2>2, <2>4 DEF NowOver, TypeInv, ShownType, TaskType, Storing
    <3> QED
      BY <3>2, <3>4, <3>5 DEF TypeInv, ShownType
  <2> QED
    BY <2>1, <2>3, <2>4 DEF Proceeds
<1>6. CASE Background /\ UNCHANGED <<page, ref, torn>>
  <2>1. TasksType'
    BY <1>6, BackgroundKept, TypeFollows DEF AllKept, Kept, Waits, TypeInv, TasksType
  <2>2. UNCHANGED <<session, backend, mock>> /\ (UNCHANGED faults \/ Fault)
    BY <1>6 DEF Background, Reconciled, InversionEnds, VisitorStarts, Restart
  <2>3. session.faults \in Nat
    BY BackendsAssumption DEF TypeInv, BoundsType
  <2>4. /\ gateway'.memories = gateway.memories /\ gateway'.erased = gateway.erased
        /\ gateway'.anchored \subseteq gateway.erased
        /\ gateway'.job.state \in {"", "running", "done", "error"}
    <3>1. \/ Reconciled
          \/ \E state \in {"done", "error"} : gateway' = [gateway EXCEPT !.job.state = state]
          \/ \E job \in {Job("running", DemoVector), NoJob} : gateway' = [gateway EXCEPT !.job = job]
      BY <1>6 DEF Background, InversionEnds, VisitorStarts, Restart
    <3>2. /\ DOMAIN gateway = {"memories", "erased", "anchored", "job"}
          /\ DOMAIN gateway.job = {"state", "input"}
      BY DEF ConsoleInv, GatewayOk
    <3>3. ASSUME NEW state \in {"done", "error"}, gateway' = [gateway EXCEPT !.job.state = state]
          PROVE  /\ gateway'.memories = gateway.memories /\ gateway'.erased = gateway.erased
                 /\ gateway'.anchored = gateway.anchored
                 /\ gateway'.job.state = state
      <4> DEFINE job == [gateway.job EXCEPT !.state = state]
      <4>1. job.state = state
        BY <3>2
      <4>2. gateway' = [gateway EXCEPT !.job = job]
        BY <3>2, <3>3
      <4> HIDE DEF job
      <4> QED
        BY <3>2, <4>1, <4>2
    <3>4. ASSUME NEW job \in {Job("running", DemoVector), NoJob}, gateway' = [gateway EXCEPT !.job = job]
          PROVE  /\ gateway'.memories = gateway.memories /\ gateway'.erased = gateway.erased
                 /\ gateway'.anchored = gateway.anchored
                 /\ gateway'.job.state \in {"running", ""}
      <4>1. Job("running", DemoVector).state = "running" /\ NoJob.state = ""
        BY DEF Job, NoJob
      <4>2. job.state \in {"running", ""}
        BY <4>1
      <4> QED
        BY <3>2, <3>4, <4>2
    <3>5. CASE Reconciled
      BY <3>5, ReconciledIs DEF TypeInv, GatewayType
    <3> QED
      BY <3>1, <3>3, <3>4, <3>5 DEF TypeInv, GatewayType
  <2>5. BoundsType' /\ GatewayType' /\ MockType'
    <3>1. BoundsType'
      BY <2>2, <2>3 DEF BoundsType, Fault, TypeInv
    <3>2. GatewayType' /\ MockType'
      BY <2>2, <2>4 DEF GatewayType, MockType, TypeInv
    <3> QED
      BY <3>1, <3>2
  <2> QED
    BY <1>6, <2>1, <2>5 DEF TypeInv, ShownType
<1>7. CASE UNCHANGED vars
  BY <1>1, <1>7 DEF vars, TypeInv, TasksType, ShownType
<1> QED
  BY <1>2, <1>3, <1>4, <1>5, <1>6, <1>7, ReaderIs DEF Next, Moves

LEMMA TypeHolds == Spec => []TypeInv
  BY TypeInit, TypeStep, ConsoleHolds, PTL DEF Spec

\* Every variable of the console has its type, the bounds of the session are
\* kept, nothing is erased that was not stored, and no flow that needs a
\* memory (useDemo.ts, requireSubject) is under way without one.
THEOREM ConsoleTypeCorrect == Spec => []TypeOK
<1>1. TypeInv => TypeOK
  BY DEF TypeInv, TasksType, TaskType, GatewayType, BoundsType, ShownType, TypeOK
<1> QED
  BY <1>1, TypeHolds, PTL

==============================================================================
