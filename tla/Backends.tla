------------------------------ MODULE Backends ------------------------------
(***************************************************************************)
(* What a DemoApi of the console calls: the gateway over HTTP (client.ts,  *)
(* the /api handlers, package demo), or the mock in the tab (mock.ts).     *)
(*                                                                         *)
(* A flow of the page is a task with at most one call in flight: its       *)
(* operation, and its answer once it has come.  The arguments of a call    *)
(* are fields of the task.  The gateway serves a call at any time, and the *)
(* call or its answer may be lost.  The mock serves within the microtasks  *)
(* of the tab: nothing else happens until a flow ends or awaits WebCrypto. *)
(*                                                                         *)
(* A memory is its subject, a number; its embedding is a number too: that  *)
(* of the demo sentence or that of the memory the writer stored.           *)
(***************************************************************************)
EXTENDS Naturals, Sequences, FiniteSetsExt

CONSTANTS Slots,      \* 1..n: the flows of a page that may overlap
          Sessions,   \* what a reader may do, with the bounds of the session:
                      \* the flows started, the memories the gateway stores,
                      \* the calls and answers lost and restarts
          MaxPolls,   \* bound on the polls until a deadline passes, and on
                      \* the confirmations of an audit
          None        \* no value

\* No value is neither a number nor a failed call.
ASSUME BackendsAssumption ==
    /\ MaxPolls \in Nat
    /\ Slots \subseteq Nat /\ IsFiniteSet(Slots)
    /\ Sessions \subseteq [flows : SUBSET STRING, memories : Nat, faults : Nat]
    /\ None \notin Nat /\ None # [ok |-> FALSE]

VARIABLES session,   \* one of the sessions
          backend,   \* "http" or "mock"
          gateway,   \* the process behind HTTP, and its database
          mock,      \* the mock's closure
          faults,    \* lost calls and restarts so far
          tasks      \* the flows under way

backends == <<session, backend, gateway, mock, faults>>

DemoVector == 0

Failed == [ok |-> FALSE]
Ok(v)  == [ok |-> TRUE, value |-> v]

\* The background live inversion.  An id is drawn afresh for every run, so
\* all that counts of the id a caller holds is whether its run still has the
\* slot: a flag of the caller.
Job(state, input) == [state |-> state, input |-> input]
NoJob == Job("", None)

NoTask == [flow |-> "none"]   \* a slot that is free

BackendsInit ==
    /\ session \in Sessions
    /\ backend \in {"http", "mock"}
    /\ gateway = [memories |-> <<>>, erased |-> {}, anchored |-> {}, job |-> NoJob]
    /\ mock = [subject |-> None, erased |-> FALSE, signed |-> None]
    /\ faults = 0
    /\ tasks = [t \in Slots |-> NoTask]

----------------------------------------------------------------------------
\* Calls and answers.

Calls(t, on, op) == /\ backend = on
                    /\ tasks[t] # NoTask /\ tasks[t].answer = None
                    /\ tasks[t].op = op
Answered(t, a)   == tasks' = [tasks EXCEPT ![t].answer = a]
Continues(t, op) == tasks' = [tasks EXCEPT ![t].op = op]

Fault == faults < session.faults /\ faults' = faults + 1

\* An answer, which may be lost on its way.
Reply(t, v) == \/ Answered(t, Ok(v)) /\ UNCHANGED faults
               \/ Answered(t, Failed) /\ Fault
Refuse(t)   == Answered(t, Failed) /\ UNCHANGED faults

----------------------------------------------------------------------------
\* The gateway.

\* The call never arrives, or the gateway is busy or times out.
Drop(t) ==
    /\ backend = "http" /\ tasks[t] # NoTask /\ tasks[t].answer = None
    /\ Answered(t, Failed) /\ Fault
    /\ UNCHANGED <<session, backend, gateway, mock>>

\* POST /memories, or the memory writer: Claude distils, the embedding worker
\* embeds, and the ingest stores.
Stores(t, vector) ==
    LET subject == Len(gateway.memories) + 1
    IN /\ gateway' = [gateway EXCEPT !.memories = Append(@, vector)]
       /\ Reply(t, [subject |-> subject, vector |-> vector])
       /\ UNCHANGED <<session, backend, mock>>
Ingest(t)      == Calls(t, "http", "ingest") /\ Stores(t, DemoVector)
WriteMemory(t) == Calls(t, "http", "write") /\ Stores(t, Len(gateway.memories) + 1)

\* GET /api/memory reads the memory's row, and then the key's.
Stored(s) == s \in DOMAIN gateway.memories
Live(s)   == Stored(s) /\ s \notin gateway.erased
Memory(t) ==
    /\ Calls(t, "http", "getMemory")
    /\ IF Stored(tasks[t].subject)
       THEN /\ tasks' = [tasks EXCEPT
                  ![t].op = "getKey",
                  ![t].view = [subject |-> tasks[t].subject,
                               embedding |-> Live(tasks[t].subject), key |-> FALSE]]
            /\ UNCHANGED faults
       ELSE Refuse(t)
    /\ UNCHANGED <<session, backend, gateway, mock>>
MemoryKeyLenient(t) ==     \* mutant: no answer is taken for no row
    /\ Calls(t, "http", "getKey")
    /\ \E key \in {FALSE, Live(tasks[t].subject)} : Reply(t, [tasks[t].view EXCEPT !.key = key])
    /\ UNCHANGED <<session, backend, gateway, mock>>
MemoryKey(t) ==
    /\ Calls(t, "http", "getKey")
    /\ Reply(t, [tasks[t].view EXCEPT !.key = Live(tasks[t].subject)])
    /\ UNCHANGED <<session, backend, gateway, mock>>

Found(t, found) == [subject |-> tasks[t].subject, vector |-> tasks[t].vector, found |-> found]
Search(t) ==
    /\ Calls(t, "http", "search")
    /\ Reply(t, Found(t, Live(tasks[t].subject)))
    /\ UNCHANGED <<session, backend, gateway, mock>>

\* POST /erase; 404 and 409 are refusals.  The erasure has committed when its
\* proof is anchored and recorded; if that fails it is left to a sweep, and
\* the answer says that the proof is pending.
EraseResult(s, pending) == [subject |-> s, pending |-> pending]
Erase(t) ==
    /\ Calls(t, "http", "erase")
    /\ IF Live(tasks[t].subject)
       THEN \E pending \in BOOLEAN :
              /\ gateway' = [gateway EXCEPT
                    !.erased = @ \union {tasks[t].subject},
                    !.anchored = @ \union IF pending THEN {} ELSE {tasks[t].subject}]
              /\ Reply(t, EraseResult(tasks[t].subject, pending))
       ELSE Refuse(t) /\ UNCHANGED gateway
    /\ UNCHANGED <<session, backend, mock>>

\* The erasure's record: what it signs is NULL until the proof is anchored.
RecordedProof(s) == [subject |-> s, signs |-> IF s \in gateway.anchored THEN s ELSE None]
GetProof(t) ==
    /\ Calls(t, "http", "getProof")
    /\ IF tasks[t].subject \in gateway.erased THEN Reply(t, RecordedProof(tasks[t].subject))
                                              ELSE Refuse(t)
    /\ UNCHANGED <<session, backend, gateway, mock>>

\* Calls whose answers the page shows as they are: the golden run, the log,
\* chain and role check of the audit stage, Titan's embedding of the
\* sentence, and the throwaway row read back from the past.
Read(t) ==
    /\ \E op \in {"inversion", "audit", "titan", "timeTravel"} : Calls(t, "http", op)
    /\ Reply(t, None)
    /\ UNCHANGED <<session, backend, gateway, mock>>

\* StartLiveInversion: single-flight per embedding.
Displaced == [t \in Slots |-> IF tasks[t] = NoTask THEN NoTask
                              ELSE [tasks[t] EXCEPT !.ours = FALSE]]
StartInversion(t) ==
    /\ Calls(t, "http", "start")
    /\ IF gateway.job.state # "running"
       THEN /\ gateway' = [gateway EXCEPT !.job = Job("running", tasks[t].vector)]
            /\ \/ /\ tasks' = [Displaced EXCEPT ![t].ours = TRUE, ![t].answer = Ok(None)]
                  /\ UNCHANGED faults
               \/ /\ tasks' = [Displaced EXCEPT ![t].ours = TRUE, ![t].answer = Failed]
                  /\ Fault
       ELSE /\ IF gateway.job.input = tasks[t].vector
               THEN tasks' = [tasks EXCEPT ![t].ours = TRUE, ![t].answer = Ok(None)]
                    /\ UNCHANGED faults
               ELSE Refuse(t)
            /\ UNCHANGED gateway
    /\ UNCHANGED <<session, backend, mock>>

\* LiveInversionStatus, for the job the caller started.
StatusOfAny(t) == gateway.job      \* mutant: whatever run has the slot
StatusOf(t) == IF gateway.job # NoJob /\ ~tasks[t].ours THEN Job("superseded", None)
               ELSE gateway.job
InversionStatus(t) ==
    /\ Calls(t, "http", "status")
    /\ Reply(t, StatusOf(t))
    /\ UNCHANGED <<session, backend, gateway, mock>>

\* Whether the model's container is up.
Warm(t) ==
    /\ Calls(t, "http", "warm")
    /\ \E warm \in BOOLEAN : Reply(t, warm)
    /\ UNCHANGED <<session, backend, gateway, mock>>

\* The audit: the model calls tools round after round, whichever it likes.
\* The evidence is the last confirm_key_destroyed: the key's row is gone,
\* and then the record is there.  A tool that fails shows nothing.
ConfirmKey(t) ==
    /\ Calls(t, "http", "forensics") /\ tasks[t].polls < MaxPolls
    /\ tasks' = [tasks EXCEPT ![t].op = "confirm", ![t].polls = @ + 1,
                              ![t].view = [key |-> Live(tasks[t].subject)]]
    /\ UNCHANGED <<session, backend, gateway, mock, faults>>
ConfirmRecord(t) ==
    /\ Calls(t, "http", "confirm")
    /\ \/ /\ tasks' = [tasks EXCEPT ![t].op = "forensics",
              ![t].proven = ~tasks[t].view.key /\ tasks[t].subject \in gateway.erased]
          /\ UNCHANGED faults
       \/ tasks' = [tasks EXCEPT ![t].op = "forensics", ![t].proven = FALSE] /\ Fault
    /\ UNCHANGED <<session, backend, gateway, mock>>
Verdict(t) ==
    /\ Calls(t, "http", "forensics")
    /\ Reply(t, [subject |-> tasks[t].subject, proven |-> tasks[t].proven])
    /\ UNCHANGED <<session, backend, gateway, mock>>

\* In the background: a sweep anchors a proof that is pending, the run ends,
\* another visitor starts one on the demo sentence (while it matters), the
\* process restarts.
Reconciled ==
    /\ \E s \in gateway.erased \ gateway.anchored :
          gateway' = [gateway EXCEPT !.anchored = @ \union {s}]
    /\ UNCHANGED <<session, backend, mock, faults, tasks>>
InversionEnds ==
    /\ gateway.job.state = "running"
    /\ \E state \in {"done", "error"} : gateway' = [gateway EXCEPT !.job.state = state]
    /\ UNCHANGED <<session, backend, mock, faults, tasks>>
VisitorStarts ==
    /\ \E t \in Slots : tasks[t] # NoTask /\ tasks[t].op \in {"start", "status"}
    /\ gateway.job.state # "running"
    /\ gateway' = [gateway EXCEPT !.job = Job("running", DemoVector)]
    /\ tasks' = Displaced
    /\ UNCHANGED <<session, backend, mock, faults>>
Restart ==
    /\ backend = "http" /\ Fault
    /\ gateway' = [gateway EXCEPT !.job = NoJob]
    /\ tasks' = Displaced
    /\ UNCHANGED <<session, backend, mock>>

Gateway(t) == \/ Ingest(t) \/ WriteMemory(t) \/ Memory(t) \/ MemoryKey(t)
              \/ Search(t) \/ Erase(t) \/ GetProof(t) \/ Read(t)
              \/ StartInversion(t) \/ InversionStatus(t)
              \/ Warm(t) \/ ConfirmKey(t) \/ ConfirmRecord(t) \/ Verdict(t)
Background == Reconciled \/ InversionEnds \/ VisitorStarts \/ Restart

----------------------------------------------------------------------------
\* The mock: one current subject, whatever subject a call names.

MockDemo    == 1        \* the subject every ingest stores
MockWritten == 2        \* the one the writer stores; its embedding too

\* A flow that awaits WebCrypto lets others go first; any other does not,
\* nor does one that calls nothing, whatever the backend.
Awaits(t) == tasks[t].op \in {"written", "signed"} /\ tasks[t].answer = None
Urgent(t) == /\ tasks[t] # NoTask
             /\ tasks[t].op = "none" \/ (backend = "mock" /\ ~Awaits(t))
Turn(t)   == \A u \in Slots \ {t} : ~Urgent(u)

MockSets(m)    == mock' = m /\ UNCHANGED <<session, backend, gateway>>
MockAnswers(t, v) == Answered(t, Ok(v)) /\ UNCHANGED <<session, backend, gateway, mock, faults>>
MockRefuses(t)    == Refuse(t) /\ UNCHANGED <<session, backend, gateway, mock>>

MockIngest(t) ==
    /\ Calls(t, "mock", "ingest")
    /\ MockSets([mock EXCEPT !.subject = MockDemo, !.erased = FALSE])
    /\ Answered(t, Ok([subject |-> MockDemo, vector |-> DemoVector]))
    /\ UNCHANGED faults

\* A mutant: the new memory inherits the erasure of the last one.
MockWriteErased(t) ==
    /\ Calls(t, "mock", "write")
    /\ MockSets([mock EXCEPT !.subject = MockWritten])
    /\ Continues(t, "written")
    /\ UNCHANGED faults

\* The writer's digest is awaited before its answer names the subject.
MockWrite(t) ==
    /\ Calls(t, "mock", "write")
    /\ MockSets([subject |-> MockWritten, erased |-> FALSE, signed |-> None])
    /\ Continues(t, "written")
    /\ UNCHANGED faults
MockWriteEnds(t) ==
    /\ Calls(t, "mock", "written")
    /\ MockAnswers(t, [subject |-> mock.subject, vector |-> MockWritten])

MockGetMemory(t) ==
    /\ Calls(t, "mock", "getMemory")
    /\ IF mock.subject = None THEN MockRefuses(t)
       ELSE MockAnswers(t, [subject |-> mock.subject,
                            embedding |-> ~mock.erased, key |-> ~mock.erased])

MockSearch(t) ==
    /\ Calls(t, "mock", "search")
    /\ MockAnswers(t, Found(t, ~mock.erased /\ tasks[t].subject = mock.subject))

\* The subject's digest and the signature are awaited after the erasure.
MockErase(t) ==
    /\ Calls(t, "mock", "erase")
    /\ IF mock.subject = None \/ mock.erased THEN MockRefuses(t)
       ELSE /\ MockSets([mock EXCEPT !.erased = TRUE])
            /\ tasks' = [tasks EXCEPT ![t].op = "signed",
                                      ![t].erased = EraseResult(mock.subject, FALSE)]
            /\ UNCHANGED faults
MockEraseEnds(t) ==
    /\ Calls(t, "mock", "signed")
    /\ MockSets([mock EXCEPT !.signed = tasks[t].erased.subject])
    /\ Answered(t, Ok(tasks[t].erased))
    /\ UNCHANGED faults

MockGetProof(t) ==
    /\ Calls(t, "mock", "getProof")
    /\ IF mock.erased THEN MockAnswers(t, [subject |-> mock.subject, signs |-> mock.signed])
                      ELSE MockRefuses(t)

MockRead(t) ==
    /\ \E op \in {"inversion", "audit", "timeTravel"} : Calls(t, "mock", op)
    /\ MockAnswers(t, None)

MockAgent(t) ==
    \/ Calls(t, "mock", "warm") /\ MockAnswers(t, TRUE)
    \/ /\ Calls(t, "mock", "forensics")
       /\ MockAnswers(t, [subject |-> mock.subject, proven |-> mock.erased])

Mock(t) == \/ MockIngest(t) \/ MockWrite(t) \/ MockWriteEnds(t)
           \/ MockGetMemory(t) \/ MockSearch(t)
           \/ MockErase(t) \/ MockEraseEnds(t) \/ MockGetProof(t)
           \/ MockRead(t) \/ MockAgent(t)

\* A call in flight is served, or lost.
Serve(t) == Gateway(t) \/ Drop(t) \/ (Turn(t) /\ Mock(t))
=============================================================================
