------------------------------ MODULE Console -------------------------------
(***************************************************************************)
(* The demo console: the flows of useDemo.ts as the buttons of             *)
(* DemoConsole.tsx start them, against either backend.                     *)
(*                                                                         *)
(* What a stage, the writer, the live run or the agent does is a flow of   *)
(* awaited calls.  Stages exclude one another while any of them is shown   *)
(* running; the three panels only exclude themselves; a reset leaves flows *)
(* under way.  A flow goes on with an answer, updates the page and issues  *)
(* its next call in one step, as the code between two awaits does.         *)
(***************************************************************************)
EXTENDS Backends

VARIABLES page,   \* DemoState: what is shown
          ref,    \* subjectRef and embeddingRef
          torn    \* observer: flows crossed or a loader failed halfway, and
                  \* no memory was loaded cleanly since

vars == <<backends, tasks, page, ref, torn>>

Stages  == {"memory", "leak", "envelope", "erase", "durability", "audit"}
Loaders == {"memory", "writer"}
OfSubject == Loaders \union {"envelope", "erase"}   \* they use the refs
Flows   == Stages \union {"writer", "live", "titan", "timeTravel", "agent"}

NoRef == [subject |-> None, vector |-> DemoVector]

\* initialState
InitialPage ==
    [subject |-> None, vector |-> DemoVector, written |-> None,
     memory |-> None, after |-> None, erase |-> None, proof |-> None,
     before |-> None, searchAfter |-> None,
     inversion |-> FALSE, live |-> None, audit |-> None, running |-> {}]

Init == BackendsInit /\ page = InitialPage /\ ref = NoRef /\ torn = FALSE

----------------------------------------------------------------------------
\* Flows.

FirstCall == [memory |-> "ingest", leak |-> "inversion", envelope |-> "getMemory",
              erase |-> "erase", durability |-> "none", audit |-> "audit",
              writer |-> "write", live |-> "start", titan |-> "titan",
              timeTravel |-> "timeTravel", agent |-> "warm"]

\* A flow takes from the refs what it needs.
Task(flow, auto) ==
    [flow |-> flow, auto |-> auto, op |-> FirstCall[flow], answer |-> None,
     subject |-> IF flow \in {"envelope", "erase", "agent"} THEN ref.subject ELSE None,
     vector |-> IF flow = "live" THEN ref.vector ELSE None,
     ours |-> FALSE, view |-> None, erased |-> None, proof |-> None,
     proven |-> FALSE, polls |-> 0, crossed |-> FALSE]

\* requireSubject: without a subject the stage fails at once.
AlwaysMay(flow) == TRUE            \* mutant: no guard
MaySucceed(flow) == flow \in {"envelope", "erase", "agent"} => ref.subject # None

Running(ts, flows) == {t \in Slots : ts[t] # NoTask /\ ts[t].flow \in flows}

\* Flows that use the refs and overlap are marked.
Mark(ts) == IF Cardinality(Running(ts, OfSubject)) <= 1 THEN ts
            ELSE [t \in Slots |-> IF t \in Running(ts, OfSubject)
                                  THEN [ts[t] EXCEPT !.crossed = TRUE] ELSE ts[t]]
Becomes(t, task) == tasks' = Mark([tasks EXCEPT ![t] = task])

\* The stage whose flow is t ends well, and the autopilot goes on with the
\* next: the code between two awaits.
After == [memory |-> "leak", leak |-> "envelope", envelope |-> "erase",
          erase |-> "durability", durability |-> "audit"]
StageDone(t, shown) ==
    LET flow == tasks[t].flow
        done == [shown EXCEPT !.running = @ \ {flow}]
        goesOn == /\ tasks[t].auto /\ flow \in DOMAIN After
                  /\ MaySucceed(After[flow])
    IN IF goesOn
       THEN /\ page' = [done EXCEPT !.running = @ \union {After[flow]}]
            /\ Becomes(t, Task(After[flow], TRUE))
       ELSE page' = done /\ Becomes(t, NoTask)

Asks(t, task, op) == Becomes(t, [task EXCEPT !.op = op, !.answer = None])

\* Observer: a cleanly loaded memory sets the refs and the page right.
Ends(t) == torn' = IF tasks[t].flow \in Loaders THEN tasks[t].crossed
                   ELSE torn \/ tasks[t].crossed

----------------------------------------------------------------------------
\* The reader.

Busy == page.running \intersect Stages # {}
Free == {t \in Slots : tasks[t] = NoTask}
\* A click is a task of the event loop of its own.
Click == Free # {} /\ \A t \in Slots : ~Urgent(t)

\* The bound: memories stored, and those of loaders that may still store one.
MayLoad == backend = "http" =>
    Len(gateway.memories) + Cardinality({t \in Running(tasks, Loaders) :
        tasks[t].op \in {"ingest", "write"} /\ tasks[t].answer = None}) < session.memories

Begins(flow, auto) ==
    /\ Click /\ MaySucceed(flow)
    /\ (IF auto THEN "runAll" ELSE flow) \in session.flows
    /\ page' = [page EXCEPT !.running = @ \union {flow}]
    /\ Becomes(Min(Free), Task(flow, auto))
    /\ UNCHANGED <<backends, ref, torn>>

RunStage(s, auto) == ~Busy /\ (s = "memory" => MayLoad) /\ Begins(s, auto)
RunAll            == RunStage("memory", TRUE)

\* These buttons do not look at the stages, nor the stages at them.  Three
\* are below the leak's result, two of them where a worker is wired.
LeakPanels == IF ~page.inversion THEN {}
              ELSE {"timeTravel"} \union (IF backend = "http" THEN {"live", "titan"} ELSE {})
RunMemoryWriter == "writer" \notin page.running /\ MayLoad /\ Begins("writer", FALSE)
RunLiveLeak     == "live" \in LeakPanels \ page.running /\ Begins("live", FALSE)
RunTitan        == "titan" \in LeakPanels \ page.running /\ Begins("titan", FALSE)
RunTimeTravel   == "timeTravel" \in LeakPanels \ page.running /\ Begins("timeTravel", FALSE)
RunForensics    == /\ "agent" \notin page.running /\ page.subject # None
                   /\ Begins("agent", FALSE)

\* The whole state is replaced, and the flows under way go on.
Reset ==
    /\ \A t \in Slots : ~Urgent(t)
    /\ ~Busy
    /\ page' = InitialPage /\ ref' = NoRef /\ torn' = FALSE
    /\ tasks' = [t \in Slots |-> IF t \in Running(tasks, OfSubject)
                                 THEN [tasks[t] EXCEPT !.crossed = TRUE] ELSE tasks[t]]
    /\ UNCHANGED backends

Reader == \/ \E s \in Stages : RunStage(s, FALSE)
          \/ RunAll \/ RunMemoryWriter \/ RunLiveLeak \/ RunTitan
          \/ RunTimeTravel \/ RunForensics
          \/ Reset

----------------------------------------------------------------------------
\* Going on with an answer.

Comes(t, op) == tasks[t] # NoTask /\ tasks[t].op = op /\ tasks[t].answer \notin {None, Failed}
Value(t)     == tasks[t].answer.value
\* A search that fails shows nothing and fails nothing.
SearchComes(t) == tasks[t] # NoTask /\ tasks[t].op = "search" /\ tasks[t].answer # None
SearchResult(t) == IF tasks[t].answer = Failed THEN None ELSE Value(t)

\* A mutant: embeddingRef is left to the next render.
MemoryStoredHalf(t) ==
    /\ \E op \in {"ingest", "write", "written"} : Comes(t, op)
    /\ ref' = [ref EXCEPT !.subject = Value(t).subject]
    /\ Asks(t, [tasks[t] EXCEPT !.subject = Value(t).subject, !.vector = Value(t).vector],
            "getMemory")
    /\ UNCHANGED <<backends, page, torn>>

\* runMemory, runMemoryWriter: the refs move as soon as the memory is stored.
MemoryStored(t) ==
    /\ \E op \in {"ingest", "write", "written"} : Comes(t, op)
    /\ ref' = Value(t)
    /\ Asks(t, [tasks[t] EXCEPT !.subject = Value(t).subject, !.vector = Value(t).vector],
            "getMemory")
    /\ UNCHANGED <<backends, page, torn>>

Viewed(t) ==
    /\ \E op \in {"getMemory", "getKey"} : Comes(t, op)
    /\ tasks[t].flow \in Loaders
    /\ Asks(t, [tasks[t] EXCEPT !.view = Value(t)], "search")
    /\ UNCHANGED <<backends, page, ref, torn>>

\* A memory loaded replaces all that was shown of the last one.
Loaded(t) == [page EXCEPT !.subject = tasks[t].subject, !.vector = tasks[t].vector,
                          !.memory = tasks[t].view, !.before = SearchResult(t),
                          !.after = None, !.erase = None, !.proof = None,
                          !.searchAfter = None]
MemoryLoaded(t) ==
    /\ SearchComes(t) /\ tasks[t].flow = "memory"
    /\ StageDone(t, [Loaded(t) EXCEPT !.written = None, !.running = @ \ {"writer"}])
    /\ Ends(t)
    /\ UNCHANGED <<backends, ref>>
WriterLoaded(t) ==
    /\ SearchComes(t) /\ tasks[t].flow = "writer"
    /\ page' = [Loaded(t) EXCEPT !.written = tasks[t].vector,
                                 !.inversion = FALSE, !.live = None,
                                 !.running = @ \ {"writer", "live", "memory"}]
    /\ Becomes(t, NoTask) /\ Ends(t)
    /\ UNCHANGED <<backends, ref>>

\* runLeak, runEnvelope, runDurability (a recorded run), runAudit.
Leaked(t) ==
    /\ Comes(t, "inversion")
    /\ StageDone(t, [page EXCEPT !.inversion = TRUE])
    /\ UNCHANGED <<backends, ref, torn>>
EnvelopeSeen(t) ==
    /\ \E op \in {"getMemory", "getKey"} : Comes(t, op)
    /\ tasks[t].flow = "envelope"
    /\ StageDone(t, [page EXCEPT !.memory = Value(t)])
    /\ Ends(t)
    /\ UNCHANGED <<backends, ref>>
Endured(t) ==
    /\ tasks[t] # NoTask /\ tasks[t].op = "none"
    /\ StageDone(t, page)
    /\ UNCHANGED <<backends, ref, torn>>
Audited(t) ==
    /\ Comes(t, "audit")
    /\ StageDone(t, page)
    /\ UNCHANGED <<backends, ref, torn>>

\* runErase: the erasure, the memory as it is now, the proof, the search.
Erased(t) ==
    /\ \E op \in {"erase", "signed"} : Comes(t, op)
    /\ Asks(t, [tasks[t] EXCEPT !.erased = Value(t)], "getMemory")
    /\ UNCHANGED <<backends, page, ref, torn>>
AfterSeen(t) ==
    /\ \E op \in {"getMemory", "getKey"} : Comes(t, op)
    /\ tasks[t].flow = "erase"
    /\ Asks(t, [tasks[t] EXCEPT !.view = Value(t)], "getProof")
    /\ UNCHANGED <<backends, page, ref, torn>>
ProofSeen(t) ==
    /\ Comes(t, "getProof")
    /\ Asks(t, [tasks[t] EXCEPT !.proof = Value(t), !.vector = ref.vector], "search")
    /\ UNCHANGED <<backends, page, ref, torn>>
EraseShown(t) ==
    /\ SearchComes(t) /\ tasks[t].flow = "erase"
    /\ StageDone(t, [page EXCEPT !.erase = tasks[t].erased, !.after = tasks[t].view,
                                 !.proof = tasks[t].proof, !.searchAfter = SearchResult(t)])
    /\ Ends(t)
    /\ UNCHANGED <<backends, ref>>

\* runLiveLeak: start, then poll the job until it ends or the deadline has
\* passed.
JobStarted(t) ==
    /\ Comes(t, "start")
    /\ Asks(t, tasks[t], "status")
    /\ UNCHANGED <<backends, page, ref, torn>>
OverRunning(t, shown) == page' = shown /\ Becomes(t, NoTask)   \* mutant: no setStatus
Over(t, shown) == /\ page' = [shown EXCEPT !.running = @ \ {tasks[t].flow}]
                  /\ Becomes(t, NoTask)
\* Poll again after a pause, unless the deadline has passed.  The mutant: always.
PollsForever(t, op) == Asks(t, tasks[t], op) /\ UNCHANGED page
PollsOn(t, op) ==
    \/ /\ tasks[t].polls < MaxPolls
       /\ Asks(t, [tasks[t] EXCEPT !.polls = @ + 1], op) /\ UNCHANGED page
    \/ Over(t, page)
Polled(t) ==
    /\ Comes(t, "status")
    /\ LET job == Value(t)
       IN \/ /\ job.state = "done"
             /\ Over(t, [page EXCEPT !.live = [inverts |-> job.input,
                                               asked |-> tasks[t].vector]])
          \/ job.state \in {"error", "superseded"} /\ Over(t, page)
          \/ job.state \in {"", "running"} /\ PollsOn(t, "status")
    /\ UNCHANGED <<backends, ref, torn>>

\* runForensics: wait until the model is warm, then have it audit the subject
\* that was current at the click.
WarmPolled(t) ==
    /\ Comes(t, "warm")
    /\ \/ Value(t) /\ Asks(t, [tasks[t] EXCEPT !.polls = 0], "forensics") /\ UNCHANGED page
       \/ ~Value(t) /\ PollsOn(t, "warm")
    /\ UNCHANGED <<backends, ref, torn>>
VerdictComes(t) ==
    /\ Comes(t, "forensics")
    /\ Over(t, [page EXCEPT !.audit = Value(t)])
    /\ UNCHANGED <<backends, ref, torn>>

\* runTitan, runTimeTravel.
TitanComes(t) ==
    /\ Comes(t, "titan")
    /\ Over(t, page)
    /\ UNCHANGED <<backends, ref, torn>>
PastComes(t) ==
    /\ Comes(t, "timeTravel")
    /\ Over(t, page)
    /\ UNCHANGED <<backends, ref, torn>>

\* A call failed, and with it the flow; an autopilot stops.  A loader that
\* stored its memory has moved the refs.
Halfway(t) == tasks[t].flow \in Loaders /\ tasks[t].subject # None
Fails(t) ==
    /\ tasks[t] # NoTask /\ tasks[t].answer = Failed /\ tasks[t].op # "search"
    /\ torn' = (torn \/ tasks[t].crossed \/ Halfway(t))
    /\ Over(t, page)
    /\ UNCHANGED <<backends, ref>>

GoesOn(t) == \/ MemoryStored(t) \/ Viewed(t) \/ MemoryLoaded(t) \/ WriterLoaded(t)
             \/ Leaked(t) \/ EnvelopeSeen(t) \/ Endured(t) \/ Audited(t)
             \/ Erased(t) \/ AfterSeen(t) \/ ProofSeen(t) \/ EraseShown(t)
             \/ JobStarted(t) \/ Polled(t) \/ WarmPolled(t) \/ VerdictComes(t)
             \/ TitanComes(t) \/ PastComes(t)
             \/ Fails(t)

----------------------------------------------------------------------------
\* What the panels say.

\* The memory stage: the text stored, its row, and what a search for it found.
MemoryPanel == [text |-> page.written, memory |-> page.memory, search |-> page.before]
\* retrievalItems: "found", or "0 rows".
Retrieval(search) == IF search.found THEN "found" ELSE "0 rows"
\* The erase stage: "destroyed" or "STILL PRESENT", the proof, the same search.
ErasePanel ==
    [erased |-> page.erase.subject,
     anchor |-> IF page.erase.pending THEN "(anchoring pending)" ELSE "proof_ref",
     vector |-> IF page.after.embedding THEN "STILL PRESENT" ELSE "destroyed",
     key    |-> IF page.after.key THEN "STILL PRESENT" ELSE "destroyed",
     proof  |-> page.proof, before |-> page.before, now |-> page.searchAfter]
\* The agent's panel: the server's reading of the evidence, not the text.
ProvenByEvidence == page.audit # None /\ page.audit.proven
\* The instrument strip: the subject key of the latest memory read.
LatestMemory == IF page.after # None THEN page.after ELSE page.memory
KeyLight     == IF LatestMemory = None THEN "--" ELSE IF LatestMemory.key THEN "ON" ELSE "OFF"

----------------------------------------------------------------------------
\* A flow moves: its call is served or lost, or it goes on with the answer.
Moves(t) == \/ Serve(t) /\ UNCHANGED <<page, ref, torn>>
            \/ Turn(t) /\ GoesOn(t)

Next == \/ Reader
        \/ \E t \in Slots : Moves(t)
        \/ Background /\ UNCHANGED <<page, ref, torn>>

Spec == Init /\ [][Next]_vars

\* Every call is answered or fails, and the event loop takes its tasks in
\* order: a flow that awaits WebCrypto while others come and go has its
\* turn.  Nothing is asked of the reader, other visitors or the GPU.
FairSpec == Spec /\ \A t \in Slots : SF_vars(Moves(t))

----------------------------------------------------------------------------
\* Properties.

Ids == Nat \union {None}

\* Every variable has its type, and a flow is where its code can be.
TypeOK ==
    /\ backend \in {"http", "mock"}
    /\ gateway.memories \in Seq(Nat) /\ gateway.erased \subseteq DOMAIN gateway.memories
    /\ gateway.anchored \subseteq gateway.erased
    /\ gateway.job.state \in {"", "running", "done", "error"}
    /\ session \in Sessions /\ faults \in 0..session.faults
    /\ ref.subject \in Ids /\ ref.vector \in Nat
    /\ page.subject \in Ids /\ page.vector \in Nat
    /\ page.running \subseteq Flows
    /\ \A t \in Slots : tasks[t] # NoTask =>
          /\ tasks[t].flow \in Flows
          /\ tasks[t].auto => tasks[t].flow \in Stages
          /\ tasks[t].flow \in {"envelope", "erase", "agent"} => tasks[t].subject # None

\* The result of the erase stage is one erasure: the memory shown after it
\* has neither embedding nor key, and the proof is of that erasure and signs
\* it, whatever overlapped.  A proof that signs nothing yet is shown only if
\* the erasure's own answer said that it was pending: what was answered as
\* anchored is read back signed, and the mock signs at once.
ErasureIsShownWhole ==
    page.erase # None =>
        /\ page.after.subject = ErasePanel.erased
        /\ ErasePanel.vector = "destroyed" /\ ErasePanel.key = "destroyed"
        /\ ErasePanel.proof.subject = ErasePanel.erased
        /\ \/ ErasePanel.proof.signs = ErasePanel.erased
           \/ /\ backend = "http" /\ ErasePanel.anchor = "(anchoring pending)"
              /\ ErasePanel.proof.signs = None

\* What the page calls gone was erased: no read that is overtaken by an
\* erasure, fails halfway or comes late puts the key's light out or makes
\* the evidence of the agent's tools prove an erasure that did not happen.
GoneMeansErased ==
    backend = "http" =>
        /\ KeyLight = "OFF" => LatestMemory.subject \in gateway.erased
        /\ ProvenByEvidence => page.audit.subject \in gateway.erased

\* What the next stage acts on, embedding included, is the memory shown, and
\* everything shown is of that memory: the same search found it before and
\* not after.  Not so while a loader runs, after flows that overlapped, or
\* after a loader that failed halfway.
ActsOnWhatIsShown ==
    ~torn /\ Running(tasks, Loaders) = {} =>
        /\ ref = [subject |-> page.subject, vector |-> page.vector]
        /\ MemoryPanel.memory # None => MemoryPanel.memory.subject = page.subject
        /\ MemoryPanel.text = None <=> page.vector = DemoVector
        /\ \A search \in {page.before, page.searchAfter} \ {None} :
              search.subject = page.subject /\ search.vector = page.vector
        /\ page.before # None => Retrieval(page.before) = "found"
        /\ page.searchAfter # None => Retrieval(page.searchAfter) = "0 rows"
        /\ page.erase # None => page.erase.subject = page.subject

\* A live result is the inversion of the embedding it was asked for, whoever
\* else used the one job slot meanwhile.
LiveResultIsOurs == page.live # None => page.live.inverts = page.live.asked

\* What is shown running is under way: no stage or panel stays "running"
\* with nothing left that could end it.
RunningIsUnderWay == \A f \in page.running : Running(tasks, {f}) # {}

\* Every flow ends, whatever becomes of the GPU, the model or the gateway.
FlowsEnd == \A t \in Slots : tasks[t] # NoTask ~> tasks[t] = NoTask
=============================================================================
