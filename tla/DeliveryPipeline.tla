--------------------------- MODULE DeliveryPipeline ---------------------------
(***************************************************************************)
(* A delivery from the door to its outcome: the HTTP handler that accepts  *)
(* it (server/inlet_handlers.go), the ledger row (RunLedger), the queue    *)
(* and its workers (WorkQueue), the worker's run of the agent              *)
(* (server/delivery_runner.go, engine/unattended.go), the chat turn that   *)
(* shares the workspace with it (engine/engine.go), the operator's cancel  *)
(* (server/queue_handlers.go), the callback that announces the outcome     *)
(* (server/callback.go), and a boot that starts the pool before it         *)
(* reconciles the ledger (server/server.go).                               *)
(*                                                                         *)
(* One workspace.  Its lane is WS; each run has a lane of its own for its  *)
(* callback.  The queue's own steps are WorkQueue's, conjoined with what   *)
(* the surrounding code does in the same step.                             *)
(***************************************************************************)
EXTENDS WorkQueue

CONSTANTS
    Requests,          \* deliveries that arrive; also their ledger rows
    KeyOf,             \* [Requests -> client idempotency key or NoKey]
    Listeners,         \* requests whose task has a callback URL
    WS,                \* the workspace's lane
    QueueMax,          \* queue_max_per_workspace
    CallbackAttempts,  \* callbackAttempts
    Crashes,           \* whether the process may crash or be stopped
    Panics             \* whether a runner may panic

Tries    == 0..(CallbackAttempts - 1)
ChatJob  == [kind |-> "chat"]
Delivery(r)    == [kind |-> "delivery", run |-> r]
Callback(r, n) == [kind |-> "callback", run |-> r, try |-> n]
CallbackKey(r, n) == <<r, n>>

ASSUME PipelineConstants ==
    /\ WS \in Lanes /\ Requests \subseteq Lanes \ {WS}
    /\ KeyOf \in [Requests -> Keys \cup {NoKey}]
    /\ Listeners \subseteq Requests
    /\ CallbackAttempts \in Nat \ {0}
    /\ \A r \in Requests, n \in Tries : CallbackKey(r, n) \in Keys
    /\ Jobs = {ChatJob} \cup {Delivery(r) : r \in Requests}
                \cup {Callback(r, n) : r \in Requests, n \in Tries}

VARIABLES
    ledger,      \* inlet_runs
    door,        \* [Requests -> [pc, from]]: where its handler is, and the run
                 \* it will be answered from
    answer,      \* [Requests -> the state the caller was told, or "none"]
    runner,      \* [Workers -> [pc, verdict]]: where the runner of its unit is
    turn,        \* [Chats -> where the operator's one turn is]
    latch,       \* Engine.running of the workspace
    pending,     \* Engine.pendingWork of the workspace, 0 for none
    turnUnit,    \* turnState.workID of the turn in progress
    cancelling,  \* cancelled units whose ledger row is still to be settled
    telling,     \* runs a cancel has settled and not yet announced
    serving,     \* Bootstrap is over and the listener is open
    agentRuns    \* how often each delivery reached its agent

Ledger == INSTANCE RunLedger WITH Runs <- Requests

engineVars   == <<latch, pending, turnUnit>>
cancelVars   == <<cancelling, telling>>
pipelineVars == <<ledger, door, answer, runner, turn, engineVars, cancelVars,
                  serving, agentRuns>>
allVars      == <<vars, pipelineVars>>

\* What judge and failedRun can settle a run as.  failedRun has a case for an
\* interrupted run, on a context that is never cancelled.
Verdicts == {"completed", "failed", "refused_expectation",
             "refused_output_schema", "refused_budget"}
NoRunner == [pc |-> "none", verdict |-> "none"]
JobOf(w) == work[worker[w].unit].job
AtDoor(r, pc) == door[r].pc = pc
DoorGoes(r, pc) == door' = [door EXCEPT ![r].pc = pc]

PInit ==
    /\ Init
    /\ ledger = [r \in Requests |-> "none"]
    /\ door = [r \in Requests |-> [pc |-> "new", from |-> r]]
    /\ answer = [r \in Requests |-> "none"]
    /\ runner = [w \in Workers |-> NoRunner]
    /\ turn = [c \in Chats |-> "new"]
    /\ latch = FALSE /\ pending = 0 /\ turnUnit = 0
    /\ cancelling = {} /\ telling = {}
    /\ serving = FALSE
    /\ agentRuns = [r \in Requests |-> 0]

------------------------------------------------------------------------------
(* settle's second half: whoever writes an outcome then reads the row back *)
(* and queues its callback, once per run.                                  *)

\* Mutant of Announce: the unit is queued without the key of its run.
AnnounceUnkeyed(r) ==
    IF r \in Listeners
    THEN \E i \in Ids : Enqueue(i, r, NoKey, Callback(r, 0), clock)
    ELSE UNCHANGED vars

Announce(r) ==
    IF r \in Listeners /\ ~KeyTaken(CallbackKey(r, 0))
    THEN \E i \in Ids : Enqueue(i, r, CallbackKey(r, 0), Callback(r, 0), clock)
    ELSE UNCHANGED vars

------------------------------------------------------------------------------
(* The door: handleInletDelivery.                                          *)

\* The idempotency key is looked up before anything is recorded.
LookUpKey(r) ==
    /\ serving /\ AtDoor(r, "new")
    /\ \/ /\ ~KeyTaken(KeyOf[r])
          /\ DoorGoes(r, "fresh")
       \/ \E i \in DOMAIN work :
             /\ KeyOf[r] # NoKey /\ work[i].key = KeyOf[r]
             /\ door' = [door EXCEPT ![r] = [pc |-> "answering", from |-> work[i].job.run]]
    /\ UNCHANGED <<vars, ledger, answer, runner, turn, engineVars, cancelVars, serving, agentRuns>>

AcceptRun(r) ==
    /\ AtDoor(r, "fresh")
    /\ Ledger!Accept(r)
    /\ DoorGoes(r, "accepted")
    /\ UNCHANGED <<vars, answer, runner, turn, engineVars, cancelVars, serving, agentRuns>>

Waiting == {i \in InState({"queued"}) : work[i].lane = WS}

\* Refused before the queue: the target is gone or has no model, the lane has
\* too many waiting, or the payload does not come or does not fit.
Refuse(r) ==
    /\ \/ (AtDoor(r, "accepted") \/ AtDoor(r, "counted")) /\ Ledger!SettleOrLog(r, "failed")
       \/ AtDoor(r, "counted") /\ Ledger!SettleOrLog(r, "refused_schema")
    /\ DoorGoes(r, "settled")
    /\ UNCHANGED <<vars, answer, runner, turn, engineVars, cancelVars, serving, agentRuns>>

\* The depth check, with the body still unread.
CountWaiting(r) ==
    /\ AtDoor(r, "accepted")
    /\ Cardinality(Waiting) < QueueMax
    /\ DoorGoes(r, "counted")
    /\ UNCHANGED <<vars, ledger, answer, runner, turn, engineVars, cancelVars, serving, agentRuns>>

RecordQueued(r) ==
    /\ AtDoor(r, "counted")
    /\ Ledger!Queued(r)
    /\ DoorGoes(r, "queued")
    /\ UNCHANGED <<vars, answer, runner, turn, engineVars, cancelVars, serving, agentRuns>>

\* Mutant of EnqueueDelivery: the key is looked up at the door and not stored.
EnqueueUnkeyed(r) ==
    /\ AtDoor(r, "queued")
    /\ \E i \in Ids : Enqueue(i, WS, NoKey, Delivery(r), clock)
    /\ DoorGoes(r, "answering")
    /\ UNCHANGED <<ledger, answer, runner, turn, engineVars, cancelVars, serving, agentRuns>>

EnqueueDelivery(r) ==
    /\ AtDoor(r, "queued")
    /\ \E i \in Ids : Enqueue(i, WS, KeyOf[r], Delivery(r), clock)
    /\ DoorGoes(r, "answering")
    /\ UNCHANGED <<ledger, answer, runner, turn, engineVars, cancelVars, serving, agentRuns>>

\* Mutant of EnqueueDuplicate: the loser of the race waits for its own run.
DuplicateWaitsForItself(r) ==
    /\ AtDoor(r, "queued")
    /\ KeyTaken(KeyOf[r])
    /\ DoorGoes(r, "answering")
    /\ UNCHANGED <<vars, ledger, answer, runner, turn, engineVars, cancelVars, serving, agentRuns>>

\* Two callers raced with one key: this one's row is settled, the answer comes
\* from the other's run.
EnqueueDuplicate(r) ==
    /\ AtDoor(r, "queued")
    /\ \E i \in DOMAIN work :
          /\ KeyOf[r] # NoKey /\ work[i].key = KeyOf[r]
          /\ door' = [door EXCEPT ![r] = [pc |-> "settled", from |-> work[i].job.run]]
    /\ Ledger!SettleOrLog(r, "failed")
    /\ UNCHANGED <<vars, answer, runner, turn, engineVars, cancelVars, serving, agentRuns>>

\* After a settle at the door: the callback, then the answer, which for a
\* refusal is in hand and for a duplicate is the other run's.
DoorAnnounce(r) ==
    /\ AtDoor(r, "settled")
    /\ Announce(r)
    /\ DoorGoes(r, IF door[r].from = r THEN "gone" ELSE "answering")
    /\ answer' = [answer EXCEPT ![r] = IF door[r].from = r THEN ledger[r] ELSE @]
    /\ UNCHANGED <<ledger, runner, turn, engineVars, cancelVars, serving, agentRuns>>

\* answerRun: the caller waits for a terminal row, or does not wait.
AnswerRun(r) ==
    /\ AtDoor(r, "answering")
    /\ ledger[door[r].from] \notin Ledger!LiveRun
    /\ answer' = [answer EXCEPT ![r] = ledger[door[r].from]]
    /\ DoorGoes(r, "gone")
    /\ UNCHANGED <<vars, ledger, runner, turn, engineVars, cancelVars, serving, agentRuns>>

\* The caller is gone, or asked not to wait: the run goes on without it.  The
\* depth query runs on the caller's own context, so one that is gone by then
\* makes the handler return with the row as it is.
HangUp(r) ==
    /\ AtDoor(r, "answering") \/ AtDoor(r, "accepted")
    /\ DoorGoes(r, "gone")
    /\ UNCHANGED <<vars, ledger, answer, runner, turn, engineVars, cancelVars, serving, agentRuns>>

DoorStep(r) ==
    \/ LookUpKey(r) \/ AcceptRun(r) \/ Refuse(r) \/ CountWaiting(r)
    \/ RecordQueued(r) \/ EnqueueDelivery(r) \/ EnqueueDuplicate(r)
    \/ DoorAnnounce(r) \/ AnswerRun(r) \/ HangUp(r)

------------------------------------------------------------------------------
(* The worker's side: runWorkOf, runDelivery, runCallback.                 *)

RunnerAt(w, pc) == worker[w].pc = "running" /\ runner[w].pc = pc
RunnerGoes(w, pc) == runner' = [runner EXCEPT ![w].pc = pc]
RunnerHas(w, pc, v) == runner' = [runner EXCEPT ![w] = [pc |-> pc, verdict |-> v]]

\* The pool enters the runner, which dispatches on the kind of the unit.
EnterRunner(w) ==
    /\ Register(w)
    /\ RunnerGoes(w, IF JobOf(w).kind = "delivery" THEN "start" ELSE "post")
    /\ UNCHANGED <<ledger, door, answer, turn, engineVars, cancelVars, serving, agentRuns>>

\* Mutant of StartDelivery: the row is set running whatever it says.
StartUnguarded(w) ==
    /\ RunnerAt(w, "start")
    /\ ledger' = [ledger EXCEPT ![JobOf(w).run] = "running"]
    /\ RunnerGoes(w, "bind")
    /\ UNCHANGED <<vars, door, answer, turn, engineVars, cancelVars, serving, agentRuns>>

\* The row must still be waiting; a cancelled or settled one is left alone.
StartDelivery(w) ==
    /\ RunnerAt(w, "start")
    /\ \/ Ledger!StartRun(JobOf(w).run) /\ RunnerGoes(w, "bind")
       \/ ledger[JobOf(w).run] # "queued" /\ RunnerGoes(w, "done") /\ UNCHANGED ledger
    /\ UNCHANGED <<vars, door, answer, turn, engineVars, cancelVars, serving, agentRuns>>

SetWorkFor(w) ==
    /\ RunnerAt(w, "bind")
    /\ pending' = worker[w].unit
    /\ RunnerGoes(w, "engine")
    /\ UNCHANGED <<vars, ledger, door, answer, turn, latch, turnUnit, cancelVars, serving, agentRuns>>

\* beginTurn takes whatever unit was left for the workspace.
BeginTurn == turnUnit' = pending /\ pending' = 0 /\ latch' = TRUE

\* Mutants of NeverBegan: its error is stored as a state of its own; its error is
\* dropped and judged.
NeverBeganAsBusy(w) ==
    /\ RunnerAt(w, "engine")
    /\ RunnerHas(w, "settle", "busy")
    /\ UNCHANGED <<vars, ledger, door, answer, turn, engineVars, cancelVars, serving, agentRuns>>

NeverBeganJudged(w) ==
    /\ RunnerAt(w, "engine")
    /\ RunnerHas(w, "settle", "completed")
    /\ UNCHANGED <<vars, ledger, door, answer, turn, engineVars, cancelVars, serving, agentRuns>>

\* RunUnattended: refused when the agent or its model is gone or the workspace
\* is busy, all of which settle the delivery as failed ...
NeverBegan(w) ==
    /\ RunnerAt(w, "engine")
    /\ RunnerHas(w, "settle", "failed")
    /\ UNCHANGED <<vars, ledger, door, answer, turn, engineVars, cancelVars, serving, agentRuns>>

\* Mutant of RunAgent: the lane alone decides who runs, not the latch.
RunAgentUnlatched(w) ==
    /\ RunnerAt(w, "engine")
    /\ BeginTurn
    /\ RunnerGoes(w, "agent")
    /\ agentRuns' = [agentRuns EXCEPT ![JobOf(w).run] = @ + 1]
    /\ UNCHANGED <<vars, ledger, door, answer, turn, cancelVars, serving>>

\* ... otherwise the workspace is latched and the agent runs.
RunAgent(w) ==
    /\ RunnerAt(w, "engine")
    /\ ~latch
    /\ BeginTurn
    /\ RunnerGoes(w, "agent")
    /\ agentRuns' = [agentRuns EXCEPT ![JobOf(w).run] = @ + 1]
    /\ UNCHANGED <<vars, ledger, door, answer, turn, cancelVars, serving>>

\* The agent is done: endTurn, the latch, and the verdict judged or failed.
LeaveAgent(w, v) ==
    /\ RunnerAt(w, "agent")
    /\ turnUnit' = 0 /\ latch' = FALSE
    /\ RunnerHas(w, "settle", v)
    /\ UNCHANGED <<vars, ledger, door, answer, turn, pending, cancelVars, serving, agentRuns>>

SettleDelivery(w) ==
    /\ RunnerAt(w, "settle")
    /\ Ledger!SettleOrLog(JobOf(w).run, runner[w].verdict)
    /\ RunnerGoes(w, "announce")
    /\ UNCHANGED <<vars, door, answer, turn, engineVars, cancelVars, serving, agentRuns>>

RunnerAnnounce(w) ==
    /\ RunnerAt(w, "announce")
    /\ Announce(JobOf(w).run)
    /\ RunnerGoes(w, "done")
    /\ UNCHANGED <<ledger, door, answer, turn, engineVars, cancelVars, serving, agentRuns>>

\* One POST to the listener: acknowledged, or to be tried again, or given up.
PostCallback(w) ==
    /\ RunnerAt(w, "post")
    /\ \/ RunnerGoes(w, "done")
       \/ JobOf(w).try + 1 < CallbackAttempts /\ RunnerGoes(w, "retry")
    /\ UNCHANGED <<vars, ledger, door, answer, turn, engineVars, cancelVars, serving, agentRuns>>

\* The next attempt is a new unit of the same lane under a key of its own,
\* queued on a context that no cancel reaches.  The backoff is abstracted: it
\* may be claimed as soon as its lane is free.
RetryCallback(w) ==
    /\ RunnerAt(w, "retry")
    /\ LET r == JobOf(w).run
           n == JobOf(w).try + 1
       IN \E i \in Ids : Enqueue(i, r, CallbackKey(r, n), Callback(r, n), clock)
    /\ RunnerGoes(w, "done")
    /\ UNCHANGED <<ledger, door, answer, turn, engineVars, cancelVars, serving, agentRuns>>

LeaveRunner(w) ==
    /\ RunnerAt(w, "done")
    /\ Return(w)
    /\ RunnerHas(w, "none", "none")
    /\ UNCHANGED <<ledger, door, answer, turn, engineVars, cancelVars, serving, agentRuns>>

\* Mutant of PanicInAgent: the unit goes back to wait for another attempt.
PanicRequeues(w) ==
    /\ Panics
    /\ RunnerAt(w, "agent")
    /\ work' = Mark({worker[w].unit}, "queued")
    /\ worker' = [worker EXCEPT ![w] = IdleWorker]
    /\ running' = running \ {worker[w].unit}
    /\ turnUnit' = 0 /\ latch' = FALSE
    /\ RunnerHas(w, "none", "none")
    /\ UNCHANGED <<clock, chat, killing, proc, lost, ledger, door, answer, turn, pending,
                   cancelVars, serving, agentRuns>>

\* A panic in the agent unwinds the engine's defers and then the pool's; nothing
\* on the way settles the ledger row.
PanicInAgent(w) ==
    /\ Panics
    /\ RunnerAt(w, "agent")
    /\ Panic(w)
    /\ turnUnit' = 0 /\ latch' = FALSE
    /\ RunnerHas(w, "none", "none")
    /\ UNCHANGED <<ledger, door, answer, turn, pending, cancelVars, serving, agentRuns>>

\* Claim, settle and unregister are the pool's own.
PoolAlone(w) ==
    /\ \/ \E i \in Ids : Claim(w, i)
       \/ SettleUnit(w) \/ Unregister(w)
    /\ UNCHANGED pipelineVars

RunnerStep(w) ==
    \/ PoolAlone(w) \/ EnterRunner(w) \/ StartDelivery(w) \/ SetWorkFor(w)
    \/ NeverBegan(w) \/ RunAgent(w) \/ \E v \in Verdicts : LeaveAgent(w, v)
    \/ SettleDelivery(w) \/ RunnerAnnounce(w)
    \/ PostCallback(w) \/ RetryCallback(w) \/ LeaveRunner(w)
    \/ PanicInAgent(w)

------------------------------------------------------------------------------
(* The chat turn: HandleUserMessage.  Each member of Chats is one turn.    *)

TurnGoes(c, pc) == turn' = [turn EXCEPT ![c] = pc]

LatchTurn(c) ==
    /\ serving /\ turn[c] = "new"
    /\ \/ ~latch /\ latch' = TRUE /\ TurnGoes(c, "latched")
       \/ latch /\ UNCHANGED latch /\ TurnGoes(c, "over")
    /\ UNCHANGED <<vars, ledger, door, answer, runner, pending, turnUnit, cancelVars, serving, agentRuns>>

\* The lane is taken after the latch; then the turn begins.
TakeLane(c) ==
    /\ turn[c] = "latched"
    /\ \E i \in Ids : ChatClaim(c, i, WS, ChatJob)
    /\ BeginTurn
    /\ TurnGoes(c, "talking")
    /\ UNCHANGED <<ledger, door, answer, runner, cancelVars, serving, agentRuns>>

LaneUnread(c) ==
    /\ turn[c] = "latched"
    /\ \E i \in Ids : ChatClaimUnread(c, i, WS, ChatJob)
    /\ latch' = FALSE
    /\ TurnGoes(c, "over")
    /\ UNCHANGED <<ledger, door, answer, runner, pending, turnUnit, cancelVars, serving, agentRuns>>

LaneTaken(c) ==
    /\ turn[c] = "latched"
    /\ ~LaneFree(WS)
    /\ latch' = FALSE
    /\ TurnGoes(c, "over")
    /\ UNCHANGED <<vars, ledger, door, answer, runner, pending, turnUnit, cancelVars, serving, agentRuns>>

\* The defers, last in first out: endTurn and the lane, then the latch.
ReleaseLane(c) ==
    /\ turn[c] = "talking"
    /\ ChatSettle(c)
    /\ turnUnit' = 0
    /\ TurnGoes(c, "released")
    /\ UNCHANGED <<ledger, door, answer, runner, latch, pending, cancelVars, serving, agentRuns>>

Unlatch(c) ==
    /\ turn[c] = "released"
    /\ latch' = FALSE
    /\ TurnGoes(c, "over")
    /\ UNCHANGED <<vars, ledger, door, answer, runner, pending, turnUnit, cancelVars, serving, agentRuns>>

TurnStep(c) == \/ LatchTurn(c) \/ TakeLane(c) \/ LaneUnread(c) \/ LaneTaken(c)
               \/ ReleaseLane(c) \/ Unlatch(c)

------------------------------------------------------------------------------
(* The cancel: handleCancelQueued.                                         *)

KillUnit(i) ==
    /\ serving
    /\ Kill(i)
    /\ UNCHANGED pipelineVars

\* Mutant of InterruptRun: the row is settled only if the unit was found running.
InterruptRunFound(i) ==
    /\ CancelRunning(i)
    /\ cancelling' = IF i \in running /\ work[i].job.kind = "delivery"
                     THEN cancelling \cup {i} ELSE cancelling
    /\ UNCHANGED <<ledger, door, answer, runner, turn, engineVars, telling, serving, agentRuns>>

\* Pool.Cancel; a unit with a ledger row has that to be settled next.
InterruptRun(i) ==
    /\ CancelRunning(i)
    /\ cancelling' = IF work[i].job.kind = "delivery" THEN cancelling \cup {i} ELSE cancelling
    /\ UNCHANGED <<ledger, door, answer, runner, turn, engineVars, telling, serving, agentRuns>>

SettleCancelled(i) ==
    /\ i \in cancelling
    /\ Ledger!SettleOrLog(work[i].job.run, "interrupted")
    /\ cancelling' = cancelling \ {i}
    /\ telling' = telling \cup {work[i].job.run}
    /\ UNCHANGED <<vars, door, answer, runner, turn, engineVars, serving, agentRuns>>

AnnounceCancelled(r) ==
    /\ r \in telling
    /\ Announce(r)
    /\ telling' = telling \ {r}
    /\ UNCHANGED <<ledger, door, answer, runner, turn, engineVars, cancelling, serving, agentRuns>>

CancelStep ==
    \/ \E i \in Ids : KillUnit(i) \/ InterruptRun(i) \/ SettleCancelled(i)
    \/ \E r \in Requests : AnnounceCancelled(r)

------------------------------------------------------------------------------
(* The life of the process.                                                *)

\* server.New: the pool is running when it returns ...
BootPool ==
    /\ Start
    /\ UNCHANGED pipelineVars

\* ... and Bootstrap reconciles the ledger after that.
Bootstrap ==
    /\ proc = "up" /\ ~serving
    /\ Ledger!ReconcileRuns
    /\ serving' = TRUE
    /\ UNCHANGED <<vars, door, answer, runner, turn, engineVars, cancelVars, agentRuns>>

\* Shutdown stops accepting, then Close stops the pool.
Shutdown ==
    /\ Crashes
    /\ Stop
    /\ serving' = FALSE
    /\ UNCHANGED <<ledger, door, answer, runner, turn, engineVars, cancelVars, agentRuns>>

\* The process is gone, with every handler, runner, turn and latch in it.
ProcessEnds ==
    /\ Crashes
    /\ Exit \/ Crash
    /\ door' = [r \in Requests |-> IF AtDoor(r, "new") THEN door[r] ELSE [door[r] EXCEPT !.pc = "gone"]]
    /\ runner' = [w \in Workers |-> NoRunner]
    /\ turn' = [c \in Chats |-> IF turn[c] = "new" THEN "new" ELSE "over"]
    /\ latch' = FALSE /\ pending' = 0 /\ turnUnit' = 0
    /\ cancelling' = {} /\ telling' = {}
    /\ serving' = FALSE
    /\ UNCHANGED <<ledger, answer, agentRuns>>

PNext ==
    \/ \E r \in Requests : DoorStep(r)
    \/ \E w \in Workers : RunnerStep(w)
    \/ \E c \in Chats : TurnStep(c)
    \/ CancelStep
    \/ BootPool \/ Bootstrap \/ Shutdown \/ ProcessEnds

PSpec == PInit /\ [][PNext]_allVars

\* Handlers, runners and turns that have begun go on until they end: a posted
\* callback is answered or times out, an agent's loop is bounded, a server that is
\* started finishes its boot.  Nobody has to arrive, cancel or hang up.
PFairness ==
    /\ WF_allVars(BootPool) /\ WF_allVars(Bootstrap) /\ WF_allVars(ProcessEnds /\ Exit)
    /\ \A r \in Requests :
          WF_allVars(\/ AcceptRun(r) \/ Refuse(r) \/ CountWaiting(r) \/ RecordQueued(r)
                     \/ EnqueueDelivery(r) \/ EnqueueDuplicate(r) \/ DoorAnnounce(r)
                     \/ AnswerRun(r))
    /\ \A w \in Workers :
          /\ WF_allVars(RunnerStep(w) /\ worker[w].pc # "idle")
          /\ \A i \in Ids : WF_allVars(Claim(w, i) /\ UNCHANGED pipelineVars)
    /\ \A c \in Chats : WF_allVars(TurnStep(c) /\ turn[c] # "new")
    /\ WF_allVars(CancelStep /\ UNCHANGED work)
    /\ \A r \in Requests : WF_allVars(AnnounceCancelled(r))

PFairSpec == PSpec /\ PFairness

------------------------------------------------------------------------------
(* Properties.                                                             *)

\* The variables of this module stay within their types.
PTypeOK ==
    /\ TypeOK
    /\ ledger \in [Requests -> Ledger!LiveRun \cup Ledger!Terminal \cup {"none"}]
    /\ door \in [Requests -> [pc : {"new", "fresh", "accepted", "counted", "queued",
                                    "settled", "answering", "gone"},
                               from : Requests]]
    /\ answer \in [Requests -> Ledger!Terminal \cup {"none"}]
    /\ runner \in [Workers -> [pc : {"none", "start", "bind", "engine", "agent", "settle",
                                     "announce", "post", "retry", "done"},
                                verdict : Verdicts \cup {"none"}]]
    /\ turn \in [Chats -> {"new", "latched", "talking", "released", "over"}]
    /\ latch \in BOOLEAN /\ serving \in BOOLEAN
    /\ pending \in 0..MaxUnits /\ turnUnit \in 0..MaxUnits
    /\ cancelling \subseteq Ids /\ telling \subseteq Requests
    /\ agentRuns \in [Requests -> Nat]

AgentsAtWork == {w \in Workers : RunnerAt(w, "agent")}
TurnsAtWork  == {c \in Chats : turn[c] = "talking"}

\* One turn at a time in a workspace, a chat turn or a delivery's agent, even
\* when a cancel has freed the lane under a run that is still unwinding: the
\* budget and the taint latches of a turn are kept per workspace
\* (engine/egress.go turnState, engine.go, unattended.go).
OneTurnPerWorkspace ==
    /\ Cardinality(AgentsAtWork) + Cardinality(TurnsAtWork) <= 1
    /\ AgentsAtWork \cup TurnsAtWork # {} => latch

\* One key, one job: of all the deliveries sent under an idempotency key, and
\* of all the attempts at one of them, at most one ever reaches its agent, over
\* races at the door, cancels and restarts (inlet_handlers.go, work.go Enqueue,
\* ReleaseClaims, runs.go Start).
AgentOncePerKey ==
    \A r, s \in Requests :
        /\ agentRuns[r] <= 1
        /\ agentRuns[r] + agentRuns[s] > 1 /\ r # s =>
              KeyOf[r] = NoKey \/ KeyOf[r] # KeyOf[s]

\* A row that says running is being run: once the server serves, a worker of
\* this process has it in its hands, so the ledger never claims work nobody is
\* doing (server.go Bootstrap, delivery_runner.go).
RunningIsWorkedOn ==
    serving => \A r \in Requests : ledger[r] = "running" =>
        \E w \in Workers : /\ worker[w].pc = "running"
                           /\ JobOf(w) = Delivery(r)
                           /\ runner[w].pc \in {"bind", "engine", "agent", "settle"}

Carries(i, r) == i \in DOMAIN work /\ work[i].job = Delivery(r)

\* A row that says queued is going to be taken up: once the server serves, its
\* handler is about to enqueue it, its unit waits or has just been claimed, or the
\* cancel that took the unit out still has the row to settle (inlet_handlers.go,
\* queue_handlers.go).
QueuedIsCarried ==
    serving => \A r \in Requests : ledger[r] = "queued" =>
        \/ AtDoor(r, "queued")
        \/ \E i \in Ids : Carries(i, r) /\
              \/ work[i].state = "queued"
              \/ i \in killing \cup cancelling
              \/ \E w \in Executing : /\ worker[w].unit = i
                                      /\ \/ worker[w].pc = "claimed"
                                         \/ RunnerAt(w, "start")

\* What the ledger says of a delivery that is not over, somebody is doing or about to
\* do (delivery_runner.go, queue_handlers.go, inlet_handlers.go).
LedgerIsCarried == RunningIsWorkedOn /\ QueuedIsCarried

\* A verdict is about work that was done: a row settled with anything an agent's
\* run is judged by belongs to a delivery whose agent ran, exactly once.
JudgedRan ==
    \A r \in Requests :
        ledger[r] \in {"completed", "refused_expectation", "refused_output_schema",
                       "refused_budget"} => agentRuns[r] = 1

\* What a caller was told stays true: the row it was answered from says the
\* same for ever after, for a repeated key the row of the original run
\* (inlet_handlers.go answerRun, runs.go Settle).
AnswerStands ==
    \A r \in Requests : answer[r] # "none" => ledger[door[r].from] = answer[r]

\* An idempotency key stands for one job and one answer, for whoever repeats it
\* (inlet_handlers.go handleInletDelivery, answerRun).
OneAnswerPerKey == AgentOncePerKey /\ AnswerStands

\* Nobody is forgotten: a finished run whose task names a listener has its callback
\* in the queue, or whoever finished it is about to put it there (callback.go
\* settle, "something the code cannot forget to send").
OutcomeIsAnnounced ==
    \A r \in Listeners : ledger[r] \in Ledger!Terminal =>
        \/ KeyTaken(CallbackKey(r, 0))
        \/ AtDoor(r, "settled") \/ r \in telling
        \/ \E w \in Workers : RunnerAt(w, "announce") /\ JobOf(w).run = r

\* A unit that is still to be posted: it waits, has just been claimed, or is at it.
PostAhead(i) ==
    \/ work[i].state = "queued"
    \/ \E w \in Executing : /\ worker[w].unit = i
                            /\ worker[w].pc = "claimed" \/ RunnerAt(w, "post")

\* One announcement: however many of the door, the worker and the cancel settle
\* a run, of the attempts to tell its listener at most one still has its POST
\* ahead of it (callback.go enqueueCallback, runCallback; work.go Enqueue).
OneAttemptAhead ==
    \A i, j \in DOMAIN work :
        /\ work[i].job.kind = "callback" /\ work[j].job.kind = "callback"
        /\ work[i].job.run = work[j].job.run
        /\ PostAhead(i) /\ PostAhead(j)
        => i = j

\* Every outcome is announced, and once (callback.go settle, enqueueCallback).
AnnouncedOnce == OutcomeIsAnnounced /\ OneAttemptAhead

\* The ledger rows move as RunLedger lets them: through their guards, and to
\* one outcome, whoever of the door, the worker, the cancel and the boot writes.
ImplementsLedger == Ledger!Spec

\* The whole pipeline uses the queue as WorkQueue describes it.
ImplementsQueue == Spec

\* Every delivery that was queued has its outcome in the end, in a server that
\* neither crashes nor panics: behind whatever holds its lane, cancelled or not
\* (runs.go, pool.go, queue_handlers.go).
DeliverySettles ==
    \A r \in Requests : ledger[r] = "queued" ~> ledger[r] \in Ledger!Terminal

\* And its caller, if it waits, is answered, one whose key was already in flight
\* too, from the run it repeated (inlet_handlers.go answerRun).
CallerIsAnswered ==
    \A r \in Requests : AtDoor(r, "answering") ~> AtDoor(r, "gone")

\* Nobody waits for ever, a delivery for its outcome or a caller for its answer.
EverybodyIsAnswered == DeliverySettles /\ CallerIsAnswered

------------------------------------------------------------------------------
(* What the repository says of the pipeline and the code does not keep.    *)

\* "the worker holds the lane so it cannot meet a busy workspace"
\* (delivery_runner.go:102): a worker about to enter the engine with its claim
\* standing finds the workspace's latch free.
LaneHolderMeetsNoBusy ==
    \A w \in Workers :
        RunnerAt(w, "engine") /\ work[worker[w].unit].state = "claimed" => ~latch

\* "a row still saying accepted or running is a job that stopped when the
\* process did" (server.go:846): what Bootstrap marks as interrupted is not
\* being run by the process that marks it.
ReconcileHitsTheDeadOnly ==
    [][serving' /\ ~serving =>
         \A r \in Requests : ledger[r] = "running" =>
             ~\E w \in Workers : RunnerAt(w, "agent") /\ JobOf(w) = Delivery(r)]_allVars
==============================================================================
