# Cogitorium in TLA+

Models, checks and proofs for the parts of cogitorium that decide *what runs, when, how
often, with whose permission and what is said about it afterwards*: the durable work queue
and its pool, the run ledger, the inlet door, the runner, cancels and callbacks, the clock that
fires schedules; the turn, the tree of agents it grows, the plan it follows and the search gate it
waits at; gears, their approvals, their network gate and their containers; connections to MCP
servers; terminals; the versions of a workflow; plugins, what they render and the processes behind
them; and the update check.

Every definition is written from the Go source; `PROJECT.json` maps each to its lines.
`tlc -workers 2 -config X.cfg M` repeats a run, `tlapm M.tla` with each of the eight `...Proofs`
modules its proofs (a quarter of an hour for the longest).

## The system

Cogitorium is one Go process over one SQLite database, opened with **one connection**
(`internal/store/store.go:37-39`). A statement is therefore atomic, and two statements of one
handler are not: other goroutines write between them, and the process can die there. That is
the grain of every model here: one action per statement that writes or decides, one per
mutex-protected section, one per step of a goroutine.

| Part | State it keeps | Operations | Talks to | What makes it correct |
|---|---|---|---|---|
| Work queue (`work/work.go`, migration 22) | table `work`: state, lane, idempotency key, run_after, attempts | Enqueue, Claim, ClaimNow, Settle, Kill, ReleaseClaims, Prune | pool, chat turns, door, clock, cancels | one claimed unit per lane; a unit is tried once; a settled row stays; no lane is held by nobody |
| Pool (`work/pool.go`) | workers, map `running` of cancel functions | Start, Stop, Cancel, worker loop, execute | queue, runners | every claim is settled, on panics too; a cancel hits the unit it names |
| Run ledger (`inlet/runs.go`) | table `inlet_runs`: state of each delivery | Accept, Queued, Start, Settle, ReconcileRuns | door, runner, cancel, boot | one outcome per run; a state says what is really happening |
| Inlet door (`server/inlet_handlers.go`) | one goroutine per request | look up the key, accept, check, count, queue, answer | ledger, queue, callbacks | one job per key; the caller's answer stays true |
| Delivery runner (`server/delivery_runner.go`) | the run under way | start the row, run the agent, judge, settle | ledger, engine, callbacks | verdicts are about work that ran |
| Queue cancel (`server/queue_handlers.go`) | one goroutine per request | kill, interrupt, settle the row | queue, pool, ledger | nobody waits for a row nobody will write |
| Callbacks (`server/callback.go`) | units of kind `callback` | settle funnel, POST, retry | queue, ledger | every outcome is announced, one attempt at a time |
| Engine (`engine/engine.go`, `unattended.go`, `egress.go`) | latch per workspace, turn state, pendingWork | HandleUserMessage, RunUnattended, SetWorkFor | queue (ClaimNow), runner | one turn per workspace |
| Boot and shutdown (`server/server.go`) | whether it serves | New, Bootstrap, Serve, Close | all of the above | the ledger agrees with the queue after a restart |
| Schedules (`schedule/`, `server/schedule_tick.go`, `schedule_handlers.go`) | table `schedules`: next_at, enabled, on_miss, last_work_id | tick, fire, create, update, enable, run now, delete | queue, ledger | an instant fires once; a slow job is not overlapped; no schedule starves |
| Turn (`engine/engine.go`, `engine/tools.go`) | table `ws_messages`, the history in memory | say, ask the model, call tools, delegate, remember | every tool | the model is shown the conversation that took place; limits hold for the whole tree |
| Egress approvals (`egress/`, `engine/egress.go`) | the broker's slot, table `search_queries`, grants, limits, the kill switch | Open, Wait, Resolve, Grant, Revoke, kill | engine, operators | what leaves was allowed; the log tells what happened |
| Planboards (`planboard/`) | plans, attachments, positions | BeginRun, Done, Blocked, Reset, Seek, Save | engine, operators, rollbacks | a position fits its plan; the step that is closed is the one that was shown |
| Gears (`gear/`) | versions, status, grants, the trail, the runs | Forge, SetStatus, SetNetwork, Run, Delete | sandbox, network gate | what was decided is what runs, and the trail tells it |
| Network gate (`gearnet/`) | tickets of runs, table `gear_connections` | Open, Close, CONNECT and requests, Reconcile | gears | a run reaches what it was granted, and the log says so |
| MCP connections (`engine/mcppool.go`, `mcpstore/`) | the server's row, idle connections | approve, edit, take, put, expire, closeAll | engine, remote servers | a connection has one user and was opened with what was approved |
| Terminals (`server/terminal_sessions.go`) | sessions, viewers' channels | attach, take, pump, release, sweep, closeAll | sandbox | what a shell prints is shown once and in order; no shell is left behind |
| Workflow versions (`workflow/`) | snapshots of agents, wires, grants, bindings, clocks | Save, Restore | workspaces, gears, schedules, planboards | nothing is destroyed that is in no version; a rollback lands |
| Plugins (`plugin/`, `server/plugin_handlers.go`, `server/plugins.go`) | directory of bundles, list `plugins.order`, decisions with digests, what is composed and running | install step by step, approve, enable, reorder, disable, remove, boot | views, backends | nothing renders that was not approved; an update that fails leaves what there was |
| Views (`view/`, `plugin/order.go`) | the stack of layers, who was dropped | order, compose, try, drop and compose again | plugins | the operator's order but for what must be; nobody is dropped for another's fault; it ends |
| Plugin backends (`worker/`, `server/plugin_backend.go`, `plugin_host.go`) | one child process, its pipe | start, hello, call, host calls, time out, restart | plugins, key-value rows | an answer is the child's to that very call; one child |
| Sandbox (`sandbox/`) | containers, the pool of warm ones | create, take, run, offer, retire, close | gears, the daemon | a container has one keeper; what waits in the pool is clean |
| Update check (`update/`, `server/update_handlers.go`) | the mode, the row, the loop | answer, look, boot | settings | it looks only when it was told it may |
| MCP sign-in and connections (`mcpoauth/`, `mcpclient/`) | grants, sign-ins in progress, waiting callers of a connection | begin, return, refresh, call, answer, die | engine, remote servers | a token is of the grant that was given; an answer is of the call that asked |

The rest is listed in `PROJECT.json` "components" with the reason for each, and under Not modelled.

What is hard about this system, in one paragraph: a delivery is known by **four** records —
its handler, its ledger row, its unit, and the goroutine running it — written by five parties
(door, worker, cancel, boot, callback) in separate statements; a chat turn reaches the same
lane from the other side, taking an in-process latch first where workers take the lane first;
a cancel frees a lane while its runner is still unwinding; and all of it may stop between any
two statements. `PROJECT.json` "hazards" lists each place with the property that covers it.

## Modules

```
LaneQueue          what the queue promises                    (abstract)
  ^ implemented by (checked and proved)
WorkQueue          the table, the pool, chat claims, cancels, boot, crash
  ^ EXTENDS        \__ WorkQueueProofs   inductive invariant, refinement
DeliveryPipeline   door, ledger, runner, engine latch, cancels, callbacks
  |                \__ DeliveryPipelineProofs   types, refinements, one turn, verdicts, keys,
  |                                             announcements, carried rows
  | INSTANCE
RunLedger          what any caller may do to a ledger row     (abstract, and the operators)

MCAgents           TurnLoop, TurnTree, PlanPosition, EgressGate
MCTools            GearApproval, GearGate, McpPool, WorkflowVersions, TerminalSession,
                   ScheduleClock
MCSettle           liveness of EgressGate, GearGate, TerminalSession, ScheduleClock, WorkQueue
MCPlatform         PluginShelf, LayerStack, PluginBackend, WarmPool, UpdateCheck, McpSignIn,
                   McpWire
MCPipelineParts    DeliveryPipeline in three surroundings, through MCDeliveryPipeline
MCWorkQueue        WorkQueue

WorkQueueProofs      WorkQueue             DeliveryPipelineProofs  DeliveryPipeline, MCPipelineParts
AgentProofs          TurnTree, PlanPosition, EgressGate
ScheduleClockProofs  ScheduleClock         ShelfProofs             PluginShelf
ToolProofs           GearApproval, GearGate, McpPool, TerminalSession, WorkflowVersions, MCTools
PlatformProofs       UpdateCheck, PluginBackend, WarmPool, McpSignIn, McpWire, MCPlatform
SequenceFacts        what FlattenSeq returns, for ShelfProofs
```

The modules below `MCAgents`, `MCTools` and the others of their kind are independent components,
each with its own variables, next-state relation and properties. An `MC` module joins several of
them to one instance: its variable `focus` picks, at first, the component a behaviour is about, and
only that component steps. What is checked is therefore each component in full, from all its
initial states, and not their product. What one component relies on of another is said at the head
of its module ("one turn at a time in each workspace") and is the business of the module named
there.

### WorkQueue

`work` is the table, a function from the ids present to rows; `worker[w]` is where a worker of
the pool stands (`idle`, `claimed`, `running`, `returned`/`panicked`, `settled`), `chat[c]` the unit
a chat turn holds, `running` the pool's map of cancel functions, `killing` the cancels between
`Kill` and `Pool.Cancel`, `proc` the process. Ids are handed out as SQLite does for `INTEGER
PRIMARY KEY`: one more than the greatest present, so the ids of pruned newest rows come back.

* `Enqueue`, `Claim`, `ChatClaim` (ClaimNow), `SettleUnit`, `Kill`, `Prune` and `Start` are the
  statements of `work.go`, each with the partial unique indexes of the migration as guards
  (`LaneFree`, `KeyTaken`). `Claim` takes the first claimable unit in the query's order.
* `Register`, `Return`, `Panic`, `SettleUnit`, `SettleFails`, `Unregister` are `Pool.execute` with
  its deferred functions in the order they run.
* `ChatClaimUnread` is ClaimNow whose read-back fails after the INSERT; `SettleFails` and
  `ChatSettleFails` are settles that fail. What these leave claimed is remembered in `lost`,
  which `MaxFaults` bounds.
* `Kill` and `CancelRunning` are the two halves of a cancel; `Stop`, `Exit`, `Crash` are the ends of
  a process.

`Unit.Deadline` is never set and `max_attempts` never read, so neither is modelled: that a unit
is tried once is a consequence of the states, and is checked and proved.

### LaneQueue

Units are submitted, begun, over, forgotten; one per lane is worked on; work begins at most once.
No workers, processes or crashes. `WorkQueue` implements it under the mapping that renames
`queued/claimed/done|dead` to `waiting/working/over`: a boot that marks claims dead is `Close`, a
prune is `Forget`, everything else is one step or a stutter.

### RunLedger

One operator per guarded UPDATE of `runs.go`. `DeliveryPipeline` uses the operators as its only
access to the table, and `ImplementsLedger` says that whatever the parties do, the rows move as
`RunLedger!Spec` allows.

### DeliveryPipeline

Extends `WorkQueue` with what its jobs are. A request passes the door
(`new → fresh → accepted → counted → queued → answering → gone`, or by way of `settled` when
it is refused), its unit is run (`start → bind → engine → agent → settle → announce → done`), and
its callback units are posted and retried (`post → retry → done`). Each arrow is a statement, a
latch or a call, in the code's order. `latch`, `pending` (SetWorkFor) and `turnUnit` are the
engine's; `turn[c]` is a chat turn, which takes the latch **before** the lane. `cancelling` and
`telling` are the later steps of a cancel. `BootPool`, `Bootstrap`, `Shutdown`, `ProcessEnds` keep the order
in `server.go`: the pool starts in `New`, the ledger is reconciled in `Bootstrap`.

A schema check, an expectation or an agent's run is a choice of verdict. Storage errors at the
door are not modelled, and three steps of `WorkQueue` are not taken here: `Prune`, `SettleFails`
and `ChatSettleFails` are checked in the queue alone.

### ScheduleClock

`sched` is the table, `ticker` the tick between two statements, `job[p]` the chain of statements
by which the tick or a run-now queues a job, `operator[o]` an edit between its read and its write.
A firing is decided (`Decide`), won by compare-and-set (`Fire`, `Skip`), queued in four statements
(`AcceptFiring`, `QueueRow`, `EnqueueUnit`, `NoteUnit`), each of which may fail; a row whose unit could not
be inserted is settled in a statement of its own (`SettleJob`), which may fail as well. Specs are of three
kinds that differ in what `Next` answers: `every` counts from now, `grid` names instants of its own,
`last` does not come round again (a leap-day spec, beyond the 366 days the search looks at).
`unnoted` and `stray` record what a failure, a crash or a hang-up left behind, so that the
properties can say exactly what they do not promise. The queue is reduced to which units are
unfinished; that it settles them is the other modules' business.

### TurnLoop

The conversation of one workspace: `timeline` is `ws_messages`, `turn` the operator's turn in
progress with the `history` it holds in memory. `Say`, `Recall`, `ModelCalls`,
`ToolReturns`, `ModelConcludes`, `PersistError`, ... are the statements of `HandleUserMessage` in their order, each of which may fail and each of which may be
the last before a crash; `Forget` is the operator's `DeleteMessage`. `buildHistory` and `repairHistory` are
operators that translate the code's loops with folds. What was said is the number of the row
it was said in, so that "the answer of this call" is a fact about numbers. Providers that omit
call ids (`nameless`) number them per reply.

### TurnTree

One turn as a stack of agents and what the tree shares (`shared`: spent tokens, latches, the
context cache). `did` and `fed` are the turn's record. Beside it operators draw and cut wires and
documents are saved, which is where the two hazards are: a wire cut below an agent at work,
and a document saved between two readings of one run.

### PlanPosition

A plan, its attachments and positions as three tables; `walker` is the turn's plan tool between
its statements, `mover[m]` a request of an operator between its read and its write. Ids of
attachments come back, as in SQLite.

### EgressGate

`search` is the table, `slot` the broker's `cur`, `asker[w]` the turn of a workspace on its way through
`webSearch`: budget, fingerprint, row, slot, wait, re-check, fetch, settle. A fingerprint that cannot be read refuses the
search as revoked, as `checkGrant` does. `approver[o]` is an answer on its
way in, `told` what an operator was told became of it. A fingerprint is the pair of what it
covers. A crash leaves rows behind that the next `Bootstrap` settles.

### GearApproval, GearGate

`GearApproval` is one gear with its files, status and grant, forged in one transaction, decided on in up to
four statements (grant, status, the trail's read, the trail's write), run in six
(read, check, materialise, start, end, record). Content is a number no other version has, so
"what runs is what was approved" compares numbers. `GearGate` is the proxy: a ticket per run,
connections that are checked, recorded, dialled, carried and settled, tunnelled or read one
request at a time when the run holds stand-ins for secrets.

### McpPool

One server's row, the calls of several workspaces and the pool with its busy flags. A
connection is remembered by the command and the workspace's values it was opened with. `Take`,
`Put`, `Expire`, `CloseAll` are the mutex-protected sections of `mcppool.go`; `closing` holds what
was taken out under the mutex and is closed after it.

### TerminalSession

Sessions, the goroutine that pumps each shell's output, the channels of viewers (bounded, a
full one loses what comes), and the sweeper. Chunks are numbered. A send on a closed channel is an
outcome of the model (`panicked`), because the code can reach it: see Divergences.

### WorkflowVersions

`model` and `rows` are what a workspace consists of, `versions` the snapshots. `Take` and `Restore` list one
kind after the other and change one row at a time, in the order of `snapshot.go`, with operators and the
orchestrator editing in between. A gear whose row cannot be read is left out of the version that is being taken
(`TakeSkips`), and the version is recorded without its grant.

### PluginShelf, LayerStack, PluginBackend

`PluginShelf` is the directory of bundles, the enable list, the decisions and what runs: `desk` is the one
request under way and where it stands, an install being unpacked, renamed, recorded and switched
off in separate steps, each of which may fail or be the last before the process ends. `torn` and
`owed` record what such an end left and what an answer told the operator to restart for.
`LayerStack` has no operators: it is the pure path from the list to what is served. The run starts it from two
sides: from every list of three layers and every requirement between them, with layers that have no bodies; and from a
list of two layers without requirements, with every choice of the bodies `Beneath` allows (a name of the host's, a
slot and one of plugins') and every choice of those `Past` does, which reach beyond what is beneath them
to the product's own body (`core:`), under a name the product has and under two it does not have. `PluginBackend` is one child process and the calls
that wait for it: `requests` and `frames` are the two directions of its pipe, `loose` the reader
a timeout leaves behind.

### WarmPool

`box` are the containers, `idle` the pool, `retiring` those being removed, `gearRun[r]` a run on its way
from taking one to offering it back, `firing` the idle timers that have gone off and wait for the mutex.
The daemon may lose a container or fail a command at any moment. A removal that fails is only logged
(`docker.go:326`): the container is up and nobody's from there, `left` says `"leaked"`, and `OneKeeper` excepts it.

### UpdateCheck

`mode` is the checker's, `ceiling` the file's, `stored` the row, `loops` the daily loops (an answer stops one and
starts another), `look` the requests on demand. An answer is applied, stored and acted upon in that order;
each of these may be the last before a restart. A look reports the mode it read when it began.

### McpSignIn, McpWire

`McpSignIn` is the row of a server's grant, the rows of sign-ins in progress, and three kinds of handler
around calls to the authorization server: the one that sends a browser off, the one it comes
back to, and the connection that asks for a token and may refresh it. `McpWire` is one connection on each of
three transports: the callers that wait for an answer by its id, the reader, timeouts, cancellations, and
the server's own requests, whose answer may fail to be posted: the failure is then delivered to whoever
waits for that number (`PostFails`, `remote.go:167-181`). Ids are never reused, so that a late or repeated answer is told from the one
that is waited for.

## What is checked

Twelve runs, four of which end in a violation (see Findings). Each finishes within five minutes with two workers.

| Run | Instance | Shows |
|---|---|---|
| `queue` | 2 workers, 1 chat, 2 lanes, 3 units, 1 fault; crashes, cancels, panics, pruning, delayed units (854k states) | `LaneExclusive`, `HandsAreRight`, `SettledStays`, and `ImplementsLaneQueue` |
| `workspace` | 1 delivery with a listener, 1 chat, 2 workers, crashes, panics, 1 fault (142k states) | `OneTurnPerWorkspace` even after a cancel freed the lane; `JudgedRan`; the pipeline implements `RunLedger` and uses `WorkQueue` by its rules |
| `deliveries` | `MCPipelineParts`, 2 workers: 2 deliveries cancelled at any moment in a process that stays up; 1 delivery with a listener and 2 attempts; 2 deliveries under one key with crashes (887k states) | `RowsAreCarried`: what the ledger says of a delivery that is not over, somebody is doing; `AnnouncedOnce`: every outcome is announced, with one attempt at a time ahead; `OneAnswerPerKey`: one job per key, and the answer given stays true |
| `answers` | 2 deliveries under one key, fairness (38k states) | every queued delivery is settled and every caller that waits is answered |
| `agents` | `MCAgents`: 8 rows of conversation; 3 agents in a tree; 2 steps of a plan with 1 operator; 2 agents with a turn each at the gate (2.7M states) | `HistoryIsSound`: what the model is shown is the conversation that took place; `TreeIsOneRun`; `PlanIsFollowed`; `SearchesAreAsked`; `LogIsTrue` |
| `tools` | `MCTools`: 2 administrators and a call of a gear; 2 connections of a run; 2 callers of a server; a clerk's save and rollback; 2 viewers; 1 schedule of any kind and 1 operator (2.4M states) | `GearsAreDecided`, `ConnectsAsLogged`, `PoolIsSound`, `VersionsHold`: nothing is destroyed that no version has, and a rollback lands; `ShellIsFollowed`: what a shell prints is seen once and in order; `FiringsAreRight`: no instant fires twice, no two unfinished jobs of a schedule that skips |
| `platform` | `MCPlatform`: 2 plugins of 4 bundles and 4 requests; 3 layers; 3 calls of a backend and 2 children; 2 runs and 3 containers; 4 answers and 2 restarts; 2 browsers and 2 connections of a sign-in; 2 callers on each transport (1.6M states) | `ShelfIsSound`, `StackIsSound`, `BackendIsSound`, `WarmIsSound`, `UpdatesAreDecided`, `McpIsSound` |
| `settle` | `MCSettle`: fair specifications of five components, without faults (257k states) | searches end, a run's end cuts its tunnels, shells left alone end, due schedules are dealt with although their jobs never end, every unit settles |
| `lane_holder_busy`, `boot_order`, `queued_forever`, `unmirrored` | the smallest instances, and `platform`'s | what a comment says and the code does not keep: see Findings |

A property that is a conjunction names, in its module, the parts it is made of, each with the code it is about.
The invariants called `...TypeOK` join those of the components of a run.

**Bounds.** `MaxUnits` bounds ids, not the number of units over time: pruning hands them out again,
which is where the reuse of ids shows. Two workers are the fewest that race, and a third only
adds a second bystander to a lane; two lanes are the fewest that tell a lane from the table. Three
units cover "one held, one waiting behind it, one in the other lane". Two deliveries under
one key cover the race at the insert and the answer from somebody else's run. One fault (`MaxFaults`,
`MaxMishaps`, `MaxSlips`, `MaxBreaks`, `MaxPoolFaults`, `MaxLapses`, `MaxTouches`) is enough because each property is about
what a single left-behind claim, row or note does; crashes of the queue are unbounded in `queue` and
`workspace`. In the clock two periods of time reach a firing, the next one, and a stall
across both. Two administrators, operators or viewers are the fewest that race; three forgings are not
needed, since what is checked of a version compares it with one other. Two turns and two searches
reach a second search behind a latch and a second workspace at the slot. Two shells and three
visits reach a visitor who comes back to a swept session's successor. Three versions are those of
two clerks and the one `Restore` keeps by itself. Every bound is a constant of its module, named in a
comment there, and stands in the guard of the action it bounds. `CHECK_DEADLOCK FALSE` stands where
the instance may really stop: all requests gone and no more ids, or a bound of the inputs reached.
Workers, lanes, administrators and viewers are interchangeable, hence the symmetry sets in runs without
liveness.

**Fairness.** `WorkQueue!Fairness`: a runner returns (tool loops are bounded and model calls
time out), `execute` goes on after it, a chat turn ends, and a unit that is claimable again and again is
claimed, because every worker polls the table every `Idle` and the query takes the oldest
(strong fairness on claiming a unit: others may make the lane busy in between). Crashes are
allowed but the promise is conditional on a server that in the end stays up.
`PFairness`: handlers, runners, turns and cancels that have begun go on; nobody has to arrive,
hang up or cancel. `GateFairness`: the turn waiting at the gate goes on, because its wait has a timer, and
no operator has to answer. `ProxyFairness`: the gate's goroutine for a connection goes on once the context of its run
is cancelled, whatever the two ends do. `TermFairness`: the sweeper's ticker comes round and a session's last
use grows old. `ClockFairness` (`ScheduleClock!FairSpec`): only the ticker's steps, one goroutine's; neither
the queue, nor the operators, nor time has to make progress.

**Mutants.** Every property has one in `PROJECT.json`: an operator beside the real one that changes it
the way a slip in that code would (the lane index without its condition, `ReleaseClaims` that
requeues, `Settle` without its guard, a retry without its key, a latch not taken, a firing
counted from the instant missed instead of now, a pool keyed by the server's name alone, a position
that is not clamped, a grant written after the status, a document read past the run's cache). TLC
finds the property violated with it.

## What is proved

`WorkQueueProofs` (tlapm, SMT and Zenon, PTL for the last steps), for **any** lanes, keys,
jobs, workers and chats, and any bounds, from `QueueConstants` alone (the bounds are naturals
and `NoKey` is not a key):

* `TypeCorrect`, `LanesExclusive` and `EveryHandIsRight`: the invariants of run `queue`. The last is
  `HandsAreRight`, the conjunction of `NoOrphanClaim`, `UnitHeldOnce`, `OneAttempt`,
  `RegisteredIsExecuting` and `OverlapOnlyAfterKill`, each of which is a theorem of its own as well
  (`NoClaimOrphaned`, `HeldOnce`, `AttemptedOnce`, `RegisteredExecutes`, `OverlapIsKilled`).
* `SettledForGood`: its action property.
* `Refinement`: `Spec => ImplementsLaneQueue`.

The invariants are not inductive one by one. `IInv` joins them with what the code relies on
silently: the unit in a worker's or a chat turn's hands is a row of the table (`HeldKnown`), in the
state its holder's position implies (`InHand`, `LetGo`), and what is registered was registered by
somebody executing it (`RegisteredBySomebody`). The last needs `UnitHeldOnce`, which needs
`HeldKnown`, because ids come back: a new row's id must not be in anybody's hands
already. That rests on one modelling assumption, that pruning does not reach a settled unit still held
by a worker, a chat turn or a cancel: the window is days, an execution is not. Without it
(the mutant `PruneEager`) a unit is in two pairs of hands.

The argument has two halves. `TableSteps` says every step does one of five things to the table:
settle some live rows, open one row, pick one waiting row, prune settled rows, or nothing. What
is true of the table alone (`LaneStep`, `AttemptStep`, `SettledStep`, and the refinement's
`PromiseStep`) follows from those five, whoever acted. What is true of hands follows action by
action (`ClaimHands`, `RunHands`, `SettleHands`, `CancelHands`, ...). `IInv` is itself what the proof
of `Inductive` shows, and every listed theorem cites it.

`DeliveryPipelineProofs` proves, for any deliveries, keys, listeners, workers and chat turns, from
`QueueConstants` and `PipelineConstants` (what the jobs and keys of the pipeline are, and that a
callback has at least one attempt):

* `PipelineUsesQueue` (`PSpec => Spec`): every theorem above holds of the whole pipeline.
* `PipelineKeepsLedger` (`PSpec => Ledger!Spec`).
* `PipelineTypeCorrect`, `OneTurn` (`OneTurnPerWorkspace`), `VerdictsAreEarned` (`JudgedRan`) and
  `AgentRunsOnce`, the half of `AgentOncePerKey` about one delivery.
* `KeyHasOneAnswer` (`OneAnswerPerKey`) and `OneToldAtATime` (`OneAttemptAhead`), with crashes, restarts and
  panics in them.
* `EveryOutcomeIsTold` (`AnnouncedOnce`), assuming `~Crashes`, and `LedgerCarried` (`LedgerIsCarried`), assuming
  `~Crashes` and `~Panics`. Both assumptions are needed and are the code's: what a boot settles is announced to
  nobody, what a crash interrupts is carried by nobody until the boot, and a panic in the agent leaves its
  row running. They are constants of the module that either value satisfies, and the runs take both.

The three specifications are tied by one invariant, `Fits`. Types alone are not inductive: the
runner reads the row of *its unit's* run, so one must know that a runner at `settle` has a
delivery (`RunnerFits`), which needs that no worker ever claims a chat turn's unit (`ChatsApart`), which
needs that what a worker holds is a row (`IInv` of the queue). `DoorFits` says a handler past its INSERT
has a row, `CancelFits` that a cancel settles rows of deliveries. `QueueSteps` shows that every
step of the pipeline does one of the queue's steps or none, `Others` that a step is about one worker's
runner at most; both let the rest go by the runner's own steps.

On top of `Fits`: `Latched` says that inside the agent, and from the latch to the unlatch of a
chat turn, the latch is held and by one owner; lanes play no part in it, since a cancel frees a lane
under a run. `Progress` says that a runner that has begun has a row past waiting, alone of all
workers, and has counted its agent's run exactly when it is at or past it; a start needs a waiting
row, so nothing begins twice.

What is queued rests on keys. `Births` says what a new row may be and who puts it in; from it `Keyed`: a unit
has the key of its job, nobody else has that key, and what reached an agent was a unit, so two deliveries
under one key cannot both have. `Stands` is about callers alone: who has been answered is gone, and
the row it was answered from is settled, which the ledger never takes back. `Chained` says that the attempt n
to tell a listener comes after all those before it, and that of two attempts the earlier has no POST ahead:
the next one is queued by a runner that is past its own (`RetriedIsPosted`), under a key of its own, and
no step puts a POST ahead of a unit that had none (`AheadKeeps`). With one key for the first attempt,
a door, a worker and a cancel that all settle one run cannot have two under way.
Without crashes, `ToldStep` follows the one who wrote the outcome to its announcement, `Unserved` says that the one boot
there is finds an empty ledger, and `Borne` follows a waiting row from its handler to its unit,
the worker that claims it or the cancel that kills it, and a running one to the end of its run (`Stays`: who
does not step stays).

The other modules each prove the properties their components' runs check, for any sets and any
bounds, from the assumptions named in each component's module. Each begins with the inductive invariant:
what is in it besides the property is what the code relies on and nowhere says.

* `AgentProofs`, the tree (`TreeConstants`): `TreeTyped`, and `OneRun` for `TreeIsOneRun`. `TreeInv` says that everybody
  below the top of the stack waits for a call it made (`FramesFit`), so that only the top moves; that a call
  noted at depth d is followed by the call that delegated to its agent, or that very agent is
  still at place d + 1 (`RecordFits`, where the property says so of the top only, which is not kept by
  a step); that what was shown is what the tree's cache holds (`ContextFits`); and that whoever
  is about to ask the model has just looked at the ceiling (`BudgetFits`). Every action is one of four
  shapes (the top moves, notes a call, hands over, leaves), and each shape has its lemma.
* `AgentProofs`, the plan (`PlanConstants`): `PlansTyped`, and `PlanFollowed` for `PlanIsFollowed`, an
  invariant and a step property. `WalkerFits` says that what the turn has read is so as long as
  nobody else has written it since; `MoverFits` that whoever moves a position held the step against
  the plan. The attempt found that the model let a rollback put back what another rollback had noted;
  the code hands the snapshot down as a parameter (`snapshot.go:305`), and so does the model now (`back`).
* `AgentProofs`, the gate (`GateConstants`): `SearchIsAsked` for `SearchesAreAsked`, `LogTellsTheTruth` for
  `LogIsTrue`. A turn in a search holds the last row of its own (`RowsAreHeld`), turns are apart, the slot
  is somebody's who is at it (`SlotOfOne`), an answer on its way is the only one for its search
  (`AnswersAreRight`), a turn told to be quiet is latched or tainted (`QuietIsKept`), and the counts of
  both budgets have room as long as a search may still be sent (`SpentRightly`, over finite sets).
* `ToolProofs`, gears and the gate (`GearConstants`, `ProxyConstants`): `GearsTyped`, `DecidedAndTold` for
  `GearsAreDecided`, and `LogAndReach` for `ConnectsAsLogged`. `CallFits` says that as long as the gear a
  call has read is still there, so are the files it read, approved and granted as they were, whatever was
  forged and decided since; `ToldOrLost` that the approval that counts is on the trail, on its way
  there, or lost to a failing statement; `RowsFit` and `RowOfOne` what is known of a connection's row from
  where the connection is.
* `ToolProofs`, the pool (`PoolConstants`): `PoolKeepsItsWord` for `PoolIsSound`. What the pool keeps under a
  command is an open connection of it (`KeptIsOpen`), what a call holds is its own or the pool's,
  marked busy, until the pool is drained (`HeldIsHeld`), and held by one.
* `ToolProofs`, the shell (`TerminalConstants`): `TermTyped`, and `ShellFollowed` for `ShellIsFollowed`. What a
  viewer has read and what waits in its channel are one sequence that goes up by one (`AllShown`); it
  ends at the last chunk printed, or at the one before while that one is on its way, which is what
  `IsShown` adds to the property: between `pump`'s two steps the property alone says nothing. `ViewFits`
  and `OneEach` say whose a channel is, `LastReads` that the last to come is the one attached.
* `ToolProofs`, versions (`VersionConstants`): `VersionTyped`, and `VersionsKept` for `VersionsHold`. Both of its
  parts are about the last moment of a rollback, and both are false of the step before without what
  `VersionInv` adds. `Keeping` follows what is about to be destroyed: while the snapshot is taken, each row
  of the kinds already read is in it or came since; then it is in a version (`Covered`), kind by kind
  up to the one that is being drawn. `Landing` follows a rollback that nobody disturbed: `Peopled` says which
  agents are made, removed and still to do, `Furnished` that every kind before the present one is, row by
  row, what the version says, and `Landed` that after the last kind all of them are.
* `ToolProofs`, all of them: `ToolsTyped` for `ToolsTypeOK`, from the six invariants and the one of
  `ScheduleClockProofs`, since a step is of one component and leaves the variables of the others alone.
* `ScheduleClockProofs` (`ClockConstants`: the clock is none of the operators, there is an instant): `ClockTyped`,
  and `FiringsRight` for `FiringsAreRight`. The tick decides on snapshots and writes rows, so the invariant is
  about both: a row is due after the last firing under its rule (`RowFits`), a snapshot is of the row's rule or
  an older one (`SnapFits`), is ahead of what was fired (`Ahead`) and names the unit that is unfinished
  (`Told`), and the tick has one snapshot of a schedule (`DueFits`, `InHand`). A rule that was edited since is
  another rule: each fact is stated up to the number of its edit.
* `ShelfProofs` (`ShelfConstants`: there are finitely many bundles, each with an id, a version and what it asks for):
  `ShelfTyped`, and `ShelfHolds` for `ShelfIsSound`, two invariants and a step property. `DeskFits` says how far the
  request in progress has come; `Agreed` that an approval stands for bytes that were agreed to and what is on the
  disk is what its digest says, unless an install ended half-way; `OnlyOwed` what the composition and the backends are
  *while* a request is being answered, for each place it may be at, where the property speaks of the desk
  at rest alone. The composition is a `FlattenSeq` over the list. `SequenceFacts` shows once what that returns for any
  sequences, from the prefixes it is flattened through; the induction over their number is spelled out as a search for the
  least number where the claim fails, because the library's own induction theorems take an operator.
* `PlatformProofs`, the update check (`UpdateConstants`): `AnswersAreKept` for `UpdatesAreDecided`. The count
  the checker keeps is the number of loops there are, none or one (`LiveCounts`), and an answer on its way to
  the row is the last one (`RowFollows`).
* `PlatformProofs`, the plugin's backend (`BackendConstants`, and `SomebodyCalls`, that nobody is not a call):
  `BackendTyped`, and `AnswersComeHome` for `BackendIsSound`. Whoever holds the worker is in an exchange and nobody
  else is (`HolderTalks`); the pipe has one frame at most, of the exchange that holds the worker, and none
  between two of them unless the child is dead (`PipeFits`, which says for each place of an exchange what the
  child may be at). That is why an answer cannot be a call's that gave up.
* `PlatformProofs`, the warm pool (`WarmConstants`): `WarmTyped`, and `KeptByOne` for `WarmIsSound`. A run's
  container is in neither the pool nor the hands of who removes it, and as clean as where the run is with it
  promises (`RunFits`); runs are apart; the pool has nothing twice; what is up and not leaked is kept (`UpIsKept`).
* `PlatformProofs`, sign-in (`SignInConstants`: there is a key): `SignInTyped`, and `RefreshHeld` for `SignInIsSound`.
  No generation is ahead of the server's (`NobodyAhead`); an answer on its way to the row is the newest of its
  family (`AnswerIsNewest`) and, where the server rotates, alone (`AnswerIsAlone`: whoever else refreshes that
  family holds an older token and will be refused); what a return was just given is nobody else's.
* `PlatformProofs`, the wire (`WireConstants`: the dial is none of the callers): `WireTyped`, and
  `EverybodyToldItsOwn` for `WireIsSound`. An id that is waited for or not given out has an empty channel
  (`SlotsFit`), and whoever has an answer to hand took its id out of the table, alone (`ReaderFits`,
  `PostsFit`, `ClaimsApart`): so no hand-over ever finds a full channel. `HandshakeFits` and `UnheardFits` say what there is
  before the first answer of a server was heard, which `SessionIsEchoed` needs.
* `PlatformProofs`, both: `McpHolds` for `McpIsSound`, in the instances of `MCPlatform`. `WireRests`, that
  `"stream"` is a kind, is how a wire rests there.

For run `deliveries`, `DeliveryPipelineProofs` also proves `RowsCarried` (`RowsAreCarried`), assuming `~Panics`: of its
three surroundings the two that stay up are told by `focus`, and `Carrying` is `Borne`, `Unserved` and
`OutcomeIsAnnounced` in those two, although crashes are possible in the third.

Each of these invariants was checked by TLC on a small instance before it was proved.

Taken together, these theorems cover the properties of `queue`, `workspace`, `deliveries` and `tools` in full, of `agents`
all but `HistoryIsSound` and the types, and of `platform` all but the stack of layers and the types. Of
what `deliveries` asks of a process that stays up, `AnnouncedOnce` is proved under `~Crashes` and
`RowsAreCarried` under `~Panics`.

**Only model-checked:** `HistoryIsSound` (what `buildHistory` and `repairHistory` compute is a fold over the timeline; the
prover has no induction over data, and one spelled out as in `SequenceFacts` has not been written for it), `StackIsSound`
(the order of layers is a recursive function over them), `AgentsTypeOK` and `PlatformTypeOK`, the conjunctions that include those
modules' types, and all liveness (`EverybodyIsAnswered` of run `answers` and the properties of run `settle`: fairness
and ENABLED are outside what the prover handles).

## Findings

Four runs end in a violation. Each is a sentence of the repository the code does not keep.

* `lane_holder_busy`. `delivery_runner.go:102` says a worker that holds the lane "cannot meet a
  busy workspace". A chat turn latches the workspace (`engine.go:297`) before it asks for the lane,
  so both can lose: the delivery is settled as failed and the chat is told the workspace is busy.
* `boot_order`. `server.go:846-848` takes a row still saying running for a job that died with the
  last process. The pool has been running since `New`, so a queued delivery of the last process may
  have been started by this one; it is marked interrupted and its result is dropped.
* `queued_forever`. `runs.go:191-195` names a row that says `queued` forever as the failure the guard
  ends. A crash between `Queued` and `Enqueue`, or between `Claim` and `Start`, leaves one, and
  `ReconcileRuns` leaves `queued` rows alone.
* `unmirrored`. `paramheaders.go:15-16` says a client MUST copy an annotated argument into a header of the
  call. `CallTool` knows the annotations from the listing its own connection made
  (`mcpclient.go:335-339, 381`), and only a probe's connection lists (`mcp_handlers.go:311`): the
  connections agents call on never send the header.

## Divergences

Cases met while modelling that the models contain or that bound what the properties promise,
and for which no run is listed:

* *Lane overlap.* `Kill` frees the lane (`work.go:286`) while the runner is still unwinding; two runs of
  one lane are then in flight (`work.go:1-2` reads otherwise). `OverlapOnlyAfterKill` says this is the only
  way, and `OneTurnPerWorkspace` that the engine's latch still keeps the turns apart.
* *Missed cancel.* A cancel between `Claim` and registration marks the row dead and interrupts
  nothing (`pool.go:98`); the run goes on to its end and its result is discarded.
* *Stale unit.* The unit `SetWorkFor` noted for a run that never began is taken by the next turn of the
  workspace (`engine/egress.go:75, 92`). `beginTurn` also reads that map without the mutex its writer holds.
* *Stopped callback.* A callback cancelled during its POST queues its own retry (`callback.go:194`).
* *Depth race.* The depth of a lane is counted before the body is read and used after it
  (`inlet_handlers.go:191`), so requests together exceed `queue_max_per_workspace`; a depth query that fails
  because its caller is gone leaves the row accepted until the next boot.
* *Panic.* A runner's panic settles the unit and leaves the ledger row running until the next boot
  (`pool.go:203`); `RunningIsWorkedOn` is checked without panics.
* *Stopped is not failed.* `failedRun` asks a context stripped of its cancellation whether it was cancelled
  (`delivery_runner.go:157`), so that branch is never taken.
* *Lane left.* `ClaimNow` inserts, then reads back on the caller's context (`work.go:440`): if the caller is
  gone in between, the lane stays claimed until the next boot. `NoOrphanClaim` excepts exactly that.
* *Announcements.* The loser of a race to settle still announces; a callback in flight at a restart is dead and
  not retried; rows settled by `ReconcileRuns` are not announced.
* *Edits beside the clock.* `SetEnabled` and `Update` write `next_at` without comparing it, so an edit that was
  read before a tick and written after it can bring an instant back. `FiringsAreNew` therefore
  speaks of firings between two edits.
* *Overlap protection.* A failed or lost `NoteUnit`, or a run-now, makes the row remember another unit than
  the clock's last, and `Advance` writes back the `last_work_id` of its snapshot; `NoOverlap` excepts
  those schedules by name (`unnoted`). Reused unit ids can make a skip about somebody else's unit.
* *Run-now hang-up.* A run-now works on its caller's context (`schedule_handlers.go:407`); a hang-up between
  two statements leaves a ledger row without a unit (`stray`).
* *Search, kill late.* The kill switch is read before a search waits and not after it
  (`egress_handlers.go:72`): a search already waiting is sent if it is then allowed.
* *Search, answer late.* An approval that arrives as the wait times out is answered as accepted and
  dropped (`broker.go:169`).
* *Search, settled late.* A failed settle or a crash after the fetch leaves a search that was sent recorded as
  interrupted or awaiting; `LogIsTrue` says nothing of those two states.
* *Plan, position astray.* `position.go:169` takes a position past the end for a plan without steps ("Saving
  clamps positions"). A request that counted the steps before a save and wrote after it, or a rollback, leaves
  one (`AttachedPlanHasItsStep`, defined and in no run); `PositionPointsAtAStep` excepts exactly those.
* *Plan, worker.* `plantools.go:17` says a worker may close the step in front of it; `dispatchTool`
  (`tools.go:757-760`) lets only the orchestrator's plan tools through (`WorkerClosesItsStep`).
* *Versions, clocks.* A version records the clocks that start an agent; a clock that starts a gear or a task
  is deleted by a rollback all the same and is in no version. Stopped clocks are enabled by a
  restore (`snapshot.go:301`, `RestoreIsExact`).
* *Versions, half way.* `Restore` is no transaction: an agent without a model, or whose model is gone, stops it
  where it is; if the version it takes first cannot be taken, it goes on unkept. An agent created
  between two of `Take`'s lists has a private document recorded as everybody's.
* *Gears, unrecorded run.* `executor.go` wants every execution on the trail; a gear deleted while it
  runs has none (`EveryRunIsRecorded`; the row would violate migration 29's key).
* *Gears, trail.* `recordApproval` reads the version after the status was written (`approvals.go:67`), so a
  version forged in between is the one named (`TrailNamesWhatWasDecided`). A decision names a gear and
  no version, so it approves what is there when it lands. A gear deleted and forged again between the
  executor's read and its materialising runs under the old one's approval (`gone`).
* *Gate, read requests.* `Ticket.Close` says connections still open are cut; those read one request at a time
  wait for their client (`RunEndCutsAll`). A row is also closed when nothing was reached (`ClosedWasReached`).
* *MCP, values.* `engine/mcp.go` says one workspace's credentials must not answer another's turn; the pool's
  key holds the command and not the workspace (`EachWorkspaceItsValues`).
* *Terminal, panic.* The pump picks a viewer's channel under the lock and sends outside it; `release` closes it in
  between (`terminal_sessions.go:127`, `:184`; `PumpNeverSendsToClosed`). A `take` of a closed session gets a
  channel nobody closes; `end` has no caller; a handler past its upgrade when `closeAll` runs starts a shell
  nobody ends.
* *Turn, forgotten half.* `DeleteMessage` removes a call with its result; a result that lands later is kept, and
  with a provider that omits ids it answers an earlier call (`ForgottenIsForgotten`). A history may hold two
  turns of one role in a row (`RolesAlternate`).
* *Turn, record.* `record.go:42` promises the versions that fed a run; the version noted is looked up in a
  statement of its own, after the text (`RecordNamesWhatWasRead`).
* *Plugins, the list.* `plugins.order` is read and written back without a lock, so of two requests at once one is
  lost; two installs at once share a staging directory, and of two recompositions the older may be stored
  last. `PluginShelf` has one request at a time.
* *Plugins, an install.* Installing an enabled plugin takes it off the list on disk and recomposes nothing, while
  the answer says that nothing running changed. An install of the very bytes that were approved leaves the plugin
  enabled although the message says it was switched off. A crash between the rename and the three records after it
  leaves new content beside an old decision (`torn`), and the boot takes what is on the list.
* *Plugins, disable.* Disabling a plugin that cannot be read writes the list and then answers 404 without
  recomposing.
* *Plugins, order.* The order keeps a dependent's first move only (`plugin/order.go:8-10`), which is why
  `OrderIsTheirs` speaks of the list and not of moves.
* *Backends.* `cas` from version 0 on a row at version 1 answers that it swapped; deleting and creating a row
  starts its version afresh. The goroutine a timeout leaves behind reads the worker's fields without its
  lock. A write of a frame has no deadline; a caller that hangs up during a start counts as a failed start;
  `backends.close` has no caller. The image tier answers no host calls, although
  `docs/planning/plugin-system.md:156` gives all tiers one list.
* *Sandbox.* A cancelled run gives its container back to the pool while its process may still be at work; a
  container put back after `Close` is kept by nobody who will remove it; nor is one whose removal failed.
* *Updates.* A look in flight when the check is switched off stores its report all the same; a loop that is leaving makes
  a new one not start until the next answer; of two answers at once the row may keep the other. An "off"
  somebody answered is refused afterwards as if the file said it (`update.go:310`, against `:229-232`;
  `RefusedByTheFile`).
* *Sign-in.* `Forget` is not called when a refresh is refused, though its comment says so (`mcpoauth/store.go:263`); a save
  that fails after a rotation loses the grant, though the comment there expects one refresh more. An exchange or a
  refresh in flight writes back a grant that was removed meanwhile, or an older one over a newer. Two
  sign-ins at once, or a grant that does not open under the present key, lose the scopes of the other.
  `mcpHeaders` goes on without a grant it cannot use where no header is named, though its comment calls that worth
  failing for.
* *Wire.* A write to a child's pipe is outside the timeout that is said to bound a call, and the only reader
  makes such writes itself; over POSTs a `cancelled` may overtake what it cancels. A stream that ends without
  the answer leaves the call to its timeout, though `send`'s comment says the caller is answered. Of three
  listings only that of tools notices a cursor that comes back. A call made after the end leaves its entry.

The formulas named in brackets are defined at the end of their modules, under "What the code says of itself and
does not keep", and are in no run.

## Not modelled

* *Calendar search.* `schedule/spec.go` computes the next instant of a calendar spec; `ScheduleClock` takes three kinds
  that differ in what it answers. Daylight saving and month ends are covered by no property.
* *Left-over work note.* The note `SetWorkFor` leaves for a run that never began is in the pipeline's model, and no property
  is about it, because nothing in the code promises what the next turn does with it (see Divergences, *Stale unit*).
* *Scheduled gears and plugin tasks* are dispatched by the runner's code and are not jobs of `DeliveryPipeline`.
* *Jobs of the door:* payload parsing, landing of files, storage errors, administration of inlets.
* *Tools:* of the engine's tools only those with a protocol of their own (delegation, plans, search, gears, MCP,
  documents, wires), and of the others the gates they pass.
* *Kubernetes and process drivers, WebAssembly, script and image tiers:* they answer in process, or by one call
  to something external.
* *Plugin manifests, the trust store of catalogues, scaffold and bake, templates' content, version channels.*
* *Identity, secrets, settings, catalogue, bundles, library, metrics, configuration, storage, MCP server, working
  directories, web search, model providers, the web interface, commands, desktop shell, SDKs:* rows over SQL, files,
  rendering, parsing or clients, without a protocol of several steps and parties that TLC would say something about.

Of what is modelled, the next proofs would be `HistoryIsSound` and `StackIsSound`, the former with an induction over the
rows of a timeline spelled out as the one of `SequenceFacts` is.
