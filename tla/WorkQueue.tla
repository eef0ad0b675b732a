------------------------------ MODULE WorkQueue ------------------------------
(***************************************************************************)
(* The durable work queue (src/internal/work): the table `work`, the pool  *)
(* of workers that drains it, the chat turns that take a lane at once, the *)
(* operator's cancel, the pruner, and the life of the one server process.  *)
(*                                                                         *)
(* Every SQL statement is one atomic step, because the database is opened  *)
(* with a single connection (src/internal/store/store.go); everything      *)
(* between two statements is an interleaving point.  The table survives a  *)
(* crash, the other variables do not.                                      *)
(***************************************************************************)
EXTENDS Integers, FiniteSets

CONSTANTS
    Lanes,        \* serialisation domains: "ws:<id>", "cb:<run>"
    Keys,         \* idempotency keys, already scoped to (kind, workspace)
    NoKey,        \* the NULL of idem_key
    Jobs,         \* what a unit is: its kind, run and arguments
    Workers,      \* the goroutines of the pool
    Chats,        \* operators who may be in a chat turn
    MaxUnits,     \* bound: largest unit id
    MaxTime,      \* bound: last instant of the clock
    MaxFaults     \* bound: claims that may be left behind by a statement that
                  \* fails or a caller that is gone

ASSUME QueueConstants ==
    /\ NoKey \notin Keys
    /\ MaxUnits \in Nat /\ MaxTime \in Nat /\ MaxFaults \in Nat

Ids   == 1..MaxUnits
Times == 0..MaxTime

Live    == {"queued", "claimed"}
Settled == {"done", "dead"}

Row == [state : Live \cup Settled, lane : Lanes, key : Keys \cup {NoKey},
        job : Jobs, after : Times, attempts : Nat]

\* Where a worker is in Pool.worker / Pool.execute.
WorkerPCs == {"idle", "claimed", "running", "returned", "panicked", "settled"}

VARIABLES
    work,      \* the table: id -> Row, its domain the rows that exist
    clock,     \* the instant run_after is compared with
    worker,    \* [Workers -> [pc, unit, cancelled]]; unit 0 is none
    chat,      \* [Chats -> unit of the lane the turn holds, 0 for no turn]
    running,   \* Pool.running: the units a cancel can reach
    killing,   \* cancels between Kill and Pool.Cancel
    proc,      \* the server process: "down", "up", "stopping"
    lost       \* claims nobody holds: a Settle or ReleaseClaims failed, or the
               \* caller was gone before its claim was read back

volatile == <<worker, chat, running, killing>>
vars     == <<work, clock, worker, chat, running, killing, proc, lost>>

------------------------------------------------------------------------------
(* The table.                                                              *)

InState(S)  == {i \in DOMAIN work : work[i].state \in S}

\* Mutant of LaneFree: the unique index covers queued rows instead of claimed ones.
LaneUnqueued(l) == \A i \in InState({"queued"}) : work[i].lane # l

LaneFree(l) == \A i \in InState({"claimed"}) : work[i].lane # l
KeyTaken(k) == k # NoKey /\ \E i \in DOMAIN work : work[i].key = k

\* INTEGER PRIMARY KEY without AUTOINCREMENT: one past the largest id there is,
\* so the id of a pruned row can come back.
NextId(i) ==
    /\ i \in Ids
    /\ \A j \in DOMAIN work : j < i
    /\ i = 1 \/ i - 1 \in DOMAIN work

Insert(i, row) ==
    /\ NextId(i)
    /\ work' = [j \in DOMAIN work \cup {i} |-> IF j = i THEN row ELSE work[j]]

Mark(S, to) == [j \in DOMAIN work |->
                  IF j \in S THEN [work[j] EXCEPT !.state = to] ELSE work[j]]

\* Mutant of Update: the statement has lost its guard on the state.
UpdateUnguarded(i, from, to) == work' = Mark({i}, to)

\* UPDATE ... WHERE id = ? AND state IN from: no row, no change.
Update(i, from, to) == work' = Mark({i} \cap InState(from), to)

------------------------------------------------------------------------------
(* The process.                                                            *)

Alive        == proc # "down"
Executing    == {w \in Workers : worker[w].pc # "idle"}
Held         == {worker[w].unit : w \in Executing} \cup ({chat[c] : c \in Chats} \ {0})
IdleWorker   == [pc |-> "idle", unit |-> 0, cancelled |-> FALSE]
Forgotten    == /\ worker'  = [w \in Workers |-> IdleWorker]
                /\ chat'    = [c \in Chats |-> 0]
                /\ running' = {}
                /\ killing' = {}

Init ==
    /\ work = [i \in {} |-> {}]
    /\ clock = 0
    /\ worker = [w \in Workers |-> IdleWorker]
    /\ chat = [c \in Chats |-> 0]
    /\ running = {} /\ killing = {} /\ lost = {}
    /\ proc = "down"

\* Mutant of Start: what a dead process had claimed is queued again.
StartRequeues ==
    /\ proc = "down"
    /\ proc' = "up"
    /\ work' = Mark(InState({"claimed"}), "queued")
    /\ lost' = {}
    /\ UNCHANGED <<clock, volatile>>

\* Pool.Start: ReleaseClaims, then the workers.  A failing ReleaseClaims is
\* logged and the pool starts over claims nobody holds.
Start ==
    /\ proc = "down"
    /\ proc' = "up"
    /\ \/ /\ work' = Mark(InState({"claimed"}), "dead")
          /\ lost' = {}
       \/ /\ Cardinality(InState({"claimed"})) <= MaxFaults
          /\ lost' = InState({"claimed"})
          /\ UNCHANGED work
    /\ UNCHANGED <<clock, volatile>>

\* Pool.Stop: no more claims, every run's context is cancelled, and the pool
\* waits for what is in flight.
Stop ==
    /\ proc = "up"
    /\ proc' = "stopping"
    /\ worker' = [w \in Workers |-> [worker[w] EXCEPT !.cancelled = @ \/ w \in Executing]]
    /\ UNCHANGED <<work, clock, chat, running, killing, lost>>

Exit ==
    /\ proc = "stopping"
    /\ Executing = {}
    /\ proc' = "down"
    /\ Forgotten
    /\ UNCHANGED <<work, clock, lost>>

Crash ==
    /\ Alive
    /\ proc' = "down"
    /\ Forgotten
    /\ UNCHANGED <<work, clock, lost>>

Tick ==
    /\ clock < MaxTime
    /\ clock' = clock + 1
    /\ UNCHANGED <<work, volatile, proc, lost>>

------------------------------------------------------------------------------
(* Putting work in.                                                        *)

\* Enqueue of a key that is not there yet.  A key that is there changes
\* nothing: the caller is answered with the unit it already has.
Enqueue(i, l, k, j, t) ==
    /\ Alive
    /\ ~KeyTaken(k)
    /\ t >= clock
    /\ Insert(i, [state |-> "queued", lane |-> l, key |-> k, job |-> j,
                  after |-> t, attempts |-> 0])
    /\ UNCHANGED <<clock, volatile, proc, lost>>

\* ClaimNow: the row is born claimed, or the index on claimed lanes refuses it.
ChatClaim(c, i, l, j) ==
    /\ Alive
    /\ chat[c] = 0
    /\ LaneFree(l)
    /\ Insert(i, [state |-> "claimed", lane |-> l, key |-> NoKey, job |-> j,
                  after |-> clock, attempts |-> 1])
    /\ chat' = [chat EXCEPT ![c] = i]
    /\ UNCHANGED <<clock, worker, running, killing, proc, lost>>

\* ClaimNow inserts the row and then reads it back on the caller's own context:
\* a caller that hangs up in between has its turn refused, and the lane stays
\* claimed.
ChatClaimUnread(c, i, l, j) ==
    /\ Alive
    /\ chat[c] = 0
    /\ LaneFree(l)
    /\ Cardinality(lost) < MaxFaults
    /\ Insert(i, [state |-> "claimed", lane |-> l, key |-> NoKey, job |-> j,
                  after |-> clock, attempts |-> 1])
    /\ lost' = lost \cup {i}
    /\ UNCHANGED <<clock, volatile, proc>>

ChatSettle(c) ==
    /\ chat[c] # 0
    /\ Update(chat[c], {"claimed"}, "done")
    /\ chat' = [chat EXCEPT ![c] = 0]
    /\ UNCHANGED <<clock, worker, running, killing, proc, lost>>

\* The deferred Settle fails: logged, and the workspace's lane stays held.
ChatSettleFails(c) ==
    /\ chat[c] # 0
    /\ Cardinality(lost) < MaxFaults
    /\ lost' = lost \cup ({chat[c]} \cap InState({"claimed"}))
    /\ chat' = [chat EXCEPT ![c] = 0]
    /\ UNCHANGED <<work, clock, worker, running, killing, proc>>

------------------------------------------------------------------------------
(* The pool.                                                               *)

Claimable(i) == /\ i \in InState({"queued"})
                /\ work[i].after <= clock
                /\ LaneFree(work[i].lane)

\* ORDER BY run_after, id
Before(i, j) == \/ work[i].after < work[j].after
                \/ work[i].after = work[j].after /\ i < j

Claim(w, i) ==
    /\ proc = "up"
    /\ worker[w].pc = "idle"
    /\ Claimable(i)
    /\ \A j \in DOMAIN work \ {i} : Claimable(j) => Before(i, j)
    /\ work' = [work EXCEPT ![i].state = "claimed", ![i].attempts = @ + 1]
    /\ worker' = [worker EXCEPT ![w] = [pc |-> "claimed", unit |-> i, cancelled |-> FALSE]]
    /\ UNCHANGED <<clock, chat, running, killing, proc, lost>>

\* The cancel function is published and the runner entered.
Register(w) ==
    /\ worker[w].pc = "claimed"
    /\ running' = running \cup {worker[w].unit}
    /\ worker' = [worker EXCEPT ![w].pc = "running", ![w].cancelled = @ \/ proc = "stopping"]
    /\ UNCHANGED <<work, clock, chat, killing, proc, lost>>

\* The runner comes back, with an error or without one.
Return(w) ==
    /\ worker[w].pc = "running"
    /\ worker' = [worker EXCEPT ![w].pc = "returned"]
    /\ UNCHANGED <<work, clock, chat, running, killing, proc, lost>>

\* Mutant of Panic: nothing settles the unit.
PanicUnsettled(w) ==
    /\ worker[w].pc = "running"
    /\ worker' = [worker EXCEPT ![w] = IdleWorker]
    /\ running' = running \ {worker[w].unit}
    /\ UNCHANGED <<work, clock, chat, killing, proc, lost>>

\* The runner panics: the deferred functions unregister the unit first, the
\* recover settles it afterwards.
Panic(w) ==
    /\ worker[w].pc = "running"
    /\ worker' = [worker EXCEPT ![w].pc = "panicked"]
    /\ running' = running \ {worker[w].unit}
    /\ UNCHANGED <<work, clock, chat, killing, proc, lost>>

AfterSettle(w) ==
    worker' = [worker EXCEPT ![w] = IF @.pc = "returned" THEN [@ EXCEPT !.pc = "settled"]
                                                        ELSE IdleWorker]

\* Store.Settle on a context nothing cancels; a unit killed meanwhile is left.
SettleUnit(w) ==
    /\ worker[w].pc \in {"returned", "panicked"}
    /\ Update(worker[w].unit, {"claimed"}, "done")
    /\ AfterSettle(w)
    /\ UNCHANGED <<clock, chat, running, killing, proc, lost>>

\* The statement fails: the row stays claimed and its lane stays held.
SettleFails(w) ==
    /\ worker[w].pc \in {"returned", "panicked"}
    /\ Cardinality(lost) < MaxFaults
    /\ lost' = lost \cup ({worker[w].unit} \cap InState({"claimed"}))
    /\ AfterSettle(w)
    /\ UNCHANGED <<work, clock, chat, running, killing, proc>>

Unregister(w) ==
    /\ worker[w].pc = "settled"
    /\ running' = running \ {worker[w].unit}
    /\ worker' = [worker EXCEPT ![w] = IdleWorker]
    /\ UNCHANGED <<work, clock, chat, killing, proc, lost>>

------------------------------------------------------------------------------
(* Taking work out.                                                        *)

\* handleCancelQueued, first half: Store.Kill from either live state.
Kill(i) ==
    /\ Alive
    /\ i \in InState(Live)
    /\ Update(i, Live, "dead")
    /\ killing' = killing \cup {i}
    /\ lost' = lost \ {i}
    /\ UNCHANGED <<clock, worker, chat, running, proc>>

\* Second half: Pool.Cancel reaches the unit if it is registered.
CancelRunning(i) ==
    /\ i \in killing
    /\ killing' = killing \ {i}
    /\ worker' = [w \in Workers |->
                    [worker[w] EXCEPT !.cancelled =
                        @ \/ (i \in running /\ w \in Executing /\ worker[w].unit = i)]]
    /\ UNCHANGED <<work, clock, chat, running, proc, lost>>

\* Mutant of Prune: a window so short that it reaches units still in hand.
PruneEager(S) ==
    /\ Alive
    /\ S # {} /\ S \subseteq InState(Settled)
    /\ work' = [j \in DOMAIN work \ S |-> work[j]]
    /\ UNCHANGED <<clock, volatile, proc, lost>>

\* Store.Prune.  The window is days and a run is not, so the ids somebody in
\* this process still holds are out of its reach; which of the others are old
\* enough is left open.
Prune(S) ==
    /\ Alive
    /\ S # {} /\ S \subseteq InState(Settled) \ (Held \cup killing)
    /\ work' = [j \in DOMAIN work \ S |-> work[j]]
    /\ UNCHANGED <<clock, volatile, proc, lost>>

------------------------------------------------------------------------------

PoolStep(w) ==
    \/ \E i \in Ids : Claim(w, i)
    \/ Register(w) \/ Return(w) \/ Panic(w)
    \/ SettleUnit(w) \/ SettleFails(w) \/ Unregister(w)

ChatStep(c) ==
    \/ \E i \in Ids, l \in Lanes, j \in Jobs :
          ChatClaim(c, i, l, j) \/ ChatClaimUnread(c, i, l, j)
    \/ ChatSettle(c) \/ ChatSettleFails(c)

Next ==
    \/ Start \/ Stop \/ Exit \/ Crash \/ Tick
    \/ \E i \in Ids, l \in Lanes, k \in Keys \cup {NoKey}, j \in Jobs, t \in Times :
           Enqueue(i, l, k, j, t)
    \/ \E w \in Workers : PoolStep(w)
    \/ \E c \in Chats : ChatStep(c)
    \/ \E i \in Ids : Kill(i) \/ CancelRunning(i)
    \/ \E S \in SUBSET Ids : Prune(S)

Spec == Init /\ [][Next]_vars

\* A runner ends (the tool loop is bounded, model calls time out), so does a
\* chat turn; a worker polls the table every Idle for as long as it lives, so a
\* unit that keeps becoming claimable is not passed over forever; the clock
\* runs; a stopped server is started again.
Fairness ==
    /\ WF_vars(Start) /\ WF_vars(Exit) /\ WF_vars(Tick)
    /\ \A w \in Workers : /\ WF_vars(Register(w))
                          /\ WF_vars(Return(w))
                          /\ WF_vars(SettleUnit(w))
                          /\ WF_vars(Unregister(w))
    /\ \A c \in Chats : WF_vars(ChatSettle(c))
    /\ \A i \in Ids : SF_vars(\E w \in Workers : Claim(w, i))

FairSpec == Spec /\ Fairness

------------------------------------------------------------------------------
(* Properties.                                                             *)

\* Every variable stays within its type.
TypeOK ==
    /\ DOMAIN work \subseteq Ids
    /\ \A i \in DOMAIN work : work[i] \in Row
    /\ clock \in Times
    /\ worker \in [Workers -> [pc : WorkerPCs, unit : 0..MaxUnits, cancelled : BOOLEAN]]
    /\ chat \in [Chats -> 0..MaxUnits]
    /\ running \subseteq Ids /\ killing \subseteq Ids /\ lost \subseteq Ids
    /\ proc \in {"down", "up", "stopping"}

\* The lane rule on the table: never two claimed units in one lane, whoever
\* claimed them, a worker's Claim or a chat turn's ClaimNow, and across a
\* restart (work.go, 0022_work_queue.sql "one claimed unit per lane").
LaneExclusive ==
    \A i, j \in InState({"claimed"}) : work[i].lane = work[j].lane => i = j

\* No lane is held by nobody: while a process lives, a claimed unit is being
\* executed by a worker or held by a chat turn of that very process, except
\* where the statement that had to release it failed or the caller of a chat turn
\* was gone before its claim was read back (pool.go Start, execute, work.go ClaimNow).
NoOrphanClaim ==
    Alive => InState({"claimed"}) \subseteq Held \cup lost

\* A unit is in one pair of hands: no two workers, no two chat turns and no
\* worker and chat turn ever hold the same unit, even when a unit's id was
\* used before by a row that has been pruned.
UnitHeldOnce ==
    /\ \A v, w \in Executing : worker[v].unit = worker[w].unit => v = w
    /\ \A c, d \in Chats : chat[c] # 0 /\ chat[c] = chat[d] => c = d
    /\ \A c \in Chats, w \in Executing : chat[c] # worker[w].unit

\* max_attempts is one: a unit is claimed at most once in its life, whatever
\* crashed or was cancelled meanwhile; nothing but the states enforces it, the
\* column is never read (work.go ReleaseClaims).
OneAttempt ==
    \A i \in DOMAIN work : /\ work[i].attempts <= 1
                           /\ work[i].state = "queued" => work[i].attempts = 0

\* A cancel finds the unit it killed or finds nothing, never another one: what
\* is registered under an id is being executed, and the only row it can be is
\* claimed by its executor, or settled but not yet unregistered (pool.go execute).
RegisteredIsExecuting ==
    \A i \in running : \E w \in Executing :
        /\ worker[w].unit = i
        /\ i \in DOMAIN work /\ work[i].state # "queued"

\* Between two runs in flight in one lane, at most one still has its claim: a
\* lane has a second runner only because an operator killed the first one's
\* unit, never by the queue's own doing (work.go Kill, pool.go execute).
OverlapOnlyAfterKill ==
    \A v, w \in Executing :
        /\ v # w
        /\ {worker[v].pc, worker[w].pc} \subseteq {"claimed", "running", "returned", "panicked"}
        /\ work[worker[v].unit].lane = work[worker[w].unit].lane
        => \E x \in {v, w} : work[worker[x].unit].state = "dead"

\* Every claimed unit is in one pair of hands, for the one time it is tried, and
\* what can be cancelled is in the hands that are named (pool.go execute, work.go
\* Claim, ClaimNow, Kill, ReleaseClaims).
HandsAreRight ==
    NoOrphanClaim /\ UnitHeldOnce /\ OneAttempt /\ RegisteredIsExecuting /\ OverlapOnlyAfterKill

\* A settled unit stays as it was settled until it is pruned: a run that ends
\* after its unit was cancelled does not turn dead into done, and a cancel of
\* something finished rewrites nothing (work.go Settle, Kill).
SettledStays ==
    [][\A i \in DOMAIN work \cap DOMAIN work' :
          work[i].state \in Settled => work'[i] = work[i]]_work

\* The table implements the abstract promise of LaneQueue.
Phase == [queued |-> "waiting", claimed |-> "working", done |-> "over", dead |-> "over"]
Promised == [i \in DOMAIN work |-> [phase |-> Phase[work[i].state], lane |-> work[i].lane]]
Promise == INSTANCE LaneQueue WITH unit <- Promised
ImplementsLaneQueue == Promise!Spec

\* In a server that in the end stays up and whose settles succeed, no unit waits or
\* is worked on for good: each is in the end finished, stopped or pruned, and no
\* lane stays held by one that will never finish (pool.go Start, execute).
EveryUnitSettles ==
    <>[](proc = "up") =>
        \A i \in Ids : []<>(i \notin InState(Live))
==============================================================================
