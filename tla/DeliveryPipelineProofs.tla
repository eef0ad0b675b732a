------------------------ MODULE DeliveryPipelineProofs ------------------------
(***************************************************************************)
(* Theorems about DeliveryPipeline, for any deliveries, keys, listeners,   *)
(* workers and chat turns and any bounds.                                  *)
(*                                                                         *)
(* What a step of the pipeline does to the queue is a step of the queue    *)
(* (QueuePart), so everything proved of WorkQueue holds here.  What it     *)
(* does to the runner of one worker leaves the other runners alone         *)
(* (Others), so what is true of runners follows from the steps of one.     *)
(***************************************************************************)
EXTENDS MCPipelineParts, WorkQueueProofs, FiniteSetTheorems

------------------------------------------------------------------------------
(* What a step of the pipeline does to the queue.                          *)

\* The steps of the queue the pipeline takes, with what it puts in.
QueuePart ==
    \/ UNCHANGED vars
    \/ Start \/ Stop \/ Exit \/ Crash
    \/ \E i \in Ids, r \in Requests :
          \/ Enqueue(i, WS, KeyOf[r], Delivery(r), clock)
          \/ \E n \in Tries : Enqueue(i, r, CallbackKey(r, n), Callback(r, n), clock)
    \/ \E i \in Ids, c \in Chats :
          ChatClaim(c, i, WS, ChatJob) \/ ChatClaimUnread(c, i, WS, ChatJob)
    \/ \E c \in Chats : ChatSettle(c)
    \/ \E w \in Workers :
          \/ \E i \in Ids : Claim(w, i)
          \/ Register(w) \/ Return(w) \/ Panic(w) \/ SettleUnit(w) \/ Unregister(w)
    \/ \E i \in Ids : Kill(i) \/ CancelRunning(i)

\* A chat turn's unit is born claimed and has no key: no worker ever has one.
ChatsApart ==
    /\ \A i \in DOMAIN work : work[i].state = "queued" \/ work[i].key # NoKey
                                 => work[i].job # ChatJob
    /\ \A w \in Workers : worker[w].pc # "idle" => work[worker[w].unit].job # ChatJob

\* What a runner is at fits the unit its worker has.
IsDelivery(j) == \E r \in Requests : j = Delivery(r)
IsCallback(j) == \E r \in Requests, n \in Tries : j = Callback(r, n)
DeliverySteps == {"start", "bind", "engine", "agent", "settle", "announce"}

RunnerFits ==
    \A w \in Workers : worker[w].pc = "running" =>
        /\ runner[w].pc \in DeliverySteps => IsDelivery(JobOf(w))
        /\ runner[w].pc \in {"post", "retry"} => IsCallback(JobOf(w))
        /\ runner[w].pc = "retry" => JobOf(w).try + 1 < CallbackAttempts
        /\ runner[w].pc = "settle" => runner[w].verdict \in Verdicts

\* A cancel knows units that exist, and settles rows of deliveries.
CancelFits ==
    /\ killing \subseteq DOMAIN work
    /\ cancelling \subseteq DOMAIN work
    /\ \A i \in cancelling : IsDelivery(work[i].job)

\* A handler past its INSERT has a row, one that has settled it a settled row.
DoorFits ==
    \A r \in Requests :
        /\ door[r].pc \in {"accepted", "counted", "queued"} => ledger[r] # "none"
        /\ door[r].pc = "settled" => ledger[r] \in Ledger!Terminal

Fits == PTypeOK /\ IInv /\ ChatsApart /\ RunnerFits /\ CancelFits /\ DoorFits

LEMMA JobFacts ==
    /\ ChatJob \in Jobs
    /\ \A r \in Requests : Delivery(r) \in Jobs /\ Delivery(r) # ChatJob
    /\ \A r \in Requests, n \in Tries : /\ Callback(r, n) \in Jobs /\ Callback(r, n) # ChatJob
                                        /\ Callback(r, n) # Delivery(r)
    /\ \A j \in Jobs : j = ChatJob \/ IsDelivery(j) \/ IsCallback(j)
    /\ \A j : IsDelivery(j) => j.run \in Requests /\ j.kind = "delivery" /\ j = Delivery(j.run)
    /\ \A j : IsCallback(j) => j.run \in Requests /\ j.kind = "callback" /\ j.try \in Tries
    /\ 0 \in Tries
<1> USE DEF ChatJob, Delivery, Callback
<1>1. /\ ChatJob \in Jobs
      /\ \A r \in Requests : Delivery(r) \in Jobs
      /\ \A r \in Requests, n \in Tries : Callback(r, n) \in Jobs
  <2> HIDE DEF ChatJob, Delivery, Callback
  <2> QED BY PipelineConstants
<1>2. \A j \in Jobs : j = ChatJob \/ IsDelivery(j) \/ IsCallback(j)
  <2> HIDE DEF ChatJob, Delivery, Callback
  <2> QED BY PipelineConstants DEF IsDelivery, IsCallback
<1>3. 0 \in Tries
  BY PipelineConstants DEF Tries
<1>4. \A r \in Requests : Delivery(r).kind = "delivery" /\ Delivery(r).run = r
  OBVIOUS
<1>5. \A r \in Requests, n \in Tries : /\ Callback(r, n).kind = "callback"
                                       /\ Callback(r, n).run = r /\ Callback(r, n).try = n
  OBVIOUS
<1>6. ChatJob.kind = "chat"
  OBVIOUS
<1> HIDE DEF ChatJob, Delivery, Callback
<1> QED BY <1>1, <1>2, <1>3, <1>4, <1>5, <1>6 DEF IsDelivery, IsCallback

\* The announcement queues the first attempt, or nothing.
LEMMA AnnounceStep ==
    ASSUME NEW r \in Requests, Announce(r)
    PROVE  QueuePart /\ UNCHANGED <<worker, killing>>
BY JobFacts DEF Announce, QueuePart, vars, Enqueue, volatile

\* Whatever the pipeline does, it does one of these to the queue.
LEMMA QueueSteps == ASSUME Fits, [PNext]_allVars PROVE QueuePart
<1>1. CASE UNCHANGED allVars
  BY <1>1 DEF allVars, vars, QueuePart
<1>2. ASSUME NEW r \in Requests, DoorStep(r) PROVE QueuePart
  <2>1. CASE EnqueueDelivery(r)
    BY <2>1 DEF EnqueueDelivery, QueuePart
  <2>2. CASE DoorAnnounce(r)
    BY <2>2, AnnounceStep DEF DoorAnnounce
  <2>3. CASE LookUpKey(r) \/ AcceptRun(r) \/ Refuse(r) \/ CountWaiting(r) \/ RecordQueued(r)
             \/ EnqueueDuplicate(r) \/ AnswerRun(r) \/ HangUp(r)
    BY <2>3 DEF LookUpKey, AcceptRun, Refuse, CountWaiting, RecordQueued, EnqueueDuplicate,
                AnswerRun, HangUp, QueuePart
  <2> QED BY <1>2, <2>1, <2>2, <2>3 DEF DoorStep
<1>3. ASSUME NEW w \in Workers, RunnerStep(w) PROVE QueuePart
  <2>1. CASE PoolAlone(w)
    BY <2>1 DEF PoolAlone, QueuePart
  <2>2. CASE EnterRunner(w) \/ LeaveRunner(w) \/ PanicInAgent(w)
    BY <2>2 DEF EnterRunner, LeaveRunner, PanicInAgent, QueuePart
  <2>3. CASE RunnerAnnounce(w)
    <3>1. JobOf(w).run \in Requests
      BY <2>3, JobFacts DEF RunnerAnnounce, RunnerAt, Fits, RunnerFits, DeliverySteps
    <3> QED BY <2>3, <3>1, AnnounceStep DEF RunnerAnnounce
  <2>4. CASE RetryCallback(w)
    <3>1. /\ JobOf(w).run \in Requests /\ JobOf(w).try \in Tries
          /\ JobOf(w).try + 1 < CallbackAttempts
      BY <2>4, JobFacts DEF RetryCallback, RunnerAt, Fits, RunnerFits
    <3>2. JobOf(w).try + 1 \in Tries
      BY <3>1, PipelineConstants DEF Tries
    <3> QED BY <2>4, <3>1, <3>2 DEF RetryCallback, QueuePart
  <2>5. CASE \/ StartDelivery(w) \/ SetWorkFor(w) \/ NeverBegan(w) \/ RunAgent(w)
             \/ \E v \in Verdicts : LeaveAgent(w, v)
             \/ SettleDelivery(w) \/ PostCallback(w)
    BY <2>5 DEF StartDelivery, SetWorkFor, NeverBegan, RunAgent, LeaveAgent, SettleDelivery,
                PostCallback, QueuePart
  <2> QED BY <1>3, <2>1, <2>2, <2>3, <2>4, <2>5 DEF RunnerStep
<1>4. ASSUME NEW c \in Chats, TurnStep(c) PROVE QueuePart
  BY <1>4 DEF TurnStep, LatchTurn, TakeLane, LaneUnread, LaneTaken, ReleaseLane, Unlatch, QueuePart
<1>5. CASE CancelStep
  <2>1. ASSUME NEW i \in Ids, KillUnit(i) \/ InterruptRun(i) \/ SettleCancelled(i)
        PROVE  QueuePart
    BY <2>1 DEF KillUnit, InterruptRun, SettleCancelled, QueuePart
  <2>2. ASSUME NEW r \in Requests, AnnounceCancelled(r) PROVE QueuePart
    BY <2>2, AnnounceStep DEF AnnounceCancelled
  <2> QED BY <1>5, <2>1, <2>2 DEF CancelStep
<1>6. CASE BootPool \/ Bootstrap \/ Shutdown \/ ProcessEnds
  BY <1>6 DEF BootPool, Bootstrap, Shutdown, ProcessEnds, QueuePart
<1> QED BY <1>1, <1>2, <1>3, <1>4, <1>5, <1>6 DEF PNext

\* And each of these is a step of WorkQueue.
LEMMA QueueImplemented == ASSUME TypeOK, QueuePart PROVE [Next]_vars
<1>1. clock \in Times
  BY DEF TypeOK
<1>2. ASSUME NEW i \in Ids, NEW r \in Requests, Enqueue(i, WS, KeyOf[r], Delivery(r), clock)
      PROVE  Next
  BY <1>1, <1>2, PipelineConstants, JobFacts DEF Next
<1>3. ASSUME NEW i \in Ids, NEW r \in Requests, NEW n \in Tries,
             Enqueue(i, r, CallbackKey(r, n), Callback(r, n), clock)
      PROVE  Next
  BY <1>1, <1>3, PipelineConstants, JobFacts DEF Next
<1>4. ASSUME NEW i \in Ids, NEW c \in Chats,
             ChatClaim(c, i, WS, ChatJob) \/ ChatClaimUnread(c, i, WS, ChatJob)
      PROVE  Next
  BY <1>4, PipelineConstants, JobFacts DEF Next, ChatStep
<1>5. ASSUME NEW w \in Workers,
             \/ \E i \in Ids : Claim(w, i)
             \/ Register(w) \/ Return(w) \/ Panic(w) \/ SettleUnit(w) \/ Unregister(w)
      PROVE  Next
  BY <1>5 DEF Next, PoolStep
<1> QED BY <1>2, <1>3, <1>4, <1>5 DEF QueuePart, Next, ChatStep

------------------------------------------------------------------------------
(* The rows, and who holds them.                                           *)

\* No row goes while the process runs deliveries, and what it is stays.
RowsKeep ==
    \A i \in DOMAIN work :
        /\ i \in DOMAIN work'
        /\ work'[i].job = work[i].job /\ work'[i].key = work[i].key
        /\ work[i].state # "queued" => work'[i].state # "queued"

LEMMA MarkKeeps ==
    ASSUME RowsOK, NEW S, NEW to \in Settled, work' = Mark(S, to)
    PROVE  RowsKeep /\ DOMAIN work' = DOMAIN work
BY DEF RowsOK, Mark, Row, Settled, RowsKeep

LEMMA InsertKeeps ==
    ASSUME NEW i, NEW row, Insert(i, row)
    PROVE  RowsKeep
BY InsertFacts DEF RowsKeep

LEMMA QueueKeeps == ASSUME RowsOK, QueuePart PROVE RowsKeep
<1>1. ASSUME UNCHANGED work PROVE RowsKeep
  BY <1>1 DEF RowsKeep
<1>2. CASE Start
  BY <1>1, <1>2, MarkKeeps, "dead" \in Settled DEF Start, Settled
<1>3. ASSUME NEW i \in Ids, NEW l, NEW k, NEW j, NEW t, Enqueue(i, l, k, j, t) PROVE RowsKeep
  BY <1>3, InsertKeeps DEF Enqueue
<1>4. ASSUME NEW i \in Ids, NEW c \in Chats,
             ChatClaim(c, i, WS, ChatJob) \/ ChatClaimUnread(c, i, WS, ChatJob)
      PROVE  RowsKeep
  BY <1>4, InsertKeeps DEF ChatClaim, ChatClaimUnread
<1>5. ASSUME NEW c \in Chats, ChatSettle(c) PROVE RowsKeep
  BY <1>5, MarkKeeps, "done" \in Settled DEF ChatSettle, Update, Settled
<1>6. ASSUME NEW w \in Workers, NEW i \in Ids, Claim(w, i) PROVE RowsKeep
  BY <1>6 DEF Claim, RowsKeep, RowsOK, Row
<1>7. ASSUME NEW w \in Workers, SettleUnit(w) PROVE RowsKeep
  BY <1>7, MarkKeeps, "done" \in Settled DEF SettleUnit, Update, Settled
<1>8. ASSUME NEW i \in Ids, Kill(i) PROVE RowsKeep
  BY <1>8, MarkKeeps, "dead" \in Settled DEF Kill, Update, Settled
<1>9. ASSUME NEW w \in Workers, Register(w) \/ Return(w) \/ Panic(w) \/ Unregister(w) PROVE RowsKeep
  BY <1>1, <1>9 DEF Register, Return, Panic, Unregister
<1>10. CASE UNCHANGED vars \/ Stop \/ Exit \/ Crash \/ \E i \in Ids : CancelRunning(i)
  BY <1>1, <1>10 DEF vars, Stop, Exit, Crash, CancelRunning
<1> QED BY <1>2, <1>3, <1>4, <1>5, <1>6, <1>7, <1>8, <1>9, <1>10 DEF QueuePart

\* A worker that has a unit after the step had it before, or claims it.
LEMMA WorkersKeep ==
    ASSUME TypeOK, QueuePart, NEW w \in Workers, worker'[w].pc # "idle"
    PROVE  \/ worker[w].pc # "idle" /\ worker'[w].unit = worker[w].unit
           \/ \E i \in Ids : Claim(w, i) /\ worker'[w].unit = i
<1>1. CASE UNCHANGED worker
  BY <1>1
<1>2. CASE Stop
  BY <1>2 DEF Stop, TypeOK
<1>3. CASE Exit \/ Crash
  BY <1>3 DEF Exit, Crash, Forgotten, IdleWorker
<1>4. ASSUME NEW v \in Workers, NEW i \in Ids, Claim(v, i)
      PROVE  \/ worker[w].pc # "idle" /\ worker'[w].unit = worker[w].unit
             \/ \E j \in Ids : Claim(w, j) /\ worker'[w].unit = j
  BY <1>4 DEF Claim, TypeOK
<1>5. ASSUME NEW v \in Workers,
             Register(v) \/ Return(v) \/ Panic(v) \/ SettleUnit(v) \/ Unregister(v)
      PROVE  worker[w].pc # "idle" /\ worker'[w].unit = worker[w].unit
  BY <1>5 DEF Register, Return, Panic, SettleUnit, AfterSettle, Unregister, IdleWorker, TypeOK
<1>6. ASSUME NEW i \in Ids, CancelRunning(i)
      PROVE  worker[w].pc # "idle" /\ worker'[w].unit = worker[w].unit
  BY <1>6 DEF CancelRunning, TypeOK
<1>7. ASSUME UNCHANGED vars \/ Start \/ (\E i \in Ids : \E l, k, j, t : Enqueue(i, l, k, j, t))
               \/ (\E i \in Ids, c \in Chats : \/ ChatClaim(c, i, WS, ChatJob)
                                              \/ ChatClaimUnread(c, i, WS, ChatJob))
               \/ (\E c \in Chats : ChatSettle(c)) \/ (\E i \in Ids : Kill(i))
      PROVE  UNCHANGED worker
  BY <1>7 DEF vars, Start, Enqueue, ChatClaim, ChatClaimUnread, ChatSettle, Kill, volatile
<1> QED BY <1>1, <1>2, <1>3, <1>4, <1>5, <1>6, <1>7 DEF QueuePart

\* A new row is a delivery or a callback that waits, or a chat's, without key.
LEMMA NewRows ==
    ASSUME QueuePart, NEW i \in DOMAIN work' \ DOMAIN work
    PROVE  \/ work'[i].job # ChatJob
           \/ work'[i].state # "queued" /\ work'[i].key = NoKey
<1>1. ASSUME NEW n \in Ids, NEW row, Insert(n, row) PROVE work'[i] = row
  BY <1>1, InsertFacts
<1>2. ASSUME DOMAIN work' = DOMAIN work PROVE FALSE
  BY <1>2
<1>3. ASSUME NEW n \in Ids, NEW r \in Requests, Enqueue(n, WS, KeyOf[r], Delivery(r), clock)
      PROVE  work'[i].job = Delivery(r)
  BY <1>1, <1>3 DEF Enqueue
<1>4. ASSUME NEW n \in Ids, NEW r \in Requests, NEW m \in Tries,
             Enqueue(n, r, CallbackKey(r, m), Callback(r, m), clock)
      PROVE  work'[i].job = Callback(r, m)
  BY <1>1, <1>4 DEF Enqueue
<1>5. ASSUME NEW n \in Ids, NEW c \in Chats,
             ChatClaim(c, n, WS, ChatJob) \/ ChatClaimUnread(c, n, WS, ChatJob)
      PROVE  work'[i].state = "claimed" /\ work'[i].key = NoKey
  BY <1>1, <1>5 DEF ChatClaim, ChatClaimUnread
<1>6. ASSUME \/ UNCHANGED vars \/ Start \/ Stop \/ Exit \/ Crash \/ (\E c \in Chats : ChatSettle(c))
             \/ (\E w \in Workers :
                   \/ \E n \in Ids : Claim(w, n)
                   \/ Register(w) \/ Return(w) \/ Panic(w) \/ SettleUnit(w) \/ Unregister(w))
             \/ (\E n \in Ids : Kill(n) \/ CancelRunning(n))
      PROVE  DOMAIN work' = DOMAIN work
  BY <1>6 DEF vars, Start, Stop, Exit, Crash, ChatSettle, Claim, Register, Return, Panic, SettleUnit,
              Unregister, Kill, CancelRunning, Update, Mark
<1> QED BY <1>2, <1>3, <1>4, <1>5, <1>6, JobFacts DEF QueuePart

LEMMA ChatsApartStep == ASSUME TypeOK, HeldKnown, ChatsApart, QueuePart PROVE ChatsApart'
<1>1. RowsKeep
  BY QueueKeeps DEF TypeOK, RowsOK
<1>2. ASSUME NEW i \in DOMAIN work', work'[i].state = "queued" \/ work'[i].key # NoKey
      PROVE  work'[i].job # ChatJob
  BY <1>1, <1>2, NewRows DEF RowsKeep, ChatsApart
<1>3. ASSUME NEW w \in Workers, worker'[w].pc # "idle"
      PROVE  work'[worker'[w].unit].job # ChatJob
  <2>1. CASE worker[w].pc # "idle" /\ worker'[w].unit = worker[w].unit
    BY <1>1, <2>1 DEF RowsKeep, ChatsApart, HeldKnown, Known
  <2>2. ASSUME NEW i \in Ids, Claim(w, i), worker'[w].unit = i
        PROVE  work'[worker'[w].unit].job # ChatJob
    BY <1>1, <2>2 DEF RowsKeep, ChatsApart, Claim, Claimable, InState
  <2> QED BY <1>3, <2>1, <2>2, WorkersKeep
<1> QED BY <1>2, <1>3 DEF ChatsApart

\* Whatever a cancel kills exists.
LEMMA KillingStep ==
    ASSUME TypeOK, killing \subseteq DOMAIN work, QueuePart
    PROVE  killing' \subseteq DOMAIN work'
<1>1. DOMAIN work \subseteq DOMAIN work'
  BY QueueKeeps DEF TypeOK, RowsOK, RowsKeep
<1>2. ASSUME NEW i \in Ids, Kill(i) PROVE killing' \subseteq DOMAIN work
  BY <1>2 DEF Kill, InState
<1>3. ASSUME NEW i \in Ids, CancelRunning(i) PROVE killing' \subseteq DOMAIN work
  BY <1>3 DEF CancelRunning
<1>4. CASE Exit \/ Crash
  BY <1>4 DEF Exit, Crash, Forgotten
<1>5. ASSUME \/ UNCHANGED vars \/ Start \/ Stop \/ (\E i \in Ids : \E l, k, j, t : Enqueue(i, l, k, j, t))
             \/ (\E i \in Ids, c \in Chats : \/ ChatClaim(c, i, WS, ChatJob)
                                            \/ ChatClaimUnread(c, i, WS, ChatJob))
             \/ (\E c \in Chats : ChatSettle(c))
             \/ (\E w \in Workers :
                   \/ \E n \in Ids : Claim(w, n)
                   \/ Register(w) \/ Return(w) \/ Panic(w) \/ SettleUnit(w) \/ Unregister(w))
      PROVE  UNCHANGED killing
  BY <1>5 DEF vars, Start, Stop, Enqueue, ChatClaim, ChatClaimUnread, ChatSettle, Claim, Register,
              Return, Panic, SettleUnit, Unregister, volatile
<1> QED BY <1>1, <1>2, <1>3, <1>4, <1>5 DEF QueuePart

------------------------------------------------------------------------------
(* The runners.                                                            *)

\* A runner that a step is not about stays where it is, or is gone.
Same(w) ==
    worker'[w].pc = "running" =>
        /\ worker[w].pc = "running" /\ worker'[w].unit = worker[w].unit
        /\ runner'[w] = runner[w]

LEMMA SameJob ==
    ASSUME TypeOK, HeldKnown, RowsKeep, NEW w \in Workers,
           worker[w].pc = "running", worker'[w].unit = worker[w].unit
    PROVE  JobOf(w)' = JobOf(w)
BY DEF HeldKnown, Known, RowsKeep, JobOf

\* The pool's own steps put nobody at work on a runner but by Register.
LEMMA PoolKeeps ==
    ASSUME TypeOK, NEW w \in Workers,
           \/ \E i \in Ids : Claim(w, i)
           \/ Return(w) \/ Panic(w) \/ SettleUnit(w) \/ Unregister(w)
    PROVE  /\ worker'[w].pc # "running"
           /\ \A v \in Workers \ {w} : worker'[v] = worker[v]
<1>1. ASSUME NEW i \in Ids, Claim(w, i)
      PROVE  worker'[w].pc # "running" /\ \A v \in Workers \ {w} : worker'[v] = worker[v]
  BY <1>1 DEF Claim, TypeOK
<1>2. CASE Return(w) \/ Panic(w)
  BY <1>2 DEF Return, Panic, TypeOK
<1>3. CASE SettleUnit(w) \/ Unregister(w)
  BY <1>3 DEF SettleUnit, AfterSettle, Unregister, IdleWorker, TypeOK
<1> QED BY <1>1, <1>2, <1>3

LEMMA RegisterKeeps ==
    ASSUME TypeOK, NEW w \in Workers, Register(w)
    PROVE  /\ worker'[w].unit = worker[w].unit /\ work' = work
           /\ worker[w].pc = "claimed" /\ worker'[w].pc = "running"
           /\ \A v \in Workers \ {w} : worker'[v] = worker[v]
BY DEF Register, TypeOK

\* A step is about the runner of one worker, or of none.
LEMMA Others ==
    ASSUME Fits, [PNext]_allVars
    PROVE  \/ \A v \in Workers : Same(v)
           \/ \E w \in Workers : RunnerStep(w) /\ \A v \in Workers \ {w} : Same(v)
<1> USE DEF Fits
<1>1. ASSUME UNCHANGED <<worker, runner>> PROVE \A v \in Workers : Same(v)
  BY <1>1 DEF Same
<1>2. CASE UNCHANGED allVars
  BY <1>1, <1>2 DEF allVars, pipelineVars, vars
<1>3. ASSUME NEW r \in Requests, DoorStep(r) PROVE UNCHANGED <<worker, runner>>
  <2>1. CASE DoorAnnounce(r)
    BY <2>1, AnnounceStep DEF DoorAnnounce
  <2>2. CASE EnqueueDelivery(r)
    BY <2>2 DEF EnqueueDelivery, Enqueue, volatile
  <2> QED BY <1>3, <2>1, <2>2
      DEF DoorStep, LookUpKey, AcceptRun, Refuse, CountWaiting, RecordQueued, EnqueueDuplicate,
          AnswerRun, HangUp, vars
<1>4. ASSUME NEW c \in Chats, TurnStep(c) PROVE UNCHANGED <<worker, runner>>
  BY <1>4 DEF TurnStep, LatchTurn, TakeLane, LaneUnread, LaneTaken, ReleaseLane, Unlatch,
              ChatClaim, ChatClaimUnread, ChatSettle, vars, volatile
<1>5. ASSUME NEW w \in Workers, RunnerStep(w) PROVE \A v \in Workers \ {w} : Same(v)
  <2>1. CASE PoolAlone(w)
    BY <2>1, PoolKeeps DEF PoolAlone, pipelineVars, Same, PTypeOK
  <2>2. CASE EnterRunner(w)
    BY <2>2, RegisterKeeps DEF EnterRunner, RunnerGoes, Same, PTypeOK
  <2>3. CASE LeaveRunner(w) \/ PanicInAgent(w)
    BY <2>3, PoolKeeps DEF LeaveRunner, PanicInAgent, RunnerHas, Same, PTypeOK
  <2>4. CASE RunnerAnnounce(w)
    <3>1. JobOf(w).run \in Requests
      BY <2>4, JobFacts DEF RunnerAnnounce, RunnerAt, RunnerFits, DeliverySteps
    <3> QED BY <2>4, <3>1, AnnounceStep DEF RunnerAnnounce, RunnerGoes, Same, PTypeOK
  <2>5. CASE RetryCallback(w)
    BY <2>5 DEF RetryCallback, Enqueue, volatile, RunnerGoes, Same, PTypeOK
  <2> QED BY <1>5, <2>1, <2>2, <2>3, <2>4, <2>5
      DEF RunnerStep, StartDelivery, SetWorkFor, NeverBegan, RunAgent, LeaveAgent,
          SettleDelivery, PostCallback, RunnerGoes, RunnerHas, Same, PTypeOK, vars
<1>6. CASE CancelStep
  <2>1. ASSUME NEW i \in Ids, InterruptRun(i) PROVE \A v \in Workers : Same(v)
    BY <2>1 DEF InterruptRun, CancelRunning, Same, TypeOK, PTypeOK
  <2>2. ASSUME NEW i \in Ids, KillUnit(i) \/ SettleCancelled(i) PROVE UNCHANGED <<worker, runner>>
    BY <2>2 DEF KillUnit, Kill, SettleCancelled, vars, pipelineVars
  <2>3. ASSUME NEW r \in Requests, AnnounceCancelled(r) PROVE UNCHANGED <<worker, runner>>
    BY <2>3, AnnounceStep DEF AnnounceCancelled
  <2> QED BY <1>6, <1>1, <2>1, <2>2, <2>3 DEF CancelStep
<1>7. CASE BootPool \/ Bootstrap
  BY <1>1, <1>7 DEF BootPool, Bootstrap, Start, volatile, pipelineVars, vars
<1>8. CASE Shutdown
  BY <1>8 DEF Shutdown, Stop, Same, PTypeOK, TypeOK
<1>9. CASE ProcessEnds
  BY <1>9 DEF ProcessEnds, Exit, Crash, Forgotten, IdleWorker, Same
<1> QED BY <1>1, <1>2, <1>3, <1>4, <1>5, <1>6, <1>7, <1>8, <1>9 DEF PNext

\* What a runner is at goes on fitting its unit.
LEMMA RunnerFitsStep == ASSUME Fits, [PNext]_allVars PROVE RunnerFits'
<1> USE DEF Fits
<1>0. QueuePart /\ RowsKeep
  BY QueueSteps, QueueKeeps DEF PTypeOK, TypeOK, RowsOK
<1>h. HeldKnown
  BY DEF IInv, Hands
<1> DEFINE FitsAt(w) ==
       worker[w].pc = "running" =>
        /\ runner[w].pc \in DeliverySteps => IsDelivery(JobOf(w))
        /\ runner[w].pc \in {"post", "retry"} => IsCallback(JobOf(w))
        /\ runner[w].pc = "retry" => JobOf(w).try + 1 < CallbackAttempts
        /\ runner[w].pc = "settle" => runner[w].verdict \in Verdicts
<1>1. ASSUME NEW v \in Workers, Same(v) PROVE FitsAt(v)'
  <2> SUFFICES ASSUME worker'[v].pc = "running" PROVE FitsAt(v)'
    OBVIOUS
  <2>1. JobOf(v)' = JobOf(v)
    BY <1>0, <1>h, <1>1, SameJob DEF Same, PTypeOK
  <2>2. FitsAt(v)
    BY DEF RunnerFits
  <2> QED BY <1>1, <2>1, <2>2 DEF Same, IsDelivery, IsCallback
<1>2. ASSUME NEW w \in Workers, RunnerStep(w) PROVE FitsAt(w)'
  <2> USE <1>2
  <2>1. CASE PoolAlone(w) \/ LeaveRunner(w) \/ PanicInAgent(w)
    BY <2>1, PoolKeeps DEF PoolAlone, LeaveRunner, PanicInAgent, PTypeOK
  <2>2. CASE EnterRunner(w)
    <3>1. JobOf(w)' = JobOf(w) /\ JobOf(w) \in Jobs /\ JobOf(w) # ChatJob
      BY <2>2, <1>h, RegisterKeeps
         DEF EnterRunner, JobOf, PTypeOK, TypeOK, HeldKnown, Known, Row, ChatsApart
    <3>2. runner'[w].pc = IF JobOf(w).kind = "delivery" THEN "start" ELSE "post"
      BY <2>2 DEF EnterRunner, RunnerGoes, PTypeOK
    <3>3. CASE IsDelivery(JobOf(w))
      BY <3>1, <3>2, <3>3, JobFacts DEF DeliverySteps
    <3>4. CASE IsCallback(JobOf(w))
      BY <3>1, <3>2, <3>4, JobFacts DEF DeliverySteps
    <3> QED BY <3>1, <3>3, <3>4, JobFacts
  <2>3. ASSUME UNCHANGED worker, worker[w].pc = "running" PROVE JobOf(w)' = JobOf(w)
    BY <2>3, <1>0, <1>h, SameJob DEF PTypeOK
  <2>4. CASE RunnerAnnounce(w) \/ RetryCallback(w)
    BY <2>4 DEF RunnerAnnounce, RetryCallback, RunnerGoes, DeliverySteps, PTypeOK
  <2>5. CASE \/ StartDelivery(w) \/ SetWorkFor(w) \/ NeverBegan(w) \/ RunAgent(w)
             \/ (\E v \in Verdicts : LeaveAgent(w, v)) \/ SettleDelivery(w) \/ PostCallback(w)
    <3>1. worker[w].pc = "running" /\ UNCHANGED worker
      BY <2>5 DEF StartDelivery, SetWorkFor, NeverBegan, RunAgent, LeaveAgent, SettleDelivery,
                  PostCallback, RunnerAt, vars
    <3>2. JobOf(w)' = JobOf(w) /\ FitsAt(w)
      BY <3>1, <2>3 DEF RunnerFits
    <3> HIDE DEF FitsAt
    <3>3. CASE PostCallback(w)
      BY <3>1, <3>2, <3>3 DEF PostCallback, RunnerAt, RunnerGoes, PTypeOK, DeliverySteps, FitsAt
    <3>4. CASE StartDelivery(w) \/ SetWorkFor(w) \/ RunAgent(w) \/ SettleDelivery(w)
      BY <3>1, <3>2, <3>4
         DEF StartDelivery, SetWorkFor, RunAgent, SettleDelivery, RunnerAt, RunnerGoes, PTypeOK,
             DeliverySteps, FitsAt
    <3>5. CASE NeverBegan(w) \/ \E v \in Verdicts : LeaveAgent(w, v)
      BY <3>1, <3>2, <3>5
         DEF NeverBegan, LeaveAgent, RunnerAt, RunnerHas, PTypeOK, DeliverySteps, FitsAt, Verdicts
    <3> QED BY <2>5, <3>3, <3>4, <3>5
  <2> QED BY <1>2, <2>1, <2>2, <2>4, <2>5 DEF RunnerStep
<1>3. \A v \in Workers : FitsAt(v)'
  BY <1>1, <1>2, Others
<1> QED BY <1>3 DEF RunnerFits

------------------------------------------------------------------------------
(* The ledger.                                                             *)

LedgerStates == Ledger!LiveRun \cup Ledger!Terminal \cup {"none"}
Early == {"none", "accepted", "queued"}

\* Every row that is written is written by a statement of RunLedger.
LEMMA LedgerSteps == ASSUME Fits, [PNext]_allVars PROVE [Ledger!Next]_ledger
<1> USE DEF Fits
<1>1. ASSUME NEW r \in Requests, NEW outcome \in Ledger!Terminal, Ledger!SettleOrLog(r, outcome)
      PROVE  Ledger!Next
  BY <1>1 DEF Ledger!Next
<1>2. ASSUME NEW r \in Requests, DoorStep(r) PROVE [Ledger!Next]_ledger
  <2>1. CASE AcceptRun(r)
    BY <2>1 DEF AcceptRun, Ledger!Next
  <2>2. CASE RecordQueued(r)
    BY <2>2 DEF RecordQueued, Ledger!Next
  <2>3. CASE Refuse(r) \/ EnqueueDuplicate(r)
    BY <2>3, <1>1 DEF Refuse, EnqueueDuplicate, Ledger!Terminal
  <2> QED BY <1>2, <2>1, <2>2, <2>3
      DEF DoorStep, LookUpKey, CountWaiting, EnqueueDelivery, DoorAnnounce, AnswerRun, HangUp
<1>3. ASSUME NEW w \in Workers, RunnerStep(w) PROVE [Ledger!Next]_ledger
  <2>1. ASSUME worker[w].pc = "running", runner[w].pc \in DeliverySteps
        PROVE  JobOf(w).run \in Requests
    BY <2>1, JobFacts DEF RunnerFits
  <2>2. CASE StartDelivery(w)
    <3>1. JobOf(w).run \in Requests
      BY <2>1, <2>2 DEF StartDelivery, RunnerAt, DeliverySteps
    <3> QED BY <2>2, <3>1 DEF StartDelivery, Ledger!Next
  <2>3. CASE SettleDelivery(w)
    <3>1. JobOf(w).run \in Requests
      BY <2>1, <2>3 DEF SettleDelivery, RunnerAt, DeliverySteps
    <3>2. runner[w].verdict \in Ledger!Terminal
      BY <2>3 DEF SettleDelivery, RunnerAt, RunnerFits, Verdicts, Ledger!Terminal
    <3> QED BY <2>3, <3>1, <3>2, <1>1 DEF SettleDelivery
  <2> QED BY <1>3, <2>2, <2>3
      DEF RunnerStep, PoolAlone, pipelineVars, EnterRunner, SetWorkFor, NeverBegan, RunAgent,
          LeaveAgent, RunnerAnnounce, PostCallback, RetryCallback, LeaveRunner, PanicInAgent
<1>4. ASSUME NEW c \in Chats, TurnStep(c) PROVE UNCHANGED ledger
  BY <1>4 DEF TurnStep, LatchTurn, TakeLane, LaneUnread, LaneTaken, ReleaseLane, Unlatch
<1>5. CASE CancelStep
  <2>1. ASSUME NEW i \in Ids, SettleCancelled(i) PROVE Ledger!Next
    <3>1. work[i].job.run \in Requests
      BY <2>1, JobFacts DEF SettleCancelled, CancelFits
    <3> QED BY <2>1, <3>1, <1>1 DEF SettleCancelled, Ledger!Terminal
  <2> QED BY <1>5, <2>1
      DEF CancelStep, KillUnit, InterruptRun, AnnounceCancelled, pipelineVars
<1>6. CASE BootPool \/ Bootstrap \/ Shutdown \/ ProcessEnds
  BY <1>6 DEF BootPool, Bootstrap, Shutdown, ProcessEnds, pipelineVars, Ledger!Next
<1>7. CASE UNCHANGED allVars
  BY <1>7 DEF allVars, pipelineVars
<1> QED BY <1>2, <1>3, <1>4, <1>5, <1>6, <1>7 DEF PNext

\* A row stays typed, present, and settled; and once past waiting, past it.
LEMMA LedgerKeeps ==
    ASSUME ledger \in [Requests -> LedgerStates], [Ledger!Next]_ledger
    PROVE  /\ ledger' \in [Requests -> LedgerStates]
           /\ \A r \in Requests :
                 /\ ledger[r] # "none" => ledger'[r] # "none"
                 /\ ledger[r] \in Ledger!Terminal => ledger'[r] = ledger[r]
                 /\ ledger[r] \notin Early => ledger'[r] \notin Early
<1> USE DEF LedgerStates, Early, Ledger!LiveRun, Ledger!Terminal
<1>1. CASE UNCHANGED ledger
  BY <1>1
<1>2. ASSUME NEW r \in Requests, Ledger!Accept(r) \/ Ledger!Queued(r) \/ Ledger!StartRun(r)
      PROVE  /\ ledger' \in [Requests -> LedgerStates]
             /\ \A s \in Requests :
                   /\ ledger[s] # "none" => ledger'[s] # "none"
                   /\ ledger[s] \in Ledger!Terminal => ledger'[s] = ledger[s]
                   /\ ledger[s] \notin Early => ledger'[s] \notin Early
  BY <1>2 DEF Ledger!Accept, Ledger!Queued, Ledger!StartRun, Ledger!Move
<1>3. ASSUME NEW r \in Requests, NEW outcome \in Ledger!Terminal, Ledger!SettleOrLog(r, outcome)
      PROVE  /\ ledger' \in [Requests -> LedgerStates]
             /\ \A s \in Requests :
                   /\ ledger[s] # "none" => ledger'[s] # "none"
                   /\ ledger[s] \in Ledger!Terminal => ledger'[s] = ledger[s]
                   /\ ledger[s] \notin Early => ledger'[s] \notin Early
  BY <1>3 DEF Ledger!SettleOrLog
<1>4. CASE Ledger!ReconcileRuns
  BY <1>4 DEF Ledger!ReconcileRuns
<1> QED BY <1>1, <1>2, <1>3, <1>4 DEF Ledger!Next

\* A settle leaves a row that exists settled.
LEMMA SettleFacts ==
    ASSUME ledger \in [Requests -> LedgerStates], NEW r \in Requests,
           NEW outcome \in Ledger!Terminal, Ledger!SettleOrLog(r, outcome), ledger[r] # "none"
    PROVE  ledger'[r] \in Ledger!Terminal
BY DEF LedgerStates, Ledger!SettleOrLog, Ledger!LiveRun, Ledger!Terminal

------------------------------------------------------------------------------
(* The door and the cancels.                                               *)

LEMMA DoorFitsStep == ASSUME Fits, [PNext]_allVars PROVE DoorFits'
<1> USE DEF Fits
<1>1. ledger \in [Requests -> LedgerStates]
  BY DEF PTypeOK, LedgerStates
<1>2. \A r \in Requests : /\ ledger[r] # "none" => ledger'[r] # "none"
                          /\ ledger[r] \in Ledger!Terminal => ledger'[r] = ledger[r]
  BY <1>1, LedgerSteps, LedgerKeeps
<1>3. ASSUME NEW r \in Requests, door'[r].pc = door[r].pc \/ door'[r].pc \in {"new", "gone", "fresh", "answering"}
      PROVE  /\ door'[r].pc \in {"accepted", "counted", "queued"} => ledger'[r] # "none"
             /\ door'[r].pc = "settled" => ledger'[r] \in Ledger!Terminal
  BY <1>2, <1>3 DEF DoorFits
<1>4. ASSUME NEW r \in Requests, DoorStep(r)
      PROVE  /\ \A s \in Requests \ {r} : door'[s] = door[s]
             /\ \/ door'[r].pc = door[r].pc \/ door'[r].pc \in {"new", "gone", "fresh", "answering"}
                \/ /\ door'[r].pc \in {"accepted", "counted", "queued"} => ledger'[r] # "none"
                   /\ door'[r].pc = "settled" => ledger'[r] \in Ledger!Terminal
  <2>1. CASE AcceptRun(r)
    BY <2>1, <1>1 DEF AcceptRun, DoorGoes, PTypeOK, Ledger!Accept, Ledger!Move
  <2>2. CASE RecordQueued(r) \/ CountWaiting(r)
    BY <2>2, <1>2 DEF RecordQueued, CountWaiting, DoorGoes, AtDoor, PTypeOK, DoorFits
  <2>3. CASE Refuse(r)
    <3>1. ledger[r] # "none"
      BY <2>3 DEF Refuse, AtDoor, DoorFits
    <3>2. ledger'[r] \in Ledger!Terminal
      BY <2>3, <3>1, <1>1, SettleFacts DEF Refuse, Ledger!Terminal
    <3> QED BY <2>3, <3>2 DEF Refuse, DoorGoes, PTypeOK
  <2>4. CASE EnqueueDuplicate(r)
    <3>1. ledger[r] # "none"
      BY <2>4 DEF EnqueueDuplicate, AtDoor, DoorFits
    <3>2. ledger'[r] \in Ledger!Terminal
      BY <2>4, <3>1, <1>1, SettleFacts DEF EnqueueDuplicate, Ledger!Terminal
    <3> QED BY <2>4, <3>2 DEF EnqueueDuplicate, PTypeOK
  <2>5. CASE \/ LookUpKey(r) \/ EnqueueDelivery(r) \/ DoorAnnounce(r) \/ AnswerRun(r) \/ HangUp(r)
    BY <2>5 DEF LookUpKey, EnqueueDelivery, DoorAnnounce, AnswerRun, HangUp, DoorGoes, PTypeOK
  <2> QED BY <1>4, <2>1, <2>2, <2>3, <2>4, <2>5 DEF DoorStep
<1>5. CASE ProcessEnds
  BY <1>3, <1>5 DEF ProcessEnds, AtDoor, PTypeOK, DoorFits
<1>6. ASSUME \/ UNCHANGED allVars \/ (\E w \in Workers : RunnerStep(w))
             \/ (\E c \in Chats : TurnStep(c)) \/ CancelStep \/ BootPool \/ Bootstrap \/ Shutdown
      PROVE  UNCHANGED door
  BY <1>6 DEF allVars, pipelineVars, RunnerStep, PoolAlone, EnterRunner, StartDelivery, SetWorkFor,
              NeverBegan, RunAgent, LeaveAgent, SettleDelivery, RunnerAnnounce, PostCallback,
              RetryCallback, LeaveRunner, PanicInAgent, TurnStep, LatchTurn, TakeLane, LaneUnread,
              LaneTaken, ReleaseLane, Unlatch, CancelStep, KillUnit, InterruptRun, SettleCancelled,
              AnnounceCancelled, BootPool, Bootstrap, Shutdown
<1> QED BY <1>3, <1>4, <1>5, <1>6 DEF PNext, DoorFits

LEMMA CancelFitsStep == ASSUME Fits, [PNext]_allVars PROVE CancelFits'
<1> USE DEF Fits
<1>1. QueuePart /\ RowsKeep
  BY QueueSteps, QueueKeeps DEF PTypeOK, TypeOK, RowsOK
<1>2. killing' \subseteq DOMAIN work'
  BY <1>1, KillingStep DEF PTypeOK, CancelFits
<1>3. ASSUME NEW i \in Ids, InterruptRun(i)
      PROVE  /\ cancelling' \subseteq DOMAIN work
             /\ \A j \in cancelling' : IsDelivery(work[j].job)
  <2>1. i \in DOMAIN work /\ work[i].job \in Jobs
    BY <1>3 DEF InterruptRun, CancelRunning, CancelFits, PTypeOK, TypeOK, Row
  <2>2. work[i].job.kind = "delivery" => IsDelivery(work[i].job)
    BY <2>1, JobFacts DEF ChatJob
  <2> QED BY <1>3, <2>1, <2>2 DEF InterruptRun, CancelFits
<1>4. ASSUME \/ UNCHANGED allVars \/ (\E r \in Requests : DoorStep(r))
             \/ (\E w \in Workers : RunnerStep(w))
             \/ (\E c \in Chats : TurnStep(c))
             \/ (\E i \in Ids : KillUnit(i) \/ SettleCancelled(i))
             \/ (\E r \in Requests : AnnounceCancelled(r))
             \/ BootPool \/ Bootstrap \/ Shutdown \/ ProcessEnds
      PROVE  cancelling' \subseteq cancelling
  BY <1>4 DEF allVars, pipelineVars, cancelVars, DoorStep, LookUpKey, AcceptRun, Refuse, CountWaiting,
              RecordQueued, EnqueueDelivery, EnqueueDuplicate, DoorAnnounce, AnswerRun, HangUp,
              RunnerStep, PoolAlone, EnterRunner, StartDelivery, SetWorkFor,
              NeverBegan, RunAgent, LeaveAgent, SettleDelivery, RunnerAnnounce, PostCallback,
              RetryCallback, LeaveRunner, PanicInAgent, TurnStep, LatchTurn, TakeLane, LaneUnread,
              LaneTaken, ReleaseLane, Unlatch, KillUnit, SettleCancelled,
              AnnounceCancelled, BootPool, Bootstrap, Shutdown, ProcessEnds
<1>5. /\ cancelling' \subseteq DOMAIN work
      /\ \A j \in cancelling' : IsDelivery(work[j].job)
  BY <1>3, <1>4 DEF PNext, CancelStep, CancelFits
<1> QED BY <1>1, <1>2, <1>5 DEF CancelFits, RowsKeep, IsDelivery

------------------------------------------------------------------------------
(* The types.                                                              *)

DoorPCs   == {"new", "fresh", "accepted", "counted", "queued", "settled", "answering", "gone"}
RunnerPCs == {"none", "start", "bind", "engine", "agent", "settle", "announce", "post", "retry", "done"}
Answered  == Ledger!Terminal \cup {"none"}

DoorTyped ==
    /\ door \in [Requests -> [pc : DoorPCs, from : Requests]]
    /\ answer \in [Requests -> Answered]
RunnerTyped ==
    /\ runner \in [Workers -> [pc : RunnerPCs, verdict : Verdicts \cup {"none"}]]
    /\ agentRuns \in [Requests -> Nat]
EngineTyped ==
    /\ turn \in [Chats -> {"new", "latched", "talking", "released", "over"}]
    /\ latch \in BOOLEAN /\ serving \in BOOLEAN
    /\ pending \in 0..MaxUnits /\ turnUnit \in 0..MaxUnits

LEMMA TypedParts ==
    PTypeOK <=> /\ TypeOK /\ ledger \in [Requests -> LedgerStates]
                /\ DoorTyped /\ RunnerTyped /\ EngineTyped
                /\ cancelling \subseteq Ids /\ telling \subseteq Requests
BY DEF PTypeOK, LedgerStates, DoorTyped, DoorPCs, Answered, RunnerTyped, RunnerPCs, EngineTyped

LEMMA DoorTypedStep == ASSUME Fits, [PNext]_allVars PROVE DoorTyped'
<1> USE DEF Fits
<1>0. DoorTyped /\ ledger \in [Requests -> LedgerStates] /\ TypeOK
  BY TypedParts
<1>1. ASSUME NEW r \in Requests, NEW i \in DOMAIN work, KeyOf[r] # NoKey, work[i].key = KeyOf[r]
      PROVE  work[i].job.run \in Requests
  <2>1. work[i].job \in Jobs /\ work[i].job # ChatJob
    BY <1>0, <1>1 DEF TypeOK, Row, ChatsApart
  <2> QED BY <2>1, JobFacts
<1>2. ASSUME NEW r \in Requests, DoorStep(r) PROVE DoorTyped'
  <2>1. CASE LookUpKey(r)
    BY <2>1, <1>0, <1>1 DEF LookUpKey, DoorGoes, DoorTyped, DoorPCs
  <2>2. CASE EnqueueDuplicate(r)
    BY <2>2, <1>0, <1>1 DEF EnqueueDuplicate, DoorTyped, DoorPCs
  <2>3. CASE DoorAnnounce(r)
    <3>1. ledger[r] \in Answered
      BY <2>3 DEF DoorAnnounce, AtDoor, DoorFits, Answered
    <3> QED BY <2>3, <3>1, <1>0 DEF DoorAnnounce, DoorGoes, DoorTyped, DoorPCs
  <2>4. CASE AnswerRun(r)
    <3>1. ledger[door[r].from] \in Answered
      BY <2>4, <1>0 DEF AnswerRun, DoorTyped, LedgerStates, Answered
    <3> QED BY <2>4, <3>1, <1>0 DEF AnswerRun, DoorGoes, DoorTyped, DoorPCs
  <2>5. CASE \/ AcceptRun(r) \/ Refuse(r) \/ CountWaiting(r) \/ RecordQueued(r)
             \/ EnqueueDelivery(r) \/ HangUp(r)
    BY <2>5, <1>0 DEF AcceptRun, Refuse, CountWaiting, RecordQueued, EnqueueDelivery, HangUp,
                      DoorGoes, DoorTyped, DoorPCs
  <2> QED BY <1>2, <2>1, <2>2, <2>3, <2>4, <2>5 DEF DoorStep
<1>3. CASE ProcessEnds
  BY <1>3, <1>0 DEF ProcessEnds, DoorTyped, DoorPCs
<1>4. ASSUME \/ UNCHANGED allVars \/ (\E w \in Workers : RunnerStep(w))
             \/ (\E c \in Chats : TurnStep(c)) \/ CancelStep \/ BootPool \/ Bootstrap \/ Shutdown
      PROVE  UNCHANGED <<door, answer>>
  BY <1>4 DEF allVars, pipelineVars, RunnerStep, PoolAlone, EnterRunner, StartDelivery, SetWorkFor,
              NeverBegan, RunAgent, LeaveAgent, SettleDelivery, RunnerAnnounce, PostCallback,
              RetryCallback, LeaveRunner, PanicInAgent, TurnStep, LatchTurn, TakeLane, LaneUnread,
              LaneTaken, ReleaseLane, Unlatch, CancelStep, KillUnit, InterruptRun, SettleCancelled,
              AnnounceCancelled, BootPool, Bootstrap, Shutdown
<1> QED BY <1>0, <1>2, <1>3, <1>4 DEF PNext, DoorTyped

LEMMA RunnerTypedStep == ASSUME Fits, [PNext]_allVars PROVE RunnerTyped'
<1> USE DEF Fits
<1>0. RunnerTyped /\ TypeOK
  BY TypedParts
<1>1. ASSUME NEW w \in Workers, RunnerStep(w) PROVE RunnerTyped'
  <2> USE <1>0 DEF RunnerTyped, RunnerPCs
  <2>1. CASE \/ EnterRunner(w) \/ StartDelivery(w) \/ SetWorkFor(w) \/ SettleDelivery(w)
             \/ RunnerAnnounce(w) \/ PostCallback(w) \/ RetryCallback(w)
    BY <2>1 DEF EnterRunner, StartDelivery, SetWorkFor, SettleDelivery, RunnerAnnounce, PostCallback,
                RetryCallback, RunnerGoes
  <2>2. CASE NeverBegan(w) \/ (\E v \in Verdicts : LeaveAgent(w, v)) \/ LeaveRunner(w) \/ PanicInAgent(w)
    BY <2>2 DEF NeverBegan, LeaveAgent, LeaveRunner, PanicInAgent, RunnerHas, Verdicts
  <2>3. CASE RunAgent(w)
    <3>1. JobOf(w).run \in Requests
      BY <2>3, JobFacts DEF RunAgent, RunnerAt, RunnerFits, DeliverySteps
    <3>2. agentRuns' \in [Requests -> Nat]
      BY <2>3, <3>1 DEF RunAgent
    <3> QED BY <2>3, <3>2 DEF RunAgent, RunnerGoes
  <2>4. CASE PoolAlone(w)
    BY <2>4 DEF PoolAlone, pipelineVars
  <2> QED BY <1>1, <2>1, <2>2, <2>3, <2>4 DEF RunnerStep
<1>2. CASE ProcessEnds
  BY <1>0, <1>2 DEF ProcessEnds, RunnerTyped, RunnerPCs, NoRunner
<1>3. ASSUME \/ UNCHANGED allVars \/ (\E r \in Requests : DoorStep(r))
             \/ (\E c \in Chats : TurnStep(c)) \/ CancelStep \/ BootPool \/ Bootstrap \/ Shutdown
      PROVE  UNCHANGED <<runner, agentRuns>>
  BY <1>3 DEF allVars, pipelineVars, DoorStep, LookUpKey, AcceptRun, Refuse, CountWaiting,
              RecordQueued, EnqueueDelivery, EnqueueDuplicate, DoorAnnounce, AnswerRun, HangUp,
              TurnStep, LatchTurn, TakeLane, LaneUnread, LaneTaken, ReleaseLane, Unlatch, CancelStep,
              KillUnit, InterruptRun, SettleCancelled, AnnounceCancelled, BootPool, Bootstrap, Shutdown
<1> QED BY <1>0, <1>1, <1>2, <1>3 DEF PNext, RunnerTyped

LEMMA EngineTypedStep == ASSUME Fits, [PNext]_allVars PROVE EngineTyped'
<1> USE DEF Fits
<1>0. EngineTyped /\ TypeOK
  BY TypedParts
<1>z. 0 \in 0..MaxUnits /\ TRUE \in BOOLEAN /\ FALSE \in BOOLEAN
  BY QueueConstants
<1>1. ASSUME NEW w \in Workers, RunnerStep(w) PROVE EngineTyped'
  <2> USE <1>0 DEF EngineTyped
  <2>1. CASE SetWorkFor(w)
    BY <2>1 DEF SetWorkFor, TypeOK
  <2>2. CASE RunAgent(w)
    BY <2>2, <1>z, Zenon DEF RunAgent, BeginTurn
  <2>3. CASE (\E v \in Verdicts : LeaveAgent(w, v)) \/ PanicInAgent(w)
    BY <2>3, <1>z, Zenon DEF LeaveAgent, PanicInAgent
  <2> QED BY <1>1, <2>1, <2>2, <2>3
      DEF RunnerStep, PoolAlone, pipelineVars, EnterRunner, StartDelivery, NeverBegan, SettleDelivery,
          RunnerAnnounce, PostCallback, RetryCallback, LeaveRunner, engineVars
<1>2. ASSUME NEW c \in Chats, TurnStep(c) PROVE EngineTyped'
  <2>1. turn' \in [Chats -> {"new", "latched", "talking", "released", "over"}]
    BY <1>0, <1>2 DEF TurnStep, LatchTurn, TakeLane, LaneUnread, LaneTaken, ReleaseLane, Unlatch,
                      TurnGoes, EngineTyped
  <2>2. UNCHANGED serving /\ (latch' = TRUE \/ latch' = FALSE \/ latch' = latch)
    BY <1>2, Zenon DEF TurnStep, LatchTurn, TakeLane, LaneUnread, LaneTaken, ReleaseLane, Unlatch, BeginTurn
  <2>3. pending' \in 0..MaxUnits /\ turnUnit' \in 0..MaxUnits
    BY <1>0, <1>2, <1>z
       DEF TurnStep, LatchTurn, TakeLane, LaneUnread, LaneTaken, ReleaseLane, Unlatch,
           BeginTurn, EngineTyped
  <2> QED BY <1>0, <1>z, <2>1, <2>2, <2>3, Zenon DEF EngineTyped
<1>3. CASE Bootstrap \/ Shutdown
  BY <1>0, <1>3, <1>z, Zenon DEF Bootstrap, Shutdown, EngineTyped, engineVars
<1>4. CASE ProcessEnds
  <2>1. turn' \in [Chats -> {"new", "latched", "talking", "released", "over"}]
    BY <1>4 DEF ProcessEnds
  <2> QED BY <2>1, <1>4, <1>z, Zenon DEF ProcessEnds, EngineTyped
<1>5. ASSUME \/ UNCHANGED allVars \/ (\E r \in Requests : DoorStep(r)) \/ CancelStep \/ BootPool
      PROVE  UNCHANGED <<turn, latch, pending, turnUnit, serving>>
  BY <1>5 DEF allVars, pipelineVars, engineVars, DoorStep, LookUpKey, AcceptRun, Refuse, CountWaiting,
              RecordQueued, EnqueueDelivery, EnqueueDuplicate, DoorAnnounce, AnswerRun, HangUp,
              CancelStep, KillUnit, InterruptRun, SettleCancelled, AnnounceCancelled, BootPool
<1> QED BY <1>0, <1>1, <1>2, <1>3, <1>4, <1>5 DEF PNext, EngineTyped

LEMMA TellingStep == ASSUME Fits, [PNext]_allVars PROVE telling' \subseteq Requests
<1> USE DEF Fits
<1>1. telling \subseteq Requests
  BY TypedParts
<1>2. ASSUME NEW i \in Ids, SettleCancelled(i) PROVE telling' \subseteq Requests
  BY <1>1, <1>2, JobFacts DEF SettleCancelled, CancelFits
<1>3. ASSUME \/ UNCHANGED allVars \/ (\E r \in Requests : DoorStep(r))
             \/ (\E w \in Workers : RunnerStep(w))
             \/ (\E c \in Chats : TurnStep(c))
             \/ (\E i \in Ids : KillUnit(i) \/ InterruptRun(i))
             \/ (\E r \in Requests : AnnounceCancelled(r))
             \/ BootPool \/ Bootstrap \/ Shutdown \/ ProcessEnds
      PROVE  telling' \subseteq telling
  BY <1>3 DEF allVars, pipelineVars, cancelVars, DoorStep, LookUpKey, AcceptRun, Refuse, CountWaiting,
              RecordQueued, EnqueueDelivery, EnqueueDuplicate, DoorAnnounce, AnswerRun, HangUp,
              RunnerStep, PoolAlone, EnterRunner, StartDelivery, SetWorkFor,
              NeverBegan, RunAgent, LeaveAgent, SettleDelivery, RunnerAnnounce, PostCallback,
              RetryCallback, LeaveRunner, PanicInAgent, TurnStep, LatchTurn, TakeLane, LaneUnread,
              LaneTaken, ReleaseLane, Unlatch, KillUnit, InterruptRun,
              AnnounceCancelled, BootPool, Bootstrap, Shutdown, ProcessEnds
<1> QED BY <1>1, <1>2, <1>3 DEF PNext, CancelStep

------------------------------------------------------------------------------
(* The pipeline's invariant, and the theorems that follow from it.         *)

LEMMA FitsInit == PInit => Fits
<1> SUFFICES ASSUME PInit PROVE Fits
  OBVIOUS
<1>1. IInv /\ Init
  BY InvInit DEF PInit
<1>2. TypeOK
  BY <1>1 DEF IInv
<1>z. 0 \in 0..MaxUnits /\ 0 \in Nat /\ FALSE \in BOOLEAN
  BY QueueConstants
<1>3. DoorTyped /\ RunnerTyped /\ ledger \in [Requests -> LedgerStates]
  BY DEF PInit, DoorTyped, DoorPCs, Answered, RunnerTyped, RunnerPCs, NoRunner, LedgerStates
<1>5. EngineTyped
  <2>1. turn \in [Chats -> {"new", "latched", "talking", "released", "over"}]
    BY DEF PInit
  <2> QED BY <2>1, <1>z, Zenon DEF PInit, EngineTyped
<1>6. PTypeOK
  BY <1>2, <1>3, <1>5, TypedParts DEF PInit
<1>4. ChatsApart /\ RunnerFits /\ CancelFits /\ DoorFits
  BY <1>1 DEF PInit, Init, IdleWorker, ChatsApart, RunnerFits, CancelFits, DoorFits
<1> QED BY <1>1, <1>4, <1>6 DEF Fits

LEMMA FitsStep == ASSUME Fits, [PNext]_allVars PROVE Fits'
<1>1. [Next]_vars
  BY QueueSteps, QueueImplemented DEF Fits, PTypeOK
<1>2. IInv'
  BY <1>1, InvStep DEF Fits
<1>3. ChatsApart'
  BY QueueSteps, ChatsApartStep DEF Fits, IInv, Hands
<1>4. RunnerFits' /\ CancelFits' /\ DoorFits'
  BY RunnerFitsStep, CancelFitsStep, DoorFitsStep
<1>5. ledger' \in [Requests -> LedgerStates]
  BY LedgerSteps, LedgerKeeps, TypedParts DEF Fits
<1>6. TypeOK' /\ cancelling' \subseteq Ids
  BY <1>2, <1>4 DEF IInv, CancelFits, TypeOK
<1>7. PTypeOK'
  BY <1>5, <1>6, DoorTypedStep, RunnerTypedStep, EngineTypedStep, TellingStep, TypedParts
     DEF DoorTyped, RunnerTyped, EngineTyped, LedgerStates, DoorPCs, RunnerPCs, Answered, PTypeOK
<1> QED BY <1>2, <1>3, <1>4, <1>7 DEF Fits

THEOREM Fitting == PSpec => []Fits
<1>1. Fits /\ [PNext]_allVars => Fits'
  BY FitsStep
<1> QED BY FitsInit, <1>1, PTL DEF PSpec

\* Every variable of the pipeline stays within its type (inlet_handlers.go,
\* delivery_runner.go, engine.go, queue_handlers.go, server.go).
THEOREM PipelineTypeCorrect == PSpec => []PTypeOK
BY Fitting, PTL DEF Fits

\* The door, the runners, the chat turns, the cancels and the boot use the queue by
\* its rules, so what is proved of WorkQueue holds of the whole pipeline.
THEOREM PipelineUsesQueue == PSpec => ImplementsQueue
<1>1. PInit => Init
  BY DEF PInit
<1>2. Fits /\ [PNext]_allVars => [Next]_vars
  BY QueueSteps, QueueImplemented DEF Fits, PTypeOK
<1> QED BY <1>1, <1>2, Fitting, PTL DEF PSpec, ImplementsQueue, Spec

\* The ledger's rows move as RunLedger lets them, whoever of the door, the worker,
\* the cancel and the boot writes them (runs.go).
THEOREM PipelineKeepsLedger == PSpec => ImplementsLedger
<1>1. PInit => Ledger!Init
  BY DEF PInit, Ledger!Init
<1>2. Fits /\ [PNext]_allVars => [Ledger!Next]_ledger
  BY LedgerSteps
<1> QED BY <1>1, <1>2, Fitting, PTL DEF PSpec, ImplementsLedger, Ledger!Spec

------------------------------------------------------------------------------
(* One turn per workspace.  The lane does not decide it: a cancel frees the   *)
(* lane under a run.  The latch does, and it has one owner.                   *)

Inside(w)  == RunnerAt(w, "agent")
Turning(c) == turn[c] \in {"latched", "talking", "released"}

Latched ==
    /\ \A w \in Workers : Inside(w) => latch
    /\ \A c \in Chats : Turning(c) => latch
    /\ \A v, w \in Workers : Inside(v) /\ Inside(w) => v = w
    /\ \A c, d \in Chats : Turning(c) /\ Turning(d) => c = d
    /\ \A w \in Workers, c \in Chats : ~(Inside(w) /\ Turning(c))

\* A step that lets nobody in and leaves the latch alone.
LEMMA LatchLeft ==
    ASSUME Latched, UNCHANGED latch,
           \A w \in Workers : Inside(w)' => Inside(w),
           \A c \in Chats : Turning(c)' => Turning(c)
    PROVE  Latched'
BY DEF Latched

LEMMA SameInside == ASSUME NEW w, Same(w), Inside(w)' PROVE Inside(w)
BY DEF Same, Inside, RunnerAt

LEMMA LatchedStep == ASSUME Fits, Latched, [PNext]_allVars PROVE Latched'
<1>0. PTypeOK
  BY DEF Fits
<1>1. ASSUME UNCHANGED <<latch, turn>>, \A w \in Workers : Inside(w)' => Inside(w)
      PROVE  Latched'
  BY <1>1, LatchLeft DEF Turning
<1>2. ASSUME NEW w \in Workers, RunnerStep(w), \A v \in Workers \ {w} : Same(v) PROVE Latched'
  <2>1. \A v \in Workers \ {w} : Inside(v)' => Inside(v)
    BY <1>2, SameInside
  <2>2. CASE RunAgent(w)
    <3>1. (\A v \in Workers : ~Inside(v)) /\ (\A c \in Chats : ~Turning(c))
      BY <2>2 DEF RunAgent, Latched
    <3>2. latch' /\ UNCHANGED turn
      BY <2>2 DEF RunAgent, BeginTurn
    <3> QED BY <2>1, <3>1, <3>2 DEF Latched, Turning
  <2>3. CASE (\E v \in Verdicts : LeaveAgent(w, v)) \/ PanicInAgent(w)
    <3>1. Inside(w) /\ ~Inside(w)' /\ UNCHANGED turn
      BY <2>3, <1>0 DEF LeaveAgent, PanicInAgent, RunnerHas, Inside, RunnerAt, PTypeOK
    <3>2. (\A v \in Workers : ~Inside(v)') /\ (\A c \in Chats : ~Turning(c)')
      BY <2>1, <3>1 DEF Latched, Turning
    <3> QED BY <3>2 DEF Latched
  <2>4. ASSUME \/ PoolAlone(w) \/ EnterRunner(w) \/ StartDelivery(w) \/ SetWorkFor(w)
               \/ NeverBegan(w) \/ SettleDelivery(w) \/ RunnerAnnounce(w)
               \/ PostCallback(w) \/ RetryCallback(w) \/ LeaveRunner(w)
        PROVE  Latched'
    <3>1. UNCHANGED <<latch, turn>>
      BY <2>4 DEF PoolAlone, pipelineVars, engineVars, EnterRunner, StartDelivery, SetWorkFor, NeverBegan,
                  SettleDelivery, RunnerAnnounce, PostCallback, RetryCallback, LeaveRunner
    <3>2. CASE PoolAlone(w) \/ LeaveRunner(w)
      <4>1. ~Inside(w)'
        BY <3>2, <1>0, PoolKeeps DEF PoolAlone, LeaveRunner, Inside, RunnerAt, PTypeOK
      <4> QED BY <4>1, <3>1, <2>1, <1>1
    <3>3. CASE \/ EnterRunner(w) \/ StartDelivery(w) \/ SetWorkFor(w)
               \/ NeverBegan(w) \/ SettleDelivery(w) \/ RunnerAnnounce(w)
               \/ PostCallback(w) \/ RetryCallback(w)
      <4>1. runner'[w].pc # "agent"
        BY <3>3, <1>0 DEF EnterRunner, StartDelivery, SetWorkFor, NeverBegan, SettleDelivery,
                          RunnerAnnounce, PostCallback, RetryCallback, RunnerGoes, RunnerHas, PTypeOK
      <4> QED BY <4>1, <3>1, <2>1, <1>1 DEF Inside, RunnerAt
    <3> QED BY <2>4, <3>2, <3>3
  <2> QED BY <1>2, <2>2, <2>3, <2>4 DEF RunnerStep
<1>3. ASSUME NEW c \in Chats, TurnStep(c) PROVE Latched'
  <2>1. \A w \in Workers : Inside(w)' => Inside(w)
    BY <1>3 DEF TurnStep, LatchTurn, TakeLane, LaneUnread, LaneTaken, ReleaseLane, Unlatch, ChatClaim,
                ChatClaimUnread, ChatSettle, vars, volatile, Inside, RunnerAt
  <2>2. \A d \in Chats \ {c} : Turning(d)' => Turning(d)
    BY <1>3, <1>0 DEF TurnStep, LatchTurn, TakeLane, LaneUnread, LaneTaken, ReleaseLane, Unlatch, TurnGoes,
                      Turning, PTypeOK
  <2>3. CASE LatchTurn(c)
    <3>1. CASE latch
      <4>1. UNCHANGED latch /\ ~Turning(c)'
        BY <2>3, <3>1, <1>0 DEF LatchTurn, TurnGoes, Turning, PTypeOK
      <4> QED BY <4>1, <2>1, <2>2, LatchLeft
    <3>2. CASE ~latch
      <4>1. (\A v \in Workers : ~Inside(v)) /\ (\A d \in Chats : ~Turning(d))
        BY <3>2 DEF Latched
      <4>2. latch'
        BY <2>3, <3>2 DEF LatchTurn
      <4> QED BY <4>1, <4>2, <2>1, <2>2 DEF Latched
    <3> QED BY <3>1, <3>2
  <2>4. CASE TakeLane(c)
    <3>1. Turning(c) /\ latch'
      BY <2>4 DEF TakeLane, BeginTurn, Turning
    <3> QED BY <2>1, <2>2, <3>1 DEF Latched
  <2>5. CASE ReleaseLane(c)
    <3>1. Turning(c) /\ UNCHANGED latch
      BY <2>5 DEF ReleaseLane, Turning
    <3> QED BY <2>1, <2>2, <3>1, LatchLeft
  <2>6. CASE LaneUnread(c) \/ LaneTaken(c) \/ Unlatch(c)
    <3>1. Turning(c) /\ ~Turning(c)'
      BY <2>6, <1>0 DEF LaneUnread, LaneTaken, Unlatch, TurnGoes, Turning, PTypeOK
    <3>2. (\A v \in Workers : ~Inside(v)') /\ (\A d \in Chats : ~Turning(d)')
      BY <2>1, <2>2, <3>1 DEF Latched
    <3> QED BY <3>2 DEF Latched
  <2> QED BY <1>3, <2>3, <2>4, <2>5, <2>6 DEF TurnStep
<1>4. CASE ProcessEnds
  <2>1. \A w \in Workers : worker'[w].pc = "idle"
    BY <1>4 DEF ProcessEnds, Exit, Crash, Forgotten, IdleWorker
  <2>2. \A c \in Chats : turn'[c] \in {"new", "over"}
    BY <1>4 DEF ProcessEnds
  <2> QED BY <2>1, <2>2 DEF Latched, Inside, RunnerAt, Turning
<1>5. ASSUME \/ UNCHANGED allVars \/ (\E r \in Requests : DoorStep(r)) \/ CancelStep
             \/ BootPool \/ Bootstrap \/ Shutdown
      PROVE  UNCHANGED <<latch, turn>>
  BY <1>5 DEF allVars, pipelineVars, engineVars, DoorStep, LookUpKey, AcceptRun, Refuse, CountWaiting,
              RecordQueued, EnqueueDelivery, EnqueueDuplicate, DoorAnnounce, AnswerRun, HangUp,
              CancelStep, KillUnit, InterruptRun, SettleCancelled, AnnounceCancelled, BootPool,
              Bootstrap, Shutdown
<1>6. CASE \A w \in Workers : Same(w)
  <2>1. \A w \in Workers : Inside(w)' => Inside(w)
    BY <1>6, SameInside
  <2>2. ASSUME NEW w \in Workers, RunnerStep(w) PROVE Latched'
    BY <2>2, <1>2, <1>6
  <2> QED BY <2>1, <2>2, <1>1, <1>3, <1>4, <1>5 DEF PNext
<1> QED BY <1>2, <1>6, Others

\* One turn at a time in a workspace, a chat turn or a delivery's agent, whoever
\* was cancelled, crashed or lost its lane meanwhile (engine.go, unattended.go).
THEOREM OneTurn == PSpec => []OneTurnPerWorkspace
<1>1. PInit => Latched
  BY DEF PInit, Init, IdleWorker, Latched, Inside, RunnerAt, Turning
<1>2. Fits /\ Latched /\ [PNext]_allVars => Latched'
  BY LatchedStep
<1>3. Latched => OneTurnPerWorkspace
  <2> SUFFICES ASSUME Latched PROVE OneTurnPerWorkspace
    OBVIOUS
  <2>1. AgentsAtWork = {} \/ \E w : AgentsAtWork = {w}
    BY DEF Latched, Inside, AgentsAtWork
  <2>2. TurnsAtWork = {} \/ \E c : TurnsAtWork = {c}
    BY DEF Latched, Turning, TurnsAtWork
  <2>3. AgentsAtWork = {} \/ TurnsAtWork = {}
    BY DEF Latched, Inside, Turning, AgentsAtWork, TurnsAtWork
  <2>4. AgentsAtWork \cup TurnsAtWork # {} => latch
    BY DEF Latched, Inside, Turning, AgentsAtWork, TurnsAtWork
  <2>5. Cardinality({}) = 0 /\ \A x : Cardinality({x}) = 1
    BY FS_EmptySet, FS_Singleton
  <2>6. Cardinality(AgentsAtWork) + Cardinality(TurnsAtWork) <= 1
    <3>1. Cardinality(AgentsAtWork) \in {0, 1}
      BY <2>1, <2>5
    <3>2. Cardinality(TurnsAtWork) \in {0, 1}
      BY <2>2, <2>5
    <3>3. Cardinality(AgentsAtWork) = 0 \/ Cardinality(TurnsAtWork) = 0
      BY <2>3, <2>5
    <3> QED BY <3>1, <3>2, <3>3
  <2> QED BY <2>4, <2>6 DEF OneTurnPerWorkspace
<1> QED BY <1>1, <1>2, <1>3, Fitting, PTL DEF PSpec

------------------------------------------------------------------------------
(* A delivery's agent runs once, and a verdict is about that run.  A row is    *)
(* past waiting once its runner has begun, so no second runner can begin it.   *)

Judged   == {"completed", "refused_expectation", "refused_output_schema", "refused_budget"}
RunOf(w) == JobOf(w).run
Begun(w) == worker[w].pc = "running" /\ runner[w].pc \in {"bind", "engine", "agent", "settle"}
RanAs(w) ==
    /\ runner[w].pc \in {"bind", "engine"} => agentRuns[RunOf(w)] = 0
    /\ runner[w].pc = "agent" => agentRuns[RunOf(w)] = 1
    /\ runner[w].pc = "settle" /\ runner[w].verdict # "failed" => agentRuns[RunOf(w)] = 1

Progress ==
    /\ \A w \in Workers : Begun(w) => ledger[RunOf(w)] \notin Early /\ RanAs(w)
    /\ \A v, w \in Workers : Begun(v) /\ Begun(w) /\ RunOf(v) = RunOf(w) => v = w
    /\ \A r \in Requests : /\ agentRuns[r] # 0 => ledger[r] \notin Early
                           /\ agentRuns[r] <= 1
                           /\ ledger[r] \in Judged => agentRuns[r] = 1

\* A worker whose runner has begun has a delivery of one of the requests.
LEMMA BegunRuns == ASSUME Fits, NEW w \in Workers, Begun(w) PROVE RunOf(w) \in Requests
BY JobFacts DEF Begun, RunOf, Fits, RunnerFits, DeliverySteps

LEMMA SameBegun ==
    ASSUME Fits, [PNext]_allVars, NEW w \in Workers, Same(w), Begun(w)'
    PROVE  Begun(w) /\ RunOf(w)' = RunOf(w) /\ runner'[w] = runner[w]
<1>1. TypeOK /\ HeldKnown /\ RowsKeep
  BY QueueSteps, QueueKeeps DEF Fits, PTypeOK, TypeOK, RowsOK, IInv, Hands
<1>2. /\ worker[w].pc = "running" /\ worker'[w].unit = worker[w].unit
      /\ runner'[w] = runner[w] /\ Begun(w)
  BY DEF Same, Begun
<1>3. JobOf(w)' = JobOf(w)
  BY <1>1, <1>2, SameJob
<1> QED BY <1>2, <1>3 DEF RunOf

\* No step but a runner's settle gives a row a verdict, and none but a runner's
\* start of the agent counts one.
LEMMA Unjudged ==
    ASSUME Fits, [PNext]_allVars, \A w \in Workers : ~RunnerStep(w)
    PROVE  /\ UNCHANGED agentRuns
           /\ \A r \in Requests : ledger'[r] \in Judged => ledger[r] \in Judged
<1>0. ledger \in [Requests -> LedgerStates]
  BY TypedParts DEF Fits
<1>1. ASSUME NEW s \in Requests, NEW outcome \in {"failed", "refused_schema", "interrupted"},
             Ledger!SettleOrLog(s, outcome)
      PROVE  \A r \in Requests : ledger'[r] \in Judged => ledger[r] \in Judged
  BY <1>0, <1>1 DEF Ledger!SettleOrLog, Judged, LedgerStates
<1>2. ASSUME NEW s \in Requests, DoorStep(s)
      PROVE  /\ UNCHANGED agentRuns
             /\ \A r \in Requests : ledger'[r] \in Judged => ledger[r] \in Judged
  <2>1. CASE AcceptRun(s) \/ RecordQueued(s)
    BY <1>0, <2>1 DEF AcceptRun, RecordQueued, Ledger!Accept, Ledger!Queued, Ledger!Move, Judged
  <2>2. CASE Refuse(s) \/ EnqueueDuplicate(s)
    BY <1>1, <2>2 DEF Refuse, EnqueueDuplicate
  <2> QED BY <1>2, <2>1, <2>2
      DEF DoorStep, LookUpKey, CountWaiting, EnqueueDelivery, DoorAnnounce, AnswerRun, HangUp
<1>3. ASSUME NEW i \in Ids, SettleCancelled(i)
      PROVE  /\ UNCHANGED agentRuns
             /\ \A r \in Requests : ledger'[r] \in Judged => ledger[r] \in Judged
  <2>1. work[i].job.run \in Requests
    BY <1>3, JobFacts DEF SettleCancelled, Fits, CancelFits
  <2> QED BY <1>1, <1>3, <2>1 DEF SettleCancelled
<1>4. CASE Bootstrap
  BY <1>0, <1>4 DEF Bootstrap, Ledger!ReconcileRuns, Judged
<1>5. ASSUME \/ UNCHANGED allVars \/ (\E c \in Chats : TurnStep(c))
             \/ (\E i \in Ids : KillUnit(i) \/ InterruptRun(i))
             \/ (\E r \in Requests : AnnounceCancelled(r))
             \/ BootPool \/ Shutdown \/ ProcessEnds
      PROVE  UNCHANGED <<agentRuns, ledger>>
  BY <1>5 DEF allVars, pipelineVars, TurnStep, LatchTurn, TakeLane, LaneUnread, LaneTaken,
              ReleaseLane, Unlatch, KillUnit, InterruptRun, AnnounceCancelled, BootPool, Shutdown,
              ProcessEnds
<1> QED BY <1>2, <1>3, <1>4, <1>5 DEF PNext, CancelStep

LEMMA ProgressStep == ASSUME Fits, Progress, [PNext]_allVars PROVE Progress'
<1>0. /\ ledger \in [Requests -> LedgerStates]
      /\ runner \in [Workers -> [pc : RunnerPCs, verdict : Verdicts \cup {"none"}]]
      /\ agentRuns \in [Requests -> Nat]
      /\ TypeOK
  BY TypedParts DEF Fits, RunnerTyped
<1>k. \A r \in Requests : ledger[r] \notin Early => ledger'[r] \notin Early
  BY <1>0, LedgerSteps, LedgerKeeps
<1>1. ASSUME \A w \in Workers : Same(w), \A w \in Workers : ~RunnerStep(w)
      PROVE  Progress'
  <2>1. \A w \in Workers : Begun(w)' => /\ Begun(w) /\ RunOf(w)' = RunOf(w)
                                        /\ runner'[w] = runner[w] /\ RunOf(w) \in Requests
    BY <1>1, SameBegun, BegunRuns
  <2>2. /\ UNCHANGED agentRuns
        /\ \A r \in Requests : ledger'[r] \in Judged => ledger[r] \in Judged
    BY <1>1, Unjudged
  <2>3. \A w \in Workers : Begun(w)' => ledger'[RunOf(w)'] \notin Early /\ RanAs(w)'
    BY <1>k, <2>1, <2>2 DEF Progress, RanAs
  <2>4. \A v, w \in Workers : Begun(v)' /\ Begun(w)' /\ RunOf(v)' = RunOf(w)' => v = w
    BY <2>1 DEF Progress
  <2> QED BY <1>k, <2>2, <2>3, <2>4 DEF Progress
<1>2. ASSUME NEW w \in Workers, RunnerStep(w), \A v \in Workers \ {w} : Same(v) PROVE Progress'
  <2>1. \A v \in Workers \ {w} : Begun(v)' => /\ Begun(v) /\ RunOf(v)' = RunOf(v)
                                              /\ runner'[v] = runner[v] /\ RunOf(v) \in Requests
    BY <1>2, SameBegun, BegunRuns
  \* It ends the part a verdict is about, or was never in it.
  <2>2. ASSUME ~Begun(w)', UNCHANGED agentRuns,
               \A r \in Requests : ledger'[r] \in Judged => agentRuns[r] = 1
        PROVE  Progress'
    <3>1. \A v \in Workers : Begun(v)' => ledger'[RunOf(v)'] \notin Early /\ RanAs(v)'
      BY <1>k, <2>1, <2>2 DEF Progress, RanAs
    <3>2. \A u, v \in Workers : Begun(u)' /\ Begun(v)' /\ RunOf(u)' = RunOf(v)' => u = v
      BY <2>1, <2>2 DEF Progress
    <3> QED BY <1>k, <2>2, <3>1, <3>2 DEF Progress
  \* It goes on in it.
  <2>3. ASSUME Begun(w), RunOf(w)' = RunOf(w), RanAs(w)', UNCHANGED ledger,
               \A r \in Requests \ {RunOf(w)} : agentRuns'[r] = agentRuns[r],
               \/ UNCHANGED agentRuns
               \/ agentRuns'[RunOf(w)] = 1
        PROVE  Progress'
    <3>0. RunOf(w) \in Requests /\ ledger[RunOf(w)] \notin Early
      BY <2>3, BegunRuns DEF Progress
    <3>1. ASSUME NEW v \in Workers, Begun(v)' PROVE ledger'[RunOf(v)'] \notin Early /\ RanAs(v)'
      <4>1. CASE v = w
        BY <4>1, <2>3, <3>0
      <4>2. CASE v # w
        <5>1. Begun(v) /\ RunOf(v)' = RunOf(v) /\ runner'[v] = runner[v] /\ RunOf(v) \in Requests
          BY <3>1, <4>2, <2>1
        <5>2. RunOf(v) # RunOf(w)
          BY <5>1, <4>2, <2>3 DEF Progress
        <5>3. ledger[RunOf(v)] \notin Early /\ RanAs(v)
          BY <5>1 DEF Progress
        <5> QED BY <2>3, <5>1, <5>2, <5>3 DEF RanAs
      <4> QED BY <4>1, <4>2
    <3>2. \A u, v \in Workers : Begun(u)' /\ Begun(v)' /\ RunOf(u)' = RunOf(v)' => u = v
      BY <2>1, <2>3 DEF Progress
    <3>3. \A r \in Requests : /\ agentRuns'[r] # 0 => ledger'[r] \notin Early
                              /\ agentRuns'[r] <= 1
                              /\ ledger'[r] \in Judged => agentRuns'[r] = 1
      BY <2>3, <3>0 DEF Progress
    <3> QED BY <3>1, <3>2, <3>3 DEF Progress
  <2>j. ASSUME UNCHANGED worker, worker[w].pc = "running" PROVE RunOf(w)' = RunOf(w)
    <3>1. HeldKnown /\ RowsKeep
      BY QueueSteps, QueueKeeps DEF Fits, PTypeOK, TypeOK, RowsOK, IInv, Hands
    <3> QED BY <2>j, <3>1, <1>0, SameJob DEF RunOf
  <2>4. CASE PoolAlone(w) \/ LeaveRunner(w) \/ PanicInAgent(w)
    <3>1. ~Begun(w)'
      BY <2>4, <1>0, PoolKeeps DEF PoolAlone, LeaveRunner, PanicInAgent, Begun
    <3>2. UNCHANGED <<agentRuns, ledger>>
      BY <2>4 DEF PoolAlone, LeaveRunner, PanicInAgent, pipelineVars
    <3> QED BY <3>1, <3>2, <2>2 DEF Progress
  <2>5. CASE EnterRunner(w) \/ RunnerAnnounce(w) \/ PostCallback(w) \/ RetryCallback(w)
    <3>1. ~Begun(w)'
      BY <2>5, <1>0 DEF EnterRunner, RunnerAnnounce, PostCallback, RetryCallback, RunnerGoes, Begun
    <3>2. UNCHANGED <<agentRuns, ledger>>
      BY <2>5 DEF EnterRunner, RunnerAnnounce, PostCallback, RetryCallback
    <3> QED BY <3>1, <3>2, <2>2 DEF Progress
  <2>6. CASE StartDelivery(w)
    <3>0. /\ worker[w].pc = "running" /\ UNCHANGED <<worker, agentRuns>>
          /\ RunOf(w) \in Requests
      BY <2>6, JobFacts DEF StartDelivery, RunnerAt, vars, RunOf, Fits, RunnerFits, DeliverySteps
    <3>1. RunOf(w)' = RunOf(w)
      BY <3>0, <2>j
    <3>2. CASE UNCHANGED ledger /\ runner'[w].pc = "done"
      BY <3>0, <3>2, <2>2 DEF Begun, Progress
    <3>3. CASE ledger[RunOf(w)] = "queued" /\ ledger' = [ledger EXCEPT ![RunOf(w)] = "running"]
               /\ runner'[w].pc = "bind"
      <4>1. agentRuns[RunOf(w)] = 0 /\ \A v \in Workers : Begun(v) => RunOf(v) # RunOf(w)
        BY <3>0, <3>3 DEF Progress, Early
      <4>2. \A v \in Workers : Begun(v)' => ledger'[RunOf(v)'] \notin Early /\ RanAs(v)'
        <5>1. ledger'[RunOf(w)'] \notin Early /\ RanAs(w)'
          BY <1>0, <3>0, <3>1, <3>3, <4>1 DEF Early, RanAs
        <5>2. ASSUME NEW v \in Workers \ {w}, Begun(v)' PROVE ledger'[RunOf(v)'] \notin Early /\ RanAs(v)'
          BY <1>k, <2>1, <3>0, <5>2 DEF Progress, RanAs
        <5> QED BY <5>1, <5>2
      <4>3. \A u, v \in Workers : Begun(u)' /\ Begun(v)' /\ RunOf(u)' = RunOf(v)' => u = v
        BY <2>1, <3>1, <4>1 DEF Progress
      <4>4. \A r \in Requests : ledger'[r] \in Judged => ledger[r] \in Judged
        BY <1>0, <3>0, <3>3 DEF Judged
      <4> QED BY <1>k, <3>0, <4>2, <4>3, <4>4 DEF Progress
    <3> QED BY <2>6, <1>0, <3>2, <3>3 DEF StartDelivery, RunnerGoes, Ledger!StartRun, Ledger!Move, RunOf
  <2>7. CASE SettleDelivery(w)
    <3>0. /\ Begun(w) /\ UNCHANGED agentRuns /\ runner[w].pc = "settle" /\ RunOf(w) \in Requests
      BY <2>7, BegunRuns DEF SettleDelivery, RunnerAt, Begun
    <3>1. ~Begun(w)'
      BY <2>7, <1>0 DEF SettleDelivery, RunnerGoes, Begun
    <3>2. runner[w].verdict \in Judged => agentRuns[RunOf(w)] = 1
      BY <3>0 DEF Progress, RanAs, Judged
    <3>3. \A r \in Requests : ledger'[r] \in Judged => agentRuns[r] = 1
      BY <2>7, <1>0, <3>0, <3>2 DEF SettleDelivery, Ledger!SettleOrLog, RunOf, Progress
    <3> QED BY <3>0, <3>1, <3>3, <2>2
  <2>8. CASE SetWorkFor(w) \/ NeverBegan(w) \/ (\E v \in Verdicts : LeaveAgent(w, v))
    <3>0. /\ Begun(w) /\ UNCHANGED <<worker, agentRuns, ledger>> /\ worker[w].pc = "running"
      BY <2>8 DEF SetWorkFor, NeverBegan, LeaveAgent, RunnerAt, Begun, vars
    <3>1. RunOf(w)' = RunOf(w) /\ RanAs(w)
      BY <3>0, <2>j DEF Progress
    <3>2. RanAs(w)'
      BY <2>8, <1>0, <3>0, <3>1 DEF SetWorkFor, NeverBegan, LeaveAgent, RunnerAt, RunnerGoes, RunnerHas, RanAs
    <3> QED BY <3>0, <3>1, <3>2, <2>3
  <2>9. CASE RunAgent(w)
    <3>0. /\ Begun(w) /\ UNCHANGED <<worker, ledger>> /\ worker[w].pc = "running"
          /\ runner[w].pc = "engine" /\ runner'[w].pc = "agent"
      BY <2>9, <1>0 DEF RunAgent, RunnerAt, Begun, RunnerGoes, vars
    <3>1. RunOf(w)' = RunOf(w) /\ agentRuns[RunOf(w)] = 0 /\ RunOf(w) \in Requests
      BY <3>0, <2>j, BegunRuns DEF Progress, RanAs
    <3>2. agentRuns' = [agentRuns EXCEPT ![RunOf(w)] = 1]
      BY <2>9, <1>0, <3>1 DEF RunAgent, RunOf
    <3>3. /\ agentRuns'[RunOf(w)] = 1
          /\ \A r \in Requests \ {RunOf(w)} : agentRuns'[r] = agentRuns[r]
      BY <3>1, <3>2, <1>0
    <3>4. RanAs(w)'
      BY <3>0, <3>1, <3>3 DEF RanAs
    <3> QED BY <3>0, <3>1, <3>3, <3>4, <2>3
  <2> QED BY <1>2, <2>4, <2>5, <2>6, <2>7, <2>8, <2>9 DEF RunnerStep
<1>3. ASSUME NEW w \in Workers, RunnerStep(w), \A v \in Workers : Same(v) PROVE Progress'
  BY <1>2, <1>3
<1> QED BY <1>1, <1>2, <1>3, Others

LEMMA Progresses == PSpec => []Progress
<1>1. PInit => Progress
  <2> SUFFICES ASSUME PInit PROVE Progress
    OBVIOUS
  <2>1. \A w \in Workers : ~Begun(w)
    BY DEF PInit, NoRunner, Begun
  <2> QED BY <2>1 DEF PInit, Progress, Judged
<1>2. Fits /\ Progress /\ [PNext]_allVars => Progress'
  BY ProgressStep
<1> QED BY <1>1, <1>2, Fitting, PTL DEF PSpec

\* A row that says what an agent's run was judged to be belongs to a delivery whose
\* agent ran, once (delivery_runner.go judge, settle).
THEOREM VerdictsAreEarned == PSpec => []JudgedRan
<1>1. Progress => JudgedRan
  BY DEF Progress, JudgedRan, Judged
<1> QED BY <1>1, Progresses, PTL

\* No delivery's agent runs twice, over cancels, panics, crashes and restarts
\* (work.go ReleaseClaims, runs.go Start).
THEOREM AgentRunsOnce == PSpec => [](\A r \in Requests : agentRuns[r] <= 1)
<1>1. Progress => \A r \in Requests : agentRuns[r] <= 1
  BY DEF Progress
<1> QED BY <1>1, Progresses, PTL


------------------------------------------------------------------------------
(* Keys, and what is queued.  A unit is known by its key for as long as its    *)
(* row is there, and no row goes while deliveries run.                         *)

NextTry(w) == JobOf(w).try + 1

\* What a new row is, and who puts it in.
BornWaiting(i) ==
    \/ \E r \in Requests : work'[i].job = Delivery(r) /\ work'[i].key = KeyOf[r]
    \/ \E r \in Requests : work'[i].job = Callback(r, 0) /\ work'[i].key = CallbackKey(r, 0)
    \/ \E w \in Workers : /\ RunnerAt(w, "retry")
                          /\ work'[i].job = Callback(RunOf(w), NextTry(w))
                          /\ work'[i].key = CallbackKey(RunOf(w), NextTry(w))
BornClaimed(i) == work'[i].job = ChatJob /\ work'[i].key = NoKey

Born(i) == /\ DOMAIN work' = DOMAIN work \cup {i}
           /\ ~KeyTaken(work'[i].key)
           /\ BornWaiting(i) \/ BornClaimed(i)

LEMMA EnqueueBears ==
    ASSUME NEW n \in Ids, NEW l, NEW k, NEW j, NEW t, Enqueue(n, l, k, j, t)
    PROVE  /\ DOMAIN work' = DOMAIN work \cup {n} /\ ~KeyTaken(k)
           /\ work'[n].job = j /\ work'[n].key = k /\ work'[n].state = "queued"
<1> DEFINE row == [state |-> "queued", lane |-> l, key |-> k, job |-> j, after |-> t, attempts |-> 0]
<1>1. Insert(n, row) /\ ~KeyTaken(k)
  BY DEF Enqueue
<1>2. row.job = j /\ row.key = k /\ row.state = "queued"
  OBVIOUS
<1> HIDE DEF row
<1>3. DOMAIN work' = DOMAIN work \cup {n} /\ work'[n] = row
  BY <1>1, InsertFacts
<1> QED BY <1>1, <1>2, <1>3

LEMMA AnnounceBears ==
    ASSUME NEW r \in Requests, Announce(r)
    PROVE  \/ UNCHANGED work
           \/ \E n \in Ids : /\ DOMAIN work' = DOMAIN work \cup {n}
                             /\ ~KeyTaken(work'[n].key)
                             /\ work'[n].job = Callback(r, 0) /\ work'[n].key = CallbackKey(r, 0)
<1>1. CASE UNCHANGED vars
  BY <1>1 DEF vars
<1>2. ASSUME NEW n \in Ids, Enqueue(n, r, CallbackKey(r, 0), Callback(r, 0), clock)
      PROVE  /\ DOMAIN work' = DOMAIN work \cup {n}
             /\ ~KeyTaken(work'[n].key)
             /\ work'[n].job = Callback(r, 0) /\ work'[n].key = CallbackKey(r, 0)
  <2>1. /\ DOMAIN work' = DOMAIN work \cup {n} /\ ~KeyTaken(CallbackKey(r, 0))
        /\ work'[n].job = Callback(r, 0) /\ work'[n].key = CallbackKey(r, 0)
    BY <1>2, EnqueueBears
  <2>2. KeyTaken(work'[n].key) <=> KeyTaken(CallbackKey(r, 0))
    BY <2>1 DEF KeyTaken
  <2> QED BY <2>1, <2>2
<1> QED BY <1>1, <1>2 DEF Announce

LEMMA Births ==
    ASSUME Fits, [PNext]_allVars, NEW i \in DOMAIN work' \ DOMAIN work
    PROVE  Born(i)
<1>1. ASSUME DOMAIN work' = DOMAIN work PROVE FALSE
  BY <1>1
<1>2. ASSUME NEW r \in Requests, Announce(r) PROVE Born(i)
  <2>1. PICK n \in Ids : /\ DOMAIN work' = DOMAIN work \cup {n}
                         /\ ~KeyTaken(work'[n].key)
                         /\ work'[n].job = Callback(r, 0) /\ work'[n].key = CallbackKey(r, 0)
    BY <1>1, <1>2, AnnounceBears
  <2>2. i = n
    BY <2>1
  <2> QED BY <2>1, <2>2 DEF Born, BornWaiting
<1>3. ASSUME NEW c \in Chats, TurnStep(c) PROVE Born(i)
  <2>1. ASSUME NEW n \in Ids, ChatClaim(c, n, WS, ChatJob) \/ ChatClaimUnread(c, n, WS, ChatJob)
        PROVE  Born(i)
    <3>1. DOMAIN work' = DOMAIN work \cup {n} /\ work'[n].job = ChatJob /\ work'[n].key = NoKey
      BY SMTT(30), <2>1, InsertFacts DEF ChatClaim, ChatClaimUnread
    <3> QED BY <3>1 DEF Born, BornClaimed, KeyTaken
  <2> QED BY <1>1, <1>3, <2>1
      DEF TurnStep, LatchTurn, TakeLane, LaneUnread, LaneTaken, ReleaseLane, Unlatch, ChatSettle,
          Update, Mark, vars
<1>4. ASSUME NEW r \in Requests, DoorStep(r) PROVE Born(i)
  <2>1. CASE EnqueueDelivery(r)
    <3>1. PICK n \in Ids : Enqueue(n, WS, KeyOf[r], Delivery(r), clock)
      BY <2>1 DEF EnqueueDelivery
    <3>2. /\ DOMAIN work' = DOMAIN work \cup {n} /\ ~KeyTaken(KeyOf[r])
          /\ work'[n].job = Delivery(r) /\ work'[n].key = KeyOf[r]
      BY <3>1, EnqueueBears
    <3>3. i = n
      BY <3>2
    <3> QED BY <3>2, <3>3 DEF Born, BornWaiting
  <2> QED BY <1>1, <1>2, <1>4, <2>1
      DEF DoorStep, LookUpKey, AcceptRun, Refuse, CountWaiting, RecordQueued, EnqueueDuplicate,
          DoorAnnounce, AnswerRun, HangUp, vars
<1>5. ASSUME NEW w \in Workers, RunnerStep(w) PROVE Born(i)
  <2>1. CASE RunnerAnnounce(w)
    <3>1. JobOf(w).run \in Requests
      BY <2>1, JobFacts DEF RunnerAnnounce, RunnerAt, Fits, RunnerFits, DeliverySteps
    <3> QED BY <1>2, <2>1, <3>1 DEF RunnerAnnounce
  <2>2. CASE RetryCallback(w)
    <3>1. PICK n \in Ids : Enqueue(n, RunOf(w), CallbackKey(RunOf(w), NextTry(w)),
                                   Callback(RunOf(w), NextTry(w)), clock)
      BY <2>2 DEF RetryCallback, RunOf, NextTry
    <3>2. /\ DOMAIN work' = DOMAIN work \cup {n} /\ ~KeyTaken(work'[n].key)
          /\ work'[n].job = Callback(RunOf(w), NextTry(w))
          /\ work'[n].key = CallbackKey(RunOf(w), NextTry(w))
      BY <3>1, EnqueueBears
    <3>3. i = n /\ RunnerAt(w, "retry")
      BY <2>2, <3>2 DEF RetryCallback
    <3> QED BY <3>2, <3>3 DEF Born, BornWaiting
  <2>3. CASE PoolAlone(w)
    BY <1>1, <2>3 DEF PoolAlone, Claim, SettleUnit, Unregister, Update, Mark
  <2> QED BY <1>1, <1>5, <2>1, <2>2, <2>3
      DEF RunnerStep, EnterRunner, StartDelivery, SetWorkFor, NeverBegan, RunAgent, LeaveAgent,
          SettleDelivery, PostCallback, LeaveRunner, PanicInAgent, Register, Return, Panic, vars
<1>6. CASE CancelStep
  <2>1. ASSUME NEW r \in Requests, AnnounceCancelled(r) PROVE Born(i)
    BY <1>2, <2>1 DEF AnnounceCancelled
  <2> QED BY <1>1, <1>6, <2>1
      DEF CancelStep, KillUnit, Kill, InterruptRun, CancelRunning, SettleCancelled, Update, Mark, vars
<1>7. CASE UNCHANGED allVars \/ BootPool \/ Bootstrap \/ Shutdown \/ ProcessEnds
  BY <1>1, <1>7
     DEF allVars, vars, BootPool, Start, Bootstrap, Shutdown, Stop, ProcessEnds, Exit, Crash, Mark
<1> QED BY <1>3, <1>4, <1>5, <1>6, <1>7 DEF PNext

\* A unit has the key of its job, and has it alone; whatever reached its agent was
\* a unit.
Keyed ==
    /\ \A i \in DOMAIN work, r \in Requests :
          /\ work[i].job = Delivery(r) => work[i].key = KeyOf[r]
          /\ \A n \in Tries : work[i].job = Callback(r, n) => work[i].key = CallbackKey(r, n)
    /\ \A i, j \in DOMAIN work : work[i].key = work[j].key /\ work[i].key # NoKey => i = j
    /\ \A r \in Requests : agentRuns[r] # 0 => \E i \in DOMAIN work : work[i].job = Delivery(r)

\* A job says which it is.
LEMMA CallbackIs ==
    \A r, n : Callback(r, n).kind = "callback" /\ Callback(r, n).run = r /\ Callback(r, n).try = n
BY DEF Callback

LEMMA CallbackSame ==
    ASSUME NEW r, NEW n, NEW s, NEW m, Callback(r, n) = Callback(s, m)
    PROVE  r = s /\ n = m
<1>1. Callback(r, n).run = r /\ Callback(r, n).try = n
  BY CallbackIs
<1>2. Callback(s, m).run = s /\ Callback(s, m).try = m
  BY CallbackIs
<1> QED BY <1>1, <1>2

LEMMA DeliveryIs == \A r : Delivery(r).kind = "delivery" /\ Delivery(r).run = r
BY DEF Delivery

LEMMA ChatIs == ChatJob.kind = "chat"
BY DEF ChatJob

\* And the kinds have no job in common.
LEMMA JobsDiffer ==
    /\ \A r, n : Callback(r, n) # ChatJob
    /\ \A r : Delivery(r) # ChatJob
    /\ \A r, n, s : Callback(r, n) # Delivery(s)
    /\ \A r, s : Delivery(r) = Delivery(s) => r = s
<1>1. \A r, n : Callback(r, n) # ChatJob
  BY CallbackIs, ChatIs
<1>2. \A r : Delivery(r) # ChatJob
  BY DeliveryIs, ChatIs
<1>3. \A r, n, s : Callback(r, n) # Delivery(s)
  BY CallbackIs, DeliveryIs
<1>4. ASSUME NEW r, NEW s, Delivery(r) = Delivery(s) PROVE r = s
  <2>1. Delivery(r).run = r /\ Delivery(s).run = s
    BY DeliveryIs
  <2> QED BY <1>4, <2>1
<1> QED BY <1>1, <1>2, <1>3, <1>4

\* A runner at a retry has a callback of a run, with attempts left.
LEMMA RetryFacts ==
    ASSUME Fits, NEW w \in Workers, RunnerAt(w, "retry")
    PROVE  /\ RunOf(w) \in Requests /\ JobOf(w).try \in Tries /\ NextTry(w) \in Tries
           /\ JobOf(w) = Callback(RunOf(w), JobOf(w).try)
           /\ worker[w].unit \in DOMAIN work
<1>1. IsCallback(JobOf(w)) /\ JobOf(w).try + 1 < CallbackAttempts
  BY DEF RunnerAt, Fits, RunnerFits
<1>2. PICK r \in Requests, n \in Tries : JobOf(w) = Callback(r, n)
  BY <1>1 DEF IsCallback
<1>3. RunOf(w) = r /\ JobOf(w).try = n
  <2>1. Callback(r, n).run = r /\ Callback(r, n).try = n
    BY CallbackIs
  <2> QED BY <1>2, <2>1 DEF RunOf
<1>4. n + 1 \in Tries
  BY <1>1, <1>3, PipelineConstants DEF Tries
<1>5. worker[w].unit \in DOMAIN work
  BY DEF RunnerAt, Fits, IInv, Hands, HeldKnown, Known
<1> QED BY <1>2, <1>3, <1>4, <1>5 DEF NextTry

LEMMA KeyedStep == ASSUME Fits, Keyed, [PNext]_allVars PROVE Keyed'
<1>0. RowsKeep /\ HeldKnown /\ agentRuns \in [Requests -> Nat]
  BY QueueSteps, QueueKeeps, TypedParts DEF Fits, TypeOK, RowsOK, RunnerTyped, IInv, Hands
<1>1. ASSUME NEW i \in DOMAIN work' \ DOMAIN work, NEW r \in Requests
      PROVE  /\ work'[i].job = Delivery(r) => work'[i].key = KeyOf[r]
             /\ \A n \in Tries : work'[i].job = Callback(r, n) => work'[i].key = CallbackKey(r, n)
  <2>1. BornWaiting(i) \/ BornClaimed(i)
    BY Births DEF Born
  <2>2. CASE BornClaimed(i)
    BY <2>2, JobsDiffer DEF BornClaimed
  <2>3. ASSUME NEW s \in Requests, work'[i].job = Delivery(s), work'[i].key = KeyOf[s]
        PROVE  /\ work'[i].job = Delivery(r) => work'[i].key = KeyOf[r]
               /\ \A n \in Tries : work'[i].job = Callback(r, n) => work'[i].key = CallbackKey(r, n)
    <3>1. work'[i].job = Delivery(r) => r = s
      BY <2>3, JobsDiffer
    <3>2. \A n \in Tries : work'[i].job # Callback(r, n)
      BY <2>3, JobsDiffer
    <3> QED BY <2>3, <3>1, <3>2
  <2>4. ASSUME NEW s, NEW m, work'[i].job = Callback(s, m), work'[i].key = CallbackKey(s, m)
        PROVE  /\ work'[i].job = Delivery(r) => work'[i].key = KeyOf[r]
               /\ \A n \in Tries : work'[i].job = Callback(r, n) => work'[i].key = CallbackKey(r, n)
    <3>1. work'[i].job # Delivery(r)
      BY <2>4, JobsDiffer
    <3>2. \A n \in Tries : work'[i].job = Callback(r, n) => s = r /\ m = n
      <4> SUFFICES ASSUME NEW n \in Tries, work'[i].job = Callback(r, n) PROVE s = r /\ m = n
        OBVIOUS
      <4>1. Callback(s, m) = Callback(r, n)
        BY <2>4
      <4> QED BY <4>1, CallbackSame
    <3> QED BY <2>4, <3>1, <3>2
  <2> QED BY <2>1, <2>2, <2>3, <2>4 DEF BornWaiting
<1>2. ASSUME NEW i \in DOMAIN work', NEW r \in Requests
      PROVE  /\ work'[i].job = Delivery(r) => work'[i].key = KeyOf[r]
             /\ \A n \in Tries : work'[i].job = Callback(r, n) => work'[i].key = CallbackKey(r, n)
  BY <1>0, <1>1 DEF RowsKeep, Keyed
<1>3. ASSUME NEW i \in DOMAIN work', NEW j \in DOMAIN work',
             work'[i].key = work'[j].key, work'[i].key # NoKey
      PROVE  i = j
  <2>1. ASSUME NEW n \in DOMAIN work' \ DOMAIN work, NEW m \in DOMAIN work,
               work'[n].key = work'[m].key, work'[n].key # NoKey
        PROVE  FALSE
    BY <1>0, <2>1, Births DEF Born, KeyTaken, RowsKeep
  <2>2. CASE i \in DOMAIN work /\ j \in DOMAIN work
    BY <1>0, <1>3, <2>2 DEF RowsKeep, Keyed
  <2>3. CASE i \notin DOMAIN work /\ j \notin DOMAIN work
    BY <2>3, Births DEF Born
  <2> QED BY <1>3, <2>1, <2>2, <2>3
<1>4. ASSUME NEW r \in Requests, agentRuns'[r] # 0
      PROVE  \E i \in DOMAIN work' : work'[i].job = Delivery(r)
  <2>1. \E i \in DOMAIN work : work[i].job = Delivery(r)
    <3>1. ASSUME NEW w \in Workers, RunAgent(w)
          PROVE  agentRuns[r] # 0 \/ (JobOf(w) = Delivery(r) /\ worker[w].unit \in DOMAIN work)
      <4>1. /\ agentRuns' = [agentRuns EXCEPT ![RunOf(w)] = @ + 1]
            /\ worker[w].pc = "running" /\ runner[w].pc = "engine"
        BY <3>1 DEF RunAgent, RunnerAt, RunOf
      <4>2. PICK s \in Requests : JobOf(w) = Delivery(s)
        BY <4>1 DEF Fits, RunnerFits, DeliverySteps, IsDelivery
      <4>3. RunOf(w) = s /\ worker[w].unit \in DOMAIN work
        <5>1. Delivery(s).run = s
          BY DeliveryIs
        <5> QED BY <1>0, <4>1, <4>2, <5>1 DEF RunOf, HeldKnown, Known
      <4> QED BY <1>0, <1>4, <4>1, <4>2, <4>3
    <3>2. ASSUME ~\E w \in Workers : RunAgent(w) PROVE UNCHANGED agentRuns
      <4>1. ASSUME NEW w \in Workers, RunnerStep(w) PROVE UNCHANGED agentRuns
        BY <3>2, <4>1
           DEF RunnerStep, PoolAlone, pipelineVars, EnterRunner, StartDelivery, SetWorkFor,
               NeverBegan, LeaveAgent, SettleDelivery, RunnerAnnounce, PostCallback,
               RetryCallback, LeaveRunner, PanicInAgent
      <4> QED BY <4>1, Unjudged
    <3>3. CASE agentRuns[r] # 0
      BY <3>3 DEF Keyed
    <3> QED BY <1>4, <3>1, <3>2, <3>3 DEF JobOf
  <2> QED BY <1>0, <2>1 DEF RowsKeep
<1> QED BY <1>2, <1>3, <1>4 DEF Keyed

LEMMA KeysHold == PSpec => []Keyed
<1>1. PInit => Keyed
  BY DEF PInit, Init, Keyed
<1>2. Fits /\ Keyed /\ [PNext]_allVars => Keyed'
  BY KeyedStep
<1> QED BY <1>1, <1>2, Fitting, PTL DEF PSpec

\* Whoever has been answered is gone, and the row it was answered from is settled.
StandsFor(r) ==
    answer[r] # "none" => /\ door[r].pc = "gone" /\ answer[r] \in Ledger!Terminal
                          /\ ledger[door[r].from] = answer[r]
Stands == \A r \in Requests : StandsFor(r)

LEMMA StandsStep == ASSUME Fits, Stands, [PNext]_allVars PROVE Stands'
<1>0. /\ ledger \in [Requests -> LedgerStates]
      /\ door \in [Requests -> [pc : DoorPCs, from : Requests]]
      /\ answer \in [Requests -> Answered]
  BY TypedParts DEF Fits, DoorTyped
<1>k. \A r \in Requests : ledger[r] \in Ledger!Terminal => ledger'[r] = ledger[r]
  BY <1>0, LedgerSteps, LedgerKeeps
<1>1. ASSUME NEW r \in Requests, answer'[r] = answer[r],
             answer[r] # "none" => door'[r].pc = "gone" /\ door'[r].from = door[r].from
      PROVE  StandsFor(r)'
  BY <1>0, <1>k, <1>1 DEF Stands, StandsFor
<1>2. ASSUME NEW r \in Requests, DoorStep(r) PROVE \A s \in Requests : StandsFor(s)'
  <2>1. \A s \in Requests \ {r} : answer'[s] = answer[s] /\ door'[s] = door[s]
    BY <1>0, <1>2
       DEF DoorStep, LookUpKey, AcceptRun, Refuse, CountWaiting, RecordQueued, EnqueueDelivery,
           EnqueueDuplicate, DoorAnnounce, AnswerRun, HangUp, DoorGoes
  <2>2. \A s \in Requests \ {r} : StandsFor(s)'
    <3> SUFFICES ASSUME NEW s \in Requests \ {r} PROVE StandsFor(s)'
      OBVIOUS
    <3>1. answer[s] # "none" => door'[s].pc = "gone" /\ door'[s].from = door[s].from
      BY <2>1 DEF Stands, StandsFor
    <3> QED BY <1>1, <2>1, <3>1
  <2>3. answer[r] = "none"
    BY <1>2 DEF DoorStep, LookUpKey, AcceptRun, Refuse, CountWaiting, RecordQueued, EnqueueDelivery,
           EnqueueDuplicate, DoorAnnounce, AnswerRun, HangUp, AtDoor, Stands, StandsFor
  <2>4. ASSUME DoorAnnounce(r) PROVE StandsFor(r)'
    <3>1. ledger[r] \in Ledger!Terminal /\ UNCHANGED ledger
      BY <2>4 DEF DoorAnnounce, AtDoor, Fits, DoorFits
    <3>2. CASE door[r].from = r
      <4>1. answer'[r] = ledger[r] /\ door'[r].pc = "gone" /\ door'[r].from = r
        BY <1>0, <2>4, <3>2 DEF DoorAnnounce, DoorGoes
      <4> QED BY <3>1, <4>1 DEF StandsFor
    <3>3. CASE door[r].from # r
      <4>1. answer'[r] = "none"
        BY <1>0, <2>3, <2>4, <3>3 DEF DoorAnnounce
      <4> QED BY <4>1 DEF StandsFor
    <3> QED BY <3>2, <3>3
  <2>5. ASSUME AnswerRun(r) PROVE StandsFor(r)'
    <3>1. /\ answer' = [answer EXCEPT ![r] = ledger[door[r].from]] /\ UNCHANGED ledger
          /\ door' = [door EXCEPT ![r].pc = "gone"]
          /\ ledger[door[r].from] \notin Ledger!LiveRun
      BY <2>5 DEF AnswerRun, DoorGoes
    <3>2. ledger[door[r].from] \in Answered
      BY <1>0, <3>1 DEF LedgerStates, Answered
    <3>3. answer'[r] = ledger[door[r].from] /\ door'[r].pc = "gone" /\ door'[r].from = door[r].from
      BY <1>0, <3>1
    <3> QED BY <3>1, <3>2, <3>3 DEF Answered, StandsFor
  <2>6. ASSUME \/ LookUpKey(r) \/ AcceptRun(r) \/ Refuse(r) \/ CountWaiting(r) \/ RecordQueued(r)
               \/ EnqueueDelivery(r) \/ EnqueueDuplicate(r) \/ HangUp(r)
        PROVE  StandsFor(r)'
    <3>1. UNCHANGED answer
      BY <2>6 DEF LookUpKey, AcceptRun, Refuse, CountWaiting, RecordQueued, EnqueueDelivery,
           EnqueueDuplicate, HangUp
    <3> QED BY <2>3, <3>1 DEF StandsFor
  <2> QED BY <1>2, <2>2, <2>4, <2>5, <2>6 DEF DoorStep
<1>3. ASSUME ProcessEnds PROVE \A r \in Requests : StandsFor(r)'
  <2>1. UNCHANGED answer /\ \A r \in Requests : door'[r].from = door[r].from
                                                /\ (door[r].pc # "new" => door'[r].pc = "gone")
    BY <1>0, <1>3 DEF ProcessEnds, AtDoor
  <2>2. \A r \in Requests : answer[r] # "none" => door'[r].pc = "gone" /\ door'[r].from = door[r].from
    BY <2>1 DEF Stands, StandsFor
  <2> QED BY <1>1, <2>1, <2>2
<1>4. ASSUME \/ UNCHANGED allVars \/ (\E w \in Workers : RunnerStep(w))
             \/ (\E c \in Chats : TurnStep(c)) \/ CancelStep \/ BootPool \/ Bootstrap \/ Shutdown
      PROVE  \A r \in Requests : StandsFor(r)'
  <2>1. UNCHANGED <<door, answer>>
    BY <1>4 DEF allVars, pipelineVars, RunnerStep, PoolAlone, EnterRunner, StartDelivery, SetWorkFor,
              NeverBegan, RunAgent, LeaveAgent, SettleDelivery, RunnerAnnounce, PostCallback,
              RetryCallback, LeaveRunner, PanicInAgent, TurnStep, LatchTurn, TakeLane, LaneUnread,
              LaneTaken, ReleaseLane, Unlatch, CancelStep, KillUnit, InterruptRun, SettleCancelled,
              AnnounceCancelled, BootPool, Bootstrap, Shutdown
  <2>2. \A r \in Requests : answer[r] # "none" => door'[r].pc = "gone" /\ door'[r].from = door[r].from
    BY <2>1 DEF Stands, StandsFor
  <2> QED BY <1>1, <2>1, <2>2
<1>5. \A r \in Requests : StandsFor(r)'
  <2> QED BY <1>2, <1>3, <1>4 DEF PNext
<1> QED BY <1>5 DEF Stands

LEMMA AnswersStand == PSpec => []Stands
<1>1. PInit => Stands
  BY DEF PInit, Stands, StandsFor
<1>2. Fits /\ Stands /\ [PNext]_allVars => Stands'
  BY StandsStep
<1> QED BY <1>1, <1>2, Fitting, PTL DEF PSpec

\* Of all deliveries under a key one reaches its agent, once, and what a caller was
\* told stays true, over races at the door, cancels, crashes and restarts
\* (inlet_handlers.go handleInletDelivery, answerRun; work.go Enqueue).
THEOREM KeyHasOneAnswer == PSpec => []OneAnswerPerKey
<1>1. Fits /\ Keyed /\ Progress => AgentOncePerKey
  <2> SUFFICES ASSUME Fits, Keyed, Progress, NEW r \in Requests, NEW s \in Requests
               PROVE  /\ agentRuns[r] <= 1
                      /\ agentRuns[r] + agentRuns[s] > 1 /\ r # s =>
                            KeyOf[r] = NoKey \/ KeyOf[r] # KeyOf[s]
    BY DEF AgentOncePerKey
  <2>1. /\ agentRuns[r] \in Nat /\ agentRuns[r] <= 1
        /\ agentRuns[s] \in Nat /\ agentRuns[s] <= 1
    BY TypedParts DEF Fits, RunnerTyped, Progress
  <2>2. ASSUME agentRuns[r] # 0, agentRuns[s] # 0, KeyOf[r] # NoKey, KeyOf[r] = KeyOf[s]
        PROVE  r = s
    <3>1. PICK i \in DOMAIN work : work[i].job = Delivery(r)
      BY <2>2 DEF Keyed
    <3>2. PICK j \in DOMAIN work : work[j].job = Delivery(s)
      BY <2>2 DEF Keyed
    <3>3. i = j
      BY <2>2, <3>1, <3>2 DEF Keyed
    <3>4. Delivery(r) = Delivery(s)
      BY <3>1, <3>2, <3>3
    <3> QED BY <3>4, JobsDiffer
  <2>3. agentRuns[r] + agentRuns[s] > 1 => agentRuns[r] # 0 /\ agentRuns[s] # 0
    BY <2>1
  <2> QED BY <2>1, <2>2, <2>3
<1>2. Stands => AnswerStands
  BY DEF Stands, StandsFor, AnswerStands
<1>3. AgentOncePerKey /\ AnswerStands => OneAnswerPerKey
  BY DEF OneAnswerPerKey
<1> QED BY <1>1, <1>2, <1>3, Fitting, KeysHold, Progresses, AnswersStand, PTL

------------------------------------------------------------------------------
(* Attempts to tell a listener.  The next one is queued by whoever is past the *)
(* POST of the one before it, so of two the earlier has no POST ahead.         *)

Chained ==
    /\ \A r \in Requests, n \in Tries, i \in DOMAIN work : work[i].job = Callback(r, n) =>
          \A m \in Tries : m < n => \E j \in DOMAIN work : work[j].job = Callback(r, m)
    /\ \A r \in Requests, m, n \in Tries, i, j \in DOMAIN work :
          work[i].job = Callback(r, m) /\ work[j].job = Callback(r, n) /\ m < n
          => ~PostAhead(i)

\* A worker that has just claimed a unit after the step had just claimed it before,
\* or claims it in the step.
LEMMA ClaimedKeep ==
    ASSUME TypeOK, QueuePart, NEW w \in Workers, worker'[w].pc = "claimed"
    PROVE  \/ worker[w].pc = "claimed" /\ worker'[w].unit = worker[w].unit
           \/ \E i \in Ids : Claim(w, i) /\ worker'[w].unit = i
<1>1. CASE UNCHANGED worker
  BY <1>1
<1>2. CASE Stop
  BY <1>2 DEF Stop, TypeOK
<1>3. CASE Exit \/ Crash
  BY <1>3 DEF Exit, Crash, Forgotten, IdleWorker
<1>4. ASSUME NEW v \in Workers, NEW i \in Ids, Claim(v, i)
      PROVE  \/ worker[w].pc = "claimed" /\ worker'[w].unit = worker[w].unit
             \/ \E j \in Ids : Claim(w, j) /\ worker'[w].unit = j
  BY <1>4 DEF Claim, TypeOK
<1>5. ASSUME NEW v \in Workers,
             Register(v) \/ Return(v) \/ Panic(v) \/ SettleUnit(v) \/ Unregister(v)
      PROVE  worker[w].pc = "claimed" /\ worker'[w].unit = worker[w].unit
  BY <1>5 DEF Register, Return, Panic, SettleUnit, AfterSettle, Unregister, IdleWorker, TypeOK
<1>6. ASSUME NEW i \in Ids, CancelRunning(i)
      PROVE  worker[w].pc = "claimed" /\ worker'[w].unit = worker[w].unit
  BY <1>6 DEF CancelRunning, TypeOK
<1>7. ASSUME UNCHANGED vars \/ Start \/ (\E i \in Ids : \E l, k, j, t : Enqueue(i, l, k, j, t))
               \/ (\E i \in Ids, c \in Chats : \/ ChatClaim(c, i, WS, ChatJob)
                                              \/ ChatClaimUnread(c, i, WS, ChatJob))
               \/ (\E c \in Chats : ChatSettle(c)) \/ (\E i \in Ids : Kill(i))
      PROVE  UNCHANGED worker
  BY <1>7 DEF vars, Start, Enqueue, ChatClaim, ChatClaimUnread, ChatSettle, Kill, volatile
<1> QED BY <1>1, <1>2, <1>3, <1>4, <1>5, <1>6, <1>7 DEF QueuePart

\* No step puts a POST ahead of a unit that had none.
LEMMA AheadKeeps ==
    ASSUME Fits, [PNext]_allVars, NEW i \in DOMAIN work, PostAhead(i)'
    PROVE  PostAhead(i)
<1>0. RowsKeep /\ QueuePart /\ TypeOK
      /\ runner \in [Workers -> [pc : RunnerPCs, verdict : Verdicts \cup {"none"}]]
  BY QueueSteps, QueueKeeps, TypedParts DEF Fits, TypeOK, RowsOK, RunnerTyped
<1>1. CASE work'[i].state = "queued"
  BY <1>0, <1>1 DEF RowsKeep, PostAhead
<1>2. ASSUME NEW w \in Workers, Claim(w, i) PROVE PostAhead(i)
  BY <1>2 DEF Claim, Claimable, InState, PostAhead
<1>3. ASSUME NEW w \in Workers, worker[w].pc = "claimed", worker[w].unit = i PROVE PostAhead(i)
  BY <1>3 DEF PostAhead, Executing
<1>4. ASSUME NEW w \in Workers, RunnerAt(w, "post"), worker[w].unit = i PROVE PostAhead(i)
  BY <1>4 DEF PostAhead, Executing, RunnerAt
<1>5. ASSUME NEW w \in Workers, worker'[w].unit = i, worker'[w].pc = "claimed" PROVE PostAhead(i)
  <2>1. CASE worker[w].pc = "claimed" /\ worker'[w].unit = worker[w].unit
    BY <1>3, <1>5, <2>1
  <2>2. ASSUME NEW j \in Ids, Claim(w, j), worker'[w].unit = j PROVE PostAhead(i)
    BY <1>2, <1>5, <2>2
  <2> QED BY <1>0, <1>5, <2>1, <2>2, ClaimedKeep
<1>6. ASSUME NEW w \in Workers, worker'[w].unit = i, RunnerAt(w, "post")' PROVE PostAhead(i)
  <2>0. worker'[w].pc = "running" /\ runner'[w].pc = "post"
    BY <1>6 DEF RunnerAt
  <2>1. CASE Same(w)
    <3>1. RunnerAt(w, "post") /\ worker[w].unit = i
      BY <1>6, <2>0, <2>1 DEF Same, RunnerAt
    <3> QED BY <1>4, <3>1
  <2>2. CASE RunnerStep(w)
    <3>1. CASE EnterRunner(w)
      <4>1. worker[w].pc = "claimed" /\ worker[w].unit = i
        BY <1>0, <1>6, <3>1, RegisterKeeps DEF EnterRunner
      <4> QED BY <1>3, <4>1
    <3>2. CASE PoolAlone(w) \/ LeaveRunner(w) \/ PanicInAgent(w)
      BY <1>0, <2>0, <3>2, PoolKeeps DEF PoolAlone, LeaveRunner, PanicInAgent
    <3>3. CASE \/ StartDelivery(w) \/ SetWorkFor(w) \/ NeverBegan(w) \/ RunAgent(w)
               \/ (\E v \in Verdicts : LeaveAgent(w, v)) \/ SettleDelivery(w) \/ RunnerAnnounce(w)
               \/ PostCallback(w) \/ RetryCallback(w)
      BY <1>0, <2>0, <3>3
         DEF StartDelivery, SetWorkFor, NeverBegan, RunAgent, LeaveAgent, SettleDelivery,
             RunnerAnnounce, PostCallback, RetryCallback, RunnerGoes, RunnerHas
    <3> QED BY <2>2, <3>1, <3>2, <3>3 DEF RunnerStep
  <2> QED BY <2>1, <2>2, Others
<1>7. CASE \E w \in Workers : worker'[w].unit = i /\ (worker'[w].pc = "claimed" \/ RunnerAt(w, "post")')
  BY <1>5, <1>6, <1>7
<1> QED BY <1>1, <1>7 DEF PostAhead, Executing

\* What a retry is about has no POST ahead.
LEMMA RetriedIsPosted ==
    ASSUME Fits, NEW w \in Workers, RunnerAt(w, "retry")
    PROVE  ~PostAhead(worker[w].unit)
<1>1. /\ worker[w].pc = "running" /\ runner[w].pc = "retry"
      /\ UnitHeldOnce /\ InHand
  BY DEF RunnerAt, Fits, IInv, Hands
<1>2. work[worker[w].unit].state # "queued"
  BY <1>1 DEF InHand, Unsettled
<1>3. \A v \in Executing : worker[v].unit = worker[w].unit => v = w
  BY <1>1 DEF UnitHeldOnce, Executing
<1> QED BY <1>1, <1>2, <1>3 DEF PostAhead, RunnerAt

\* What is below the next attempt is the attempt at hand or one before it.
LEMMA OneBefore ==
    ASSUME NEW w, JobOf(w).try \in Tries, NEW m \in Tries, m < NextTry(w)
    PROVE  m = JobOf(w).try \/ m < JobOf(w).try
<1>1. PICK t \in Tries : t = JobOf(w).try
  OBVIOUS
<1>2. m < t + 1
  BY <1>1 DEF NextTry
<1>3. m \in Nat /\ t \in Nat
  BY DEF Tries
<1>4. m = t \/ m < t
  BY <1>2, <1>3
<1> QED BY <1>1, <1>4

LEMMA ChainedStep == ASSUME Fits, Keyed, Chained, [PNext]_allVars PROVE Chained'
<1>0. RowsKeep /\ Keyed'
  BY QueueSteps, QueueKeeps, KeyedStep DEF Fits, PTypeOK, TypeOK, RowsOK
<1>t. Tries \subseteq Nat
  BY DEF Tries
\* A row that is new is the first attempt, or the one after a retry's.
<1>1. ASSUME NEW i \in DOMAIN work' \ DOMAIN work, NEW r \in Requests, NEW n \in Tries,
             work'[i].job = Callback(r, n)
      PROVE  /\ DOMAIN work' = DOMAIN work \cup {i}
             /\ \A j \in DOMAIN work : work[j].job # Callback(r, n)
             /\ \/ n = 0
                \/ \E w \in Workers : /\ RunnerAt(w, "retry") /\ RunOf(w) = r
                                      /\ n = NextTry(w)
  <2>1. Born(i)
    BY Births
  <2>2. \A j \in DOMAIN work : work[j].job # Callback(r, n)
    <3> SUFFICES ASSUME NEW j \in DOMAIN work, work[j].job = Callback(r, n) PROVE FALSE
      OBVIOUS
    <3>1. work[j].key = CallbackKey(r, n) /\ work'[i].key = CallbackKey(r, n)
      BY <1>0, <1>1 DEF Keyed
    <3>2. CallbackKey(r, n) \in Keys /\ NoKey \notin Keys
      BY PipelineConstants, QueueConstants
    <3>3. CallbackKey(r, n) # NoKey
      BY <3>2
    <3>4. ~KeyTaken(CallbackKey(r, n))
      BY <2>1, <3>1 DEF Born
    <3>5. KeyTaken(CallbackKey(r, n))
      BY <3>1, <3>3 DEF KeyTaken
    <3> QED BY <3>4, <3>5
  <2>3. CASE BornClaimed(i)
    <3>1. Callback(r, n) = ChatJob
      BY <1>1, <2>3 DEF BornClaimed
    <3> QED BY <3>1, JobsDiffer
  <2>4. ASSUME NEW s \in Requests, work'[i].job = Delivery(s) PROVE FALSE
    <3>1. Delivery(s) = Callback(r, n)
      BY <1>1, <2>4
    <3> QED BY <3>1, JobsDiffer
  <2>5. ASSUME NEW s \in Requests, work'[i].job = Callback(s, 0) PROVE n = 0
    <3>1. Callback(s, 0) = Callback(r, n)
      BY <1>1, <2>5
    <3> QED BY <3>1, CallbackSame
  <2>6. ASSUME NEW w \in Workers, RunnerAt(w, "retry"),
               work'[i].job = Callback(RunOf(w), NextTry(w))
        PROVE  RunOf(w) = r /\ n = NextTry(w)
    <3>1. Callback(RunOf(w), NextTry(w)) = Callback(r, n)
      BY <1>1, <2>6
    <3> QED BY <3>1, CallbackSame
  <2> QED BY <2>1, <2>2, <2>3, <2>4, <2>5, <2>6 DEF Born, BornWaiting
\* The unit a retry is about, and those before it, are there.
<1>2. ASSUME NEW w \in Workers, RunnerAt(w, "retry"), NEW m \in Tries, m < NextTry(w)
      PROVE  \E j \in DOMAIN work : work[j].job = Callback(RunOf(w), m)
  <2>1. /\ RunOf(w) \in Requests /\ JobOf(w).try \in Tries
        /\ work[worker[w].unit].job = Callback(RunOf(w), JobOf(w).try)
        /\ worker[w].unit \in DOMAIN work
    BY <1>2, RetryFacts DEF JobOf
  <2>2. CASE m = JobOf(w).try
    BY <2>1, <2>2
  <2>3. CASE m < JobOf(w).try
    BY <2>1, <2>3 DEF Chained
  <2>4. m = JobOf(w).try \/ m < JobOf(w).try
    BY <1>2, <2>1, OneBefore
  <2> QED BY <2>2, <2>3, <2>4
<1>3. ASSUME NEW r \in Requests, NEW n \in Tries, NEW i \in DOMAIN work', work'[i].job = Callback(r, n),
             NEW m \in Tries, m < n
      PROVE  \E j \in DOMAIN work' : work'[j].job = Callback(r, m)
  <2>1. \E j \in DOMAIN work : work[j].job = Callback(r, m)
    <3>1. CASE i \in DOMAIN work
      BY <1>0, <1>3, <3>1 DEF RowsKeep, Chained
    <3>2. CASE i \notin DOMAIN work
      <4>1. n # 0
        BY <1>3, <1>t
      <4>a. i \in DOMAIN work' \ DOMAIN work
        BY <3>2
      <4>b. \/ n = 0
            \/ \E w \in Workers : RunnerAt(w, "retry") /\ RunOf(w) = r /\ n = NextTry(w)
        BY <1>1, <1>3, <4>a
      <4>2. PICK w \in Workers : RunnerAt(w, "retry") /\ RunOf(w) = r /\ n = NextTry(w)
        BY <4>1, <4>b
      <4>3. \E j \in DOMAIN work : work[j].job = Callback(RunOf(w), m)
        BY <1>2, <1>3, <4>2
      <4> QED BY <4>2, <4>3
    <3> QED BY <3>1, <3>2
  <2> QED BY <1>0, <2>1 DEF RowsKeep
<1>4. ASSUME NEW r \in Requests, NEW m \in Tries, NEW n \in Tries, NEW i \in DOMAIN work', NEW j \in DOMAIN work',
             work'[i].job = Callback(r, m), work'[j].job = Callback(r, n), m < n
      PROVE  ~PostAhead(i)'
  <2>0. n # 0
    BY <1>4, <1>t
  <2>1. i \in DOMAIN work
    <3> SUFFICES ASSUME i \notin DOMAIN work PROVE FALSE
      OBVIOUS
    <3>1. j \in DOMAIN work
      <4>1. DOMAIN work' = DOMAIN work \cup {i}
        BY <1>1, <1>4
      <4>2. Callback(r, m) # Callback(r, n)
        <5>1. m # n
          BY <1>4, <1>t
        <5> QED BY <5>1, CallbackSame
      <4>3. i # j
        BY <1>4, <4>2
      <4> QED BY <4>1, <4>3
    <3>2. work[j].job = Callback(r, n)
      BY <1>0, <1>4, <3>1 DEF RowsKeep
    <3>3. \E k \in DOMAIN work : work[k].job = Callback(r, m)
      BY <1>4, <3>1, <3>2 DEF Chained
    <3> QED BY <1>1, <1>4, <3>3
  <2>2. work[i].job = Callback(r, m)
    BY <1>0, <1>4, <2>1 DEF RowsKeep
  <2>3. ~PostAhead(i)
    <3>1. CASE j \in DOMAIN work
      BY <1>0, <1>4, <2>1, <2>2, <3>1 DEF RowsKeep, Chained
    <3>2. CASE j \notin DOMAIN work
      <4>a. j \in DOMAIN work' \ DOMAIN work
        BY <3>2
      <4>b. \/ n = 0
            \/ \E w \in Workers : RunnerAt(w, "retry") /\ RunOf(w) = r /\ n = NextTry(w)
        BY <1>1, <1>4, <4>a
      <4>1. PICK w \in Workers : RunnerAt(w, "retry") /\ RunOf(w) = r /\ n = NextTry(w)
        BY <2>0, <4>b
      <4>2. /\ JobOf(w).try \in Tries
            /\ work[worker[w].unit].job = Callback(r, JobOf(w).try)
            /\ worker[w].unit \in DOMAIN work
        BY <4>1, RetryFacts DEF JobOf
      <4>3. m = JobOf(w).try \/ m < JobOf(w).try
        BY <1>4, <4>1, <4>2, OneBefore
      <4>4. CASE m < JobOf(w).try
        BY <2>1, <2>2, <4>2, <4>4 DEF Chained
      <4>5. CASE m = JobOf(w).try
        <5>1. work[i].key = CallbackKey(r, m) /\ work[worker[w].unit].key = CallbackKey(r, m)
          BY <2>1, <2>2, <4>2, <4>5 DEF Keyed
        <5>2. CallbackKey(r, m) \in Keys /\ NoKey \notin Keys
          BY PipelineConstants, QueueConstants
        <5>3. CallbackKey(r, m) # NoKey
          BY <5>2
        <5>4. i = worker[w].unit
          BY <2>1, <4>2, <5>1, <5>3 DEF Keyed
        <5> QED BY <4>1, <5>4, RetriedIsPosted
      <4> QED BY <4>3, <4>4, <4>5
    <3> QED BY <3>1, <3>2
  <2> QED BY <2>1, <2>3, AheadKeeps
<1> QED BY <1>3, <1>4 DEF Chained

LEMMA Chaining == PSpec => []Chained
<1>1. PInit => Chained
  BY DEF PInit, Init, Chained
<1>2. Fits /\ Keyed /\ Chained /\ [PNext]_allVars => Chained'
  BY ChainedStep
<1> QED BY <1>1, <1>2, Fitting, KeysHold, PTL DEF PSpec

\* Of the attempts to tell a listener at most one has its POST ahead of it, over
\* everybody who settles, cancels, retries, crashes and restarts (callback.go
\* enqueueCallback, runCallback).
THEOREM OneToldAtATime == PSpec => []OneAttemptAhead
<1>1. Fits /\ Keyed /\ Chained => OneAttemptAhead
  <2> SUFFICES ASSUME Fits, Keyed, Chained, NEW i \in DOMAIN work, NEW j \in DOMAIN work,
                      work[i].job.kind = "callback", work[j].job.kind = "callback",
                      work[i].job.run = work[j].job.run, PostAhead(i), PostAhead(j)
               PROVE  i = j
    BY DEF OneAttemptAhead
  <2>1. ASSUME NEW k \in DOMAIN work, work[k].job.kind = "callback"
        PROVE  \E r \in Requests, n \in Tries : work[k].job = Callback(r, n)
    <3>1. work[k].job \in Jobs
      BY TypedParts DEF Fits, TypeOK, Row
    <3>2. ChatJob.kind = "chat"
      BY DEF ChatJob
    <3> QED BY <2>1, <3>1, <3>2, JobFacts DEF IsCallback
  <2>2. PICK r \in Requests, m \in Tries : work[i].job = Callback(r, m)
    BY <2>1
  <2>3. PICK s \in Requests, n \in Tries : work[j].job = Callback(s, n)
    BY <2>1
  <2>4. r = s
    <3>1. Callback(r, m).run = r /\ Callback(s, n).run = s
      BY CallbackIs
    <3>2. work[i].job.run = work[j].job.run
      OBVIOUS
    <3> QED BY <2>2, <2>3, <3>1, <3>2
  <2>5. ~(m < n) /\ ~(n < m)
    BY <2>2, <2>3, <2>4 DEF Chained
  <2>6. m = n
    BY <2>5 DEF Tries
  <2>7. work[i].key = CallbackKey(r, m) /\ work[j].key = CallbackKey(r, m)
    BY <2>2, <2>3, <2>4, <2>6 DEF Keyed
  <2>8. CallbackKey(r, m) \in Keys /\ NoKey \notin Keys
    BY PipelineConstants, QueueConstants
  <2>9. CallbackKey(r, m) # NoKey
    BY <2>8
  <2> QED BY <2>7, <2>9 DEF Keyed
<1> QED BY <1>1, Fitting, KeysHold, Chaining, PTL

\* A runner that announces has a delivery of a request.
LEMMA AnnouncedRun ==
    ASSUME Fits, NEW w \in Workers, RunnerAnnounce(w) PROVE JobOf(w).run \in Requests
BY JobFacts DEF RunnerAnnounce, RunnerAt, Fits, RunnerFits, DeliverySteps

\* Nobody but the handlers moves what a request's handler is at, but for the end of
\* the process.
LEMMA DoorAlone ==
    ASSUME \/ UNCHANGED allVars \/ (\E w \in Workers : RunnerStep(w))
           \/ (\E c \in Chats : TurnStep(c)) \/ CancelStep \/ BootPool \/ Bootstrap \/ Shutdown
    PROVE  UNCHANGED <<door, answer>>
BY DEF allVars, pipelineVars, RunnerStep, PoolAlone, EnterRunner, StartDelivery, SetWorkFor,
       NeverBegan, RunAgent, LeaveAgent, SettleDelivery, RunnerAnnounce, PostCallback,
       RetryCallback, LeaveRunner, PanicInAgent, TurnStep, LatchTurn, TakeLane, LaneUnread,
       LaneTaken, ReleaseLane, Unlatch, CancelStep, KillUnit, InterruptRun, SettleCancelled,
       AnnounceCancelled, BootPool, Bootstrap, Shutdown

\* What a cancel is still to tell it goes on being, until it tells it.
LEMMA TellingKeeps ==
    ASSUME [PNext]_allVars, ~ProcessEnds, NEW r \in telling, ~AnnounceCancelled(r)
    PROVE  r \in telling'
<1>1. ASSUME NEW s \in Requests, AnnounceCancelled(s) PROVE r \in telling'
  BY <1>1 DEF AnnounceCancelled
<1>2. ASSUME NEW i \in Ids, SettleCancelled(i) PROVE r \in telling'
  BY <1>2 DEF SettleCancelled
<1>3. ASSUME \/ UNCHANGED allVars \/ (\E s \in Requests : DoorStep(s))
             \/ (\E w \in Workers : RunnerStep(w)) \/ (\E c \in Chats : TurnStep(c))
             \/ (\E i \in Ids : KillUnit(i) \/ InterruptRun(i)) \/ BootPool \/ Bootstrap \/ Shutdown
      PROVE  UNCHANGED telling
  BY <1>3 DEF allVars, pipelineVars, cancelVars, DoorStep, LookUpKey, AcceptRun, Refuse, CountWaiting,
              RecordQueued, EnqueueDelivery, EnqueueDuplicate, DoorAnnounce, AnswerRun, HangUp,
              RunnerStep, PoolAlone, EnterRunner, StartDelivery, SetWorkFor,
              NeverBegan, RunAgent, LeaveAgent, SettleDelivery, RunnerAnnounce, PostCallback,
              RetryCallback, LeaveRunner, PanicInAgent, TurnStep, LatchTurn, TakeLane, LaneUnread,
              LaneTaken, ReleaseLane, Unlatch, KillUnit, InterruptRun, BootPool, Bootstrap, Shutdown
<1> QED BY <1>1, <1>2, <1>3 DEF PNext, CancelStep

------------------------------------------------------------------------------
(* A process that stays up.  What a boot settles is announced to nobody, and   *)
(* what a crash interrupts is carried by nobody until then, so what follows is *)
(* about steps that end no process: the one boot there is finds an empty ledger. *)

Unserved ==
    /\ serving => proc # "down"
    /\ ~serving => \A r \in Requests : ledger[r] = "none" /\ door[r].pc = "new"

\* The process does not end in the step.
GoesOn == ~Shutdown /\ ~ProcessEnds

LEMMA NeverEnds == ASSUME ~Crashes PROVE GoesOn
BY DEF GoesOn, Shutdown, ProcessEnds

\* Only a boot brings the process up, and only its second half lets it serve.
LEMMA ProcKept ==
    ASSUME GoesOn, Fits, [PNext]_allVars, ~Bootstrap, ~BootPool
    PROVE  UNCHANGED <<proc, serving>>
<1>1. ASSUME NEW r \in Requests, Announce(r) PROVE UNCHANGED proc
  BY <1>1 DEF Announce, Enqueue, vars
<1>2. ASSUME NEW r \in Requests, DoorStep(r) PROVE UNCHANGED <<proc, serving>>
  BY <1>1, <1>2
     DEF DoorStep, LookUpKey, AcceptRun, Refuse, CountWaiting, RecordQueued, EnqueueDelivery,
         EnqueueDuplicate, DoorAnnounce, AnswerRun, HangUp, Enqueue, vars
<1>3. ASSUME NEW w \in Workers, RunnerStep(w) PROVE UNCHANGED <<proc, serving>>
  <2>1. CASE RunnerAnnounce(w)
    BY <2>1, AnnouncedRun, <1>1 DEF RunnerAnnounce
  <2>2. CASE PoolAlone(w) \/ EnterRunner(w) \/ LeaveRunner(w) \/ PanicInAgent(w) \/ RetryCallback(w)
    BY <2>2 DEF PoolAlone, EnterRunner, LeaveRunner, PanicInAgent, RetryCallback, Claim, Register,
                Return, Panic, SettleUnit, Unregister, Enqueue, pipelineVars
  <2> QED BY <1>3, <2>1, <2>2
       DEF RunnerStep, StartDelivery, SetWorkFor, NeverBegan, RunAgent, LeaveAgent, SettleDelivery,
           PostCallback, vars
<1>4. ASSUME NEW c \in Chats, TurnStep(c) PROVE UNCHANGED <<proc, serving>>
  BY <1>4 DEF TurnStep, LatchTurn, TakeLane, LaneUnread, LaneTaken, ReleaseLane, Unlatch,
              ChatClaim, ChatClaimUnread, ChatSettle, vars
<1>5. CASE CancelStep
  BY <1>1, <1>5 DEF CancelStep, KillUnit, Kill, InterruptRun, CancelRunning, SettleCancelled,
              AnnounceCancelled, vars, pipelineVars
<1>6. CASE UNCHANGED allVars
  BY <1>6 DEF allVars, vars, pipelineVars
<1> QED BY <1>2, <1>3, <1>4, <1>5, <1>6 DEF PNext, GoesOn

LEMMA UnservedStep == ASSUME GoesOn, Fits, Unserved, [PNext]_allVars PROVE Unserved'
<1>0. ledger \in [Requests -> LedgerStates] /\ serving \in BOOLEAN
  BY TypedParts DEF Fits, EngineTyped
<1>1. ~Shutdown /\ ~ProcessEnds
  BY DEF GoesOn
<1>2. CASE Bootstrap
  BY <1>2 DEF Bootstrap, vars, Unserved
<1>3. CASE BootPool
  BY <1>3 DEF BootPool, Start, pipelineVars, engineVars, Unserved
<1>4. CASE ~Bootstrap /\ ~BootPool
  <2>1. UNCHANGED <<proc, serving>>
    BY <1>4, ProcKept
  <2>2. ASSUME ~serving PROVE \A r \in Requests : ledger'[r] = "none" /\ door'[r].pc = "new"
    <3>0. \A r \in Requests : ledger[r] = "none" /\ door[r].pc = "new"
      BY <2>2 DEF Unserved
    <3>1. ASSUME NEW s \in Requests, NEW outcome, Ledger!SettleOrLog(s, outcome) PROVE UNCHANGED ledger
      BY <3>0, <3>1 DEF Ledger!SettleOrLog, Ledger!LiveRun
    <3>2. ASSUME NEW s \in Requests, DoorStep(s) PROVE FALSE
      BY <2>2, <3>0, <3>2
         DEF DoorStep, LookUpKey, AcceptRun, Refuse, CountWaiting, RecordQueued, EnqueueDelivery,
             EnqueueDuplicate, DoorAnnounce, AnswerRun, HangUp, AtDoor
    <3>3. ASSUME NEW w \in Workers, RunnerStep(w) PROVE UNCHANGED <<ledger, door>>
      <4>1. CASE SettleDelivery(w)
        <5>1. JobOf(w).run \in Requests
          BY <4>1, JobFacts DEF SettleDelivery, RunnerAt, Fits, RunnerFits, DeliverySteps
        <5> QED BY <3>1, <4>1, <5>1 DEF SettleDelivery
      <4>2. CASE StartDelivery(w)
        <5>1. JobOf(w).run \in Requests
          BY <4>2, JobFacts DEF StartDelivery, RunnerAt, Fits, RunnerFits, DeliverySteps
        <5> QED BY <3>0, <4>2, <5>1 DEF StartDelivery, Ledger!StartRun, Ledger!Move
      <4> QED BY <3>3, <4>1, <4>2
           DEF RunnerStep, PoolAlone, pipelineVars, EnterRunner, SetWorkFor, NeverBegan, RunAgent,
               LeaveAgent, RunnerAnnounce, PostCallback, RetryCallback, LeaveRunner, PanicInAgent
    <3>4. ASSUME NEW i \in Ids, SettleCancelled(i) PROVE UNCHANGED <<ledger, door>>
      <4>1. work[i].job.run \in Requests
        BY <3>4, JobFacts DEF SettleCancelled, Fits, CancelFits
      <4> QED BY <3>1, <3>4, <4>1 DEF SettleCancelled
    <3>5. ASSUME \/ UNCHANGED allVars \/ (\E c \in Chats : TurnStep(c))
                 \/ (\E i \in Ids : KillUnit(i) \/ InterruptRun(i))
                 \/ (\E r \in Requests : AnnounceCancelled(r))
          PROVE  UNCHANGED <<ledger, door>>
      BY <3>5 DEF allVars, pipelineVars, TurnStep, LatchTurn, TakeLane, LaneUnread, LaneTaken,
                  ReleaseLane, Unlatch, KillUnit, InterruptRun, AnnounceCancelled
    <3>6. UNCHANGED <<ledger, door>>
      BY <1>1, <1>4, <3>2, <3>3, <3>4, <3>5 DEF PNext, CancelStep
    <3> QED BY <3>0, <3>6
  <2> QED BY <2>1, <2>2 DEF Unserved
<1> QED BY <1>2, <1>3, <1>4

LEMMA Unserving == ASSUME ~Crashes PROVE PSpec => []Unserved
<1>1. PInit => Unserved
  BY DEF PInit, Unserved
<1>2. Fits /\ Unserved /\ [PNext]_allVars => Unserved'
  BY UnservedStep, NeverEnds
<1> QED BY <1>1, <1>2, Fitting, PTL DEF PSpec

\* A worker that is not the one that steps stays where it is.
LEMMA Stays ==
    ASSUME Fits, [PNext]_allVars, ~ProcessEnds, NEW w \in Workers, ~RunnerStep(w)
    PROVE  /\ worker'[w].pc = worker[w].pc /\ worker'[w].unit = worker[w].unit
           /\ runner'[w] = runner[w]
<1>0. TypeOK /\ runner \in [Workers -> [pc : RunnerPCs, verdict : Verdicts \cup {"none"}]]
  BY TypedParts DEF Fits, RunnerTyped
<1>1. ASSUME UNCHANGED <<worker, runner>>
      PROVE  /\ worker'[w].pc = worker[w].pc /\ worker'[w].unit = worker[w].unit
             /\ runner'[w] = runner[w]
  BY <1>1
<1>2. ASSUME NEW v \in Workers \ {w}, RunnerStep(v)
      PROVE  worker'[w] = worker[w] /\ runner'[w] = runner[w]
  <2>1. CASE PoolAlone(v)
    BY <2>1, <1>0, PoolKeeps DEF PoolAlone, pipelineVars
  <2>2. CASE EnterRunner(v)
    BY <2>2, <1>0, RegisterKeeps DEF EnterRunner, RunnerGoes
  <2>3. CASE LeaveRunner(v) \/ PanicInAgent(v)
    BY <2>3, <1>0, PoolKeeps DEF LeaveRunner, PanicInAgent, RunnerHas
  <2>4. CASE RunnerAnnounce(v)
    BY <2>4, <1>0, AnnouncedRun, AnnounceStep DEF RunnerAnnounce, RunnerGoes
  <2>5. CASE RetryCallback(v)
    BY <2>5, <1>0 DEF RetryCallback, Enqueue, volatile, RunnerGoes
  <2> QED BY <1>0, <1>2, <2>1, <2>2, <2>3, <2>4, <2>5
      DEF RunnerStep, StartDelivery, SetWorkFor, NeverBegan, RunAgent, LeaveAgent,
          SettleDelivery, PostCallback, RunnerGoes, RunnerHas, vars
<1>3. ASSUME NEW r \in Requests, DoorStep(r) PROVE UNCHANGED <<worker, runner>>
  <2>1. CASE DoorAnnounce(r)
    BY <2>1, AnnounceStep DEF DoorAnnounce
  <2>2. CASE EnqueueDelivery(r)
    BY <2>2 DEF EnqueueDelivery, Enqueue, volatile
  <2> QED BY <1>3, <2>1, <2>2
      DEF DoorStep, LookUpKey, AcceptRun, Refuse, CountWaiting, RecordQueued, EnqueueDuplicate,
          AnswerRun, HangUp, vars
<1>4. ASSUME NEW c \in Chats, TurnStep(c) PROVE UNCHANGED <<worker, runner>>
  BY <1>4 DEF TurnStep, LatchTurn, TakeLane, LaneUnread, LaneTaken, ReleaseLane, Unlatch,
              ChatClaim, ChatClaimUnread, ChatSettle, vars, volatile
<1>5. CASE CancelStep
  <2>1. ASSUME NEW i \in Ids, InterruptRun(i)
        PROVE  /\ worker'[w].pc = worker[w].pc /\ worker'[w].unit = worker[w].unit
               /\ runner'[w] = runner[w]
    BY <1>0, <2>1 DEF InterruptRun, CancelRunning, TypeOK
  <2>2. ASSUME NEW i \in Ids, KillUnit(i) \/ SettleCancelled(i) PROVE UNCHANGED <<worker, runner>>
    BY <2>2 DEF KillUnit, Kill, SettleCancelled, vars, pipelineVars
  <2>3. ASSUME NEW r \in Requests, AnnounceCancelled(r) PROVE UNCHANGED <<worker, runner>>
    BY <2>3, AnnounceStep DEF AnnounceCancelled
  <2> QED BY <1>5, <1>1, <2>1, <2>2, <2>3 DEF CancelStep
<1>6. CASE BootPool \/ Bootstrap \/ UNCHANGED allVars
  BY <1>1, <1>6 DEF BootPool, Bootstrap, Start, volatile, pipelineVars, vars, allVars
<1>7. CASE Shutdown
  BY <1>0, <1>7 DEF Shutdown, Stop, TypeOK
<1> QED BY <1>1, <1>2, <1>3, <1>4, <1>5, <1>6, <1>7 DEF PNext

\* Whose outcome somebody has told, or is about to tell.
IsTold(r) ==
    \/ KeyTaken(CallbackKey(r, 0))
    \/ AtDoor(r, "settled") \/ r \in telling
    \/ \E w \in Workers : RunnerAt(w, "announce") /\ JobOf(w).run = r

LEMMA AnnounceTells ==
    ASSUME NEW r \in Listeners, Announce(r)
    PROVE  KeyTaken(CallbackKey(r, 0))'
<1>0. CallbackKey(r, 0) # NoKey
  BY PipelineConstants, QueueConstants, JobFacts
<1>1. CASE KeyTaken(CallbackKey(r, 0))
  BY <1>1 DEF Announce, vars, KeyTaken
<1>2. CASE ~KeyTaken(CallbackKey(r, 0))
  <2>1. PICK n \in Ids : Enqueue(n, r, CallbackKey(r, 0), Callback(r, 0), clock)
    BY <1>2 DEF Announce
  <2>2. n \in DOMAIN work' /\ work'[n].key = CallbackKey(r, 0)
    BY <2>1, EnqueueBears
  <2> QED BY <1>0, <2>2 DEF KeyTaken
<1> QED BY <1>1, <1>2

LEMMA ToldStep ==
    ASSUME GoesOn, Fits, Unserved, [PNext]_allVars, OutcomeIsAnnounced
    PROVE  OutcomeIsAnnounced'
<1>0. /\ RowsKeep /\ HeldKnown /\ TypeOK /\ QueuePart
      /\ ledger \in [Requests -> LedgerStates]
      /\ door \in [Requests -> [pc : DoorPCs, from : Requests]]
      /\ runner \in [Workers -> [pc : RunnerPCs, verdict : Verdicts \cup {"none"}]]
  BY QueueSteps, QueueKeeps, TypedParts DEF Fits, TypeOK, RowsOK, DoorTyped, RunnerTyped, IInv, Hands
<1>1. ~Shutdown /\ ~ProcessEnds
  BY DEF GoesOn
<1>k. ASSUME NEW r \in Requests, KeyTaken(CallbackKey(r, 0)) PROVE IsTold(r)'
  BY <1>0, <1>k DEF KeyTaken, RowsKeep, IsTold
<1>a. ASSUME NEW r \in Listeners, Announce(r) PROVE IsTold(r)'
  BY <1>a, AnnounceTells DEF IsTold
<1>j. ASSUME NEW w \in Workers, worker[w].pc = "running", worker'[w].unit = worker[w].unit
      PROVE  JobOf(w)' = JobOf(w)
  BY <1>0, <1>j, SameJob
\* Whoever was about to tell still is, or has told.
<1>2. ASSUME NEW r \in Listeners, IsTold(r) PROVE IsTold(r)'
  <2>0. r \in Requests
    BY PipelineConstants
  <2>1. CASE KeyTaken(CallbackKey(r, 0))
    BY <1>k, <2>0, <2>1
  <2>2. CASE AtDoor(r, "settled")
    <3>1. CASE DoorAnnounce(r)
      BY <1>a, <3>1 DEF DoorAnnounce
    <3>2. ASSUME NEW s \in Requests, DoorStep(s), ~DoorAnnounce(r) PROVE door'[r] = door[r]
      BY <1>0, <2>0, <2>2, <3>2
         DEF DoorStep, LookUpKey, AcceptRun, Refuse, CountWaiting, RecordQueued, EnqueueDelivery,
             EnqueueDuplicate, DoorAnnounce, AnswerRun, HangUp, DoorGoes, AtDoor
    <3>3. ASSUME ~\E s \in Requests : DoorStep(s) PROVE UNCHANGED door
      BY <1>1, <3>3, DoorAlone DEF PNext
    <3>4. CASE door'[r] = door[r]
      BY <2>2, <3>4 DEF AtDoor, IsTold
    <3> QED BY <3>1, <3>2, <3>3, <3>4
  <2>3. CASE r \in telling
    <3>1. CASE AnnounceCancelled(r)
      BY <1>a, <3>1 DEF AnnounceCancelled
    <3>2. CASE ~AnnounceCancelled(r)
      <4>1. r \in telling'
        BY <1>1, <2>3, <3>2, TellingKeeps
      <4> QED BY <4>1 DEF IsTold
    <3> QED BY <3>1, <3>2
  <2>4. ASSUME NEW w \in Workers, RunnerAt(w, "announce"), JobOf(w).run = r PROVE IsTold(r)'
    <3>1. CASE RunnerStep(w)
      <4>1. RunnerAnnounce(w)
        BY <2>4, <3>1 DEF RunnerStep, PoolAlone, EnterRunner, StartDelivery, SetWorkFor, NeverBegan,
             RunAgent, LeaveAgent, SettleDelivery, PostCallback, RetryCallback, LeaveRunner,
             PanicInAgent, RunnerAt, Claim, SettleUnit, Unregister, Register
      <4> QED BY <1>a, <2>4, <4>1 DEF RunnerAnnounce
    <3>2. CASE ~RunnerStep(w)
      <4>1. RunnerAt(w, "announce")' /\ worker'[w].unit = worker[w].unit /\ worker[w].pc = "running"
        BY <1>1, <2>4, <3>2, Stays DEF RunnerAt
      <4> QED BY <1>j, <2>4, <4>1 DEF IsTold
    <3> QED BY <3>1, <3>2
  <2> QED BY <1>2, <2>1, <2>2, <2>3, <2>4 DEF IsTold
\* Whoever settles a row is about to tell.
<1>3. ASSUME NEW r \in Requests, ledger[r] \notin Ledger!Terminal, ledger'[r] \in Ledger!Terminal
      PROVE  IsTold(r)'
  <2>1. ASSUME NEW s \in Requests, DoorStep(s) PROVE IsTold(r)'
    <3>1. CASE Refuse(s) \/ EnqueueDuplicate(s)
      <4>1. s = r
        BY <1>0, <1>3, <3>1 DEF Refuse, EnqueueDuplicate, Ledger!SettleOrLog
      <4>2. AtDoor(r, "settled")'
        BY <1>0, <3>1, <4>1 DEF Refuse, EnqueueDuplicate, DoorGoes, AtDoor
      <4> QED BY <4>2 DEF IsTold
    <3>2. CASE AcceptRun(s) \/ RecordQueued(s)
      BY <1>0, <1>3, <3>2 DEF AcceptRun, RecordQueued, Ledger!Accept, Ledger!Queued, Ledger!Move, Ledger!Terminal
    <3> QED BY <1>3, <2>1, <3>1, <3>2
         DEF DoorStep, LookUpKey, CountWaiting, EnqueueDelivery, DoorAnnounce, AnswerRun, HangUp
  <2>2. ASSUME NEW w \in Workers, RunnerStep(w) PROVE IsTold(r)'
    <3>1. CASE SettleDelivery(w)
      <4>1. JobOf(w).run = r
        BY <1>3, <3>1 DEF SettleDelivery, Ledger!SettleOrLog
      <4>2. /\ worker[w].pc = "running" /\ UNCHANGED worker
            /\ runner'[w].pc = "announce"
        BY <1>0, <3>1 DEF SettleDelivery, RunnerAt, RunnerGoes, vars
      <4>3. JobOf(w)' = JobOf(w)
        BY <1>j, <4>2
      <4>4. RunnerAt(w, "announce")' /\ JobOf(w)'.run = r
        BY <4>1, <4>2, <4>3 DEF RunnerAt
      <4> QED BY <4>4 DEF IsTold
    <3>2. CASE StartDelivery(w)
      BY <1>0, <1>3, <3>2 DEF StartDelivery, Ledger!StartRun, Ledger!Move, Ledger!Terminal
    <3> QED BY <1>3, <2>2, <3>1, <3>2
         DEF RunnerStep, PoolAlone, pipelineVars, EnterRunner, SetWorkFor, NeverBegan, RunAgent,
             LeaveAgent, RunnerAnnounce, PostCallback, RetryCallback, LeaveRunner, PanicInAgent
  <2>3. ASSUME NEW i \in Ids, SettleCancelled(i) PROVE IsTold(r)'
    <3>1. work[i].job.run = r
      BY <1>3, <2>3 DEF SettleCancelled, Ledger!SettleOrLog
    <3> QED BY <2>3, <3>1 DEF SettleCancelled, IsTold
  <2>4. CASE Bootstrap
    BY <1>3, <2>4 DEF Bootstrap, Unserved, Ledger!ReconcileRuns, Ledger!Terminal
  <2>5. ASSUME \/ UNCHANGED allVars \/ (\E c \in Chats : TurnStep(c))
               \/ (\E i \in Ids : KillUnit(i) \/ InterruptRun(i))
               \/ (\E s \in Requests : AnnounceCancelled(s)) \/ BootPool
        PROVE  UNCHANGED ledger
    BY <2>5 DEF allVars, pipelineVars, TurnStep, LatchTurn, TakeLane, LaneUnread, LaneTaken,
                ReleaseLane, Unlatch, KillUnit, InterruptRun, AnnounceCancelled, BootPool
  <2> QED BY <1>1, <1>3, <2>1, <2>2, <2>3, <2>4, <2>5 DEF PNext, CancelStep
<1>4. ASSUME NEW r \in Listeners, ledger'[r] \in Ledger!Terminal PROVE IsTold(r)'
  <2>0. r \in Requests
    BY PipelineConstants
  <2>1. CASE ledger[r] \in Ledger!Terminal
    <3>1. IsTold(r)
      BY <2>1 DEF OutcomeIsAnnounced, IsTold
    <3> QED BY <1>2, <3>1
  <2> QED BY <1>3, <1>4, <2>0, <2>1
<1> QED BY <1>4 DEF OutcomeIsAnnounced, IsTold

\* In a process that stays up every outcome somebody listens for is announced by
\* whoever wrote it, the door, the worker or the cancel, and by one attempt at a
\* time (callback.go settle, enqueueCallback).
THEOREM EveryOutcomeIsTold == ASSUME ~Crashes PROVE PSpec => []AnnouncedOnce
<1>1. PInit => OutcomeIsAnnounced
  BY PipelineConstants DEF PInit, OutcomeIsAnnounced, Ledger!Terminal
<1>2. Fits /\ Unserved /\ OutcomeIsAnnounced /\ [PNext]_allVars => OutcomeIsAnnounced'
  BY ToldStep, NeverEnds
<1>3. PSpec => []Unserved
  BY Unserving
<1>4. OutcomeIsAnnounced /\ OneAttemptAhead => AnnouncedOnce
  BY DEF AnnouncedOnce
<1> QED BY <1>1, <1>2, <1>3, <1>4, Fitting, OneToldAtATime, PTL DEF PSpec

------------------------------------------------------------------------------
(* What the ledger says is waiting or running, in a process that neither ends  *)
(* nor panics.                                                                 *)

\* Who runs a row that says running.
WorkedOn(r) ==
    ledger[r] = "running" =>
        \E w \in Workers : /\ worker[w].pc = "running" /\ JobOf(w) = Delivery(r)
                           /\ runner[w].pc \in {"bind", "engine", "agent", "settle"}

\* A worker that has claimed a unit, or its runner before it looks at the row.
Picked(w, i) == worker[w].unit = i /\ (worker[w].pc = "claimed" \/ RunnerAt(w, "start"))

UnitCarries(i, r) ==
    /\ Carries(i, r)
    /\ work[i].state = "queued" \/ i \in killing \cup cancelling \/ \E w \in Workers : Picked(w, i)

\* Who takes up a row that says queued.
TakenUp(r) == ledger[r] = "queued" => AtDoor(r, "queued") \/ \E i \in Ids : UnitCarries(i, r)

Borne == \A r \in Requests : WorkedOn(r) /\ TakenUp(r)

\* A row that changes is settled, accepted, or goes one of the two ways on.
LEMMA WhoWrites ==
    ASSUME Fits, [PNext]_allVars, NEW r \in Requests, ledger'[r] # ledger[r]
    PROVE  \/ ledger'[r] \in Ledger!Terminal
           \/ ledger'[r] = "accepted"
           \/ ledger'[r] = "queued" /\ RecordQueued(r)
           \/ \E w \in Workers : /\ ledger[r] = "queued" /\ ledger'[r] = "running"
                                 /\ StartDelivery(w) /\ JobOf(w) = Delivery(r)
<1>0. ledger \in [Requests -> LedgerStates] /\ RunnerTyped
  BY TypedParts DEF Fits
<1>1. ASSUME NEW s \in Requests, NEW outcome \in Ledger!Terminal, Ledger!SettleOrLog(s, outcome)
      PROVE  ledger'[r] \in Ledger!Terminal
  BY <1>0, <1>1 DEF Ledger!SettleOrLog
<1>2. ASSUME NEW s \in Requests, DoorStep(s)
      PROVE  \/ ledger'[r] \in Ledger!Terminal \/ ledger'[r] = "accepted"
             \/ ledger'[r] = "queued" /\ RecordQueued(r)
  <2>1. CASE Refuse(s) \/ EnqueueDuplicate(s)
    <3>1. "failed" \in Ledger!Terminal /\ "refused_schema" \in Ledger!Terminal
      BY DEF Ledger!Terminal
    <3> QED BY <1>1, <2>1, <3>1 DEF Refuse, EnqueueDuplicate
  <2>2. CASE AcceptRun(s)
    BY <1>0, <2>2 DEF AcceptRun, Ledger!Accept, Ledger!Move
  <2>3. CASE RecordQueued(s)
    <3>1. s = r /\ ledger'[r] = "queued"
      BY <1>0, <2>3 DEF RecordQueued, Ledger!Queued, Ledger!Move
    <3> QED BY <2>3, <3>1
  <2> QED BY <1>2, <2>1, <2>2, <2>3
       DEF DoorStep, LookUpKey, CountWaiting, EnqueueDelivery, DoorAnnounce, AnswerRun, HangUp
<1>3. ASSUME NEW w \in Workers, RunnerStep(w)
      PROVE  \/ ledger'[r] \in Ledger!Terminal
             \/ /\ ledger[r] = "queued" /\ ledger'[r] = "running"
                /\ StartDelivery(w) /\ JobOf(w) = Delivery(r)
  <2>1. CASE SettleDelivery(w)
    <3>1. JobOf(w).run \in Requests /\ runner[w].verdict \in Verdicts
      BY <2>1, JobFacts DEF SettleDelivery, RunnerAt, Fits, RunnerFits, DeliverySteps
    <3>2. runner[w].verdict \in Ledger!Terminal
      BY <3>1 DEF Verdicts, Ledger!Terminal
    <3> QED BY <1>1, <2>1, <3>1, <3>2 DEF SettleDelivery
  <2>2. CASE StartDelivery(w)
    <3>1. JobOf(w) = Delivery(JobOf(w).run) /\ JobOf(w).run \in Requests
      BY <2>2, JobFacts DEF StartDelivery, RunnerAt, Fits, RunnerFits, DeliverySteps
    <3>2. JobOf(w).run = r /\ ledger[r] = "queued" /\ ledger'[r] = "running"
      BY <1>0, <2>2, <3>1 DEF StartDelivery, Ledger!StartRun, Ledger!Move
    <3> QED BY <2>2, <3>1, <3>2
  <2> QED BY <1>3, <2>1, <2>2
       DEF RunnerStep, PoolAlone, pipelineVars, EnterRunner, SetWorkFor, NeverBegan, RunAgent,
           LeaveAgent, RunnerAnnounce, PostCallback, RetryCallback, LeaveRunner, PanicInAgent
<1>4. ASSUME NEW i \in Ids, SettleCancelled(i) PROVE ledger'[r] \in Ledger!Terminal
  <2>1. work[i].job.run \in Requests
    BY <1>4, JobFacts DEF SettleCancelled, Fits, CancelFits
  <2>2. "interrupted" \in Ledger!Terminal
    BY DEF Ledger!Terminal
  <2> QED BY <1>1, <1>4, <2>1, <2>2 DEF SettleCancelled
<1>5. CASE Bootstrap
  BY <1>5 DEF Bootstrap, Ledger!ReconcileRuns, Ledger!Terminal
<1>6. ASSUME \/ UNCHANGED allVars \/ (\E c \in Chats : TurnStep(c))
             \/ (\E i \in Ids : KillUnit(i) \/ InterruptRun(i))
             \/ (\E s \in Requests : AnnounceCancelled(s)) \/ BootPool \/ Shutdown \/ ProcessEnds
      PROVE  UNCHANGED ledger
  BY <1>6 DEF allVars, pipelineVars, TurnStep, LatchTurn, TakeLane, LaneUnread, LaneTaken,
              ReleaseLane, Unlatch, KillUnit, InterruptRun, AnnounceCancelled, BootPool,
              Shutdown, ProcessEnds
<1> QED BY <1>2, <1>3, <1>4, <1>5, <1>6 DEF PNext, CancelStep

LEMMA WorkedOnStep ==
    ASSUME GoesOn, ~Panics, Fits, [PNext]_allVars, NEW r \in Requests, WorkedOn(r)
    PROVE  WorkedOn(r)'
<1>0. /\ RowsKeep /\ HeldKnown /\ TypeOK
      /\ ledger \in [Requests -> LedgerStates]
      /\ runner \in [Workers -> [pc : RunnerPCs, verdict : Verdicts \cup {"none"}]]
  BY QueueSteps, QueueKeeps, TypedParts DEF Fits, TypeOK, RowsOK, RunnerTyped, IInv, Hands
<1>1. ~ProcessEnds /\ \A w \in Workers : ~PanicInAgent(w)
  BY DEF GoesOn, PanicInAgent
<1>2. ASSUME NEW w \in Workers, worker[w].pc = "running", worker'[w].pc = "running",
             worker'[w].unit = worker[w].unit, JobOf(w) = Delivery(r),
             runner'[w].pc \in {"bind", "engine", "agent", "settle"}
      PROVE  WorkedOn(r)'
  <2>1. JobOf(w)' = Delivery(r)
    BY <1>0, <1>2, SameJob
  <2> QED BY <1>2, <2>1 DEF WorkedOn
<1>3. ASSUME ledger[r] = "running", ledger'[r] = "running" PROVE WorkedOn(r)'
  <2>1. PICK w \in Workers : /\ worker[w].pc = "running" /\ JobOf(w) = Delivery(r)
                             /\ runner[w].pc \in {"bind", "engine", "agent", "settle"}
    BY <1>3 DEF WorkedOn
  <2>2. CASE ~RunnerStep(w)
    <3>1. worker'[w].pc = "running" /\ worker'[w].unit = worker[w].unit /\ runner'[w] = runner[w]
      BY <1>1, <2>1, <2>2, Stays
    <3> QED BY <1>2, <2>1, <3>1
  <2>3. CASE SetWorkFor(w) \/ NeverBegan(w) \/ RunAgent(w) \/ \E v \in Verdicts : LeaveAgent(w, v)
    <3>1. UNCHANGED worker
      BY <2>3 DEF SetWorkFor, NeverBegan, RunAgent, LeaveAgent, vars
    <3>2. runner'[w].pc \in {"engine", "agent", "settle"}
      BY <1>0, <2>3 DEF SetWorkFor, NeverBegan, RunAgent, LeaveAgent, RunnerGoes, RunnerHas
    <3> QED BY <1>2, <2>1, <3>1, <3>2
  <2>4. CASE SettleDelivery(w)
    <3>1. JobOf(w).run = r
      BY <2>1, DeliveryIs
    <3>2. runner[w].verdict \in Verdicts
      BY <2>4 DEF SettleDelivery, RunnerAt, Fits, RunnerFits
    <3>3. ledger'[r] = runner[w].verdict
      BY <1>0, <1>3, <2>4, <3>1 DEF SettleDelivery, Ledger!SettleOrLog, Ledger!LiveRun
    <3> QED BY <1>3, <3>2, <3>3 DEF Verdicts
  <2>5. CASE RunnerStep(w)
    BY <1>1, <2>1, <2>3, <2>4, <2>5
       DEF RunnerStep, PoolAlone, Claim, SettleUnit, Unregister, EnterRunner, Register, StartDelivery,
           RunnerAnnounce, PostCallback, RetryCallback, LeaveRunner, RunnerAt
  <2> QED BY <2>2, <2>5
<1>4. ASSUME ledger[r] # "running", ledger'[r] = "running" PROVE WorkedOn(r)'
  <2>1. PICK w \in Workers : StartDelivery(w) /\ JobOf(w) = Delivery(r) /\ ledger[r] = "queued"
    BY <1>4, WhoWrites DEF Ledger!Terminal
  <2>2. worker[w].pc = "running" /\ UNCHANGED worker /\ runner'[w].pc = "bind"
    <3>1. JobOf(w).run = r
      BY <2>1, DeliveryIs
    <3> QED BY <1>0, <2>1, <3>1 DEF StartDelivery, RunnerAt, RunnerGoes, vars
  <2> QED BY <1>2, <2>1, <2>2
<1> QED BY <1>3, <1>4 DEF WorkedOn

\* A unit that no longer waits has been claimed or killed.
LEMMA Unwaiting ==
    ASSUME RowsOK, QueuePart, NEW i \in DOMAIN work, work[i].state = "queued",
           work'[i].state # "queued"
    PROVE  Kill(i) \/ \E w \in Workers : Claim(w, i)
<1>1. ASSUME NEW S, NEW to, work' = Mark(S, to) PROVE i \in S
  BY <1>1 DEF Mark
<1>2. ~UNCHANGED work
  OBVIOUS
<1>3. ASSUME NEW n, NEW row, Insert(n, row) PROVE FALSE
  BY <1>3, InsertFacts
<1>4. ASSUME NEW n \in Ids, \E l, k, j, t : Enqueue(n, l, k, j, t) PROVE FALSE
  BY <1>3, <1>4 DEF Enqueue
<1>5. ASSUME NEW n \in Ids, NEW c \in Chats,
             ChatClaim(c, n, WS, ChatJob) \/ ChatClaimUnread(c, n, WS, ChatJob)
      PROVE  FALSE
  BY <1>3, <1>5 DEF ChatClaim, ChatClaimUnread
<1>6. ASSUME Start \/ (\E c \in Chats : ChatSettle(c)) \/ (\E w \in Workers : SettleUnit(w)) PROVE FALSE
  BY <1>1, <1>2, <1>6 DEF Start, ChatSettle, SettleUnit, Update, InState
<1>7. ASSUME NEW w \in Workers, NEW n \in Ids, Claim(w, n) PROVE i = n
  BY <1>7 DEF Claim, RowsOK
<1>8. ASSUME NEW n \in Ids, Kill(n) PROVE i = n
  BY <1>1, <1>8 DEF Kill, Update
<1>9. ASSUME \/ UNCHANGED vars \/ Stop \/ Exit \/ Crash \/ (\E n \in Ids : CancelRunning(n))
             \/ (\E w \in Workers : Register(w) \/ Return(w) \/ Panic(w) \/ Unregister(w))
      PROVE  FALSE
  BY <1>2, <1>9 DEF vars, Stop, Exit, Crash, CancelRunning, Register, Return, Panic, Unregister
<1> QED BY <1>4, <1>5, <1>6, <1>7, <1>8, <1>9 DEF QueuePart

\* A killed unit is known to its cancel until that interrupts the run.
LEMMA KillingStays ==
    ASSUME [PNext]_allVars, Fits, ~ProcessEnds, NEW i \in killing, ~InterruptRun(i)
    PROVE  i \in killing'
<1>1. ASSUME NEW r \in Requests, Announce(r) PROVE UNCHANGED killing
  BY <1>1, AnnounceStep
<1>2. ASSUME NEW r \in Requests, DoorStep(r) PROVE UNCHANGED killing
  BY <1>1, <1>2
     DEF DoorStep, LookUpKey, AcceptRun, Refuse, CountWaiting, RecordQueued, EnqueueDelivery,
         EnqueueDuplicate, DoorAnnounce, AnswerRun, HangUp, Enqueue, volatile, vars
<1>3. ASSUME NEW w \in Workers, RunnerStep(w) PROVE UNCHANGED killing
  <2>1. CASE RunnerAnnounce(w)
    BY <1>1, <2>1, AnnouncedRun DEF RunnerAnnounce
  <2>2. CASE PoolAlone(w) \/ EnterRunner(w) \/ LeaveRunner(w) \/ PanicInAgent(w) \/ RetryCallback(w)
    BY <2>2 DEF PoolAlone, EnterRunner, LeaveRunner, PanicInAgent, RetryCallback, Claim, Register,
                Return, Panic, SettleUnit, Unregister, Enqueue, volatile
  <2> QED BY <1>3, <2>1, <2>2
       DEF RunnerStep, StartDelivery, SetWorkFor, NeverBegan, RunAgent, LeaveAgent, SettleDelivery,
           PostCallback, vars
<1>4. ASSUME NEW c \in Chats, TurnStep(c) PROVE UNCHANGED killing
  BY <1>4 DEF TurnStep, LatchTurn, TakeLane, LaneUnread, LaneTaken, ReleaseLane, Unlatch,
              ChatClaim, ChatClaimUnread, ChatSettle, vars, volatile
<1>5. CASE CancelStep
  BY <1>1, <1>5 DEF CancelStep, KillUnit, Kill, InterruptRun, CancelRunning, SettleCancelled,
              AnnounceCancelled, vars
<1>6. CASE UNCHANGED allVars \/ BootPool \/ Bootstrap \/ Shutdown
  BY <1>6 DEF allVars, vars, BootPool, Start, Bootstrap, Shutdown, Stop, volatile
<1> QED BY <1>2, <1>3, <1>4, <1>5, <1>6 DEF PNext

\* And its row is to be settled until that is done.
LEMMA CancellingStays ==
    ASSUME [PNext]_allVars, ~ProcessEnds, NEW i \in cancelling, ~SettleCancelled(i)
    PROVE  i \in cancelling'
<1>1. ASSUME NEW j \in Ids, SettleCancelled(j) \/ InterruptRun(j) PROVE i \in cancelling'
  BY <1>1 DEF SettleCancelled, InterruptRun
<1>2. ASSUME \/ UNCHANGED allVars \/ (\E s \in Requests : DoorStep(s))
             \/ (\E w \in Workers : RunnerStep(w)) \/ (\E c \in Chats : TurnStep(c))
             \/ (\E j \in Ids : KillUnit(j)) \/ (\E s \in Requests : AnnounceCancelled(s))
             \/ BootPool \/ Bootstrap \/ Shutdown
      PROVE  UNCHANGED cancelling
  BY <1>2 DEF allVars, pipelineVars, cancelVars, DoorStep, LookUpKey, AcceptRun, Refuse, CountWaiting,
              RecordQueued, EnqueueDelivery, EnqueueDuplicate, DoorAnnounce, AnswerRun, HangUp,
              RunnerStep, PoolAlone, EnterRunner, StartDelivery, SetWorkFor,
              NeverBegan, RunAgent, LeaveAgent, SettleDelivery, RunnerAnnounce, PostCallback,
              RetryCallback, LeaveRunner, PanicInAgent, TurnStep, LatchTurn, TakeLane, LaneUnread,
              LaneTaken, ReleaseLane, Unlatch, KillUnit, AnnounceCancelled, BootPool, Bootstrap, Shutdown
<1> QED BY <1>1, <1>2 DEF PNext, CancelStep

LEMMA TakenUpStep ==
    ASSUME GoesOn, ~Panics, Fits, [PNext]_allVars, NEW r \in Requests, TakenUp(r)
    PROVE  TakenUp(r)'
<1>0. /\ RowsKeep /\ TypeOK /\ QueuePart /\ RowsOK
      /\ ledger \in [Requests -> LedgerStates]
      /\ door \in [Requests -> [pc : DoorPCs, from : Requests]]
      /\ runner \in [Workers -> [pc : RunnerPCs, verdict : Verdicts \cup {"none"}]]
  BY QueueSteps, QueueKeeps, TypedParts DEF Fits, TypeOK, RowsOK, DoorTyped, RunnerTyped
<1>1. ~Shutdown /\ ~ProcessEnds
  BY DEF GoesOn
<1> SUFFICES ASSUME ledger'[r] = "queued" PROVE AtDoor(r, "queued")' \/ \E i \in Ids : UnitCarries(i, r)'
  BY DEF TakenUp
<1>2. CASE ledger[r] # "queued"
  <2>1. RecordQueued(r)
    BY <1>2, WhoWrites DEF Ledger!Terminal
  <2> QED BY <1>0, <2>1 DEF RecordQueued, DoorGoes, AtDoor
<1>3. CASE AtDoor(r, "queued") /\ ledger[r] = "queued"
  <2>1. CASE EnqueueDelivery(r)
    <3>1. PICK n \in Ids : Enqueue(n, WS, KeyOf[r], Delivery(r), clock)
      BY <2>1 DEF EnqueueDelivery
    <3>2. n \in DOMAIN work' /\ work'[n].job = Delivery(r) /\ work'[n].state = "queued"
      BY <3>1, EnqueueBears
    <3> QED BY <3>2 DEF UnitCarries, Carries
  <2>2. CASE EnqueueDuplicate(r)
    BY <1>0, <1>3, <2>2 DEF EnqueueDuplicate, Ledger!SettleOrLog, Ledger!LiveRun
  <2>3. ASSUME NEW s \in Requests, DoorStep(s), ~EnqueueDelivery(r), ~EnqueueDuplicate(r)
        PROVE  door'[r] = door[r]
    BY <1>0, <1>3, <2>3
       DEF DoorStep, LookUpKey, AcceptRun, Refuse, CountWaiting, RecordQueued, EnqueueDelivery,
           EnqueueDuplicate, DoorAnnounce, AnswerRun, HangUp, DoorGoes, AtDoor
  <2>4. ASSUME ~\E s \in Requests : DoorStep(s) PROVE UNCHANGED door
    BY <1>1, <2>4, DoorAlone DEF PNext
  <2>5. CASE door'[r] = door[r]
    BY <1>3, <2>5 DEF AtDoor
  <2> QED BY <2>1, <2>2, <2>3, <2>4, <2>5
<1>4. ASSUME NEW i \in Ids, UnitCarries(i, r), ledger[r] = "queued" PROVE UnitCarries(i, r)'
  <2>0. /\ Carries(i, r)' /\ i \in DOMAIN work /\ work[i].job = Delivery(r)
        /\ work[i].job.kind = "delivery" /\ work[i].job.run = r
    BY <1>0, <1>4, DeliveryIs DEF UnitCarries, Carries, RowsKeep
  <2>1. CASE work[i].state = "queued"
    <3>1. CASE work'[i].state = "queued"
      BY <2>0, <3>1 DEF UnitCarries
    <3>2. ASSUME Kill(i) PROVE i \in killing'
      BY <3>2 DEF Kill
    <3>3. ASSUME NEW w \in Workers, Claim(w, i) PROVE Picked(w, i)'
      BY <1>0, <3>3 DEF Claim, Picked, TypeOK
    <3>4. CASE work'[i].state # "queued"
      <4>1. Kill(i) \/ \E w \in Workers : Claim(w, i)
        BY <1>0, <2>0, <2>1, <3>4, Unwaiting
      <4> QED BY <2>0, <3>2, <3>3, <4>1 DEF UnitCarries
    <3> QED BY <3>1, <3>4
  <2>2. CASE i \in killing
    <3>1. CASE InterruptRun(i)
      <4>1. i \in cancelling'
        BY <2>0, <3>1 DEF InterruptRun
      <4> QED BY <2>0, <4>1 DEF UnitCarries
    <3>2. CASE ~InterruptRun(i)
      <4>1. i \in killing'
        BY <1>1, <2>2, <3>2, KillingStays
      <4> QED BY <2>0, <4>1 DEF UnitCarries
    <3> QED BY <3>1, <3>2
  <2>3. CASE i \in cancelling
    <3>1. ~SettleCancelled(i)
      BY <1>0, <1>4, <2>0 DEF SettleCancelled, Ledger!SettleOrLog, Ledger!LiveRun
    <3>2. i \in cancelling'
      BY <1>1, <2>3, <3>1, CancellingStays
    <3> QED BY <2>0, <3>2 DEF UnitCarries
  <2>4. ASSUME NEW w \in Workers, Picked(w, i) PROVE UnitCarries(i, r)'
    <3>0. JobOf(w) = Delivery(r) /\ JobOf(w).kind = "delivery" /\ JobOf(w).run = r
      BY <2>0, <2>4 DEF Picked, JobOf
    <3>1. CASE ~RunnerStep(w)
      <4>1. /\ worker'[w].pc = worker[w].pc /\ worker'[w].unit = worker[w].unit
            /\ runner'[w] = runner[w]
        BY <1>1, <3>1, Stays
      <4>2. Picked(w, i)'
        BY <2>4, <4>1 DEF Picked, RunnerAt
      <4> QED BY <2>0, <4>2 DEF UnitCarries
    <3>2. CASE EnterRunner(w)
      <4>1. worker'[w].pc = "running" /\ worker'[w].unit = i /\ runner'[w].pc = "start"
        BY <1>0, <2>4, <3>0, <3>2, RegisterKeeps DEF EnterRunner, RunnerGoes, Picked
      <4>2. Picked(w, i)'
        BY <4>1 DEF Picked, RunnerAt
      <4> QED BY <2>0, <4>2 DEF UnitCarries
    <3>3. CASE StartDelivery(w)
      BY <1>0, <1>4, <3>0, <3>3 DEF StartDelivery, Ledger!StartRun, Ledger!Move
    <3>4. RunnerStep(w) => EnterRunner(w) \/ StartDelivery(w)
      BY <2>4
         DEF Picked, RunnerStep, PoolAlone, Claim, SettleUnit, Unregister, SetWorkFor, NeverBegan,
             RunAgent, LeaveAgent, SettleDelivery, RunnerAnnounce, PostCallback, RetryCallback,
             LeaveRunner, PanicInAgent, RunnerAt
    <3> QED BY <3>1, <3>2, <3>3, <3>4
  <2> QED BY <1>4, <2>1, <2>2, <2>3, <2>4 DEF UnitCarries
<1> QED BY <1>2, <1>3, <1>4 DEF TakenUp

\* In a process that neither ends nor panics what the ledger says of a delivery that
\* is not over somebody is doing or about to do: its handler, its unit in the queue,
\* the worker that has it, or the cancel that took it out (delivery_runner.go,
\* queue_handlers.go, inlet_handlers.go).
THEOREM LedgerCarried == ASSUME ~Crashes, ~Panics PROVE PSpec => []LedgerIsCarried
<1>1. PInit => Borne
  BY DEF PInit, Borne, WorkedOn, TakenUp
<1>2. Fits /\ Borne /\ [PNext]_allVars => Borne'
  BY WorkedOnStep, TakenUpStep, NeverEnds DEF Borne
<1>3. Borne => LedgerIsCarried
  BY DEF Borne, WorkedOn, TakenUp, UnitCarries, Picked, LedgerIsCarried, RunningIsWorkedOn,
         QueuedIsCarried, Executing, RunnerAt
<1> QED BY <1>1, <1>2, <1>3, Fitting, PTL DEF PSpec

------------------------------------------------------------------------------
(* MCPipelineParts: three questions in one instance, in two of which the      *)
(* process, once it is up, stays up.                                          *)

\* In those two: the process has not ended, and nobody is without a carrier.
Carrying ==
    focus # "keys" => proc \in {"down", "up"} /\ Unserved /\ Borne /\ OutcomeIsAnnounced

LEMMA CarryingStep ==
    ASSUME ~Panics, Fits, Carrying, [PartsNext]_<<allVars, focus>>
    PROVE  Carrying'
<1>1. UNCHANGED focus /\ [PNext]_allVars
  BY DEF PartsNext
<1> SUFFICES ASSUME focus # "keys" PROVE (proc \in {"down", "up"} /\ Unserved /\ Borne /\ OutcomeIsAnnounced)'
  BY <1>1 DEF Carrying
<1>2. proc \in {"down", "up"} /\ Unserved /\ Borne /\ OutcomeIsAnnounced
  BY DEF Carrying
<1>3. proc = "up" => proc' = "up"
  BY DEF PartsNext, allVars, vars
<1>4. GoesOn
  <2>1. ~Shutdown
    BY <1>3 DEF Shutdown, Stop
  <2>2. ~ProcessEnds
    BY <1>2, <1>3 DEF ProcessEnds, Exit, Crash, Alive
  <2> QED BY <2>1, <2>2 DEF GoesOn
<1>5. proc' \in {"down", "up"}
  <2>1. CASE BootPool
    BY <2>1 DEF BootPool, Start
  <2>2. CASE Bootstrap
    BY <1>2, <2>2 DEF Bootstrap, vars
  <2>3. CASE ~BootPool /\ ~Bootstrap
    BY <1>1, <1>2, <1>4, <2>3, ProcKept
  <2> QED BY <2>1, <2>2, <2>3
<1>6. Unserved'
  BY <1>1, <1>2, <1>4, UnservedStep
<1>7. Borne'
  BY <1>1, <1>2, <1>4, WorkedOnStep, TakenUpStep DEF Borne
<1>8. OutcomeIsAnnounced'
  BY <1>1, <1>2, <1>4, ToldStep
<1> QED BY <1>5, <1>6, <1>7, <1>8

LEMMA CarriedOn == ASSUME ~Panics PROVE PartsSpec => [](Fits /\ Carrying)
<1>1. PartsInit => Fits /\ Carrying
  <2> SUFFICES ASSUME PartsInit PROVE Fits /\ Carrying
    OBVIOUS
  <2>1. PInit
    BY DEF PartsInit
  <2>2. Fits
    BY <2>1, FitsInit
  <2>3. proc = "down" /\ Unserved
    BY <2>1 DEF PInit, Init, Unserved
  <2>4. Borne
    BY <2>1 DEF PInit, Borne, WorkedOn, TakenUp
  <2>5. OutcomeIsAnnounced
    BY <2>1, PipelineConstants DEF PInit, OutcomeIsAnnounced, Ledger!Terminal
  <2> QED BY <2>2, <2>3, <2>4, <2>5 DEF Carrying
<1>2. Fits /\ Carrying /\ [PartsNext]_<<allVars, focus>> => (Fits /\ Carrying)'
  <2> SUFFICES ASSUME Fits, Carrying, [PartsNext]_<<allVars, focus>> PROVE (Fits /\ Carrying)'
    OBVIOUS
  <2>1. [PNext]_allVars
    BY DEF PartsNext
  <2> QED BY <2>1, FitsStep, CarryingStep
<1> QED BY <1>1, <1>2, PTL DEF PartsSpec

\* In the questions whose process stays up, in an instance where another may crash, what
\* the ledger says of a delivery that is not over somebody is doing or about to do
\* (delivery_runner.go, queue_handlers.go, inlet_handlers.go).
THEOREM RowsCarried == ASSUME ~Panics PROVE PartsSpec => []RowsAreCarried
<1>1. Carrying => RowsAreCarried
  BY DEF Carrying, Borne, WorkedOn, TakenUp, UnitCarries, Picked, RowsAreCarried, LedgerIsCarried,
         RunningIsWorkedOn, QueuedIsCarried, Executing, RunnerAt
<1> QED BY <1>1, CarriedOn, PTL

===============================================================================
