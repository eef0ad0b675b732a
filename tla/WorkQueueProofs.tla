--------------------------- MODULE WorkQueueProofs ---------------------------
(***************************************************************************)
(* Theorems about WorkQueue, for any set of lanes, keys, jobs, workers and *)
(* chats and any bounds.                                                   *)
(*                                                                         *)
(* The argument is in two halves.  TableSteps says that whatever a step    *)
(* does, it does one of five things to the table; what is true of the      *)
(* table alone follows from those five.  What is true of the hands the     *)
(* units are in follows action by action.                                  *)
(***************************************************************************)
EXTENDS WorkQueue, TLAPS

------------------------------------------------------------------------------
(* What a step may do to the table.                                        *)

\* Live units are settled, none or some of them.
Closes == \E S \in SUBSET InState(Live), to \in Settled : work' = Mark(S, to)

\* A row appears under an id that was free, waiting, or claimed in a free lane.
Opens ==
    \E i \in Ids, row \in Row :
        /\ i \notin DOMAIN work
        /\ \/ row.state = "queued" /\ row.attempts = 0
           \/ row.state = "claimed" /\ row.attempts = 1 /\ LaneFree(row.lane)
        /\ work' = [j \in DOMAIN work \cup {i} |-> IF j = i THEN row ELSE work[j]]

\* A waiting unit is claimed, its lane being free.
Picks ==
    \E i \in InState({"queued"}) :
        /\ LaneFree(work[i].lane)
        /\ work' = [work EXCEPT ![i].state = "claimed", ![i].attempts = @ + 1]

\* Settled rows go.
Prunes == \E S \in SUBSET InState(Settled) : work' = [j \in DOMAIN work \ S |-> work[j]]

TableStep == work' = work \/ Closes \/ Opens \/ Picks \/ Prunes

RowsOK == DOMAIN work \subseteq Ids /\ \A i \in DOMAIN work : work[i] \in Row

\* Mark changes the state of the rows it is told to, and nothing else.
LEMMA MarkFacts ==
    ASSUME RowsOK, NEW S, NEW to
    PROVE  /\ DOMAIN Mark(S, to) = DOMAIN work
           /\ \A i \in DOMAIN work :
                 /\ i \notin S => Mark(S, to)[i] = work[i]
                 /\ Mark(S, to)[i].state = IF i \in S THEN to ELSE work[i].state
                 /\ Mark(S, to)[i].lane = work[i].lane
                 /\ Mark(S, to)[i].attempts = work[i].attempts
                 /\ to \in Live \cup Settled => Mark(S, to)[i] \in Row
BY DEF RowsOK, Mark, Row, Live, Settled

\* Every step does one of five things to the table.
LEMMA TableSteps == ASSUME TypeOK, [Next]_vars PROVE TableStep
<1> USE DEF TableStep
<1>1. ASSUME NEW S \in SUBSET InState(Live), NEW to \in Settled, work' = Mark(S, to)
      PROVE  Closes
  BY <1>1 DEF Closes
<1>2. ASSUME NEW i, NEW from \in SUBSET Live, NEW to \in Settled, Update(i, from, to)
      PROVE  Closes
  <2>1. {i} \cap InState(from) \in SUBSET InState(Live)
    BY DEF InState
  <2> QED BY <2>1, <1>2, <1>1 DEF Update
<1>3. CASE Start
  <2>1. CASE work' = Mark(InState({"claimed"}), "dead")
    BY <2>1, <1>1, InState({"claimed"}) \in SUBSET InState(Live), "dead" \in Settled
       DEF InState, Live, Settled
  <2> QED BY <1>3, <2>1 DEF Start
<1>4. CASE Stop \/ Exit \/ Crash \/ Tick
  BY <1>4 DEF Stop, Exit, Crash, Tick
<1>5. ASSUME NEW i \in Ids, NEW l \in Lanes, NEW k \in Keys \cup {NoKey}, NEW j \in Jobs,
             NEW t \in Times, Enqueue(i, l, k, j, t)
      PROVE  Opens
  <2> DEFINE row == [state |-> "queued", lane |-> l, key |-> k, job |-> j,
                     after |-> t, attempts |-> 0]
  <2>1. row \in Row
    BY DEF Row, Live
  <2>2. i \notin DOMAIN work
    BY <1>5 DEF Enqueue, Insert, NextId, Ids
  <2>3. work' = [m \in DOMAIN work \cup {i} |-> IF m = i THEN row ELSE work[m]]
    BY <1>5 DEF Enqueue, Insert
  <2>4. row.state = "queued" /\ row.attempts = 0
    OBVIOUS
  <2> HIDE DEF row
  <2> QED BY <2>1, <2>2, <2>3, <2>4 DEF Opens
<1>6. ASSUME NEW w \in Workers, PoolStep(w)
      PROVE  TableStep
  <2>1. ASSUME NEW i \in Ids, Claim(w, i)
        PROVE  Picks
    BY <2>1 DEF Claim, Claimable, Picks
  <2>2. CASE SettleUnit(w)
    <3>1. Update(worker[w].unit, {"claimed"}, "done")
      BY <2>2 DEF SettleUnit
    <3> QED BY <3>1, <1>2 DEF Live, Settled
  <2> QED BY <1>6, <2>1, <2>2 DEF PoolStep, Register, Return, Panic, SettleFails, Unregister
<1>7. ASSUME NEW c \in Chats, ChatStep(c)
      PROVE  TableStep
  <2>1. ASSUME NEW i \in Ids, NEW l \in Lanes, NEW j \in Jobs,
               ChatClaim(c, i, l, j) \/ ChatClaimUnread(c, i, l, j)
        PROVE  Opens
    <3> DEFINE row == [state |-> "claimed", lane |-> l, key |-> NoKey, job |-> j,
                       after |-> clock, attempts |-> 1]
    <3>1. row \in Row
      BY DEF Row, Live, TypeOK
    <3>2. i \notin DOMAIN work
      BY <2>1 DEF ChatClaim, ChatClaimUnread, Insert, NextId, Ids
    <3>3. work' = [m \in DOMAIN work \cup {i} |-> IF m = i THEN row ELSE work[m]]
      BY <2>1 DEF ChatClaim, ChatClaimUnread, Insert
    <3>4. row.state = "claimed" /\ row.attempts = 1 /\ LaneFree(row.lane)
      BY <2>1 DEF ChatClaim, ChatClaimUnread
    <3> HIDE DEF row
    <3> QED BY <3>1, <3>2, <3>3, <3>4 DEF Opens
  <2>2. CASE ChatSettle(c)
    <3>1. Update(chat[c], {"claimed"}, "done")
      BY <2>2 DEF ChatSettle
    <3> QED BY <3>1, <1>2 DEF Live, Settled
  <2> QED BY <1>7, <2>1, <2>2 DEF ChatStep, ChatSettleFails
<1>8. ASSUME NEW i \in Ids, Kill(i) \/ CancelRunning(i)
      PROVE  TableStep
  <2>1. CASE Kill(i)
    <3>1. Update(i, Live, "dead")
      BY <2>1 DEF Kill
    <3> QED BY <3>1, <1>2 DEF Settled
  <2> QED BY <1>8, <2>1 DEF CancelRunning
<1>9. ASSUME NEW S \in SUBSET Ids, Prune(S)
      PROVE  Prunes
  <2>1. S \in SUBSET InState(Settled)
    BY <1>9 DEF Prune
  <2> QED BY <1>9, <2>1 DEF Prune, Prunes
<1>10. CASE UNCHANGED vars
  BY <1>10 DEF vars
<1> QED BY <1>3, <1>4, <1>5, <1>6, <1>7, <1>8, <1>9, <1>10 DEF Next

------------------------------------------------------------------------------
(* Types.                                                                  *)

\* The rows keep their shape.
LEMMA RowsStep == ASSUME RowsOK, TableStep PROVE RowsOK'
<1>1. CASE work' = work
  BY <1>1 DEF RowsOK
<1>2. CASE Closes
  <2>1. PICK S \in SUBSET InState(Live), to \in Settled : work' = Mark(S, to)
    BY <1>2 DEF Closes
  <2> QED BY <2>1, MarkFacts DEF RowsOK
<1>3. CASE Opens
  BY <1>3 DEF Opens, RowsOK
<1>4. CASE Picks
  <2>1. PICK i \in InState({"queued"}) :
           work' = [work EXCEPT ![i].state = "claimed", ![i].attempts = @ + 1]
    BY <1>4 DEF Picks
  <2>2. i \in DOMAIN work
    BY DEF InState
  <2> QED BY <2>1, <2>2 DEF RowsOK, Row, Live
<1>5. CASE Prunes
  BY <1>5 DEF Prunes, RowsOK
<1> QED BY <1>1, <1>2, <1>3, <1>4, <1>5 DEF TableStep

HandsOK ==
    /\ worker \in [Workers -> [pc : WorkerPCs, unit : 0..MaxUnits, cancelled : BOOLEAN]]
    /\ chat \in [Chats -> 0..MaxUnits]

\* Workers and chats keep theirs.
LEMMA HandsTyped == ASSUME HandsOK, [Next]_vars PROVE HandsOK'
<1> USE QueueConstants DEF HandsOK, WorkerPCs
<1>1. IdleWorker \in [pc : WorkerPCs, unit : 0..MaxUnits, cancelled : BOOLEAN]
  BY DEF IdleWorker
<1>2. ASSUME Forgotten PROVE HandsOK'
  BY <1>1, <1>2 DEF Forgotten
<1>3. CASE Start \/ Exit \/ Crash \/ Tick
  BY <1>2, <1>3 DEF Start, Exit, Crash, Tick, volatile
<1>4. CASE Stop
  BY <1>4 DEF Stop
<1>5. ASSUME NEW i \in Ids, NEW l \in Lanes, NEW k \in Keys \cup {NoKey}, NEW j \in Jobs,
             NEW t \in Times, Enqueue(i, l, k, j, t)
      PROVE  HandsOK'
  BY <1>5 DEF Enqueue, volatile
<1>6. ASSUME NEW w \in Workers, PoolStep(w) PROVE HandsOK'
  <2>1. ASSUME NEW i \in Ids, Claim(w, i) PROVE HandsOK'
    BY <2>1 DEF Claim, Ids
  <2>2. ASSUME AfterSettle(w), UNCHANGED chat PROVE HandsOK'
    BY <1>1, <2>2 DEF AfterSettle
  <2>3. CASE Register(w)
    BY <2>3 DEF Register
  <2>4. CASE Return(w) \/ Panic(w)
    BY <2>4 DEF Return, Panic
  <2>5. CASE SettleUnit(w) \/ SettleFails(w)
    BY <2>2, <2>5 DEF SettleUnit, SettleFails
  <2>6. CASE Unregister(w)
    BY <1>1, <2>6 DEF Unregister
  <2> QED BY <1>6, <2>1, <2>3, <2>4, <2>5, <2>6 DEF PoolStep
<1>7. ASSUME NEW c \in Chats, ChatStep(c) PROVE HandsOK'
  <2>1. ASSUME NEW i \in Ids, NEW l \in Lanes, NEW j \in Jobs,
               ChatClaim(c, i, l, j) \/ ChatClaimUnread(c, i, l, j)
        PROVE  HandsOK'
    BY <2>1 DEF ChatClaim, ChatClaimUnread, Ids, volatile
  <2>2. CASE ChatSettle(c) \/ ChatSettleFails(c)
    BY <2>2 DEF ChatSettle, ChatSettleFails
  <2> QED BY <1>7, <2>1, <2>2 DEF ChatStep
<1>8. ASSUME NEW i \in Ids, Kill(i) \/ CancelRunning(i) PROVE HandsOK'
  <2>1. CASE Kill(i)
    BY <2>1 DEF Kill
  <2>2. CASE CancelRunning(i)
    <3> DEFINE hit(w) == i \in running /\ w \in Executing /\ worker[w].unit = i
    <3>1. worker' = [w \in Workers |-> [worker[w] EXCEPT !.cancelled = @ \/ hit(w)]]
      BY <2>2 DEF CancelRunning
    <3>2. \A w \in Workers : hit(w) \in BOOLEAN
      OBVIOUS
    <3>3. UNCHANGED chat
      BY <2>2 DEF CancelRunning
    <3> HIDE DEF hit
    <3> QED BY <3>1, <3>2, <3>3
  <2> QED BY <1>8, <2>1, <2>2
<1>9. ASSUME NEW S \in SUBSET Ids, Prune(S) PROVE HandsOK'
  BY <1>9 DEF Prune, volatile
<1>10. CASE UNCHANGED vars
  BY <1>10 DEF vars
<1> QED BY <1>3, <1>4, <1>5, <1>6, <1>7, <1>8, <1>9, <1>10 DEF Next

\* A unit somebody holds has a row, and the row is past waiting.
Known(i) == i \in DOMAIN work /\ work[i].state # "queued"

HeldKnown ==
    /\ \A w \in Workers : worker[w].pc # "idle" => Known(worker[w].unit)
    /\ \A c \in Chats : chat[c] # 0 => Known(chat[c])

RestOK ==
    /\ clock \in Times
    /\ running \subseteq Ids /\ killing \subseteq Ids /\ lost \subseteq Ids
    /\ proc \in {"down", "up", "stopping"}

\* The sets of ids and the life of the process stay within theirs.
LEMMA RestStep == ASSUME TypeOK, HeldKnown, [Next]_vars PROVE RestOK'
<1> USE QueueConstants DEF RestOK, TypeOK
<1>1. ASSUME NEW i \in Ids, NEW l \in Lanes, NEW k \in Keys \cup {NoKey}, NEW j \in Jobs,
             NEW t \in Times, Enqueue(i, l, k, j, t)
      PROVE  RestOK'
  BY <1>1 DEF Enqueue, volatile
<1>2. CASE Start \/ Stop \/ Exit \/ Crash
  BY <1>2 DEF Start, Stop, Exit, Crash, Forgotten, InState, volatile
<1>3. CASE Tick
  BY <1>3 DEF Tick, Times, volatile
<1>4. ASSUME NEW w \in Workers, PoolStep(w) PROVE RestOK'
  <2>1. CASE Register(w)
    BY <2>1 DEF Register, HeldKnown, Known
  <2>2. CASE \E i \in Ids : Claim(w, i)
    BY <2>2 DEF Claim
  <2>3. CASE Return(w) \/ Panic(w) \/ SettleUnit(w) \/ SettleFails(w) \/ Unregister(w)
    BY <2>3 DEF Return, Panic, SettleUnit, SettleFails, Unregister, InState
  <2> QED BY <1>4, <2>1, <2>2, <2>3 DEF PoolStep
<1>5. ASSUME NEW c \in Chats, ChatStep(c) PROVE RestOK'
  BY <1>5 DEF ChatStep, ChatClaim, ChatClaimUnread, ChatSettle, ChatSettleFails, InState, volatile
<1>6. ASSUME NEW i \in Ids, Kill(i) \/ CancelRunning(i) PROVE RestOK'
  BY <1>6 DEF Kill, CancelRunning
<1>7. ASSUME NEW S \in SUBSET Ids, Prune(S) PROVE RestOK'
  BY <1>7 DEF Prune, volatile
<1>8. CASE UNCHANGED vars
  BY <1>8 DEF vars
<1> QED BY <1>1, <1>2, <1>3, <1>4, <1>5, <1>6, <1>7, <1>8 DEF Next

\* Types are kept, given that what is held is known.
LEMMA TypeStep == ASSUME TypeOK, HeldKnown, [Next]_vars PROVE TypeOK'
<1>1. RowsOK' BY TableSteps, RowsStep DEF TypeOK, RowsOK
<1>2. HandsOK' BY HandsTyped DEF TypeOK, HandsOK
<1>3. RestOK' BY RestStep
<1> QED BY <1>1, <1>2, <1>3 DEF TypeOK, RowsOK, HandsOK, RestOK

------------------------------------------------------------------------------
(* What is true of the table alone.                                        *)

\* The rows of S are now in state to, and that is all that has changed.
Marked(S, to) ==
    /\ DOMAIN work' = DOMAIN work
    /\ \A i \in DOMAIN work :
          /\ work'[i].state = IF i \in S THEN to ELSE work[i].state
          /\ work'[i].lane = work[i].lane
          /\ work'[i].attempts = work[i].attempts
          /\ i \notin S => work'[i] = work[i]

LEMMA MarkedByMark ==
    ASSUME RowsOK, NEW S, NEW to, work' = Mark(S, to) PROVE Marked(S, to)
BY MarkFacts DEF Marked

LEMMA ClosesFacts ==
    ASSUME RowsOK, Closes
    PROVE  \E S \in SUBSET InState(Live), to \in Settled : Marked(S, to)
BY MarkedByMark DEF Closes

\* No step puts two claimed units in one lane.
LEMMA LaneStep == ASSUME TypeOK, LaneExclusive, TableStep PROVE LaneExclusive'
<1> USE DEF LaneExclusive, InState
<1>0. RowsOK BY DEF TypeOK, RowsOK
<1>1. CASE work' = work
  BY <1>1
<1>2. CASE Closes
  <2>1. PICK S \in SUBSET InState(Live), to \in Settled : Marked(S, to)
    BY <1>0, <1>2, ClosesFacts
  <2> QED BY <2>1 DEF Marked, Settled
<1>3. CASE Opens
  BY <1>3 DEF Opens, LaneFree
<1>4. CASE Picks
  <2>1. PICK i \in InState({"queued"}) :
           /\ LaneFree(work[i].lane)
           /\ work' = [work EXCEPT ![i].state = "claimed", ![i].attempts = @ + 1]
    BY <1>4 DEF Picks
  <2>2. \A j \in DOMAIN work : work[j] \in Row
    BY <1>0 DEF RowsOK
  <2>3. /\ DOMAIN work' = DOMAIN work
        /\ \A j \in DOMAIN work : work'[j].lane = work[j].lane
        /\ \A j \in DOMAIN work \ {i} : work'[j] = work[j]
    BY <2>1, <2>2 DEF Row
  <2> QED BY <2>1, <2>3 DEF LaneFree
<1>5. CASE Prunes
  BY <1>5 DEF Prunes
<1> QED BY <1>1, <1>2, <1>3, <1>4, <1>5 DEF TableStep

\* No step claims a unit a second time.
LEMMA AttemptStep == ASSUME TypeOK, OneAttempt, TableStep PROVE OneAttempt'
<1> USE DEF OneAttempt, InState
<1>0. RowsOK BY DEF TypeOK, RowsOK
<1>1. CASE work' = work
  BY <1>1
<1>2. CASE Closes
  <2>1. PICK S \in SUBSET InState(Live), to \in Settled : Marked(S, to)
    BY <1>0, <1>2, ClosesFacts
  <2> QED BY <2>1 DEF Marked, Settled
<1>3. CASE Opens
  BY <1>3 DEF Opens
<1>4. CASE Picks
  <2>1. PICK i \in InState({"queued"}) :
           work' = [work EXCEPT ![i].state = "claimed", ![i].attempts = @ + 1]
    BY <1>4 DEF Picks
  <2>2. \A j \in DOMAIN work : work[j] \in Row
    BY <1>0 DEF RowsOK
  <2>3. /\ DOMAIN work' = DOMAIN work
        /\ work'[i].state = "claimed" /\ work'[i].attempts = work[i].attempts + 1
        /\ \A j \in DOMAIN work \ {i} : work'[j] = work[j]
    BY <2>1, <2>2 DEF Row
  <2> QED BY <2>1, <2>2, <2>3
<1>5. CASE Prunes
  BY <1>5 DEF Prunes
<1> QED BY <1>1, <1>2, <1>3, <1>4, <1>5 DEF TableStep

\* No step changes a settled row that it does not remove.
LEMMA SettledStep ==
    ASSUME TypeOK, TableStep
    PROVE  \A i \in DOMAIN work \cap DOMAIN work' :
              work[i].state \in Settled => work'[i] = work[i]
<1> USE DEF InState, Live, Settled
<1>0. RowsOK BY DEF TypeOK, RowsOK
<1>1. CASE Closes
  <2>1. PICK S \in SUBSET InState(Live), to \in Settled : Marked(S, to)
    BY <1>0, <1>1, ClosesFacts
  <2> QED BY <2>1 DEF Marked, Settled
<1>2. CASE Opens
  BY <1>2 DEF Opens
<1>3. CASE Picks
  BY <1>3 DEF Picks
<1>4. CASE Prunes
  BY <1>4 DEF Prunes
<1> QED BY <1>1, <1>2, <1>3, <1>4 DEF TableStep

------------------------------------------------------------------------------
(* The hands the units are in.  NoOrphanClaim and UnitHeldOnce are not         *)
(* inductive: one needs to know that a unit leaves a worker settled, the       *)
(* other that a new unit is not in somebody's hands already.                   *)

Unsettled  == {"claimed", "running", "returned", "panicked"}
Registered == {"running", "returned", "settled"}

\* A unit whose worker has not settled it is claimed, or was killed.
InHand ==
    \A w \in Workers : worker[w].pc \in Unsettled =>
        work[worker[w].unit].state \in {"claimed", "dead"}

\* A unit whose worker is done with it has lost its claim, or it never will.
LetGo ==
    \A w \in Workers : worker[w].pc = "settled" =>
        work[worker[w].unit].state # "claimed" \/ worker[w].unit \in lost

\* What is registered is what the workers have registered.
RegisteredBySomebody ==
    \A i \in running : \E w \in Workers : worker[w].unit = i /\ worker[w].pc \in Registered

Hands ==
    /\ HeldKnown
    /\ InHand
    /\ LetGo
    /\ RegisteredBySomebody
    /\ UnitHeldOnce
    /\ NoOrphanClaim

IInv == TypeOK /\ LaneExclusive /\ OneAttempt /\ Hands

\* A row that is inserted has an id nobody used, and disturbs no other row.
LEMMA InsertFacts ==
    ASSUME NEW i, NEW row, Insert(i, row)
    PROVE  /\ i \in Ids /\ i \notin DOMAIN work
           /\ DOMAIN work' = DOMAIN work \cup {i}
           /\ work'[i] = row
           /\ \A j \in DOMAIN work : work'[j] = work[j]
BY DEF Insert, NextId, Ids

\* The hands stay consistent, whatever the process does.
LEMMA ProcessHands ==
    ASSUME TypeOK, Hands, Start \/ Stop \/ Exit \/ Crash \/ Tick PROVE Hands'
<1> USE DEF Hands, HeldKnown, Known, InHand, LetGo, RegisteredBySomebody, UnitHeldOnce,
            NoOrphanClaim, Executing, Held, InState, Alive
<1>0. RowsOK BY DEF TypeOK, RowsOK
<1>1. CASE Start
  <2>1. CASE work' = Mark(InState({"claimed"}), "dead")
    <3>1. Marked(InState({"claimed"}), "dead")
      BY <1>0, <2>1, MarkedByMark
    <3> QED BY <1>1, <3>1 DEF Start, Marked, volatile, TypeOK, Unsettled
  <2>2. CASE UNCHANGED work /\ lost' = InState({"claimed"})
    BY <1>1, <2>2 DEF Start, volatile, TypeOK
  <2> QED BY <1>1, <2>1, <2>2 DEF Start
<1>2. CASE Stop
  <2>1. \A w \in Workers : /\ worker'[w].pc = worker[w].pc
                           /\ worker'[w].unit = worker[w].unit
    BY <1>2 DEF Stop, TypeOK
  <2>2. UNCHANGED <<work, chat, running, killing, lost>> /\ Alive /\ Alive'
    BY <1>2 DEF Stop
  <2>3. Executing' = Executing /\ Held' = Held
    BY <2>1, <2>2
  <2>4. HeldKnown' /\ InHand' /\ LetGo' /\ RegisteredBySomebody'
    BY <2>1, <2>2
  <2>5. UnitHeldOnce' /\ NoOrphanClaim'
    BY <2>1, <2>2, <2>3
  <2> QED BY <2>4, <2>5
<1>3. CASE Exit \/ Crash
  BY <1>3 DEF Exit, Crash, Forgotten, IdleWorker, Unsettled
<1>4. CASE Tick
  BY <1>4 DEF Tick, volatile
<1> QED BY <1>1, <1>2, <1>3, <1>4

\* A row that arrives waiting is in nobody's hands.
LEMMA EnqueueHands ==
    ASSUME TypeOK, Hands, NEW i \in Ids, NEW l, NEW k, NEW j, NEW t, Enqueue(i, l, k, j, t)
    PROVE  Hands'
<1> USE DEF Hands, HeldKnown, Known, InHand, LetGo, RegisteredBySomebody, UnitHeldOnce,
            NoOrphanClaim, Executing, Held, InState, Alive
<1> DEFINE row == [state |-> "queued", lane |-> l, key |-> k, job |-> j,
                   after |-> t, attempts |-> 0]
<1>1. Insert(i, row) /\ UNCHANGED <<worker, chat, running, lost, proc>>
  BY DEF Enqueue, volatile
<1>2. row.state = "queued"
  OBVIOUS
<1> HIDE DEF row
<1>3. /\ i \notin DOMAIN work
      /\ DOMAIN work' = DOMAIN work \cup {i}
      /\ work'[i].state = "queued"
      /\ \A m \in DOMAIN work : work'[m] = work[m]
  BY <1>1, <1>2, InsertFacts
<1>4. HeldKnown' /\ InHand' /\ LetGo'
  BY <1>1, <1>3 DEF Unsettled
<1>5. RegisteredBySomebody' /\ UnitHeldOnce' /\ NoOrphanClaim'
  BY <1>1, <1>3
<1> QED BY <1>4, <1>5

\* What the pool does to the record of one worker.
WorkerNow(w, pc, unit) ==
    /\ worker'[w].pc = pc /\ worker'[w].unit = unit
    /\ \A v \in Workers \ {w} : worker'[v] = worker[v]

\* A claimed unit was waiting, so nobody held it.
LEMMA ClaimHands ==
    ASSUME TypeOK, Hands, NEW w \in Workers, NEW i \in Ids, Claim(w, i)
    PROVE  Hands'
<1> USE DEF Hands, HeldKnown, Known, InHand, LetGo, RegisteredBySomebody, UnitHeldOnce,
            NoOrphanClaim, Executing, Held, InState, Alive
<1>1. WorkerNow(w, "claimed", i) /\ worker[w].pc = "idle"
  BY DEF Claim, TypeOK, WorkerNow
<1>2. UNCHANGED <<chat, running, lost, proc>>
  BY DEF Claim
<1>3. i \in DOMAIN work /\ work[i].state = "queued"
  BY DEF Claim, Claimable
<1>4. /\ DOMAIN work' = DOMAIN work
      /\ work'[i].state = "claimed"
      /\ \A j \in DOMAIN work \ {i} : work'[j] = work[j]
  BY <1>3 DEF Claim, TypeOK, Row
<1>5. HeldKnown' /\ InHand' /\ LetGo'
  BY <1>1, <1>2, <1>3, <1>4 DEF WorkerNow, Unsettled
<1>6. RegisteredBySomebody'
  BY <1>1, <1>2 DEF WorkerNow, Registered, Claim
<1>7. UnitHeldOnce'
  <2>1. i # 0
    BY DEF Ids
  <2> QED BY <1>1, <1>2, <1>3, <2>1 DEF WorkerNow
<1>8. NoOrphanClaim'
  BY <1>1, <1>2, <1>3, <1>4 DEF WorkerNow
<1> QED BY <1>5, <1>6, <1>7, <1>8

\* Registering and returning: the unit stays in the same hands.
LEMMA RunHands ==
    ASSUME TypeOK, Hands, NEW w \in Workers, Register(w) \/ Return(w) \/ Panic(w)
    PROVE  Hands'
<1> USE DEF Hands, HeldKnown, Known, InHand, LetGo, RegisteredBySomebody, UnitHeldOnce,
            NoOrphanClaim, Executing, Held, InState, Alive
<1>1. UNCHANGED <<work, chat, lost, proc>>
  BY DEF Register, Return, Panic
<1>2. CASE Register(w)
  <2>1. WorkerNow(w, "running", worker[w].unit) /\ worker[w].pc = "claimed"
        /\ running' = running \cup {worker[w].unit}
    BY <1>2 DEF Register, TypeOK, WorkerNow
  <2> QED BY <1>1, <2>1 DEF WorkerNow, Unsettled, Registered
<1>3. CASE Return(w)
  <2>1. WorkerNow(w, "returned", worker[w].unit) /\ worker[w].pc = "running"
        /\ running' = running
    BY <1>3 DEF Return, TypeOK, WorkerNow
  <2> QED BY <1>1, <2>1 DEF WorkerNow, Unsettled, Registered
<1>4. CASE Panic(w)
  <2>1. WorkerNow(w, "panicked", worker[w].unit) /\ worker[w].pc = "running"
        /\ running' = running \ {worker[w].unit}
    BY <1>4 DEF Panic, TypeOK, WorkerNow
  <2> QED BY <1>1, <2>1 DEF WorkerNow, Unsettled, Registered
<1> QED BY <1>2, <1>3, <1>4

\* A row that Update reaches, and the rows it does not.
LEMMA UpdateFacts ==
    ASSUME RowsOK, NEW i, NEW from, NEW to, Update(i, from, to)
    PROVE  /\ DOMAIN work' = DOMAIN work
           /\ \A j \in DOMAIN work :
                 work'[j].state = IF j = i /\ work[j].state \in from THEN to ELSE work[j].state
<1>1. Marked({i} \cap InState(from), to)
  BY MarkedByMark DEF Update
<1> QED BY <1>1 DEF Marked, InState

\* A worker lets go of a unit only when it is no longer claimed or is known lost.
LEMMA SettleHands ==
    ASSUME TypeOK, Hands, NEW w \in Workers, SettleUnit(w) \/ SettleFails(w)
    PROVE  Hands'
<1> USE DEF Hands, HeldKnown, Known, InHand, LetGo, RegisteredBySomebody, UnitHeldOnce,
            NoOrphanClaim, Executing, Held, InState, Alive
<1> DEFINE u == worker[w].unit
<1>0. RowsOK BY DEF TypeOK, RowsOK
<1>1. UNCHANGED <<chat, running, proc>> /\ worker[w].pc \in {"returned", "panicked"}
  BY DEF SettleUnit, SettleFails
<1>2. /\ DOMAIN work' = DOMAIN work
      /\ \A j \in DOMAIN work : \/ work'[j].state = work[j].state
                                \/ j = u /\ work[j].state = "claimed" /\ work'[j].state = "done"
      /\ lost \subseteq lost'
      /\ work'[u].state # "claimed" \/ u \in lost'
  <2>1. u \in DOMAIN work
    BY <1>1
  <2>2. CASE SettleUnit(w)
    BY <1>0, <2>1, <2>2, UpdateFacts DEF SettleUnit
  <2>3. CASE SettleFails(w)
    BY <2>1, <2>3 DEF SettleFails
  <2> QED BY <2>2, <2>3
<1>3. \/ worker[w].pc = "returned" /\ WorkerNow(w, "settled", u)
      \/ worker[w].pc = "panicked" /\ WorkerNow(w, "idle", 0)
  BY <1>1 DEF SettleUnit, SettleFails, AfterSettle, IdleWorker, TypeOK, WorkerNow
<1> HIDE DEF u
<1> QED BY <1>1, <1>2, <1>3 DEF WorkerNow, Unsettled, Registered, u

\* Unregistering takes exactly the unit that is let go.
LEMMA UnregisterHands ==
    ASSUME TypeOK, Hands, NEW w \in Workers, Unregister(w)
    PROVE  Hands'
<1> USE DEF Hands, HeldKnown, Known, InHand, LetGo, RegisteredBySomebody, UnitHeldOnce,
            NoOrphanClaim, Executing, Held, InState, Alive
<1>1. UNCHANGED <<work, chat, lost, proc>> /\ worker[w].pc = "settled"
      /\ WorkerNow(w, "idle", 0) /\ running' = running \ {worker[w].unit}
  BY DEF Unregister, IdleWorker, TypeOK, WorkerNow
<1> QED BY <1>1 DEF WorkerNow, Unsettled, Registered

\* A chat turn holds a row of its own, and gives it up settled or known lost.
LEMMA ChatHands ==
    ASSUME TypeOK, Hands, NEW c \in Chats, ChatStep(c)
    PROVE  Hands'
<1> USE DEF Hands, HeldKnown, Known, InHand, LetGo, RegisteredBySomebody, UnitHeldOnce,
            NoOrphanClaim, Executing, Held, InState, Alive
<1>0. RowsOK BY DEF TypeOK, RowsOK
<1>1. ASSUME NEW i \in Ids, NEW l \in Lanes, NEW j \in Jobs, ChatClaim(c, i, l, j)
      PROVE  Hands'
  <2> DEFINE row == [state |-> "claimed", lane |-> l, key |-> NoKey, job |-> j,
                     after |-> clock, attempts |-> 1]
  <2>1. Insert(i, row) /\ UNCHANGED <<worker, running, lost, proc>>
    BY <1>1 DEF ChatClaim
  <2>2. row.state = "claimed"
    OBVIOUS
  <2>3. chat' = [chat EXCEPT ![c] = i] /\ chat[c] = 0 /\ i # 0
    BY <1>1 DEF ChatClaim, Ids
  <2> HIDE DEF row
  <2>4. /\ i \notin DOMAIN work
        /\ DOMAIN work' = DOMAIN work \cup {i}
        /\ work'[i].state = "claimed"
        /\ \A m \in DOMAIN work : work'[m] = work[m]
    BY <2>1, <2>2, InsertFacts
  <2>5. chat'[c] = i /\ \A d \in Chats \ {c} : chat'[d] = chat[d]
    BY <2>3 DEF TypeOK
  <2>6. HeldKnown' /\ InHand' /\ LetGo' /\ RegisteredBySomebody'
    BY <2>1, <2>4, <2>5 DEF Unsettled
  <2>7. UnitHeldOnce'
    BY <2>1, <2>3, <2>4, <2>5
  <2>8. NoOrphanClaim'
    BY <2>1, <2>3, <2>4, <2>5
  <2> QED BY <2>6, <2>7, <2>8
<1>2. ASSUME NEW i \in Ids, NEW l \in Lanes, NEW j \in Jobs, ChatClaimUnread(c, i, l, j)
      PROVE  Hands'
  <2>1. PICK row : Insert(i, row)
    BY <1>2 DEF ChatClaimUnread
  <2>2. UNCHANGED <<worker, chat, running, proc>> /\ lost' = lost \cup {i}
    BY <1>2 DEF ChatClaimUnread, volatile
  <2>3. /\ i \notin DOMAIN work
        /\ DOMAIN work' = DOMAIN work \cup {i}
        /\ \A m \in DOMAIN work : work'[m] = work[m]
    BY <2>1, InsertFacts
  <2>4. HeldKnown' /\ InHand' /\ LetGo' /\ RegisteredBySomebody'
    BY <2>2, <2>3 DEF Unsettled
  <2>5. UnitHeldOnce' /\ NoOrphanClaim'
    BY <2>2, <2>3
  <2> QED BY <2>4, <2>5
<1>3. CASE ChatSettle(c) \/ ChatSettleFails(c)
  <2> DEFINE u == chat[c]
  <2>1. UNCHANGED <<worker, running, proc>> /\ chat[c] # 0
    BY <1>3 DEF ChatSettle, ChatSettleFails
  <2>2. /\ DOMAIN work' = DOMAIN work
        /\ \A j \in DOMAIN work : \/ work'[j].state = work[j].state
                                  \/ j = u /\ work[j].state = "claimed" /\ work'[j].state = "done"
        /\ lost \subseteq lost'
        /\ work'[u].state # "claimed" \/ u \in lost'
    <3>1. u \in DOMAIN work
      BY <2>1
    <3>2. CASE ChatSettle(c)
      BY <1>0, <3>1, <3>2, UpdateFacts DEF ChatSettle
    <3>3. CASE ChatSettleFails(c)
      BY <3>1, <3>3 DEF ChatSettleFails
    <3> QED BY <1>3, <3>2, <3>3
  <2>3. chat'[c] = 0 /\ \A d \in Chats \ {c} : chat'[d] = chat[d]
    BY <1>3 DEF ChatSettle, ChatSettleFails, TypeOK
  <2> HIDE DEF u
  <2>4. HeldKnown' /\ RegisteredBySomebody'
    BY <2>1, <2>2, <2>3
  <2>5. LetGo'
    BY <2>1, <2>2
  <2>6. UnitHeldOnce'
    <3>1. \A w \in Executing : worker[w].unit # 0
      BY DEF TypeOK, Ids
    <3> QED BY <2>1, <2>3, <3>1
  <2>7. InHand'
    BY <2>1, <2>2 DEF Unsettled, u
  <2>8. NoOrphanClaim'
    BY <2>1, <2>2, <2>3 DEF u
  <2> QED BY <2>4, <2>5, <2>6, <2>7, <2>8
<1> QED BY <1>1, <1>2, <1>3 DEF ChatStep

\* A killed unit stays where it is, without its claim.
LEMMA CancelHands ==
    ASSUME TypeOK, Hands, NEW i \in Ids, Kill(i) \/ CancelRunning(i)
    PROVE  Hands'
<1> USE DEF Hands, HeldKnown, Known, InHand, LetGo, RegisteredBySomebody, UnitHeldOnce,
            NoOrphanClaim, Executing, Held, InState, Alive
<1>0. RowsOK BY DEF TypeOK, RowsOK
<1>1. CASE Kill(i)
  <2>1. UNCHANGED <<worker, chat, running, proc>> /\ lost' = lost \ {i} /\ i \in DOMAIN work
    BY <1>1 DEF Kill
  <2>2. /\ DOMAIN work' = DOMAIN work
        /\ work'[i].state = "dead"
        /\ \A j \in DOMAIN work \ {i} : work'[j].state = work[j].state
    BY <1>0, <1>1, UpdateFacts DEF Kill
  <2>3. HeldKnown' /\ LetGo' /\ RegisteredBySomebody' /\ UnitHeldOnce'
    BY <2>1, <2>2
  <2>4. InHand' /\ NoOrphanClaim'
    BY <2>1, <2>2 DEF Unsettled
  <2> QED BY <2>3, <2>4
<1>2. CASE CancelRunning(i)
  <2>1. \A w \in Workers : /\ worker'[w].pc = worker[w].pc
                           /\ worker'[w].unit = worker[w].unit
    BY <1>2 DEF CancelRunning, TypeOK
  <2>2. UNCHANGED <<work, chat, running, lost, proc>>
    BY <1>2 DEF CancelRunning
  <2>3. Executing' = Executing /\ Held' = Held
    BY <2>1, <2>2
  <2>4. HeldKnown' /\ InHand' /\ LetGo' /\ RegisteredBySomebody'
    BY <2>1, <2>2
  <2>5. UnitHeldOnce' /\ NoOrphanClaim'
    BY <2>1, <2>2, <2>3
  <2> QED BY <2>4, <2>5
<1> QED BY <1>1, <1>2

\* The pruner does not reach what is held.
LEMMA PruneHands ==
    ASSUME TypeOK, Hands, NEW S \in SUBSET Ids, Prune(S)
    PROVE  Hands'
<1> USE DEF Hands, HeldKnown, Known, InHand, LetGo, RegisteredBySomebody, UnitHeldOnce,
            NoOrphanClaim, Executing, Held, InState, Alive
<1>1. UNCHANGED <<worker, chat, running, lost, proc>>
  BY DEF Prune, volatile
<1>2. /\ DOMAIN work' = DOMAIN work \ S
      /\ \A j \in DOMAIN work' : work'[j] = work[j]
      /\ S \cap Held = {}
  BY DEF Prune
<1>3. HeldKnown' /\ InHand' /\ LetGo'
  BY <1>1, <1>2 DEF Unsettled
<1>4. RegisteredBySomebody' /\ UnitHeldOnce'
  BY <1>1
<1>5. NoOrphanClaim'
  BY <1>1, <1>2
<1> QED BY <1>3, <1>4, <1>5

\* The invariant is inductive.
LEMMA InvStep == ASSUME IInv, [Next]_vars PROVE IInv'
<1> USE DEF IInv
<1>1. TypeOK'
  BY TypeStep DEF Hands
<1>2. LaneExclusive' /\ OneAttempt'
  BY TableSteps, LaneStep, AttemptStep
<1>3. Hands'
  <2>1. ASSUME NEW w \in Workers, PoolStep(w) PROVE Hands'
    BY <2>1, ClaimHands, RunHands, SettleHands, UnregisterHands DEF PoolStep
  <2>2. CASE UNCHANGED vars
    BY <2>2 DEF vars, Hands, HeldKnown, Known, InHand, LetGo, RegisteredBySomebody,
                UnitHeldOnce, NoOrphanClaim, Executing, Held, InState, Alive
  <2>3. ASSUME NEW i \in Ids, NEW l \in Lanes, NEW k \in Keys \cup {NoKey}, NEW j \in Jobs,
               NEW t \in Times, Enqueue(i, l, k, j, t)
        PROVE  Hands'
    BY <2>3, EnqueueHands
  <2> QED BY <2>1, <2>2, <2>3, ProcessHands, ChatHands, CancelHands, PruneHands DEF Next
<1> QED BY <1>1, <1>2, <1>3

LEMMA InvInit == Init => IInv
BY QueueConstants
   DEF Init, IInv, TypeOK, Ids, Times, WorkerPCs, IdleWorker, LaneExclusive, OneAttempt, InState,
       Hands, HeldKnown, InHand, LetGo, RegisteredBySomebody, UnitHeldOnce, NoOrphanClaim,
       Executing, Alive, Unsettled

------------------------------------------------------------------------------
(* The theorems.                                                           *)

\* The strengthening holds in every reachable state.
THEOREM Inductive == Spec => []IInv
<1>1. IInv /\ [Next]_vars => IInv'
  BY InvStep
<1> QED BY InvInit, <1>1, PTL DEF Spec

\* Every variable stays within its type (the columns of the table, the fields of
\* Pool, work.go and pool.go).
THEOREM TypeCorrect == Spec => []TypeOK
BY Inductive, PTL DEF IInv

\* Never two claimed units in one lane, over claims, chat turns, failing
\* statements, cancels, crashes and restarts (work.go Claim, ClaimNow).
THEOREM LanesExclusive == Spec => []LaneExclusive
BY Inductive, PTL DEF IInv

\* No lane of a live process is held by nobody, but for the statements that
\* failed (pool.go Start, execute).
THEOREM NoClaimOrphaned == Spec => []NoOrphanClaim
BY Inductive, PTL DEF IInv, Hands

\* A unit is never in two pairs of hands, reused ids included (work.go).
THEOREM HeldOnce == Spec => []UnitHeldOnce
BY Inductive, PTL DEF IInv, Hands

\* A unit is claimed at most once in its life (work.go ReleaseClaims).
THEOREM AttemptedOnce == Spec => []OneAttempt
BY Inductive, PTL DEF IInv

\* A settled unit stays as it was settled until it is pruned (work.go Settle,
\* Kill): of any behaviour, from any state the types allow.
THEOREM SettledForGood == Spec => SettledStays
<1>1. TypeOK /\ [Next]_vars =>
         [\A i \in DOMAIN work \cap DOMAIN work' :
             work[i].state \in Settled => work'[i] = work[i]]_work
  BY TableSteps, SettledStep
<1> QED BY <1>1, TypeCorrect, PTL DEF Spec, SettledStays

\* What a cancel finds registered is being executed (pool.go execute, Cancel).
THEOREM RegisteredExecutes == Spec => []RegisteredIsExecuting
<1>1. IInv => RegisteredIsExecuting
  BY DEF IInv, Hands, HeldKnown, Known, RegisteredBySomebody, Registered,
         RegisteredIsExecuting, Executing
<1> QED BY <1>1, Inductive, PTL

\* Two unfinished runs in one lane: one of the two units was killed (work.go
\* Kill, pool.go execute).
THEOREM OverlapIsKilled == Spec => []OverlapOnlyAfterKill
<1>1. IInv => OverlapOnlyAfterKill
  <2> SUFFICES ASSUME IInv, NEW v \in Executing, NEW w \in Executing, v # w,
                      {worker[v].pc, worker[w].pc} \subseteq Unsettled,
                      work[worker[v].unit].lane = work[worker[w].unit].lane
               PROVE  \E x \in {v, w} : work[worker[x].unit].state = "dead"
    BY DEF OverlapOnlyAfterKill, Unsettled
  <2>1. worker[v].unit # worker[w].unit
    BY DEF IInv, Hands, UnitHeldOnce
  <2>2. /\ worker[v].unit \in DOMAIN work /\ worker[w].unit \in DOMAIN work
        /\ work[worker[v].unit].state \in {"claimed", "dead"}
        /\ work[worker[w].unit].state \in {"claimed", "dead"}
    BY DEF IInv, Hands, HeldKnown, Known, InHand, Executing
  <2>3. ~(work[worker[v].unit].state = "claimed" /\ work[worker[w].unit].state = "claimed")
    BY <2>1, <2>2 DEF IInv, LaneExclusive, InState
  <2> QED BY <2>2, <2>3
<1> QED BY <1>1, Inductive, PTL

\* All of it at once: every claimed unit is in one pair of hands, for the one time it
\* is tried, and what can be cancelled is in the hands that are named (pool.go
\* execute, work.go Claim, ClaimNow, Kill).
THEOREM EveryHandIsRight == Spec => []HandsAreRight
<1>1. /\ NoOrphanClaim /\ UnitHeldOnce /\ OneAttempt /\ RegisteredIsExecuting
      /\ OverlapOnlyAfterKill
      => HandsAreRight
  BY DEF HandsAreRight
<1> QED
  BY <1>1, NoClaimOrphaned, HeldOnce, AttemptedOnce, RegisteredExecutes, OverlapIsKilled, PTL

------------------------------------------------------------------------------
(* The table implements the promise: each of the five things a step may do to *)
(* it is a step of LaneQueue, or changes nothing of what LaneQueue sees.       *)

LEMMA PromisedFacts ==
    ASSUME RowsOK
    PROVE  /\ DOMAIN Promised = DOMAIN work
           /\ \A i \in DOMAIN work :
                 /\ Promised[i] = [phase |-> Promised[i].phase, lane |-> work[i].lane]
                 /\ Promised[i].lane = work[i].lane
                 /\ Promised[i].phase = "waiting" <=> work[i].state = "queued"
                 /\ Promised[i].phase = "working" <=> work[i].state = "claimed"
                 /\ Promised[i].phase = "over" <=> work[i].state \in Settled
BY DEF RowsOK, Promised, Phase, Row, Live, Settled

\* A lane that is free in the table is a lane nobody works in.
LEMMA FreeIsIdle ==
    ASSUME RowsOK, NEW l, LaneFree(l) PROVE Promise!Working(l) = {}
BY PromisedFacts DEF Promise!Working, LaneFree, InState

LEMMA PromiseStep ==
    ASSUME TypeOK, [Next]_vars PROVE Promise!Next \/ UNCHANGED Promised
<1>0. RowsOK /\ TableStep
  BY TableSteps DEF TypeOK, RowsOK
<1>1. CASE work' = work
  BY <1>1 DEF Promised
<1>2. CASE Closes
  <2>1. PICK S \in SUBSET InState(Live), to \in Settled : Marked(S, to)
    BY <1>0, <1>2, ClosesFacts
  <2>2. S \in SUBSET Promise!Ids
    BY <1>0 DEF RowsOK, Ids, Promise!Ids, InState
  <2>3. \A i \in S : i \in DOMAIN Promised /\ Promised[i].phase # "over"
    BY <1>0, PromisedFacts DEF InState, Live, Settled
  <2>4. Promised' = [i \in DOMAIN Promised |->
                       IF i \in S THEN [phase |-> "over", lane |-> Promised[i].lane]
                                  ELSE Promised[i]]
    BY <1>0, <2>1 DEF Promised, Marked, Phase, Settled
  <2>5. Promise!Close(S)
    BY <2>3, <2>4 DEF Promise!Close
  <2> QED BY <2>2, <2>5 DEF Promise!Next
<1>3. CASE Opens
  <2>1. PICK i \in Ids, row \in Row :
           /\ i \notin DOMAIN work
           /\ \/ row.state = "queued" /\ row.attempts = 0
              \/ row.state = "claimed" /\ row.attempts = 1 /\ LaneFree(row.lane)
           /\ work' = [j \in DOMAIN work \cup {i} |-> IF j = i THEN row ELSE work[j]]
    BY <1>3 DEF Opens
  <2>2. i \in Promise!Ids /\ row.lane \in Lanes /\ i \notin DOMAIN Promised
    BY <1>0, <2>1, PromisedFacts DEF Ids, Promise!Ids, Row
  <2>3. Promised' = Promise!With(i, [phase |-> Phase[row.state], lane |-> row.lane])
    BY <2>1 DEF Promised, Promise!With
  <2>4. CASE row.state = "queued"
    <3>1. Promise!Submit(i, row.lane)
      BY <2>2, <2>3, <2>4 DEF Promise!Submit, Phase
    <3> QED BY <2>2, <3>1 DEF Promise!Next
  <2>5. CASE row.state = "claimed" /\ LaneFree(row.lane)
    <3>1. Promise!Seize(i, row.lane)
      BY <1>0, <2>2, <2>3, <2>5, FreeIsIdle DEF Promise!Seize, Phase
    <3> QED BY <2>2, <3>1 DEF Promise!Next
  <2> QED BY <2>1, <2>4, <2>5
<1>4. CASE Picks
  <2>1. PICK i \in InState({"queued"}) :
           /\ LaneFree(work[i].lane)
           /\ work' = [work EXCEPT ![i].state = "claimed", ![i].attempts = @ + 1]
    BY <1>4 DEF Picks
  <2>2. i \in DOMAIN work /\ i \in Promise!Ids /\ work[i].state = "queued"
    BY <1>0, <2>1 DEF InState, RowsOK, Ids, Promise!Ids
  <2>3. /\ DOMAIN work' = DOMAIN work
        /\ work'[i].state = "claimed" /\ work'[i].lane = work[i].lane
        /\ \A j \in DOMAIN work \ {i} : work'[j] = work[j]
    BY <1>0, <2>1, <2>2 DEF RowsOK, Row
  <2>4. Promised' = Promise!With(i, [phase |-> "working", lane |-> Promised[i].lane])
    BY <2>2, <2>3 DEF Promised, Promise!With, Phase
  <2>5. Promise!Begin(i)
    BY <1>0, <2>1, <2>2, <2>4, PromisedFacts, FreeIsIdle DEF Promise!Begin
  <2> QED BY <2>2, <2>5 DEF Promise!Next
<1>5. CASE Prunes
  <2>1. PICK S \in SUBSET InState(Settled) : work' = [j \in DOMAIN work \ S |-> work[j]]
    BY <1>5 DEF Prunes
  <2>2. S \in SUBSET Promise!Ids
    BY <1>0 DEF RowsOK, Ids, Promise!Ids, InState
  <2>3. \A i \in S : i \in DOMAIN Promised /\ Promised[i].phase = "over"
    BY <1>0, PromisedFacts DEF InState
  <2>4. Promised' = [i \in DOMAIN Promised \ S |-> Promised[i]]
    BY <2>1 DEF Promised
  <2>5. Promise!Forget(S)
    BY <2>3, <2>4 DEF Promise!Forget
  <2> QED BY <2>2, <2>5 DEF Promise!Next
<1> QED BY <1>0, <1>1, <1>2, <1>3, <1>4, <1>5 DEF TableStep

\* The durable queue is a LaneQueue: whatever workers, chats, cancels and crashes
\* do, the table moves as the abstract queue may (work.go, pool.go).
THEOREM Refinement == Spec => ImplementsLaneQueue
<1>1. Init => Promise!Init
  BY DEF Init, Promise!Init, Promised
<1>2. TypeOK /\ [Next]_vars => [Promise!Next]_Promised
  BY PromiseStep
<1> QED BY <1>1, <1>2, TypeCorrect, PTL DEF Spec, ImplementsLaneQueue, Promise!Spec
==============================================================================
