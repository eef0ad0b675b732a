----------------------------- MODULE AgentProofs ------------------------------
(***************************************************************************)
(* What is promised of agents at work: that the queries that leave, the    *)
(* person who is asked and the log agree (EgressGate), that a plan is      *)
(* followed (PlanPosition) and that the agents of a turn are one run       *)
(* (TurnTree); for any agents, workspaces, operators, places, documents,   *)
(* limits and bounds.                                                      *)
(*                                                                         *)
(* The argument for TurnTree.  Below the top of the stack every agent      *)
(* waits for a call it made (FramesFit), so only the top moves, and when   *)
(* it leaves, the agent below goes on where its call left it.  The record  *)
(* is a tree because what an agent did at depth d is either closed by the  *)
(* call that delegated to it, or that very agent is still at place d + 1   *)
(* (RecordFits).  The ceiling holds because whoever is about to ask the    *)
(* model has just looked at it, and nobody else spends (BudgetFits).       *)
(***************************************************************************)
EXTENDS MCAgents, SequenceTheorems, FiniteSetTheorems, WellFoundedInduction, TLAPS

------------------------------------------------------------------------------
(* The queries that leave.                                                 *)

Held    == {"recorded", "waiting", "unasking", "allowed", "rechecking", "cleared", "settling",
            "refusing"}
AtSlot  == {"waiting", "unasking", "allowed", "rechecking", "cleared", "settling", "leaving"}
Free    == {"idle", "thinking", "asking"}
Willing == {"asking", "recorded", "waiting", "allowed", "rechecking", "cleared"}
Loud    == {"sent", "denied", "timeout", "abandoned"}
Heard   == Loud \cup {"failed"}
Gone    == {"sent", "failed"}

Prints    == {NoGrant} \cup ((0..1) \X (0..1))
Rows      == [agent : Agents, turn : Nat, state : Outcomes \cup {"awaiting"},
              by : Decisions \cup {"none"}]
TurnRecs  == [pc : Held \cup AtSlot \cup Free, turn : Nat, used : Nat, latched : BOOLEAN,
              tainted : BOOLEAN, agent : Agents \cup {"none"}, loaded : 0..1, tok : Nat,
              verdict : Outcomes \cup {"none"}, seen : Prints]
SlotRecs  == [tok : Nat, answered : BOOLEAN, late : BOOLEAN]
ClickRecs == [pc : {"idle", "checked", "sending"}, tok : Nat]

GateTypes ==
    /\ search \in Seq(Rows) /\ Len(search) <= MaxSearches
    /\ asker \in [Workspaces -> TurnRecs] /\ slot \in SlotRecs
    /\ approver \in [Approvers -> ClickRecs]
    /\ told \in [Tokens -> Decisions \cup {"none"}]
    /\ grant \in [Agents -> Prints] /\ role \in [Agents -> 0..1] /\ docs \in [Agents -> 0..1]
    /\ onWire \subseteq DOMAIN search /\ withdrawn \subseteq DOMAIN search
    /\ begun \in Nat

\* A turn that is in a search holds the last row of its own, which waits for its
\* outcome until it is settled.
HoldsItsRow(w) ==
    LET k == asker[w]
    IN /\ k.pc # "idle" => k.agent \in Agents /\ Home[k.agent] = w /\ k.turn \in 1..begun
       /\ k.tok = 0 <=> k.pc \in Free
       /\ k.tok # 0 => /\ k.tok \in DOMAIN search
                       /\ search[k.tok].turn = k.turn /\ search[k.tok].agent = k.agent
                       /\ \A t \in DOMAIN search : search[t].turn = k.turn => t <= k.tok
       /\ k.pc \in Held => search[k.tok].state = "awaiting" /\ search[k.tok].by = "none"
RowsAreHeld == \A w \in Workspaces : HoldsItsRow(w)

TurnsApart == \A v, w \in Workspaces :
    v # w /\ asker[v].pc # "idle" /\ asker[w].pc # "idle" => asker[v].turn # asker[w].turn
RowsOfTurns == \A t \in DOMAIN search : search[t].turn \in 1..begun

\* What it has asked, and heard, and may send.
AsksRightly(w) ==
    LET k == asker[w]
    IN /\ k.pc = "recorded" => /\ told[k.tok] = "none" /\ slot.tok # k.tok /\ k.tok \notin withdrawn
                               /\ \A o \in Approvers : approver[o].tok # k.tok
       /\ k.pc \in AtSlot => slot.tok = k.tok
       /\ k.pc \in {"allowed", "rechecking", "cleared"} => told[k.tok] = "allow"
       /\ k.pc \in Held \ {"settling"} => k.verdict \notin Gone
       /\ k.pc \in Held /\ k.verdict \notin Gone => k.tok \notin onWire
       /\ k.pc = "settling" /\ k.verdict \in Gone => k.tok \in onWire /\ told[k.tok] = "allow"
       /\ k.pc = "refusing" => k.verdict \notin Heard
       /\ k.pc \in {"unasking", "settling", "refusing"} => k.verdict # "none"
       /\ k.pc \in {"waiting", "allowed"} /\ k.tok \in withdrawn => grant[k.agent] = NoGrant
       /\ k.pc = "rechecking" /\ k.tok \in withdrawn => k.seen = NoGrant
       /\ k.pc = "cleared" => k.tok \notin withdrawn
AsksAreRight == \A w \in Workspaces : AsksRightly(w)

\* The slot is somebody's, and each answer is one operator's.
SlotOfOne ==
    /\ slot.tok # 0 => \E w \in Workspaces : asker[w].pc \in AtSlot
    /\ slot.tok # 0 /\ told[slot.tok] # "none" => slot.answered
AnswerRightly(o) ==
    /\ approver[o].pc = "idle" <=> approver[o].tok = 0
    /\ approver[o].tok # 0 => approver[o].tok \in DOMAIN search
    /\ approver[o].pc = "sending" => /\ told[approver[o].tok] = "none"
                                     /\ slot.tok = approver[o].tok => slot.answered
AnswersAreRight ==
    /\ \A o \in Approvers : AnswerRightly(o)
    /\ \A o, p \in Approvers : o # p /\ approver[o].pc = "sending" /\ approver[p].pc = "sending"
                               => approver[o].tok # approver[p].tok
    /\ \A t \in Tokens : t \notin DOMAIN search => told[t] = "none"

\* A turn that was told to be quiet is latched or tainted, and one that may still
\* send was not told.
KeepsQuiet(w) ==
    LET k == asker[w]
    IN \A s \in DOMAIN search :
          k.pc # "idle" /\ search[s].turn = k.turn /\ search[s].state \in Loud
          => (k.latched \/ k.tainted) /\ k.pc \notin Willing
LatchesWhenTold(w) ==
    /\ asker[w].pc = "settling" /\ asker[w].verdict \in Loud \ {"sent"} => asker[w].latched
QuietIsKept == \A w \in Workspaces : KeepsQuiet(w) /\ LatchesWhenTold(w)

\* What is counted, and what a turn in a search has left.
HeardOf(n) == {t \in DOMAIN search : search[t].turn = n /\ search[t].state \in Heard}
Budgets ==
    /\ \A n \in Nat : Cardinality(HeardOf(n)) <= MaxPerTurn
    /\ \A a \in Agents : Cardinality(SentBy(a)) <= MaxPerDay
SpendsRightly(w) ==
    LET k == asker[w]
    IN /\ k.used <= MaxPerTurn
       /\ k.pc \in {"asking", "recorded"} => k.used < MaxPerTurn
       /\ k.pc # "idle" => /\ Cardinality(HeardOf(k.turn)) <= k.used
                           /\ k.pc \in AtSlot \ {"leaving"} => Cardinality(HeardOf(k.turn)) < k.used
       /\ k.pc \in Held \ {"refusing"} => Cardinality(SentBy(k.agent)) < MaxPerDay
SpentRightly == Budgets /\ \A w \in Workspaces : SpendsRightly(w)

GateInv ==
    /\ GateTypes /\ RowsAreHeld /\ TurnsApart /\ RowsOfTurns /\ AsksAreRight /\ SlotOfOne
    /\ AnswersAreRight /\ QuietIsKept /\ SpentRightly
    /\ AllowedOnWire /\ LogIsTrue /\ QuietAfterwards

------------------------------------------------------------------------------
(* Counting.                                                               *)

\* A set that gains one element at most counts one more at most.
LEMMA GrowsByOne ==
    ASSUME NEW S, NEW T, NEW x, IsFiniteSet(S), T \subseteq S \cup {x}
    PROVE  /\ IsFiniteSet(T) /\ Cardinality(S) \in Nat /\ Cardinality(T) \in Nat
           /\ Cardinality(T) <= Cardinality(S) + 1
           /\ T \subseteq S => Cardinality(T) <= Cardinality(S)
<1>1. IsFiniteSet(S \cup {x}) /\ Cardinality(S) \in Nat /\ Cardinality(S \cup {x}) \in Nat
  BY FS_AddElement, FS_CardinalityType
<1>2. Cardinality(S \cup {x}) <= Cardinality(S) + 1
  BY <1>1, FS_AddElement
<1>3. IsFiniteSet(T) /\ Cardinality(T) <= Cardinality(S \cup {x})
  BY <1>1, FS_Subset
<1>4. Cardinality(T) \in Nat
  BY <1>3, FS_CardinalityType
<1>5. T \subseteq S => Cardinality(T) <= Cardinality(S)
  BY FS_Subset
<1> QED BY <1>1, <1>2, <1>3, <1>4, <1>5

LEMMA Countable ==
    ASSUME GateTypes
    PROVE  /\ \A n \in Nat : IsFiniteSet(HeardOf(n)) /\ Cardinality(HeardOf(n)) \in Nat
           /\ \A a \in Agents : IsFiniteSet(SentBy(a)) /\ Cardinality(SentBy(a)) \in Nat
<1>1. IsFiniteSet(DOMAIN search)
  <2>1. DOMAIN search = 1..Len(search) /\ Len(search) \in Nat
    BY DEF GateTypes
  <2> QED BY <2>1, FS_Interval
<1>2. \A n \in Nat : HeardOf(n) \in SUBSET DOMAIN search
  BY DEF HeardOf
<1>3. \A a \in Agents : SentBy(a) \in SUBSET DOMAIN search
  BY DEF SentBy
<1>4. \A T \in SUBSET DOMAIN search : IsFiniteSet(T) /\ Cardinality(T) \in Nat
  BY <1>1, FS_Subset, FS_CardinalityType
<1> QED BY <1>2, <1>3, <1>4

\* A log with one of its rows settled.
LEMMA OneRowSettled ==
    ASSUME NEW q \in Seq(Rows), NEW i \in DOMAIN q, NEW r \in Rows, NEW z, z = [q EXCEPT ![i] = r]
    PROVE  /\ z \in Seq(Rows) /\ Len(z) = Len(q) /\ DOMAIN z = DOMAIN q
           /\ z[i] = r /\ \A t \in DOMAIN q : t # i => z[t] = q[t]
OBVIOUS

------------------------------------------------------------------------------
(* Initially.                                                              *)

LEMMA GateInvInit == GateInit => GateInv
<1> SUFFICES ASSUME GateInit PROVE GateInv
  OBVIOUS
<1> USE GateConstants DEF GateInit
<1>1. DOMAIN search = {} /\ Len(search) = 0 /\ search \in Seq(Rows)
  OBVIOUS
<1>2. NoTurn \in TurnRecs /\ NoTurn.pc = "idle" /\ NoTurn.tok = 0 /\ NoTurn.used = 0
  BY DEF NoTurn, TurnRecs, Held, AtSlot, Free, Prints
<1>3. asker \in [Workspaces -> TurnRecs] /\ \A w \in Workspaces : asker[w] = NoTurn
  BY <1>2
<1>4. slot \in SlotRecs /\ slot.tok = 0
  BY DEF NoSlot, SlotRecs
<1>5. approver \in [Approvers -> ClickRecs] /\ \A o \in Approvers : approver[o].pc = "idle" /\ approver[o].tok = 0
  BY DEF NoClick, ClickRecs
<1>6. told \in [Tokens -> Decisions \cup {"none"}] /\ \A t \in Tokens : told[t] = "none"
  OBVIOUS
<1>7. grant \in [Agents -> Prints] /\ role \in [Agents -> 0..1] /\ docs \in [Agents -> 0..1]
  BY DEF Prints, NoGrant
<1>8. GateTypes
  BY <1>1, <1>3, <1>4, <1>5, <1>6, <1>7 DEF GateTypes
<1>9. /\ \A n \in Nat : Cardinality(HeardOf(n)) = 0
      /\ \A a \in Agents : Cardinality(SentBy(a)) = 0
  <2>1. /\ \A n \in Nat : HeardOf(n) = {}
        /\ \A a \in Agents : SentBy(a) = {}
    BY <1>1 DEF HeardOf, SentBy
  <2> QED BY <2>1, FS_EmptySet
<1> HIDE DEF NoTurn, GateInit
<1>10. RowsAreHeld /\ TurnsApart /\ RowsOfTurns /\ QuietIsKept
  BY <1>1, <1>2, <1>3 DEF RowsAreHeld, HoldsItsRow, TurnsApart, RowsOfTurns, QuietIsKept, KeepsQuiet, LatchesWhenTold,
     Free, Held
<1>11. AsksAreRight /\ SlotOfOne /\ AnswersAreRight
  BY <1>1, <1>2, <1>3, <1>4, <1>5, <1>6 DEF AsksAreRight, AsksRightly, SlotOfOne, AnswersAreRight, AnswerRightly,
     Held, AtSlot
<1>12. SpentRightly
  BY <1>2, <1>3, <1>9 DEF SpentRightly, Budgets, SpendsRightly, Held, AtSlot
<1>13. AllowedOnWire /\ LogIsTrue /\ QuietAfterwards
  BY <1>1 DEF GateInit, AllowedOnWire, LogIsTrue, QuietAfterwards
<1> QED BY <1>8, <1>10, <1>11, <1>12, <1>13 DEF GateInv

------------------------------------------------------------------------------
(* One turn moves.                                                         *)

\* What the turn of w may do to the log: nothing, a row more, its own row settled.
LogEvolves(w) ==
    /\ search' \in Seq(Rows) /\ Len(search') <= MaxSearches /\ DOMAIN search \subseteq DOMAIN search'
    /\ \A t \in DOMAIN search :
          /\ search'[t].turn = search[t].turn /\ search'[t].agent = search[t].agent
          /\ search'[t] = search[t] \/ (asker[w].pc # "idle" /\ asker[w].tok # 0 /\ t = asker[w].tok)
    /\ \A t \in DOMAIN search' : t \notin DOMAIN search =>
          /\ asker[w].pc # "idle" /\ search'[t].turn = asker[w].turn
          /\ search'[t].agent = asker[w].agent /\ search'[t].state = "awaiting" /\ search'[t].by = "none"

\* What it may do to the slot: nothing, take it when it is free, free it when it is its own.
SlotTurns(w) ==
    \/ slot'.tok = slot.tok
    \/ slot.tok = 0 /\ asker[w].pc = "recorded" /\ slot'.tok = asker[w].tok
    \/ asker[w].pc \in AtSlot /\ slot'.tok = 0

\* The turn of w alone moves.
TurnStep(w, k) ==
    /\ asker' = [asker EXCEPT ![w] = k] /\ LogEvolves(w) /\ SlotTurns(w)
    /\ onWire' = onWire \/ (asker[w].pc \in Held /\ onWire' = onWire \cup {asker[w].tok})
    /\ UNCHANGED <<grant, withdrawn, told, approver>> /\ begun <= begun' /\ begun' \in Nat

LEMMA TurnAlone ==
    ASSUME GateTypes, NEW w \in Workspaces, NEW k \in TurnRecs, asker' = [asker EXCEPT ![w] = k]
    PROVE  /\ asker' \in [Workspaces -> TurnRecs] /\ asker'[w] = k
           /\ \A d \in Workspaces : d # w => asker'[d] = asker[d]
BY DEF GateTypes

\* Two turns hold different rows and have different agents.
LEMMA Apart2 ==
    ASSUME GateInv, NEW w \in Workspaces, NEW d \in Workspaces, d # w, asker[d].pc # "idle", asker[w].pc # "idle"
    PROVE  /\ asker[d].turn # asker[w].turn /\ asker[d].agent # asker[w].agent
           /\ asker[d].tok # 0 => asker[d].tok # asker[w].tok
BY DEF GateInv, TurnsApart, RowsAreHeld, HoldsItsRow

LEMMA OthersHold ==
    ASSUME GateInv, NEW w \in Workspaces, NEW k \in TurnRecs, TurnStep(w, k),
           NEW d \in Workspaces, d # w
    PROVE  HoldsItsRow(d)' /\ KeepsQuiet(d)' /\ LatchesWhenTold(d)'
<1>1. asker'[d] = asker[d]
  BY TurnAlone DEF GateInv, TurnStep
<1>2. HoldsItsRow(d) /\ KeepsQuiet(d) /\ LatchesWhenTold(d) /\ asker[d] \in TurnRecs
  BY DEF GateInv, RowsAreHeld, QuietIsKept, GateTypes
<1>3. asker[d].pc # "idle" =>
         /\ \A t \in DOMAIN search : search[t].turn = asker[d].turn => search'[t] = search[t]
         /\ \A t \in DOMAIN search' : t \notin DOMAIN search => search'[t].turn # asker[d].turn
  BY Apart2, <1>2 DEF TurnStep, LogEvolves, GateInv, RowsAreHeld, HoldsItsRow
<1>4. asker[d].tok # 0 => asker[d].pc # "idle"
  BY <1>2 DEF HoldsItsRow, Free
<1>5. \A t \in DOMAIN search : search'[t].turn = search[t].turn
  BY DEF TurnStep, LogEvolves
<1>6. HoldsItsRow(d)'
  <2>1. asker[d].pc \in Held => asker[d].tok # 0
    BY <1>2 DEF HoldsItsRow, Held, Free
  <2>2. begun \in Nat /\ begun' \in Nat /\ begun <= begun' /\ DOMAIN search \subseteq DOMAIN search'
    BY DEF TurnStep, LogEvolves, GateInv, GateTypes
  <2>3. asker[d].pc # "idle" =>
          asker[d].agent \in Agents /\ Home[asker[d].agent] = d /\ asker[d].turn \in 1..begun'
    BY <1>2, <2>2 DEF HoldsItsRow
  <2>4. asker[d].tok # 0 =>
          /\ asker[d].tok \in DOMAIN search' /\ search'[asker[d].tok] = search[asker[d].tok]
          /\ \A t \in DOMAIN search' : search'[t].turn = asker[d].turn => t <= asker[d].tok
    BY <1>2, <1>3, <1>4, <1>5, <2>2 DEF HoldsItsRow
  <2> QED BY <1>1, <1>2, <2>1, <2>3, <2>4 DEF HoldsItsRow
<1>7. KeepsQuiet(d)'
  BY <1>1, <1>2, <1>3, <1>5 DEF KeepsQuiet, TurnStep, LogEvolves
<1>8. LatchesWhenTold(d)'
  BY <1>1, <1>2 DEF LatchesWhenTold
<1> QED BY <1>6, <1>7, <1>8

LEMMA OthersAsk ==
    ASSUME GateInv, NEW w \in Workspaces, NEW k \in TurnRecs, TurnStep(w, k),
           NEW d \in Workspaces, d # w
    PROVE  AsksRightly(d)' /\ SpendsRightly(d)'
<1>1. asker'[d] = asker[d]
  BY TurnAlone DEF GateInv, TurnStep
<1>2. HoldsItsRow(d) /\ AsksRightly(d) /\ SpendsRightly(d) /\ asker[d] \in TurnRecs
  BY DEF GateInv, RowsAreHeld, AsksAreRight, SpentRightly, GateTypes
<1>3. HoldsItsRow(w) /\ AsksRightly(w)
  BY DEF GateInv, RowsAreHeld, AsksAreRight
<1>4. asker[d].tok # 0 /\ asker[w].tok # 0 => asker[d].tok # asker[w].tok
  BY <1>2, <1>3, Apart2 DEF HoldsItsRow, Free
<1>5. asker[d].pc \in Held \cup AtSlot => asker[d].tok # 0 /\ asker[d].pc # "idle"
  BY <1>2 DEF HoldsItsRow, Free, Held, AtSlot
<1>6. asker[w].pc \in Held \cup AtSlot => asker[w].tok # 0
  BY <1>3 DEF HoldsItsRow, Free, Held, AtSlot
<1>7. asker[d].pc \in AtSlot => slot'.tok = asker[d].tok
  BY <1>2, <1>3, <1>4, <1>5, <1>6 DEF TurnStep, SlotTurns, AsksRightly
<1>8. asker[d].pc = "recorded" => slot'.tok # asker[d].tok
  BY <1>2, <1>3, <1>4, <1>5, <1>6 DEF TurnStep, SlotTurns, AsksRightly, Held
<1>9. asker[d].tok # 0 => (asker[d].tok \in onWire' <=> asker[d].tok \in onWire)
  BY <1>4, <1>6 DEF TurnStep
<1>10. AsksRightly(d)'
  BY <1>1, <1>2, <1>5, <1>7, <1>8, <1>9 DEF AsksRightly, TurnStep, Held, AtSlot
<1>11. asker[d].pc # "idle" => HeardOf(asker[d].turn)' = HeardOf(asker[d].turn)
                              /\ SentBy(asker[d].agent)' = SentBy(asker[d].agent)
  <2> SUFFICES ASSUME asker[d].pc # "idle" PROVE HeardOf(asker[d].turn)' = HeardOf(asker[d].turn)
                              /\ SentBy(asker[d].agent)' = SentBy(asker[d].agent)
    OBVIOUS
  <2>1. \A t \in DOMAIN search : search[t].turn = asker[d].turn \/ search[t].agent = asker[d].agent
                                 => search'[t] = search[t]
    BY Apart2, <1>3 DEF TurnStep, LogEvolves, HoldsItsRow
  <2>2. \A t \in DOMAIN search' : t \notin DOMAIN search => search'[t].turn # asker[d].turn
                                                            /\ search'[t].state \notin Heard
    BY Apart2 DEF TurnStep, LogEvolves, Heard, Loud
  <2>3. DOMAIN search \subseteq DOMAIN search' /\ \A t \in DOMAIN search : search'[t].turn = search[t].turn
                                                        /\ search'[t].agent = search[t].agent
    BY DEF TurnStep, LogEvolves
  <2> QED BY <1>1, <2>1, <2>2, <2>3 DEF HeardOf, SentBy, Heard, Loud
<1>12. SpendsRightly(d)'
  <2>1. asker[d].pc \in Held => asker[d].pc # "idle"
    BY <1>5
  <2> QED BY <1>1, <1>2, <1>11, <2>1 DEF SpendsRightly
<1> QED BY <1>10, <1>12


\* A step of one turn that leaves log, slot and wire alone.
LEMMA TurnMoves ==
    ASSUME GateInv, NEW w \in Workspaces, NEW k \in TurnRecs, asker' = [asker EXCEPT ![w] = k],
           UNCHANGED <<search, slot, onWire, grant, role, docs, withdrawn, told, approver>>,
           begun' \in Nat, begun <= begun',
           HoldsItsRow(w)', AsksRightly(w)', KeepsQuiet(w)', LatchesWhenTold(w)', SpendsRightly(w)',
           asker[w].pc \in AtSlot => k.pc \in AtSlot,
           k.pc # "idle" => \/ k.turn = asker[w].turn /\ asker[w].pc # "idle"
                            \/ k.turn \notin 1..begun
    PROVE  GateInv'
<1> USE DEF GateInv
<1>1. asker' \in [Workspaces -> TurnRecs] /\ asker'[w] = k /\ \A d \in Workspaces : d # w => asker'[d] = asker[d]
  BY TurnAlone
<1>2. TurnStep(w, k)
  BY DEF TurnStep, LogEvolves, SlotTurns, GateTypes
<1>3. GateTypes'
  BY <1>1 DEF GateTypes
<1>4. RowsAreHeld' /\ AsksAreRight' /\ QuietIsKept'
  BY <1>2, OthersHold, OthersAsk DEF RowsAreHeld, AsksAreRight, QuietIsKept
<1>5. SpentRightly'
  <2>1. Budgets'
    BY DEF SpentRightly, Budgets, HeardOf, SentBy
  <2> QED BY <1>2, <2>1, OthersAsk DEF SpentRightly
<1>6. TurnsApart'
  <2>1. \A d \in Workspaces : asker[d].pc # "idle" => asker[d].turn \in 1..begun
    BY DEF RowsAreHeld, HoldsItsRow
  <2> QED BY <1>1, <2>1 DEF TurnsApart
<1>7. RowsOfTurns'
  BY DEF RowsOfTurns, GateTypes
<1>8. SlotOfOne'
  <2>1. slot.tok # 0 => \E d \in Workspaces : asker'[d].pc \in AtSlot
    BY <1>1 DEF SlotOfOne
  <2> QED BY <2>1 DEF SlotOfOne
<1>9. AnswersAreRight' /\ AllowedOnWire' /\ LogIsTrue' /\ QuietAfterwards'
  BY DEF AnswersAreRight, AnswerRightly, AllowedOnWire, LogIsTrue, QuietAfterwards
<1> QED BY <1>3, <1>4, <1>5, <1>6, <1>7, <1>8, <1>9

\* The same of a turn that stays in its search, or out of one, with the same agent.
LEMMA TurnWorks ==
    ASSUME GateInv, NEW w \in Workspaces, NEW k \in TurnRecs, asker' = [asker EXCEPT ![w] = k],
           UNCHANGED <<search, slot, onWire, grant, role, docs, withdrawn, told, approver, begun>>,
           asker[w].pc # "idle", k.pc # "idle", k.turn = asker[w].turn, k.used = asker[w].used, k.tok = asker[w].tok,
           k.agent \in Agents, Home[k.agent] = w, k.pc \notin Free => k.agent = asker[w].agent,
           k.pc \in Free <=> asker[w].pc \in Free,
           k.pc \in Held => asker[w].pc \in Held,
           k.pc \in AtSlot <=> asker[w].pc \in AtSlot,
           k.pc \in AtSlot \ {"leaving"} => asker[w].pc \in AtSlot \ {"leaving"},
           k.pc = "recorded" => asker[w].pc = "recorded",
           k.pc \in {"unasking", "settling", "refusing"} => k.verdict # "none",
           k.pc = "asking" => k.used < MaxPerTurn,
           k.pc \in Held => k.verdict \notin Gone /\ k.tok \notin onWire,
           k.pc = "refusing" => k.verdict \notin Heard,
           k.pc \in {"allowed", "rechecking", "cleared"} => told[k.tok] = "allow",
           k.pc \in {"waiting", "allowed"} => asker[w].pc = "waiting" /\ k.agent = asker[w].agent,
           k.pc = "rechecking" /\ k.tok \in withdrawn => k.seen = NoGrant,
           k.pc = "cleared" => k.tok \notin withdrawn,
           asker[w].latched => k.latched, asker[w].tainted => k.tainted,
           k.pc \in Willing /\ asker[w].pc \notin Willing => ~asker[w].latched /\ ~asker[w].tainted,
           k.pc = "settling" /\ k.verdict \in Loud => k.latched
    PROVE  GateInv'
<1> USE DEF GateInv
<1>1. asker'[w] = k
  BY TurnAlone
<1>2. HoldsItsRow(w) /\ AsksRightly(w) /\ KeepsQuiet(w) /\ SpendsRightly(w) /\ asker[w] \in TurnRecs
  BY DEF RowsAreHeld, AsksAreRight, QuietIsKept, SpentRightly, GateTypes
<1>3. HoldsItsRow(w)'
  BY <1>1, <1>2 DEF HoldsItsRow
<1>4. AsksRightly(w)'
  BY <1>1, <1>2 DEF AsksRightly, Held, AtSlot
<1>5. KeepsQuiet(w)' /\ LatchesWhenTold(w)'
  BY <1>1, <1>2 DEF KeepsQuiet, LatchesWhenTold
<1>6. SpendsRightly(w)'
  <2>1. k.pc \in Held \ {"refusing"} => k.agent = asker[w].agent /\ asker[w].pc \in Held \ {"refusing"}
    BY <1>2 DEF Held, AtSlot, Free
  <2>2. /\ HeardOf(asker[w].turn)' = HeardOf(asker[w].turn)
        /\ k.agent = asker[w].agent => SentBy(asker[w].agent)' = SentBy(asker[w].agent)
    BY <1>1 DEF HeardOf, SentBy
  <2>3. k.pc \in AtSlot \ {"leaving"} => asker[w].pc \in AtSlot \ {"leaving"}
    OBVIOUS
  <2> HIDE DEF AtSlot, Held
  <2>4. k.pc = "recorded" => asker[w].pc \in {"asking", "recorded"}
    OBVIOUS
  <2> QED BY <1>1, <1>2, <2>1, <2>2, <2>3, <2>4 DEF SpendsRightly
<1>7. begun' \in Nat /\ begun <= begun'
  BY DEF GateTypes
<1> QED BY <1>3, <1>4, <1>5, <1>6, <1>7, TurnMoves


\* What a turn at work is.
LEMMA AtWork ==
    ASSUME GateInv, NEW w \in Workspaces, asker[w].pc # "idle"
    PROVE  /\ asker[w] \in TurnRecs /\ asker[w].agent \in Agents /\ Home[asker[w].agent] = w
           /\ asker[w].turn \in 1..begun /\ begun \in Nat
           /\ asker[w].tok = 0 <=> asker[w].pc \in Free
           /\ asker[w].pc \in AtSlot => slot.tok = asker[w].tok
           /\ asker[w].tok # 0 => asker[w].tok \in DOMAIN search /\ asker[w].tok \in Tokens
<1>1. Len(search) \in Nat /\ Len(search) <= MaxSearches /\ DOMAIN search = 1..Len(search) /\ MaxSearches \in Nat
  BY GateConstants DEF GateInv, GateTypes
<1> QED BY <1>1 DEF GateInv, GateTypes, RowsAreHeld, HoldsItsRow, AsksAreRight, AsksRightly, Tokens

LEMMA EnterTurnStep == ASSUME GateInv, NEW w \in Workspaces, EnterTurn(w) PROVE GateInv'
<1>1. PICK a \in Agents, unattended \in BOOLEAN :
        /\ Home[a] = w
        /\ Put(w, [NoTurn EXCEPT !.pc = "thinking", !.turn = begun + 1, !.agent = a,
                                 !.loaded = role[a], !.tainted = unattended])
  BY DEF EnterTurn
<1> DEFINE k == [NoTurn EXCEPT !.pc = "thinking", !.turn = begun + 1, !.agent = a,
                               !.loaded = role[a], !.tainted = unattended]
<1>2. begun \in Nat /\ begun' = begun + 1 /\ asker[w].pc = "idle"
      /\ UNCHANGED <<search, slot, onWire, grant, role, docs, withdrawn, told, approver>>
  BY DEF EnterTurn, AskerAt, office, desk, GateInv, GateTypes
<1>3. role[a] \in 0..1
  BY DEF GateInv, GateTypes
<1>4. k \in TurnRecs /\ k.pc = "thinking" /\ k.turn = begun + 1 /\ k.agent = a /\ k.tok = 0 /\ k.used = 0
  <2>1. NoTurn \in TurnRecs /\ NoTurn.tok = 0 /\ NoTurn.used = 0
    BY DEF NoTurn, TurnRecs, Free, Prints
  <2>2. "thinking" \in Held \cup AtSlot \cup Free /\ begun + 1 \in Nat
    BY <1>2 DEF Free
  <2> HIDE DEF NoTurn
  <2> QED BY <1>3, <2>1, <2>2 DEF TurnRecs
<1>5. asker' = [asker EXCEPT ![w] = k]
  BY <1>1 DEF Put
<1> HIDE DEF k
<1>6. asker'[w] = k
  BY <1>4, <1>5, TurnAlone DEF GateInv
<1>7. HoldsItsRow(w)' /\ AsksRightly(w)'
  BY <1>1, <1>2, <1>4, <1>6 DEF HoldsItsRow, AsksRightly, Held, AtSlot, Free
<1>8. \A t \in DOMAIN search : search[t].turn # k.turn
  BY <1>2, <1>4 DEF GateInv, RowsOfTurns
<1>9. KeepsQuiet(w)' /\ LatchesWhenTold(w)'
  BY <1>2, <1>4, <1>6, <1>8 DEF KeepsQuiet, LatchesWhenTold
<1>10. SpendsRightly(w)'
  <2>1. HeardOf(asker[w].turn)' = {} /\ Cardinality({}) = 0
    BY <1>2, <1>4, <1>6, <1>8, FS_EmptySet DEF HeardOf
  <2> QED BY <1>4, <1>6, <2>1, GateConstants DEF SpendsRightly, Held, AtSlot
<1>11. begun' \in Nat /\ begun <= begun' /\ k.turn \notin 1..begun /\ asker[w].pc \notin AtSlot
  BY <1>2, <1>4 DEF AtSlot
<1> QED BY <1>2, <1>4, <1>5, <1>7, <1>9, <1>10, <1>11, TurnMoves

LEMMA LeaveTurnStep == ASSUME GateInv, NEW w \in Workspaces, LeaveTurn(w) PROVE GateInv'
<1>1. /\ asker' = [asker EXCEPT ![w] = NoTurn] /\ begun' \in Nat /\ begun <= begun' /\ asker[w].pc = "thinking"
      /\ UNCHANGED <<search, slot, onWire, grant, role, docs, withdrawn, told, approver>>
  BY DEF LeaveTurn, AskerAt, Put, Elsewhere, office, desk, GateInv, GateTypes
<1>2. NoTurn \in TurnRecs /\ NoTurn.pc = "idle" /\ NoTurn.tok = 0 /\ NoTurn.used = 0
  BY DEF NoTurn, TurnRecs, Free, Prints
<1> HIDE DEF NoTurn
<1>3. asker'[w] = NoTurn
  BY <1>1, <1>2, TurnAlone DEF GateInv
<1>4. HoldsItsRow(w)' /\ AsksRightly(w)' /\ KeepsQuiet(w)' /\ LatchesWhenTold(w)' /\ SpendsRightly(w)'
  BY <1>2, <1>3, GateConstants
     DEF HoldsItsRow, AsksRightly, KeepsQuiet, LatchesWhenTold, SpendsRightly, Held, AtSlot, Free
<1> QED BY <1>1, <1>2, <1>4, TurnMoves DEF AtSlot

\* Between searches: another agent, a stranger's text, a call that gets past the gates.
LEMMA ThinkingStep ==
    ASSUME GateInv, NEW w \in Workspaces, Delegate(w) \/ ReadStranger(w) \/ PassGates(w) PROVE GateInv'
<1>1. /\ asker[w].pc = "thinking" /\ UNCHANGED <<search, slot, onWire, grant, role, docs, withdrawn, told, approver, begun>>
  BY DEF Delegate, ReadStranger, PassGates, AskerAt, Elsewhere, office, desk
<1>2. asker[w] \in TurnRecs /\ asker[w].agent \in Agents /\ Home[asker[w].agent] = w /\ asker[w].tok = 0
  BY <1>1, AtWork DEF Free
<1>3. CASE Delegate(w)
  <2>1. PICK a \in Agents : Home[a] = w /\ Put(w, [asker[w] EXCEPT !.agent = a, !.loaded = role[a]])
    BY <1>3 DEF Delegate
  <2> DEFINE k == [asker[w] EXCEPT !.agent = a, !.loaded = role[a]]
  <2>2. role[a] \in 0..1
    BY DEF GateInv, GateTypes
  <2>3. /\ k \in TurnRecs /\ k.pc = "thinking" /\ k.turn = asker[w].turn /\ k.used = asker[w].used /\ k.tok = 0
        /\ k.agent = a /\ k.latched = asker[w].latched /\ k.tainted = asker[w].tainted
    BY <1>1, <1>2, <2>2 DEF TurnRecs
  <2>4. asker' = [asker EXCEPT ![w] = k]
    BY <2>1 DEF Put
  <2> HIDE DEF k
  <2> QED BY ZenonT(40), <1>1, <1>2, <2>1, <2>3, <2>4, TurnWorks DEF Free, Held, AtSlot, Willing
<1>4. CASE ReadStranger(w)
  <2> DEFINE k == [asker[w] EXCEPT !.tainted = TRUE]
  <2>3. /\ k \in TurnRecs /\ k.pc = "thinking" /\ k.turn = asker[w].turn /\ k.used = asker[w].used /\ k.tok = 0
        /\ k.agent = asker[w].agent /\ k.latched = asker[w].latched /\ k.tainted
    BY <1>1, <1>2 DEF TurnRecs
  <2>4. asker' = [asker EXCEPT ![w] = k]
    BY <1>4 DEF ReadStranger, Put
  <2> HIDE DEF k
  <2> QED BY <1>1, <1>2, <2>3, <2>4, TurnWorks DEF Free, Held, AtSlot, Willing
<1>5. CASE PassGates(w)
  <2> DEFINE k == [asker[w] EXCEPT !.pc = "asking"]
  <2>3. /\ k \in TurnRecs /\ k.pc = "asking" /\ k.turn = asker[w].turn /\ k.used = asker[w].used /\ k.tok = 0
        /\ k.agent = asker[w].agent /\ k.latched = asker[w].latched /\ k.tainted = asker[w].tainted
    BY <1>1, <1>2 DEF TurnRecs, Free
  <2>4. asker' = [asker EXCEPT ![w] = k] /\ ~asker[w].tainted /\ ~asker[w].latched /\ asker[w].used < MaxPerTurn
    BY <1>5 DEF PassGates, Put, MoveTo
  <2> HIDE DEF k
  <2> QED BY <1>1, <1>2, <2>3, <2>4, TurnWorks DEF Free, Held, AtSlot, Willing
<1> QED BY <1>3, <1>4, <1>5

LEMMA AttemptFailsStep == ASSUME GateInv, NEW w \in Workspaces, AttemptFails(w) PROVE GateInv'
<1>1. /\ asker[w].pc = "asking" /\ UNCHANGED <<search, slot, onWire, grant, role, docs, withdrawn, told, approver, begun>>
  BY DEF AttemptFails, AskerAt, Elsewhere, office, desk
<1>2. asker[w] \in TurnRecs /\ asker[w].agent \in Agents /\ Home[asker[w].agent] = w /\ asker[w].tok = 0
  BY <1>1, AtWork DEF Free
<1> DEFINE k == [asker[w] EXCEPT !.pc = "thinking"]
<1>3. /\ k \in TurnRecs /\ k.pc = "thinking" /\ k.turn = asker[w].turn /\ k.used = asker[w].used /\ k.tok = 0
      /\ k.agent = asker[w].agent /\ k.latched = asker[w].latched /\ k.tainted = asker[w].tainted
  BY <1>1, <1>2 DEF TurnRecs, Free
<1>4. asker' = [asker EXCEPT ![w] = k]
  BY DEF AttemptFails, Put, MoveTo
<1> HIDE DEF k
<1> QED BY <1>1, <1>2, <1>3, <1>4, TurnWorks DEF Free, Held, AtSlot, Willing

\* At the slot: an answer heard, or none.
LEMMA WaitingStep ==
    ASSUME GateInv, NEW w \in Workspaces, HearAnswer(w) \/ TimeOut(w) \/ LoseCaller(w) PROVE GateInv'
<1>1. /\ asker[w].pc = "waiting" /\ UNCHANGED <<search, slot, onWire, grant, role, docs, withdrawn, told, approver, begun>>
  BY DEF HearAnswer, TimeOut, LoseCaller, AskerAt, Elsewhere, office, desk
<1>2. /\ asker[w] \in TurnRecs /\ asker[w].agent \in Agents /\ Home[asker[w].agent] = w
      /\ asker[w].tok # 0 /\ asker[w].tok \in Tokens
  BY <1>1, AtWork DEF Free
<1>3. asker[w].verdict \notin Gone /\ asker[w].tok \notin onWire
  BY <1>1 DEF GateInv, AsksAreRight, AsksRightly, Held
<1>4. CASE HearAnswer(w) /\ told[asker[w].tok] = "allow"
  <2> DEFINE k == [asker[w] EXCEPT !.pc = "allowed"]
  <2>3. /\ k \in TurnRecs /\ k.pc = "allowed" /\ k.turn = asker[w].turn /\ k.used = asker[w].used /\ k.tok = asker[w].tok
        /\ k.agent = asker[w].agent /\ k.latched = asker[w].latched /\ k.tainted = asker[w].tainted
        /\ k.verdict = asker[w].verdict
    BY <1>1, <1>2 DEF TurnRecs, Held
  <2>4. asker' = [asker EXCEPT ![w] = k]
    BY <1>4 DEF HearAnswer, Put
  <2> HIDE DEF k
  <2> QED BY ZenonT(40), <1>1, <1>2, <1>3, <1>4, <2>3, <2>4, TurnWorks DEF Free, Held, AtSlot, Willing
<1>5. CASE HearAnswer(w) /\ told[asker[w].tok] # "allow"
  <2> DEFINE k == [asker[w] EXCEPT !.pc = "settling", !.latched = TRUE, !.verdict = "denied"]
  <2>3. /\ k \in TurnRecs /\ k.pc = "settling" /\ k.turn = asker[w].turn /\ k.used = asker[w].used /\ k.tok = asker[w].tok
        /\ k.agent = asker[w].agent /\ k.latched /\ k.tainted = asker[w].tainted /\ k.verdict = "denied"
    BY <1>1, <1>2 DEF TurnRecs, Held, Outcomes, Refusals
  <2>4. asker' = [asker EXCEPT ![w] = k]
    BY <1>5 DEF HearAnswer, Put
  <2> HIDE DEF k
  <2> QED BY <1>1, <1>2, <1>3, <1>5, <2>3, <2>4, TurnWorks DEF Free, Held, AtSlot, Willing, Gone
<1>6. CASE TimeOut(w) \/ LoseCaller(w)
  <2> DEFINE u(v) == [asker[w] EXCEPT !.pc = "unasking", !.verdict = v]
  <2>1. PICK v \in {"timeout", "abandoned"} : asker' = [asker EXCEPT ![w] = u(v)]
    BY <1>6 DEF TimeOut, LoseCaller, Put
  <2> DEFINE k == u(v)
  <2>3. /\ k \in TurnRecs /\ k.pc = "unasking" /\ k.turn = asker[w].turn /\ k.used = asker[w].used /\ k.tok = asker[w].tok
        /\ k.agent = asker[w].agent /\ k.latched = asker[w].latched /\ k.tainted = asker[w].tainted /\ k.verdict = v
    BY <1>1, <1>2 DEF TurnRecs, Held, Outcomes, Refusals
  <2>4. asker' = [asker EXCEPT ![w] = k] /\ v \in {"timeout", "abandoned"}
    BY <2>1
  <2> HIDE DEF k, u
  <2> QED BY <1>1, <1>2, <1>3, <2>3, <2>4, TurnWorks DEF Free, Held, AtSlot, Willing, Gone
<1> QED BY <1>4, <1>5, <1>6

LEMMA RereadGrantStep == ASSUME GateInv, NEW w \in Workspaces, RereadGrant(w) PROVE GateInv'
<1>1. /\ asker[w].pc = "allowed" /\ UNCHANGED <<search, slot, onWire, grant, role, docs, withdrawn, told, approver, begun>>
  BY DEF RereadGrant, AskerAt, Elsewhere, office, desk
<1>2. asker[w] \in TurnRecs /\ asker[w].agent \in Agents /\ Home[asker[w].agent] = w /\ asker[w].tok # 0
  BY <1>1, AtWork DEF Free
<1>3. /\ asker[w].verdict \notin Gone /\ asker[w].tok \notin onWire /\ told[asker[w].tok] = "allow"
      /\ asker[w].tok \in withdrawn => grant[asker[w].agent] = NoGrant
  BY <1>1 DEF GateInv, AsksAreRight, AsksRightly, Held
<1> DEFINE k == [asker[w] EXCEPT !.pc = "rechecking", !.seen = grant[asker[w].agent]]
<1>4. grant[asker[w].agent] \in Prints
  BY <1>2 DEF GateInv, GateTypes
<1>5. /\ k \in TurnRecs /\ k.pc = "rechecking" /\ k.turn = asker[w].turn /\ k.used = asker[w].used /\ k.tok = asker[w].tok
      /\ k.agent = asker[w].agent /\ k.latched = asker[w].latched /\ k.tainted = asker[w].tainted
      /\ k.verdict = asker[w].verdict /\ k.seen = grant[asker[w].agent]
  BY <1>1, <1>2, <1>4 DEF TurnRecs, Held
<1>6. asker' = [asker EXCEPT ![w] = k]
  BY DEF RereadGrant, Put
<1> HIDE DEF k
<1> QED BY ZenonT(40), <1>1, <1>2, <1>3, <1>5, <1>6, TurnWorks DEF Free, Held, AtSlot, Willing, Gone

LEMMA RecheckStep == ASSUME GateInv, NEW w \in Workspaces, Recheck(w) PROVE GateInv'
<1>1. /\ asker[w].pc = "rechecking" /\ UNCHANGED <<search, slot, onWire, grant, role, docs, withdrawn, told, approver, begun>>
  BY DEF Recheck, AskerAt, Elsewhere, office, desk
<1>2. asker[w] \in TurnRecs /\ asker[w].agent \in Agents /\ Home[asker[w].agent] = w /\ asker[w].tok # 0
  BY <1>1, AtWork DEF Free
<1>3. /\ asker[w].verdict \notin Gone /\ asker[w].tok \notin onWire /\ told[asker[w].tok] = "allow"
      /\ asker[w].tok \in withdrawn => asker[w].seen = NoGrant
  BY <1>1 DEF GateInv, AsksAreRight, AsksRightly, Held
<1>4. CASE Matches(w, asker[w].seen) /\ MoveTo(w, "cleared")
  <2>1. asker[w].seen # NoGrant
    <3>1. \A x, y : Len(<<x, y>>) = 2 /\ Len(<<>>) = 0
      OBVIOUS
    <3> QED BY <1>4, <3>1 DEF Matches, NoGrant
  <2> DEFINE k == [asker[w] EXCEPT !.pc = "cleared"]
  <2>2. /\ k \in TurnRecs /\ k.pc = "cleared" /\ k.turn = asker[w].turn /\ k.used = asker[w].used /\ k.tok = asker[w].tok
        /\ k.agent = asker[w].agent /\ k.latched = asker[w].latched /\ k.tainted = asker[w].tainted
        /\ k.verdict = asker[w].verdict
    BY <1>1, <1>2 DEF TurnRecs, Held
  <2>3. asker' = [asker EXCEPT ![w] = k]
    BY <1>4 DEF MoveTo, Put
  <2> HIDE DEF k
  <2> QED BY ZenonT(40), <1>1, <1>2, <1>3, <2>1, <2>2, <2>3, TurnWorks DEF Free, Held, AtSlot, Willing, Gone
<1>5. CASE Put(w, [asker[w] EXCEPT !.pc = "settling", !.latched = TRUE, !.verdict = "refused_revoked"])
  <2> DEFINE k == [asker[w] EXCEPT !.pc = "settling", !.latched = TRUE, !.verdict = "refused_revoked"]
  <2>2. /\ k \in TurnRecs /\ k.pc = "settling" /\ k.turn = asker[w].turn /\ k.used = asker[w].used /\ k.tok = asker[w].tok
        /\ k.agent = asker[w].agent /\ k.latched /\ k.tainted = asker[w].tainted /\ k.verdict = "refused_revoked"
    BY <1>1, <1>2 DEF TurnRecs, Held, Outcomes, Refusals
  <2>3. asker' = [asker EXCEPT ![w] = k]
    BY <1>5 DEF Put
  <2> HIDE DEF k
  <2> QED BY <1>1, <1>2, <1>3, <2>2, <2>3, TurnWorks DEF Free, Held, AtSlot, Willing, Gone
<1> QED BY <1>4, <1>5 DEF Recheck

------------------------------------------------------------------------------
(* Steps that write the log, or take and free the slot.                    *)

LEMMA TurnSteps ==
    ASSUME GateInv, NEW w \in Workspaces, NEW k \in TurnRecs, TurnStep(w, k), asker[w].pc # "idle",
           k.turn = asker[w].turn, slot' \in SlotRecs, UNCHANGED <<role, docs, begun>>,
           HoldsItsRow(w)', AsksRightly(w)', KeepsQuiet(w)', LatchesWhenTold(w)', SpendsRightly(w)',
           SlotOfOne', AnswersAreRight', Budgets', AllowedOnWire', LogIsTrue', QuietAfterwards'
    PROVE  GateInv'
<1> USE DEF GateInv
<1>1. asker' \in [Workspaces -> TurnRecs] /\ asker'[w] = k /\ \A d \in Workspaces : d # w => asker'[d] = asker[d]
  BY TurnAlone DEF TurnStep
<1>2. asker[w].turn \in 1..begun /\ (asker[w].pc \in Held => asker[w].tok \in DOMAIN search)
  BY AtWork DEF Held, Free
<1>3. GateTypes'
  <2>1. onWire' \subseteq DOMAIN search' /\ withdrawn' \subseteq DOMAIN search'
    BY <1>2 DEF TurnStep, LogEvolves, GateTypes
  <2> QED BY <1>1, <2>1 DEF GateTypes, TurnStep, LogEvolves
<1>4. RowsAreHeld' /\ AsksAreRight' /\ QuietIsKept'
  BY OthersHold, OthersAsk DEF RowsAreHeld, AsksAreRight, QuietIsKept
<1>5. SpentRightly'
  BY OthersAsk DEF SpentRightly
<1>6. TurnsApart'
  BY <1>1 DEF TurnsApart
<1>7. RowsOfTurns'
  BY <1>2 DEF RowsOfTurns, TurnStep, LogEvolves
<1> QED BY <1>3, <1>4, <1>5, <1>6, <1>7

LEMMA RecordStep ==
    ASSUME GateInv, NEW w \in Workspaces, asker[w].pc = "asking", NEW pc, NEW verdict, Record(w, pc, verdict),
           \/ pc = "refusing" /\ verdict \in {"refused_invalid", "refused_revoked", "refused_budget"}
           \/ pc = "recorded" /\ verdict = "none" /\ ~Spent(w)
    PROVE  GateInv'
<1> DEFINE t0 == Len(search) + 1
           k  == [asker[w] EXCEPT !.pc = pc, !.tok = t0, !.verdict = verdict]
<1>1. /\ asker[w] \in TurnRecs /\ asker[w].agent \in Agents /\ Home[asker[w].agent] = w /\ asker[w].turn \in 1..begun
      /\ asker[w].turn \in Nat
  BY AtWork
<1>2. /\ Len(search) < MaxSearches /\ search' = Append(search, NewRow(w)) /\ asker' = [asker EXCEPT ![w] = k]
      /\ UNCHANGED <<slot, onWire, grant, role, docs, withdrawn, told, approver, begun>>
  BY DEF Record, Put, Elsewhere, office, desk
<1>3. /\ NewRow(w) \in Rows /\ NewRow(w).state = "awaiting" /\ NewRow(w).by = "none"
      /\ NewRow(w).turn = asker[w].turn /\ NewRow(w).agent = asker[w].agent
  BY <1>1 DEF NewRow, Rows
<1>4. /\ search' \in Seq(Rows) /\ Len(search') <= MaxSearches /\ DOMAIN search' = DOMAIN search \cup {t0}
      /\ t0 \notin DOMAIN search /\ t0 \in Tokens /\ t0 \in Nat \ {0} /\ \A t \in DOMAIN search' : t <= t0
      /\ search'[t0] = NewRow(w) /\ \A t \in DOMAIN search : search'[t] = search[t]
  <2>1. search \in Seq(Rows) /\ Len(search) \in Nat /\ DOMAIN search = 1..Len(search) /\ MaxSearches \in Nat
    BY GateConstants DEF GateInv, GateTypes
  <2> HIDE DEF k
  <2> QED BY <1>2, <1>3, <2>1 DEF Tokens
<1>5. /\ k \in TurnRecs /\ k.pc = pc /\ k.turn = asker[w].turn /\ k.used = asker[w].used /\ k.tok = t0
      /\ k.agent = asker[w].agent /\ k.latched = asker[w].latched /\ k.tainted = asker[w].tainted
      /\ k.verdict = verdict
  <2>1. pc \in Held /\ verdict \in Outcomes \cup {"none"}
    BY DEF Held, Outcomes, Refusals
  <2> HIDE DEF t0
  <2> QED BY <1>1, <1>4, <2>1 DEF TurnRecs
<1> HIDE DEF k, t0
<1>6. asker'[w] = k /\ \A d \in Workspaces : d # w => asker'[d] = asker[d]
  BY <1>2, <1>5, TurnAlone DEF GateInv
<1>7. TurnStep(w, k)
  BY <1>1, <1>2, <1>3, <1>4 DEF TurnStep, LogEvolves, SlotTurns, GateInv, GateTypes
<1>8. /\ told[t0] = "none" /\ slot.tok # t0 /\ t0 \notin withdrawn /\ t0 \notin onWire
      /\ \A o \in Approvers : approver[o].tok # t0
  <2>1. slot.tok \in {0} \cup DOMAIN search
    <3>1. \A d \in Workspaces : asker[d].pc \in AtSlot => asker[d].tok \in DOMAIN search /\ slot.tok = asker[d].tok
      BY AtWork DEF AtSlot, Free
    <3> QED BY <3>1 DEF GateInv, SlotOfOne
  <2>2. \A o \in Approvers : approver[o].tok \in {0} \cup DOMAIN search
    BY DEF GateInv, AnswersAreRight, AnswerRightly
  <2> QED BY <1>4, <2>1, <2>2 DEF GateInv, AnswersAreRight, GateTypes
<1>9. HoldsItsRow(w)'
  BY <1>1, <1>2, <1>3, <1>4, <1>5, <1>6 DEF HoldsItsRow, Held, Free
<1>10. AsksRightly(w)'
  BY <1>2, <1>4, <1>5, <1>6, <1>8 DEF AsksRightly, Held, AtSlot, Gone, Heard, Loud
<1>11. KeepsQuiet(w)' /\ LatchesWhenTold(w)'
  <2>1. KeepsQuiet(w)
    BY DEF GateInv, QuietIsKept
  <2> QED BY <1>3, <1>4, <1>5, <1>6, <2>1 DEF KeepsQuiet, LatchesWhenTold, Willing, Loud
<1>12. /\ \A n \in Nat : HeardOf(n)' = HeardOf(n)
       /\ \A a \in Agents : SentBy(a)' = SentBy(a)
  BY <1>3, <1>4 DEF HeardOf, SentBy, Heard, Loud
<1>13. Budgets'
  BY <1>12 DEF Budgets, GateInv, SpentRightly
<1>14. SpendsRightly(w)'
  <2>1. SpendsRightly(w)
    BY DEF GateInv, SpentRightly
  <2>2. /\ HeardOf(asker[w].turn)' = HeardOf(asker[w].turn) /\ SentBy(asker[w].agent)' = SentBy(asker[w].agent)
    BY <1>1, <1>3, <1>4, <1>5, <1>6 DEF HeardOf, SentBy, Heard, Loud
  <2>3. ~Spent(w) => Cardinality(SentBy(asker[w].agent)) < MaxPerDay
    BY <1>1, Countable, GateConstants DEF Spent, GateInv
  <2> QED BY <1>5, <1>6, <2>1, <2>2, <2>3 DEF SpendsRightly, Held, AtSlot
<1>15. SlotOfOne'
  BY <1>2, <1>6 DEF GateInv, SlotOfOne, AtSlot
<1>16. AnswersAreRight' /\ AllowedOnWire'
  BY <1>2, <1>4 DEF GateInv, AnswersAreRight, AnswerRightly, AllowedOnWire
<1>17. LogIsTrue' /\ QuietAfterwards'
  <2>1. LogIsTrue'
    BY <1>2, <1>3, <1>4 DEF GateInv, LogIsTrue, Refusals
  <2>2. QuietAfterwards'
    BY <1>2, <1>3, <1>4, <1>8 DEF GateInv, QuietAfterwards
  <2> QED BY <2>1, <2>2
<1>18. slot' \in SlotRecs
  BY <1>2 DEF GateInv, GateTypes
<1> QED BY <1>2, <1>5, <1>7, <1>9, <1>10, <1>11, <1>13, <1>14, <1>15, <1>16, <1>17, <1>18, TurnSteps

LEMMA OpenSlotStep == ASSUME GateInv, NEW w \in Workspaces, OpenSlot(w) PROVE GateInv'
<1>1. /\ asker[w].pc = "recorded"
      /\ UNCHANGED <<search, onWire, grant, role, docs, withdrawn, told, approver, begun>>
  BY DEF OpenSlot, AskerAt, Elsewhere, office, desk
<1>2. /\ asker[w] \in TurnRecs /\ asker[w].agent \in Agents /\ Home[asker[w].agent] = w
      /\ asker[w].tok \in Nat \ {0} /\ asker[w].turn \in 1..begun /\ begun \in Nat
  <2>1. asker[w].tok \in Nat
    BY <1>1, AtWork DEF TurnRecs
  <2> QED BY <1>1, <2>1, AtWork DEF Free
<1>3. HoldsItsRow(w) /\ AsksRightly(w) /\ KeepsQuiet(w) /\ SpendsRightly(w)
  BY DEF GateInv, RowsAreHeld, AsksAreRight, QuietIsKept, SpentRightly
<1>4. CASE slot.tok # 0
  <2> DEFINE k == [asker[w] EXCEPT !.pc = "refusing", !.verdict = "refused_busy"]
  <2>1. /\ k \in TurnRecs /\ k.pc = "refusing" /\ k.turn = asker[w].turn /\ k.used = asker[w].used /\ k.tok = asker[w].tok
        /\ k.agent = asker[w].agent /\ k.latched = asker[w].latched /\ k.tainted = asker[w].tainted
        /\ k.verdict = "refused_busy"
    BY <1>1, <1>2 DEF TurnRecs, Held, Outcomes, Refusals
  <2>2. asker' = [asker EXCEPT ![w] = k] /\ slot' = slot
    BY <1>4 DEF OpenSlot, Put
  <2>3. asker[w].tok \notin onWire
    BY <1>1, <1>3 DEF AsksRightly, Held
  <2> HIDE DEF k
  <2> QED BY <1>1, <1>2, <2>1, <2>2, <2>3, TurnWorks DEF Free, Held, AtSlot, Willing, Gone, Heard, Loud
<1>5. CASE slot.tok = 0
  <2> DEFINE k == [asker[w] EXCEPT !.pc = "waiting", !.used = @ + 1]
  <2>1. /\ k \in TurnRecs /\ k.pc = "waiting" /\ k.turn = asker[w].turn /\ k.used = asker[w].used + 1 /\ k.tok = asker[w].tok
        /\ k.agent = asker[w].agent /\ k.latched = asker[w].latched /\ k.tainted = asker[w].tainted
        /\ k.verdict = asker[w].verdict
    <3>1. asker[w].used + 1 \in Nat /\ "waiting" \in Held
      BY <1>2 DEF TurnRecs, Held
    <3> QED BY <1>2, <3>1 DEF TurnRecs
  <2>2. asker' = [asker EXCEPT ![w] = k] /\ slot' \in SlotRecs /\ slot'.tok = asker[w].tok /\ slot'.answered = FALSE
    BY <1>2, <1>5 DEF OpenSlot, Put, NoSlot, SlotRecs
  <2> HIDE DEF k
  <2>3. asker'[w] = k
    BY <2>1, <2>2, TurnAlone DEF GateInv
  <2>4. TurnStep(w, k)
    BY <1>1, <1>2, <1>5, <2>1, <2>2 DEF TurnStep, LogEvolves, SlotTurns, GateInv, GateTypes
  <2>5. HoldsItsRow(w)'
    BY <1>1, <1>3, <2>1, <2>3 DEF HoldsItsRow, Held, Free
  <2>6. AsksRightly(w)'
    BY <1>1, <1>3, <2>1, <2>2, <2>3 DEF AsksRightly, Held, AtSlot, Gone
  <2>7. KeepsQuiet(w)' /\ LatchesWhenTold(w)'
    BY <1>1, <1>3, <2>1, <2>3 DEF KeepsQuiet, LatchesWhenTold, Willing
  <2>8. SpendsRightly(w)'
    <3>1. /\ HeardOf(asker[w].turn)' = HeardOf(asker[w].turn) /\ SentBy(asker[w].agent)' = SentBy(asker[w].agent)
      BY <1>1, <2>1, <2>3 DEF HeardOf, SentBy
    <3>2. Cardinality(HeardOf(asker[w].turn)) \in Nat /\ asker[w].used \in Nat /\ MaxPerTurn \in Nat
      BY <1>2, Countable, GateConstants DEF GateInv, TurnRecs
    <3> QED BY <1>1, <1>3, <2>1, <2>3, <3>1, <3>2 DEF SpendsRightly, Held, AtSlot
  <2>9. SlotOfOne'
    BY <1>1, <1>3, <2>1, <2>2, <2>3 DEF SlotOfOne, AtSlot, AsksRightly
  <2>10. AnswersAreRight'
    BY <1>1, <1>3, <2>2 DEF GateInv, AnswersAreRight, AnswerRightly, AsksRightly
  <2>11. Budgets' /\ AllowedOnWire' /\ LogIsTrue' /\ QuietAfterwards'
    BY <1>1 DEF GateInv, SpentRightly, Budgets, HeardOf, SentBy, AllowedOnWire, LogIsTrue, QuietAfterwards
  <2> QED BY <1>1, <2>1, <2>2, <2>4, <2>5, <2>6, <2>7, <2>8, <2>9, <2>10, <2>11, TurnSteps
<1> QED BY <1>4, <1>5

LEMMA UnaskStep == ASSUME GateInv, NEW w \in Workspaces, Unask(w) PROVE GateInv'
<1>1. /\ asker[w].pc = "unasking"
      /\ UNCHANGED <<search, onWire, grant, role, docs, withdrawn, told, approver, begun>>
  BY DEF Unask, AskerAt, Elsewhere, office, desk
<1>2. /\ asker[w] \in TurnRecs /\ slot.tok = asker[w].tok /\ asker[w].turn \in 1..begun /\ begun \in Nat
  BY <1>1, AtWork DEF AtSlot
<1>3. HoldsItsRow(w) /\ AsksRightly(w) /\ KeepsQuiet(w) /\ SpendsRightly(w)
  BY DEF GateInv, RowsAreHeld, AsksAreRight, QuietIsKept, SpentRightly
<1> DEFINE k == [asker[w] EXCEPT !.pc = "settling", !.latched = TRUE]
<1>4. /\ k \in TurnRecs /\ k.pc = "settling" /\ k.turn = asker[w].turn /\ k.used = asker[w].used /\ k.tok = asker[w].tok
      /\ k.agent = asker[w].agent /\ k.latched /\ k.tainted = asker[w].tainted /\ k.verdict = asker[w].verdict
  BY <1>1, <1>2 DEF TurnRecs, Held
<1>5. asker' = [asker EXCEPT ![w] = k] /\ slot' \in SlotRecs /\ slot'.tok = slot.tok /\ slot'.answered
  BY <1>2 DEF Unask, Put, SlotRecs, GateInv, GateTypes
<1> HIDE DEF k
<1>6. asker'[w] = k
  BY <1>4, <1>5, TurnAlone DEF GateInv
<1>7. TurnStep(w, k)
  BY <1>1, <1>2, <1>4, <1>5 DEF TurnStep, LogEvolves, SlotTurns, GateInv, GateTypes
<1>8. HoldsItsRow(w)'
  BY <1>1, <1>3, <1>4, <1>6 DEF HoldsItsRow, Held, Free
<1>9. AsksRightly(w)'
  BY <1>1, <1>3, <1>4, <1>5, <1>6 DEF AsksRightly, Held, AtSlot, Gone
<1>10. KeepsQuiet(w)' /\ LatchesWhenTold(w)'
  BY <1>1, <1>3, <1>4, <1>6 DEF KeepsQuiet, LatchesWhenTold, Willing
<1>11. SpendsRightly(w)'
  <2>1. /\ HeardOf(asker[w].turn)' = HeardOf(asker[w].turn) /\ SentBy(asker[w].agent)' = SentBy(asker[w].agent)
    BY <1>1, <1>4, <1>6 DEF HeardOf, SentBy
  <2> QED BY <1>1, <1>3, <1>4, <1>6, <2>1 DEF SpendsRightly, Held, AtSlot
<1>12. SlotOfOne'
  BY <1>1, <1>4, <1>5, <1>6 DEF SlotOfOne, AtSlot
<1>13. AnswersAreRight'
  BY <1>1, <1>5 DEF GateInv, AnswersAreRight, AnswerRightly
<1>14. Budgets' /\ AllowedOnWire' /\ LogIsTrue' /\ QuietAfterwards'
  BY <1>1 DEF GateInv, SpentRightly, Budgets, HeardOf, SentBy, AllowedOnWire, LogIsTrue, QuietAfterwards
<1> QED BY <1>1, <1>4, <1>5, <1>7, <1>8, <1>9, <1>10, <1>11, <1>12, <1>13, <1>14, TurnSteps

LEMMA FetchStep == ASSUME GateInv, NEW w \in Workspaces, Fetch(w) PROVE GateInv'
<1>1. /\ asker[w].pc = "cleared" /\ onWire' = onWire \cup {asker[w].tok}
      /\ UNCHANGED <<search, slot, grant, role, docs, withdrawn, told, approver, begun>>
  BY DEF Fetch, AskerAt, Elsewhere, office, desk
<1>2. /\ asker[w] \in TurnRecs /\ asker[w].turn \in 1..begun /\ begun \in Nat /\ asker[w].tok \in DOMAIN search
  BY <1>1, AtWork DEF Free
<1>3. HoldsItsRow(w) /\ AsksRightly(w) /\ KeepsQuiet(w) /\ SpendsRightly(w)
  BY DEF GateInv, RowsAreHeld, AsksAreRight, QuietIsKept, SpentRightly
<1>4. PICK verdict \in Gone : Put(w, [asker[w] EXCEPT !.pc = "settling", !.verdict = verdict])
  BY DEF Fetch, Gone
<1> DEFINE k == [asker[w] EXCEPT !.pc = "settling", !.verdict = verdict]
<1>5. /\ k \in TurnRecs /\ k.pc = "settling" /\ k.turn = asker[w].turn /\ k.used = asker[w].used /\ k.tok = asker[w].tok
      /\ k.agent = asker[w].agent /\ k.latched = asker[w].latched /\ k.tainted = asker[w].tainted /\ k.verdict = verdict
  BY <1>1, <1>2 DEF TurnRecs, Held, Outcomes, Gone
<1>6. asker' = [asker EXCEPT ![w] = k] /\ verdict \in Gone
  BY <1>4 DEF Put
<1> HIDE DEF k
<1>7. asker'[w] = k
  BY <1>5, <1>6, TurnAlone DEF GateInv
<1>8. TurnStep(w, k)
  BY <1>1, <1>2, <1>5, <1>6 DEF TurnStep, LogEvolves, SlotTurns, GateInv, GateTypes, Held
<1>9. HoldsItsRow(w)'
  BY <1>1, <1>3, <1>5, <1>7 DEF HoldsItsRow, Held, Free
<1>10. AsksRightly(w)'
  BY <1>1, <1>3, <1>5, <1>6, <1>7 DEF AsksRightly, Held, AtSlot, Gone
<1>11. KeepsQuiet(w)' /\ LatchesWhenTold(w)'
  BY <1>1, <1>3, <1>5, <1>6, <1>7 DEF KeepsQuiet, LatchesWhenTold, Willing, Gone, Loud
<1>12. SpendsRightly(w)'
  <2>1. /\ HeardOf(asker[w].turn)' = HeardOf(asker[w].turn) /\ SentBy(asker[w].agent)' = SentBy(asker[w].agent)
    BY <1>1, <1>5, <1>7 DEF HeardOf, SentBy
  <2> QED BY <1>1, <1>3, <1>5, <1>7, <2>1 DEF SpendsRightly, Held, AtSlot
<1>13. SlotOfOne'
  BY <1>1, <1>5, <1>7 DEF GateInv, SlotOfOne, AtSlot
<1>14. AnswersAreRight' /\ Budgets'
  BY <1>1 DEF GateInv, AnswersAreRight, AnswerRightly, SpentRightly, Budgets, HeardOf, SentBy
<1>15. AllowedOnWire'
  BY <1>1, <1>3 DEF GateInv, AllowedOnWire, AsksRightly
<1>16. LogIsTrue'
  BY <1>1, <1>3 DEF GateInv, LogIsTrue, HoldsItsRow, Held, Refusals
<1>17. QuietAfterwards'
  <2> SUFFICES ASSUME NEW s \in DOMAIN search, NEW t \in DOMAIN search, s < t, search[s].turn = search[t].turn,
                      search[s].state \in Loud
               PROVE  t \notin onWire'
    BY <1>1 DEF QuietAfterwards, Loud
  <2>1. t \notin onWire
    BY DEF GateInv, QuietAfterwards, Loud
  <2>2. t # asker[w].tok
    BY <1>1, <1>2, <1>3 DEF HoldsItsRow, KeepsQuiet, Willing, Free
  <2> QED BY <1>1, <2>1, <2>2
<1>18. slot' \in SlotRecs
  BY <1>1 DEF GateInv, GateTypes
<1> QED BY <1>1, <1>5, <1>8, <1>9, <1>10, <1>11, <1>12, <1>13, <1>14, <1>15, <1>16, <1>17, <1>18, TurnSteps

LEMMA CloseSlotStep == ASSUME GateInv, NEW w \in Workspaces, CloseSlot(w) PROVE GateInv'
<1>1. /\ asker[w].pc = "leaving"
      /\ UNCHANGED <<search, onWire, grant, role, docs, withdrawn, told, approver, begun>>
  BY DEF CloseSlot, AskerAt, Elsewhere, office, desk
<1>2. /\ asker[w] \in TurnRecs /\ slot.tok = asker[w].tok /\ asker[w].turn \in 1..begun /\ begun \in Nat
  BY <1>1, AtWork DEF AtSlot
<1>3. HoldsItsRow(w) /\ AsksRightly(w) /\ KeepsQuiet(w) /\ SpendsRightly(w)
  BY DEF GateInv, RowsAreHeld, AsksAreRight, QuietIsKept, SpentRightly
<1>4. /\ Rested(w) \in TurnRecs /\ Rested(w).pc = "thinking" /\ Rested(w).turn = asker[w].turn
      /\ Rested(w).used = asker[w].used /\ Rested(w).tok = 0
      /\ Rested(w).agent = asker[w].agent /\ Rested(w).latched = asker[w].latched /\ Rested(w).tainted = asker[w].tainted
      /\ Rested(w).verdict = "none"
  BY <1>1, <1>2 DEF TurnRecs, Free, Prints, Rested
<1>5. asker' = [asker EXCEPT ![w] = Rested(w)] /\ slot' \in SlotRecs /\ slot'.tok = 0
  BY <1>2 DEF CloseSlot, Put, SlotRecs, NoSlot
<1>6. asker'[w] = Rested(w)
  BY <1>4, <1>5, TurnAlone DEF GateInv
<1>7. TurnStep(w, Rested(w))
  BY <1>1, <1>2, <1>4, <1>5 DEF TurnStep, LogEvolves, SlotTurns, GateInv, GateTypes, AtSlot
<1>8. HoldsItsRow(w)' /\ AsksRightly(w)' /\ KeepsQuiet(w)' /\ LatchesWhenTold(w)'
  BY <1>1, <1>3, <1>4, <1>6
     DEF HoldsItsRow, AsksRightly, KeepsQuiet, LatchesWhenTold, Held, AtSlot, Free, Willing
<1>9. SpendsRightly(w)'
  <2>1. HeardOf(asker[w].turn)' = HeardOf(asker[w].turn)
    BY <1>1, <1>4, <1>6 DEF HeardOf
  <2> QED BY <1>1, <1>3, <1>4, <1>6, <2>1 DEF SpendsRightly, Held, AtSlot
<1>10. SlotOfOne'
  BY <1>5 DEF SlotOfOne
<1>11. AnswersAreRight'
  BY <1>1, <1>5 DEF GateInv, AnswersAreRight, AnswerRightly
<1>12. Budgets' /\ AllowedOnWire' /\ LogIsTrue' /\ QuietAfterwards'
  BY <1>1 DEF GateInv, SpentRightly, Budgets, HeardOf, SentBy, AllowedOnWire, LogIsTrue, QuietAfterwards
<1> QED BY <1>1, <1>4, <1>5, <1>7, <1>8, <1>9, <1>10, <1>11, <1>12, TurnSteps

Settled(t, v, d) == search' = [search EXCEPT ![t].state = v, ![t].by = d]

LEMMA SettledRow ==
    ASSUME NEW t, NEW v \in Outcomes, NEW d \in Decisions \cup {"none"}, Settled(t, v, d),
           search \in Seq(Rows), t \in DOMAIN search
    PROVE  /\ search' \in Seq(Rows) /\ Len(search') = Len(search) /\ DOMAIN search' = DOMAIN search
           /\ \A s \in DOMAIN search : s # t => search'[s] = search[s]
           /\ search'[t].state = v /\ search'[t].by = d
           /\ search'[t].turn = search[t].turn /\ search'[t].agent = search[t].agent
<1> DEFINE r == [search[t] EXCEPT !.state = v, !.by = d]
<1>1. search[t] \in Rows
  OBVIOUS
<1>2. r \in Rows /\ r.state = v /\ r.by = d /\ r.turn = search[t].turn /\ r.agent = search[t].agent
  BY <1>1 DEF Rows
<1>3. search' = [search EXCEPT ![t] = r]
  BY Zenon DEF Settled
<1> HIDE DEF r
<1> QED BY <1>2, <1>3, OneRowSettled

\* The row of a search that is settled, and the turn that settled it.
LEMMA SettleStep ==
    ASSUME GateInv, NEW w \in Workspaces, SettleRow(w), NEW d \in Decisions \cup {"none"},
           d = IF asker[w].verdict \in {"timeout", "abandoned"} THEN "none" ELSE told[asker[w].tok],
           Settled(asker[w].tok, asker[w].verdict, d)
    PROVE  GateInv'
<1> DEFINE t0 == asker[w].tok
           v  == asker[w].verdict
           k  == [(IF asker[w].pc = "refusing" THEN Rested(w) ELSE [asker[w] EXCEPT !.pc = "leaving"])
                    EXCEPT !.tainted = @ \/ asker[w].verdict = "sent"]
<1>1. /\ asker[w].pc \in {"settling", "refusing"}
      /\ UNCHANGED <<slot, onWire, grant, role, docs, withdrawn, told, approver, begun>>
      /\ asker' = [asker EXCEPT ![w] = k]
  BY DEF SettleRow, AskerAt, Elsewhere, office, desk, Put
<1>2. /\ asker[w] \in TurnRecs /\ asker[w].turn \in 1..begun /\ begun \in Nat /\ t0 \in DOMAIN search
      /\ asker[w].agent \in Agents
  BY <1>1, AtWork DEF Free
<1>3. HoldsItsRow(w) /\ AsksRightly(w) /\ KeepsQuiet(w) /\ SpendsRightly(w) /\ LatchesWhenTold(w)
  BY DEF GateInv, RowsAreHeld, AsksAreRight, QuietIsKept, SpentRightly
<1>4. /\ k \in TurnRecs /\ k.turn = asker[w].turn /\ k.used = asker[w].used /\ k.agent = asker[w].agent
      /\ k.latched = asker[w].latched /\ (asker[w].tainted \/ v = "sent" => k.tainted)
      /\ asker[w].pc = "settling" => k.pc = "leaving" /\ k.tok = t0 /\ k.verdict = v
      /\ asker[w].pc = "refusing" => k.pc = "thinking" /\ k.tok = 0
  <2>1. CASE asker[w].pc = "settling"
    BY <1>2, <2>1 DEF TurnRecs, AtSlot
  <2>2. CASE asker[w].pc = "refusing"
    <3>1. Rested(w) \in TurnRecs /\ Rested(w).pc = "thinking" /\ Rested(w).tok = 0 /\ Rested(w).turn = asker[w].turn
          /\ Rested(w).used = asker[w].used /\ Rested(w).agent = asker[w].agent
          /\ Rested(w).latched = asker[w].latched /\ Rested(w).tainted = asker[w].tainted
      BY <1>2 DEF Rested, TurnRecs, Free, Prints
    <3> HIDE DEF Rested
    <3> QED BY <2>2, <3>1 DEF TurnRecs
  <2> QED BY <1>1, <2>1, <2>2
<1>5. /\ v \in Outcomes /\ (v \notin Gone => t0 \notin onWire) /\ (v \in Gone => asker[w].pc = "settling")
      /\ (v \in Gone => t0 \in onWire /\ told[t0] = "allow")
      /\ (v \in Heard => asker[w].pc = "settling")
  BY <1>1, <1>2, <1>3 DEF AsksRightly, Held, TurnRecs
<1>6. /\ search' \in Seq(Rows) /\ Len(search') = Len(search) /\ DOMAIN search' = DOMAIN search
      /\ \A t \in DOMAIN search : t # t0 => search'[t] = search[t]
      /\ search'[t0].state = v /\ search'[t0].by = d
      /\ search'[t0].turn = search[t0].turn /\ search'[t0].agent = search[t0].agent
  <2>1. search \in Seq(Rows)
    BY DEF GateInv, GateTypes
  <2>2. t0 \in DOMAIN search /\ v \in Outcomes /\ Settled(t0, v, d)
    BY <1>2, <1>5
  <2> HIDE DEF t0, v
  <2> QED BY <2>1, <2>2, SettledRow
<1> HIDE DEF k
<1>7. asker'[w] = k
  BY <1>1, <1>4, TurnAlone DEF GateInv
<1>8. TurnStep(w, k)
  BY <1>1, <1>2, <1>4, <1>6 DEF TurnStep, LogEvolves, SlotTurns, GateInv, GateTypes, Held, HoldsItsRow
<1>9. HoldsItsRow(w)'
  BY <1>1, <1>2, <1>3, <1>4, <1>6, <1>7 DEF HoldsItsRow, Held, Free
<1>10. AsksRightly(w)'
  BY <1>1, <1>3, <1>4, <1>7 DEF AsksRightly, Held, AtSlot
<1>11. KeepsQuiet(w)' /\ LatchesWhenTold(w)'
  <2>1. v \in Loud => k.latched \/ k.tainted
    BY <1>1, <1>3, <1>4, <1>5 DEF LatchesWhenTold, Heard, Gone
  <2> QED BY <1>1, <1>3, <1>4, <1>6, <1>7, <2>1 DEF KeepsQuiet, LatchesWhenTold, Willing
<1>12. search[t0].state = "awaiting" /\ search[t0].turn = asker[w].turn /\ search[t0].agent = asker[w].agent
  BY <1>1, <1>2, <1>3, AtWork DEF HoldsItsRow, Held, Free
<1>13. \A n \in Nat : /\ HeardOf(n)' \subseteq HeardOf(n) \cup {t0}
                      /\ n # asker[w].turn \/ v \notin Heard => HeardOf(n)' \subseteq HeardOf(n)
                      /\ IsFiniteSet(HeardOf(n))
  BY <1>6, <1>12, Countable DEF HeardOf, GateInv
<1>14. \A a \in Agents : /\ SentBy(a)' \subseteq SentBy(a) \cup {t0}
                         /\ a # asker[w].agent \/ v # "sent" => SentBy(a)' \subseteq SentBy(a)
                         /\ IsFiniteSet(SentBy(a))
  BY <1>6, <1>12, Countable DEF SentBy, GateInv
<1>15. /\ \A n \in Nat : /\ Cardinality(HeardOf(n)) \in Nat /\ Cardinality(HeardOf(n)') \in Nat
                         /\ Cardinality(HeardOf(n)') <= Cardinality(HeardOf(n)) + 1
                         /\ n # asker[w].turn \/ v \notin Heard => Cardinality(HeardOf(n)') <= Cardinality(HeardOf(n))
       /\ \A a \in Agents : /\ Cardinality(SentBy(a)) \in Nat /\ Cardinality(SentBy(a)') \in Nat
                            /\ Cardinality(SentBy(a)') <= Cardinality(SentBy(a)) + 1
                            /\ a # asker[w].agent \/ v # "sent" => Cardinality(SentBy(a)') <= Cardinality(SentBy(a))
  BY <1>13, <1>14, GrowsByOne
<1>16. /\ \A n \in Nat : n = asker[w].turn => Cardinality(HeardOf(n)') <= asker[w].used
       /\ asker[w].used <= MaxPerTurn /\ MaxPerTurn \in Nat /\ asker[w].used \in Nat
  <2>1. asker[w].turn \in Nat /\ asker[w].used \in Nat /\ MaxPerTurn \in Nat
    BY <1>2, GateConstants DEF TurnRecs
  <2>2. v \in Heard => Cardinality(HeardOf(asker[w].turn)) < asker[w].used
    BY <1>3, <1>5 DEF SpendsRightly, AtSlot
  <2>3. Cardinality(HeardOf(asker[w].turn)) <= asker[w].used /\ asker[w].used <= MaxPerTurn
    BY <1>1, <1>3 DEF SpendsRightly
  <2> QED BY <1>15, <2>1, <2>2, <2>3
<1>17. Budgets'
  <2>1. \A n \in Nat : Cardinality(HeardOf(n)') <= MaxPerTurn
    BY <1>15, <1>16 DEF GateInv, SpentRightly, Budgets
  <2>2. v = "sent" => Cardinality(SentBy(asker[w].agent)) < MaxPerDay
    BY <1>3, <1>5 DEF SpendsRightly, Held, Gone
  <2>3. \A a \in Agents : Cardinality(SentBy(a)') <= MaxPerDay
    BY <1>2, <1>15, <2>2, GateConstants DEF GateInv, SpentRightly, Budgets
  <2> QED BY <2>1, <2>3 DEF Budgets
<1>18. SpendsRightly(w)'
  <2>1. \A n \in Nat : n = asker[w].turn => HeardOf(asker[w].turn)' = HeardOf(n)'
    BY <1>4, <1>7 DEF HeardOf
  <2>2. Cardinality(HeardOf(asker[w].turn)') <= asker[w].used
    BY <1>2, <1>16, <2>1
  <2> QED BY <1>1, <1>3, <1>4, <1>7, <1>16, <2>2 DEF SpendsRightly, Held, AtSlot
<1>19. SlotOfOne'
  BY <1>1, <1>4, <1>7 DEF GateInv, SlotOfOne, AtSlot
<1>20. AnswersAreRight' /\ AllowedOnWire'
  BY <1>1, <1>6 DEF GateInv, AnswersAreRight, AnswerRightly, AllowedOnWire
<1>21. LogIsTrue'
  <2>1. v \in Gone => d = "allow"
    BY <1>5 DEF Gone
  <2>2. v \in Refusals => v \notin Gone
    BY DEF Refusals, Gone
  <2> QED BY <1>1, <1>5, <1>6, <2>1, <2>2 DEF GateInv, LogIsTrue, Gone
<1>22. QuietAfterwards'
  <2> SUFFICES ASSUME NEW s \in DOMAIN search, NEW t \in DOMAIN search, s < t, search'[s].turn = search'[t].turn,
                      search'[s].state \in Loud
               PROVE  t \notin onWire
    BY <1>1, <1>6 DEF QuietAfterwards, Loud
  <2>1. search[s].turn = search[t].turn
    BY <1>6
  <2>2. CASE s = t0
    <3>1. t <= t0
      BY <1>2, <1>3, <1>12, <2>1, <2>2 DEF HoldsItsRow, GateInv, GateTypes
    <3>2. t \in Nat /\ t0 \in Nat
      BY <1>2 DEF GateInv, GateTypes
    <3> QED BY <2>2, <3>1, <3>2
  <2>3. CASE s # t0
    BY <1>6, <2>1, <2>3 DEF GateInv, QuietAfterwards, Loud
  <2> QED BY <2>2, <2>3
<1>23. slot' \in SlotRecs /\ asker[w].pc # "idle"
  BY <1>1 DEF GateInv, GateTypes
<1> QED BY <1>1, <1>4, <1>8, <1>9, <1>10, <1>11, <1>17, <1>18, <1>19, <1>20, <1>21, <1>22, <1>23, TurnSteps

\* A settle that failed is forgotten: the row stays as it was.
LEMMA SettleFails == ASSUME GateInv, NEW w \in Workspaces, SettleRow(w), UNCHANGED search PROVE GateInv'
<1> DEFINE k == [(IF asker[w].pc = "refusing" THEN Rested(w) ELSE [asker[w] EXCEPT !.pc = "leaving"])
                   EXCEPT !.tainted = @ \/ asker[w].verdict = "sent"]
<1>1. /\ asker[w].pc \in {"settling", "refusing"}
      /\ UNCHANGED <<slot, onWire, grant, role, docs, withdrawn, told, approver, begun>>
      /\ asker' = [asker EXCEPT ![w] = k]
  BY DEF SettleRow, AskerAt, Elsewhere, office, desk, Put
<1>2. /\ asker[w] \in TurnRecs /\ asker[w].turn \in 1..begun /\ begun \in Nat
  BY <1>1, AtWork
<1>3. HoldsItsRow(w) /\ AsksRightly(w) /\ KeepsQuiet(w) /\ SpendsRightly(w)
  BY DEF GateInv, RowsAreHeld, AsksAreRight, QuietIsKept, SpentRightly
<1>4. /\ k \in TurnRecs /\ k.turn = asker[w].turn /\ k.used = asker[w].used /\ k.agent = asker[w].agent
      /\ k.latched = asker[w].latched /\ (asker[w].tainted => k.tainted)
      /\ asker[w].pc = "settling" => k.pc = "leaving" /\ k.tok = asker[w].tok
      /\ asker[w].pc = "refusing" => k.pc = "thinking" /\ k.tok = 0
  <2>1. CASE asker[w].pc = "settling"
    BY <1>2, <2>1 DEF TurnRecs, AtSlot
  <2>2. CASE asker[w].pc = "refusing"
    <3>1. Rested(w) \in TurnRecs /\ Rested(w).pc = "thinking" /\ Rested(w).tok = 0 /\ Rested(w).turn = asker[w].turn
          /\ Rested(w).used = asker[w].used /\ Rested(w).agent = asker[w].agent
          /\ Rested(w).latched = asker[w].latched /\ Rested(w).tainted = asker[w].tainted
      BY <1>2 DEF Rested, TurnRecs, Free, Prints
    <3> HIDE DEF Rested
    <3> QED BY <2>2, <3>1 DEF TurnRecs
  <2> QED BY <1>1, <2>1, <2>2
<1> HIDE DEF k
<1>5. asker'[w] = k
  BY <1>1, <1>4, TurnAlone DEF GateInv
<1>6. HoldsItsRow(w)' /\ AsksRightly(w)' /\ KeepsQuiet(w)' /\ LatchesWhenTold(w)'
  BY <1>1, <1>3, <1>4, <1>5
     DEF HoldsItsRow, AsksRightly, KeepsQuiet, LatchesWhenTold, Held, AtSlot, Free, Willing
<1>7. SpendsRightly(w)'
  <2>1. HeardOf(asker[w].turn)' = HeardOf(asker[w].turn)
    BY <1>4, <1>5 DEF HeardOf
  <2> QED BY <1>1, <1>3, <1>4, <1>5, <2>1 DEF SpendsRightly, Held, AtSlot
<1>8. (asker[w].pc \in AtSlot => k.pc \in AtSlot) /\ begun' \in Nat /\ begun <= begun'
  BY <1>1, <1>2, <1>4 DEF AtSlot
<1> QED BY <1>1, <1>4, <1>6, <1>7, <1>8, TurnMoves

LEMMA SettleRowStep == ASSUME GateInv, NEW w \in Workspaces, SettleRow(w) PROVE GateInv'
<1> DEFINE d == IF asker[w].verdict \in {"timeout", "abandoned"} THEN "none" ELSE told[asker[w].tok]
<1>1. asker[w].pc \in {"settling", "refusing"}
  BY DEF SettleRow, AskerAt
<1>2. d \in Decisions \cup {"none"}
  BY <1>1, AtWork DEF GateInv, GateTypes, Free
<1>3. UNCHANGED search \/ Settled(asker[w].tok, asker[w].verdict, d)
  BY Zenon DEF SettleRow, Settled
<1> QED BY <1>2, <1>3, SettleStep, SettleFails

------------------------------------------------------------------------------
(* Operators, the clock and the process.                                   *)

LEMMA SlotInLog == ASSUME GateInv PROVE slot.tok \in {0} \cup DOMAIN search /\ (slot.tok # 0 => slot.tok \in Tokens)
<1>1. \A d \in Workspaces : asker[d].pc \in AtSlot => asker[d].tok \in DOMAIN search /\ slot.tok = asker[d].tok
                                                     /\ asker[d].tok \in Tokens
  BY AtWork DEF AtSlot, Free
<1> QED BY <1>1 DEF GateInv, SlotOfOne

\* A step that is not a turn's: what turns know of themselves and of the log stays.
LEMMA TurnsRest ==
    ASSUME GateInv, UNCHANGED <<search, asker, begun>>
    PROVE  /\ RowsAreHeld' /\ TurnsApart' /\ RowsOfTurns' /\ QuietIsKept' /\ SpentRightly'
<1>1. RowsAreHeld' /\ TurnsApart' /\ RowsOfTurns'
  BY DEF GateInv, RowsAreHeld, HoldsItsRow, TurnsApart, RowsOfTurns
<1>2. QuietIsKept'
  BY DEF GateInv, QuietIsKept, KeepsQuiet, LatchesWhenTold
<1>3. SpentRightly'
  BY DEF GateInv, SpentRightly, Budgets, SpendsRightly, HeardOf, SentBy
<1> QED BY <1>1, <1>2, <1>3

LEMMA ExpireStep == GateInv /\ Expire => GateInv'
<1> SUFFICES ASSUME GateInv, Expire PROVE GateInv'
  OBVIOUS
<1>1. /\ UNCHANGED <<search, asker, onWire, grant, role, docs, withdrawn, told, approver, begun>>
      /\ slot' \in SlotRecs /\ slot'.tok = slot.tok /\ slot'.answered = slot.answered
  BY DEF Expire, Elsewhere, office, desk, GateInv, GateTypes, SlotRecs
<1>2. GateTypes' /\ AllowedOnWire' /\ LogIsTrue' /\ QuietAfterwards'
  BY <1>1 DEF GateInv, GateTypes, AllowedOnWire, LogIsTrue, QuietAfterwards
<1>3. AsksAreRight' /\ SlotOfOne' /\ AnswersAreRight'
  BY <1>1 DEF GateInv, AsksAreRight, AsksRightly, SlotOfOne, AnswersAreRight, AnswerRightly
<1> QED BY <1>1, <1>2, <1>3, TurnsRest DEF GateInv

\* An operator's request moves on alone.
LEMMA ClickAlone ==
    ASSUME GateTypes, NEW o \in Approvers, NEW c \in ClickRecs, approver' = [approver EXCEPT ![o] = c]
    PROVE  /\ approver' \in [Approvers -> ClickRecs] /\ approver'[o] = c
           /\ \A p \in Approvers : p # o => approver'[p] = approver[p]
BY DEF GateTypes

LEMMA NoClickFacts == NoClick \in ClickRecs /\ NoClick.pc = "idle" /\ NoClick.tok = 0
BY DEF NoClick, ClickRecs

LEMMA ClickStep == ASSUME GateInv, NEW o \in Approvers, Click(o) PROVE GateInv'
<1> DEFINE c == [pc |-> "checked", tok |-> slot.tok]
<1>1. /\ UNCHANGED <<search, asker, slot, onWire, grant, role, docs, withdrawn, told, begun>>
      /\ approver' = [approver EXCEPT ![o] = c] /\ slot.tok # 0
  BY DEF Click, Aside, office
<1>2. c \in ClickRecs /\ c.pc = "checked" /\ c.tok = slot.tok
  BY DEF ClickRecs, SlotRecs, GateInv, GateTypes
<1> HIDE DEF c
<1>3. /\ approver' \in [Approvers -> ClickRecs] /\ approver'[o] = c
      /\ \A p \in Approvers : p # o => approver'[p] = approver[p]
  BY <1>1, <1>2, ClickAlone DEF GateInv
<1>4. GateTypes' /\ AllowedOnWire' /\ LogIsTrue' /\ QuietAfterwards' /\ SlotOfOne'
  BY <1>1, <1>3 DEF GateInv, GateTypes, AllowedOnWire, LogIsTrue, QuietAfterwards, SlotOfOne
<1>5. AsksAreRight'
  BY <1>1, <1>2, <1>3 DEF GateInv, AsksAreRight, AsksRightly
<1>6. AnswersAreRight'
  BY <1>1, <1>2, <1>3, SlotInLog DEF GateInv, AnswersAreRight, AnswerRightly
<1> QED BY <1>1, <1>4, <1>5, <1>6, TurnsRest DEF GateInv

LEMMA ResolveStep == ASSUME GateInv, NEW o \in Approvers, Resolve(o) PROVE GateInv'
<1>1. UNCHANGED <<search, asker, onWire, grant, role, docs, withdrawn, told, begun>> /\ approver[o].pc = "checked"
  BY DEF Resolve, Aside, office, ApproverAt
<1>2. CASE slot.tok = approver[o].tok /\ ~slot.answered /\ ~slot.late
  <2> DEFINE c == [approver[o] EXCEPT !.pc = "sending"]
  <2>1. approver' = [approver EXCEPT ![o] = c] /\ slot' = [slot EXCEPT !.answered = TRUE]
    BY <1>2 DEF Resolve
  <2>2. /\ c \in ClickRecs /\ c.pc = "sending" /\ c.tok = slot.tok
        /\ slot' \in SlotRecs /\ slot'.tok = slot.tok /\ slot'.answered
    BY <1>2, <2>1 DEF ClickRecs, SlotRecs, GateInv, GateTypes
  <2>3. /\ approver' \in [Approvers -> ClickRecs] /\ approver'[o] = c
        /\ \A p \in Approvers : p # o => approver'[p] = approver[p]
    BY <2>1, <2>2, ClickAlone DEF GateInv
  <2> HIDE DEF c
  <2>4. slot.tok # 0 /\ slot.tok \in DOMAIN search /\ told[slot.tok] = "none"
    BY <1>1, <1>2 DEF GateInv, AnswersAreRight, AnswerRightly, SlotOfOne
  <2>5. GateTypes' /\ AllowedOnWire' /\ LogIsTrue' /\ QuietAfterwards' /\ SlotOfOne'
    BY <1>1, <2>2, <2>3 DEF GateInv, GateTypes, AllowedOnWire, LogIsTrue, QuietAfterwards, SlotOfOne
  <2>6. AsksAreRight'
    BY <1>1, <1>2, <2>2, <2>3 DEF GateInv, AsksAreRight, AsksRightly
  <2>7. AnswersAreRight'
    BY <1>1, <1>2, <2>2, <2>3, <2>4 DEF GateInv, AnswersAreRight, AnswerRightly
  <2> QED BY <1>1, <2>5, <2>6, <2>7, TurnsRest DEF GateInv
<1>3. CASE ~(slot.tok = approver[o].tok /\ ~slot.answered /\ ~slot.late)
  <2>1. approver' = [approver EXCEPT ![o] = NoClick] /\ slot' = slot
    BY <1>3 DEF Resolve
  <2>2. /\ approver' \in [Approvers -> ClickRecs] /\ approver'[o].tok = 0 /\ approver'[o].pc = "idle"
        /\ \A p \in Approvers : p # o => approver'[p] = approver[p]
    BY <2>1, ClickAlone, NoClickFacts DEF GateInv
  <2>3. GateTypes' /\ AllowedOnWire' /\ LogIsTrue' /\ QuietAfterwards' /\ SlotOfOne'
    BY <1>1, <2>1, <2>2 DEF GateInv, GateTypes, AllowedOnWire, LogIsTrue, QuietAfterwards, SlotOfOne
  <2>4. AsksAreRight'
    <3>1. \A w \in Workspaces : asker[w].pc = "recorded" => asker[w].tok # 0
      BY AtWork DEF Free
    <3> QED BY <1>1, <2>1, <2>2, <3>1 DEF GateInv, AsksAreRight, AsksRightly
  <2>5. AnswersAreRight'
    BY <1>1, <2>1, <2>2 DEF GateInv, AnswersAreRight, AnswerRightly
  <2> QED BY <1>1, <2>3, <2>4, <2>5, TurnsRest DEF GateInv
<1> QED BY <1>2, <1>3

LEMMA SendStep == ASSUME GateInv, NEW o \in Approvers, Send(o) PROVE GateInv'
<1> DEFINE t0 == approver[o].tok
<1>1. /\ UNCHANGED <<search, asker, slot, onWire, grant, role, docs, withdrawn, begun>> /\ approver[o].pc = "sending"
      /\ approver' = [approver EXCEPT ![o] = NoClick]
  BY DEF Send, Aside, office, ApproverAt
<1>2. PICK d \in Decisions : told' = [told EXCEPT ![t0] = d]
  BY DEF Send
<1>3. /\ approver' \in [Approvers -> ClickRecs] /\ approver'[o].tok = 0 /\ approver'[o].pc = "idle"
      /\ \A p \in Approvers : p # o => approver'[p] = approver[p]
  BY <1>1, ClickAlone, NoClickFacts DEF GateInv
<1>4. /\ t0 \in DOMAIN search /\ told[t0] = "none" /\ (slot.tok = t0 => slot.answered)
      /\ \A p \in Approvers : p # o /\ approver[p].pc = "sending" => approver[p].tok # t0
  BY <1>1 DEF GateInv, AnswersAreRight, AnswerRightly
<1>5. /\ told' \in [Tokens -> Decisions \cup {"none"}] /\ \A t \in Tokens : t # t0 => told'[t] = told[t]
      /\ DOMAIN search \subseteq Tokens
  <2>1. DOMAIN search \subseteq Tokens
    BY GateConstants DEF GateInv, GateTypes, Tokens
  <2>2. told \in [Tokens -> Decisions \cup {"none"}]
    BY DEF GateInv, GateTypes
  <2> HIDE DEF t0
  <2> QED BY <1>2, <2>1, <2>2
<1> HIDE DEF t0
<1>6. GateTypes' /\ QuietAfterwards'
  BY <1>1, <1>3, <1>5 DEF GateInv, GateTypes, QuietAfterwards
<1>7. AllowedOnWire'
  BY <1>1, <1>4, <1>5 DEF GateInv, GateTypes, AllowedOnWire
<1>8. LogIsTrue'
  BY <1>1, <1>4, <1>5 DEF GateInv, LogIsTrue
<1>9. SlotOfOne'
  BY <1>1, <1>4, <1>5, SlotInLog DEF GateInv, SlotOfOne
<1>10. AsksAreRight'
  <2> SUFFICES ASSUME NEW w \in Workspaces PROVE AsksRightly(w)'
    BY DEF AsksAreRight
  <2>1. AsksRightly(w) /\ (asker[w].pc \in Held => asker[w].tok # 0 /\ asker[w].tok \in Tokens)
    BY AtWork DEF GateInv, AsksAreRight, Held, Free
  <2>2. asker[w].pc = "recorded" => asker[w].tok # t0
    BY <2>1 DEF AsksRightly, t0
  <2>3. asker[w].pc \in {"allowed", "rechecking", "cleared"} => told'[asker[w].tok] = "allow"
    BY <1>4, <1>5, <2>1 DEF AsksRightly, Held
  <2>4. asker[w].pc = "settling" /\ asker[w].verdict \in Gone => told'[asker[w].tok] = "allow"
    BY <1>4, <1>5, <2>1 DEF AsksRightly, Held
  <2>5. asker[w].pc = "recorded" => told'[asker[w].tok] = "none" /\ \A p \in Approvers : approver'[p].tok # asker[w].tok
    BY <1>3, <1>5, <2>1, <2>2 DEF AsksRightly, Held
  <2> QED BY <1>1, <2>1, <2>3, <2>4, <2>5 DEF AsksRightly
<1>11. AnswersAreRight'
  BY <1>1, <1>3, <1>4, <1>5 DEF GateInv, AnswersAreRight, AnswerRightly
<1> QED BY <1>1, <1>6, <1>7, <1>8, <1>9, <1>10, <1>11, TurnsRest DEF GateInv

\* Grants, edits and the switch leave turns, log and answers alone.
LEMMA OfficeStep ==
    ASSUME GateInv, UNCHANGED <<search, asker, slot, onWire, told, approver, begun>>,
           grant' \in [Agents -> Prints], role' \in [Agents -> 0..1], docs' \in [Agents -> 0..1],
           withdrawn' \subseteq DOMAIN search, AsksAreRight', AllowedOnWire'
    PROVE  GateInv'
<1>1. GateTypes' /\ LogIsTrue' /\ QuietAfterwards' /\ SlotOfOne' /\ AnswersAreRight'
  BY DEF GateInv, GateTypes, LogIsTrue, QuietAfterwards, SlotOfOne, AnswersAreRight, AnswerRightly
<1> QED BY <1>1, TurnsRest DEF GateInv

LEMMA GrantStep == ASSUME GateInv, NEW a \in Agents, GrantAgent(a) PROVE GateInv'
<1>1. /\ UNCHANGED <<search, asker, slot, onWire, told, approver, begun, role, docs>>
      /\ grant' = [grant EXCEPT ![a] = <<role[a], docs[a]>>] /\ withdrawn' = withdrawn \ Asked(a)
  BY DEF GrantAgent, Apart, talk, desk
<1>2. grant' \in [Agents -> Prints] /\ \A b \in Agents : b # a => grant'[b] = grant[b]
  BY <1>1 DEF GateInv, GateTypes, Prints
<1>3. AllowedOnWire' /\ withdrawn' \subseteq DOMAIN search
  BY <1>1 DEF GateInv, GateTypes, AllowedOnWire
<1>4. AsksAreRight'
  <2> SUFFICES ASSUME NEW w \in Workspaces PROVE AsksRightly(w)'
    BY DEF AsksAreRight
  <2>1. AsksRightly(w)
    BY DEF GateInv, AsksAreRight
  <2>2. asker[w].pc \in {"waiting", "allowed"} /\ asker[w].tok \in withdrawn' => grant'[asker[w].agent] = NoGrant
    <3> SUFFICES ASSUME asker[w].pc \in {"waiting", "allowed"}, asker[w].tok \in withdrawn'
                 PROVE  grant'[asker[w].agent] = NoGrant
      OBVIOUS
    <3>1. asker[w].agent # a
      BY <1>1 DEF Asked
    <3> QED BY <1>1, <1>2, <2>1, <3>1, AtWork DEF AsksRightly
  <2> QED BY <1>1, <2>1, <2>2 DEF AsksRightly
<1> QED BY <1>1, <1>2, <1>3, <1>4, OfficeStep DEF GateInv, GateTypes

LEMMA RevokeStep == ASSUME GateInv, NEW a \in Agents, RevokeAgent(a) PROVE GateInv'
<1>1. /\ UNCHANGED <<search, asker, slot, onWire, told, approver, begun, role, docs>>
      /\ grant' = [grant EXCEPT ![a] = NoGrant] /\ withdrawn' = withdrawn \cup Asked(a)
  BY DEF RevokeAgent, Apart, talk, desk
<1>2. grant' \in [Agents -> Prints] /\ grant'[a] = NoGrant /\ \A b \in Agents : b # a => grant'[b] = grant[b]
  BY <1>1 DEF GateInv, GateTypes, Prints
<1>3. \A t \in Asked(a) : \E v \in Workspaces :
         /\ asker[v].tok = t /\ asker[v].agent = a /\ asker[v].pc \in {"waiting", "allowed"}
  BY DEF Asked
<1>4. \A v \in Workspaces : asker[v].pc \in {"waiting", "allowed"} =>
         asker[v].tok \in DOMAIN search /\ asker[v].tok \notin onWire /\ asker[v].tok # 0
  BY AtWork DEF GateInv, AsksAreRight, AsksRightly, Held, Gone, Free
<1>5. AllowedOnWire' /\ withdrawn' \subseteq DOMAIN search
  BY <1>1, <1>3, <1>4 DEF GateInv, GateTypes, AllowedOnWire
<1>6. AsksAreRight'
  <2> SUFFICES ASSUME NEW w \in Workspaces PROVE AsksRightly(w)'
    BY DEF AsksAreRight
  <2>1. AsksRightly(w)
    BY DEF GateInv, AsksAreRight
  <2>2. \A v \in Workspaces : v # w /\ asker[v].pc \in {"waiting", "allowed"} /\ asker[w].pc # "idle"
                              => asker[v].tok # asker[w].tok
    BY <1>4, Apart2
  <2>3. asker[w].pc \in {"waiting", "allowed"} /\ asker[w].tok \in withdrawn' => grant'[asker[w].agent] = NoGrant
    BY <1>1, <1>2, <1>3, <2>1, <2>2, AtWork DEF AsksRightly
  <2>4. asker[w].pc \in {"recorded", "rechecking", "cleared"} => asker[w].tok \notin Asked(a)
    BY <1>3, <2>2
  <2> QED BY <1>1, <2>1, <2>3, <2>4 DEF AsksRightly
<1> QED BY <1>1, <1>2, <1>5, <1>6, OfficeStep DEF GateInv, GateTypes

LEMMA EditStep == ASSUME GateInv, (\E a \in Agents : EditAgent(a)) \/ KillEgress PROVE GateInv'
<1>1. /\ UNCHANGED <<search, asker, slot, onWire, told, approver, begun, grant, withdrawn>>
      /\ role' \in [Agents -> 0..1] /\ docs' \in [Agents -> 0..1]
  BY DEF EditAgent, KillEgress, Apart, talk, desk, GateInv, GateTypes
<1>2. AllowedOnWire' /\ AsksAreRight'
  BY <1>1 DEF GateInv, AllowedOnWire, AsksAreRight, AsksRightly
<1> QED BY <1>1, <1>2, OfficeStep DEF GateInv, GateTypes

LEMMA DieStep == GateInv /\ Die => GateInv'
<1> SUFFICES ASSUME GateInv, Die PROVE GateInv'
  OBVIOUS
<1>1. /\ UNCHANGED <<search, grant, role, docs, told, onWire, withdrawn, begun>>
      /\ slot' = NoSlot /\ asker' = [w \in Workspaces |-> NoTurn] /\ approver' = [o \in Approvers |-> NoClick]
  BY DEF Die
<1>2. NoTurn \in TurnRecs /\ NoTurn.pc = "idle" /\ NoTurn.tok = 0 /\ NoTurn.used = 0
  BY DEF NoTurn, TurnRecs, Free, Prints
<1>3. slot' \in SlotRecs /\ slot'.tok = 0
  BY <1>1 DEF NoSlot, SlotRecs
<1> HIDE DEF NoTurn
<1>4. asker' \in [Workspaces -> TurnRecs] /\ \A w \in Workspaces : asker'[w] = NoTurn
  BY <1>1, <1>2
<1>5. approver' \in [Approvers -> ClickRecs] /\ \A o \in Approvers : approver'[o].pc = "idle" /\ approver'[o].tok = 0
  BY <1>1, NoClickFacts
<1>6. GateTypes' /\ LogIsTrue' /\ QuietAfterwards' /\ AllowedOnWire' /\ RowsOfTurns'
  BY <1>1, <1>3, <1>4, <1>5 DEF GateInv, GateTypes, LogIsTrue, QuietAfterwards, AllowedOnWire, RowsOfTurns
<1>7. RowsAreHeld' /\ TurnsApart' /\ QuietIsKept' /\ AsksAreRight'
  BY <1>2, <1>4 DEF RowsAreHeld, HoldsItsRow, TurnsApart, QuietIsKept, KeepsQuiet, LatchesWhenTold, AsksAreRight,
     AsksRightly, Free, Held, AtSlot
<1>8. SlotOfOne' /\ AnswersAreRight'
  BY <1>1, <1>3, <1>5 DEF GateInv, SlotOfOne, AnswersAreRight, AnswerRightly
<1>9. SpentRightly'
  <2>1. Budgets'
    BY <1>1 DEF GateInv, SpentRightly, Budgets, HeardOf, SentBy
  <2> QED BY <1>2, <1>4, <2>1, GateConstants DEF SpentRightly, SpendsRightly, Held, AtSlot
<1> QED BY <1>6, <1>7, <1>8, <1>9 DEF GateInv

\* A process that is down has no turn in it.
DownIsIdle == serves \in BOOLEAN /\ (~serves => slot.tok = 0 /\ \A w \in Workspaces : asker[w].pc = "idle")

LEMMA ReviveStep == GateInv /\ DownIsIdle /\ Revive => GateInv'
<1> SUFFICES ASSUME GateInv, DownIsIdle, Revive PROVE GateInv'
  OBVIOUS
<1>1. /\ UNCHANGED <<slot, asker, onWire, grant, role, docs, withdrawn, told, approver, begun>>
      /\ \A w \in Workspaces : asker[w].pc = "idle"
  BY DEF Revive, office, desk, DownIsIdle
<1>2. /\ search' \in Seq(Rows) /\ Len(search') = Len(search) /\ DOMAIN search' = DOMAIN search
      /\ \A t \in DOMAIN search :
            /\ search'[t].agent = search[t].agent /\ search'[t].turn = search[t].turn /\ search'[t].by = search[t].by
            /\ search'[t].state = IF search[t].state = "awaiting" THEN "interrupted" ELSE search[t].state
  <2>1. search \in Seq(Rows) /\ DOMAIN search = 1..Len(search) /\ Len(search) \in Nat
    BY DEF GateInv, GateTypes
  <2> DEFINE r(t) == IF search[t].state = "awaiting" THEN [search[t] EXCEPT !.state = "interrupted"] ELSE search[t]
  <2>2. \A t \in DOMAIN search :
          /\ r(t) \in Rows /\ r(t).agent = search[t].agent /\ r(t).turn = search[t].turn /\ r(t).by = search[t].by
          /\ r(t).state = IF search[t].state = "awaiting" THEN "interrupted" ELSE search[t].state
    <3> SUFFICES ASSUME NEW t \in DOMAIN search
                 PROVE  /\ r(t) \in Rows /\ r(t).agent = search[t].agent /\ r(t).turn = search[t].turn
                        /\ r(t).by = search[t].by
                        /\ r(t).state = IF search[t].state = "awaiting" THEN "interrupted" ELSE search[t].state
      OBVIOUS
    <3>1. search[t] \in Rows
      BY <2>1
    <3> QED BY <3>1 DEF Rows, Outcomes
  <2>3. search' = [t \in 1..Len(search) |-> r(t)]
    BY <2>1 DEF Revive
  <2> HIDE DEF r
  <2>4. search' \in Seq(Rows) /\ Len(search') = Len(search) /\ DOMAIN search' = DOMAIN search
    BY <2>1, <2>2, <2>3
  <2>5. \A t \in DOMAIN search : search'[t] = r(t)
    BY <2>1, <2>3
  <2> QED BY <2>2, <2>4, <2>5
<1>3. GateTypes' /\ AllowedOnWire' /\ RowsOfTurns'
  BY <1>1, <1>2 DEF GateInv, GateTypes, AllowedOnWire, RowsOfTurns
<1>4. LogIsTrue' /\ QuietAfterwards'
  BY <1>1, <1>2 DEF GateInv, LogIsTrue, QuietAfterwards, Refusals
<1>5. TurnsApart' /\ SlotOfOne' /\ AnswersAreRight' /\ QuietIsKept'
  BY <1>1, <1>2 DEF GateInv, TurnsApart, SlotOfOne, AnswersAreRight, AnswerRightly, QuietIsKept, KeepsQuiet,
     LatchesWhenTold
<1>6. RowsAreHeld' /\ AsksAreRight'
  BY <1>1, <1>2 DEF GateInv, RowsAreHeld, HoldsItsRow, AsksAreRight, AsksRightly, Free, Held, AtSlot
<1>7. SpentRightly'
  <2>1. /\ \A n \in Nat : HeardOf(n)' = HeardOf(n)
        /\ \A a \in Agents : SentBy(a)' = SentBy(a)
    BY <1>2 DEF HeardOf, SentBy, Heard, Loud
  <2>2. Budgets'
    BY <2>1 DEF GateInv, SpentRightly, Budgets
  <2> QED BY <1>1, <2>2 DEF GateInv, SpentRightly, SpendsRightly, Held, AtSlot
<1> QED BY <1>3, <1>4, <1>5, <1>6, <1>7 DEF GateInv

\* Nothing but its end stops a process, and nothing but its start moves one that is down.
LEMMA DownStep == DownIsIdle /\ [GateNext]_gateVars => DownIsIdle'
<1> SUFFICES ASSUME DownIsIdle, [GateNext]_gateVars PROVE DownIsIdle'
  OBVIOUS
<1> USE DEF DownIsIdle
<1>1. CASE UNCHANGED gateVars
  BY <1>1 DEF gateVars, talk
<1>2. CASE Die
  BY <1>2 DEF Die, NoSlot, NoTurn
<1>3. CASE Revive
  BY <1>3 DEF Revive
<1>4. ASSUME NEW w \in Workspaces,
             \/ EnterTurn(w) \/ Delegate(w) \/ ReadStranger(w) \/ LeaveTurn(w) \/ PassGates(w) \/ InvalidQuery(w)
             \/ AttemptFails(w) \/ LoseCaller(w) \/ SearchStep(w)
      PROVE  serves /\ serves' = serves
  BY <1>4 DEF EnterTurn, Delegate, ReadStranger, LeaveTurn, PassGates, InvalidQuery, AttemptFails, LoseCaller,
     SearchStep, RefuseUngranted, RefuseSpent, RecordAttempt, OpenSlot, HearAnswer, TimeOut, Unask, RereadGrant,
     Recheck, Fetch, SettleRow, CloseSlot, Record, Elsewhere, AskerAt
<1>5. ASSUME \/ Expire \/ KillEgress
             \/ \E o \in Approvers : Click(o) \/ Resolve(o) \/ Send(o)
             \/ \E a \in Agents : GrantAgent(a) \/ RevokeAgent(a) \/ EditAgent(a)
      PROVE  serves /\ serves' = serves
  BY <1>5 DEF Expire, KillEgress, Click, Resolve, Send, GrantAgent, RevokeAgent, EditAgent, Elsewhere, Aside, Apart,
     Change, ApproverAt
<1> QED BY <1>1, <1>2, <1>3, <1>4, <1>5 DEF GateNext

------------------------------------------------------------------------------
(* The theorems.                                                           *)

LEMMA GateInvStep == GateInv /\ DownIsIdle /\ [GateNext]_gateVars => GateInv'
<1> SUFFICES ASSUME GateInv, DownIsIdle, [GateNext]_gateVars PROVE GateInv'
  OBVIOUS
<1>1. CASE UNCHANGED gateVars
  <2>1. GateTypes' /\ AllowedOnWire' /\ LogIsTrue' /\ QuietAfterwards'
    BY <1>1 DEF GateInv, GateTypes, AllowedOnWire, LogIsTrue, QuietAfterwards, gateVars, talk, office, desk
  <2>2. AsksAreRight' /\ SlotOfOne' /\ AnswersAreRight'
    BY <1>1 DEF GateInv, AsksAreRight, AsksRightly, SlotOfOne, AnswersAreRight, AnswerRightly, gateVars, talk,
       office, desk
  <2> QED BY <1>1, <2>1, <2>2, TurnsRest DEF GateInv, gateVars, talk
<1>2. ASSUME NEW w \in Workspaces, InvalidQuery(w) \/ RefuseUngranted(w) \/ RefuseSpent(w) \/ RecordAttempt(w)
      PROVE  GateInv'
  <2>1. /\ asker[w].pc = "asking"
        /\ \/ Record(w, "refusing", "refused_invalid") \/ Record(w, "refusing", "refused_revoked")
           \/ Record(w, "refusing", "refused_budget") \/ (Record(w, "recorded", "none") /\ ~Spent(w))
    BY <1>2 DEF InvalidQuery, RefuseUngranted, RefuseSpent, RecordAttempt, AskerAt
  <2> QED BY <2>1, RecordStep
<1>3. ASSUME NEW w \in Workspaces, SearchStep(w) PROVE GateInv'
  BY <1>2, <1>3, OpenSlotStep, WaitingStep, UnaskStep, RereadGrantStep, RecheckStep, FetchStep, SettleRowStep,
     CloseSlotStep DEF SearchStep
<1>4. ASSUME NEW w \in Workspaces,
             \/ EnterTurn(w) \/ Delegate(w) \/ ReadStranger(w) \/ LeaveTurn(w) \/ PassGates(w) \/ InvalidQuery(w)
             \/ AttemptFails(w) \/ LoseCaller(w) \/ SearchStep(w)
      PROVE  GateInv'
  BY <1>2, <1>3, <1>4, EnterTurnStep, ThinkingStep, LeaveTurnStep, AttemptFailsStep, WaitingStep
<1>5. ASSUME NEW o \in Approvers, Click(o) \/ Resolve(o) \/ Send(o) PROVE GateInv'
  BY <1>5, ClickStep, ResolveStep, SendStep
<1>6. ASSUME NEW a \in Agents, GrantAgent(a) \/ RevokeAgent(a) \/ EditAgent(a) PROVE GateInv'
  BY <1>6, GrantStep, RevokeStep, EditStep
<1>7. CASE Expire \/ KillEgress \/ Die \/ Revive
  BY <1>7, ExpireStep, EditStep, DieStep, ReviveStep
<1> QED BY <1>1, <1>4, <1>5, <1>6, <1>7 DEF GateNext

LEMMA GateInvAlways == GateSpec => [](GateInv /\ DownIsIdle)
<1>1. GateInit => DownIsIdle
  BY DEF GateInit, DownIsIdle
<1> QED BY <1>1, GateInvInit, GateInvStep, DownStep, PTL DEF GateSpec

\* At most one turn is at the slot, and it is there for its own search.
LEMMA SlotIsAsked == GateInv => OneIsAsked
<1> SUFFICES ASSUME GateInv PROVE OneIsAsked
  OBVIOUS
<1>1. Waiters = {w \in Workspaces : asker[w].pc \in AtSlot}
  BY DEF Waiters, AtSlot
<1>2. \A w \in Waiters : slot.tok = asker[w].tok /\ asker[w].tok # 0 /\ asker[w].pc # "idle"
  BY <1>1, AtWork DEF AtSlot, Free
<1>3. \A v, w \in Waiters : v = w
  BY <1>1, <1>2, Apart2
<1>4. Cardinality({}) = 0 /\ \A w : Cardinality({w}) = 1
  BY FS_EmptySet, FS_Singleton
<1>5. CASE slot.tok = 0
  <2>1. Waiters = {}
    BY <1>2, <1>5
  <2> QED BY <1>2, <1>4, <1>5, <2>1 DEF OneIsAsked
<1>6. CASE slot.tok # 0
  <2>1. PICK w \in Workspaces : asker[w].pc \in AtSlot
    BY <1>6 DEF GateInv, SlotOfOne
  <2>2. Waiters = {w}
    BY <1>1, <1>3, <2>1
  <2> QED BY <1>2, <1>4, <1>6, <2>2 DEF OneIsAsked
<1> QED BY <1>5, <1>6

\* Whatever leaves the process was asked for and allowed, one at a time, within
\* the limits of its turn and its agent, and never after the turn was told to be
\* quiet (engine/egress.go webSearch, egress/broker.go).
THEOREM SearchIsAsked == GateSpec => []SearchesAreAsked
<1>1. GateInv => SearchesAreAsked
  <2> SUFFICES ASSUME GateInv PROVE SearchesAreAsked
    OBVIOUS
  <2>1. \A n \in 1..begun : n \in Nat /\ HeardOf(n) = {t \in DOMAIN search :
          search[t].turn = n /\ search[t].state \in {"sent", "failed", "denied", "timeout", "abandoned"}}
    BY DEF HeardOf, Heard, Loud, GateInv, GateTypes
  <2>2. WithinBudget
    BY <2>1 DEF GateInv, SpentRightly, Budgets, WithinBudget
  <2> QED BY <2>2, SlotIsAsked DEF GateInv, SearchesAreAsked, SentAsAllowed, AskedInTurn
<1> QED BY <1>1, GateInvAlways, PTL

\* The search log says of no query that it was not sent when it was, and names a
\* decision only as its operator was told of it (engine/egress.go settle).
THEOREM LogTellsTheTruth == GateSpec => []LogIsTrue
<1>1. GateInv => LogIsTrue
  BY DEF GateInv
<1> QED BY <1>1, GateInvAlways, PTL

------------------------------------------------------------------------------
(* The plan.                                                               *)

StepNos  == 1..MaxSteps
Counts   == 0..MaxSteps
Passes   == 0..MaxCycles
Ids      == 0..MaxBindings
PosRecs  == [step : StepNos, cycle : Passes, blocked : BOOLEAN]
WalkRecs == [pc : {"idle", "sighting", "acting", "counting", "closing", "noting", "restarting"},
             op : {"none", "done", "blocked", "begin"}, id : Ids, shown : Counts,
             step : Counts, cycle : Passes, count : Counts,
             alone : BOOLEAN, counted : BOOLEAN]
Notes    == UNION {[P -> PosRecs] : P \in SUBSET Places}
MoveRecs == [pc : {"idle", "counting", "placing", "moving", "detaching", "clearing", "reattaching"},
             op : {"none", "seek", "reset", "detach", "rollback"}, id : Ids,
             target : Counts, cycle : Passes, todo : SUBSET Places, counted : BOOLEAN,
             back : Notes]

PlanTypes ==
    /\ plan \in [steps : Counts, mode : {"resume", "restart"}]
    /\ bound \in [DOMAIN bound -> Places] /\ DOMAIN bound \subseteq Bindings
    /\ pos \in [DOMAIN pos -> PosRecs]
    /\ noted \in Notes
    /\ walker \in WalkRecs /\ mover \in [Movers -> MoveRecs] /\ strayed \subseteq Bindings

\* What the turn has read is so, as long as nobody else has written it since.
WalkerFits ==
    /\ walker.pc = "closing" /\ walker.counted => plan.steps \in {0, walker.count}
    /\ walker.alone =>
          /\ walker.pc = "sighting" => walker.id \in DOMAIN bound /\ walker.count = plan.steps
          /\ walker.pc \in {"acting", "counting", "closing"} =>
                /\ walker.id \in DOMAIN pos /\ pos[walker.id].step = walker.shown
                /\ walker.shown <= plan.steps
          /\ walker.pc \in {"counting", "closing"} =>
                walker.step = walker.shown /\ walker.cycle = pos[walker.id].cycle
          /\ walker.pc = "closing" => walker.count = plan.steps

\* Whoever moves a position held the step against the plan, if he counted its steps and
\* they are still what they were; what a rollback attaches again is what it has noted.
MoverFits(m) ==
    /\ mover[m].pc \in {"counting", "placing", "moving"} => mover[m].target > 0
    /\ mover[m].pc \in {"placing", "moving"} /\ mover[m].counted =>
          mover[m].target <= plan.steps \/ plan.steps = 0
    /\ mover[m].pc \in {"counting", "placing", "moving", "reattaching"} =>
          mover[m].todo \subseteq DOMAIN mover[m].back
MoversFit == \A m \in Movers : MoverFits(m)

PlanInv == PlanTypes /\ PositionFits /\ WalkerFits /\ MoversFit

LEMMA PlanInvInit == PlanInit => PlanInv
<1> SUFFICES ASSUME PlanInit PROVE PlanInv
  OBVIOUS
<1>0. Start \in PosRecs /\ [p \in {} |-> Start] \in Notes
  <2>1. Start \in PosRecs
    BY PlanConstants DEF Start, PosRecs, StepNos, Passes
  <2>2. [p \in {} |-> Start] \in [{} -> PosRecs]
    OBVIOUS
  <2> QED BY <2>1, <2>2 DEF Notes
<1>1. /\ Resting \in WalkRecs /\ NoMove \in MoveRecs
      /\ Resting.pc = "idle" /\ NoMove.pc = "idle"
  BY <1>0, PlanConstants DEF Resting, NoMove, WalkRecs, MoveRecs, Counts, Passes, Ids
<1>2. /\ bound \in [DOMAIN bound -> Places] /\ DOMAIN bound \subseteq {1}
      /\ pos = [i \in {} |-> Start] /\ noted = [p \in {} |-> Start]
  BY DEF PlanInit
<1>3. plan.steps > 0 /\ plan \in [steps : Counts, mode : {"resume", "restart"}]
  BY PlanConstants DEF PlanInit, Counts
<1>4. PlanTypes
  BY <1>0, <1>1, <1>2, <1>3, PlanConstants DEF PlanInit, PlanTypes, Bindings
<1>5. PositionFits
  BY <1>2, <1>3 DEF PositionFits, PositionHasItsPlan, PositionPointsAtAStep
<1>6. WalkerFits /\ MoversFit
  BY <1>1 DEF PlanInit, WalkerFits, MoversFit, MoverFits
<1> QED BY <1>4, <1>5, <1>6 DEF PlanInv

\* What is noted is a position for some of the places.
LEMMA NotesFit ==
    ASSUME NEW f \in Notes
    PROVE  DOMAIN f \subseteq Places /\ \A p \in DOMAIN f : f[p] \in PosRecs
BY DEF Notes

LEMMA PlanInvMeans == PlanInv => PlanTypeOK
<1> SUFFICES ASSUME PlanInv PROVE PlanTypeOK
  OBVIOUS
<1>1. DOMAIN noted \subseteq Places
  BY NotesFit DEF PlanInv, PlanTypes
<1>2. /\ pos \in [DOMAIN pos -> PosRecs] /\ plan \in [steps : Counts, mode : {"resume", "restart"}]
      /\ bound \in [DOMAIN bound -> Places] /\ DOMAIN bound \subseteq Bindings
      /\ walker.id \in Ids /\ strayed \subseteq Bindings
  BY DEF PlanInv, PlanTypes, WalkRecs
<1> QED BY <1>1, <1>2 DEF PlanTypeOK, PosRecs, StepNos, Counts, Passes, Ids

------------------------------------------------------------------------------
(* Ids and positions.                                                      *)

LEMMA LeastNatural ==
    ASSUME NEW T \in SUBSET Nat, T # {}
    PROVE  \E n \in T : \A k \in T : n <= k
<1>1. PICK n \in T : \A k \in T : ~(<<k, n>> \in OpToRel(<, Nat))
  BY NatLessThanWellFounded, WFMin
<1>2. \A k \in T : ~(k < n)
  BY <1>1 DEF OpToRel
<1> QED BY <1>2

\* The id handed out next is one more than the greatest present, and so a new one.
LEMMA FreshIsNew ==
    ASSUME DOMAIN bound \subseteq Bindings
    PROVE  FreshId \in 1..MaxBindings + 1 /\ \A j \in DOMAIN bound : j < FreshId
<1> DEFINE T == {i \in 1..MaxBindings + 1 : \A j \in DOMAIN bound : j < i}
<1>0. MaxBindings \in Nat
  BY PlanConstants
<1>1. T \in SUBSET Nat /\ T # {}
  <2>1. MaxBindings + 1 \in T
    BY <1>0 DEF Bindings
  <2> QED BY <1>0, <2>1
<1>2. PICK n \in T : \A k \in T : n <= k
  BY <1>1, LeastNatural
<1>3. n = 1 \/ n - 1 \in DOMAIN bound
  <2> SUFFICES ASSUME n # 1, n - 1 \notin DOMAIN bound PROVE FALSE
    OBVIOUS
  <2>1. n - 1 \in 1..MaxBindings + 1 /\ ~(n <= n - 1)
    BY <1>0, <1>2
  <2>2. \A j \in DOMAIN bound : j < n - 1
    <3> SUFFICES ASSUME NEW j \in DOMAIN bound PROVE j < n - 1
      OBVIOUS
    <3>1. j \in Nat /\ j < n /\ j # n - 1 /\ n \in Nat
      BY <1>0, <1>2 DEF Bindings
    <3> QED BY <3>1
  <2> QED BY <1>2, <2>1, <2>2
<1>4. \E i \in 1..MaxBindings + 1 :
         (\A j \in DOMAIN bound : j < i) /\ (i = 1 \/ i - 1 \in DOMAIN bound)
  BY <1>2, <1>3
<1> QED BY <1>4, Zenon DEF FreshId

\* Attaching: what is attached stays as it is, and a place has one attachment.
LEMMA Attached ==
    ASSUME PlanInv, NEW p \in Places, BindAt(p), plan.steps > 0
    PROVE  /\ bound' \in [DOMAIN bound' -> Places] /\ DOMAIN bound' \subseteq Bindings
           /\ DOMAIN bound \subseteq DOMAIN bound'
           /\ \A i, j \in DOMAIN bound' : bound'[i] = bound'[j] => i = j
           /\ BoundId(p) \in Bindings
<1>0. /\ bound \in [DOMAIN bound -> Places] /\ DOMAIN bound \subseteq Bindings
      /\ \A i, j \in DOMAIN bound : bound[i] = bound[j] => i = j
  BY DEF PlanInv, PlanTypes, PositionFits, PositionHasItsPlan
<1>1. CASE IdAt(p) # {}
  <2>1. BoundId(p) \in IdAt(p)
    BY <1>1 DEF BoundId
  <2>2. bound' = bound
    BY <1>1 DEF BindAt
  <2> QED BY <1>0, <2>1, <2>2 DEF IdAt
<1>2. CASE IdAt(p) = {}
  <2> DEFINE n == FreshId
  <2>1. n \in Bindings /\ bound' = [j \in DOMAIN bound \cup {n} |-> IF j = n THEN p ELSE bound[j]]
    BY <1>2 DEF BindAt
  <2>2. n \notin DOMAIN bound
    BY <1>0, FreshIsNew, PlanConstants DEF Bindings
  <2>3. BoundId(p) = n
    BY <1>2 DEF BoundId
  <2>4. \A j \in DOMAIN bound : bound[j] # p
    BY <1>2 DEF IdAt
  <2> HIDE DEF n
  <2> QED BY <1>0, <2>1, <2>2, <2>3, <2>4
<1> QED BY <1>1, <1>2

LEMMA SeenFits ==
    ASSUME PlanTypes, NEW i
    PROVE  /\ SeenAt(i) \in PosRecs
           /\ i \in DOMAIN pos => SeenAt(i) = pos[i]
           /\ i \notin DOMAIN pos => SeenAt(i).step = 1
BY PlanConstants DEF SeenAt, Start, PosRecs, PlanTypes, StepNos, Passes

LEMMA WithPosFits ==
    ASSUME PlanTypes, NEW i, NEW q \in PosRecs
    PROVE  /\ WithPos(i, q) \in [DOMAIN pos \cup {i} -> PosRecs]
           /\ WithPos(i, q)[i] = q
           /\ \A j \in DOMAIN pos : j # i => WithPos(i, q)[j] = pos[j]
BY DEF WithPos, PlanTypes

\* A position is written: it points at a step of the plan, or has strayed.
LEMMA PosWritten ==
    ASSUME PlanInv, NEW i \in DOMAIN bound, NEW q \in PosRecs, pos' = WithPos(i, q),
           UNCHANGED <<plan, bound>>,
           \/ strayed' = strayed \cup {i}
           \/ strayed' = strayed \ {i} /\ q.step <= plan.steps
           \/ strayed' = strayed /\ i \in DOMAIN pos /\ q.step = pos[i].step
           \/ strayed' = strayed /\ q.step <= plan.steps
    PROVE  /\ pos' \in [DOMAIN pos' -> PosRecs] /\ DOMAIN pos' = DOMAIN pos \cup {i} /\ pos'[i] = q
           /\ \A j \in DOMAIN pos : j # i => pos'[j] = pos[j]
           /\ strayed' \subseteq Bindings /\ PositionFits'
<1>1. /\ pos' \in [DOMAIN pos \cup {i} -> PosRecs] /\ pos'[i] = q
      /\ \A j \in DOMAIN pos : j # i => pos'[j] = pos[j]
  <2>1. PlanTypes
    BY DEF PlanInv
  <2>2. /\ WithPos(i, q) \in [DOMAIN pos \cup {i} -> PosRecs] /\ WithPos(i, q)[i] = q
        /\ \A j \in DOMAIN pos : j # i => WithPos(i, q)[j] = pos[j]
    BY ZenonT(40), <2>1, WithPosFits
  <2> QED BY <2>2
<1>2. strayed' \subseteq Bindings
  BY DEF PlanInv, PlanTypes
<1>3. PositionHasItsPlan'
  BY <1>1 DEF PlanInv, PositionFits, PositionHasItsPlan
<1>4. PositionPointsAtAStep'
  <2> SUFFICES ASSUME NEW j \in DOMAIN pos', pos'[j].step > plan.steps PROVE j \in strayed'
    BY DEF PositionPointsAtAStep
  <2>0. q.step \in Nat /\ plan.steps \in Nat
    BY PlanConstants DEF PosRecs, PlanInv, PlanTypes, StepNos, Counts
  <2>1. CASE j = i
    BY <1>1, <2>0, <2>1 DEF PlanInv, PositionFits, PositionPointsAtAStep
  <2>2. CASE j # i
    BY <1>1, <2>2 DEF PlanInv, PositionFits, PositionPointsAtAStep
  <2> QED BY <2>1, <2>2
<1> QED BY <1>1, <1>2, <1>3, <1>4 DEF PositionFits

\* A position is made where there is none yet; the one there is stays as it is.
LEMMA PosMade ==
    ASSUME PlanInv, NEW i \in DOMAIN bound, pos' = WithPos(i, SeenAt(i)), UNCHANGED <<plan, bound, strayed>>
    PROVE  /\ pos' \in [DOMAIN pos' -> PosRecs] /\ DOMAIN pos' = DOMAIN pos \cup {i}
           /\ pos'[i] = SeenAt(i)
           /\ \A j \in DOMAIN pos : pos'[j] = pos[j]
           /\ strayed' \subseteq Bindings /\ PositionFits'
<1>1. SeenAt(i) \in PosRecs /\ (i \in DOMAIN pos => SeenAt(i) = pos[i])
      /\ (i \notin DOMAIN pos => SeenAt(i).step = 1)
  BY SeenFits DEF PlanInv
<1>2. plan.steps > 0 /\ plan.steps \in Nat
  BY PlanConstants DEF PlanInv, PlanTypes, PositionFits, PositionHasItsPlan, Counts
<1>3. (i \in DOMAIN pos /\ SeenAt(i).step = pos[i].step) \/ SeenAt(i).step <= plan.steps
  BY <1>1, <1>2
<1> QED BY <1>1, <1>3, PosWritten

\* Attachments go, and their positions with them.
LEMMA Dropped ==
    ASSUME PlanInv, NEW S, Drop(S), plan' = plan \/ DOMAIN bound \subseteq S
    PROVE  /\ bound' \in [DOMAIN bound' -> Places] /\ DOMAIN bound' = DOMAIN bound \ S
           /\ DOMAIN bound' \subseteq Bindings
           /\ pos' \in [DOMAIN pos' -> PosRecs] /\ DOMAIN pos' = DOMAIN pos \ S
           /\ \A j \in DOMAIN pos' : pos'[j] = pos[j]
           /\ strayed' \subseteq Bindings /\ PositionFits'
<1>0. /\ bound \in [DOMAIN bound -> Places] /\ pos \in [DOMAIN pos -> PosRecs]
      /\ DOMAIN bound \subseteq Bindings /\ strayed \subseteq Bindings
      /\ bound' = Minus(bound, S) /\ pos' = Minus(pos, S) /\ strayed' = strayed \ S
      /\ DOMAIN pos \subseteq DOMAIN bound
  BY DEF PlanInv, PlanTypes, Drop, PositionFits, PositionHasItsPlan
<1>1. /\ bound' \in [DOMAIN bound \ S -> Places] /\ pos' \in [DOMAIN pos \ S -> PosRecs]
      /\ \A j \in DOMAIN bound \ S : bound'[j] = bound[j]
      /\ \A j \in DOMAIN pos \ S : pos'[j] = pos[j]
  BY <1>0 DEF Minus
<1>2. PositionHasItsPlan'
  BY <1>0, <1>1 DEF PlanInv, PositionFits, PositionHasItsPlan
<1>3. PositionPointsAtAStep'
  BY <1>0, <1>1 DEF PlanInv, PositionFits, PositionPointsAtAStep
<1> QED BY <1>0, <1>1, <1>2, <1>3 DEF PositionFits

------------------------------------------------------------------------------
(* The turn.                                                               *)

\* A step of the turn that leaves positions alone.
LEMMA WalkerThinks ==
    ASSUME PlanInv, walker' \in WalkRecs, UNCHANGED <<plan, bound, mover, noted, strayed, pos>>, WalkerFits'
    PROVE  PlanInv'
BY DEF PlanInv, PlanTypes, PositionFits, PositionHasItsPlan, PositionPointsAtAStep, MoversFit, MoverFits

\* A step of the turn that writes the position of an attachment that is there.
LEMMA WalkerWrites ==
    ASSUME PlanInv, walker' \in WalkRecs, UNCHANGED <<plan, bound, mover, noted>>,
           pos' \in [DOMAIN pos' -> PosRecs], strayed' \subseteq Bindings, PositionFits', WalkerFits'
    PROVE  PlanInv'
BY DEF PlanInv, PlanTypes, MoversFit, MoverFits

LEMMA RestingFits ==
    /\ Resting \in WalkRecs
    /\ walker' = Resting => WalkerFits'
    /\ 0 \in Counts
BY PlanConstants DEF Resting, WalkRecs, WalkerFits, Counts, Passes, Ids

LEMMA StepSight ==
    ASSUME PlanInv, LookAtPlans \/ SightPosition
    PROVE  PlanInv'
<1>0. /\ walker \in WalkRecs /\ plan.steps \in Counts /\ PlanTypes /\ WalkerFits
      /\ DOMAIN bound \subseteq Ids
  BY PlanConstants DEF PlanInv, PlanTypes, Bindings, Ids
<1>1. CASE LookAtPlans
  <2>1. /\ UNCHANGED <<plan, bound, mover, noted, strayed, pos>>
        /\ \E i \in DOMAIN bound, op \in {"done", "blocked", "begin"} :
              walker' = [Resting EXCEPT !.pc = "sighting", !.op = op, !.id = i, !.count = plan.steps]
    BY <1>1 DEF LookAtPlans, OnlyWalks, Walk
  <2>2. PICK i \in DOMAIN bound, op \in {"done", "blocked", "begin"} :
           walker' = [Resting EXCEPT !.pc = "sighting", !.op = op, !.id = i, !.count = plan.steps]
    BY <2>1
  <2>3. walker' \in WalkRecs /\ walker'.pc = "sighting" /\ walker'.id = i /\ walker'.count = plan.steps
    BY <1>0, <2>2, RestingFits DEF WalkRecs
  <2>4. WalkerFits'
    BY <2>1, <2>3 DEF WalkerFits
  <2> QED BY <2>1, <2>3, <2>4, WalkerThinks
<1>2. CASE SightPosition /\ walker.id \notin DOMAIN bound
  <2>1. UNCHANGED <<plan, bound, mover, noted, strayed, pos>> /\ walker' = Resting
    BY <1>2 DEF SightPosition, OnlyWalks, Walk
  <2> QED BY <2>1, RestingFits, WalkerThinks
<1>3. CASE SightPosition /\ walker.id \in DOMAIN bound
  <2> DEFINE i == walker.id
             q == SeenAt(walker.id)
  <2>1. /\ UNCHANGED <<plan, bound, mover, noted, strayed>> /\ walker.pc = "sighting" /\ i \in DOMAIN bound
        /\ pos' = WithPos(i, q)
        /\ walker' = IF q.step > walker.count THEN Resting
                     ELSE [walker EXCEPT !.pc = "acting", !.shown = q.step]
    BY <1>3 DEF SightPosition, OnlyWalks, Walk, WalkerAt
  <2>2. /\ pos' \in [DOMAIN pos' -> PosRecs] /\ DOMAIN pos' = DOMAIN pos \cup {i} /\ pos'[i] = q
        /\ strayed' \subseteq Bindings /\ PositionFits'
    BY <2>1, PosMade
  <2>3. q.step \in Counts /\ q.step \in Nat
    BY <1>0, SeenFits DEF PosRecs, StepNos, Counts
  <2> HIDE DEF q
  <2>4. CASE q.step > walker.count
    BY <2>1, <2>2, <2>4, RestingFits, WalkerWrites
  <2>5. CASE ~(q.step > walker.count)
    <3>1. walker' = [walker EXCEPT !.pc = "acting", !.shown = q.step]
      BY <2>1, <2>5
    <3>2. /\ walker' \in WalkRecs /\ walker'.pc = "acting" /\ walker'.id = i /\ walker'.shown = q.step
          /\ walker'.alone = walker.alone
      BY <1>0, <2>3, <3>1 DEF WalkRecs
    <3>3. walker.alone => q.step <= plan.steps
      BY <1>0, <2>1, <2>3, <2>5, PlanConstants DEF WalkerFits, WalkRecs, Counts
    <3>4. WalkerFits'
      BY <2>1, <2>2, <3>2, <3>3 DEF WalkerFits
    <3> QED BY <2>1, <2>2, <3>2, <3>4, WalkerWrites
  <2> QED BY <2>4, <2>5
<1> QED BY <1>1, <1>2, <1>3

LEMMA StepRead ==
    ASSUME PlanInv, ReadPosition \/ CountSteps
    PROVE  PlanInv'
<1>0. /\ walker \in WalkRecs /\ plan.steps \in Counts /\ PlanTypes /\ WalkerFits
  BY DEF PlanInv, PlanTypes
<1>1. CASE (ReadPosition \/ CountSteps) /\ walker.id \notin DOMAIN bound
  <2>1. UNCHANGED <<plan, bound, mover, noted, strayed, pos>> /\ walker' = Resting
    BY <1>1 DEF ReadPosition, CountSteps, OnlyWalks, Walk
  <2> QED BY <2>1, RestingFits, WalkerThinks
<1>2. CASE ReadPosition /\ walker.id \in DOMAIN bound
  <2> DEFINE i  == walker.id
             q  == SeenAt(walker.id)
             pc == IF walker.op = "done" THEN "counting" ELSE "noting"
  <2>1. /\ UNCHANGED <<plan, bound, mover, noted, strayed>> /\ walker.pc = "acting" /\ i \in DOMAIN bound
        /\ pos' = WithPos(i, q)
        /\ walker' = [walker EXCEPT !.pc = pc, !.step = q.step, !.cycle = q.cycle]
    BY <1>2 DEF ReadPosition, OnlyWalks, Walk, WalkerAt
  <2>2. /\ pos' \in [DOMAIN pos' -> PosRecs] /\ DOMAIN pos' = DOMAIN pos \cup {i} /\ pos'[i] = q
        /\ strayed' \subseteq Bindings /\ PositionFits'
    BY <2>1, PosMade
  <2>3. q.step \in Counts /\ q.cycle \in Passes /\ (i \in DOMAIN pos => q = pos[i])
    BY <1>0, SeenFits DEF PosRecs, StepNos, Counts
  <2>4. pc \in {"counting", "noting"}
    OBVIOUS
  <2> HIDE DEF q, pc
  <2>5. /\ walker' \in WalkRecs /\ walker'.pc = pc /\ walker'.id = i /\ walker'.shown = walker.shown
        /\ walker'.step = q.step /\ walker'.cycle = q.cycle /\ walker'.alone = walker.alone
    BY <1>0, <2>1, <2>3, <2>4 DEF WalkRecs
  <2>6. walker.alone => /\ q.step = walker.shown /\ walker.shown <= plan.steps
    BY <1>0, <2>1, <2>3 DEF WalkerFits
  <2>7. WalkerFits'
    BY <2>1, <2>2, <2>4, <2>5, <2>6 DEF WalkerFits
  <2> QED BY <2>1, <2>2, <2>5, <2>7, WalkerWrites
<1>3. CASE CountSteps /\ walker.id \in DOMAIN bound
  <2>1. /\ UNCHANGED <<plan, bound, mover, noted, strayed, pos>> /\ walker.pc = "counting"
        /\ walker' = [walker EXCEPT !.pc = "closing", !.count = plan.steps, !.counted = TRUE]
    BY <1>3 DEF CountSteps, OnlyWalks, Walk, WalkerAt
  <2>2. /\ walker' \in WalkRecs /\ walker'.pc = "closing" /\ walker'.id = walker.id
        /\ walker'.shown = walker.shown /\ walker'.step = walker.step /\ walker'.cycle = walker.cycle
        /\ walker'.alone = walker.alone /\ walker'.count = plan.steps
    BY <1>0, <2>1 DEF WalkRecs
  <2>3. WalkerFits'
    BY <1>0, <2>1, <2>2 DEF WalkerFits
  <2> QED BY <2>1, <2>2, <2>3, WalkerThinks
<1> QED BY <1>1, <1>2, <1>3

\* The successor of a step of a plan is a step of it.
LEMMA SuccessorFits ==
    ASSUME NEW step \in Counts, NEW cycle \in Passes, cycle < MaxCycles, NEW count \in Counts
    PROVE  /\ Successor(step, cycle, count) \in PosRecs
           /\ count > 0 => Successor(step, cycle, count).step <= count
           /\ step = count => Successor(step, cycle, count).step = 1
                              /\ Successor(step, cycle, count).cycle = cycle + 1
           /\ step < count => Successor(step, cycle, count).step = step + 1
                              /\ Successor(step, cycle, count).cycle = cycle
BY PlanConstants DEF Successor, PosRecs, StepNos, Counts, Passes

LEMMA StepClose ==
    ASSUME PlanInv, CloseStep
    PROVE  PlanInv' /\ ClosesWhatWasShown
<1>0. /\ walker \in WalkRecs /\ plan.steps \in Counts /\ PlanTypes /\ WalkerFits
      /\ walker.pc = "closing" /\ walker.cycle < MaxCycles /\ walker' = Resting
      /\ UNCHANGED <<plan, bound, mover, noted>>
  BY PlanConstants DEF PlanInv, PlanTypes, CloseStep, WalkerAt, Walk
<1>1. CASE walker.id \notin DOMAIN pos
  <2>1. UNCHANGED <<pos, strayed>>
    BY <1>1 DEF CloseStep
  <2> QED BY <1>0, <1>1, <2>1, RestingFits, WalkerThinks DEF ClosesWhatWasShown
<1>2. CASE walker.id \in DOMAIN pos
  <2> DEFINE i == walker.id
             q == Successor(walker.step, walker.cycle, walker.count)
  <2>1. pos' = WithPos(i, q) /\ Stray(i, walker.counted)
    BY <1>2 DEF CloseStep
  <2>2. /\ q \in PosRecs /\ walker.count \in Counts
        /\ walker.count > 0 => q.step <= walker.count
        /\ walker.step = walker.count => q.step = 1 /\ q.cycle = walker.cycle + 1
        /\ walker.step < walker.count => q.step = walker.step + 1 /\ q.cycle = walker.cycle
    BY <1>0, SuccessorFits DEF WalkRecs
  <2>3. i \in DOMAIN bound /\ plan.steps > 0
    BY <1>0, <1>2, PlanConstants DEF PlanInv, PlanTypes, PositionFits, PositionHasItsPlan, Counts
  <2> HIDE DEF q
  <2>4. walker.counted => q.step <= plan.steps
    BY <1>0, <2>2, <2>3 DEF WalkerFits
  <2>5. strayed' = strayed \cup {i} \/ (strayed' = strayed \ {i} /\ q.step <= plan.steps)
    BY <2>1, <2>4 DEF Stray
  <2>6. /\ pos' \in [DOMAIN pos' -> PosRecs] /\ pos'[i] = q /\ strayed' \subseteq Bindings /\ PositionFits'
    BY <1>0, <2>1, <2>2, <2>3, <2>5, PosWritten
  <2>7. PlanInv'
    BY <1>0, <2>6, RestingFits, WalkerWrites
  <2>8. ASSUME walker.alone
        PROVE  IF walker.shown = plan.steps
               THEN pos'[i].step = 1 /\ pos'[i].cycle = pos[i].cycle + 1
               ELSE pos'[i].step = walker.shown + 1 /\ pos'[i].cycle = pos[i].cycle
    <3>1. /\ walker.step = walker.shown /\ walker.cycle = pos[i].cycle /\ walker.count = plan.steps
          /\ walker.shown <= plan.steps /\ walker.shown \in Counts
      BY <1>0, <1>2, <2>8 DEF WalkerFits, WalkRecs
    <3>2. walker.shown = plan.steps \/ walker.shown < plan.steps
      BY <1>0, <3>1, PlanConstants DEF Counts
    <3> QED BY <2>2, <2>6, <3>1, <3>2
  <2> QED BY <2>7, <2>8 DEF ClosesWhatWasShown
<1> QED BY <1>1, <1>2

LEMMA StepEnd ==
    ASSUME PlanInv, NoteBlock \/ ReadMode \/ RestartPlan
    PROVE  PlanInv'
<1>0. /\ walker \in WalkRecs /\ PlanTypes /\ WalkerFits /\ DOMAIN pos \subseteq DOMAIN bound
  BY DEF PlanInv, PlanTypes, PositionFits, PositionHasItsPlan
<1>1. CASE ReadMode
  <2>1. /\ UNCHANGED <<plan, bound, mover, noted, strayed, pos>>
        /\ walker' = Resting \/ walker' = [walker EXCEPT !.pc = "restarting"]
    BY <1>1 DEF ReadMode, OnlyWalks, Walk
  <2>2. CASE walker' = Resting
    BY <2>1, <2>2, RestingFits, WalkerThinks
  <2>3. CASE walker' = [walker EXCEPT !.pc = "restarting"]
    <3>1. walker' \in WalkRecs /\ walker'.pc = "restarting"
      BY <1>0, <2>3 DEF WalkRecs
    <3>2. WalkerFits'
      BY <3>1 DEF WalkerFits
    <3> QED BY <2>1, <3>1, <3>2, WalkerThinks
  <2> QED BY <2>1, <2>2, <2>3
<1>2. CASE NoteBlock
  <2>1. /\ UNCHANGED <<plan, bound, mover, noted, strayed>> /\ walker' = Resting
        /\ pos' = IF walker.id \in DOMAIN pos
                  THEN WithPos(walker.id, [pos[walker.id] EXCEPT !.blocked = TRUE]) ELSE pos
    BY <1>2 DEF NoteBlock, OnlyWalks, Walk
  <2>2. CASE walker.id \notin DOMAIN pos
    BY <2>1, <2>2, RestingFits, WalkerThinks
  <2>3. CASE walker.id \in DOMAIN pos
    <3> DEFINE i == walker.id
               q == [pos[walker.id] EXCEPT !.blocked = TRUE]
    <3>1. q \in PosRecs /\ q.step = pos[i].step /\ pos' = WithPos(i, q) /\ i \in DOMAIN bound
      BY <1>0, <2>1, <2>3 DEF PlanTypes, PosRecs
    <3> HIDE DEF q
    <3>2. pos' \in [DOMAIN pos' -> PosRecs] /\ strayed' \subseteq Bindings /\ PositionFits'
      BY <2>1, <2>3, <3>1, PosWritten
    <3> QED BY <2>1, <3>2, RestingFits, WalkerWrites
  <2> QED BY <2>2, <2>3
<1>3. CASE RestartPlan
  <2>1. /\ UNCHANGED <<plan, bound, mover, noted>> /\ walker' = Resting /\ strayed' = strayed \ {walker.id}
        /\ pos' = IF walker.id \in DOMAIN bound
                  THEN WithPos(walker.id, [SeenAt(walker.id) EXCEPT !.step = 1, !.blocked = FALSE]) ELSE pos
    BY <1>3 DEF RestartPlan, Walk
  <2>2. CASE walker.id \notin DOMAIN bound
    <3>1. PositionFits' /\ strayed' \subseteq Bindings
      BY <1>0, <2>1, <2>2 DEF PlanInv, PlanTypes, PositionFits, PositionHasItsPlan, PositionPointsAtAStep
    <3> QED BY <1>0, <2>1, <2>2, <3>1, RestingFits, WalkerWrites DEF PlanTypes
  <2>3. CASE walker.id \in DOMAIN bound
    <3> DEFINE i == walker.id
               s == SeenAt(walker.id)
               q == [s EXCEPT !.step = 1, !.blocked = FALSE]
    <3>1. s \in PosRecs
      BY <1>0, SeenFits
    <3>2. 1 <= plan.steps
      BY <2>3, PlanConstants DEF PlanInv, PlanTypes, PositionFits, PositionHasItsPlan, Counts
    <3>3. pos' = WithPos(i, q)
      BY <2>1, <2>3
    <3> HIDE DEF s
    <3>4. q \in PosRecs /\ q.step = 1
      <4>1. 1 \in StepNos
        BY PlanConstants DEF StepNos
      <4> QED BY <3>1, <4>1 DEF PosRecs
    <3> HIDE DEF q
    <3>5. pos' \in [DOMAIN pos' -> PosRecs] /\ strayed' \subseteq Bindings /\ PositionFits'
      BY <2>1, <2>3, <3>2, <3>3, <3>4, PosWritten
    <3> QED BY <2>1, <3>5, RestingFits, WalkerWrites
  <2> QED BY <2>2, <2>3
<1> QED BY <1>1, <1>2, <1>3

------------------------------------------------------------------------------
(* Operators.                                                              *)

LEMMA NoMoveFits == NoMove \in MoveRecs /\ NoMove.pc = "idle" /\ NoMove.todo = {}
<1>1. [p \in {} |-> Start] \in Notes
  <2>1. [p \in {} |-> Start] \in [{} -> PosRecs]
    OBVIOUS
  <2> QED BY <2>1 DEF Notes
<1> QED BY <1>1, PlanConstants DEF NoMove, MoveRecs, Counts, Passes, Ids

\* A request moves on alone; the plan is as it was.
LEMMA MoverMoves ==
    ASSUME PlanInv, NEW m \in Movers, NEW k \in MoveRecs, SetMover(m, k), plan' = plan,
           k.pc \in {"counting", "placing", "moving"} => k.target > 0,
           k.pc \in {"placing", "moving"} /\ k.counted => k.target <= plan.steps \/ plan.steps = 0,
           k.pc \in {"counting", "placing", "moving", "reattaching"} => k.todo \subseteq DOMAIN k.back
    PROVE  mover' \in [Movers -> MoveRecs] /\ MoversFit'
<1>1. /\ mover' \in [Movers -> MoveRecs] /\ mover'[m] = k
      /\ \A n \in Movers : n # m => mover'[n] = mover[n]
  BY DEF PlanInv, PlanTypes, SetMover
<1>2. MoversFit'
  <2> SUFFICES ASSUME NEW n \in Movers PROVE MoverFits(n)'
    BY DEF MoversFit
  <2>1. CASE n = m
    BY <1>1, <2>1 DEF MoverFits
  <2>2. CASE n # m
    BY <1>1, <2>2 DEF PlanInv, MoversFit, MoverFits
  <2> QED BY <2>1, <2>2
<1> QED BY <1>1, <1>2

\* Nothing but the request itself moves.
LEMMA MoverThinks ==
    ASSUME PlanInv, UNCHANGED <<plan, bound, pos, walker, noted, strayed>>,
           mover' \in [Movers -> MoveRecs], MoversFit'
    PROVE  PlanInv'
BY DEF PlanInv, PlanTypes, PositionFits, PositionHasItsPlan, PositionPointsAtAStep, WalkerFits

\* Attachments are added at most, and no position changes.
LEMMA MoverAttaches ==
    ASSUME PlanInv, NEW p \in Places, BindAt(p), plan.steps > 0,
           UNCHANGED <<plan, pos, walker, noted, strayed>>,
           mover' \in [Movers -> MoveRecs], MoversFit'
    PROVE  PlanInv'
<1>1. /\ bound' \in [DOMAIN bound' -> Places] /\ DOMAIN bound' \subseteq Bindings
      /\ DOMAIN bound \subseteq DOMAIN bound'
      /\ \A i, j \in DOMAIN bound' : bound'[i] = bound'[j] => i = j
  BY Attached
<1>2. PlanTypes'
  BY <1>1 DEF PlanInv, PlanTypes
<1>3. PositionFits'
  BY <1>1 DEF PlanInv, PositionFits, PositionHasItsPlan, PositionPointsAtAStep
<1>4. WalkerFits'
  BY <1>1 DEF PlanInv, WalkerFits
<1> QED BY <1>2, <1>3, <1>4 DEF PlanInv

\* Whoever looks at a position that is written is not alone with it any more.
LEMMA Disturbed ==
    ASSUME PlanInv, NEW S, Disturb(S)
    PROVE  /\ walker' \in WalkRecs /\ walker'.pc = walker.pc /\ walker'.id = walker.id
           /\ walker'.shown = walker.shown /\ walker'.step = walker.step /\ walker'.cycle = walker.cycle
           /\ walker'.count = walker.count /\ walker'.counted = walker.counted
           /\ walker'.alone => walker.alone /\ walker.id \notin S
<1>1. walker \in WalkRecs /\ walker' = [walker EXCEPT !.alone = walker.alone /\ walker.id \notin S]
  BY DEF PlanInv, PlanTypes, Disturb
<1> QED BY <1>1 DEF WalkRecs

LEMMA StepAttach ==
    ASSUME PlanInv, NEW m \in Movers, AttachPlan(m)
    PROVE  PlanInv'
<1>1. PICK p \in Places, op \in {"attach", "seek", "reset"}, n \in 1..MaxSteps :
         /\ BindAt(p)
         /\ op # "seek" => n = 1
         /\ SetMover(m, IF op = "attach" THEN NoMove
                        ELSE [NoMove EXCEPT !.pc = IF op = "seek" THEN "counting" ELSE "placing",
                                            !.op = op, !.id = BoundId(p), !.target = n])
  BY DEF AttachPlan
<1>2. plan.steps > 0 /\ UNCHANGED <<plan, pos, walker, noted, strayed>> /\ plan.steps \in Nat
  BY PlanConstants DEF AttachPlan, PlanInv, PlanTypes, Counts
<1>3. CASE op = "attach"
  <2>1. SetMover(m, NoMove)
    BY <1>1, <1>3
  <2>2. mover' \in [Movers -> MoveRecs] /\ MoversFit'
    BY <1>2, <2>1, NoMoveFits, MoverMoves
  <2> QED BY <1>1, <1>2, <2>2, MoverAttaches
<1>4. CASE op # "attach"
  <2> DEFINE pc == IF op = "seek" THEN "counting" ELSE "placing"
             i  == BoundId(p)
             k  == [NoMove EXCEPT !.pc = pc, !.op = op, !.id = i, !.target = n]
  <2>1. SetMover(m, k)
    BY <1>1, <1>4
  <2>2. i \in Ids /\ n \in Counts
    BY <1>1, <1>2, Attached, PlanConstants DEF Bindings, Ids, Counts
  <2>3. pc \in {"counting", "placing"} /\ op \in {"seek", "reset"} /\ (pc = "placing" => n = 1) /\ n > 0
    BY <1>1, <1>4, PlanConstants
  <2> HIDE DEF pc, i
  <2>4. k \in MoveRecs /\ k.pc = pc /\ k.target = n /\ k.todo = {}
    BY <2>2, <2>3, NoMoveFits DEF MoveRecs
  <2> HIDE DEF k
  <2>5. mover' \in [Movers -> MoveRecs] /\ MoversFit'
    BY <1>2, <2>1, <2>3, <2>4, MoverMoves
  <2> QED BY <1>1, <1>2, <2>5, MoverAttaches
<1> QED BY <1>3, <1>4

LEMMA StepThink ==
    ASSUME PlanInv, NEW m \in Movers,
           CountForSeek(m) \/ FindAttachment(m) \/ RollBack(m) \/ ClearNext(m)
    PROVE  PlanInv'
<1>0. /\ UNCHANGED <<plan, bound, pos, walker, noted, strayed>> /\ mover[m] \in MoveRecs
      /\ PlanTypes /\ MoverFits(m) /\ plan.steps \in Counts /\ DOMAIN bound \subseteq Ids
  <2>1. UNCHANGED <<plan, bound, pos, walker, noted, strayed>>
    BY DEF CountForSeek, FindAttachment, RollBack, ClearNext
  <2>2. mover[m] \in MoveRecs /\ PlanTypes /\ MoverFits(m) /\ plan.steps \in Counts
    BY DEF PlanInv, PlanTypes, MoversFit
  <2>3. DOMAIN bound \subseteq Ids
    BY PlanConstants DEF PlanInv, PlanTypes, Bindings, Ids
  <2> QED BY <2>1, <2>2, <2>3
<1>1. SUFFICES \E k \in MoveRecs :
                  /\ SetMover(m, k)
                  /\ k.pc \in {"counting", "placing", "moving"} => k.target > 0
                  /\ k.pc \in {"placing", "moving"} /\ k.counted => k.target <= plan.steps \/ plan.steps = 0
                  /\ k.pc \in {"counting", "placing", "moving", "reattaching"} => k.todo \subseteq DOMAIN k.back
  BY <1>0, MoverMoves, MoverThinks
<1>2. CASE SetMover(m, NoMove)
  BY <1>2, NoMoveFits
<1>3. CASE CountForSeek(m) /\ ~SetMover(m, NoMove)
  <2> DEFINE count == IF mover[m].id \in DOMAIN bound THEN plan.steps ELSE 0
             k == [mover[m] EXCEPT !.pc = "placing", !.counted = TRUE]
  <2>1. SetMover(m, IF mover[m].target > count THEN NoMove ELSE k) /\ mover[m].pc = "counting"
    BY <1>3 DEF CountForSeek, MoverAt
  <2>2. SetMover(m, k) /\ ~(mover[m].target > count)
    BY <1>3, <2>1
  <2>3. k \in MoveRecs /\ k.pc = "placing" /\ k.target = mover[m].target
        /\ k.todo = mover[m].todo /\ k.back = mover[m].back
    BY <1>0 DEF MoveRecs
  <2>6. k.todo \subseteq DOMAIN k.back
    BY <1>0, <2>1, <2>3 DEF MoverFits
  <2>4. mover[m].target > 0 /\ mover[m].target \in Nat /\ plan.steps \in Nat
    BY <1>0, <2>1, PlanConstants DEF MoverFits, MoveRecs, Counts
  <2>5. mover[m].target <= plan.steps
    BY <2>2, <2>4
  <2> HIDE DEF k
  <2> QED BY <2>2, <2>3, <2>4, <2>5, <2>6
<1>4. CASE FindAttachment(m)
  <2>1. PICK i \in DOMAIN bound : SetMover(m, [NoMove EXCEPT !.pc = "detaching", !.op = "detach", !.id = i])
    BY <1>4 DEF FindAttachment
  <2> DEFINE k == [NoMove EXCEPT !.pc = "detaching", !.op = "detach", !.id = i]
  <2>2. k \in MoveRecs /\ k.pc = "detaching"
    BY <1>0, NoMoveFits DEF MoveRecs
  <2> QED BY <2>1, <2>2
<1>5. CASE RollBack(m)
  <2> DEFINE T == {bound[i] : i \in DOMAIN bound}
             k == [NoMove EXCEPT !.pc = "clearing", !.op = "rollback", !.back = noted, !.todo = T]
  <2>1. SetMover(m, k)
    BY <1>5 DEF RollBack
  <2>2. T \in SUBSET Places /\ noted \in Notes
    BY <1>0 DEF PlanTypes
  <2> HIDE DEF T
  <2>3. k \in MoveRecs /\ k.pc = "clearing"
    BY <2>2, NoMoveFits DEF MoveRecs
  <2> QED BY <2>1, <2>3
<1>6. CASE ClearNext(m) /\ ~SetMover(m, NoMove)
  <2>1. CASE mover[m].todo = {}
    <3> DEFINE T == DOMAIN mover[m].back
               k == [mover[m] EXCEPT !.pc = "reattaching", !.todo = T]
    <3>1. SetMover(m, k)
      BY <1>6, <2>1 DEF ClearNext
    <3>2. T \in SUBSET Places
      BY <1>0, NotesFit DEF MoveRecs
    <3> HIDE DEF T
    <3>3. k \in MoveRecs /\ k.pc = "reattaching" /\ k.todo = T /\ k.back = mover[m].back
      BY <1>0, <3>2 DEF MoveRecs
    <3>4. k.todo \subseteq DOMAIN k.back
      BY <3>3 DEF T
    <3> QED BY <3>1, <3>3, <3>4
  <2>2. CASE mover[m].todo # {}
    <3>1. PICK p \in mover[m].todo :
             SetMover(m, IF IdAt(p) = {} THEN NoMove
                         ELSE [mover[m] EXCEPT !.pc = "detaching", !.todo = mover[m].todo \ {p}, !.id = BoundId(p)])
      BY <1>6, <2>2 DEF ClearNext
    <3> DEFINE i == BoundId(p)
               T == mover[m].todo \ {p}
               k == [mover[m] EXCEPT !.pc = "detaching", !.todo = T, !.id = i]
    <3>2. IdAt(p) # {} /\ SetMover(m, k)
      BY <1>6, <3>1
    <3>3. i \in Ids
      BY <1>0, <3>2 DEF BoundId, IdAt
    <3>4. T \in SUBSET Places
      BY <1>0 DEF MoveRecs
    <3> HIDE DEF i, T
    <3>5. k \in MoveRecs /\ k.pc = "detaching"
      BY <1>0, <3>3, <3>4 DEF MoveRecs
    <3> QED BY <3>2, <3>5
  <2> QED BY <2>1, <2>2
<1> QED BY <1>2, <1>3, <1>4, <1>5, <1>6

LEMMA StepReattach ==
    ASSUME PlanInv, NEW m \in Movers, Reattach(m)
    PROVE  PlanInv'
<1>0. /\ UNCHANGED <<plan, pos, walker, noted, strayed>> /\ mover[m] \in MoveRecs
      /\ plan.steps \in Counts
  BY DEF PlanInv, PlanTypes, Reattach
<1>1. CASE SetMover(m, NoMove) /\ UNCHANGED bound
  <2>1. mover' \in [Movers -> MoveRecs] /\ MoversFit'
    BY <1>0, <1>1, NoMoveFits, MoverMoves
  <2> QED BY <1>0, <1>1, <2>1, MoverThinks
<1>2. CASE plan.steps # 0 /\ mover[m].pc = "reattaching" /\ ~(SetMover(m, NoMove) /\ UNCHANGED bound)
  <2>1. \E p \in mover[m].todo :
           /\ BindAt(p)
           /\ SetMover(m, [mover[m] EXCEPT !.pc = "placing", !.todo = mover[m].todo \ {p}, !.id = BoundId(p),
                             !.target = mover[m].back[p].step, !.cycle = mover[m].back[p].cycle,
                             !.counted = FALSE])
    BY <1>2 DEF Reattach
  <2>2. PICK p \in mover[m].todo :
           /\ BindAt(p)
           /\ SetMover(m, [mover[m] EXCEPT !.pc = "placing", !.todo = mover[m].todo \ {p}, !.id = BoundId(p),
                             !.target = mover[m].back[p].step, !.cycle = mover[m].back[p].cycle,
                             !.counted = FALSE])
    BY <2>1
  <2> DEFINE i == BoundId(p)
             T == mover[m].todo \ {p}
             n == mover[m].back[p].step
             c == mover[m].back[p].cycle
             k == [mover[m] EXCEPT !.pc = "placing", !.todo = T, !.id = i, !.target = n, !.cycle = c,
                                   !.counted = FALSE]
  <2>3. p \in Places /\ T \in SUBSET Places
    BY <1>0 DEF MoveRecs
  <2>4. plan.steps > 0
    BY <1>0, <1>2, PlanConstants DEF Counts
  <2>5. i \in Ids
    BY <2>2, <2>3, <2>4, Attached, PlanConstants DEF Bindings, Ids
  <2>6. mover[m].back[p] \in PosRecs /\ T \subseteq DOMAIN mover[m].back
    BY <1>0, <1>2, NotesFit DEF MoveRecs, PlanInv, MoversFit, MoverFits
  <2>7. n \in Counts /\ n > 0 /\ c \in Passes
    BY <2>6, PlanConstants DEF PosRecs, StepNos, Counts
  <2> HIDE DEF i, T, n, c
  <2>8. k \in MoveRecs /\ k.pc = "placing" /\ k.target = n /\ k.counted = FALSE
        /\ k.todo = T /\ k.back = mover[m].back
    BY <1>0, <2>3, <2>5, <2>7 DEF MoveRecs
  <2>9. SetMover(m, k)
    BY <2>2 DEF i, T, n, c
  <2> HIDE DEF k
  <2>10. mover' \in [Movers -> MoveRecs] /\ MoversFit'
    BY <1>0, <2>6, <2>7, <2>8, <2>9, MoverMoves
  <2> QED BY <1>0, <2>2, <2>3, <2>4, <2>10, MoverAttaches
<1> QED BY <1>1, <1>2 DEF Reattach, MoverAt

LEMMA StepPlace ==
    ASSUME PlanInv, NEW m \in Movers, MakePosition(m)
    PROVE  PlanInv'
<1> DEFINE i == mover[m].id
           g(pc) == [mover[m] EXCEPT !.pc = pc]
<1>0. /\ UNCHANGED <<plan, bound, walker, noted, strayed>> /\ mover[m] \in MoveRecs /\ MoverFits(m)
      /\ mover[m].pc = "placing"
  BY DEF PlanInv, PlanTypes, MoversFit, MakePosition, MoverAt
<1>1. ASSUME SetMover(m, NoMove) \/ SetMover(m, g("moving")) \/ SetMover(m, g("reattaching"))
      PROVE  mover' \in [Movers -> MoveRecs] /\ MoversFit'
  <2>1. CASE SetMover(m, NoMove)
    BY <1>0, <2>1, NoMoveFits, MoverMoves
  <2>2. ASSUME NEW pc \in {"moving", "reattaching"}, SetMover(m, g(pc))
        PROVE  mover' \in [Movers -> MoveRecs] /\ MoversFit'
    <3> DEFINE k == g(pc)
    <3>1. /\ k \in MoveRecs /\ k.pc = pc /\ k.target = mover[m].target /\ k.counted = mover[m].counted
          /\ k.todo = mover[m].todo /\ k.back = mover[m].back
      BY <1>0 DEF MoveRecs
    <3>2. SetMover(m, k)
      BY <2>2
    <3> HIDE DEF k, g
    <3> QED BY <1>0, <3>1, <3>2, MoverMoves DEF MoverFits
  <2> QED BY <1>1, <2>1, <2>2
<1>2. CASE i \notin DOMAIN bound
  <2>1. SetMover(m, NoMove) \/ SetMover(m, g("reattaching"))
    BY <1>2 DEF MakePosition
  <2>2. pos' = pos
    BY <1>2 DEF MakePosition
  <2> QED BY <1>0, <1>1, <2>1, <2>2, MoverThinks
<1>3. CASE i \in DOMAIN bound
  <2>1. pos' = WithPos(i, SeenAt(i)) /\ SetMover(m, g("moving"))
    BY <1>3 DEF MakePosition
  <2>2. mover' \in [Movers -> MoveRecs] /\ MoversFit'
    BY <1>1, <2>1
  <2>3. /\ pos' \in [DOMAIN pos' -> PosRecs] /\ DOMAIN pos' = DOMAIN pos \cup {i}
        /\ \A j \in DOMAIN pos : pos'[j] = pos[j]
        /\ strayed' \subseteq Bindings /\ PositionFits'
    BY <1>0, <1>3, <2>1, PosMade
  <2>4. WalkerFits'
    BY <1>0, <2>3 DEF PlanInv, WalkerFits
  <2>5. PlanTypes'
    BY <1>0, <2>2, <2>3 DEF PlanInv, PlanTypes
  <2> QED BY <2>2, <2>3, <2>4, <2>5 DEF PlanInv
<1> QED BY <1>2, <1>3

LEMMA StepMove ==
    ASSUME PlanInv, NEW m \in Movers, MovePosition(m)
    PROVE  PlanInv'
<1> DEFINE i == mover[m].id
           n == mover[m].target
           c == mover[m].cycle
           r == [mover[m] EXCEPT !.pc = "reattaching"]
<1>0. /\ UNCHANGED <<plan, bound, noted>> /\ mover[m] \in MoveRecs /\ MoverFits(m)
      /\ mover[m].pc = "moving"
  BY DEF PlanInv, PlanTypes, MoversFit, MovePosition, MoverAt
<1>1. mover' \in [Movers -> MoveRecs] /\ MoversFit'
  <2>1. SetMover(m, NoMove) \/ SetMover(m, r)
    BY DEF MovePosition
  <2>2. CASE SetMover(m, NoMove)
    BY <1>0, <2>2, NoMoveFits, MoverMoves
  <2>3. CASE SetMover(m, r)
    <3>1. r \in MoveRecs /\ r.pc = "reattaching" /\ r.todo = mover[m].todo /\ r.back = mover[m].back
      BY <1>0 DEF MoveRecs
    <3> HIDE DEF r
    <3> QED BY <1>0, <2>3, <3>1, MoverMoves DEF MoverFits
  <2> QED BY <2>1, <2>2, <2>3
<1>2. CASE i \notin DOMAIN pos
  <2>1. UNCHANGED <<pos, strayed, walker>>
    BY <1>2 DEF MovePosition
  <2> QED BY <1>0, <1>1, <2>1, MoverThinks
<1>3. CASE i \in DOMAIN pos
  <2> DEFINE back == [pos[i] EXCEPT !.step = n, !.cycle = c]
             there == [pos[i] EXCEPT !.step = n, !.blocked = FALSE]
             q == IF mover[m].op = "rollback" THEN back ELSE there
  <2>1. pos' = WithPos(i, q) /\ Stray(i, mover[m].counted) /\ Disturb({i})
    BY <1>3 DEF MovePosition
  <2>2. i \in DOMAIN bound /\ plan.steps > 0 /\ n \in StepNos /\ c \in Passes /\ pos[i] \in PosRecs
    BY <1>0, <1>3, PlanConstants DEF PlanInv, PlanTypes, PositionFits, PositionHasItsPlan, MoverFits,
       MoveRecs, Counts, StepNos
  <2>3. q \in PosRecs /\ q.step = n
    <3>1. back \in PosRecs /\ back.step = n
      BY <2>2 DEF PosRecs
    <3>2. there \in PosRecs /\ there.step = n
      BY <2>2 DEF PosRecs
    <3> QED BY <3>1, <3>2
  <2>4. mover[m].counted => n <= plan.steps
    BY <1>0, <2>2 DEF MoverFits
  <2> HIDE DEF q, n
  <2>5. strayed' = strayed \cup {i} \/ (strayed' = strayed \ {i} /\ q.step <= plan.steps)
    BY <2>1, <2>3, <2>4 DEF Stray
  <2>6. /\ pos' \in [DOMAIN pos' -> PosRecs] /\ DOMAIN pos' = DOMAIN pos \cup {i}
        /\ \A j \in DOMAIN pos : j # i => pos'[j] = pos[j]
        /\ strayed' \subseteq Bindings /\ PositionFits'
    BY <1>0, <2>1, <2>2, <2>3, <2>5, PosWritten
  <2>7. /\ walker' \in WalkRecs /\ walker'.pc = walker.pc /\ walker'.id = walker.id
        /\ walker'.shown = walker.shown /\ walker'.step = walker.step /\ walker'.cycle = walker.cycle
        /\ walker'.count = walker.count /\ walker'.counted = walker.counted
        /\ walker'.alone => walker.alone /\ walker.id # i
    BY <2>1, Disturbed
  <2>8. WalkerFits'
    BY <1>0, <2>6, <2>7 DEF PlanInv, WalkerFits
  <2>9. PlanTypes'
    BY <1>0, <1>1, <2>6, <2>7 DEF PlanInv, PlanTypes
  <2> QED BY <1>1, <2>6, <2>8, <2>9 DEF PlanInv
<1> QED BY <1>2, <1>3

LEMMA StepDetach ==
    ASSUME PlanInv, NEW m \in Movers, Detach(m)
    PROVE  PlanInv'
<1> DEFINE i == mover[m].id
           r == [mover[m] EXCEPT !.pc = "clearing"]
<1>0. UNCHANGED <<plan, noted>> /\ mover[m] \in MoveRecs /\ Drop({i})
  BY DEF PlanInv, PlanTypes, Detach
<1>1. mover' \in [Movers -> MoveRecs] /\ MoversFit'
  <2>1. SetMover(m, NoMove) \/ SetMover(m, r)
    BY DEF Detach
  <2>2. CASE SetMover(m, NoMove)
    BY <1>0, <2>2, NoMoveFits, MoverMoves
  <2>3. CASE SetMover(m, r)
    <3>1. r \in MoveRecs /\ r.pc = "clearing"
      BY <1>0 DEF MoveRecs
    <3> HIDE DEF r
    <3> QED BY <1>0, <2>3, <3>1, MoverMoves
  <2> QED BY <2>1, <2>2, <2>3
<1>2. /\ bound' \in [DOMAIN bound' -> Places] /\ DOMAIN bound' = DOMAIN bound \ {i}
      /\ DOMAIN bound' \subseteq Bindings
      /\ pos' \in [DOMAIN pos' -> PosRecs] /\ DOMAIN pos' = DOMAIN pos \ {i}
      /\ \A j \in DOMAIN pos' : pos'[j] = pos[j]
      /\ strayed' \subseteq Bindings /\ PositionFits'
  BY <1>0, Dropped
<1>3. /\ walker' \in WalkRecs /\ walker'.pc = walker.pc /\ walker'.id = walker.id
      /\ walker'.shown = walker.shown /\ walker'.step = walker.step /\ walker'.cycle = walker.cycle
      /\ walker'.count = walker.count /\ walker'.counted = walker.counted
      /\ walker'.alone => walker.alone /\ walker.id # i
  BY <1>0, Disturbed DEF Drop
<1>4. WalkerFits'
  BY <1>0, <1>2, <1>3 DEF PlanInv, WalkerFits
<1>5. PlanTypes'
  BY <1>0, <1>1, <1>2, <1>3 DEF PlanInv, PlanTypes
<1> QED BY <1>1, <1>2, <1>4, <1>5 DEF PlanInv

\* Taking a version makes every position and changes none.
LEMMA StepNote ==
    ASSUME PlanInv, NEW m \in Movers, NotePositions(m)
    PROVE  PlanInv'
<1> DEFINE P == {bound[i] : i \in DOMAIN bound}
<1>0. /\ UNCHANGED <<plan, bound, walker, mover, strayed>> /\ PlanTypes
      /\ pos' = [i \in DOMAIN bound |-> SeenAt(i)] /\ noted' = [p \in P |-> SeenAt(BoundId(p))]
      /\ DOMAIN pos \subseteq DOMAIN bound /\ WalkerFits
  BY DEF PlanInv, NotePositions, PositionFits, PositionHasItsPlan
<1>1. \A i : /\ SeenAt(i) \in PosRecs
             /\ i \in DOMAIN pos => SeenAt(i) = pos[i]
             /\ i \notin DOMAIN pos => SeenAt(i).step = 1
  BY <1>0, SeenFits
<1>2. /\ pos' \in [DOMAIN bound -> PosRecs]
      /\ \A i \in DOMAIN bound : pos'[i] = SeenAt(i)
  BY <1>0, <1>1
<1>3. noted' \in Notes
  <2>1. P \in SUBSET Places
    BY <1>0 DEF PlanTypes
  <2>2. noted' \in [P -> PosRecs]
    BY <1>0, <1>1
  <2> QED BY <2>1, <2>2 DEF Notes
<1>4. PlanTypes'
  BY <1>0, <1>2, <1>3 DEF PlanTypes
<1>5. PositionFits'
  <2>1. PositionHasItsPlan'
    BY <1>0, <1>2 DEF PlanInv, PositionFits, PositionHasItsPlan
  <2>2. DOMAIN bound # {} => 1 <= plan.steps
    BY <1>0, PlanConstants DEF PlanInv, PlanTypes, PositionFits, PositionHasItsPlan, Counts
  <2>3. PositionPointsAtAStep'
    <3> SUFFICES ASSUME NEW i \in DOMAIN bound, pos'[i].step > plan.steps PROVE i \in strayed
      BY <1>0, <1>2 DEF PositionPointsAtAStep
    <3>1. plan.steps \in Nat
      BY PlanConstants DEF PlanInv, PlanTypes, Counts
    <3>2. i \in DOMAIN pos /\ pos'[i] = pos[i]
      BY <1>1, <1>2, <2>2, <3>1
    <3> QED BY <3>2 DEF PlanInv, PositionFits, PositionPointsAtAStep
  <2> QED BY <2>1, <2>3 DEF PositionFits
<1>6. WalkerFits'
  BY <1>0, <1>1, <1>2 DEF WalkerFits
<1>7. MoversFit'
  BY <1>0 DEF PlanInv, MoversFit, MoverFits
<1> QED BY <1>4, <1>5, <1>6, <1>7 DEF PlanInv

\* Saving pulls every position back onto the plan, and from then on nobody has counted
\* the steps there are.
LEMMA StepSave ==
    ASSUME PlanInv, SavePlan
    PROVE  PlanInv'
<1>0. /\ UNCHANGED <<bound, noted>> /\ PlanTypes /\ WalkerFits /\ MoversFit /\ strayed' = {}
      /\ mover' = [m \in Movers |-> [mover[m] EXCEPT !.counted = FALSE]]
      /\ DOMAIN pos \subseteq DOMAIN bound
  BY DEF PlanInv, SavePlan, PositionFits, PositionHasItsPlan
<1>1. PICK k \in 1..MaxSteps, mode \in {"resume", "restart"} :
          /\ plan' = [steps |-> k, mode |-> mode]
          /\ pos' = Clamped(k)
          /\ walker' = [walker EXCEPT !.counted = FALSE,
                          !.alone = @ /\ (walker.id \in DOMAIN pos => pos[walker.id].step <= k)
                                      /\ k = plan.steps]
  BY DEF SavePlan
<1>2. /\ k \in Counts /\ k \in StepNos /\ k > 0 /\ k \in Nat
      /\ plan' \in [steps : Counts, mode : {"resume", "restart"}] /\ plan'.steps = k
  BY <1>1, PlanConstants DEF Counts, StepNos
<1>3. /\ pos' \in [DOMAIN pos -> PosRecs]
      /\ \A i \in DOMAIN pos : /\ pos'[i].step <= k /\ pos'[i].cycle = pos[i].cycle
                               /\ pos[i].step <= k => pos'[i].step = pos[i].step
  <2>1. \A i \in DOMAIN pos : pos[i] \in PosRecs
    BY <1>0 DEF PlanTypes
  <2>2. ASSUME NEW q \in PosRecs
        PROVE  LET d == [q EXCEPT !.step = IF q.step > k THEN k ELSE q.step]
               IN d \in PosRecs /\ d.step <= k /\ d.cycle = q.cycle /\ (q.step <= k => d.step = q.step)
    <3> DEFINE n == IF q.step > k THEN k ELSE q.step
               d == [q EXCEPT !.step = n]
    <3>1. n \in StepNos /\ n <= k /\ (q.step <= k => n = q.step)
      BY <1>2, PlanConstants DEF PosRecs, StepNos
    <3> HIDE DEF n
    <3>2. d \in PosRecs /\ d.step = n /\ d.cycle = q.cycle
      BY <3>1 DEF PosRecs
    <3> QED BY <3>1, <3>2 DEF n
  <2> DEFINE f(i) == [pos[i] EXCEPT !.step = IF pos[i].step > k THEN k ELSE pos[i].step]
  <2>3. pos' = [i \in DOMAIN pos |-> f(i)]
    BY <1>1 DEF Clamped
  <2>4. \A i \in DOMAIN pos : /\ f(i) \in PosRecs /\ f(i).step <= k /\ f(i).cycle = pos[i].cycle
                              /\ pos[i].step <= k => f(i).step = pos[i].step
    BY <2>1, <2>2
  <2> HIDE DEF f
  <2> QED BY <2>3, <2>4
<1>4. /\ walker' \in WalkRecs /\ walker'.pc = walker.pc /\ walker'.id = walker.id
      /\ walker'.shown = walker.shown /\ walker'.step = walker.step /\ walker'.cycle = walker.cycle
      /\ walker'.count = walker.count /\ ~walker'.counted
      /\ walker'.alone => walker.alone /\ k = plan.steps
                          /\ (walker.id \in DOMAIN pos => pos[walker.id].step <= k)
  <2> DEFINE b == walker.alone /\ (walker.id \in DOMAIN pos => pos[walker.id].step <= k) /\ k = plan.steps
  <2>1. walker \in WalkRecs /\ b \in BOOLEAN
    BY <1>0 DEF PlanTypes
  <2>2. walker' = [walker EXCEPT !.counted = FALSE, !.alone = b]
    BY <1>1
  <2>3. b => walker.alone /\ k = plan.steps /\ (walker.id \in DOMAIN pos => pos[walker.id].step <= k)
    OBVIOUS
  <2> HIDE DEF b
  <2> QED BY <2>1, <2>2, <2>3 DEF WalkRecs
<1>5. mover' \in [Movers -> MoveRecs] /\ MoversFit'
  <2>1. \A m \in Movers : mover[m] \in MoveRecs /\ mover'[m] = [mover[m] EXCEPT !.counted = FALSE]
    BY <1>0 DEF PlanTypes
  <2>2. ASSUME NEW m \in Movers
        PROVE  /\ [mover[m] EXCEPT !.counted = FALSE] \in MoveRecs
               /\ mover'[m].pc = mover[m].pc /\ mover'[m].target = mover[m].target /\ ~mover'[m].counted
               /\ mover'[m].todo = mover[m].todo /\ mover'[m].back = mover[m].back
    BY <2>1 DEF MoveRecs
  <2>3. mover' \in [Movers -> MoveRecs]
    BY <1>0, <2>2, Zenon
  <2> QED BY <1>0, <2>2, <2>3 DEF MoversFit, MoverFits
<1>6. PlanTypes'
  BY <1>0, <1>2, <1>3, <1>4, <1>5 DEF PlanTypes
<1>7. PositionFits'
  <2>1. PositionHasItsPlan'
    BY <1>0, <1>2, <1>3 DEF PlanInv, PositionFits, PositionHasItsPlan
  <2>2. PositionPointsAtAStep'
    <3> SUFFICES ASSUME NEW i \in DOMAIN pos, pos'[i].step > k PROVE FALSE
      BY <1>2, <1>3 DEF PositionPointsAtAStep
    <3>1. pos'[i].step \in Nat
      BY <1>3, PlanConstants DEF PosRecs, StepNos
    <3> QED BY <1>2, <1>3, <3>1
  <2> QED BY <2>1, <2>2 DEF PositionFits
<1>8. WalkerFits'
  BY <1>0, <1>2, <1>3, <1>4 DEF WalkerFits
<1> QED BY <1>5, <1>6, <1>7, <1>8 DEF PlanInv

LEMMA StepDelete ==
    ASSUME PlanInv, DeletePlan
    PROVE  PlanInv'
<1>0. plan' = NoPlan /\ Drop(DOMAIN bound) /\ UNCHANGED <<mover, noted>>
  BY DEF DeletePlan
<1>1. plan' \in [steps : Counts, mode : {"resume", "restart"}] /\ plan'.steps = 0
  BY <1>0, PlanConstants DEF NoPlan, Counts
<1>2. /\ bound' \in [DOMAIN bound' -> Places] /\ DOMAIN bound' \subseteq Bindings
      /\ pos' \in [DOMAIN pos' -> PosRecs] /\ strayed' \subseteq Bindings /\ PositionFits'
  BY <1>0, Dropped
<1>3. /\ walker' \in WalkRecs /\ walker'.pc = walker.pc /\ walker'.id = walker.id
      /\ walker'.alone => walker.alone /\ walker.id \notin DOMAIN bound
  BY <1>0, Disturbed DEF Drop
<1>4. DOMAIN pos \subseteq DOMAIN bound
  BY DEF PlanInv, PositionFits, PositionHasItsPlan
<1>5. WalkerFits'
  <2>1. ASSUME walker'.alone PROVE walker.pc \notin {"sighting", "acting", "counting", "closing"}
    BY <1>3, <1>4, <2>1 DEF PlanInv, WalkerFits
  <2> QED BY <1>1, <1>3, <2>1 DEF WalkerFits
<1>6. MoversFit'
  BY <1>0, <1>1 DEF PlanInv, MoversFit, MoverFits
<1>7. PlanTypes'
  BY <1>0, <1>1, <1>2, <1>3 DEF PlanInv, PlanTypes
<1> QED BY <1>2, <1>5, <1>6, <1>7 DEF PlanInv

------------------------------------------------------------------------------
(* Theorems.                                                               *)

LEMMA PlanInvStep == PlanInv /\ [PlanNext]_planVars => PlanInv'
<1> SUFFICES ASSUME PlanInv, [PlanNext]_planVars PROVE PlanInv'
  OBVIOUS
<1>1. CASE WalkerStep
  BY <1>1, StepSight, StepRead, StepClose, StepEnd DEF WalkerStep
<1>2. ASSUME NEW m \in Movers, MoverStep(m) PROVE PlanInv'
  BY <1>2, StepAttach, StepThink, StepReattach, StepPlace, StepMove, StepDetach, StepNote DEF MoverStep
<1>3. CASE SavePlan \/ DeletePlan
  BY <1>3, StepSave, StepDelete
<1>4. CASE UNCHANGED planVars
  BY <1>4 DEF planVars, PlanInv, PlanTypes, PositionFits, PositionHasItsPlan, PositionPointsAtAStep, WalkerFits,
     MoversFit, MoverFits
<1> QED BY <1>1, <1>2, <1>3, <1>4 DEF PlanNext

\* Every reachable state of a plan, its attachments and positions is well typed, for any
\* places, operators and bounds (planboard/store.go).
THEOREM PlansTyped == PlanSpec => []PlanTypeOK
BY PlanInvInit, PlanInvStep, PlanInvMeans, PTL DEF PlanSpec

\* A plan is followed: attachments, positions and the plan agree, and a turn whose
\* position nobody else has written closes the step it was shown and passes on to the
\* one after it (planboard/store.go, position.go, plantools.go).
THEOREM PlanFollowed == PlanSpec => PlanIsFollowed
<1>1. PlanInv /\ PlanInv' /\ [PlanNext]_planVars => [PositionFits' /\ ClosesWhatWasShown]_planVars
  <2> SUFFICES ASSUME PlanInv, PlanInv', [PlanNext]_planVars PROVE PositionFits' /\ ClosesWhatWasShown
    OBVIOUS
  <2>1. PositionFits'
    BY DEF PlanInv
  <2>2. ClosesWhatWasShown
    BY StepClose DEF ClosesWhatWasShown
  <2> QED BY <2>1, <2>2
<1> QED BY <1>1, PlanInvInit, PlanInvStep, PTL DEF PlanSpec, PlanIsFollowed

------------------------------------------------------------------------------
(* The agents of a turn: the inductive invariant.                          *)

Rounds    == 0..MaxTools
Askings     == 0..MaxAsked
Pcs       == {"guarding", "listing", "reading", "asking", "calling", "exhausted"}
FrameRecs == [agent : Crew, pc : Pcs, todo : SUBSET Papers, iter : Rounds, left : Askings]

Versions   == UNION {[P -> Nat] : P \in SUBSET Papers}
SharedRecs == [on : BOOLEAN, unattended : BOOLEAN, tainted : BOOLEAN, latchedAt : Nat,
               spent : Nat, listed : BOOLEAN, list : Versions, docs : Versions]

Tools     == {"delegate", "save_instruction", "wire_create", "wire_cut", "list_gears",
              "read_file", "plan_step_done"}
CallRecs  == [name : Tools, agent : Crew, depth : Nat, ok : BOOLEAN]
Shows     == {"idle", "working", "thinking"}

\* Everything has its type.
TreeTypes ==
    /\ wires \subseteq Crew \X Crew
    /\ paper \in [Papers -> Nat]
    /\ stack \in Seq(FrameRecs)
    /\ shared \in SharedRecs
    /\ did \in Seq(CallRecs)
    /\ shown \subseteq Papers \X Nat
    /\ status \in [Crew -> Shows]
    /\ touches \in 0..MaxTouches

\* An agent with iterations left is the only one that asks, reads or calls, and an
\* agent that calls has a call to make.
FrameFits(f) ==
    /\ f.pc # "exhausted" => f.iter < MaxTools
    /\ f.pc = "calling" => f.left > 0

\* Whoever is below the top waits for a call it made; the tree stays within its
\* bounds; the shared state is there while somebody is at work.
FramesFit ==
    /\ \A i \in 1..Len(stack) : FrameFits(stack[i]) /\ (i < Len(stack) => stack[i].pc = "calling")
    /\ Len(stack) <= MaxDepth + 1 /\ Len(did) <= MaxNoted
    /\ stack # <<>> => Len(did) + Len(stack) <= MaxNoted + 1
    /\ shared.on <=> stack # <<>>

\* An agent waits at its first prompt, and is not shown at work yet.
Early(f) == f.iter = 0 /\ f.pc \in {"guarding", "listing", "reading"}

\* StatusTellsTheTruth, place by place.
StatusFits ==
    /\ \A a \in Crew : status[a] # "idle" => \E i \in 1..Len(stack) : stack[i].agent = a
    /\ \A i, j \in 1..Len(stack) : stack[i].agent = stack[j].agent => i = j
    /\ \A i \in 1..Len(stack) :
          \/ status[stack[i].agent] # "idle"
          \/ i = 1 /\ ~shared.unattended /\ Early(stack[1])

\* Call i is followed, past what was done at its depth or deeper, by the call that
\* delegated to its agent.
ClosedBy(i, j) ==
    /\ \A k \in i..(j - 1) : did[k].depth >= did[i].depth
    /\ did[j].depth = did[i].depth - 1 /\ did[j].name = "delegate"

\* Nothing shallower was done since call i, and its agent is still at its place.
StillAtWork(i) ==
    /\ \A k \in i..Len(did) : did[k].depth >= did[i].depth
    /\ Len(stack) > did[i].depth /\ stack[did[i].depth + 1].agent = did[i].agent

RecordFits ==
    \A i \in 1..Len(did) : did[i].depth > 0 =>
        (\E j \in (i + 1)..Len(did) : ClosedBy(i, j)) \/ StillAtWork(i)

\* What was shown is what the view of the context space holds.
ContextFits ==
    /\ OneContextPerRun
    /\ shared.on => \A x \in shown : x[1] \in DOMAIN shared.docs /\ x[2] = shared.docs[x[1]]

\* Whoever is about to ask the model has looked at the ceiling.
MayAsk(f, alone) == f.pc = "asking" \/ (alone /\ f.pc \in {"listing", "reading"})

BudgetFits ==
    Ceiling > 0 =>
        /\ shared.spent < Ceiling + MaxCost \/ MaxCost = 0
        /\ stack # <<>> /\ MayAsk(Top, Chat) => shared.spent < Ceiling

TreeInv == TreeTypes /\ FramesFit /\ StatusFits /\ RecordFits /\ ContextFits
              /\ BudgetFits /\ ClosedStaysClosed

------------------------------------------------------------------------------
(* Lemmas about the operators.                                             *)

\* The limits are numbers.
LEMMA Limits ==
    /\ MaxDepth \in Nat /\ Ceiling \in Nat /\ MaxCost \in Nat /\ MaxNoted \in Nat /\ MaxTouches \in Nat
    /\ MaxTools \in Nat /\ MaxTools > 0 /\ MaxAsked \in Nat /\ MaxAsked > 0
<1>1. /\ MaxTools \in Nat \ {0} /\ MaxAsked \in Nat \ {0}
      /\ \A n \in {MaxDepth, Ceiling, MaxCost, MaxNoted, MaxTouches} : n \in Nat
    BY TreeConstants
<1>2. MaxDepth \in Nat /\ Ceiling \in Nat /\ MaxCost \in Nat /\ MaxNoted \in Nat /\ MaxTouches \in Nat
    BY <1>1, Zenon
<1> QED
    BY <1>1, <1>2

\* A document noted in a view is a view.
LEMMA WithVersions ==
    ASSUME NEW f \in Versions, NEW p \in Papers, NEW v \in Nat
    PROVE  With(f, p, v) \in Versions
<1>1. PICK P \in SUBSET Papers : f \in [P -> Nat]
    BY DEF Versions
<1>2. With(f, p, v) \in [P \cup {p} -> Nat]
    BY <1>1 DEF With
<1>3. P \cup {p} \in SUBSET Papers
    OBVIOUS
<1> QED
    BY <1>2, <1>3 DEF Versions

\* What a view says of a document is a version.
LEMMA VersionSaid ==
    ASSUME NEW f \in Versions, NEW p \in DOMAIN f
    PROVE  f[p] \in Nat
    BY DEF Versions

LEMMA EmptyVersions == Empty \in Versions
<1>1. Empty \in [{} -> Nat]
    BY DEF Empty
<1> QED
    BY <1>1 DEF Versions

\* An agent that takes its place.
LEMMA FrameTyped ==
    ASSUME NEW a \in Crew, NEW chat \in BOOLEAN
    PROVE  /\ Frame(a, chat) \in FrameRecs
           /\ FrameFits(Frame(a, chat))
           /\ Frame(a, chat).agent = a
           /\ Frame(a, chat).pc = IF chat THEN "guarding" ELSE "listing"
           /\ Early(Frame(a, chat))
<1>1. 0 \in Rounds /\ 0 \in Askings /\ {} \in SUBSET Papers /\ 0 < MaxTools
    BY TreeConstants DEF Rounds, Askings
<1>2. (IF chat THEN "guarding" ELSE "listing") \in Pcs
    BY DEF Pcs
<1> QED
    BY <1>1, <1>2 DEF Frame, FrameRecs, FrameFits, Early

\* An agent whose call came back goes on with its reply, with its next iteration, or
\* has none left.
LEMMA CallDoneTyped ==
    ASSUME NEW f \in FrameRecs, f.pc = "calling", FrameFits(f)
    PROVE  /\ CallDone(f) \in FrameRecs
           /\ FrameFits(CallDone(f))
           /\ CallDone(f).agent = f.agent
           /\ CallDone(f).pc \in {"calling", "guarding", "exhausted"}
<1> DEFINE g == [f EXCEPT !.left = @ - 1]
           pc == IF f.iter + 1 < MaxTools THEN "guarding" ELSE "exhausted"
           h == [g EXCEPT !.iter = @ + 1, !.pc = pc]
<1>1. /\ f.left \in Askings /\ f.iter \in Rounds /\ f.left > 0 /\ f.iter < MaxTools
    BY DEF FrameRecs, FrameFits
<1>2. f.left - 1 \in Askings /\ f.iter + 1 \in Rounds /\ f.left - 1 \in Nat
    BY <1>1, TreeConstants DEF Askings, Rounds
<1>3. /\ g \in FrameRecs /\ g.left = f.left - 1
      /\ g.agent = f.agent /\ g.pc = "calling" /\ g.iter = f.iter
    BY <1>2 DEF FrameRecs
<1>4. pc \in Pcs /\ pc \in {"guarding", "exhausted"}
    BY DEF Pcs
<1> HIDE DEF g
<1>5. /\ h \in FrameRecs /\ h.iter = f.iter + 1 /\ h.pc = pc /\ h.agent = f.agent
    BY <1>2, <1>3, <1>4 DEF FrameRecs
<1>6. CallDone(f) = IF g.left > 0 THEN g ELSE h
    BY DEF CallDone, g
<1>7. CASE g.left > 0
    BY <1>7, <1>6, <1>3, <1>1 DEF FrameFits
<1>8. CASE ~(g.left > 0)
    <2>1. CallDone(f) = h
        BY <1>8, <1>6
    <2>2. FrameFits(h)
        <3>1. h.pc # "exhausted" => f.iter + 1 < MaxTools
            BY <1>5
        <3> QED
            BY <3>1, <1>5, <1>4 DEF FrameFits
    <2> QED
        BY <2>1, <2>2, <1>5, <1>4
<1> QED
    BY <1>7, <1>8

\* A call on record.
LEMMA CallTyped ==
    ASSUME NEW n \in Tools, NEW i \in Nat \ {0}, stack[i].agent \in Crew, NEW ok \in BOOLEAN
    PROVE  /\ [Call(n, i) EXCEPT !.ok = ok] \in CallRecs
           /\ [Call(n, i) EXCEPT !.ok = ok].depth = i - 1
           /\ [Call(n, i) EXCEPT !.ok = ok].agent = stack[i].agent
           /\ [Call(n, i) EXCEPT !.ok = ok].name = n
           /\ [Call(n, i) EXCEPT !.ok = ok].ok = ok
<1>1. /\ Call(n, i) \in CallRecs
      /\ Call(n, i).depth = i - 1 /\ Call(n, i).agent = stack[i].agent /\ Call(n, i).name = n
    BY DEF Call, CallRecs
<1> HIDE DEF Call
<1> QED
    BY <1>1 DEF CallRecs

\* The record with one more call.
LEMMA RecordGrows ==
    ASSUME NEW c \in CallRecs, did \in Seq(CallRecs), did' = Append(did, c)
    PROVE  /\ did' \in Seq(CallRecs)
           /\ Len(did') = Len(did) + 1 /\ Len(did) \in Nat
           /\ \A k \in 1..Len(did) : did'[k] = did[k]
           /\ did'[Len(did) + 1] = c
    BY AppendProperties, LenProperties

------------------------------------------------------------------------------
(* The stack.                                                              *)

\* The places of the stack are its domain, and whoever has one is an agent.
LEMMA StackPlaces ==
    ASSUME TreeTypes
    PROVE  /\ Len(stack) \in Nat /\ DOMAIN stack = 1..Len(stack)
           /\ Len(did) \in Nat /\ DOMAIN did = 1..Len(did)
           /\ \A i \in 1..Len(stack) : stack[i] \in FrameRecs /\ stack[i].agent \in Crew
           /\ \A i \in 1..Len(did) : did[i] \in CallRecs /\ did[i].depth \in Nat
           /\ stack # <<>> => Len(stack) \in 1..Len(stack) /\ Top \in FrameRecs /\ Top.agent \in Crew
           /\ Len(stack) = 0 <=> stack = <<>>
<1>1. stack \in Seq(FrameRecs) /\ did \in Seq(CallRecs)
    BY DEF TreeTypes
<1>2. /\ Len(stack) \in Nat /\ DOMAIN stack = 1..Len(stack)
      /\ Len(did) \in Nat /\ DOMAIN did = 1..Len(did)
    BY <1>1, LenProperties
<1>3. \A i \in 1..Len(stack) : stack[i] \in FrameRecs
    BY <1>1, ElementOfSeq
<1>4. \A i \in 1..Len(did) : did[i] \in CallRecs
    BY <1>1, ElementOfSeq
<1>5. stack # <<>> => Len(stack) \in Nat \ {0}
    BY <1>1, EmptySeq
<1>6. stack = <<>> => Len(stack) = 0
    BY EmptySeq
<1>7. \A i \in 1..Len(stack) : stack[i].agent \in Crew
    BY <1>3 DEF FrameRecs
<1>8. \A i \in 1..Len(did) : did[i].depth \in Nat
    BY <1>4 DEF CallRecs
<1>9. stack # <<>> => Len(stack) \in 1..Len(stack)
    BY <1>5
<1> QED
    BY <1>2, <1>3, <1>4, <1>5, <1>6, <1>7, <1>8, <1>9 DEF Top

\* The top moves, and nobody else.
LEMMA TopMoves ==
    ASSUME TreeTypes, stack # <<>>, NEW f \in FrameRecs, OnTop(f)
    PROVE  /\ stack' \in Seq(FrameRecs) /\ Len(stack') = Len(stack) /\ stack' # <<>>
           /\ stack'[Len(stack)] = f /\ Top' = f
           /\ \A j \in 1..Len(stack) : j # Len(stack) => stack'[j] = stack[j]
<1>1. stack \in Seq(FrameRecs) /\ Len(stack) \in 1..Len(stack) /\ Len(stack) \in Nat
    BY StackPlaces DEF TreeTypes
<1>2. stack' = [stack EXCEPT ![Len(stack)] = f]
    BY DEF OnTop
<1>3. /\ stack' \in Seq(FrameRecs) /\ Len(stack') = Len(stack)
      /\ \A j \in 1..Len(stack) : stack'[j] = IF j = Len(stack) THEN f ELSE stack[j]
    BY <1>1, <1>2, ExceptSeq
<1>4. stack' # <<>>
    <2>1. Len(stack') # 0
        BY <1>1, <1>3
    <2> QED
        BY <2>1, EmptySeq
<1> QED
    BY <1>1, <1>3, <1>4 DEF Top

\* The top leaves to the agent below it, which goes on where its call left it.
LEMMA TopLeaves ==
    ASSUME TreeTypes, FramesFit, stack # <<>>, Len(stack) # 1, NEW i, i = Len(stack) - 1,
           stack' = [SubSeq(stack, 1, i) EXCEPT ![i] = CallDone(stack[i])]
    PROVE  /\ i \in 1..Len(stack) /\ i \in Nat \ {0} /\ i < Len(stack)
           /\ stack' \in Seq(FrameRecs) /\ Len(stack') = i /\ stack' # <<>>
           /\ \A j \in 1..i : stack'[j].agent = stack[j].agent
           /\ \A j \in 1..i : j # i => stack'[j] = stack[j]
           /\ stack'[i] = CallDone(stack[i]) /\ FrameFits(stack'[i])
           /\ stack'[i].pc \in {"calling", "guarding", "exhausted"}
           /\ Top' = stack'[i]
<1>1. /\ i \in Nat \ {0} /\ i \in 1..Len(stack) /\ i < Len(stack)
      /\ \A j \in 1..i : j \in 1..Len(stack)
    <2>1. Len(stack) \in Nat /\ Len(stack) # 0
        BY StackPlaces
    <2> QED
        BY <2>1
<1>2. /\ stack[i] \in FrameRecs /\ stack[i].pc = "calling" /\ FrameFits(stack[i])
    BY <1>1, StackPlaces DEF FramesFit
<1>3. /\ CallDone(stack[i]) \in FrameRecs /\ FrameFits(CallDone(stack[i]))
      /\ CallDone(stack[i]).agent = stack[i].agent
      /\ CallDone(stack[i]).pc \in {"calling", "guarding", "exhausted"}
    BY <1>2, CallDoneTyped
<1> DEFINE s == SubSeq(stack, 1, i)
<1>4. \A j \in 1..i : stack[j] \in FrameRecs
    BY <1>1, StackPlaces
<1>5. s \in Seq(FrameRecs) /\ Len(s) = i /\ \A j \in 1..i : s[j] = stack[j]
    <2>1. /\ s \in Seq(FrameRecs) /\ Len(s) = IF 1 <= i THEN i - 1 + 1 ELSE 0
          /\ \A j \in 1..(i - 1 + 1) : s[j] = stack[1 + j - 1]
        BY <1>1, <1>4, SubSeqProperties
    <2>2. i - 1 + 1 = i /\ 1 <= i /\ \A j \in 1..i : 1 + j - 1 = j
        BY <1>1
    <2> QED
        BY <2>1, <2>2
<1> HIDE DEF s
<1>6. stack' = [s EXCEPT ![i] = CallDone(stack[i])]
    BY DEF s
<1>7. i \in 1..Len(s)
    BY <1>1, <1>5
<1>8. /\ stack' \in Seq(FrameRecs) /\ Len(stack') = i
      /\ \A j \in 1..i : stack'[j] = IF j = i THEN CallDone(stack[i]) ELSE s[j]
    <2>1. PICK e \in FrameRecs : e = CallDone(stack[i])
        BY <1>3
    <2>2. stack' = [s EXCEPT ![i] = e]
        BY <2>1, <1>6
    <2>3. /\ stack' \in Seq(FrameRecs) /\ Len(stack') = Len(s)
          /\ \A j \in 1..Len(s) : stack'[j] = IF j = i THEN e ELSE s[j]
        BY <2>2, <1>5, <1>7, ExceptSeq
    <2> QED
        BY <2>1, <2>3, <1>5
<1>9. stack' # <<>>
    BY <1>8, <1>1, EmptySeq
<1>10. i \in 1..i
    BY <1>1
<1>11. /\ \A j \in 1..i : j # i => stack'[j] = stack[j]
       /\ stack'[i] = CallDone(stack[i])
    BY <1>8, <1>5, <1>10
<1>12. \A j \in 1..i : stack'[j].agent = stack[j].agent
    BY <1>11, <1>3
<1> QED
    BY <1>1, <1>3, <1>8, <1>9, <1>11, <1>12 DEF Top

\* An agent comes to the top, above all the others.
LEMMA TopTaken ==
    ASSUME TreeTypes, NEW f \in FrameRecs, stack' = Append(stack, f)
    PROVE  /\ stack' \in Seq(FrameRecs) /\ Len(stack') = Len(stack) + 1 /\ stack' # <<>>
           /\ \A j \in 1..Len(stack) : stack'[j] = stack[j]
           /\ stack'[Len(stack) + 1] = f /\ Top' = f
<1>1. stack \in Seq(FrameRecs)
    BY DEF TreeTypes
<1>2. /\ stack' \in Seq(FrameRecs) /\ Len(stack') = Len(stack) + 1 /\ stack' # <<>>
      /\ \A j \in 1..Len(stack) : stack'[j] = stack[j]
      /\ stack'[Len(stack) + 1] = f
    BY <1>1, AppendProperties
<1> QED
    BY <1>2 DEF Top

------------------------------------------------------------------------------
(* A step of the agent at the top: what it does to the places, to what the *)
(* operator is shown and to the record.                                    *)

LEMMA TopStepFrames ==
    ASSUME TreeInv, stack # <<>>, NEW f \in FrameRecs, OnTop(f), FrameFits(f),
           shared'.on = shared.on,
           \/ did' = did
           \/ Len(did') = Len(did) + 1 /\ Len(did) + Len(stack) <= MaxNoted
    PROVE  FramesFit'
<1> USE DEF TreeInv
<1>1. /\ Len(stack') = Len(stack) /\ stack' # <<>> /\ stack'[Len(stack)] = f
      /\ \A j \in 1..Len(stack) : j # Len(stack) => stack'[j] = stack[j]
    BY TopMoves
<1>2. Len(stack) \in Nat /\ Len(stack) # 0 /\ Len(did) \in Nat /\ MaxNoted \in Nat /\ MaxDepth \in Nat
    BY StackPlaces, TreeConstants
<1>3. ASSUME NEW i \in 1..Len(stack')
      PROVE  FrameFits(stack'[i]) /\ (i < Len(stack') => stack'[i].pc = "calling")
    <2>1. CASE i = Len(stack)
        BY <2>1, <1>1, <1>2
    <2>2. CASE i # Len(stack)
        <3>1. i \in 1..Len(stack) /\ i < Len(stack)
            BY <2>2, <1>1, <1>2
        <3> QED
            BY <3>1, <2>2, <1>1 DEF FramesFit
    <2> QED
        BY <2>1, <2>2
<1>4. /\ Len(stack') <= MaxDepth + 1 /\ Len(did') <= MaxNoted
      /\ Len(did') + Len(stack') <= MaxNoted + 1
    BY <1>1, <1>2 DEF FramesFit
<1>5. shared'.on <=> stack' # <<>>
    BY <1>1 DEF FramesFit
<1>6. \A i \in 1..Len(stack') :
         FrameFits(stack'[i]) /\ (i < Len(stack') => stack'[i].pc = "calling")
    BY <1>3
<1> QED
    BY <1>4, <1>5, <1>6 DEF FramesFit, FrameFits

LEMMA TopStepStatus ==
    ASSUME TreeInv, stack # <<>>, NEW f \in FrameRecs, OnTop(f), f.agent = Top.agent,
           shared'.unattended = shared.unattended,
           \A a \in Crew : a # Top.agent => status'[a] = status[a],
           status'[Top.agent] # "idle" \/ (Len(stack) = 1 /\ ~shared.unattended /\ Early(f))
    PROVE  StatusFits'
<1> USE DEF TreeInv
<1> DEFINE n == Len(stack)
<1>1. /\ Len(stack') = n /\ stack'[n] = f
      /\ \A j \in 1..n : j # n => stack'[j] = stack[j]
    BY TopMoves
<1>2. n \in 1..n /\ n \in Nat /\ Top = stack[n] /\ Top.agent \in Crew
    BY StackPlaces DEF Top
<1>3. \A j \in 1..n : stack'[j].agent = stack[j].agent /\ stack[j].agent \in Crew
    BY <1>1, <1>2, StackPlaces
<1>4. /\ \A a \in Crew : status[a] # "idle" => \E i \in 1..n : stack[i].agent = a
      /\ \A i, j \in 1..n : stack[i].agent = stack[j].agent => i = j
      /\ \A i \in 1..n :
          \/ status[stack[i].agent] # "idle"
          \/ i = 1 /\ ~shared.unattended /\ Early(stack[1])
    BY DEF StatusFits
<1> HIDE DEF n, TreeInv
<1>5. ASSUME NEW a \in Crew, status'[a] # "idle"
      PROVE  \E i \in 1..n : stack'[i].agent = a
    <2>1. CASE a = Top.agent
        BY <2>1, <1>2, <1>3
    <2>2. CASE a # Top.agent
        BY <2>2, <1>3, <1>4, <1>5
    <2> QED
        BY <2>1, <2>2
<1>6. \A i, j \in 1..n : stack'[i].agent = stack'[j].agent => i = j
    BY <1>3, <1>4
<1>7. ASSUME NEW i \in 1..n
      PROVE  \/ status'[stack'[i].agent] # "idle"
             \/ i = 1 /\ ~shared'.unattended /\ Early(stack'[1])
    <2>1. CASE i = n
        <3>1. CASE status'[Top.agent] # "idle"
            BY <3>1, <2>1, <1>2, <1>3
        <3>2. CASE Len(stack) = 1 /\ ~shared.unattended /\ Early(f)
            BY <3>2, <2>1, <1>1 DEF n
        <3> QED
            BY <3>1, <3>2
    <2>2. CASE i # n
        <3>1. stack'[i] = stack[i] /\ stack[i].agent # Top.agent /\ stack[i].agent \in Crew
            BY <2>2, <1>1, <1>2, <1>3, <1>4
        <3>2. status'[stack'[i].agent] = status[stack[i].agent]
            BY <3>1
        <3>3. i = 1 => stack'[1] = stack[1]
            BY <3>1
        <3> QED
            BY <3>2, <3>3, <1>4
    <2> QED
        BY <2>1, <2>2
<1>8. StatusFits' <=>
        /\ \A a \in Crew : status'[a] # "idle" => \E i \in 1..Len(stack') : stack'[i].agent = a
        /\ \A i, j \in 1..Len(stack') : stack'[i].agent = stack'[j].agent => i = j
        /\ \A i \in 1..Len(stack') :
              \/ status'[stack'[i].agent] # "idle"
              \/ i = 1 /\ ~shared'.unattended /\ Early(stack'[1])
    BY DEF StatusFits, Early
<1> QED
    BY <1>1, <1>5, <1>6, <1>7, <1>8

\* What the record says stays a tree while the places it speaks of keep their agents.
LEMMA RecordKept ==
    ASSUME TreeInv, did' = did,
           Len(stack') \in Nat, \A j \in 1..Len(stack') : j <= Len(stack) => stack'[j].agent = stack[j].agent,
           Len(stack') >= Len(stack)
    PROVE  RecordFits'
<1> USE DEF TreeInv
<1>1. Len(stack) \in Nat /\ \A i \in 1..Len(did) : did[i].depth \in Nat
    BY StackPlaces
<1>2. ASSUME NEW i \in 1..Len(did), StillAtWork(i)
      PROVE  StillAtWork(i)'
    BY <1>1, <1>2 DEF StillAtWork
<1>3. \A i, j : ClosedBy(i, j) => ClosedBy(i, j)'
    BY DEF ClosedBy
<1> QED
    BY <1>2, <1>3 DEF RecordFits

\* A call noted at the depth of the top, by its agent.
LEMMA RecordExtended ==
    ASSUME TreeInv, stack # <<>>, NEW c \in CallRecs, did' = Append(did, c),
           c.depth = Len(stack) - 1, c.agent = Top.agent,
           Len(stack') = Len(stack), \A j \in 1..Len(stack) : stack'[j].agent = stack[j].agent
    PROVE  RecordFits'
<1> USE DEF TreeInv
<1>0. PICK n \in Nat : n = Len(did)
    BY StackPlaces
<1>1. /\ did \in Seq(CallRecs)
      /\ \A i \in 1..n : did[i].depth \in Nat
      /\ Len(stack) \in Nat /\ Len(stack) \in 1..Len(stack)
    BY <1>0, StackPlaces DEF TreeTypes
<1>2. /\ Len(did') = n + 1
      /\ \A k \in 1..n : did'[k] = did[k]
      /\ did'[n + 1] = c
    BY <1>0, <1>1, RecordGrows
<1>3. \A k \in 1..(n + 1) : k \in 1..n \/ k = n + 1
    BY <1>1
<1>4. ASSUME NEW i \in 1..n, NEW j \in (i + 1)..n, ClosedBy(i, j)
      PROVE  ClosedBy(i, j)'
    <2>1. \A k \in i..(j - 1) : k \in 1..n
        BY <1>1
    <2>2. i \in 1..n /\ j \in 1..n
        BY <1>1
    <2>3. did'[i] = did[i] /\ did'[j] = did[j]
        BY <2>2, <1>2
    <2> QED
        BY <2>1, <2>3, <1>2, <1>4 DEF ClosedBy
<1>5. ASSUME NEW i \in 1..n, StillAtWork(i)
      PROVE  StillAtWork(i)'
    <2>1. did'[i] = did[i] /\ did[i].depth \in Nat
        BY <1>1, <1>2
    <2>2. /\ \A k \in i..n : did[k].depth >= did[i].depth
          /\ Len(stack) > did[i].depth /\ stack[did[i].depth + 1].agent = did[i].agent
        BY <1>0, <1>5 DEF StillAtWork
    <2>3. ASSUME NEW k \in i..(n + 1)
          PROVE  did'[k].depth >= did'[i].depth
        <3>1. CASE k = n + 1
            BY <3>1, <2>1, <2>2, <1>1, <1>2
        <3>2. CASE k # n + 1
            <4>1. n \in Nat /\ i \in 1..n
                BY <1>1
            <4>2. k \in i..n
                BY <4>1, <3>2
            <4>3. k \in 1..n
                BY <4>1, <4>2
            <4> QED
                BY <4>2, <4>3, <2>1, <2>2, <1>2
        <3> QED
            BY <3>1, <3>2
    <2>4. did[i].depth + 1 \in 1..Len(stack)
        BY <2>1, <2>2, <1>1
    <2>5. stack'[did[i].depth + 1].agent = did[i].agent
        BY <2>2, <2>4
    <2>6. /\ \A k \in i..Len(did') : did'[k].depth >= did'[i].depth
          /\ Len(stack') > did'[i].depth /\ stack'[did'[i].depth + 1].agent = did'[i].agent
        BY <2>1, <2>2, <2>3, <2>5, <1>2
    <2> QED
        BY <2>6 DEF StillAtWork
<1>6. StillAtWork(n + 1)'
    <2>1. did'[n + 1].depth + 1 = Len(stack) /\ did'[n + 1].agent = Top.agent
        BY <1>1, <1>2
    <2>2. stack'[Len(stack)].agent = Top.agent
        BY <1>1 DEF Top
    <2>3. \A k \in (n + 1)..Len(did') : k = n + 1
        BY <1>1, <1>2
    <2>4. did'[n + 1].depth \in Nat
        BY <1>2 DEF CallRecs
    <2>5. \A k \in (n + 1)..Len(did') : did'[k].depth >= did'[n + 1].depth
        BY <2>3, <2>4
    <2>6. Len(stack') > did'[n + 1].depth
        <3>1. \A l \in Nat, e \in Nat : e + 1 = l => l > e
            OBVIOUS
        <3>2. Len(stack') \in Nat
            BY <1>1
        <3>3. did'[n + 1].depth + 1 = Len(stack')
            BY <2>1
        <3> QED
            BY <3>1, <3>2, <3>3, <2>4, Zenon
    <2> QED
        BY <2>1, <2>2, <2>5, <2>6 DEF StillAtWork
<1>7. ASSUME NEW i \in 1..Len(did'), did'[i].depth > 0
      PROVE  (\E j \in (i + 1)..Len(did') : ClosedBy(i, j)') \/ StillAtWork(i)'
    <2>1. CASE i = n + 1
        BY <2>1, <1>6
    <2>2. CASE i # n + 1
        <3>1. i \in 1..n /\ did[i].depth > 0
            BY <2>2, <1>2, <1>3, <1>7
        <3>2. (\E j \in (i + 1)..n : ClosedBy(i, j)) \/ StillAtWork(i)
            BY <1>0, <3>1 DEF RecordFits
        <3>3. \A j \in (i + 1)..n : j \in (i + 1)..Len(did')
            BY <1>1, <1>2
        <3> QED
            BY <3>1, <3>2, <3>3, <1>4, <1>5
    <2> QED
        BY <2>1, <2>2
<1> QED
    BY <1>7 DEF RecordFits

------------------------------------------------------------------------------
(* What the tree shares.                                                   *)

\* Nothing is shared when nobody is at work.
LEMMA NothingShared ==
    /\ NoShared \in SharedRecs /\ NoShared.on = FALSE /\ NoShared.spent = 0
    /\ NoShared.unattended = FALSE /\ NoShared.tainted = FALSE /\ NoShared.latchedAt = 0
    BY EmptyVersions DEF NoShared, SharedRecs

\* Booking what a call cost touches nothing else.
LEMMA Booked ==
    ASSUME shared \in SharedRecs, NEW c \in Nat, shared' = [shared EXCEPT !.spent = @ + c]
    PROVE  /\ shared' \in SharedRecs /\ shared'.spent = shared.spent + c
           /\ shared.spent \in Nat
           /\ shared'.on = shared.on /\ shared'.unattended = shared.unattended
           /\ shared'.tainted = shared.tainted /\ shared'.latchedAt = shared.latchedAt
           /\ shared'.docs = shared.docs
<1>1. shared.spent \in Nat /\ shared.spent + c \in Nat
    BY DEF SharedRecs
<1> QED
    BY <1>1 DEF SharedRecs

\* The latch on the tools that write: it closes over what is on record, and every
\* call noted since it closed was no writing tool, or was refused.
LEMMA ClosedExtended ==
    ASSUME TreeInv, NEW c \in CallRecs, did' = Append(did, c),
           shared'.on => shared.on, shared'.unattended = shared.unattended,
           shared'.tainted => \/ shared.tainted /\ shared'.latchedAt = shared.latchedAt
                              \/ shared'.latchedAt = Len(did) + 1,
           c.ok /\ c.name \in {"save_instruction", "wire_create"} => ~shared'.tainted,
           c.ok /\ c.name = "list_gears" => ~shared.unattended
    PROVE  ClosedStaysClosed'
<1>0. PICK n \in Nat : n = Len(did)
    BY StackPlaces DEF TreeInv
<1>1. /\ did \in Seq(CallRecs) /\ DOMAIN did = 1..n
    BY <1>0, StackPlaces DEF TreeInv, TreeTypes
<1>2. /\ Len(did') = n + 1 /\ did' \in Seq(CallRecs)
      /\ \A k \in 1..n : did'[k] = did[k]
      /\ did'[n + 1] = c
    BY <1>0, <1>1, RecordGrows
<1>3. DOMAIN did' = 1..(n + 1)
    BY <1>2, LenProperties
<1>4. ASSUME NEW i \in 1..(n + 1), did'[i].ok, shared'.on
      PROVE  /\ did'[i].name \in {"save_instruction", "wire_create"} /\ shared'.tainted => i < shared'.latchedAt
             /\ did'[i].name = "list_gears" => ~shared'.unattended
    <2>1. CASE i = n + 1
        BY <2>1, <1>2, <1>4
    <2>2. CASE i # n + 1
        <3>1. i \in 1..n /\ did'[i] = did[i]
            BY <2>2, <1>2
        <3>2. /\ did[i].name \in {"save_instruction", "wire_create"} /\ shared.tainted => i < shared.latchedAt
              /\ did[i].name = "list_gears" => ~shared.unattended
            BY <3>1, <1>1, <1>4 DEF TreeInv, ClosedStaysClosed
        <3>3. i < n + 1
            BY <3>1
        <3>4. shared'.tainted => \/ shared.tainted /\ shared'.latchedAt = shared.latchedAt
                                 \/ shared'.latchedAt = n + 1
            BY <1>0
        <3> QED
            BY <3>1, <3>2, <3>3, <3>4
    <2> QED
        BY <2>1, <2>2
<1> QED
    BY <1>3, <1>4 DEF ClosedStaysClosed

LEMMA ClosedKept ==
    ASSUME TreeInv, did' = did, shared'.on => shared.on,
           shared'.unattended = shared.unattended,
           shared'.tainted = shared.tainted, shared'.latchedAt = shared.latchedAt
    PROVE  ClosedStaysClosed'
    BY DEF TreeInv, ClosedStaysClosed

------------------------------------------------------------------------------
(* An agent leaves.                                                        *)

\* The last one leaves, and the turn is over.
LEMMA LastLeaves ==
    ASSUME TreeInv, stack # <<>>, Len(stack) = 1, NEW ok \in BOOLEAN, NEW c \in Nat, Leave(ok, c),
           shown' = shown, Outside, touches' \in 0..MaxTouches
    PROVE  TreeInv'
<1> USE DEF TreeInv
<1>1. /\ stack' = <<>> /\ shared' = NoShared /\ did' = did
      /\ status' = [status EXCEPT ![Top.agent] = "idle"]
    BY DEF Leave
<1>2. wires' = wires /\ paper' = paper
    BY DEF Outside
<1>3. Len(stack') = 0 /\ stack' \in Seq(FrameRecs)
    BY <1>1, EmptySeq
<1>4. /\ Top.agent \in Crew /\ Top = stack[1] /\ Len(did) \in Nat
      /\ \A i \in 1..Len(did) : did[i].depth \in Nat
    BY StackPlaces DEF Top
<1>5. status' \in [Crew -> Shows] /\ \A a \in Crew : status'[a] = IF a = Top.agent THEN "idle" ELSE status[a]
    BY <1>1, <1>4 DEF TreeTypes, Shows
<1>6. TreeTypes'
    <2>1. shared' \in SharedRecs
        BY <1>1, NothingShared
    <2> QED
        BY <2>1, <1>1, <1>2, <1>3, <1>5 DEF TreeTypes
<1>7. FramesFit'
    <2>1. shared'.on = FALSE
        BY <1>1, NothingShared
    <2>2. Len(stack') <= MaxDepth + 1
        BY <1>3, Limits
    <2> QED
        BY <2>1, <2>2, <1>1, <1>3 DEF FramesFit
<1>8. StatusFits'
    <2>1. ASSUME NEW a \in Crew
          PROVE  status'[a] = "idle"
        <3>1. CASE a = Top.agent
            BY <3>1, <1>5
        <3>2. CASE a # Top.agent
            <4>1. \A i \in 1..Len(stack) : i = 1
                OBVIOUS
            <4>2. status[a] = "idle"
                BY <4>1, <3>2, <1>4 DEF StatusFits
            <4> QED
                BY <4>2, <3>2, <1>5
        <3> QED
            BY <3>1, <3>2
    <2>2. 1..Len(stack') = {}
        BY <1>3
    <2> QED
        BY <2>1, <2>2 DEF StatusFits
<1>9. RecordFits'
    <2>1. \A i \in 1..Len(did) : did[i].depth > 0 => ~StillAtWork(i)
        BY <1>4 DEF StillAtWork
    <2>2. \A i, j : ClosedBy(i, j) => ClosedBy(i, j)'
        BY <1>1 DEF ClosedBy
    <2> QED
        BY <1>1, <2>1, <2>2 DEF RecordFits
<1>10. ContextFits'
    <2>1. shared'.on = FALSE
        BY <1>1, NothingShared
    <2> QED
        BY <2>1 DEF ContextFits, OneContextPerRun
<1>11. BudgetFits'
    <2>1. shared'.spent = 0 /\ Ceiling \in Nat /\ MaxCost \in Nat
        BY <1>1, NothingShared, TreeConstants
    <2> QED
        BY <2>1, <1>1 DEF BudgetFits
<1>12. ClosedStaysClosed'
    <2>1. shared'.on = FALSE
        BY <1>1, NothingShared
    <2> QED
        BY <2>1 DEF ClosedStaysClosed
<1> QED
    BY <1>6, <1>7, <1>8, <1>9, <1>10, <1>11, <1>12

\* A delegated one leaves: the call that delegated to it is noted, and closes what it
\* and its own did.
LEMMA DelegateLeaves ==
    ASSUME TreeInv, stack # <<>>, Len(stack) # 1, NEW ok \in BOOLEAN, NEW c \in Nat, Leave(ok, c),
           shown' = shown, Outside, touches' \in 0..MaxTouches,
           Ceiling > 0 /\ c > 0 => shared.spent < Ceiling /\ c <= MaxCost
    PROVE  TreeInv'
<1> USE DEF TreeInv
<1>0. PICK m \in Nat : m = Len(stack)
    BY StackPlaces
<1>1. PICK i \in Int : i = Len(stack) - 1
    BY <1>0
<1>2. PICK n \in Nat : n = Len(did)
    BY StackPlaces
<1> DEFINE call == [Call("delegate", i) EXCEPT !.ok = ok]
<1>3. /\ status' = [status EXCEPT ![Top.agent] = "idle"]
      /\ stack' = [SubSeq(stack, 1, i) EXCEPT ![i] = CallDone(stack[i])]
      /\ shared' = [shared EXCEPT !.spent = @ + c]
      /\ did' = Append(did, call)
    BY <1>1 DEF Leave, Noted
<1>4. wires' = wires /\ paper' = paper
    BY DEF Outside
<1>5. /\ i \in 1..m /\ i \in Nat \ {0} /\ i < m /\ m = i + 1
      /\ stack' \in Seq(FrameRecs) /\ Len(stack') = i /\ stack' # <<>>
      /\ \A j \in 1..i : stack'[j].agent = stack[j].agent
      /\ \A j \in 1..i : j # i => stack'[j] = stack[j]
      /\ FrameFits(stack'[i])
      /\ stack'[i].pc \in {"calling", "guarding", "exhausted"}
      /\ Top' = stack'[i]
    BY <1>0, <1>1, <1>3, TopLeaves
<1>6. /\ \A j \in 1..m : stack[j].agent \in Crew
      /\ \A j \in 1..n : did[j].depth \in Nat
      /\ Top = stack[m]
    BY <1>0, <1>2, StackPlaces DEF Top
<1>7. /\ shared' \in SharedRecs /\ shared'.spent = shared.spent + c /\ shared.spent \in Nat
      /\ shared'.on = shared.on /\ shared'.unattended = shared.unattended
      /\ shared'.tainted = shared.tainted /\ shared'.latchedAt = shared.latchedAt
      /\ shared'.docs = shared.docs
    BY <1>3, Booked DEF TreeTypes
<1>8. /\ call \in CallRecs /\ call.depth = i - 1 /\ call.agent = stack[i].agent
      /\ call.name = "delegate"
    BY <1>5, <1>6, CallTyped DEF Tools
<1> HIDE DEF call
<1>9. /\ did' \in Seq(CallRecs) /\ Len(did') = n + 1
      /\ \A k \in 1..n : did'[k] = did[k]
      /\ did'[n + 1] = call
    BY <1>2, <1>3, <1>8, RecordGrows DEF TreeTypes
<1>10. /\ status' \in [Crew -> Shows]
       /\ \A a \in Crew : status'[a] = IF a = Top.agent THEN "idle" ELSE status[a]
    BY <1>3, <1>5, <1>6 DEF TreeTypes, Shows
<1>11. TreeTypes'
    BY <1>4, <1>5, <1>7, <1>9, <1>10 DEF TreeTypes
<1>12. FramesFit'
    <2>1. /\ \A j \in 1..m : FrameFits(stack[j]) /\ (j < m => stack[j].pc = "calling")
          /\ m <= MaxDepth + 1 /\ n + m <= MaxNoted + 1 /\ shared.on
        BY <1>0, <1>2 DEF FramesFit
    <2>2. ASSUME NEW j \in 1..i
          PROVE  FrameFits(stack'[j]) /\ (j < i => stack'[j].pc = "calling")
        <3>1. j \in 1..m /\ j < m
            BY <1>5
        <3>2. j # i => stack'[j] = stack[j]
            BY <1>5
        <3> QED
            BY <3>1, <3>2, <2>1, <1>5
    <2>3. i <= MaxDepth + 1 /\ n + 1 <= MaxNoted /\ (n + 1) + i <= MaxNoted + 1
        BY <2>1, <1>5, Limits
    <2>4. FramesFit' <=>
            /\ \A j \in 1..Len(stack') :
                  FrameFits(stack'[j]) /\ (j < Len(stack') => stack'[j].pc = "calling")
            /\ Len(stack') <= MaxDepth + 1 /\ Len(did') <= MaxNoted
            /\ stack' # <<>> => Len(did') + Len(stack') <= MaxNoted + 1
            /\ shared'.on <=> stack' # <<>>
        BY DEF FramesFit, FrameFits
    <2> QED
        BY <2>1, <2>2, <2>3, <2>4, <1>5, <1>7, <1>9
<1>13. StatusFits'
    <2>1. /\ \A a \in Crew : status[a] # "idle" => \E j \in 1..m : stack[j].agent = a
          /\ \A j, k \in 1..m : stack[j].agent = stack[k].agent => j = k
          /\ \A j \in 1..m :
               \/ status[stack[j].agent] # "idle"
               \/ j = 1 /\ ~shared.unattended /\ Early(stack[1])
        BY <1>0 DEF StatusFits
    <2>2. \A j \in 1..m : j \in 1..i \/ j = m
        BY <1>5
    <2>3. \A j \in 1..i : j \in 1..m /\ j # m /\ m \in 1..m
        BY <1>5
    <2>4. ASSUME NEW a \in Crew, status'[a] # "idle"
          PROVE  \E j \in 1..i : stack'[j].agent = a
        <3>1. a # Top.agent /\ status[a] # "idle"
            BY <2>4, <1>10
        <3>2. PICK j \in 1..m : stack[j].agent = a
            BY <3>1, <2>1
        <3>3. j \in 1..i
            BY <3>1, <3>2, <2>2, <1>6
        <3> QED
            BY <3>2, <3>3, <1>5
    <2>5. \A j, k \in 1..i : stack'[j].agent = stack'[k].agent => j = k
        BY <2>1, <2>3, <1>5
    <2>6. ASSUME NEW j \in 1..i
          PROVE  status'[stack'[j].agent] # "idle"
        <3>1. stack[j].agent # Top.agent /\ stack[j].agent \in Crew
            BY <2>1, <2>3, <1>6
        <3>2. stack[j].pc = "calling"
            BY <2>3, <1>0, <1>5 DEF FramesFit
        <3>3. j = 1 => ~Early(stack[1])
            BY <3>2 DEF Early
        <3>4. status[stack[j].agent] # "idle"
            BY <3>3, <2>1, <2>3
        <3> QED
            BY <3>1, <3>4, <1>5, <1>10
    <2> QED
        BY <2>4, <2>5, <2>6, <1>5 DEF StatusFits
<1>14. RecordFits'
    <2>1. ASSUME NEW k \in 1..n, NEW j \in (k + 1)..n, ClosedBy(k, j)
          PROVE  ClosedBy(k, j)'
        <3>1. \A l \in k..(j - 1) : l \in 1..n
            OBVIOUS
        <3>2. k \in 1..n /\ j \in 1..n
            OBVIOUS
        <3>3. did'[k] = did[k] /\ did'[j] = did[j]
            BY <3>2, <1>9
        <3> QED
            BY <3>1, <3>3, <1>9, <2>1 DEF ClosedBy
    <2>2. ASSUME NEW k \in 1..n, did[k].depth > 0, StillAtWork(k)
          PROVE  ClosedBy(k, n + 1)' \/ StillAtWork(k)'
        <3>1. did'[k] = did[k] /\ did[k].depth \in Nat
            BY <1>6, <1>9
        <3>2. /\ \A l \in k..n : did[l].depth >= did[k].depth
              /\ m > did[k].depth /\ stack[did[k].depth + 1].agent = did[k].agent
            BY <1>0, <1>2, <2>2 DEF StillAtWork
        <3>3. \A l \in k..n : l \in 1..n
            OBVIOUS
        <3>4. \A l \in k..n : did'[l].depth >= did'[k].depth
            BY <3>1, <3>2, <3>3, <1>9
        <3>5. CASE did[k].depth = i
            <4>1. (n + 1) - 1 = n
                OBVIOUS
            <4>2. did'[n + 1].depth = did'[k].depth - 1 /\ did'[n + 1].name = "delegate"
                BY <3>5, <3>1, <1>8, <1>9
            <4> QED
                BY <4>1, <4>2, <3>4 DEF ClosedBy
        <3>6. CASE did[k].depth # i
            <4>1. did[k].depth < i
                BY <3>6, <3>1, <3>2, <1>5
            <4>2. did[k].depth + 1 \in 1..i
                BY <4>1, <3>1, <1>5
            <4>3. stack'[did[k].depth + 1].agent = did[k].agent
                BY <4>2, <3>2, <1>5
            <4>4. ASSUME NEW l \in k..(n + 1)
                  PROVE  did'[l].depth >= did'[k].depth
                <5>1. CASE l = n + 1
                    BY <5>1, <4>1, <3>1, <1>5, <1>8, <1>9
                <5>2. CASE l # n + 1
                    <6>1. l \in k..n
                        BY <5>2
                    <6> QED
                        BY <6>1, <3>4
                <5> QED
                    BY <5>1, <5>2
            <4>5. /\ \A l \in k..Len(did') : did'[l].depth >= did'[k].depth
                  /\ Len(stack') > did'[k].depth /\ stack'[did'[k].depth + 1].agent = did'[k].agent
                BY <4>1, <4>3, <4>4, <3>1, <1>5, <1>9
            <4> QED
                BY <4>5 DEF StillAtWork
        <3> QED
            BY <3>5, <3>6
    <2>3. StillAtWork(n + 1)'
        <3>1. did'[n + 1].depth = i - 1 /\ did'[n + 1].agent = stack[i].agent
            BY <1>8, <1>9
        <3>2. \A l \in (n + 1)..(n + 1) : l = n + 1
            OBVIOUS
        <3>3. \A l \in (n + 1)..Len(did') : did'[l].depth >= did'[n + 1].depth
            BY <3>1, <3>2, <1>5, <1>9
        <3>4. i - 1 + 1 = i /\ i > i - 1 /\ i \in 1..i
            BY <1>5
        <3>5. Len(stack') > did'[n + 1].depth /\ stack'[did'[n + 1].depth + 1].agent = did'[n + 1].agent
            BY <3>1, <3>4, <1>5
        <3> QED
            BY <3>3, <3>5 DEF StillAtWork
    <2>4. ASSUME NEW k \in 1..(n + 1), did'[k].depth > 0
          PROVE  (\E j \in (k + 1)..(n + 1) : ClosedBy(k, j)') \/ StillAtWork(k)'
        <3>1. CASE k = n + 1
            BY <3>1, <2>3
        <3>2. CASE k # n + 1
            <4>1. k \in 1..n /\ did[k].depth > 0 /\ n + 1 \in (k + 1)..(n + 1)
                BY <3>2, <1>9, <2>4
            <4>2. (\E j \in (k + 1)..n : ClosedBy(k, j)) \/ StillAtWork(k)
                BY <4>1, <1>2 DEF RecordFits
            <4>3. \A j \in (k + 1)..n : j \in (k + 1)..(n + 1)
                OBVIOUS
            <4> QED
                BY <4>1, <4>2, <4>3, <2>1, <2>2
        <3> QED
            BY <3>1, <3>2
    <2> QED
        BY <2>4, <1>9 DEF RecordFits
<1>15. ContextFits'
    BY <1>7 DEF ContextFits, OneContextPerRun
<1>16. BudgetFits'
    <2>1. Ceiling \in Nat /\ MaxCost \in Nat
        BY TreeConstants
    <2>2. ASSUME Ceiling > 0
          PROVE  shared'.spent < Ceiling + MaxCost \/ MaxCost = 0
        <3>1. shared.spent < Ceiling + MaxCost \/ MaxCost = 0
            BY <2>2 DEF BudgetFits
        <3>2. CASE c = 0
            BY <3>2, <3>1, <1>7
        <3>3. CASE c # 0
            BY <3>3, <2>1, <2>2, <1>7
        <3> QED
            BY <3>2, <3>3
    <2>3. ~MayAsk(Top, Chat)'
        BY <1>5 DEF MayAsk
    <2> QED
        BY <2>2, <2>3 DEF BudgetFits
<1>17. ClosedStaysClosed'
    BY <1>3, <1>7, <1>8, ClosedExtended
<1> QED
    BY <1>11, <1>12, <1>13, <1>14, <1>15, <1>16, <1>17

\* Whoever is at the top leaves, and the tree is what it was without it.
LEMMA LeaveKeeps ==
    ASSUME TreeInv, stack # <<>>, NEW ok \in BOOLEAN, NEW c \in Nat, Leave(ok, c),
           shown' = shown, Outside, touches' \in 0..MaxTouches,
           Ceiling > 0 /\ c > 0 => shared.spent < Ceiling /\ c <= MaxCost
    PROVE  TreeInv'
    BY LastLeaves, DelegateLeaves

\* Whoever leaves with an error books nothing.
LEMMA FailureKeeps ==
    ASSUME TreeInv, stack # <<>>, Leave(FALSE, 0), shown' = shown, Outside, touches' \in 0..MaxTouches
    PROVE  TreeInv'
<1>1. 0 \in Nat /\ FALSE \in BOOLEAN /\ ~(0 > 0)
    OBVIOUS
<1> QED
    BY <1>1, LeaveKeeps

------------------------------------------------------------------------------
(* The steps.                                                              *)

\* A turn begins with one agent, a record that is empty and nothing spent.
LEMMA TurnBegins ==
    ASSUME TreeInv, stack = <<>>, NEW a \in Crew, NEW chat \in BOOLEAN,
           stack' = <<Frame(a, chat)>>,
           shared' \in SharedRecs, shared'.on = TRUE, shared'.spent = 0, shared'.unattended = ~chat,
           did' = <<>>, shown' = {}, Outside, touches' \in 0..MaxTouches,
           status' = IF chat THEN status ELSE [status EXCEPT ![a] = "working"]
    PROVE  TreeInv'
<1> USE DEF TreeInv
<1> DEFINE f == Frame(a, chat)
<1>1. /\ f \in FrameRecs /\ FrameFits(f) /\ f.agent = a /\ Early(f)
      /\ f.pc \in {"guarding", "listing"} /\ (~chat => f.pc = "listing") /\ (chat => f.pc = "guarding")
    BY FrameTyped
<1> HIDE DEF f
<1>2. stack' = <<f>> /\ wires' = wires /\ paper' = paper
    BY DEF f, Outside
<1>3. /\ stack' \in Seq(FrameRecs) /\ Len(stack') = 1 /\ stack' # <<>> /\ stack'[1] = f /\ Top' = f
    BY <1>1, <1>2 DEF Top
<1>4. did' \in Seq(CallRecs) /\ Len(did') = 0 /\ DOMAIN did' = {}
    OBVIOUS
<1>5. \A b \in Crew : status[b] = "idle"
    <2>1. 1..Len(stack) = {}
        OBVIOUS
    <2> QED
        BY <2>1 DEF StatusFits
<1>6. status' \in [Crew -> Shows] /\ \A b \in Crew : status'[b] = IF b = a /\ ~chat THEN "working" ELSE "idle"
    <2>1. status \in [Crew -> Shows] /\ "working" \in Shows
        BY DEF TreeTypes, Shows
    <2>2. CASE chat
        BY <2>1, <2>2, <1>5
    <2>3. CASE ~chat
        BY <2>1, <2>3, <1>5
    <2> QED
        BY <2>2, <2>3
<1>7. TreeTypes'
    BY <1>2, <1>3, <1>4, <1>6 DEF TreeTypes
<1>8. FramesFit'
    <2>1. \A i \in 1..Len(stack') : i = Len(stack') /\ stack'[i] = f
        BY <1>3
    <2>2. Len(stack') <= MaxDepth + 1 /\ Len(did') <= MaxNoted /\ Len(did') + Len(stack') <= MaxNoted + 1
        BY <1>3, <1>4, Limits
    <2>3. \A i \in 1..Len(stack') : FrameFits(stack'[i]) /\ ~(i < Len(stack'))
        BY <2>1, <1>1, <1>3
    <2> QED
        BY <2>2, <2>3, <1>3 DEF FramesFit, FrameFits
<1>9. StatusFits'
    <2>1. \A i \in 1..Len(stack') : i = 1
        BY <1>3
    <2>2. \A b \in Crew : status'[b] # "idle" => \E i \in 1..Len(stack') : stack'[i].agent = b
        <3>1. 1 \in 1..Len(stack') /\ stack'[1].agent = a
            BY <1>1, <1>3
        <3> QED
            BY <3>1, <1>6
    <2>3. \/ status'[stack'[1].agent] # "idle"
          \/ ~shared'.unattended /\ Early(stack'[1])
        BY <1>1, <1>3, <1>6
    <2>4. \A i \in 1..Len(stack') :
              \/ status'[stack'[i].agent] # "idle"
              \/ i = 1 /\ ~shared'.unattended /\ Early(stack'[1])
        BY <2>1, <2>3
    <2>5. \A i, j \in 1..Len(stack') : stack'[i].agent = stack'[j].agent => i = j
        BY <2>1
    <2>6. StatusFits' <=>
        /\ \A b \in Crew : status'[b] # "idle" => \E i \in 1..Len(stack') : stack'[i].agent = b
        /\ \A i, j \in 1..Len(stack') : stack'[i].agent = stack'[j].agent => i = j
        /\ \A i \in 1..Len(stack') :
              \/ status'[stack'[i].agent] # "idle"
              \/ i = 1 /\ ~shared'.unattended /\ Early(stack'[1])
        BY DEF StatusFits, Early
    <2> QED
        BY <2>2, <2>4, <2>5, <2>6
<1>10. RecordFits'
    BY <1>4 DEF RecordFits
<1>11. ContextFits'
    BY DEF ContextFits, OneContextPerRun
<1>12. BudgetFits'
    <2>1. Ceiling > 0 => shared'.spent < Ceiling /\ shared'.spent < Ceiling + MaxCost
        BY Limits
    <2> QED
        BY <2>1 DEF BudgetFits
<1>13. ClosedStaysClosed'
    BY <1>4 DEF ClosedStaysClosed
<1> QED
    BY <1>7, <1>8, <1>9, <1>10, <1>11, <1>12, <1>13

\* The top moves and notes nothing.
LEMMA TopStep ==
    ASSUME TreeInv, stack # <<>>, NEW f \in FrameRecs, OnTop(f), f.agent = Top.agent, FrameFits(f),
           wires' \subseteq Crew \X Crew, paper' \in [Papers -> Nat], touches' \in 0..MaxTouches,
           status' \in [Crew -> Shows],
           \A a \in Crew : a # Top.agent => status'[a] = status[a],
           status'[Top.agent] # "idle" \/ (Len(stack) = 1 /\ ~shared.unattended /\ Early(f)),
           did' = did,
           shared' \in SharedRecs, shared'.on = shared.on, shared'.unattended = shared.unattended,
           shared'.tainted = shared.tainted, shared'.latchedAt = shared.latchedAt,
           shown' \subseteq Papers \X Nat,
           ContextFits', BudgetFits'
    PROVE  TreeInv'
<1>1. /\ stack' \in Seq(FrameRecs) /\ Len(stack') = Len(stack) /\ stack'[Len(stack)] = f
      /\ \A j \in 1..Len(stack) : j # Len(stack) => stack'[j] = stack[j]
    BY TopMoves DEF TreeInv
<1>2. Len(stack) \in Nat /\ Top = stack[Len(stack)]
    BY StackPlaces DEF TreeInv, Top
<1>3. \A j \in 1..Len(stack) : stack'[j].agent = stack[j].agent
    BY <1>1, <1>2
<1>4. TreeTypes'
    BY <1>1 DEF TreeInv, TreeTypes
<1>5. FramesFit'
    BY TopStepFrames
<1>6. StatusFits'
    BY TopStepStatus
<1>7. RecordFits'
    <2>1. Len(stack') \in Nat /\ Len(stack') >= Len(stack)
        BY <1>1, <1>2
    <2>2. \A j \in 1..Len(stack') : j <= Len(stack) => stack'[j].agent = stack[j].agent
        BY <1>1, <1>3
    <2> QED
        BY <2>1, <2>2, RecordKept
<1>8. ClosedStaysClosed'
    BY ClosedKept
<1> QED
    BY <1>4, <1>5, <1>6, <1>7, <1>8 DEF TreeInv

\* The top makes a call, and it is noted.
LEMMA TopStepNoted ==
    ASSUME TreeInv, stack # <<>>, NEW f \in FrameRecs, OnTop(f), f.agent = Top.agent, FrameFits(f),
           wires' \subseteq Crew \X Crew, UNCHANGED <<paper, shown, touches>>,
           ~MayAsk(f, TRUE),
           status' = [status EXCEPT ![Top.agent] = "working"],
           NEW c \in CallRecs, did' = Append(did, c), c.depth = Len(stack) - 1, c.agent = Top.agent,
           Len(did) + Len(stack) <= MaxNoted,
           shared' \in SharedRecs, shared'.on = shared.on, shared'.unattended = shared.unattended,
           shared'.spent = shared.spent, shared'.docs = shared.docs,
           ClosedStaysClosed'
    PROVE  TreeInv'
<1>1. /\ stack' \in Seq(FrameRecs) /\ Len(stack') = Len(stack) /\ stack'[Len(stack)] = f /\ Top' = f
      /\ \A j \in 1..Len(stack) : j # Len(stack) => stack'[j] = stack[j]
    BY TopMoves DEF TreeInv
<1>2. Len(stack) \in Nat /\ Top = stack[Len(stack)] /\ Top.agent \in Crew
    BY StackPlaces DEF TreeInv, Top
<1>3. \A j \in 1..Len(stack) : stack'[j].agent = stack[j].agent
    BY <1>1, <1>2
<1>4. did' \in Seq(CallRecs) /\ Len(did') = Len(did) + 1
    BY RecordGrows DEF TreeInv, TreeTypes
<1>5. /\ status' \in [Crew -> Shows] /\ status'[Top.agent] # "idle"
      /\ \A a \in Crew : a # Top.agent => status'[a] = status[a]
    BY <1>2 DEF TreeInv, TreeTypes, Shows
<1>6. TreeTypes'
    BY <1>1, <1>4, <1>5 DEF TreeInv, TreeTypes
<1>7. FramesFit'
    BY <1>4, TopStepFrames
<1>8. StatusFits'
    BY <1>5, TopStepStatus
<1>9. RecordFits'
    BY <1>1, <1>3, RecordExtended
<1>10. ContextFits'
    BY DEF TreeInv, ContextFits, OneContextPerRun
<1>11. BudgetFits'
    <2>1. ~MayAsk(Top, Chat)'
        BY <1>1 DEF MayAsk
    <2> QED
        BY <2>1 DEF TreeInv, BudgetFits
<1> QED
    BY <1>6, <1>7, <1>8, <1>9, <1>10, <1>11 DEF TreeInv

\* The top hands a task over and waits; the other takes its place above.
LEMMA HandOverKeeps ==
    ASSUME TreeInv, HandOver
    PROVE  TreeInv'
<1> USE DEF TreeInv
<1>0. PICK b \in Crew :
         /\ MayDelegate(Top.agent, b)
         /\ stack' = Append(stack, Frame(b, FALSE))
         /\ status' = [status EXCEPT ![Top.agent] = "working", ![b] = "working"]
    BY DEF HandOver
<1>1. /\ stack # <<>> /\ Top.pc = "calling" /\ Len(did) + Len(stack) <= MaxNoted
      /\ UNCHANGED <<shared, did, fed, shown, touches>> /\ wires' = wires /\ paper' = paper
    BY DEF HandOver, Doing, Outside
<1>2. PICK n \in Nat : n = Len(stack)
    BY StackPlaces
<1>3. /\ n \in 1..n /\ Top = stack[n] /\ Top.agent \in Crew /\ Len(did) \in Nat
      /\ \A j \in 1..n : stack[j].agent \in Crew
    BY <1>1, <1>2, StackPlaces DEF Top
<1>4. /\ b # Top.agent /\ n < MaxDepth + 1
      /\ \A j \in 1..n : stack[j].agent # b
    <2>1. b # Top.agent /\ b \notin OnChain /\ n - 1 < MaxDepth
        BY <1>0, <1>2 DEF MayDelegate, Depth
    <2>2. \A j \in 1..n : stack[j].agent # b
        BY <2>1, <1>2 DEF OnChain
    <2> QED
        BY <2>1, <2>2, Limits
<1> DEFINE f == Frame(b, FALSE)
<1>5. /\ f \in FrameRecs /\ FrameFits(f) /\ f.agent = b /\ f.pc = "listing"
    BY FrameTyped
<1> HIDE DEF f
<1>6. /\ stack' \in Seq(FrameRecs) /\ Len(stack') = n + 1 /\ stack' # <<>>
      /\ \A j \in 1..n : stack'[j] = stack[j]
      /\ stack'[n + 1] = f /\ Top' = f
    <2>1. stack' = Append(stack, f)
        BY <1>0 DEF f
    <2> QED
        BY <2>1, <1>2, <1>5, TopTaken
<1>7. \A j \in 1..(n + 1) : j \in 1..n \/ j = n + 1
    OBVIOUS
<1>8. /\ status' \in [Crew -> Shows]
      /\ \A a \in Crew : status'[a] = IF a \in {Top.agent, b} THEN "working" ELSE status[a]
    BY <1>0, <1>3 DEF TreeTypes, Shows
<1>9. TreeTypes'
    BY <1>1, <1>6, <1>8 DEF TreeTypes
<1>10. FramesFit'
    <2>1. /\ \A j \in 1..n : FrameFits(stack[j]) /\ (j < n => stack[j].pc = "calling")
          /\ Len(did) <= MaxNoted /\ shared.on
        BY <1>1, <1>2 DEF FramesFit
    <2>2. ASSUME NEW j \in 1..(n + 1)
          PROVE  FrameFits(stack'[j]) /\ (j < n + 1 => stack'[j].pc = "calling")
        <3>1. CASE j = n + 1
            BY <3>1, <1>5, <1>6
        <3>2. CASE j = n
            BY <3>2, <2>1, <1>1, <1>3, <1>6
        <3>3. CASE j # n + 1 /\ j # n
            <4>1. j \in 1..n /\ j < n
                BY <3>3
            <4> QED
                BY <4>1, <2>1, <1>6
        <3> QED
            BY <3>1, <3>2, <3>3
    <2>3. n + 1 <= MaxDepth + 1 /\ Len(did) + (n + 1) <= MaxNoted + 1
        BY <1>1, <1>2, <1>3, <1>4, Limits
    <2>4. FramesFit' <=>
            /\ \A j \in 1..Len(stack') :
                  FrameFits(stack'[j]) /\ (j < Len(stack') => stack'[j].pc = "calling")
            /\ Len(stack') <= MaxDepth + 1 /\ Len(did') <= MaxNoted
            /\ stack' # <<>> => Len(did') + Len(stack') <= MaxNoted + 1
            /\ shared'.on <=> stack' # <<>>
        BY DEF FramesFit, FrameFits
    <2> QED
        BY <2>1, <2>2, <2>3, <2>4, <1>1, <1>6
<1>11. StatusFits'
    <2>1. /\ \A a \in Crew : status[a] # "idle" => \E j \in 1..n : stack[j].agent = a
          /\ \A j, k \in 1..n : stack[j].agent = stack[k].agent => j = k
          /\ \A j \in 1..n :
               \/ status[stack[j].agent] # "idle"
               \/ j = 1 /\ ~shared.unattended /\ Early(stack[1])
        BY <1>2 DEF StatusFits
    <2>2. ASSUME NEW a \in Crew, status'[a] # "idle"
          PROVE  \E j \in 1..(n + 1) : stack'[j].agent = a
        <3>1. CASE a = b
            <4>1. n + 1 \in 1..(n + 1)
                OBVIOUS
            <4> QED
                BY <4>1, <3>1, <1>5, <1>6
        <3>2. CASE a # b
            <4>1. \E j \in 1..n : stack[j].agent = a
                BY <3>2, <2>1, <2>2, <1>3, <1>8
            <4>2. \A j \in 1..n : j \in 1..(n + 1)
                OBVIOUS
            <4> QED
                BY <4>1, <4>2, <1>6
        <3> QED
            BY <3>1, <3>2
    <2>3. \A j, k \in 1..(n + 1) : stack'[j].agent = stack'[k].agent => j = k
        BY <2>1, <1>4, <1>5, <1>6, <1>7
    <2>4. ASSUME NEW j \in 1..(n + 1)
          PROVE  status'[stack'[j].agent] # "idle"
        <3>1. CASE j = n + 1
            BY <3>1, <1>5, <1>6, <1>8
        <3>2. CASE j = n
            BY <3>2, <1>3, <1>6, <1>8
        <3>3. CASE j # n + 1 /\ j # n
            <4>1. j \in 1..n /\ j < n
                BY <3>3
            <4>2. stack[j].pc = "calling" /\ stack[j].agent \in Crew
                BY <4>1, <1>2, <1>3 DEF FramesFit
            <4>3. j = 1 => ~Early(stack[1])
                BY <4>2 DEF Early
            <4>4. status[stack[j].agent] # "idle"
                BY <4>1, <4>3, <2>1
            <4> QED
                BY <4>1, <4>2, <4>4, <1>6, <1>8
        <3> QED
            BY <3>1, <3>2, <3>3
    <2> QED
        BY <2>2, <2>3, <2>4, <1>6 DEF StatusFits
<1>12. RecordFits'
    <2>1. Len(stack') \in Nat /\ Len(stack') >= Len(stack)
        BY <1>2, <1>6
    <2>2. \A j \in 1..Len(stack') : j <= Len(stack) => stack'[j].agent = stack[j].agent
        BY <1>2, <1>6, <1>7
    <2> QED
        BY <2>1, <2>2, <1>1, RecordKept
<1>13. ContextFits'
    BY <1>1 DEF ContextFits, OneContextPerRun
<1>14. BudgetFits'
    <2>1. ~MayAsk(Top, Chat)'
        <3>1. Len(stack') # 1
            BY <1>3, <1>6
        <3> QED
            BY <3>1, <1>5, <1>6 DEF MayAsk, Chat
    <2> QED
        BY <2>1, <1>1 DEF BudgetFits
<1>15. ClosedStaysClosed'
    BY <1>1, ClosedKept
<1> QED
    BY <1>9, <1>10, <1>11, <1>12, <1>13, <1>14, <1>15

\* The space is listed.
LEMMA ListContextKeeps ==
    ASSUME TreeInv, ListContext
    PROVE  TreeInv'
<1> DEFINE f == [Top EXCEPT !.pc = "reading", !.todo = Reading[Top.agent]]
<1>1. /\ stack # <<>> /\ Top.pc = "listing" /\ OnTop(f)
      /\ UNCHANGED <<did, fed, shown, status>> /\ wires' = wires /\ paper' = paper
    BY DEF ListContext, Doing, Outside
<1>2. Top \in FrameRecs /\ Top.agent \in Crew /\ Len(stack) \in 1..Len(stack)
      /\ FrameFits(Top) /\ Len(stack) \in Nat
    BY <1>1, StackPlaces DEF TreeInv, FramesFit, Top
<1>3. Reading[Top.agent] \in SUBSET Papers /\ "reading" \in Pcs
    BY <1>2, TreeConstants DEF Pcs
<1>4. f \in FrameRecs /\ f.agent = Top.agent /\ f.pc = "reading" /\ f.iter = Top.iter
    BY <1>2, <1>3 DEF FrameRecs
<1> HIDE DEF f
<1>5. FrameFits(f)
    BY <1>1, <1>2, <1>4 DEF FrameFits
<1>6. /\ shared' \in SharedRecs /\ shared'.on = shared.on /\ shared'.unattended = shared.unattended
      /\ shared'.tainted = shared.tainted /\ shared'.latchedAt = shared.latchedAt
      /\ shared'.spent = shared.spent /\ shared'.docs = shared.docs
    <2>1. paper \in Versions /\ shared \in SharedRecs
        BY DEF TreeInv, TreeTypes, Versions
    <2>2. \/ shared' = shared
          \/ shared' = [shared EXCEPT !.listed = TRUE, !.list = paper]
          \/ shared' = [shared EXCEPT !.listed = TRUE]
        BY DEF ListContext
    <2> QED
        BY <2>1, <2>2 DEF SharedRecs
<1>7. touches' \in 0..MaxTouches
    <2>1. touches' = touches \/ Touch
        BY DEF ListContext
    <2> QED
        BY <2>1, Limits DEF Touch, TreeInv, TreeTypes
<1>8. status'[Top.agent] # "idle" \/ (Len(stack) = 1 /\ ~shared.unattended /\ Early(f))
    BY <1>1, <1>2, <1>4 DEF TreeInv, StatusFits, Early, Top
<1>9. ContextFits'
    BY <1>1, <1>6 DEF TreeInv, ContextFits, OneContextPerRun
<1>10. BudgetFits'
    <2>1. Top' = f /\ Len(stack') = Len(stack)
        BY <1>1, <1>4, TopMoves DEF TreeInv
    <2>2. MayAsk(Top, Chat)' => MayAsk(Top, Chat)
        BY <2>1, <1>1, <1>4, <1>6 DEF MayAsk, Chat
    <2> QED
        BY <2>2, <1>1, <1>6 DEF TreeInv, BudgetFits
<1>11. wires' \subseteq Crew \X Crew /\ paper' \in [Papers -> Nat] /\ shown' \subseteq Papers \X Nat
       /\ status' \in [Crew -> Shows]
    BY <1>1 DEF TreeInv, TreeTypes
<1>12. \A a \in Crew : a # Top.agent => status'[a] = status[a]
    BY <1>1
<1> QED
    BY <1>1, <1>4, <1>5, <1>6, <1>7, <1>8, <1>9, <1>10, <1>11, <1>12, TopStep

\* A document is read, once in a turn.
LEMMA ReadPaperKeeps ==
    ASSUME TreeInv, ReadPaper
    PROVE  TreeInv'
<1>0. PICK p \in Top.todo :
         /\ OnTop([Top EXCEPT !.todo = @ \ {p}])
         /\ shared' = [shared EXCEPT !.docs = With(@, p, ContextDoc(p))]
         /\ shown' = shown \cup {<<p, ContextDoc(p)>>}
    BY DEF ReadPaper
<1> DEFINE f == [Top EXCEPT !.todo = @ \ {p}]
           v == ContextDoc(p)
<1>1. /\ stack # <<>> /\ Top.pc = "reading" /\ OnTop(f)
      /\ UNCHANGED <<did, status, touches>> /\ wires' = wires /\ paper' = paper
    BY <1>0 DEF ReadPaper, Doing, Outside
<1>2. Top \in FrameRecs /\ Top.agent \in Crew /\ Len(stack) \in 1..Len(stack)
      /\ FrameFits(Top) /\ Len(stack) \in Nat
    BY <1>1, StackPlaces DEF TreeInv, FramesFit, Top
<1>3. Top.todo \in SUBSET Papers /\ Top.todo \ {p} \in SUBSET Papers /\ p \in Papers
    BY <1>2 DEF FrameRecs
<1>4. f \in FrameRecs /\ f.agent = Top.agent /\ f.pc = "reading" /\ f.iter = Top.iter
    BY <1>1, <1>2, <1>3 DEF FrameRecs
<1>5. FrameFits(f)
    BY <1>1, <1>2, <1>4 DEF FrameFits
<1>6. shared \in SharedRecs /\ shared.docs \in Versions /\ paper \in [Papers -> Nat]
    BY DEF TreeInv, TreeTypes, SharedRecs
<1>7. v \in Nat
    BY <1>3, <1>6, VersionSaid DEF ContextDoc
<1>8. p \in DOMAIN shared.docs => v = shared.docs[p]
    BY DEF ContextDoc
<1> DEFINE d == With(shared.docs, p, v)
<1> HIDE DEF f, v
<1>9. d \in Versions
    BY <1>3, <1>6, <1>7, WithVersions
<1>10. /\ DOMAIN d = DOMAIN shared.docs \cup {p} /\ d[p] = v
       /\ \A q \in DOMAIN shared.docs : d[q] = shared.docs[q]
    BY <1>8 DEF With
<1>11. shared' = [shared EXCEPT !.docs = d] /\ shown' = shown \cup {<<p, v>>}
    BY <1>0 DEF v
<1> HIDE DEF d
<1>12. /\ shared' \in SharedRecs /\ shared'.on = shared.on /\ shared'.unattended = shared.unattended
       /\ shared'.tainted = shared.tainted /\ shared'.latchedAt = shared.latchedAt
       /\ shared'.spent = shared.spent /\ shared'.docs = d
    BY <1>6, <1>9, <1>11 DEF SharedRecs
<1>13. status'[Top.agent] # "idle" \/ (Len(stack) = 1 /\ ~shared.unattended /\ Early(f))
    BY <1>1, <1>2, <1>4 DEF TreeInv, StatusFits, Early, Top
<1>14. shown' \subseteq Papers \X Nat
    BY <1>3, <1>7, <1>11 DEF TreeInv, TreeTypes
<1>15. ContextFits'
    <2>1. shared.on
        BY <1>1 DEF TreeInv, FramesFit
    <2>2. \A x \in shown : x[1] \in DOMAIN shared.docs /\ x[2] = shared.docs[x[1]]
        BY <2>1 DEF TreeInv, ContextFits
    <2>3. ASSUME NEW x \in shown'
          PROVE  x[1] \in DOMAIN d /\ x[2] = d[x[1]]
        <3>1. CASE x \in shown
            BY <3>1, <2>2, <1>10
        <3>2. CASE x = <<p, v>>
            BY <3>2, <1>10
        <3> QED
            BY <3>1, <3>2, <1>11
    <2>4. \A x \in shown' : x = <<x[1], x[2]>>
        BY <1>14
    <2>5. \A x, y \in shown' : x[1] = y[1] => x = y
        BY <2>3, <2>4
    <2> QED
        BY <2>3, <2>5, <1>12 DEF ContextFits, OneContextPerRun
<1>16. BudgetFits'
    <2>1. Top' = f /\ Len(stack') = Len(stack)
        BY <1>1, <1>4, TopMoves DEF TreeInv
    <2>2. MayAsk(Top, Chat)' => MayAsk(Top, Chat)
        BY <2>1, <1>1, <1>4, <1>12 DEF MayAsk, Chat
    <2> QED
        BY <2>2, <1>1, <1>12 DEF TreeInv, BudgetFits
<1>17. wires' \subseteq Crew \X Crew /\ paper' \in [Papers -> Nat]
       /\ status' \in [Crew -> Shows] /\ touches' \in 0..MaxTouches
    BY <1>1 DEF TreeInv, TreeTypes
<1>18. \A a \in Crew : a # Top.agent => status'[a] = status[a]
    BY <1>1
<1> QED
    BY <1>1, <1>4, <1>5, <1>12, <1>13, <1>14, <1>15, <1>16, <1>17, <1>18, TopStep

\* The prompt is built; a conversation asks at once, for it has looked at the ceiling.
LEMMA PromptBuiltKeeps ==
    ASSUME TreeInv, PromptBuilt
    PROVE  TreeInv'
<1> DEFINE pc == IF Chat THEN "asking" ELSE "guarding"
           f == [Top EXCEPT !.pc = pc]
<1>1. /\ stack # <<>> /\ Top.pc = "reading" /\ OnTop(f)
      /\ UNCHANGED <<shared, did, fed, shown, touches>> /\ wires' = wires /\ paper' = paper
      /\ status' = IF Chat THEN [status EXCEPT ![Top.agent] = "thinking"] ELSE status
    BY DEF PromptBuilt, Doing, Outside, Moves
<1>2. Top \in FrameRecs /\ Top.agent \in Crew /\ Len(stack) \in 1..Len(stack)
      /\ FrameFits(Top) /\ Len(stack) \in Nat
    BY <1>1, StackPlaces DEF TreeInv, FramesFit, Top
<1>3. pc \in Pcs /\ pc \in {"asking", "guarding"} /\ (pc = "asking" <=> Chat)
    BY DEF Pcs
<1> HIDE DEF pc
<1>4. f \in FrameRecs /\ f.agent = Top.agent /\ f.pc = pc /\ f.iter = Top.iter
    BY <1>2, <1>3 DEF FrameRecs
<1> HIDE DEF f
<1>5. FrameFits(f)
    BY <1>1, <1>2, <1>3, <1>4 DEF FrameFits
<1>6. /\ status' \in [Crew -> Shows]
      /\ \A a \in Crew : a # Top.agent => status'[a] = status[a]
      /\ status'[Top.agent] = IF Chat THEN "thinking" ELSE status[Top.agent]
    BY <1>1, <1>2 DEF TreeInv, TreeTypes, Shows
<1>7. status'[Top.agent] # "idle" \/ (Len(stack) = 1 /\ ~shared.unattended /\ Early(f))
    <2>1. CASE Chat
        BY <2>1, <1>6
    <2>2. CASE ~Chat
        <3>1. \/ status[Top.agent] # "idle"
              \/ Len(stack) = 1 /\ ~shared.unattended
            BY <1>2 DEF TreeInv, StatusFits, Top
        <3> QED
            BY <3>1, <2>2, <1>6 DEF Chat
    <2> QED
        BY <2>1, <2>2
<1>8. ContextFits'
    BY <1>1 DEF TreeInv, ContextFits, OneContextPerRun
<1>9. BudgetFits'
    <2>1. Top' = f /\ Len(stack') = Len(stack)
        BY <1>1, <1>4, TopMoves DEF TreeInv
    <2>2. MayAsk(Top, Chat)' => MayAsk(Top, Chat)
        BY <2>1, <1>1, <1>3, <1>4 DEF MayAsk, Chat
    <2> QED
        BY <2>2, <1>1 DEF TreeInv, BudgetFits
<1>10. /\ wires' \subseteq Crew \X Crew /\ paper' \in [Papers -> Nat] /\ shown' \subseteq Papers \X Nat
       /\ touches' \in 0..MaxTouches /\ shared' \in SharedRecs
    BY <1>1 DEF TreeInv, TreeTypes
<1> QED
    BY <1>1, <1>4, <1>5, <1>6, <1>7, <1>8, <1>9, <1>10, TopStep

\* The ceiling is looked at: whoever goes on is below it.
LEMMA GuardBudgetKeeps ==
    ASSUME TreeInv, GuardBudget
    PROVE  TreeInv'
<1>1. /\ stack # <<>> /\ Top.pc = "guarding"
      /\ UNCHANGED <<fed, shown, touches>> /\ Outside /\ wires' = wires /\ paper' = paper
    BY DEF GuardBudget, Doing, Outside
<1>2. CASE OverBudget
    <2>1. Leave(FALSE, 0)
        BY <1>2 DEF GuardBudget
    <2>2. touches' \in 0..MaxTouches
        BY <1>1 DEF TreeInv, TreeTypes
    <2> QED
        BY <2>1, <2>2, <1>1, FailureKeeps
<1>3. CASE ~OverBudget
    <2> DEFINE pc == IF Chat THEN "listing" ELSE "asking"
               f == [Top EXCEPT !.pc = pc]
    <2>1. OnTop(f) /\ UNCHANGED <<shared, did, status>>
        BY <1>3 DEF GuardBudget, Moves
    <2>2. Top \in FrameRecs /\ Top.agent \in Crew /\ Len(stack) \in 1..Len(stack)
          /\ FrameFits(Top) /\ Len(stack) \in Nat
        BY <1>1, StackPlaces DEF TreeInv, FramesFit, Top
    <2>3. pc \in Pcs /\ pc \in {"listing", "asking"} /\ (pc = "listing" <=> Chat)
        BY DEF Pcs
    <2> HIDE DEF pc
    <2>4. f \in FrameRecs /\ f.agent = Top.agent /\ f.pc = pc /\ f.iter = Top.iter
        BY <2>2, <2>3 DEF FrameRecs
    <2> HIDE DEF f
    <2>5. FrameFits(f)
        BY <1>1, <2>2, <2>3, <2>4 DEF FrameFits
    <2>6. status'[Top.agent] # "idle" \/ (Len(stack) = 1 /\ ~shared.unattended /\ Early(f))
        <3>1. \/ status[Top.agent] # "idle"
              \/ Len(stack) = 1 /\ ~shared.unattended /\ Early(Top)
            BY <2>2 DEF TreeInv, StatusFits, Top
        <3>2. Len(stack) = 1 /\ ~shared.unattended => pc = "listing"
            BY <2>3 DEF Chat
        <3>3. pc = "listing" /\ Early(Top) => Early(f)
            BY <2>4 DEF Early
        <3> QED
            BY <3>1, <3>2, <3>3, <2>1
    <2>7. ContextFits'
        BY <1>1, <2>1 DEF TreeInv, ContextFits, OneContextPerRun
    <2>8. BudgetFits'
        <3>1. Ceiling > 0 => shared.spent < Ceiling
            <4>1. shared.spent \in Nat
                BY DEF TreeInv, TreeTypes, SharedRecs
            <4> QED
                BY <4>1, <1>3, Limits DEF OverBudget
        <3> QED
            BY <3>1, <2>1 DEF TreeInv, BudgetFits
    <2>9. /\ wires' \subseteq Crew \X Crew /\ paper' \in [Papers -> Nat] /\ shown' \subseteq Papers \X Nat
          /\ touches' \in 0..MaxTouches /\ shared' \in SharedRecs /\ status' \in [Crew -> Shows]
        BY <1>1, <2>1 DEF TreeInv, TreeTypes
    <2>10. \A a \in Crew : a # Top.agent => status'[a] = status[a]
        BY <2>1
    <2> QED
        BY <1>1, <2>1, <2>4, <2>5, <2>6, <2>7, <2>8, <2>9, <2>10, TopStep
<1> QED
    BY <1>2, <1>3

\* The model calls tools.
LEMMA ModelCallsToolsKeeps ==
    ASSUME TreeInv, ModelCallsTools
    PROVE  TreeInv'
<1>0. PICK c \in 0..MaxCost, n \in 1..MaxAsked :
         /\ shared' = [shared EXCEPT !.spent = @ + c]
         /\ OnTop([Top EXCEPT !.pc = "calling", !.left = n])
    BY DEF ModelCallsTools
<1> DEFINE f == [Top EXCEPT !.pc = "calling", !.left = n]
<1>1. /\ stack # <<>> /\ Top.pc = "asking" /\ OnTop(f)
      /\ UNCHANGED <<did, fed, shown, status, touches>> /\ wires' = wires /\ paper' = paper
    BY <1>0 DEF ModelCallsTools, Doing, Outside
<1>2. Top \in FrameRecs /\ Top.agent \in Crew /\ Len(stack) \in 1..Len(stack)
      /\ FrameFits(Top) /\ Len(stack) \in Nat
    BY <1>1, StackPlaces DEF TreeInv, FramesFit, Top
<1>3. n \in Askings /\ "calling" \in Pcs /\ n > 0 /\ c \in Nat /\ c <= MaxCost
    BY Limits DEF Askings, Pcs
<1>4. f \in FrameRecs /\ f.agent = Top.agent /\ f.pc = "calling" /\ f.iter = Top.iter /\ f.left = n
    BY <1>2, <1>3 DEF FrameRecs
<1> HIDE DEF f
<1>5. FrameFits(f)
    BY <1>1, <1>2, <1>3, <1>4 DEF FrameFits
<1>6. /\ shared' \in SharedRecs /\ shared'.spent = shared.spent + c /\ shared.spent \in Nat
      /\ shared'.on = shared.on /\ shared'.unattended = shared.unattended
      /\ shared'.tainted = shared.tainted /\ shared'.latchedAt = shared.latchedAt
      /\ shared'.docs = shared.docs
    BY <1>0, <1>3, Booked DEF TreeInv, TreeTypes
<1>7. status'[Top.agent] # "idle"
    BY <1>1, <1>2 DEF TreeInv, StatusFits, Early, Top
<1>8. ContextFits'
    BY <1>1, <1>6 DEF TreeInv, ContextFits, OneContextPerRun
<1>9. BudgetFits'
    <2>1. Top' = f /\ Len(stack') = Len(stack)
        BY <1>1, <1>4, TopMoves DEF TreeInv
    <2>2. ~MayAsk(Top, Chat)'
        BY <2>1, <1>4 DEF MayAsk
    <2>3. Ceiling > 0 => shared.spent < Ceiling
        BY <1>1 DEF TreeInv, BudgetFits, MayAsk
    <2>4. Ceiling > 0 => shared'.spent < Ceiling + MaxCost
        BY <2>3, <1>3, <1>6, Limits
    <2> QED
        BY <2>2, <2>4 DEF BudgetFits
<1>10. /\ wires' \subseteq Crew \X Crew /\ paper' \in [Papers -> Nat] /\ shown' \subseteq Papers \X Nat
       /\ touches' \in 0..MaxTouches /\ status' \in [Crew -> Shows]
    BY <1>1 DEF TreeInv, TreeTypes
<1>11. \A a \in Crew : a # Top.agent => status'[a] = status[a]
    BY <1>1
<1> QED
    BY <1>1, <1>4, <1>5, <1>6, <1>7, <1>8, <1>9, <1>10, <1>11, TopStep

\* The frame of an agent whose call came back.
LEMMA AfterCall ==
    ASSUME TreeInv, Doing("calling")
    PROVE  /\ stack # <<>> /\ CallDone(Top) \in FrameRecs /\ FrameFits(CallDone(Top))
           /\ CallDone(Top).agent = Top.agent /\ ~MayAsk(CallDone(Top), TRUE)
           /\ Top.agent \in Crew /\ Len(stack) \in Nat \ {0} /\ Top = stack[Len(stack)]
<1>1. stack # <<>> /\ Top.pc = "calling"
    BY DEF Doing
<1>2. Top \in FrameRecs /\ Top.agent \in Crew /\ Len(stack) \in 1..Len(stack)
      /\ FrameFits(Top) /\ Len(stack) \in Nat
    BY <1>1, StackPlaces DEF TreeInv, FramesFit, Top
<1> QED
    BY <1>1, <1>2, CallDoneTyped DEF MayAsk, Top

LEMMA DelegationRefusedKeeps ==
    ASSUME TreeInv, DelegationRefused
    PROVE  TreeInv'
<1> DEFINE call == [Call("delegate", Len(stack)) EXCEPT !.ok = FALSE]
<1>1. /\ Doing("calling") /\ Len(did) + Len(stack) <= MaxNoted
      /\ OnTop(CallDone(Top)) /\ did' = Append(did, call)
      /\ status' = [status EXCEPT ![Top.agent] = "working"]
      /\ UNCHANGED <<shared, fed, shown, touches>> /\ wires' = wires /\ paper' = paper
    BY DEF DelegationRefused, Outside, Noted
<1>2. /\ stack # <<>> /\ CallDone(Top) \in FrameRecs /\ FrameFits(CallDone(Top))
      /\ CallDone(Top).agent = Top.agent /\ ~MayAsk(CallDone(Top), TRUE)
      /\ Top.agent \in Crew /\ Len(stack) \in Nat \ {0} /\ Top = stack[Len(stack)]
    BY <1>1, AfterCall
<1>3. /\ call \in CallRecs /\ call.depth = Len(stack) - 1 /\ call.agent = Top.agent
      /\ call.name = "delegate"
    <2>1. PICK n \in Nat \ {0} : n = Len(stack)
        BY <1>2
    <2>2. PICK ok \in BOOLEAN : ok = FALSE
        OBVIOUS
    <2>3. "delegate" \in Tools /\ stack[n].agent \in Crew
        BY <1>2, <2>1 DEF Tools
    <2>4. call = [Call("delegate", n) EXCEPT !.ok = ok]
        BY <2>1, <2>2
    <2> HIDE DEF call
    <2> QED
        BY <2>1, <2>3, <2>4, <1>2, CallTyped
<1> HIDE DEF call
<1>4. ClosedStaysClosed'
    BY <1>1, <1>3, ClosedExtended
<1>5. wires' \subseteq Crew \X Crew /\ shared' \in SharedRecs
    BY <1>1 DEF TreeInv, TreeTypes
<1> QED
    BY <1>1, <1>2, <1>3, <1>4, <1>5, TopStepNoted

\* A tool of the engine, through the gates: what writes is refused in a turn that has
\* read third-party text, and the one that reads it latches them.
LEMMA UseToolKeeps ==
    ASSUME TreeInv, UseTool
    PROVE  TreeInv'
<1>0. PICK tool \in Callable(Top.agent) :
         /\ Taint(tool) /\ Rewire(tool, Permitted(tool, Top.agent))
         /\ did' = Noted(did, Call(tool, Len(stack)), Permitted(tool, Top.agent))
    BY DEF UseTool
<1> DEFINE ok == Permitted(tool, Top.agent)
           call == [Call(tool, Len(stack)) EXCEPT !.ok = ok]
<1>1. /\ Doing("calling") /\ Len(did) + Len(stack) <= MaxNoted
      /\ OnTop(CallDone(Top)) /\ did' = Append(did, call)
      /\ status' = [status EXCEPT ![Top.agent] = "working"]
      /\ UNCHANGED <<paper, fed, shown, touches>>
    BY <1>0 DEF UseTool, Noted
<1>2. /\ stack # <<>> /\ CallDone(Top) \in FrameRecs /\ FrameFits(CallDone(Top))
      /\ CallDone(Top).agent = Top.agent /\ ~MayAsk(CallDone(Top), TRUE)
      /\ Top.agent \in Crew /\ Len(stack) \in Nat \ {0} /\ Top = stack[Len(stack)]
    BY <1>1, AfterCall
<1>3. tool \in Tools /\ ok \in BOOLEAN
    BY DEF Callable, Tools, Permitted
<1>4. ok /\ tool \in {"save_instruction", "wire_create"} => ~shared.tainted /\ tool # "read_file"
    BY DEF Permitted
<1>5. ok /\ tool = "list_gears" => ~shared.unattended
    BY DEF Permitted
<1> HIDE DEF ok
<1>6. /\ call \in CallRecs /\ call.depth = Len(stack) - 1 /\ call.agent = Top.agent
      /\ call.name = tool /\ call.ok = ok
    BY <1>2, <1>3, CallTyped
<1> HIDE DEF call
<1>7. /\ shared' \in SharedRecs /\ shared'.on = shared.on /\ shared'.unattended = shared.unattended
      /\ shared'.spent = shared.spent /\ shared'.docs = shared.docs
      /\ shared'.tainted => \/ shared.tainted /\ shared'.latchedAt = shared.latchedAt
                            \/ shared'.latchedAt = Len(did) + 1
      /\ shared'.tainted => shared.tainted \/ tool = "read_file"
    <2>1. shared \in SharedRecs /\ Len(did) + 1 \in Nat
        BY StackPlaces DEF TreeInv, TreeTypes
    <2>2. CASE tool = "read_file" /\ ~shared.tainted
              /\ shared' = [shared EXCEPT !.tainted = TRUE, !.latchedAt = Len(did) + 1]
        BY <2>1, <2>2 DEF SharedRecs
    <2>3. CASE shared' = shared
        BY <2>1, <2>3
    <2>4. \/ shared' = shared
          \/ tool = "read_file" /\ ~shared.tainted
              /\ shared' = [shared EXCEPT !.tainted = TRUE, !.latchedAt = Len(did) + 1]
        BY <1>0 DEF Taint
    <2> QED
        BY <2>2, <2>3, <2>4
<1>8. ClosedStaysClosed'
    BY <1>1, <1>4, <1>5, <1>6, <1>7, ClosedExtended
<1>9. wires' \subseteq Crew \X Crew
    <2>1. wires \subseteq Crew \X Crew
        BY DEF TreeInv, TreeTypes
    <2>2. \/ wires' = wires
          \/ \E a, b \in Crew : wires' = wires \cup {<<a, b>>} \/ wires' = wires \ {<<a, b>>}
        BY <1>0 DEF Rewire
    <2> QED
        BY <2>1, <2>2
<1> QED
    BY <1>1, <1>2, <1>6, <1>7, <1>8, <1>9, TopStepNoted

\* What happens beside the turn touches nothing of it.
LEMMA BesideKeeps ==
    ASSUME TreeInv, UNCHANGED <<stack, shared, did, shown, status>>,
           wires' \subseteq Crew \X Crew, paper' \in [Papers -> Nat], touches' \in 0..MaxTouches
    PROVE  TreeInv'
<1>1. TreeTypes'
    BY DEF TreeInv, TreeTypes
<1>2. FramesFit'
    BY DEF TreeInv, FramesFit, FrameFits
<1>3. StatusFits'
    BY DEF TreeInv, StatusFits, Early
<1>4. RecordFits'
    <2>1. \A i, j : ClosedBy(i, j) => ClosedBy(i, j)'
        BY DEF ClosedBy
    <2>2. \A i : StillAtWork(i) => StillAtWork(i)'
        BY DEF StillAtWork
    <2> QED
        BY <2>1, <2>2 DEF TreeInv, RecordFits
<1>5. ContextFits'
    BY DEF TreeInv, ContextFits, OneContextPerRun
<1>6. BudgetFits'
    <2>1. MayAsk(Top, Chat)' => MayAsk(Top, Chat)
        BY DEF MayAsk, Top, Chat
    <2> QED
        BY <2>1 DEF TreeInv, BudgetFits
<1>7. ClosedStaysClosed'
    BY DEF TreeInv, ClosedStaysClosed
<1> QED
    BY <1>1, <1>2, <1>3, <1>4, <1>5, <1>6, <1>7 DEF TreeInv

------------------------------------------------------------------------------
(* The theorems.                                                           *)

LEMMA TreeStarts == TreeInit => TreeInv
<1> SUFFICES ASSUME TreeInit PROVE TreeInv
    OBVIOUS
<1>1. /\ stack = <<>> /\ shared = NoShared /\ did = <<>> /\ shown = {}
      /\ status = [a \in Crew |-> "idle"] /\ touches = 0
      /\ paper = [p \in Papers |-> 1] /\ wires \subseteq Crew \X Crew
    BY DEF TreeInit
<1>2. stack \in Seq(FrameRecs) /\ Len(stack) = 0 /\ did \in Seq(CallRecs) /\ Len(did) = 0 /\ DOMAIN did = {}
    BY <1>1
<1>3. shared \in SharedRecs /\ shared.on = FALSE /\ shared.spent = 0
    BY <1>1, NothingShared
<1>4. TreeTypes
    BY <1>1, <1>2, <1>3, Limits DEF TreeTypes, Shows
<1>5. FramesFit
    BY <1>1, <1>2, <1>3, Limits DEF FramesFit
<1>6. StatusFits
    BY <1>1, <1>2 DEF StatusFits
<1>7. RecordFits
    BY <1>2 DEF RecordFits
<1>8. ContextFits
    BY <1>1 DEF ContextFits, OneContextPerRun
<1>9. BudgetFits
    BY <1>1, <1>3, Limits DEF BudgetFits
<1>10. ClosedStaysClosed
    BY <1>2 DEF ClosedStaysClosed
<1> QED
    BY <1>4, <1>5, <1>6, <1>7, <1>8, <1>9, <1>10 DEF TreeInv

LEMMA TreeStep ==
    ASSUME TreeInv, [TreeNext]_treeVars
    PROVE  TreeInv'
<1>0. /\ touches \in 0..MaxTouches /\ wires \subseteq Crew \X Crew /\ paper \in [Papers -> Nat]
      /\ shared \in SharedRecs
    BY DEF TreeInv, TreeTypes
<1>t. Touch => touches' \in 0..MaxTouches
    BY <1>0, Limits DEF Touch
<1>1. CASE BeginChat
    <2>1. shared' = [NoShared EXCEPT !.on = TRUE]
        BY <1>1 DEF BeginChat
    <2>2. shared' \in SharedRecs /\ shared'.on = TRUE /\ shared'.spent = 0 /\ shared'.unattended = FALSE
        BY <2>1, NothingShared DEF SharedRecs
    <2>3. Orchestrator \in Crew
        BY TreeConstants
    <2> QED
        <3>1. /\ stack = <<>> /\ stack' = <<Frame(Orchestrator, TRUE)>>
              /\ did' = <<>> /\ shown' = {} /\ Outside /\ status' = status /\ touches' \in 0..MaxTouches
            BY <1>1, <1>t DEF BeginChat
        <3>2. TRUE \in BOOLEAN /\ shared'.unattended = ~TRUE
            BY <2>2
        <3> QED
            BY <3>1, <3>2, <2>2, <2>3, TurnBegins
<1>2. CASE BeginUnattended
    <2>1. shared' = [NoShared EXCEPT !.on = TRUE, !.unattended = TRUE, !.tainted = TRUE]
        BY <1>2 DEF BeginUnattended
    <2>2. shared' \in SharedRecs /\ shared'.on = TRUE /\ shared'.spent = 0 /\ shared'.unattended = TRUE
        BY <2>1, NothingShared DEF SharedRecs
    <2> QED
        BY <2>2, <1>2, <1>t, TurnBegins DEF BeginUnattended
<1>3. CASE PaperUnreadable
    BY <1>3, <1>t, FailureKeeps DEF PaperUnreadable, Doing
<1>4. CASE Exhausted
    <2>1. touches' \in 0..MaxTouches
        BY <1>4, <1>0 DEF Exhausted
    <2> QED
        BY <2>1, <1>4, FailureKeeps DEF Exhausted, Doing
<1>5. CASE ProviderFails
    BY <1>5, <1>t, FailureKeeps DEF ProviderFails, Doing
<1>6. CASE ModelAnswers
    <2>1. PICK c \in 0..MaxCost, ok \in BOOLEAN : Leave(ok, c)
        BY <1>6 DEF ModelAnswers
    <2>2. stack # <<>> /\ Top.pc = "asking" /\ shown' = shown /\ touches' = touches /\ Outside
        BY <1>6 DEF ModelAnswers, Doing
    <2>3. Ceiling > 0 => shared.spent < Ceiling
        BY <2>2 DEF TreeInv, BudgetFits, MayAsk
    <2>4. c \in Nat /\ c <= MaxCost
        BY Limits
    <2> QED
        BY <2>1, <2>2, <2>3, <2>4, <1>0, LeaveKeeps
<1>7. CASE OperatorRewires
    <2>1. wires' \subseteq Crew \X Crew
        BY <1>7, <1>0 DEF OperatorRewires
    <2> QED
        BY <2>1, <1>0, <1>7, <1>t, BesideKeeps DEF OperatorRewires
<1>8. CASE SavePaper
    <2>1. paper' \in [Papers -> Nat]
        BY <1>8, <1>0 DEF SavePaper
    <2> QED
        BY <2>1, <1>0, <1>8, <1>t, BesideKeeps DEF SavePaper
<1>9. CASE UNCHANGED treeVars
    BY <1>9, <1>0, BesideKeeps DEF treeVars
<1> QED
    BY <1>1, <1>2, <1>3, <1>4, <1>5, <1>6, <1>7, <1>8, <1>9, ListContextKeeps, ReadPaperKeeps,
       PromptBuiltKeeps, GuardBudgetKeeps, ModelCallsToolsKeeps, HandOverKeeps,
       DelegationRefusedKeeps, UseToolKeeps
    DEF TreeNext

\* The invariant says what the two properties say.
LEMMA InvIsOneRun == TreeInv => TreeIsOneRun
<1> SUFFICES ASSUME TreeInv PROVE TreeIsOneRun
    OBVIOUS
<1>1. /\ DOMAIN stack = 1..Len(stack) /\ DOMAIN did = 1..Len(did) /\ Len(stack) \in Nat /\ Len(did) \in Nat
      /\ \A i \in 1..Len(did) : did[i].depth \in Nat
    BY StackPlaces DEF TreeInv
<1>2. StatusTellsTheTruth
    <2>1. OnChain = {stack[i].agent : i \in 1..Len(stack)}
        BY DEF OnChain
    <2>2. \A a \in Crew : status[a] # "idle" => a \in OnChain
        BY <2>1 DEF TreeInv, StatusFits
    <2>3. \A i \in 1..Len(stack) :
             \/ status[stack[i].agent] # "idle"
             \/ i = 1 /\ ~shared.unattended /\ stack[1].iter = 0
                  /\ stack[1].pc \in {"guarding", "listing", "reading"}
        BY DEF TreeInv, StatusFits, Early
    <2> QED
        BY <2>2, <2>3, <1>1 DEF TreeInv, StatusFits, StatusTellsTheTruth
<1>3. RecordReadsAsATree
    <2> SUFFICES ASSUME NEW i \in 1..Len(did), did[i].depth > 0
                 PROVE  \/ \E j \in i + 1..Len(did) :
                              /\ \A k \in i..(j - 1) : did[k].depth >= did[i].depth
                              /\ did[j].depth = did[i].depth - 1 /\ did[j].name = "delegate"
                        \/ /\ \A k \in i..Len(did) : did[k].depth >= did[i].depth
                           /\ Len(stack) > did[i].depth
                           /\ Len(stack) = did[i].depth + 1 => Top.agent = did[i].agent
        BY <1>1 DEF RecordReadsAsATree
    <2>1. (\E j \in (i + 1)..Len(did) : ClosedBy(i, j)) \/ StillAtWork(i)
        BY DEF TreeInv, RecordFits
    <2> QED
        BY <2>1 DEF ClosedBy, StillAtWork, Top
<1>4. OneContextPerRun /\ ClosedStaysClosed
    BY DEF TreeInv, ContextFits
<1>5. OverrunsByOneCall
    BY DEF TreeInv, BudgetFits, OverrunsByOneCall
<1> QED
    BY <1>2, <1>3, <1>4, <1>5 DEF TreeIsOneRun, TreeIsToldTruly, LimitsHoldForTheTree

LEMMA InvIsTyped == TreeInv => TreeTypeOK
<1> SUFFICES ASSUME TreeInv PROVE TreeTypeOK
    OBVIOUS
<1>1. /\ DOMAIN stack = 1..Len(stack)
      /\ \A i \in 1..Len(stack) : stack[i] \in FrameRecs
    BY StackPlaces DEF TreeInv
<1>2. \A i \in DOMAIN stack :
          /\ stack[i].agent \in Crew /\ stack[i].todo \subseteq Papers
          /\ stack[i].iter \in 0..MaxTools /\ stack[i].left \in 0..MaxAsked
    BY <1>1 DEF FrameRecs, Rounds, Askings
<1> QED
    BY <1>2 DEF TreeInv, TreeTypes, FramesFit, TreeTypeOK, Shows

LEMMA TreeInvHolds == TreeSpec => []TreeInv
    BY TreeStarts, TreeStep, PTL DEF TreeSpec

\* The tree stays within its types and its bounds (engine.go runAgent, delegate).
THEOREM TreeTyped == TreeSpec => []TreeTypeOK
    BY TreeInvHolds, InvIsTyped, PTL

\* The agents of a turn are one run, for any crew, any documents and any limits: what
\* the operator is shown is who is at work, the record reads as the tree that ran, every
\* agent sees one version of a document, the tree overruns its budget by less than one
\* call, and what third-party text closed stays closed in every agent (engine.go delegate,
\* runAgent; record.go; contextcache.go; tools.go dispatchTool).
THEOREM OneRun == TreeSpec => []TreeIsOneRun
    BY TreeInvHolds, InvIsOneRun, PTL
==============================================================================
