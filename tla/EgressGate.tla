------------------------------ MODULE EgressGate ------------------------------
(***************************************************************************)
(* The internet gate: a turn that wants to search the web stops, an        *)
(* operator answers that one query, and the turn goes on                   *)
(* (egress/broker.go, engine/egress.go, server/egress_handlers.go,         *)
(* workspace/egress.go).                                                   *)
(*                                                                         *)
(* One turn at a time in each workspace, which the pipeline guarantees;    *)
(* the turns of several workspaces compete for the broker's one slot.  A   *)
(* row of the search log is known by its position, which stands for its    *)
(* token.  What a fingerprint covers is a pair: the agent's role and       *)
(* model, and the documents bound to it.                                   *)
(***************************************************************************)
EXTENDS Naturals, Sequences, FiniteSets

CONSTANTS
    Agents,        \* agents
    Home,          \* [Agents -> workspace]: where each lives
    Approvers,     \* operators' requests that answer an approval
    MaxPerTurn,    \* maxEgressPerTurn
    MaxPerDay,     \* maxEgressPer24h; a behaviour is one day
    MaxSearches,   \* bound: rows of the search log
    MaxTurns,      \* bound: turns begun
    MaxEdits,      \* bound: edits of an agent, grants, revocations, a kill
    MaxMishaps     \* bound: failed statements and crashes

ASSUME GateConstants ==
    /\ MaxPerTurn \in Nat \ {0} /\ MaxPerDay \in Nat \ {0}
    /\ MaxSearches \in Nat /\ MaxTurns \in Nat /\ MaxEdits \in Nat /\ MaxMishaps \in Nat

VARIABLES
    search,     \* the search_queries table, in the order of its rows
    grant,      \* [Agents -> the fingerprint granted, or NoGrant]
    role, docs, \* [Agents -> its role and model, its bound documents]
    slot,       \* Broker.cur
    asker,      \* [Workspaces -> the turn in progress and its search]
    approver,   \* [Approvers -> the approval request in progress]
    killed,     \* Server.egressOff
    serves,     \* whether the process is up and past its bootstrap
    told,       \* [Tokens -> the decision put into the request's channel, of which
                \* its operator is told that it was taken]
    onWire,     \* rows whose query has left the process
    withdrawn,  \* rows whose grant was taken away while they waited
    begun, changes, mishaps

talk     == <<search, slot, asker, onWire>>
office   == <<grant, role, docs, killed, withdrawn, changes>>
desk     == <<approver, told>>
gateVars == <<talk, office, desk, serves, begun, mishaps>>

Workspaces == {Home[a] : a \in Agents}
Tokens     == 1..MaxSearches
NoGrant    == <<>>
Decisions  == {"allow", "deny"}
\* Outcomes that say the query was never sent.
Refusals   == {"refused_invalid", "refused_revoked", "refused_budget", "refused_busy",
               "denied", "timeout", "abandoned"}
Outcomes   == {"sent", "failed", "interrupted"} \cup Refusals

\* turnState, the agent at work and the search it is in the middle of.
NoTurn  == [pc |-> "idle", turn |-> 0, used |-> 0, latched |-> FALSE, tainted |-> FALSE,
            agent |-> "none", loaded |-> 0, tok |-> 0, verdict |-> "none", seen |-> NoGrant]
NoSlot  == [tok |-> 0, answered |-> FALSE, late |-> FALSE]
NoClick == [pc |-> "idle", tok |-> 0]

GateInit ==
    /\ search = <<>> /\ slot = NoSlot
    /\ asker = [w \in Workspaces |-> NoTurn] /\ onWire = {}
    /\ grant \in [Agents -> {NoGrant, <<0, 0>>}]
    /\ role = [a \in Agents |-> 0] /\ docs = [a \in Agents |-> 0]
    /\ killed = FALSE /\ withdrawn = {} /\ changes = 0
    /\ approver = [o \in Approvers |-> NoClick] /\ told = [t \in Tokens |-> "none"]
    /\ serves = TRUE /\ begun = 0 /\ mishaps = 0

------------------------------------------------------------------------------
(* The turn.                                                               *)

AskerAt(w, pc) == serves /\ asker[w].pc = pc
Put(w, t)      == asker' = [asker EXCEPT ![w] = t]
MoveTo(w, pc)  == Put(w, [asker[w] EXCEPT !.pc = pc])
\* Back among the turn's other work.
Rested(w)      == [asker[w] EXCEPT !.pc = "thinking", !.tok = 0, !.verdict = "none",
                                   !.seen = NoGrant]
Mishap         == mishaps < MaxMishaps /\ mishaps' = mishaps + 1
Elsewhere      == UNCHANGED <<office, desk, serves, begun>>

\* beginTurn: a budget, and both latches open, and the agent it starts with as
\* it is now.  An unattended turn is tainted from the start.
EnterTurn(w) ==
    /\ AskerAt(w, "idle") /\ begun < MaxTurns
    /\ \E a \in Agents, unattended \in BOOLEAN :
          /\ Home[a] = w
          /\ Put(w, [NoTurn EXCEPT !.pc = "thinking", !.turn = begun + 1, !.agent = a,
                                   !.loaded = role[a], !.tainted = unattended])
    /\ begun' = begun + 1
    /\ UNCHANGED <<search, slot, onWire, office, desk, serves, mishaps>>

\* The turn goes to another agent, which shares its budget and its latches.
Delegate(w) ==
    /\ AskerAt(w, "thinking")
    /\ \E a \in Agents :
          /\ Home[a] = w
          /\ Put(w, [asker[w] EXCEPT !.agent = a, !.loaded = role[a]])
    /\ UNCHANGED <<search, slot, onWire, mishaps>> /\ Elsewhere

\* A file or a gear's output of a stranger's reaches the turn.
ReadStranger(w) ==
    /\ AskerAt(w, "thinking")
    /\ Put(w, [asker[w] EXCEPT !.tainted = TRUE])
    /\ UNCHANGED <<search, slot, onWire, mishaps>> /\ Elsewhere

LeaveTurn(w) ==
    /\ AskerAt(w, "thinking")
    /\ Put(w, NoTurn)
    /\ UNCHANGED <<search, slot, onWire, mishaps>> /\ Elsewhere

\* Mutant of PassGates: a refusal does not close the gate for the turn.
PassGatesUnlatched(w) ==
    /\ AskerAt(w, "thinking")
    /\ ~asker[w].tainted /\ ~killed /\ asker[w].used < MaxPerTurn
    /\ MoveTo(w, "asking")
    /\ UNCHANGED <<search, slot, onWire, mishaps>> /\ Elsewhere

\* dispatchTool's taint check and webSearch's in-process gates.  A call that one
\* of them refuses changes nothing.
PassGates(w) ==
    /\ AskerAt(w, "thinking")
    /\ ~asker[w].tainted /\ ~killed /\ ~asker[w].latched /\ asker[w].used < MaxPerTurn
    /\ MoveTo(w, "asking")
    /\ UNCHANGED <<search, slot, onWire, mishaps>> /\ Elsewhere

NewRow(w) == [agent |-> asker[w].agent, turn |-> asker[w].turn, state |-> "awaiting",
              by |-> "none"]
\* A row is written before anybody is asked; a refusal's row is settled at once.
Record(w, pc, verdict) ==
    /\ Len(search) < MaxSearches
    /\ search' = Append(search, NewRow(w))
    /\ Put(w, [asker[w] EXCEPT !.pc = pc, !.tok = Len(search) + 1, !.verdict = verdict])
    /\ UNCHANGED <<slot, onWire>> /\ Elsewhere

InvalidQuery(w) ==
    AskerAt(w, "asking") /\ Record(w, "refusing", "refused_invalid") /\ UNCHANGED mishaps

\* checkGrant compares the fingerprint that is stored with the role as the turn
\* loaded it and the documents bound now.
Matches(w, fingerprint) == fingerprint = <<asker[w].loaded, docs[asker[w].agent]>>
Reviewed(w) == Matches(w, grant[asker[w].agent])

SentBy(a)  == {t \in DOMAIN search : search[t].agent = a /\ search[t].state = "sent"}
Spent(w)   == Cardinality(SentBy(asker[w].agent)) >= MaxPerDay

\* There is no grant, or it has lapsed, or it cannot be read.
RefuseUngranted(w) ==
    /\ AskerAt(w, "asking") /\ Record(w, "refusing", "refused_revoked")
    /\ IF Reviewed(w) THEN Mishap ELSE UNCHANGED mishaps

\* SearchesSince counts and RecordSearchAttempt writes: nobody else sends in the
\* name of this agent in between, and a grant that goes in between is missed
\* here and found by the second check.
RefuseSpent(w) ==
    /\ AskerAt(w, "asking") /\ Reviewed(w) /\ Spent(w)
    /\ Record(w, "refusing", "refused_budget") /\ UNCHANGED mishaps

RecordAttempt(w) ==
    /\ AskerAt(w, "asking") /\ Reviewed(w) /\ ~Spent(w)
    /\ Record(w, "recorded", "none") /\ UNCHANGED mishaps

\* Another statement before the wait fails: no row, no search.
AttemptFails(w) ==
    /\ AskerAt(w, "asking")
    /\ MoveTo(w, "thinking") /\ Mishap
    /\ UNCHANGED <<search, slot, onWire>> /\ Elsewhere

\* Broker.Open: the one slot, or refused outright.
OpenSlot(w) ==
    /\ AskerAt(w, "recorded")
    /\ IF slot.tok = 0
       THEN /\ slot' = [NoSlot EXCEPT !.tok = asker[w].tok]
            /\ Put(w, [asker[w] EXCEPT !.pc = "waiting", !.used = @ + 1])
       ELSE /\ Put(w, [asker[w] EXCEPT !.pc = "refusing", !.verdict = "refused_busy"])
            /\ UNCHANGED slot
    /\ UNCHANGED <<search, onWire, mishaps>> /\ Elsewhere

\* The deadline passes.
Expire ==
    /\ serves /\ slot.tok # 0 /\ ~slot.late
    /\ slot' = [slot EXCEPT !.late = TRUE]
    /\ UNCHANGED <<search, asker, onWire, mishaps>> /\ Elsewhere

\* Broker.Wait's select finds an answer in the channel.
HearAnswer(w) ==
    /\ AskerAt(w, "waiting") /\ told[asker[w].tok] # "none"
    /\ Put(w, IF told[asker[w].tok] = "allow"
              THEN [asker[w] EXCEPT !.pc = "allowed"]
              ELSE [asker[w] EXCEPT !.pc = "settling", !.latched = TRUE, !.verdict = "denied"])
    /\ UNCHANGED <<search, slot, onWire, mishaps>> /\ Elsewhere

\* Or the timer, or a caller that went away, whatever the channel holds.
TimeOut(w) ==
    /\ AskerAt(w, "waiting") /\ slot.late
    /\ Put(w, [asker[w] EXCEPT !.pc = "unasking", !.verdict = "timeout"])
    /\ UNCHANGED <<search, slot, onWire, mishaps>> /\ Elsewhere

LoseCaller(w) ==
    /\ AskerAt(w, "waiting")
    /\ Put(w, [asker[w] EXCEPT !.pc = "unasking", !.verdict = "abandoned"])
    /\ UNCHANGED <<search, slot, onWire, mishaps>> /\ Elsewhere

\* Wait marks the request answered, and a refusal latches the turn.
Unask(w) ==
    /\ AskerAt(w, "unasking")
    /\ slot' = IF slot.tok = asker[w].tok THEN [slot EXCEPT !.answered = TRUE] ELSE slot
    /\ Put(w, [asker[w] EXCEPT !.pc = "settling", !.latched = TRUE])
    /\ UNCHANGED <<search, onWire, mishaps>> /\ Elsewhere

\* The second checkGrant, after the wait: its first statement, which reads the
\* grant,
RereadGrant(w) ==
    /\ AskerAt(w, "allowed")
    /\ Put(w, [asker[w] EXCEPT !.pc = "rechecking", !.seen = grant[asker[w].agent]])
    /\ UNCHANGED <<search, slot, onWire, mishaps>> /\ Elsewhere

\* Mutant of Recheck: an approval is taken for the grant.
RecheckNothing(w) ==
    /\ AskerAt(w, "rechecking")
    /\ MoveTo(w, "cleared")
    /\ UNCHANGED <<search, slot, onWire, mishaps>> /\ Elsewhere

\* and its second, which reads the documents; or a statement that fails.
Recheck(w) ==
    /\ AskerAt(w, "rechecking")
    /\ \/ /\ Matches(w, asker[w].seen) /\ MoveTo(w, "cleared") /\ UNCHANGED mishaps
       \/ /\ IF Matches(w, asker[w].seen) THEN Mishap ELSE UNCHANGED mishaps
          /\ Put(w, [asker[w] EXCEPT !.pc = "settling", !.latched = TRUE,
                                     !.verdict = "refused_revoked"])
    /\ UNCHANGED <<search, slot, onWire>> /\ Elsewhere

\* searcher.Search: the query leaves, and an answer comes back or not.
Fetch(w) ==
    /\ AskerAt(w, "cleared")
    /\ onWire' = onWire \cup {asker[w].tok}
    /\ \E verdict \in {"sent", "failed"} :
          Put(w, [asker[w] EXCEPT !.pc = "settling", !.verdict = verdict])
    /\ UNCHANGED <<search, slot, mishaps>> /\ Elsewhere

\* Mutant of SettleRow: a settle that failed keeps the slot.
SettleRowLeaks(w) ==
    /\ AskerAt(w, "settling") \/ AskerAt(w, "refusing")
    /\ LET t == asker[w].tok
       IN search' = [search EXCEPT ![t].state = asker[w].verdict, ![t].by = told[t]]
    /\ MoveTo(w, "thinking")
    /\ UNCHANGED <<slot, onWire, mishaps>> /\ Elsewhere

\* settle, once, by the turn itself: the outcome and whose decision it was.  A
\* failing statement is logged and nothing more.  What a search brought back
\* taints the turn.
SettleRow(w) ==
    /\ AskerAt(w, "settling") \/ AskerAt(w, "refusing")
    /\ LET t == asker[w].tok
           d == IF asker[w].verdict \in {"timeout", "abandoned"} THEN "none" ELSE told[t]
       IN \/ /\ search' = [search EXCEPT ![t].state = asker[w].verdict, ![t].by = d]
             /\ UNCHANGED mishaps
          \/ UNCHANGED search /\ Mishap
    /\ Put(w, [(IF asker[w].pc = "refusing" THEN Rested(w) ELSE [asker[w] EXCEPT !.pc = "leaving"])
                  EXCEPT !.tainted = @ \/ asker[w].verdict = "sent"])
    /\ UNCHANGED <<slot, onWire>> /\ Elsewhere

\* The deferred Broker.Close.
CloseSlot(w) ==
    /\ AskerAt(w, "leaving")
    /\ slot' = IF slot.tok = asker[w].tok THEN NoSlot ELSE slot
    /\ Put(w, Rested(w))
    /\ UNCHANGED <<search, onWire, mishaps>> /\ Elsewhere

------------------------------------------------------------------------------
(* Operators.                                                              *)

ApproverAt(o, pc) == serves /\ approver[o].pc = pc
Aside == UNCHANGED <<office, serves, begun, mishaps, search, asker, onWire>>

\* An approval arrives for the request on screen.  Its access checks come before
\* the decision is delivered.
Click(o) ==
    /\ ApproverAt(o, "idle") /\ slot.tok # 0
    /\ approver' = [approver EXCEPT ![o] = [pc |-> "checked", tok |-> slot.tok]]
    /\ UNCHANGED <<slot, told>> /\ Aside

\* Mutant of Resolve: a second answer is taken as well.
ResolveTwice(o) ==
    /\ ApproverAt(o, "checked")
    /\ IF slot.tok = approver[o].tok /\ ~slot.late
       THEN /\ slot' = [slot EXCEPT !.answered = TRUE]
            /\ approver' = [approver EXCEPT ![o].pc = "sending"]
       ELSE approver' = [approver EXCEPT ![o] = NoClick] /\ UNCHANGED slot
    /\ UNCHANGED told /\ Aside

\* Broker.Resolve under its lock: the same request, unanswered and in time.
Resolve(o) ==
    /\ ApproverAt(o, "checked")
    /\ IF slot.tok = approver[o].tok /\ ~slot.answered /\ ~slot.late
       THEN /\ slot' = [slot EXCEPT !.answered = TRUE]
            /\ approver' = [approver EXCEPT ![o].pc = "sending"]
       ELSE approver' = [approver EXCEPT ![o] = NoClick] /\ UNCHANGED slot
    /\ UNCHANGED told /\ Aside

\* The lock released, the decision goes into the request's channel and the
\* operator is told it was taken.
Send(o) ==
    /\ ApproverAt(o, "sending")
    /\ \E d \in Decisions : told' = [told EXCEPT ![approver[o].tok] = d]
    /\ approver' = [approver EXCEPT ![o] = NoClick]
    /\ UNCHANGED slot /\ Aside

Change == serves /\ changes < MaxEdits /\ changes' = changes + 1
Apart  == UNCHANGED <<talk, desk, serves, begun, mishaps>>
Asked(a) == {asker[w].tok : w \in {v \in Workspaces : asker[v].agent = a /\ asker[v].pc \in {"waiting", "allowed"}}}

\* handleGrantEgress stores what the agent is at that moment.
GrantAgent(a) ==
    /\ Change /\ grant[a] # <<role[a], docs[a]>>
    /\ grant' = [grant EXCEPT ![a] = <<role[a], docs[a]>>]
    /\ withdrawn' = withdrawn \ Asked(a)
    /\ UNCHANGED <<role, docs, killed>> /\ Apart

RevokeAgent(a) ==
    /\ Change /\ grant[a] # NoGrant
    /\ grant' = [grant EXCEPT ![a] = NoGrant]
    /\ withdrawn' = withdrawn \cup Asked(a)
    /\ UNCHANGED <<role, docs, killed>> /\ Apart

\* An agent is given another role, or its documents change.
EditAgent(a) ==
    /\ Change
    /\ \/ role' = [role EXCEPT ![a] = 1 - @] /\ UNCHANGED docs
       \/ docs' = [docs EXCEPT ![a] = 1 - @] /\ UNCHANGED role
    /\ UNCHANGED <<grant, killed, withdrawn>> /\ Apart

KillEgress ==
    /\ Change /\ ~killed
    /\ killed' = TRUE
    /\ UNCHANGED <<grant, role, docs, withdrawn>> /\ Apart

------------------------------------------------------------------------------
(* The process.                                                            *)

\* A pause lives in one process: the slot, the turns and the switch are gone.
Die ==
    /\ serves /\ Mishap
    /\ serves' = FALSE /\ killed' = FALSE
    /\ slot' = NoSlot
    /\ asker' = [w \in Workspaces |-> NoTurn]
    /\ approver' = [o \in Approvers |-> NoClick]
    /\ UNCHANGED <<search, grant, role, docs, told, onWire, withdrawn, begun, changes>>

\* Bootstrap's ReconcileSearches, before anything is served.
Revive ==
    /\ ~serves
    /\ serves' = TRUE
    /\ search' = [t \in DOMAIN search |->
                    IF search[t].state = "awaiting"
                    THEN [search[t] EXCEPT !.state = "interrupted"] ELSE search[t]]
    /\ UNCHANGED <<slot, asker, onWire, office, desk, begun, mishaps>>

\* What a turn does once it has called web_search, short of hanging up.
SearchStep(w) ==
    \/ RefuseUngranted(w) \/ RefuseSpent(w)
    \/ RecordAttempt(w) \/ OpenSlot(w) \/ HearAnswer(w) \/ TimeOut(w) \/ Unask(w)
    \/ RereadGrant(w) \/ Recheck(w) \/ Fetch(w) \/ SettleRow(w)
    \/ CloseSlot(w)

GateNext ==
    \/ \E w \in Workspaces : \/ EnterTurn(w) \/ Delegate(w) \/ ReadStranger(w) \/ LeaveTurn(w)
                             \/ PassGates(w) \/ InvalidQuery(w) \/ AttemptFails(w)
                             \/ LoseCaller(w) \/ SearchStep(w)
    \/ Expire
    \/ \E o \in Approvers : Click(o) \/ Resolve(o) \/ Send(o)
    \/ \E a \in Agents : GrantAgent(a) \/ RevokeAgent(a) \/ EditAgent(a)
    \/ KillEgress \/ Die \/ Revive

GateSpec == GateInit /\ [][GateNext]_gateVars

\* Goroutines that can move do, and time passes.  Operators owe nothing.
GateFairness == WF_gateVars(Expire) /\ \A w \in Workspaces : WF_gateVars(SearchStep(w))
GateFairSpec == GateSpec /\ GateFairness

------------------------------------------------------------------------------
(* Properties.                                                             *)

GateTypeOK ==
    /\ Len(search) <= MaxSearches
    /\ \A t \in DOMAIN search : /\ search[t].agent \in Agents /\ search[t].turn \in 1..MaxTurns
                                /\ search[t].state \in Outcomes \cup {"awaiting"}
                                /\ search[t].by \in Decisions \cup {"none"}
    /\ slot.tok \in 0..MaxSearches /\ slot.answered \in BOOLEAN /\ slot.late \in BOOLEAN
    /\ told \in [Tokens -> Decisions \cup {"none"}]
    /\ \A w \in Workspaces : asker[w].used \in 0..MaxPerTurn /\ asker[w].tok \in 0..MaxSearches
    /\ onWire \subseteq Tokens /\ withdrawn \subseteq Tokens

\* A query leaves the process only if an operator allowed that query and its
\* agent's grant was not taken away while it waited (engine/egress.go, the
\* revocation window of step 10; broker.go Resolve).
AllowedOnWire ==
    \A t \in onWire : told[t] = "allow" /\ t \notin withdrawn

\* The log agrees with what happened: a row that says the query was not sent is
\* right, one that says it was answered is right, and the decision on it is the
\* one the operator was told was taken (engine/egress.go settle).
LogIsTrue ==
    \A t \in DOMAIN search :
        /\ search[t].state \in Refusals => t \notin onWire
        /\ search[t].state \in {"sent", "failed"} => t \in onWire /\ search[t].by = "allow"
        /\ search[t].by # "none" => search[t].by = told[t]

\* The slot belongs to exactly the turn that waits at it (broker.go Open, Close).
Waiters == {w \in Workspaces :
              asker[w].pc \in {"waiting", "unasking", "allowed", "rechecking", "cleared",
                               "settling", "leaving"}}
OneIsAsked ==
    /\ Cardinality(Waiters) = IF slot.tok = 0 THEN 0 ELSE 1
    /\ \A w \in Waiters : slot.tok = asker[w].tok

\* After a search of a turn was refused by a person, gave up waiting, or brought
\* something back, no other search of that turn is sent (turnState.latched and
\* tainted, across its agents).
QuietAfterwards ==
    \A s, t \in DOMAIN search :
        /\ s < t /\ search[s].turn = search[t].turn
        /\ search[s].state \in {"sent", "denied", "timeout", "abandoned"}
        => t \notin onWire

\* A turn asks a person MaxPerTurn times at most, its delegates included, and an
\* agent sends MaxPerDay searches at most.
WithinBudget ==
    /\ \A n \in 1..begun :
          Cardinality({t \in DOMAIN search :
             /\ search[t].turn = n
             /\ search[t].state \in {"sent", "failed", "denied", "timeout", "abandoned"}})
             <= MaxPerTurn
    /\ \A a \in Agents : Cardinality(SentBy(a)) <= MaxPerDay

\* What leaves the process was allowed, one by one and within the limits of its turn
\* and its agent (engine/egress.go webSearch).
SentAsAllowed == AllowedOnWire /\ WithinBudget

\* A person is asked about one search at a time, and not again by a turn they have
\* answered or left unanswered (broker.go, engine/egress.go).
AskedInTurn == OneIsAsked /\ QuietAfterwards

\* Whoever searches asked, and was answered, about that search (engine/egress.go,
\* egress/broker.go).
SearchesAreAsked == SentAsAllowed /\ AskedInTurn

\* Every search comes to an end whether or not anybody answers, and frees the
\* slot (approvalWindow, the deferred Close).
SearchEnds ==
    /\ []<>(slot.tok = 0)
    /\ \A w \in Workspaces : []<>(asker[w].tok = 0 \/ asker[w].pc \in {"idle", "thinking"})
==============================================================================
