------------------------------- MODULE TurnTree -------------------------------
(***************************************************************************)
(* One turn of a workspace as the tree it is: the agent a person or a      *)
(* delivery speaks to, the agents it delegates to along the wires, and     *)
(* theirs (engine/engine.go), with what the whole tree shares: the view of *)
(* the context space (contextcache.go), the token ceiling and the record   *)
(* (record.go), the latch on tools that write (egress.go) and the gates of *)
(* dispatchTool (tools.go).                                                *)
(*                                                                         *)
(* A workspace has one turn at a time (DeliveryPipeline), and a turn is    *)
(* one goroutine: a stack of agents, whose top is at work.  Beside it      *)
(* operators draw and cut wires and documents are saved.                   *)
(***************************************************************************)
EXTENDS Naturals, Sequences, FiniteSets

CONSTANTS
    Crew, Orchestrator,
    Papers,        \* documents of the context space
    Reading,       \* [Crew -> the documents bound to the agent]
    Planned,       \* agents with a step of a plan in front of them
    MaxDepth,      \* maxDelegationDepth
    MaxTools,      \* maxToolIterations
    Ceiling,       \* the token budget of a run, 0 for none
    MaxCost,       \* bound: tokens of a model call
    MaxAsked,      \* bound: tool calls of one reply
    MaxNoted,      \* bound: tool calls of a turn
    MaxTouches     \* bound: wires drawn or cut, documents saved, failures

ASSUME TreeConstants ==
    /\ Orchestrator \in Crew
    /\ Reading \in [Crew -> SUBSET Papers] /\ Planned \subseteq Crew
    /\ MaxTools \in Nat \ {0} /\ MaxAsked \in Nat \ {0}
    /\ \A n \in {MaxDepth, Ceiling, MaxCost, MaxNoted, MaxTouches} : n \in Nat

VARIABLES
    wires,      \* pairs of agents: the first may delegate to the second
    paper,      \* [Papers -> the version the context space has]
    stack,      \* the agents at work, the first spoken to first
    shared,     \* turnState: what the tree shares
    did,        \* Record.Tools
    fed,        \* Record.Context: [documents read -> the version noted]
    shown,      \* pairs of a document and a version that some agent was given
    status,     \* [Crew -> Engine.status]
    touches

treeVars == <<wires, paper, stack, shared, did, fed, shown, status, touches>>

Unknown  == 0     \* no version: the listing failed, or does not name the document
Nobody   == "nobody"
Empty    == [p \in {} |-> Unknown]
\* on: the turn is under way; latchedAt: how many calls the record had when
\* third-party text came in; list: the listing, once it was asked for.
NoShared == [on |-> FALSE, unattended |-> FALSE, tainted |-> FALSE, latchedAt |-> 0,
             spent |-> 0, listed |-> FALSE, list |-> Empty, docs |-> Empty]

Top       == stack[Len(stack)]
Depth     == Len(stack) - 1
OnChain   == {stack[i].agent : i \in 1..Len(stack)}
Chat      == ~shared.unattended /\ Len(stack) = 1
Doing(pc) == stack # <<>> /\ Top.pc = pc
OnTop(f)  == stack' = [stack EXCEPT ![Len(stack)] = f]
Moves(pc) == OnTop([Top EXCEPT !.pc = pc])
Touch     == touches < MaxTouches /\ touches' = touches + 1
Outside   == UNCHANGED <<wires, paper>>
With(f, p, v) == [q \in DOMAIN f \cup {p} |-> IF q = p THEN v ELSE f[q]]

\* An agent takes its place: a conversation asks the ceiling before it builds
\* its prompt, and does so at every iteration; any other agent builds it once.
Frame(a, chat) == [agent |-> a, pc |-> IF chat THEN "guarding" ELSE "listing",
                   todo |-> {}, iter |-> 0, left |-> 0]

TreeInit ==
    /\ wires \in SUBSET {w \in Crew \X Crew : w[1] # w[2]}
    /\ paper = [p \in Papers |-> 1]
    /\ stack = <<>> /\ shared = NoShared /\ did = <<>> /\ fed = Empty /\ shown = {}
    /\ status = [a \in Crew |-> "idle"] /\ touches = 0

------------------------------------------------------------------------------
(* A turn begins and ends.                                                 *)

\* A person's message.  The orchestrator is not shown at work before its first
\* prompt is built.
BeginChat ==
    /\ stack = <<>> /\ Touch
    /\ stack' = <<Frame(Orchestrator, TRUE)>>
    /\ shared' = [NoShared EXCEPT !.on = TRUE]
    /\ did' = <<>> /\ fed' = Empty /\ shown' = {}
    /\ UNCHANGED status /\ Outside

\* A delivery: third-party text is in the context from the start.
BeginUnattended ==
    /\ stack = <<>> /\ Touch
    /\ \E a \in Crew :
          /\ stack' = <<Frame(a, FALSE)>>
          /\ status' = [status EXCEPT ![a] = "working"]
    /\ shared' = [NoShared EXCEPT !.on = TRUE, !.unattended = TRUE, !.tainted = TRUE]
    /\ did' = <<>> /\ fed' = Empty /\ shown' = {}
    /\ Outside

\* noteTool, after the call came back.
Noted(record, call, ok) == Append(record, [call EXCEPT !.ok = ok])

Call(name, i) == [name |-> name, agent |-> stack[i].agent, depth |-> i - 1, ok |-> FALSE]

\* One call of a reply is done; after the last one comes the next iteration, and
\* there may be none left.
CallDone(f) ==
    LET g == [f EXCEPT !.left = @ - 1]
    IN IF g.left > 0 THEN g
       ELSE [g EXCEPT !.iter = @ + 1,
                      !.pc = IF f.iter + 1 < MaxTools THEN "guarding" ELSE "exhausted"]

\* An agent is done, with an answer or an error, and is idle again.  What it
\* says is the result of the call that delegated to it.  endTurn takes the
\* shared state away; the record was copied before.
Leave(ok, spent) ==
    /\ status' = [status EXCEPT ![Top.agent] = "idle"]
    /\ IF Len(stack) = 1
       THEN /\ stack' = <<>> /\ shared' = NoShared /\ UNCHANGED did
       ELSE LET i == Len(stack) - 1
            IN /\ stack' = [SubSeq(stack, 1, i) EXCEPT ![i] = CallDone(stack[i])]
               /\ shared' = [shared EXCEPT !.spent = @ + spent]
               /\ did' = Noted(did, Call("delegate", i), ok)

------------------------------------------------------------------------------
(* The prompt.                                                             *)

\* The space is listed once in a turn; that it could not be is remembered too.
ListContext ==
    /\ Doing("listing")
    /\ OnTop([Top EXCEPT !.pc = "reading", !.todo = Reading[Top.agent]])
    /\ \/ shared.listed /\ UNCHANGED <<shared, touches>>
       \/ /\ ~shared.listed
          /\ shared' = [shared EXCEPT !.listed = TRUE, !.list = paper] /\ UNCHANGED touches
       \/ /\ ~shared.listed /\ Touch
          /\ shared' = [shared EXCEPT !.listed = TRUE]
    /\ UNCHANGED <<did, fed, shown, status>> /\ Outside

\* Mutant of ContextDoc: every prompt reads the document afresh.
ContextDocAfresh(p) == paper[p]

\* contextDoc: one read in a turn.
ContextDoc(p) == IF p \in DOMAIN shared.docs THEN shared.docs[p] ELSE paper[p]

ReadPaper ==
    /\ Doing("reading")
    /\ \E p \in Top.todo :
          /\ OnTop([Top EXCEPT !.todo = @ \ {p}])
          /\ shared' = [shared EXCEPT !.docs = With(@, p, ContextDoc(p))]
          /\ shown' = shown \cup {<<p, ContextDoc(p)>>}
          /\ fed' = IF p \in DOMAIN fed THEN fed
                    ELSE With(fed, p, IF p \in DOMAIN shared.list THEN shared.list[p] ELSE Unknown)
    /\ UNCHANGED <<did, status, touches>> /\ Outside

\* A bound document that cannot be read is an error.
PaperUnreadable ==
    /\ Doing("reading") /\ Top.todo \ DOMAIN shared.docs # {} /\ Touch
    /\ Leave(FALSE, 0)
    /\ UNCHANGED <<fed, shown>> /\ Outside

PromptBuilt ==
    /\ Doing("reading") /\ Top.todo = {}
    /\ Moves(IF Chat THEN "asking" ELSE "guarding")
    /\ status' = IF Chat THEN [status EXCEPT ![Top.agent] = "thinking"] ELSE status
    /\ UNCHANGED <<shared, did, fed, shown, touches>> /\ Outside

------------------------------------------------------------------------------
(* The model.                                                              *)

\* Mutant of OverBudget: the ceiling holds for the conversation only.
OverBudgetInChat == Chat /\ Ceiling > 0 /\ shared.spent >= Ceiling

OverBudget == Ceiling > 0 /\ shared.spent >= Ceiling

GuardBudget ==
    /\ Doing("guarding")
    /\ IF OverBudget THEN Leave(FALSE, 0)
       ELSE Moves(IF Chat THEN "listing" ELSE "asking") /\ UNCHANGED <<shared, did, status>>
    /\ UNCHANGED <<fed, shown, touches>> /\ Outside

\* The loop has used its iterations up.
Exhausted ==
    /\ Doing("exhausted") /\ Leave(FALSE, 0)
    /\ UNCHANGED <<fed, shown, touches>> /\ Outside

\* The last word, which may be cut off or empty.  (What a call costs is booked
\* before the answer is judged.)
ModelAnswers ==
    /\ Doing("asking")
    /\ \E c \in 0..MaxCost, ok \in BOOLEAN : (ok \/ c > 0) /\ Leave(ok, c)
    /\ UNCHANGED <<fed, shown, touches>> /\ Outside

\* The provider fails, or whoever waited has gone.
ProviderFails ==
    /\ Doing("asking") /\ Touch
    /\ Leave(FALSE, 0)
    /\ UNCHANGED <<fed, shown>> /\ Outside

ModelCallsTools ==
    /\ Doing("asking")
    /\ \E c \in 0..MaxCost, n \in 1..MaxAsked :
          /\ shared' = [shared EXCEPT !.spent = @ + c]
          /\ OnTop([Top EXCEPT !.pc = "calling", !.left = n])
    /\ UNCHANGED <<did, fed, shown, status, touches>> /\ Outside

------------------------------------------------------------------------------
(* The tools.                                                              *)

\* Mutant of MayDelegate: the chain is not looked at.
MayDelegateRound(a, b) == a # b /\ <<a, b>> \in wires /\ Depth < MaxDepth

MayDelegate(a, b) ==
    /\ a # b /\ <<a, b>> \in wires
    /\ b \notin OnChain \ {a}
    /\ Depth < MaxDepth

HandOver ==
    /\ Doing("calling") /\ Len(did) + Len(stack) <= MaxNoted
    /\ \E b \in Crew :
          /\ MayDelegate(Top.agent, b)
          /\ stack' = Append(stack, Frame(b, FALSE))
          /\ status' = [status EXCEPT ![Top.agent] = "working", ![b] = "working"]
    /\ UNCHANGED <<shared, did, fed, shown, touches>> /\ Outside

\* No such agent, no wire, a cycle, too deep, no model.
DelegationRefused ==
    /\ Doing("calling") /\ Len(did) + Len(stack) <= MaxNoted
    /\ \E b \in Crew \cup {Nobody} : ~MayDelegate(Top.agent, b)
    /\ OnTop(CallDone(Top))
    /\ status' = [status EXCEPT ![Top.agent] = "working"]
    /\ did' = Noted(did, Call("delegate", Len(stack)), FALSE)
    /\ UNCHANGED <<shared, fed, shown, touches>> /\ Outside

\* The gates of dispatchTool, by one tool of each class: for everybody and for
\* the orchestrator, closed by third-party text or not, closed to a delivery.
Permitted(tool, a) ==
    /\ tool \in {"wire_create", "wire_cut", "plan_step_done"} => a = Orchestrator
    /\ tool \in {"save_instruction", "wire_create"} => ~shared.tainted
    /\ tool = "list_gears" => ~shared.unattended

\* What a reply may call: a name it was never given too, but for the plan, which
\* whoever has none in front of it is refused for want of one.
Callable(a) == {"save_instruction", "wire_create", "wire_cut", "list_gears", "read_file"}
                  \cup (IF a \in Planned THEN {"plan_step_done"} ELSE {})

\* A file that came through an inlet is third-party text.
Taint(tool) ==
    IF tool = "read_file" /\ ~shared.tainted
    THEN shared' \in {shared, [shared EXCEPT !.tainted = TRUE, !.latchedAt = Len(did) + 1]}
    ELSE UNCHANGED shared

Rewire(tool, ok) ==
    IF ok /\ tool \in {"wire_create", "wire_cut"}
    THEN \E a, b \in Crew :
            /\ a # b
            /\ wires' = IF tool = "wire_create" THEN wires \cup {<<a, b>>} ELSE wires \ {<<a, b>>}
    ELSE UNCHANGED wires

UseTool ==
    /\ Doing("calling") /\ Len(did) + Len(stack) <= MaxNoted
    /\ \E tool \in Callable(Top.agent) :
          LET ok == Permitted(tool, Top.agent)
          IN /\ Taint(tool) /\ Rewire(tool, ok)
             /\ did' = Noted(did, Call(tool, Len(stack)), ok)
    /\ OnTop(CallDone(Top))
    /\ status' = [status EXCEPT ![Top.agent] = "working"]
    /\ UNCHANGED <<paper, fed, shown, touches>>

------------------------------------------------------------------------------
(* Beside the turn.                                                        *)

OperatorRewires ==
    /\ Touch
    /\ \E a, b \in Crew : a # b /\ wires' \in {wires \cup {<<a, b>>}, wires \ {<<a, b>>}}
    /\ UNCHANGED <<paper, stack, shared, did, fed, shown, status>>

SavePaper ==
    /\ Touch
    /\ \E p \in Papers : paper' = [paper EXCEPT ![p] = @ + 1]
    /\ UNCHANGED <<wires, stack, shared, did, fed, shown, status>>

TreeNext ==
    \/ BeginChat \/ BeginUnattended
    \/ ListContext \/ ReadPaper \/ PaperUnreadable \/ PromptBuilt
    \/ GuardBudget \/ Exhausted \/ ModelAnswers \/ ProviderFails \/ ModelCallsTools
    \/ HandOver \/ DelegationRefused \/ UseTool
    \/ OperatorRewires \/ SavePaper

TreeSpec == TreeInit /\ [][TreeNext]_treeVars

------------------------------------------------------------------------------
(* Properties.                                                             *)

TreeTypeOK ==
    /\ wires \subseteq Crew \X Crew
    /\ Len(stack) <= MaxDepth + 1
    /\ \A i \in DOMAIN stack :
          /\ stack[i].agent \in Crew /\ stack[i].todo \subseteq Papers
          /\ stack[i].iter \in 0..MaxTools /\ stack[i].left \in 0..MaxAsked
    /\ shared.on <=> stack # <<>>
    /\ status \in [Crew -> {"idle", "working", "thinking"}]
    /\ Len(did) <= MaxNoted /\ touches \in 0..MaxTouches

\* What the blueprint shows is what is so: an agent is shown at work exactly
\* while it has a place in the tree (the deferred idle of delegate, RunUnattended
\* and HandleUserMessage), once, but for a conversation whose first prompt is not
\* built yet.  No agent waits for itself.
StatusTellsTheTruth ==
    /\ \A a \in Crew : status[a] # "idle" => a \in OnChain
    /\ \A i, j \in DOMAIN stack : stack[i].agent = stack[j].agent => i = j
    /\ \A i \in DOMAIN stack :
          \/ status[stack[i].agent] # "idle"
          \/ i = 1 /\ ~shared.unattended /\ stack[1].iter = 0
               /\ stack[1].pc \in {"guarding", "listing", "reading"}

\* The record reads as the tree that ran (ToolRun.Depth): whatever a delegated
\* agent did is followed, past the rest of what was done at its depth or deeper,
\* by the call that delegated to it, or that agent is still at work there.
RecordReadsAsATree ==
    \A i \in {k \in DOMAIN did : did[k].depth > 0} :
        LET d == did[i].depth
            Below(j) == \A k \in i..j : did[k].depth >= d
        IN \/ \E j \in i + 1..Len(did) :
                 Below(j - 1) /\ did[j].depth = d - 1 /\ did[j].name = "delegate"
           \/ /\ Below(Len(did))
              /\ Len(stack) > d /\ (Len(stack) = d + 1 => Top.agent = did[i].agent)

\* What the operator sees of a tree, as it runs and afterwards, is the tree (engine.go
\* setStatus, delegate; record.go).
TreeIsToldTruly == StatusTellsTheTruth /\ RecordReadsAsATree

\* "A run is one piece of work and it should see one context": no two agents of a
\* turn, and no two prompts of one, are given different versions of a document,
\* whatever is saved meanwhile (contextDoc).
OneContextPerRun ==
    \A x, y \in shown : x[1] = y[1] => x = y

\* No model is asked once the ceiling is crossed, by whichever agent: a turn
\* overruns it by less than one call (guardBudget, noteModelCall).
OverrunsByOneCall ==
    Ceiling > 0 => shared.spent < Ceiling + MaxCost \/ MaxCost = 0

\* Once third-party text is in the turn no tool that writes what others will read
\* runs again, in any agent of the tree, and a delivery reads no catalogue
\* (dispatchTool, taintedTools, unattendedClosedTools).
ClosedStaysClosed ==
    \A i \in DOMAIN did : did[i].ok /\ shared.on =>
        /\ did[i].name \in {"save_instruction", "wire_create"} /\ shared.tainted => i < shared.latchedAt
        /\ did[i].name = "list_gears" => ~shared.unattended

\* A limit holds for the whole tree and not for one agent of it (engine.go runAgent,
\* tools.go dispatchTool).
LimitsHoldForTheTree == OverrunsByOneCall /\ ClosedStaysClosed

\* The agents of a turn are one run: one context, one budget, one record, one picture of
\* who is at work (engine.go delegate, runAgent; record.go; contextcache.go).
TreeIsOneRun == TreeIsToldTruly /\ OneContextPerRun /\ LimitsHoldForTheTree

------------------------------------------------------------------------------
(* What the code says of itself and does not keep.                         *)

\* "which documents fed this run, at which versions" (record.go:42, Context): the
\* version on record is the version that was read, where one is named.
RecordNamesWhatWasRead ==
    \A p \in DOMAIN fed : fed[p] # Unknown => <<p, fed[p]>> \in shown

\* "A worker may close the step in front of it or say why it cannot"
\* (plantools.go:17): whoever has a step in front of it, and is offered the tool
\* to close it, is not refused for not being the orchestrator.
WorkerClosesItsStep ==
    \A i \in DOMAIN did : did[i].name = "plan_step_done" => did[i].ok
==============================================================================
