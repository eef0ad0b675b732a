----------------------------- MODULE PlanPosition -----------------------------
(***************************************************************************)
(* A planboard attached in one workspace and the position in it            *)
(* (planboard/planboard.go, planboard/position.go), moved by the           *)
(* workspace's turn through the plan tools (engine/plantools.go), by       *)
(* operators through the page (server/planboards_page.go) and by rolling   *)
(* the workflow back (workflow/snapshot.go).  Every statement is an action *)
(* of its own; Save is one transaction.                                    *)
(*                                                                         *)
(* A workspace has one turn at a time, so one walker.  An agent sees the   *)
(* plans attached to the workspace and to itself; only the orchestrator's  *)
(* plan tools are let through (tools.go, dispatchTool), so what is         *)
(* attached to a worker is begun anew by its runs and never closed.  The   *)
(* ids of attachments are handed out as SQLite does: one more than the     *)
(* greatest present.                                                       *)
(***************************************************************************)
EXTENDS Naturals, FiniteSets

CONSTANTS
    Places,        \* where the plan may be attached: the workspace, an agent;
                   \* "worker" stands for an agent that is not the orchestrator
    Movers,        \* operators' requests
    MaxSteps,      \* bound: steps of a plan
    MaxBindings,   \* bound: attachments at once
    MaxCycles,     \* bound: passes
    MaxMoves       \* bound: requests of operators, saves and deletions

ASSUME PlanConstants ==
    /\ MaxSteps \in Nat \ {0} /\ MaxBindings \in Nat \ {0}
    /\ MaxCycles \in Nat /\ MaxMoves \in Nat

VARIABLES
    plan,      \* the plan: how many steps it has, 0 when there is none, and its mode
    bound,     \* planboard_bindings: [ids present -> place]
    pos,       \* planboard_state: [ids with a position -> position]
    walker,    \* the turn's plan tool in progress
    mover,     \* [Movers -> the request in progress]
    noted,     \* the version taken last: [places attached -> position]
    strayed,   \* attachments whose position was not held against the plan as it is
    moves

planVars == <<plan, bound, pos, walker, mover, noted, strayed, moves>>

Bindings == 1..MaxBindings
NoPlan   == [steps |-> 0, mode |-> "resume"]
Start    == [step |-> 1, cycle |-> 0, blocked |-> FALSE]
\* alone: nobody else has written this position since it was shown;
\* counted: the steps have been counted and not changed since.
Resting  == [pc |-> "idle", op |-> "none", id |-> 0, shown |-> 0, step |-> 0, cycle |-> 0,
             count |-> 0, alone |-> TRUE, counted |-> TRUE]
\* back: the version that is rolled back to, as it was when the request began.
NoMove   == [pc |-> "idle", op |-> "none", id |-> 0, target |-> 0, cycle |-> 0, todo |-> {},
             counted |-> TRUE, back |-> [p \in {} |-> Start]]

PlanInit ==
    /\ plan \in [steps : 1..MaxSteps, mode : {"resume", "restart"}]
    /\ bound \in {[i \in {} |-> "none"]} \cup [{1} -> Places]
    /\ pos = [i \in {} |-> Start]
    /\ walker = Resting /\ mover = [m \in Movers |-> NoMove]
    /\ noted = [p \in {} |-> Start] /\ strayed = {} /\ moves = 0

IdAt(p)     == {i \in DOMAIN bound : bound[i] = p}
FreshId     == CHOOSE i \in 1..MaxBindings + 1 :
                  (\A j \in DOMAIN bound : j < i) /\ (i = 1 \/ i - 1 \in DOMAIN bound)
WithPos(i, p)  == [j \in DOMAIN pos \cup {i} |-> IF j = i THEN p ELSE pos[j]]
Minus(f, S)  == [j \in DOMAIN f \ S |-> f[j]]
\* state() on an attachment that is there: its position, made on first sight.
SeenAt(i) == IF i \in DOMAIN pos THEN pos[i] ELSE Start

\* Who else is looking at this position is not alone with it any more.
Disturb(S) == walker' = [walker EXCEPT !.alone = @ /\ walker.id \notin S]
\* The next attachment, or the one that is there already.
BindAt(p)  == IF IdAt(p) # {} THEN UNCHANGED bound
              ELSE /\ FreshId \in Bindings
                   /\ bound' = [j \in DOMAIN bound \cup {FreshId} |->
                                  IF j = FreshId THEN p ELSE bound[j]]
BoundId(p) == IF IdAt(p) # {} THEN CHOOSE i \in IdAt(p) : TRUE ELSE FreshId

------------------------------------------------------------------------------
(* The turn: what is in front of it, and the step closed or blocked.       *)

WalkerAt(pc) == walker.pc = pc
Walk(t)      == walker' = t
WalkOn(pc)   == Walk([walker EXCEPT !.pc = pc])
OnlyWalks    == UNCHANGED <<plan, bound, mover, noted, strayed, moves>>

\* Active: the attachments and the plan's steps, and then its position.
LookAtPlans ==
    /\ WalkerAt("idle")
    /\ \E i \in DOMAIN bound, op \in {"done", "blocked", "begin"} :
          /\ bound[i] = "worker" => op = "begin"
          /\ Walk([Resting EXCEPT !.pc = "sighting", !.op = op, !.id = i, !.count = plan.steps])
    /\ UNCHANGED pos /\ OnlyWalks

\* A position past the steps read leaves the plan out of what is in front.
SightPosition ==
    /\ WalkerAt("sighting")
    /\ IF walker.id \notin DOMAIN bound THEN Walk(Resting) /\ UNCHANGED pos
       ELSE /\ pos' = WithPos(walker.id, SeenAt(walker.id))
            /\ Walk(IF SeenAt(walker.id).step > walker.count THEN Resting
                    ELSE [walker EXCEPT !.pc = "acting", !.shown = SeenAt(walker.id).step])
    /\ OnlyWalks

\* Done's first statement.  A position that cannot be made, because the
\* attachment is gone, is an error.
ReadPosition ==
    /\ WalkerAt("acting") /\ walker.op \in {"done", "blocked"}
    /\ IF walker.id \notin DOMAIN bound THEN Walk(Resting) /\ UNCHANGED pos
       ELSE /\ pos' = WithPos(walker.id, SeenAt(walker.id))
            /\ Walk([walker EXCEPT !.pc = IF walker.op = "done" THEN "counting" ELSE "noting",
                       !.step = SeenAt(walker.id).step, !.cycle = SeenAt(walker.id).cycle])
    /\ OnlyWalks

\* The second.
CountSteps ==
    /\ WalkerAt("counting")
    /\ Walk(IF walker.id \notin DOMAIN bound THEN Resting
            ELSE [walker EXCEPT !.pc = "closing", !.count = plan.steps, !.counted = TRUE])
    /\ UNCHANGED pos /\ OnlyWalks

\* Mutant of Successor: the plan wraps one step late.
SuccessorLate(step, cycle, count) ==
    IF step > count THEN [step |-> 1, cycle |-> cycle + 1, blocked |-> FALSE]
    ELSE [step |-> step + 1, cycle |-> cycle, blocked |-> FALSE]

\* Past the last step the plan wraps.
Successor(step, cycle, count) ==
    IF step + 1 > count THEN [step |-> 1, cycle |-> cycle + 1, blocked |-> FALSE]
    ELSE [step |-> step + 1, cycle |-> cycle, blocked |-> FALSE]

Stray(i, counted) == strayed' = IF counted THEN strayed \ {i} ELSE strayed \cup {i}

\* Done's third: an UPDATE that finds no row changes nothing and is not noticed.
CloseStep ==
    /\ WalkerAt("closing")
    /\ walker.cycle < MaxCycles
    /\ IF walker.id \in DOMAIN pos
       THEN /\ pos' = WithPos(walker.id, Successor(walker.step, walker.cycle, walker.count))
            /\ Stray(walker.id, walker.counted)
       ELSE UNCHANGED <<pos, strayed>>
    /\ Walk(Resting)
    /\ UNCHANGED <<plan, bound, mover, noted, moves>>

\* Blocked: the reason is noted where the position is.
NoteBlock ==
    /\ WalkerAt("noting")
    /\ pos' = IF walker.id \in DOMAIN pos
              THEN WithPos(walker.id, [pos[walker.id] EXCEPT !.blocked = TRUE]) ELSE pos
    /\ Walk(Resting) /\ OnlyWalks

\* BeginRun: the mode, the position, and a restart.
ReadMode ==
    /\ WalkerAt("acting") /\ walker.op = "begin"
    /\ Walk(IF walker.id \in DOMAIN bound /\ plan.mode = "restart"
            THEN [walker EXCEPT !.pc = "restarting"] ELSE Resting)
    /\ UNCHANGED pos /\ OnlyWalks

RestartPlan ==
    /\ WalkerAt("restarting")
    /\ pos' = IF walker.id \in DOMAIN bound
              THEN WithPos(walker.id, [SeenAt(walker.id) EXCEPT !.step = 1, !.blocked = FALSE])
              ELSE pos
    /\ strayed' = strayed \ {walker.id}
    /\ Walk(Resting)
    /\ UNCHANGED <<plan, bound, mover, noted, moves>>

WalkerStep ==
    \/ LookAtPlans \/ SightPosition \/ ReadPosition \/ CountSteps \/ CloseStep
    \/ NoteBlock \/ ReadMode \/ RestartPlan

------------------------------------------------------------------------------
(* Operators.                                                              *)

MoverAt(m, pc)  == mover[m].pc = pc
SetMover(m, r)  == mover' = [mover EXCEPT ![m] = r]
NewMove         == moves < MaxMoves /\ moves' = moves + 1

\* AttachPlan, and the move, which attaches first.
AttachPlan(m) ==
    /\ MoverAt(m, "idle") /\ NewMove /\ plan.steps > 0
    /\ \E p \in Places, op \in {"attach", "seek", "reset"}, n \in 1..MaxSteps :
          /\ BindAt(p)
          /\ op # "seek" => n = 1
          /\ SetMover(m, IF op = "attach" THEN NoMove
                         ELSE [NoMove EXCEPT !.pc = IF op = "seek" THEN "counting" ELSE "placing",
                                             !.op = op, !.id = BoundId(p), !.target = n])
    /\ UNCHANGED <<plan, pos, walker, noted, strayed>>

\* Seek counts before it moves, and refuses a step the plan does not have.
CountForSeek(m) ==
    /\ MoverAt(m, "counting")
    /\ LET count == IF mover[m].id \in DOMAIN bound THEN plan.steps ELSE 0
       IN SetMover(m, IF mover[m].target > count THEN NoMove
                      ELSE [mover[m] EXCEPT !.pc = "placing", !.counted = TRUE])
    /\ UNCHANGED <<plan, bound, pos, walker, noted, strayed, moves>>

\* Seek, Reset and SetState: the position is made if it has to be, and then moved.
MakePosition(m) ==
    /\ MoverAt(m, "placing")
    /\ IF mover[m].id \in DOMAIN bound
       THEN pos' = WithPos(mover[m].id, SeenAt(mover[m].id)) /\ SetMover(m, [mover[m] EXCEPT !.pc = "moving"])
       ELSE SetMover(m, IF mover[m].op = "rollback" THEN [mover[m] EXCEPT !.pc = "reattaching"]
                        ELSE NoMove) /\ UNCHANGED pos
    /\ UNCHANGED <<plan, bound, walker, noted, strayed, moves>>

MovePosition(m) ==
    /\ MoverAt(m, "moving")
    /\ LET i == mover[m].id
       IN IF i \in DOMAIN pos
          THEN /\ pos' = WithPos(i, IF mover[m].op = "rollback"
                                    THEN [pos[i] EXCEPT !.step = mover[m].target, !.cycle = mover[m].cycle]
                                    ELSE [pos[i] EXCEPT !.step = mover[m].target, !.blocked = FALSE])
               /\ Stray(i, mover[m].counted) /\ Disturb({i})
          ELSE UNCHANGED <<pos, strayed, walker>>
    /\ SetMover(m, IF mover[m].op = "rollback" THEN [mover[m] EXCEPT !.pc = "reattaching"] ELSE NoMove)
    /\ UNCHANGED <<plan, bound, noted, moves>>

\* Unbind looks the attachment up and then deletes it by its id, and the
\* position goes with it.
FindAttachment(m) ==
    /\ MoverAt(m, "idle") /\ NewMove
    /\ \E i \in DOMAIN bound :
          SetMover(m, [NoMove EXCEPT !.pc = "detaching", !.op = "detach", !.id = i])
    /\ UNCHANGED <<plan, bound, pos, walker, noted, strayed>>

\* Mutant of Drop: the positions stay.
DropKeeping(S) ==
    /\ bound' = Minus(bound, S) /\ pos' = pos
    /\ strayed' = strayed \ S /\ Disturb(S)

\* Rows of planboard_bindings are deleted, and by cascade their positions.
Drop(S) ==
    /\ bound' = Minus(bound, S) /\ pos' = Minus(pos, S)
    /\ strayed' = strayed \ S /\ Disturb(S)

Detach(m) ==
    /\ MoverAt(m, "detaching")
    /\ Drop({mover[m].id})
    /\ SetMover(m, IF mover[m].op = "rollback"
                   THEN [mover[m] EXCEPT !.pc = "clearing"] ELSE NoMove)
    /\ UNCHANGED <<plan, noted, moves>>

\* Take, as far as plans go: where each has got to.
NotePositions(m) ==
    /\ MoverAt(m, "idle") /\ NewMove
    /\ pos' = [i \in DOMAIN bound |-> SeenAt(i)]
    /\ noted' = [p \in {bound[i] : i \in DOMAIN bound} |-> SeenAt(BoundId(p))]
    /\ UNCHANGED <<plan, bound, walker, mover, strayed>>

\* Restore: everything is detached,
RollBack(m) ==
    /\ MoverAt(m, "idle") /\ NewMove
    /\ SetMover(m, [NoMove EXCEPT !.pc = "clearing", !.op = "rollback", !.back = noted,
                                  !.todo = {bound[i] : i \in DOMAIN bound}])
    /\ UNCHANGED <<plan, bound, pos, walker, noted, strayed>>

\* one attachment after the other; one that is gone already is an error.
ClearNext(m) ==
    /\ MoverAt(m, "clearing")
    /\ IF mover[m].todo = {}
       THEN SetMover(m, [mover[m] EXCEPT !.pc = "reattaching", !.todo = DOMAIN mover[m].back])
       ELSE \E p \in mover[m].todo :
               SetMover(m, IF IdAt(p) = {} THEN NoMove
                           ELSE [mover[m] EXCEPT !.pc = "detaching", !.todo = @ \ {p},
                                                !.id = BoundId(p)])
    /\ UNCHANGED <<plan, bound, pos, walker, noted, strayed, moves>>

\* What the version had is attached again, and its position put back unheld
\* against the plan; a plan that was deleted is reported missing.
Reattach(m) ==
    /\ MoverAt(m, "reattaching")
    /\ IF mover[m].todo = {} \/ plan.steps = 0
       THEN SetMover(m, NoMove) /\ UNCHANGED bound
       ELSE \E p \in mover[m].todo :
               /\ BindAt(p)
               /\ SetMover(m, [mover[m] EXCEPT !.pc = "placing", !.todo = @ \ {p}, !.id = BoundId(p),
                                  !.target = mover[m].back[p].step, !.cycle = mover[m].back[p].cycle,
                                  !.counted = FALSE])
    /\ UNCHANGED <<plan, pos, walker, noted, strayed, moves>>

\* Save pulls positions past the end back to the last step.
Clamped(k) == [i \in DOMAIN pos |-> [pos[i] EXCEPT !.step = IF @ > k THEN k ELSE @]]

\* Save, by an operator or by the orchestrator: one transaction.
SavePlan ==
    /\ NewMove
    /\ \E k \in 1..MaxSteps, mode \in {"resume", "restart"} :
          /\ plan' = [steps |-> k, mode |-> mode]
          /\ pos' = Clamped(k)
          /\ walker' = [walker EXCEPT !.counted = FALSE,
                          !.alone = @ /\ (walker.id \in DOMAIN pos => pos[walker.id].step <= k)
                                      /\ k = plan.steps]
    /\ mover' = [m \in Movers |-> [mover[m] EXCEPT !.counted = FALSE]]
    /\ strayed' = {}
    /\ UNCHANGED <<bound, noted>>

DeletePlan ==
    /\ NewMove /\ plan.steps > 0
    /\ plan' = NoPlan
    /\ Drop(DOMAIN bound)
    /\ UNCHANGED <<mover, noted>>

MoverStep(m) ==
    \/ AttachPlan(m) \/ CountForSeek(m) \/ MakePosition(m) \/ MovePosition(m)
    \/ FindAttachment(m) \/ Detach(m)
    \/ NotePositions(m) \/ RollBack(m) \/ ClearNext(m) \/ Reattach(m)

PlanNext == WalkerStep \/ (\E m \in Movers : MoverStep(m)) \/ SavePlan \/ DeletePlan
PlanSpec == PlanInit /\ [][PlanNext]_planVars

------------------------------------------------------------------------------
(* Properties.                                                             *)

PlanTypeOK ==
    /\ plan \in [steps : 0..MaxSteps, mode : {"resume", "restart"}]
    /\ DOMAIN bound \subseteq Bindings /\ \A i \in DOMAIN bound : bound[i] \in Places
    /\ \A i \in DOMAIN pos : pos[i] \in [step : 1..MaxSteps, cycle : 0..MaxCycles, blocked : BOOLEAN]
    /\ DOMAIN noted \subseteq Places
    /\ walker.id \in 0..MaxBindings /\ strayed \subseteq Bindings

\* A place has one attachment, and a position belongs to an attachment that is
\* there: what attaches next starts at step one although its id may be one that
\* was used before (planboard_bindings, Unbind).
PositionHasItsPlan ==
    /\ \A i, j \in DOMAIN bound : bound[i] = bound[j] => i = j
    /\ DOMAIN pos \subseteq DOMAIN bound
    /\ DOMAIN bound # {} => plan.steps > 0

\* A position points at a step the plan has, unless it was put back by a rollback or
\* by a request that counted the steps before the plan was last saved and wrote it
\* after (Save's clamp, Done, Seek, SetState).
PositionPointsAtAStep ==
    \A i \in DOMAIN pos : pos[i].step > plan.steps => i \in strayed

\* Positions, attachments and the plan agree (planboard/store.go, position.go).
PositionFits == PositionHasItsPlan /\ PositionPointsAtAStep

\* A step that is closed is the step that was shown: nothing else moves a turn's
\* position while nobody meddles with the plan, so no step is skipped and a pass
\* is counted when its last step closes (Done, plan_step_done).
ClosesWhatWasShown ==
    WalkerAt("closing") /\ CloseStep /\ walker.alone /\ walker.id \in DOMAIN pos =>
        IF walker.shown = plan.steps
        THEN pos'[walker.id].step = 1 /\ pos'[walker.id].cycle = pos[walker.id].cycle + 1
        ELSE pos'[walker.id].step = walker.shown + 1 /\ pos'[walker.id].cycle = pos[walker.id].cycle

\* A plan is followed: no turn skips a step or closes another than it was shown, and what
\* the rows say of plans, attachments and positions agrees (planboard/store.go, position.go).
PlanIsFollowed == [][PositionFits' /\ ClosesWhatWasShown]_planVars

------------------------------------------------------------------------------
(* What the code says of itself and does not keep.                         *)

\* "Saving clamps positions, so this is a plan with no steps at all, which Save
\* refuses to create" (position.go:169): an attached plan has a step at its
\* position.
AttachedPlanHasItsStep ==
    \A i \in DOMAIN pos : pos[i].step <= plan.steps
==============================================================================
