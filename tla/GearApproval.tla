----------------------------- MODULE GearApproval -----------------------------
(***************************************************************************)
(* One gear: forged by agents, decided upon by administrators, run by      *)
(* agents and operators, and deleted (gear/gear.go, gear/approvals.go,     *)
(* gear/executor.go, server/gear_handlers.go, runGear of engine/tools.go). *)
(* Every statement is an action of its own; Forge is one transaction.      *)
(*                                                                         *)
(* What a version consists of, its files and the names it asks for, is a   *)
(* number no other version has.  The grant is the network; the timeout and *)
(* the environment are written the same way.  Every agent may call the     *)
(* gear: the bindings are WorkflowVersions' business.                      *)
(***************************************************************************)
EXTENDS Naturals, Sequences, FiniteSets

CONSTANTS
    Admins,        \* administrators' requests
    Runners,       \* calls under way at once
    MaxForgings,   \* bound: versions ever forged
    MaxRulings,    \* bound: decisions and deletions
    MaxCalls,      \* bound: calls
    MaxSlips       \* bound: failed statements and callers that go away

ASSUME GearConstants ==
    MaxForgings \in Nat /\ MaxRulings \in Nat /\ MaxCalls \in Nat /\ MaxSlips \in Nat

VARIABLES
    gear,      \* its row and its files, and its last id when there is none
    forged,    \* versions forged
    trail,     \* gear_approvals: the version a row names, and the one decided on
    ledger,    \* gear_runs: the calls recorded
    admin,     \* [Admins -> the request in progress]
    runner,    \* [Runners -> the call in progress]
    approvals, \* versions that were the gear's when its status became approved
    ran,       \* calls whose process has ended
    lost,      \* versions and calls whose row could not be written
    rulings, calls, slips

books    == <<trail, ledger, approvals, ran, lost>>
gearVars == <<gear, forged, books, admin, runner, rulings, calls, slips>>

NoGear   == [there |-> FALSE, id |-> 0, files |-> <<>>, status |-> "pending", net |-> FALSE, netFor |-> 0]
\* alone: nobody else has written the gear's row since the request began.
NoRuling == [pc |-> "idle", id |-> 0, status |-> "none", net |-> "as is", decided |-> 0,
             named |-> 0, alone |-> TRUE]
\* gone: the row that was read has been deleted since.
NoCall   == [pc |-> "idle", n |-> 0, id |-> 0, version |-> 0, net |-> FALSE, netFor |-> 0,
             dry |-> FALSE, values |-> FALSE, ticket |-> FALSE, content |-> 0, dir |-> FALSE,
             left |-> FALSE, gone |-> FALSE]
Content  == gear.files[Len(gear.files)]
Is(id)   == gear.there /\ gear.id = id

GearInit ==
    /\ gear = NoGear /\ forged = 0
    /\ trail = {} /\ ledger = {} /\ approvals = {} /\ ran = {} /\ lost = {}
    /\ admin = [a \in Admins |-> NoRuling] /\ runner = [r \in Runners |-> NoCall]
    /\ rulings = 0 /\ calls = 0 /\ slips = 0

Slip       == slips < MaxSlips /\ slips' = slips + 1
Crossed(a) == [b \in Admins |-> [admin[b] EXCEPT !.alone = @ /\ b = a]]

------------------------------------------------------------------------------
(* Forging.                                                                *)

\* A gear by a new name, or by that of one that was deleted: its id may be one that
\* was used before, when nothing with a greater one is left.
FirstVersion(c) ==
    \E id \in 1..gear.id + 1 :
       gear' = [NoGear EXCEPT !.there = TRUE, !.id = id, !.files = <<c>>]

\* The gear there is goes back to pending, without its grants.
NextVersion(c) ==
    gear' = [gear EXCEPT !.files = Append(@, c), !.status = "pending", !.net = FALSE, !.netFor = 0]

Forge ==
    /\ forged < MaxForgings /\ forged' = forged + 1
    /\ IF gear.there THEN NextVersion(forged + 1) ELSE FirstVersion(forged + 1)
    /\ admin' = [b \in Admins |-> [admin[b] EXCEPT !.alone = FALSE]]
    /\ UNCHANGED <<books, runner, rulings, calls, slips>>

------------------------------------------------------------------------------
(* Deciding.                                                               *)

AdminAt(a, pc) == admin[a].pc = pc
\* The request goes on, or has no row to write.
Rules(a, r)    == admin' = [Crossed(a) EXCEPT ![a] = r]
StopRuling(a)  == admin' = [admin EXCEPT ![a] = NoRuling]

\* Mutant of BeginRuling: a status does away with what came with it.
BeginRulingStatus(a) ==
    /\ AdminAt(a, "idle") /\ rulings < MaxRulings /\ gear.there
    /\ \E status \in {"approved", "disabled", "none"}, net \in {"grant", "deny", "as is"} :
          /\ status # "none" \/ net # "as is"
          /\ admin' = [admin EXCEPT ![a] = [NoRuling EXCEPT
                          !.pc = IF status # "none" THEN "ruling" ELSE "granting",
                          !.id = gear.id, !.status = status, !.net = net]]
    /\ rulings' = rulings + 1
    /\ UNCHANGED <<gear, forged, books, runner, calls, slips>>

\* handleSetGearStatus: what the gear may do is written first, its status last.
BeginRuling(a) ==
    /\ AdminAt(a, "idle") /\ rulings < MaxRulings /\ gear.there
    /\ \E status \in {"approved", "disabled", "none"}, net \in {"grant", "deny", "as is"} :
          /\ status # "none" \/ net # "as is"
          /\ admin' = [admin EXCEPT ![a] = [NoRuling EXCEPT
                          !.pc = IF net = "as is" THEN "ruling" ELSE "granting",
                          !.id = gear.id, !.status = status, !.net = net]]
    /\ rulings' = rulings + 1
    /\ UNCHANGED <<gear, forged, books, runner, calls, slips>>

Granted(net) == [gear EXCEPT !.net = (net = "grant"),
                             !.netFor = IF net = "grant" THEN Content ELSE 0]
SetNetwork(a) ==
    /\ AdminAt(a, "granting")
    /\ IF Is(admin[a].id)
       THEN /\ gear' = Granted(admin[a].net)
            /\ Rules(a, IF admin[a].status = "none" THEN NoRuling ELSE [admin[a] EXCEPT !.pc = "ruling"])
       ELSE StopRuling(a) /\ UNCHANGED gear
    /\ UNCHANGED <<forged, books, runner, rulings, calls, slips>>

\* Mutant of SetStatus: nothing is written on the trail.
SetStatusUntold(a) ==
    /\ AdminAt(a, "ruling")
    /\ IF Is(admin[a].id)
       THEN /\ gear' = [gear EXCEPT !.status = admin[a].status]
            /\ approvals' = IF admin[a].status = "approved" THEN approvals \cup {Content} ELSE approvals
            /\ Rules(a, NoRuling)
       ELSE StopRuling(a) /\ UNCHANGED <<gear, approvals>>
    /\ UNCHANGED <<forged, trail, ledger, ran, lost, runner, rulings, calls, slips>>

\* SetStatus: the status,
SetStatus(a) ==
    /\ AdminAt(a, "ruling")
    /\ IF Is(admin[a].id)
       THEN /\ gear' = [gear EXCEPT !.status = admin[a].status]
            /\ approvals' = IF admin[a].status = "approved" THEN approvals \cup {Content} ELSE approvals
            /\ Rules(a, [admin[a] EXCEPT !.pc = "naming", !.decided = Content])
       ELSE StopRuling(a) /\ UNCHANGED <<gear, approvals>>
    /\ UNCHANGED <<forged, trail, ledger, ran, lost, runner, rulings, calls, slips>>

\* recordApproval reads the gear back,
NameDecision(a) ==
    /\ AdminAt(a, "naming")
    /\ \/ /\ Is(admin[a].id) /\ UNCHANGED <<lost, slips>>
          /\ admin' = [admin EXCEPT ![a].pc = "telling", ![a].named = Content]
       \/ /\ IF Is(admin[a].id) THEN Slip ELSE UNCHANGED slips
          /\ StopRuling(a) /\ lost' = lost \cup {<<"version", admin[a].decided>>}
    /\ UNCHANGED <<gear, forged, trail, ledger, approvals, ran, runner, rulings, calls>>

\* and writes what it read; the row of a gear that is gone violates its key.  A
\* failure is logged and nothing more.
TellTrail(a) ==
    /\ AdminAt(a, "telling")
    /\ \/ /\ Is(admin[a].id) /\ UNCHANGED <<lost, slips>>
          /\ trail' = trail \cup {[status |-> admin[a].status, decided |-> admin[a].decided,
                                   named |-> admin[a].named]}
       \/ /\ IF Is(admin[a].id) THEN Slip ELSE UNCHANGED slips
          /\ lost' = lost \cup {<<"version", admin[a].decided>>} /\ UNCHANGED trail
    /\ StopRuling(a)
    /\ UNCHANGED <<gear, forged, ledger, approvals, ran, runner, rulings, calls>>

\* handleDeleteGear: the row, and with it its files,
DeleteGearRow(a) ==
    /\ AdminAt(a, "idle") /\ rulings < MaxRulings /\ gear.there
    /\ gear' = [NoGear EXCEPT !.id = gear.id]
    /\ admin' = [Crossed(a) EXCEPT ![a] = [NoRuling EXCEPT !.pc = "sweeping"]]
    /\ runner' = [r \in Runners |-> [runner[r] EXCEPT !.gone = @ \/ runner[r].pc # "idle"]]
    /\ rulings' = rulings + 1
    /\ UNCHANGED <<forged, books, calls, slips>>

\* and then every directory under its name, whoever is in it by now.
RemoveFiles(a) ==
    /\ AdminAt(a, "sweeping")
    /\ runner' = [r \in Runners |-> [runner[r] EXCEPT !.dir = FALSE]]
    /\ StopRuling(a)
    /\ UNCHANGED <<gear, forged, books, rulings, calls, slips>>

------------------------------------------------------------------------------
(* Running.                                                                *)

RunnerAt(r, pc) == runner[r].pc = pc
Runs(r, c)      == runner' = [runner EXCEPT ![r] = c]
OnlyRuns        == UNCHANGED <<gear, forged, books, admin, rulings>>

\* The gear as it is read: by an agent's call or an operator's, which run approved
\* gears only, or for a dry run, which may be lent the network.
CallGear(r) ==
    /\ RunnerAt(r, "idle") /\ calls < MaxCalls /\ gear.there
    /\ \E dry, lent \in BOOLEAN :
          /\ dry \/ (gear.status = "approved" /\ ~lent)
          /\ Runs(r, [NoCall EXCEPT !.pc = "opening", !.n = calls + 1, !.id = gear.id,
                        !.version = Len(gear.files), !.dry = dry,
                        !.net = gear.net \/ lent, !.netFor = gear.netFor])
    /\ calls' = calls + 1 /\ UNCHANGED slips /\ OnlyRuns

\* openNetwork, before the environment: secrets become stand-ins on the ticket.
OpenNetwork(r) ==
    /\ RunnerAt(r, "opening")
    /\ Runs(r, [runner[r] EXCEPT !.pc = "resolving", !.ticket = runner[r].net])
    /\ UNCHANGED <<calls, slips>> /\ OnlyRuns

\* resolveEnv: a dry run is given no values.
ResolveEnv(r) ==
    /\ RunnerAt(r, "resolving")
    /\ Runs(r, [runner[r] EXCEPT !.pc = "preparing", !.values = ~runner[r].dry])
    /\ UNCHANGED <<calls, slips>> /\ OnlyRuns

\* materialize rebuilds the version that was read from what is stored now.
Materialize(r) ==
    /\ RunnerAt(r, "preparing")
    /\ LET v == runner[r].version
       IN Runs(r, [runner[r] EXCEPT !.pc = "running", !.dir = TRUE,
                     !.content = IF Is(runner[r].id) /\ v <= Len(gear.files) THEN gear.files[v] ELSE 0])
    /\ UNCHANGED <<calls, slips>> /\ OnlyRuns

\* One of them fails, or its caller has gone away: the call ends and nothing has run.
FailToStart(r) ==
    /\ runner[r].pc \in {"opening", "resolving", "preparing"}
    /\ Runs(r, NoCall) /\ Slip
    /\ UNCHANGED calls /\ OnlyRuns

\* The process ends, by itself or because its caller went away.
EndProcess(r) ==
    /\ RunnerAt(r, "running")
    /\ \/ Runs(r, [runner[r] EXCEPT !.pc = "recording"]) /\ UNCHANGED slips
       \/ Runs(r, [runner[r] EXCEPT !.pc = "recording", !.left = TRUE]) /\ Slip
    /\ ran' = ran \cup {runner[r].n}
    /\ UNCHANGED <<gear, forged, trail, ledger, approvals, lost, admin, rulings, calls>>

\* RecordRun, whether or not there still is a caller.  The row refers to the gear by
\* its id, and violates its key if there is none.
RecordRun(r) ==
    /\ RunnerAt(r, "recording")
    /\ \/ /\ Is(runner[r].id) /\ ledger' = ledger \cup {runner[r].n}
          /\ UNCHANGED <<lost, slips>>
       \/ /\ IF Is(runner[r].id) THEN Slip ELSE UNCHANGED slips
          /\ lost' = lost \cup {<<"call", runner[r].n>>} /\ UNCHANGED ledger
    /\ Runs(r, [runner[r] EXCEPT !.pc = "leaving"])
    /\ UNCHANGED <<gear, forged, trail, approvals, ran, admin, rulings, calls>>

\* The deferred cleanup and the ticket's Close.
LeaveRun(r) ==
    /\ RunnerAt(r, "leaving")
    /\ Runs(r, NoCall)
    /\ UNCHANGED <<calls, slips>> /\ OnlyRuns

GearNext ==
    \/ Forge
    \/ \E a \in Admins : \/ BeginRuling(a) \/ SetNetwork(a) \/ SetStatus(a) \/ NameDecision(a)
                         \/ TellTrail(a) \/ DeleteGearRow(a) \/ RemoveFiles(a)
    \/ \E r \in Runners : \/ CallGear(r) \/ OpenNetwork(r) \/ ResolveEnv(r) \/ Materialize(r)
                          \/ FailToStart(r) \/ EndProcess(r) \/ RecordRun(r) \/ LeaveRun(r)
GearSpec == GearInit /\ [][GearNext]_gearVars

------------------------------------------------------------------------------
(* Properties.                                                             *)

GearTypeOK ==
    /\ gear.id \in 0..MaxForgings /\ gear.status \in {"pending", "approved", "disabled"}
    /\ \A k \in DOMAIN gear.files : gear.files[k] \in 1..forged
    /\ gear.there = (gear.files # <<>>) /\ gear.net = (gear.netFor # 0)
    /\ approvals \subseteq 1..forged /\ ledger \subseteq ran /\ ran \subseteq 1..calls

\* What runs, outside a dry run, and whatever is given the values of the names it
\* asked for, is a version an administrator approved; and what the gear was granted
\* reaches only the version it was granted to.  Unless the gear was deleted while
\* the call got ready, when another may have taken its place under the same id
\* (executor.go run: what it checks it has read before; Forge).
RunsWhatWasApproved ==
    \A r \in Runners :
       runner[r].pc \in {"running", "recording", "leaving"} /\ ~runner[r].gone =>
          /\ runner[r].values \/ ~runner[r].dry => runner[r].content \in approvals
          /\ runner[r].ticket /\ ~runner[r].dry => runner[r].netFor = runner[r].content

\* A gear that may be run has its approval on the trail or being written there,
\* unless the row could not be written (SetStatus, recordApproval).
ApprovalIsTold ==
    gear.there /\ gear.status = "approved" =>
       \/ \E t \in trail : t.decided = Content /\ t.status = "approved"
       \/ \E a \in Admins : admin[a].pc \in {"naming", "telling"} /\ admin[a].decided = Content
       \/ <<"version", Content>> \in lost

\* A gear is approved with what was granted in the same request, if nobody else
\* wrote to it meanwhile (handleSetGearStatus's order).
ApprovedWithItsGrant ==
    [][\A a \in Admins : SetStatus(a) /\ admin[a].alone /\ admin[a].net # "as is" =>
         gear'.net = (admin[a].net = "grant")]_gearVars

\* What was decided is what runs, with what was granted and no more (gear.go Forge,
\* executor.go run, gear_handlers.go handleSetGearStatus).
RunsAsDecided == []RunsWhatWasApproved /\ ApprovedWithItsGrant

\* A call whose process ended is recorded, whoever had gone away, unless there was no
\* gear any more to record it of or the statement failed (executor.go run).
RunIsRecorded ==
    \A n \in ran : \/ n \in ledger \/ <<"call", n>> \in lost
                   \/ \E r \in Runners : RunnerAt(r, "recording") /\ runner[r].n = n

\* The operator's trail tells what was decided and what was run (approvals.go, gear.go
\* RecordRun).
TrailIsWhole == ApprovalIsTold /\ RunIsRecorded

\* What runs was decided by an administrator, and the trail tells both (gear.go,
\* approvals.go, executor.go).
GearsAreDecided == []TrailIsWhole /\ RunsAsDecided

------------------------------------------------------------------------------
(* What the code says of itself and does not keep.                         *)

\* "An execution that happened must appear in the operator's audit trail"
\* (executor.go), when no statement fails.
EveryRunIsRecorded ==
    slips = 0 => \A n \in ran :
       n \in ledger \/ \E r \in Runners : RunnerAt(r, "recording") /\ runner[r].n = n

\* "the row states what was true at the moment of the change -- the version that was
\* live" (approvals.go recordApproval).
TrailNamesWhatWasDecided == \A t \in trail : t.named = t.decided
==============================================================================
