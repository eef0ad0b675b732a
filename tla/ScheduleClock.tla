----------------------------- MODULE ScheduleClock -----------------------------
(***************************************************************************)
(* The clock that fires schedules: the rows (schedule/store.go) and the    *)
(* one goroutine that reads the due ones, decides, advances each by a      *)
(* compare-and-set and queues its job (server/schedule_tick.go), beside    *)
(* operators who create, pause, edit and delete the same rows.             *)
(*                                                                         *)
(* Instants are small naturals.  The work queue is reduced to what the     *)
(* clock sees of it: which unit a firing became and whether it is live.    *)
(***************************************************************************)
EXTENDS Naturals, Sequences, FiniteSets

CONSTANTS
    Schedules,   \* ids of schedules, naturals
    Operators,   \* operators' requests: an edit or a run-now each
    Kinds,       \* the kinds of spec in use, of "every", "grid" and "last"
    Period,      \* the interval of a spec
    Batch,       \* dueBatch
    LastInstant,    \* bound: the last instant of the clock
    MaxClockFaults  \* bound: failed statements and crashes

ASSUME ClockConstants ==
    /\ Schedules \subseteq Nat \ {0}
    /\ Kinds \subseteq {"every", "grid", "last"}
    /\ "tick" \notin Operators
    /\ Period \in Nat \ {0} /\ Batch \in Nat \ {0}
    /\ LastInstant \in Nat \ {0} /\ MaxClockFaults \in Nat

VARIABLES
    now,        \* the wall clock
    sched,      \* the schedules table
    unit,       \* units of the queue that firings became
    run,        \* ledger rows of firings, in the order they were accepted
    ticker,     \* the tick in progress
    job,        \* [Queuers -> the job being queued, by the tick or by hand]
    operator,   \* [Operators -> the request in progress]
    edits,      \* how often an operator has written each row
    fired,      \* the last firing won for each schedule
    unnoted,    \* schedules whose row does not name their clock's last unit
    stray,      \* ledger rows a crash, a hang-up or a failed settling left without a unit
    faults

clockVars == <<now, sched, unit, run, ticker, job, operator, edits, fired, unnoted, stray, faults>>

Never  == 0
OnMiss == {"skip", "run"}

\* Spec.Next: an interval counts from the moment given, a calendar spec names
\* instants of its own, and some calendar specs do not come round again.
NextAfter(kind, t) ==
    CASE kind = "every" -> t + Period
      [] kind = "grid"  -> (t \div Period + 1) * Period
      [] kind = "last"  -> IF t < Period THEN Period ELSE Never

Queuers    == {"tick"} \cup Operators
NoSnapshot == [id |-> 0]
NoTick     == [pc |-> "idle", due |-> {}, sc |-> NoSnapshot, next |-> Never, at |-> 0]
NoJob      == [pc |-> "none", sc |-> NoSnapshot, run |-> 0, unit |-> 0]
NotFired   == [instant |-> 0, at |-> 0, edit |-> 0]
NoRequest  == [pc |-> "new"]

Snapshot(s) == [id |-> s, row |-> sched[s], edit |-> edits[s]]
Due(s) == s \in DOMAIN sched /\ sched[s].enabled /\ sched[s].next <= now
Earlier(a, b) == \/ a.row.next < b.row.next
                 \/ a.row.next = b.row.next /\ a.id <= b.id

ClockInit ==
    /\ now = 1
    /\ sched = [s \in {} |-> {}] /\ unit = [i \in {} |-> {}] /\ run = <<>>
    /\ ticker = NoTick
    /\ job = [p \in Queuers |-> NoJob]
    /\ operator = [o \in Operators |-> NoRequest]
    /\ edits = [s \in Schedules |-> 0]
    /\ fired = [s \in Schedules |-> NotFired] /\ unnoted = {} /\ stray = {} /\ faults = 0

------------------------------------------------------------------------------
(* The tick.                                                               *)

At(pc) == ticker.pc = pc
Goes(pc) == ticker' = [ticker EXCEPT !.pc = pc]
\* On to the next of the due schedules, or the next tick.
Then(due) == [NoTick EXCEPT !.pc = IF due = {} THEN "idle" ELSE "firing", !.due = due]
AfterRest == Then(ticker.due)
Rest == ticker' = AfterRest
Here == ticker.sc.id \in DOMAIN sched
Starts(p, sc) == job' = [job EXCEPT ![p] = [NoJob EXCEPT !.pc = "target", !.sc = sc]]
Set(s, row) == sched' = [sched EXCEPT ![s] = row]
Fault == faults < MaxClockFaults /\ faults' = faults + 1

\* One query: the earliest of the due rows, as they are now.
Scan ==
    /\ At("idle")
    /\ \E D \in SUBSET {Snapshot(s) : s \in {s \in Schedules : Due(s)}} :
          /\ D # {} /\ Cardinality(D) <= Batch
          /\ \A s \in Schedules : Due(s) /\ Snapshot(s) \notin D =>
                Cardinality(D) = Batch /\ \A d \in D : Earlier(d, Snapshot(s))
          /\ ticker' = [NoTick EXCEPT !.pc = "firing", !.due = D]
    /\ UNCHANGED <<now, sched, unit, run, job, operator, edits, fired, unnoted, stray, faults>>

\* Mutant of Decide: the next instant follows the one missed, not the present.
DecideFromInstant ==
    /\ At("firing")
    /\ \E sc \in ticker.due :
          /\ \A d \in ticker.due : Earlier(sc, d)
          /\ ticker' = [ticker EXCEPT !.due = @ \ {sc}, !.sc = sc, !.at = now,
                          !.next = NextAfter(sc.row.kind, sc.row.next),
                          !.pc = IF NextAfter(sc.row.kind, sc.row.next) = Never
                                 THEN "off" ELSE "fire"]
    /\ UNCHANGED <<now, sched, unit, run, job, operator, edits, fired, unnoted, stray, faults>>

Unfinished(i) == i \in DOMAIN unit /\ unit[i].live

\* fire, up to its first write: when it is next due, counted from now, and
\* whether the previous firing is still waiting or running.
Decide ==
    /\ At("firing")
    /\ \E sc \in ticker.due :
          /\ \A d \in ticker.due : Earlier(sc, d)
          /\ LET next == NextAfter(sc.row.kind, now)
             IN ticker' = [ticker EXCEPT !.due = @ \ {sc}, !.sc = sc, !.next = next, !.at = now,
                  !.pc = CASE next = Never -> "off"
                           [] next # Never /\ sc.row.onMiss = "skip" /\ Unfinished(sc.row.last) -> "skip"
                           [] OTHER -> "fire"]
    /\ UNCHANGED <<now, sched, unit, run, job, operator, edits, fired, unnoted, stray, faults>>

\* Its queue or its row could not be read: the firing is left for the next tick.
DecideFails ==
    /\ At("firing")
    /\ \E sc \in ticker.due :
          /\ \A d \in ticker.due : Earlier(sc, d)
          /\ sc.row.onMiss = "skip" /\ sc.row.last # 0
          /\ ticker' = Then(ticker.due \ {sc})
    /\ Fault
    /\ UNCHANGED <<now, sched, unit, run, job, operator, edits, fired, unnoted, stray>>

\* Advance: a compare-and-set on the instant the decision was about.
Wins(instant) == Here /\ sched[ticker.sc.id].next = instant
Advance(last) ==
    Set(ticker.sc.id, [sched[ticker.sc.id] EXCEPT !.next = ticker.next, !.last = last])

\* Mutant of Skip: a skipped firing is left where it was.
SkipInPlace ==
    /\ At("skip")
    /\ Rest
    /\ UNCHANGED <<now, sched, unit, run, job, operator, edits, fired, unnoted, stray, faults>>

Skip ==
    /\ At("skip")
    /\ IF Wins(ticker.sc.row.next) THEN Advance(ticker.sc.row.last) ELSE UNCHANGED sched
    /\ Rest
    /\ UNCHANGED <<now, unit, run, job, operator, edits, fired, unnoted, stray, faults>>

\* The firing is won before anything with a side effect is done.
Fire ==
    /\ At("fire")
    /\ IF Wins(ticker.sc.row.next)
       THEN /\ Advance(ticker.sc.row.last)
            /\ fired' = [fired EXCEPT ![ticker.sc.id] =
                   [instant |-> ticker.sc.row.next, at |-> ticker.at, edit |-> ticker.sc.edit]]
            /\ Starts("tick", ticker.sc)
            /\ Goes("queueing")
       ELSE /\ Rest
            /\ UNCHANGED <<sched, job, fired>>
    /\ UNCHANGED <<now, unit, run, operator, edits, unnoted, stray, faults>>

\* The statement fails: the row is due still, for the next tick.
AdvanceFails ==
    /\ At("skip") \/ At("fire")
    /\ Fault
    /\ Rest
    /\ UNCHANGED <<now, sched, unit, run, job, operator, edits, fired, unnoted, stray>>

------------------------------------------------------------------------------
(* enqueueScheduled, by the tick or by a run-now.                          *)

JobAt(p, pc) == job[p].pc = pc
\* Its ledger row says queued, and has no unit yet or never will.
RowWaits(p) == job[p].pc \in {"queued", "unqueued"}
JobGoes(p, pc) == job' = [job EXCEPT ![p].pc = pc]
\* Back in fire, or in the handler, which answers.
JobEnds(p, queued) ==
    /\ job' = [job EXCEPT ![p] = NoJob]
    /\ ticker' = CASE p # "tick" -> ticker
                   [] p = "tick" /\ queued -> AfterRest
                   [] OTHER -> [ticker EXCEPT !.pc = "failed"]

\* The target may be gone, or unfit to run, and then nothing is written.
TargetRefuses(p) ==
    /\ JobAt(p, "target")
    /\ JobEnds(p, FALSE)
    /\ UNCHANGED <<now, sched, unit, run, operator, edits, fired, unnoted, stray, faults>>

AcceptFiring(p) ==
    /\ JobAt(p, "target") /\ ~job[p].sc.row.broken
    /\ run' = Append(run, "accepted")
    /\ job' = [job EXCEPT ![p].pc = "accepted", ![p].run = Len(run) + 1]
    /\ UNCHANGED <<now, sched, unit, ticker, operator, edits, fired, unnoted, stray, faults>>

QueueRow(p) ==
    /\ JobAt(p, "accepted")
    /\ run' = [run EXCEPT ![job[p].run] = "queued"]
    /\ JobGoes(p, "queued")
    /\ UNCHANGED <<now, sched, unit, ticker, operator, edits, fired, unnoted, stray, faults>>

QueueRowFails(p) ==
    /\ JobAt(p, "accepted")
    /\ Fault
    /\ JobEnds(p, FALSE)
    /\ UNCHANGED <<now, sched, unit, run, operator, edits, fired, unnoted, stray>>

\* INTEGER PRIMARY KEY: one more than the greatest in the table.
NewUnit == IF DOMAIN unit = {} THEN 1
           ELSE 1 + CHOOSE i \in DOMAIN unit : \A j \in DOMAIN unit : j <= i

EnqueueFails(p) ==
    /\ JobAt(p, "queued")
    /\ Fault
    /\ JobGoes(p, "unqueued")
    /\ UNCHANGED <<now, sched, unit, run, ticker, operator, edits, fired, unnoted, stray>>

\* The row is settled as failed, unless that write fails too, which is only logged.
SettleJob(p) ==
    /\ JobAt(p, "unqueued")
    /\ \/ run' = [run EXCEPT ![job[p].run] = "settled"] /\ UNCHANGED stray
       \/ stray' = stray \cup {job[p].run} /\ UNCHANGED run
    /\ JobEnds(p, FALSE)
    /\ UNCHANGED <<now, sched, unit, operator, edits, fired, unnoted, faults>>

EnqueueUnit(p) ==
    /\ JobAt(p, "queued")
    /\ unit' = [i \in DOMAIN unit \cup {NewUnit} |->
                  IF i = NewUnit
                  THEN [of |-> job[p].sc.id, run |-> job[p].run, live |-> TRUE, by |-> p,
                        edit |-> job[p].sc.edit, onMiss |-> job[p].sc.row.onMiss]
                  ELSE unit[i]]
    /\ job' = [job EXCEPT ![p].pc = "note", ![p].unit = NewUnit]
    /\ UNCHANGED <<now, sched, run, ticker, operator, edits, fired, unnoted, stray, faults>>

\* Mutant of NoteUnit: the call is missing.
NoteNothing(p) ==
    /\ JobAt(p, "note")
    /\ JobEnds(p, TRUE)
    /\ UNCHANGED <<now, sched, unit, run, operator, edits, fired, unnoted, stray, faults>>

\* The row names the unit, of the tick or of a run-now ...
NoteUnit(p) ==
    /\ JobAt(p, "note")
    /\ LET s == job[p].sc.id
       IN /\ IF s \in DOMAIN sched THEN Set(s, [sched[s] EXCEPT !.last = job[p].unit])
                                   ELSE UNCHANGED sched
          /\ unnoted' = IF p = "tick" THEN unnoted ELSE unnoted \cup {s}
    /\ JobEnds(p, TRUE)
    /\ UNCHANGED <<now, unit, run, operator, edits, fired, stray, faults>>

\* ... or the statement fails, which is only logged.
NoteFails(p) ==
    /\ JobAt(p, "note")
    /\ Fault
    /\ unnoted' = IF p = "tick" THEN unnoted \cup {job[p].sc.id} ELSE unnoted
    /\ JobEnds(p, TRUE)
    /\ UNCHANGED <<now, sched, unit, run, operator, edits, fired, stray>>

JobStep(p) ==
    \/ TargetRefuses(p) \/ AcceptFiring(p) \/ QueueRow(p) \/ QueueRowFails(p)
    \/ EnqueueUnit(p) \/ EnqueueFails(p) \/ SettleJob(p) \/ NoteUnit(p) \/ NoteFails(p)

------------------------------------------------------------------------------
(* What the tick does after a job could not be queued.                     *)

AfterFailure == IF ticker.sc.row.broken THEN Goes("off") ELSE Rest

\* A job that could not be queued is recorded, and is no evidence that the
\* previous one has finished.
RecordFailure ==
    /\ At("failed")
    /\ \/ /\ IF Wins(ticker.next) THEN Advance(ticker.sc.row.last) ELSE UNCHANGED sched
          /\ UNCHANGED faults
       \/ Fault /\ UNCHANGED sched
    /\ AfterFailure
    /\ UNCHANGED <<now, unit, run, job, operator, edits, fired, unnoted, stray>>

\* SetEnabled(false) by the tick itself: the row is read, and written back.
SwitchOffRead ==
    /\ At("off")
    /\ IF Here THEN ticker' = [ticker EXCEPT !.pc = "off2", !.next = sched[ticker.sc.id].next]
               ELSE Rest
    /\ UNCHANGED <<now, sched, unit, run, job, operator, edits, fired, unnoted, stray, faults>>

SwitchOff ==
    /\ At("off2")
    /\ \/ /\ IF Here THEN Set(ticker.sc.id, [sched[ticker.sc.id] EXCEPT !.enabled = FALSE,
                                                                        !.next = ticker.next])
                     ELSE UNCHANGED sched
          /\ UNCHANGED faults
       \/ Fault /\ UNCHANGED sched
    /\ Rest
    /\ UNCHANGED <<now, unit, run, job, operator, edits, fired, unnoted, stray>>

TickerStep ==
    \/ Scan \/ Decide \/ DecideFails \/ Skip \/ Fire \/ AdvanceFails
    \/ JobStep("tick") \/ RecordFailure \/ SwitchOffRead \/ SwitchOff

------------------------------------------------------------------------------
(* Operators.                                                              *)

\* Mutant of Create: a spec that never comes round is stored.
CreateUnchecked(s, kind, onMiss) ==
    /\ s \notin DOMAIN sched /\ edits[s] = 0
    /\ sched' = [t \in DOMAIN sched \cup {s} |->
                   IF t = s
                   THEN [enabled |-> TRUE, kind |-> kind, onMiss |-> onMiss, broken |-> FALSE,
                         next |-> NextAfter(kind, now), last |-> 0]
                   ELSE sched[t]]
    /\ edits' = [edits EXCEPT ![s] = 1]
    /\ UNCHANGED <<now, unit, run, ticker, job, operator, fired, unnoted, stray, faults>>

Create(s, kind, onMiss) ==
    /\ s \notin DOMAIN sched /\ edits[s] = 0
    /\ NextAfter(kind, now) # Never
    /\ sched' = [t \in DOMAIN sched \cup {s} |->
                   IF t = s
                   THEN [enabled |-> TRUE, kind |-> kind, onMiss |-> onMiss, broken |-> FALSE,
                         next |-> NextAfter(kind, now), last |-> 0]
                   ELSE sched[t]]
    /\ edits' = [edits EXCEPT ![s] = 1]
    /\ UNCHANGED <<now, unit, run, ticker, job, operator, fired, unnoted, stray, faults>>

\* SetEnabled and Update read the row and work out its next instant from the
\* clock ...
Reads(o, s, columns) ==
    /\ operator[o].pc = "new" /\ s \in DOMAIN sched
    /\ operator' = [operator EXCEPT ![o] = [pc |-> "write", id |-> s, set |-> columns]]
    /\ UNCHANGED <<now, sched, unit, run, ticker, job, edits, fired, unnoted, stray, faults>>

SetEnabled(o, s, on) ==
    LET next == NextAfter(sched[s].kind, now)
    IN Reads(o, s, [enabled |-> on,
                    next |-> IF on /\ next # Never THEN next ELSE sched[s].next])

EditRow(o, s, kind, onMiss) ==
    /\ NextAfter(kind, now) # Never
    /\ Reads(o, s, [kind |-> kind, onMiss |-> onMiss, next |-> NextAfter(kind, now)])

\* ... and write their columns in a statement that compares nothing.
Write(o) ==
    /\ operator[o].pc = "write"
    /\ LET s == operator[o].id
           columns == operator[o].set
       IN IF s \in DOMAIN sched
          THEN /\ Set(s, [c \in DOMAIN sched[s] |->
                            IF c \in DOMAIN columns THEN columns[c] ELSE sched[s][c]])
               /\ edits' = [edits EXCEPT ![s] = @ + 1]
          ELSE UNCHANGED <<sched, edits>>
    /\ operator' = [operator EXCEPT ![o] = [pc |-> "done"]]
    /\ UNCHANGED <<now, unit, run, ticker, job, fired, unnoted, stray, faults>>

\* The same unit a tick would queue, with the clock left where it is.
RunNow(o, s) ==
    /\ operator[o].pc = "new" /\ s \in DOMAIN sched
    /\ operator' = [operator EXCEPT ![o] = [pc |-> "done"]]
    /\ Starts(o, Snapshot(s))
    /\ UNCHANGED <<now, sched, unit, run, ticker, edits, fired, unnoted, stray, faults>>

\* It runs on the caller's context: whoever hangs up stops it between two
\* statements.
HangUp(o) ==
    /\ ~JobAt(o, "none")
    /\ stray' = IF RowWaits(o) THEN stray \cup {job[o].run} ELSE stray
    /\ job' = [job EXCEPT ![o] = NoJob]
    /\ UNCHANGED <<now, sched, unit, run, ticker, operator, edits, fired, unnoted, faults>>

Delete(s) ==
    /\ s \in DOMAIN sched
    /\ sched' = [t \in DOMAIN sched \ {s} |-> sched[t]]
    /\ UNCHANGED <<now, unit, run, ticker, job, operator, edits, fired, unnoted, stray, faults>>

\* The agent or gear it fires is deleted: the reference is set to NULL.
LoseTarget(s) ==
    /\ s \in DOMAIN sched /\ ~sched[s].broken
    /\ Set(s, [sched[s] EXCEPT !.broken = TRUE])
    /\ UNCHANGED <<now, unit, run, ticker, job, operator, edits, fired, unnoted, stray, faults>>

OperatorStep ==
    \/ \E s \in Schedules :
          \/ \E kind \in Kinds, onMiss \in OnMiss :
                \/ Create(s, kind, onMiss)
                \/ \E o \in Operators : EditRow(o, s, kind, onMiss)
          \/ \E o \in Operators, on \in BOOLEAN : SetEnabled(o, s, on)
          \/ \E o \in Operators : RunNow(o, s)
          \/ Delete(s) \/ LoseTarget(s)
    \/ \E o \in Operators : Write(o) \/ JobStep(o) \/ HangUp(o)

------------------------------------------------------------------------------
(* The world: time, the queue's workers, and the end of the process.       *)

ClockTick ==
    /\ now < LastInstant
    /\ now' = now + 1
    /\ UNCHANGED <<sched, unit, run, ticker, job, operator, edits, fired, unnoted, stray, faults>>

\* A unit is finished with, and its ledger row settled (DeliveryPipeline).
Settle(i) ==
    /\ Unfinished(i)
    /\ unit' = [unit EXCEPT ![i].live = FALSE]
    /\ run' = [run EXCEPT ![unit[i].run] = "settled"]
    /\ UNCHANGED <<now, sched, ticker, job, operator, edits, fired, unnoted, stray, faults>>

\* Units long settled are pruned, and their ids may be given out again.
PruneUnits(i) ==
    /\ i \in DOMAIN unit /\ ~unit[i].live
    /\ unit' = [j \in DOMAIN unit \ {i} |-> unit[j]]
    /\ UNCHANGED <<now, sched, run, ticker, job, operator, edits, fired, unnoted, stray, faults>>

\* The tick and the requests in progress are gone; the next process scans anew.
ClockCrash ==
    /\ Fault
    /\ unnoted' = IF JobAt("tick", "note") THEN unnoted \cup {job["tick"].sc.id} ELSE unnoted
    /\ stray' = stray \cup {job[p].run : p \in {p \in Queuers : RowWaits(p)}}
    /\ ticker' = NoTick
    /\ job' = [p \in Queuers |-> NoJob]
    /\ operator' = [o \in Operators |->
                      IF operator[o].pc = "write" THEN [pc |-> "done"] ELSE operator[o]]
    /\ UNCHANGED <<now, sched, unit, run, edits, fired>>

ClockNext ==
    \/ TickerStep \/ OperatorStep \/ ClockTick \/ ClockCrash
    \/ \E i \in DOMAIN unit : Settle(i) \/ PruneUnits(i)

ClockSpec == ClockInit /\ [][ClockNext]_clockVars

\* The goroutine of startScheduler runs as long as the process does.
ClockFairSpec == ClockSpec /\ WF_clockVars(TickerStep)

------------------------------------------------------------------------------
(* Properties.                                                             *)

Rows == [enabled : BOOLEAN, kind : Kinds, onMiss : OnMiss, broken : BOOLEAN,
         next : Nat \ {Never}, last : Nat]

\* The variables stay within their types; a row always has a next instant.
ClockTypeOK ==
    /\ now \in 1..LastInstant
    /\ DOMAIN sched \subseteq Schedules /\ \A s \in DOMAIN sched : sched[s] \in Rows
    /\ \A i \in DOMAIN unit :
          /\ i \in Nat \ {0} /\ unit[i].of \in Schedules /\ unit[i].live \in BOOLEAN
          /\ unit[i].run \in DOMAIN run
    /\ \A n \in DOMAIN run : run[n] \in {"accepted", "queued", "settled"}
    /\ ticker.pc \in {"idle", "firing", "skip", "fire", "queueing", "failed", "off", "off2"}
    /\ \A p \in Queuers :
          job[p].pc \in {"none", "target", "accepted", "queued", "unqueued", "note"}
    /\ unnoted \subseteq Schedules /\ stray \subseteq DOMAIN run /\ faults \in 0..MaxClockFaults

\* A firing is about an instant nobody has fired: between two writes of an
\* operator, the next firing of a schedule was due after the moment the one before
\* it was decided, so a restart or a stall of any length is caught up on once and no
\* instant is fired twice (schedule_tick.go fire, store.go Advance).
FiringsAreNew ==
    [][\A s \in Schedules :
          fired'[s] # fired[s] /\ fired'[s].edit = fired[s].edit
              => fired'[s].instant > fired[s].at]_clockVars

\* A schedule that skips never has two unfinished jobs of its clock under one
\* rule, however long they take and whatever failed in between, as long as its
\* row was told of the clock's units and of no others (schedule_tick.go fire and
\* queueScheduled, store.go NoteUnit and Advance).
NoOverlap ==
    \A i, j \in DOMAIN unit :
        /\ i # j /\ unit[i].live /\ unit[j].live
        /\ unit[i].by = "tick" /\ unit[j].by = "tick"
        /\ unit[i].of = unit[j].of /\ unit[i].edit = unit[j].edit
        => unit[i].onMiss = "run" \/ unit[i].of \in unnoted

\* A firing can be asked after: a ledger row that says queued has its unit, or
\* whoever made it is about to insert it or to settle the row, unless the process
\* died, the caller of a run-now hung up in between, or the row could not be settled
\* (schedule_tick.go queueScheduled).
QueuedHasItsUnit ==
    \A n \in DOMAIN run : run[n] = "queued" =>
        \/ \E i \in DOMAIN unit : unit[i].run = n /\ unit[i].live
        \/ \E p \in Queuers : RowWaits(p) /\ job[p].run = n
        \/ n \in stray

\* The units and the ledger rows of a schedule are those its firings account for
\* (schedule_tick.go fire, queueScheduled).
FiringsAreAccountedFor == NoOverlap /\ QueuedHasItsUnit

\* No instant is fired twice and no firing is lost sight of (schedule_tick.go, store.go).
FiringsAreRight == []FiringsAreAccountedFor /\ FiringsAreNew

\* Every due schedule is dealt with: fired, skipped or switched off, even when a
\* tick takes only Batch of them and earlier ones do not finish
\* (schedule_tick.go tick, store.go Due).
DueIsDealtWith == \A s \in Schedules : []<>~Due(s)
==============================================================================
