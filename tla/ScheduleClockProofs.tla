------------------------- MODULE ScheduleClockProofs --------------------------
(***************************************************************************)
(* What ScheduleClock promises, for any schedules, operators and bounds:   *)
(* that no instant is fired twice, that two unfinished jobs of a schedule  *)
(* that skips do not stand beside each other, and that a queued ledger row *)
(* has its unit.                                                           *)
(***************************************************************************)
EXTENDS ScheduleClock, SequenceTheorems, FiniteSetTheorems, WellFoundedInduction, TLAPS

------------------------------------------------------------------------------
(* The firings of schedules: ScheduleClock.                                *)

SnapRecs   == [id : Schedules, row : Rows, edit : Nat]
UnitRecs   == [of : Schedules, run : Nat, live : BOOLEAN, by : Queuers, edit : Nat, onMiss : OnMiss]
Busy       == {"skip", "fire", "queueing", "failed", "off", "off2"}
TickRecs   == [pc : Busy \cup {"idle", "firing"}, due : SUBSET SnapRecs,
               sc : SnapRecs \cup {NoSnapshot}, next : Nat, at : Nat]
JobRecs    == [pc : {"none", "target", "accepted", "queued", "unqueued", "note"},
               sc : SnapRecs \cup {NoSnapshot}, run : Nat, unit : Nat]
FiredRecs  == [instant : Nat, at : Nat, edit : Nat]
RunStates  == {"accepted", "queued", "settled"}
Switches   == [enabled : BOOLEAN, next : Nat \ {Never}]
Rulings    == [kind : Kinds, onMiss : OnMiss, next : Nat \ {Never}]
Requests   == {[pc |-> "new"], [pc |-> "done"]}
              \cup [pc : {"write"}, id : Schedules, set : Switches \cup Rulings]
Accepted   == 1..Len(run)

RowTypes     == DOMAIN sched \subseteq Schedules /\ \A s \in DOMAIN sched : sched[s] \in Rows
UnitTypes    == /\ \E n \in Nat : DOMAIN unit \subseteq 1..n
                /\ \A i \in DOMAIN unit : unit[i] \in UnitRecs /\ unit[i].run \in Accepted
TickTypes    == ticker \in TickRecs /\ (ticker.pc \in Busy => ticker.sc \in SnapRecs)
JobTypes     == /\ job \in [Queuers -> JobRecs]
                /\ \A p \in Queuers :
                      /\ job[p].pc # "none" => job[p].sc \in SnapRecs
                      /\ job[p].pc \in {"accepted", "queued", "unqueued", "note"} => job[p].run \in Accepted
BookTypes    == /\ now \in Nat \ {0} /\ now <= LastInstant /\ run \in Seq(RunStates) /\ operator \in [Operators -> Requests]
                /\ edits \in [Schedules -> Nat] /\ fired \in [Schedules -> FiredRecs]
                /\ unnoted \subseteq Schedules /\ stray \subseteq Accepted /\ faults \in 0..MaxClockFaults
ClockTypes   == RowTypes /\ UnitTypes /\ TickTypes /\ JobTypes /\ BookTypes

\* The clock's units of a schedule, and the one it is about to note.
ClockUnit(i, s) == unit[i].by = "tick" /\ unit[i].of = s
NewOne(i, s)    == job["tick"].pc = "note" /\ job["tick"].unit = i /\ job["tick"].sc.id = s

\* What was fired was fired by now, under a rule there has been.
FiredFits(s) ==
    /\ fired[s].at <= now /\ fired[s].edit <= edits[s]
    /\ \A i \in DOMAIN unit : ClockUnit(i, s) => unit[i].edit <= edits[s]

\* A row is due after the last firing under its rule, and names that firing's unit if it is
\* unfinished and the rule is to skip.
RowFits(s) ==
    s \in DOMAIN sched =>
       /\ edits[s] > 0
       /\ fired[s].edit = edits[s] => sched[s].next > fired[s].at
       /\ \A i \in DOMAIN unit : ClockUnit(i, s) /\ unit[i].edit = edits[s] =>
             /\ unit[i].onMiss = sched[s].onMiss
             /\ sched[s].onMiss = "skip" /\ s \notin unnoted /\ unit[i].live =>
                   i = sched[s].last \/ NewOne(i, s)

\* The rule a snapshot was taken under is the row's, or an older one; no unit of the clock
\* is of a newer one.
SnapFits(sc) ==
    /\ sc.edit <= edits[sc.id]
    /\ sc.id \in DOMAIN sched /\ sc.edit = edits[sc.id] => sc.row.onMiss = sched[sc.id].onMiss
    /\ \A i \in DOMAIN unit : ClockUnit(i, sc.id) =>
          unit[i].edit <= sc.edit /\ (unit[i].edit = sc.edit => unit[i].onMiss = sc.row.onMiss)
Ahead(sc) == fired[sc.id].edit = sc.edit => sc.row.next > fired[sc.id].at
Told(sc) ==
    sc.row.onMiss = "skip" /\ sc.id \notin unnoted =>
       \A i \in DOMAIN unit :
          ClockUnit(i, sc.id) /\ unit[i].live /\ unit[i].edit = sc.edit => i = sc.row.last
NothingElse(sc) ==
    sc.row.onMiss = "skip" /\ sc.id \notin unnoted =>
       \A i \in DOMAIN unit :
          ClockUnit(i, sc.id) /\ unit[i].live /\ unit[i].edit = sc.edit => NewOne(i, sc.id)

\* The tick holds one snapshot of a schedule, and has decided about the one in hand.
DueFits ==
    /\ \A sc \in ticker.due : SnapFits(sc) /\ Ahead(sc) /\ Told(sc)
    /\ \A a, b \in ticker.due : a.id = b.id => a = b
HandFits(sc) ==
    /\ SnapFits(sc) /\ \A d \in ticker.due : d.id # sc.id
    /\ ticker.pc = "skip" => Told(sc)
    /\ ticker.pc = "fire" => Ahead(sc)
    /\ ticker.pc \in {"fire", "queueing", "failed"} => NothingElse(sc)
    /\ ticker.pc \in {"skip", "fire", "queueing", "failed"} =>
          ticker.next > ticker.at /\ fired[sc.id].at <= ticker.at /\ ticker.at <= now
    /\ ticker.pc = "off2" =>
          ticker.next # Never /\ (fired[sc.id].edit = edits[sc.id] => ticker.next > fired[sc.id].at)
InHand == \A sc \in SnapRecs : ticker.pc \in Busy /\ ticker.sc = sc => HandFits(sc)

\* A job is the tick's while it queues, and otherwise of a request that was answered for.
Queueing ==
    /\ job["tick"].pc # "none" <=> ticker.pc = "queueing"
    /\ ticker.pc = "queueing" => job["tick"].sc = ticker.sc
    /\ \A o \in Operators : job[o].pc # "none" => operator[o].pc = "done"

ClockInv ==
    /\ ClockTypes /\ (\A s \in Schedules : FiredFits(s) /\ RowFits(s))
    /\ DueFits /\ InHand /\ Queueing /\ NoOverlap /\ QueuedHasItsUnit

\* The next instant of a spec is after the one it is counted from.
LEMMA NextIsLater ==
    ASSUME NEW kind \in Kinds, NEW t \in Nat
    PROVE  NextAfter(kind, t) \in Nat /\ (NextAfter(kind, t) # Never => NextAfter(kind, t) > t)
<1>0. Period \in Nat \ {0} /\ kind \in {"every", "grid", "last"}
  BY ClockConstants
<1>1. CASE kind = "every"
  BY <1>0, <1>1 DEF NextAfter
<1>2. CASE kind = "grid"
  <2>1. NextAfter(kind, t) = (t \div Period + 1) * Period
    BY <1>2 DEF NextAfter
  <2>2. (t \div Period + 1) * Period \in Nat /\ (t \div Period + 1) * Period > t
    BY <1>0
  <2> QED BY <2>1, <2>2
<1>3. CASE kind = "last"
  BY <1>0, <1>3 DEF NextAfter, Never
<1> QED BY <1>0, <1>1, <1>2, <1>3

\* The id handed out next is one more than the greatest present, and so a new one.
LEMMA NewUnitIsNew ==
    ASSUME NEW n \in Nat, DOMAIN unit \subseteq 1..n
    PROVE  /\ NewUnit \in Nat \ {0} /\ NewUnit \notin DOMAIN unit
           /\ \E m \in Nat : DOMAIN unit \cup {NewUnit} \subseteq 1..m
<1>1. CASE DOMAIN unit = {}
  BY <1>1 DEF NewUnit
<1>2. CASE DOMAIN unit # {}
  <2> DEFINE T == {n - i : i \in DOMAIN unit}  Greatest(i) == \A j \in DOMAIN unit : j <= i
  <2>1. T \in SUBSET Nat /\ T # {}
    BY <1>2
  <2>2. PICK k \in T : \A l \in T : ~(<<l, k>> \in OpToRel(<, Nat))
    BY <2>1, NatLessThanWellFounded, WFMin
  <2>3. \A l \in T : ~(l < k)
    BY <2>1, <2>2 DEF OpToRel
  <2>4. PICK i \in DOMAIN unit : k = n - i
    BY <2>2
  <2>5. Greatest(i)
    <3> SUFFICES ASSUME NEW j \in DOMAIN unit PROVE j <= i
      OBVIOUS
    <3>1. ~(n - j < n - i)
      BY <2>3, <2>4
    <3> QED BY <3>1
  <2>6. NewUnit = 1 + CHOOSE g \in DOMAIN unit : Greatest(g)
    BY <1>2 DEF NewUnit
  <2> HIDE DEF Greatest
  <2>7. PICK g \in DOMAIN unit : NewUnit = 1 + g /\ Greatest(g)
    BY <2>5, <2>6, Zenon
  <2>8. g \in Nat /\ NewUnit \in Nat \ {0} /\ \A j \in DOMAIN unit : j < NewUnit /\ j \in 1..NewUnit
    BY <2>7 DEF Greatest
  <2> QED BY <2>8
<1> QED BY <1>1, <1>2

\* A row is written.
LEMMA RowSet ==
    ASSUME NEW s \in DOMAIN sched, NEW r, Set(s, r)
    PROVE  /\ DOMAIN sched' = DOMAIN sched /\ sched'[s] = r
           /\ \A t \in DOMAIN sched : t # s => sched'[t] = sched[t]
BY DEF Set

\* What an operator's request may have read.
LEMMA ReadsColumns ==
    ASSUME ClockTypes, NEW o \in Operators, NEW s \in Schedules, NEW kind \in Kinds, NEW onMiss \in OnMiss,
           NEW on \in BOOLEAN, EditRow(o, s, kind, onMiss) \/ SetEnabled(o, s, on)
    PROVE  \E columns \in Switches \cup Rulings : Reads(o, s, columns)
<1>0. now \in Nat
  BY DEF ClockTypes, BookTypes
<1>1. CASE EditRow(o, s, kind, onMiss)
  <2>1. NextAfter(kind, now) \in Nat \ {Never}
    BY <1>0, <1>1, NextIsLater DEF EditRow
  <2>2. [kind |-> kind, onMiss |-> onMiss, next |-> NextAfter(kind, now)] \in Rulings
    BY <2>1 DEF Rulings
  <2> QED BY <1>1, <2>2 DEF EditRow
<1>2. CASE SetEnabled(o, s, on)
  <2> DEFINE n == NextAfter(sched[s].kind, now)  m == IF on /\ n # Never THEN n ELSE sched[s].next
             c == [enabled |-> on, next |-> m]
  <2>1. Reads(o, s, c)
    BY <1>2 DEF SetEnabled
  <2>2. s \in DOMAIN sched
    BY <2>1 DEF Reads
  <2>3. sched[s].kind \in Kinds /\ sched[s].next \in Nat \ {Never}
    BY <2>2 DEF ClockTypes, RowTypes, Rows
  <2>4. m \in Nat \ {Never}
    BY <2>3, <1>0, NextIsLater
  <2> HIDE DEF m
  <2>5. c \in Switches
    BY <2>4 DEF Switches
  <2> QED BY <2>1, <2>5
<1> QED BY <1>1, <1>2

\* The steps there are, by what they do.
TickOnly == Scan \/ Decide \/ DecideFails \/ AdvanceFails \/ SwitchOffRead
TickRow  == Skip \/ Fire \/ RecordFailure \/ SwitchOff

LEMMA ClockCases ==
    ASSUME ClockTypes, ClockNext
    PROVE  \/ TickOnly \/ TickRow
           \/ \E p \in Queuers : JobStep(p)
           \/ \E s \in Schedules : \/ \E kind \in Kinds, onMiss \in OnMiss : Create(s, kind, onMiss)
                                   \/ Delete(s) \/ LoseTarget(s)
           \/ \E o \in Operators : \/ \E s \in Schedules, columns \in Switches \cup Rulings : Reads(o, s, columns)
                                   \/ \E s \in Schedules : RunNow(o, s)
                                   \/ Write(o) \/ HangUp(o)
           \/ \E i \in DOMAIN unit : Settle(i) \/ PruneUnits(i)
           \/ ClockTick \/ ClockCrash
<1>0. "tick" \in Queuers /\ Operators \subseteq Queuers
  BY DEF Queuers
<1>1. CASE TickerStep
  BY <1>0, <1>1 DEF TickerStep, TickOnly, TickRow
<1>2. CASE OperatorStep
  <2>1. ASSUME NEW s \in Schedules, NEW kind \in Kinds, NEW onMiss \in OnMiss, NEW o \in Operators,
               EditRow(o, s, kind, onMiss)
        PROVE  \E columns \in Switches \cup Rulings : Reads(o, s, columns)
    <3>1. TRUE \in BOOLEAN
      OBVIOUS
    <3> QED BY <2>1, <3>1, ReadsColumns
  <2>2. ASSUME NEW s \in Schedules, NEW o \in Operators, NEW on \in BOOLEAN, SetEnabled(o, s, on)
        PROVE  \E columns \in Switches \cup Rulings : Reads(o, s, columns)
    <3>1. s \in DOMAIN sched
      BY <2>2 DEF SetEnabled, Reads
    <3>2. sched[s].kind \in Kinds /\ sched[s].onMiss \in OnMiss
      BY <3>1 DEF ClockTypes, RowTypes, Rows
    <3> QED BY <2>2, <3>2, ReadsColumns
  <2> QED BY <1>0, <1>2, <2>1, <2>2 DEF OperatorStep
<1> QED BY <1>1, <1>2 DEF ClockNext

\* What an operator writes over a row leaves a row.
LEMMA Overwritten ==
    ASSUME NEW r \in Rows, NEW columns \in Switches \cup Rulings
    PROVE  [c \in DOMAIN r |-> IF c \in DOMAIN columns THEN columns[c] ELSE r[c]] \in Rows
<1> DEFINE w == [c \in DOMAIN r |-> IF c \in DOMAIN columns THEN columns[c] ELSE r[c]]
<1>1. /\ DOMAIN r = {"enabled", "kind", "onMiss", "broken", "next", "last"}
      /\ r.enabled \in BOOLEAN /\ r.kind \in Kinds /\ r.onMiss \in OnMiss /\ r.broken \in BOOLEAN
      /\ r.next \in Nat \ {Never} /\ r.last \in Nat
  BY DEF Rows
<1>2. /\ w = [c \in {"enabled", "kind", "onMiss", "broken", "next", "last"} |-> w[c]]
      /\ \A c \in DOMAIN r : w[c] = IF c \in DOMAIN columns THEN columns[c] ELSE r[c]
  BY <1>1
<1>3. CASE columns \in Switches
  <2>1. DOMAIN columns = {"enabled", "next"} /\ columns.enabled \in BOOLEAN /\ columns.next \in Nat \ {Never}
    BY <1>3 DEF Switches
  <2>2. /\ w.enabled = columns.enabled /\ w.kind = r.kind /\ w.onMiss = r.onMiss /\ w.broken = r.broken
        /\ w.next = columns.next /\ w.last = r.last
    BY <1>1, <1>2, <2>1
  <2> HIDE DEF w
  <2> QED BY <1>1, <1>2, <2>1, <2>2 DEF Rows
<1>4. CASE columns \in Rulings
  <2>1. /\ DOMAIN columns = {"kind", "onMiss", "next"}
        /\ columns.kind \in Kinds /\ columns.onMiss \in OnMiss /\ columns.next \in Nat \ {Never}
    BY <1>4 DEF Rulings
  <2>2. /\ w.enabled = r.enabled /\ w.kind = columns.kind /\ w.onMiss = columns.onMiss /\ w.broken = r.broken
        /\ w.next = columns.next /\ w.last = r.last
    BY <1>1, <1>2, <2>1
  <2> HIDE DEF w
  <2> QED BY <1>1, <1>2, <2>1, <2>2 DEF Rows
<1> QED BY <1>3, <1>4

\* The clock's own writes: when it is next due and the unit it is to name, or whether it is on.
LEMMA TickWrites ==
    ASSUME ClockInv, TickRow
    PROVE  \/ UNCHANGED sched
           \/ \E r \in Rows :
                 /\ ticker.sc.id \in DOMAIN sched /\ Set(ticker.sc.id, r)
                 /\ r.onMiss = sched[ticker.sc.id].onMiss /\ r.next = ticker.next
                 /\ \/ r.last = ticker.sc.row.last /\ ticker.pc \in {"skip", "fire", "failed"}
                    \/ r.last = sched[ticker.sc.id].last /\ ticker.pc = "off2"
<1> DEFINE s == ticker.sc.id
<1>0. ticker \in TickRecs /\ (ticker.pc \in Busy => ticker.sc \in SnapRecs) /\ ticker.next \in Nat /\ ticker.at \in Nat
  BY DEF ClockInv, ClockTypes, TickTypes, TickRecs
<1>1. \A t \in DOMAIN sched : sched[t] \in Rows
  BY DEF ClockInv, ClockTypes, RowTypes
<1>2. ticker.pc \in Busy => ticker.sc.row.last \in Nat
  BY <1>0 DEF SnapRecs, Rows
<1>3. ASSUME Here, ticker.pc \in {"skip", "fire", "failed"}, ticker.next # Never, Advance(ticker.sc.row.last)
      PROVE  \E r \in Rows :
                /\ s \in DOMAIN sched /\ Set(s, r)
                /\ r.onMiss = sched[s].onMiss /\ r.next = ticker.next
                /\ r.last = ticker.sc.row.last
  <2> DEFINE l == ticker.sc.row.last  r == [sched[s] EXCEPT !.next = ticker.next, !.last = l]
  <2>1. Set(s, r) /\ s \in DOMAIN sched
    BY <1>3 DEF Advance, Here
  <2>2. l \in Nat /\ ticker.next \in Nat \ {Never} /\ sched[s] \in Rows /\ l = ticker.sc.row.last
    BY <1>0, <1>1, <1>2, <1>3, <2>1 DEF Busy
  <2> HIDE DEF l
  <2>3. r \in Rows /\ r.onMiss = sched[s].onMiss /\ r.next = ticker.next /\ r.last = l
    BY <2>2 DEF Rows
  <2> HIDE DEF r
  <2> QED BY <2>1, <2>2, <2>3
<1>4. CASE Skip \/ Fire
  <2>1. /\ ticker.pc \in {"skip", "fire"}
        /\ UNCHANGED sched \/ (Here /\ Advance(ticker.sc.row.last))
    BY <1>4 DEF Skip, Fire, At, Wins
  <2>2. ticker.next # Never
    BY <2>1, <1>0 DEF ClockInv, InHand, HandFits, Busy, Never
  <2> QED BY <2>1, <2>2, <1>3
<1>5. CASE RecordFailure
  <2>1. /\ ticker.pc = "failed"
        /\ UNCHANGED sched \/ (Here /\ sched[s].next = ticker.next /\ Advance(ticker.sc.row.last))
    BY <1>5 DEF RecordFailure, At, Wins
  <2>2. Here => sched[s].next # Never
    BY <1>1 DEF Here, Rows
  <2> QED BY <2>1, <2>2, <1>3
<1>6. CASE SwitchOff
  <2>1. /\ ticker.pc = "off2"
        /\ UNCHANGED sched \/ (Here /\ Set(s, [sched[s] EXCEPT !.enabled = FALSE, !.next = ticker.next]))
    BY <1>6 DEF SwitchOff, At
  <2>2. ticker.next # Never
    BY <2>1, <1>0 DEF ClockInv, InHand, HandFits, Busy
  <2> DEFINE r == [sched[s] EXCEPT !.enabled = FALSE, !.next = ticker.next]
  <2>3. CASE Here /\ Set(s, r)
    <3>1. sched[s] \in Rows /\ s \in DOMAIN sched
      BY <2>3, <1>1 DEF Here
    <3>2. r \in Rows /\ r.onMiss = sched[s].onMiss /\ r.next = ticker.next /\ r.last = sched[s].last
      BY <3>1, <2>2, <1>0 DEF Rows
    <3> HIDE DEF r
    <3> QED BY <2>1, <2>3, <3>1, <3>2
  <2> QED BY <2>1, <2>3
<1> QED BY <1>4, <1>5, <1>6 DEF TickRow

\* A schedule's row after a unit was noted in it.
LEMMA NoteWrites ==
    ASSUME ClockInv, NEW p \in Queuers, NoteUnit(p)
    PROVE  \/ UNCHANGED sched /\ job[p].sc.id \notin DOMAIN sched
           \/ \E r \in Rows :
                 /\ job[p].sc.id \in DOMAIN sched /\ Set(job[p].sc.id, r)
                 /\ r.onMiss = sched[job[p].sc.id].onMiss /\ r.next = sched[job[p].sc.id].next
                 /\ r.last = job[p].unit
<1> DEFINE s == job[p].sc.id  u == job[p].unit  r == [sched[s] EXCEPT !.last = u]
<1>1. IF s \in DOMAIN sched THEN Set(s, r) ELSE UNCHANGED sched
  BY DEF NoteUnit
<1>2. u \in Nat /\ \A t \in DOMAIN sched : sched[t] \in Rows
  BY DEF ClockInv, ClockTypes, RowTypes, JobTypes, JobRecs
<1>3. CASE s \in DOMAIN sched
  <2> HIDE DEF u
  <2>1. r \in Rows /\ r.onMiss = sched[s].onMiss /\ r.next = sched[s].next /\ r.last = u
    BY <1>2, <1>3 DEF Rows
  <2> HIDE DEF r
  <2>2. Set(s, r)
    BY <1>1, <1>3
  <2> QED BY <1>3, <2>1, <2>2 DEF u
<1> QED BY <1>1, <1>3

LEMMA RowTypesStep ==
    ASSUME ClockInv, ClockNext
    PROVE  RowTypes'
<1>0. DOMAIN sched \subseteq Schedules /\ \A s \in DOMAIN sched : sched[s] \in Rows
  BY DEF ClockInv, ClockTypes, RowTypes
<1>1. CASE UNCHANGED sched
  BY <1>0, <1>1 DEF RowTypes
<1>2. ASSUME NEW s \in DOMAIN sched, NEW r \in Rows, Set(s, r) PROVE RowTypes'
  BY <1>0, <1>2, RowSet DEF RowTypes
<1>3. CASE TickRow
  BY <1>1, <1>2, <1>3, TickWrites
<1>4. ASSUME NEW p \in Queuers, JobStep(p) PROVE RowTypes'
  <2>1. NoteUnit(p) \/ UNCHANGED sched
    BY <1>4 DEF JobStep, TargetRefuses, AcceptFiring, QueueRow, QueueRowFails, EnqueueUnit, EnqueueFails, SettleJob, NoteFails
  <2> QED BY <2>1, <1>1, <1>2, NoteWrites
<1>5. ASSUME NEW s \in Schedules, NEW kind \in Kinds, NEW onMiss \in OnMiss, Create(s, kind, onMiss) PROVE RowTypes'
  <2> DEFINE n == NextAfter(kind, now)
             r == [enabled |-> TRUE, kind |-> kind, onMiss |-> onMiss, broken |-> FALSE, next |-> n, last |-> 0]
  <2>1. n \in Nat \ {Never}
    BY <1>5, NextIsLater DEF Create, ClockInv, ClockTypes, BookTypes
  <2>2. sched' = [t \in DOMAIN sched \cup {s} |-> IF t = s THEN r ELSE sched[t]]
    BY <1>5 DEF Create
  <2> HIDE DEF n
  <2>3. r \in Rows
    BY <2>1 DEF Rows
  <2> HIDE DEF r
  <2> QED BY <1>0, <2>2, <2>3 DEF RowTypes
<1>6. ASSUME NEW s \in Schedules, Delete(s) PROVE RowTypes'
  BY <1>0, <1>6 DEF Delete, RowTypes
<1>7. ASSUME NEW s \in Schedules, LoseTarget(s) PROVE RowTypes'
  <2>1. s \in DOMAIN sched /\ Set(s, [sched[s] EXCEPT !.broken = TRUE])
    BY <1>7 DEF LoseTarget
  <2>2. [sched[s] EXCEPT !.broken = TRUE] \in Rows
    BY <1>0, <2>1 DEF Rows
  <2> QED BY <2>1, <2>2, <1>2
<1>8. ASSUME NEW o \in Operators, Write(o) PROVE RowTypes'
  <2> DEFINE s == operator[o].id  columns == operator[o].set
             r == [c \in DOMAIN sched[s] |-> IF c \in DOMAIN columns THEN columns[c] ELSE sched[s][c]]
  <2>1. operator[o].pc = "write" /\ (Set(s, r) \/ UNCHANGED sched) /\ (s \in DOMAIN sched \/ UNCHANGED sched)
    BY <1>8 DEF Write
  <2>2. columns \in Switches \cup Rulings
    <3>1. operator[o] \in Requests
      BY DEF ClockInv, ClockTypes, BookTypes
    <3> QED BY <2>1, <3>1 DEF Requests
  <2>3. CASE s \in DOMAIN sched
    <3>1. sched[s] \in Rows
      BY <1>0, <2>3
    <3> HIDE DEF columns, s
    <3>2. r \in Rows
      BY <2>2, <3>1, Overwritten
    <3> HIDE DEF r
    <3> QED BY <2>1, <2>3, <3>2, <1>1, <1>2
  <2> QED BY <2>1, <2>3, <1>1
<1>9. CASE TickOnly \/ ClockTick \/ ClockCrash
  BY <1>1, <1>9 DEF TickOnly, Scan, Decide, DecideFails, AdvanceFails, SwitchOffRead, ClockTick, ClockCrash
<1>10. ASSUME NEW i \in DOMAIN unit, Settle(i) \/ PruneUnits(i) PROVE RowTypes'
  BY <1>1, <1>10 DEF Settle, PruneUnits
<1>11. ASSUME NEW o \in Operators, \/ \E s \in Schedules, columns \in Switches \cup Rulings : Reads(o, s, columns)
                                   \/ \E s \in Schedules : RunNow(o, s)
                                   \/ HangUp(o)
       PROVE  RowTypes'
  BY <1>1, <1>11 DEF Reads, RunNow, HangUp
<1> QED BY <1>3, <1>4, <1>5, <1>6, <1>7, <1>8, <1>9, <1>10, <1>11, ClockCases DEF ClockInv

\* On to what is left of the due ones.
LEMMA ThenFits ==
    ASSUME NEW D \in SUBSET SnapRecs
    PROVE  Then(D) \in TickRecs /\ Then(D).pc \in {"idle", "firing"} /\ Then(D).due = D
<1> DEFINE c == IF D = {} THEN "idle" ELSE "firing"
<1>1. c \in {"idle", "firing"} /\ Then(D) = [NoTick EXCEPT !.pc = c, !.due = D]
  BY DEF Then
<1> HIDE DEF c
<1>2. NoTick \in TickRecs
  BY DEF NoTick, TickRecs, NoSnapshot, Never
<1> QED BY <1>1, <1>2 DEF TickRecs, Busy

\* What a snapshot holds is the row as it is.
LEMMA SnapTyped ==
    ASSUME ClockTypes, NEW s \in DOMAIN sched
    PROVE  /\ Snapshot(s) \in SnapRecs /\ Snapshot(s).id = s /\ Snapshot(s).row = sched[s]
           /\ Snapshot(s).edit = edits[s]
BY DEF Snapshot, SnapRecs, ClockTypes, RowTypes, BookTypes

\* One is taken from the due ones, to be decided about: when it is next due, and what next.
LEMMA DecideMoves ==
    ASSUME ClockTypes, Decide
    PROVE  \E sc \in ticker.due, n \in Nat, c \in {"off", "skip", "fire"} :
              /\ ticker.pc = "firing" /\ n = NextAfter(sc.row.kind, now) /\ sc \in SnapRecs
              /\ ticker' = [ticker EXCEPT !.due = @ \ {sc}, !.sc = sc, !.next = n, !.at = now, !.pc = c]
              /\ c # "off" => n # Never
              /\ c = "fire" => ~(sc.row.onMiss = "skip" /\ Unfinished(sc.row.last))
<1>1. PICK sc \in ticker.due :
         ticker' = [ticker EXCEPT !.due = @ \ {sc}, !.sc = sc, !.next = NextAfter(sc.row.kind, now), !.at = now,
            !.pc = CASE NextAfter(sc.row.kind, now) = Never -> "off"
                     [] NextAfter(sc.row.kind, now) # Never /\ sc.row.onMiss = "skip" /\ Unfinished(sc.row.last) -> "skip"
                     [] OTHER -> "fire"]
  BY DEF Decide
<1>2. sc \in SnapRecs /\ now \in Nat /\ sc.row.kind \in Kinds
  BY DEF ClockTypes, TickTypes, BookTypes, TickRecs, SnapRecs, Rows
<1>3. PICK n \in Nat : n = NextAfter(sc.row.kind, now)
  BY <1>2, NextIsLater
<1>4. ticker' = [ticker EXCEPT !.due = @ \ {sc}, !.sc = sc, !.next = n, !.at = now,
            !.pc = CASE n = Never -> "off"
                     [] n # Never /\ sc.row.onMiss = "skip" /\ Unfinished(sc.row.last) -> "skip"
                     [] OTHER -> "fire"]
  BY <1>1, <1>3
<1>5. CASE n = Never
  <2>1. ticker' = [ticker EXCEPT !.due = @ \ {sc}, !.sc = sc, !.next = n, !.at = now, !.pc = "off"]
    BY <1>4, <1>5
  <2> QED BY <2>1, <1>2, <1>3 DEF Decide, At
<1>6. CASE n # Never /\ sc.row.onMiss = "skip" /\ Unfinished(sc.row.last)
  <2>1. ticker' = [ticker EXCEPT !.due = @ \ {sc}, !.sc = sc, !.next = n, !.at = now, !.pc = "skip"]
    BY <1>4, <1>6
  <2> QED BY <2>1, <1>2, <1>3, <1>6 DEF Decide, At
<1>7. CASE n # Never /\ ~(sc.row.onMiss = "skip" /\ Unfinished(sc.row.last))
  <2>1. ticker' = [ticker EXCEPT !.due = @ \ {sc}, !.sc = sc, !.next = n, !.at = now, !.pc = "fire"]
    BY <1>4, <1>7
  <2> QED BY <2>1, <1>2, <1>3, <1>7 DEF Decide, At
<1> QED BY <1>5, <1>6, <1>7

\* What becomes of the tick where a job ends.
LEMMA JobEndsTick ==
    ASSUME ClockTypes, NEW p \in Queuers, NEW queued \in BOOLEAN, JobEnds(p, queued)
    PROVE  \/ p # "tick" /\ ticker' = ticker
           \/ p = "tick" /\ queued /\ ticker' = Then(ticker.due)
           \/ p = "tick" /\ ~queued /\ ticker' = [ticker EXCEPT !.pc = "failed"]
BY DEF JobEnds, AfterRest

LEMMA TickTypesStep ==
    ASSUME ClockInv, ClockNext
    PROVE  TickTypes'
<1>0. /\ ticker \in TickRecs /\ (ticker.pc \in Busy => ticker.sc \in SnapRecs) /\ ticker.due \in SUBSET SnapRecs
      /\ ticker.pc \in Busy \cup {"idle", "firing"} /\ ClockTypes /\ now \in Nat
  BY DEF ClockInv, ClockTypes, TickTypes, TickRecs, BookTypes
<1>1. CASE UNCHANGED ticker
  BY <1>0, <1>1 DEF TickTypes
<1>2. ASSUME NEW D \in SUBSET SnapRecs, ticker' = Then(D) PROVE TickTypes'
  <2>1. ticker' \in TickRecs /\ ticker'.pc \notin Busy
    BY <1>2, ThenFits DEF Busy
  <2> QED BY <2>1 DEF TickTypes
<1>3. ASSUME NEW c \in Busy, ticker.sc \in SnapRecs, ticker' = [ticker EXCEPT !.pc = c] PROVE TickTypes'
  BY <1>0, <1>3 DEF TickTypes, TickRecs
<1>4. ASSUME NEW c \in Busy, NEW n \in Nat, ticker.sc \in SnapRecs, ticker' = [ticker EXCEPT !.pc = c, !.next = n]
      PROVE  TickTypes'
  BY <1>0, <1>4 DEF TickTypes, TickRecs
<1>5. CASE Scan
  <2>1. PICK D \in SUBSET {Snapshot(s) : s \in {s \in Schedules : Due(s)}} :
           ticker' = [NoTick EXCEPT !.pc = "firing", !.due = D]
    BY <1>5 DEF Scan
  <2>2. D \subseteq SnapRecs
    BY <1>0, SnapTyped DEF Due
  <2>3. NoTick \in TickRecs
    BY DEF NoTick, TickRecs, NoSnapshot, Never
  <2>4. ticker' \in TickRecs /\ ticker'.pc = "firing"
    BY <2>1, <2>2, <2>3 DEF TickRecs
  <2> QED BY <2>4 DEF TickTypes, Busy
<1>6. CASE Decide
  <2>1. PICK sc \in ticker.due, n \in Nat, c \in {"off", "skip", "fire"} :
           /\ sc \in SnapRecs
           /\ ticker' = [ticker EXCEPT !.due = @ \ {sc}, !.sc = sc, !.next = n, !.at = now, !.pc = c]
    BY <1>0, <1>6, DecideMoves
  <2>2. ticker' \in TickRecs /\ ticker'.sc = sc
    BY <1>0, <2>1 DEF TickRecs, Busy
  <2> QED BY <2>1, <2>2 DEF TickTypes
<1>7. CASE DecideFails
  <2>1. PICK sc \in ticker.due : ticker' = Then(ticker.due \ {sc})
    BY <1>7 DEF DecideFails
  <2>2. ticker.due \ {sc} \in SUBSET SnapRecs
    BY <1>0
  <2> QED BY <2>1, <2>2, <1>2
<1>8. CASE AdvanceFails \/ Skip \/ SwitchOff
  BY <1>0, <1>2, <1>8 DEF AdvanceFails, Skip, SwitchOff, Rest, AfterRest
<1>9. CASE Fire \/ RecordFailure
  <2>1. ticker.sc \in SnapRecs
    BY <1>0, <1>9 DEF Fire, RecordFailure, At, Busy
  <2>2. \/ ticker' = Then(ticker.due)
        \/ \E c \in Busy : ticker' = [ticker EXCEPT !.pc = c]
    BY <1>9 DEF Fire, RecordFailure, AfterFailure, Rest, AfterRest, Goes, Busy
  <2> QED BY <1>0, <1>2, <1>3, <2>1, <2>2
<1>10. CASE SwitchOffRead
  <2>1. ticker.sc \in SnapRecs
    BY <1>0, <1>10 DEF SwitchOffRead, At, Busy
  <2>2. CASE Here
    <3>1. ticker' = [ticker EXCEPT !.pc = "off2", !.next = sched[ticker.sc.id].next]
      BY <1>10, <2>2 DEF SwitchOffRead
    <3>2. sched[ticker.sc.id].next \in Nat
      BY <1>0, <2>2 DEF Here, ClockTypes, RowTypes, Rows
    <3> QED BY <1>4, <2>1, <3>1, <3>2 DEF Busy
  <2>3. CASE ~Here
    BY <1>0, <1>2, <1>10, <2>3 DEF SwitchOffRead, Rest, AfterRest
  <2> QED BY <2>2, <2>3
<1>11. ASSUME NEW p \in Queuers, JobStep(p) PROVE TickTypes'
  <2>1. \/ UNCHANGED ticker
        \/ JobEnds(p, TRUE) \/ (JobEnds(p, FALSE) /\ job[p].pc # "none")
    BY <1>11 DEF JobStep, TargetRefuses, AcceptFiring, QueueRow, QueueRowFails, EnqueueUnit, EnqueueFails, SettleJob,
                 NoteUnit, NoteFails, JobAt
  <2>2. p = "tick" /\ job[p].pc # "none" => ticker.sc \in SnapRecs
    BY <1>0 DEF ClockInv, Queueing, Busy
  <2>3. \/ UNCHANGED ticker \/ ticker' = Then(ticker.due)
        \/ ticker' = [ticker EXCEPT !.pc = "failed"] /\ ticker.sc \in SnapRecs
    <3>1. TRUE \in BOOLEAN /\ FALSE \in BOOLEAN
      OBVIOUS
    <3> QED BY <1>0, <2>1, <2>2, <3>1, JobEndsTick
  <2> QED BY <1>0, <1>1, <1>2, <1>3, <2>3 DEF Busy
<1>12. CASE ClockCrash
  <2>1. NoTick \in TickRecs /\ NoTick.pc \notin Busy
    BY DEF NoTick, TickRecs, NoSnapshot, Never, Busy
  <2> QED BY <1>12, <2>1 DEF ClockCrash, TickTypes
<1>13. ASSUME \/ \E s \in Schedules : \/ \E kind \in Kinds, onMiss \in OnMiss : Create(s, kind, onMiss)
                                      \/ Delete(s) \/ LoseTarget(s)
              \/ \E o \in Operators : \/ \E s \in Schedules, columns \in Switches \cup Rulings : Reads(o, s, columns)
                                      \/ \E s \in Schedules : RunNow(o, s)
                                      \/ Write(o) \/ HangUp(o)
              \/ \E i \in DOMAIN unit : Settle(i) \/ PruneUnits(i)
              \/ ClockTick
       PROVE  TickTypes'
  BY <1>1, <1>13 DEF Create, Delete, LoseTarget, Reads, RunNow, Write, HangUp, Settle, PruneUnits, ClockTick
<1> QED BY <1>0, <1>5, <1>6, <1>7, <1>8, <1>9, <1>10, <1>11, <1>12, <1>13, ClockCases DEF TickOnly, TickRow

\* The ledger's rows stay, and stay within their states.
LEMMA RunsStay ==
    ASSUME ClockInv, ClockNext
    PROVE  run' \in Seq(RunStates) /\ Accepted \subseteq Accepted'
<1>0. run \in Seq(RunStates) /\ Len(run) \in Nat /\ ClockTypes
  BY LenProperties DEF ClockInv, ClockTypes, BookTypes
<1>1. CASE UNCHANGED run
  BY <1>0, <1>1 DEF Accepted
<1>2. ASSUME NEW n \in Accepted, NEW e \in RunStates, run' = [run EXCEPT ![n] = e]
      PROVE  run' \in Seq(RunStates) /\ Accepted \subseteq Accepted'
  BY <1>0, <1>2, ExceptSeq DEF Accepted
<1>3. CASE run' = Append(run, "accepted")
  <2>1. run' \in Seq(RunStates) /\ Len(run') = Len(run) + 1
    BY <1>0, <1>3, AppendProperties DEF RunStates
  <2> QED BY <1>0, <2>1 DEF Accepted
<1>4. ASSUME NEW p \in Queuers, JobStep(p)
      PROVE  run' \in Seq(RunStates) /\ Accepted \subseteq Accepted'
  <2>1. job[p].pc \in {"accepted", "queued", "unqueued"} => job[p].run \in Accepted
    BY <1>0 DEF ClockTypes, JobTypes
  <2>2. CASE AcceptFiring(p)
    BY <1>3, <2>2 DEF AcceptFiring
  <2>3. CASE QueueRow(p)
    BY <1>2, <2>1, <2>3 DEF QueueRow, JobAt, RunStates
  <2>4. CASE SettleJob(p)
    BY <1>1, <1>2, <2>1, <2>4 DEF SettleJob, JobAt, RunStates
  <2>5. CASE \/ TargetRefuses(p) \/ QueueRowFails(p) \/ EnqueueUnit(p) \/ EnqueueFails(p)
             \/ NoteUnit(p) \/ NoteFails(p)
    BY <1>1, <2>5 DEF TargetRefuses, QueueRowFails, EnqueueUnit, EnqueueFails, NoteUnit, NoteFails
  <2> QED BY <1>4, <2>2, <2>3, <2>4, <2>5 DEF JobStep
<1>5. ASSUME NEW i \in DOMAIN unit, Settle(i) \/ PruneUnits(i)
      PROVE  run' \in Seq(RunStates) /\ Accepted \subseteq Accepted'
  <2>1. unit[i].run \in Accepted
    BY <1>0 DEF ClockTypes, UnitTypes
  <2> QED BY <1>1, <1>2, <1>5, <2>1 DEF Settle, PruneUnits, RunStates
<1>6. CASE TickOnly \/ TickRow \/ ClockTick \/ ClockCrash
  BY <1>1, <1>6 DEF TickOnly, TickRow, Scan, Decide, DecideFails, AdvanceFails, SwitchOffRead,
                    Skip, Fire, RecordFailure, SwitchOff, ClockTick, ClockCrash
<1>7. ASSUME \/ \E s \in Schedules : \/ \E kind \in Kinds, onMiss \in OnMiss : Create(s, kind, onMiss)
                                     \/ Delete(s) \/ LoseTarget(s)
             \/ \E o \in Operators : \/ \E s \in Schedules, columns \in Switches \cup Rulings : Reads(o, s, columns)
                                     \/ \E s \in Schedules : RunNow(o, s)
                                     \/ Write(o) \/ HangUp(o)
      PROVE  run' \in Seq(RunStates) /\ Accepted \subseteq Accepted'
  BY <1>1, <1>7 DEF Create, Delete, LoseTarget, Reads, RunNow, Write, HangUp
<1> QED BY <1>0, <1>4, <1>5, <1>6, <1>7, ClockCases

\* A job of somebody's: what it is after a step of whoever queues it.
LEMMA JobMoves ==
    ASSUME ClockInv, NEW p \in Queuers, JobStep(p)
    PROVE  \E j \in JobRecs :
              /\ job' = [job EXCEPT ![p] = j]
              /\ j.pc # "none" => j.sc = job[p].sc /\ job[p].pc # "none"
              /\ j.pc \in {"accepted", "queued", "unqueued", "note"} => j.run \in Accepted'
              /\ j.pc = "note" => EnqueueUnit(p) /\ j.unit = NewUnit
              /\ j.pc = "queued" => j.run = job[p].run
<1>0. /\ job[p] \in JobRecs /\ Len(run) \in Nat /\ run \in Seq(RunStates)
      /\ job[p].pc \in {"accepted", "queued", "unqueued", "note"} => job[p].run \in Accepted
  BY LenProperties DEF ClockInv, ClockTypes, JobTypes, BookTypes
<1>00. Accepted \subseteq Accepted'
  <2>1. ClockNext
    BY DEF ClockNext, TickerStep, OperatorStep, Queuers
  <2> QED BY <2>1, RunsStay
<1>1. CASE \E queued \in BOOLEAN : JobEnds(p, queued)
  <2>1. job' = [job EXCEPT ![p] = NoJob]
    BY <1>1 DEF JobEnds
  <2>2. NoJob \in JobRecs /\ NoJob.pc = "none"
    BY DEF NoJob, JobRecs
  <2> QED BY <2>1, <2>2
<1>2. CASE AcceptFiring(p)
  <2> DEFINE n == Len(run) + 1  j == [job[p] EXCEPT !.pc = "accepted", !.run = n]
  <2>1. job' = [job EXCEPT ![p] = j] /\ job[p].pc = "target" /\ run' = Append(run, "accepted")
    BY <1>2 DEF AcceptFiring, JobAt
  <2>2. n \in Nat /\ n \in Accepted'
    <3>1. Len(run') = n
      BY <1>0, <2>1, AppendProperties DEF RunStates
    <3>2. n \in Nat \ {0}
      BY <1>0
    <3> QED BY <3>1, <3>2 DEF Accepted
  <2> HIDE DEF n
  <2>3. j \in JobRecs /\ j.pc = "accepted" /\ j.sc = job[p].sc /\ j.run = n
    BY <1>0, <2>2 DEF JobRecs
  <2> HIDE DEF j
  <2> QED BY <2>1, <2>2, <2>3
<1>3. CASE QueueRow(p)
  <2> DEFINE j == [job[p] EXCEPT !.pc = "queued"]
  <2>1. job' = [job EXCEPT ![p] = j] /\ job[p].pc = "accepted"
    BY <1>3 DEF QueueRow, JobAt, JobGoes
  <2>2. j \in JobRecs /\ j.pc = "queued" /\ j.sc = job[p].sc /\ j.run = job[p].run
    BY <1>0 DEF JobRecs
  <2> HIDE DEF j
  <2> QED BY <1>0, <1>00, <2>1, <2>2
<1>4. CASE EnqueueUnit(p)
  <2> DEFINE n == NewUnit  j == [job[p] EXCEPT !.pc = "note", !.unit = n]
  <2>1. job' = [job EXCEPT ![p] = j] /\ job[p].pc = "queued"
    BY <1>4 DEF EnqueueUnit, JobAt
  <2>2. n \in Nat
    BY NewUnitIsNew DEF ClockInv, ClockTypes, UnitTypes
  <2> HIDE DEF n
  <2>3. j \in JobRecs /\ j.pc = "note" /\ j.sc = job[p].sc /\ j.run = job[p].run /\ j.unit = n
    BY <1>0, <2>2 DEF JobRecs
  <2> HIDE DEF j
  <2> QED BY <1>0, <1>00, <1>4, <2>1, <2>3 DEF n
<1>5. CASE EnqueueFails(p)
  <2> DEFINE j == [job[p] EXCEPT !.pc = "unqueued"]
  <2>1. job' = [job EXCEPT ![p] = j] /\ job[p].pc = "queued"
    BY <1>5 DEF EnqueueFails, JobAt, JobGoes
  <2>2. j \in JobRecs /\ j.pc = "unqueued" /\ j.sc = job[p].sc /\ j.run = job[p].run
    BY <1>0 DEF JobRecs
  <2> HIDE DEF j
  <2> QED BY <1>0, <1>00, <2>1, <2>2
<1>6. \/ \E queued \in BOOLEAN : JobEnds(p, queued)
      \/ AcceptFiring(p) \/ QueueRow(p) \/ EnqueueUnit(p) \/ EnqueueFails(p)
  BY DEF JobStep, TargetRefuses, QueueRowFails, SettleJob, NoteUnit, NoteFails
<1> QED BY <1>1, <1>2, <1>3, <1>4, <1>5, <1>6

LEMMA JobTypesStep ==
    ASSUME ClockInv, ClockNext
    PROVE  JobTypes'
<1>0. /\ job \in [Queuers -> JobRecs] /\ ClockTypes
      /\ \A p \in Queuers : /\ job[p].pc # "none" => job[p].sc \in SnapRecs
                            /\ job[p].pc \in {"accepted", "queued", "unqueued", "note"} => job[p].run \in Accepted
  BY DEF ClockInv, ClockTypes, JobTypes
<1>00. Accepted \subseteq Accepted'
  BY RunsStay
<1>1. CASE UNCHANGED job
  BY <1>0, <1>00, <1>1 DEF JobTypes
<1>2. ASSUME NEW p \in Queuers, NEW j \in JobRecs, job' = [job EXCEPT ![p] = j],
             j.pc # "none" => j.sc \in SnapRecs,
             j.pc \in {"accepted", "queued", "unqueued", "note"} => j.run \in Accepted'
      PROVE  JobTypes'
  <2>1. job' \in [Queuers -> JobRecs] /\ job'[p] = j /\ \A q \in Queuers : q # p => job'[q] = job[q]
    BY <1>0, <1>2
  <2> QED BY <1>0, <1>00, <1>2, <2>1 DEF JobTypes
<1>3. NoJob \in JobRecs /\ NoJob.pc = "none"
  BY DEF NoJob, JobRecs
<1>4. ASSUME NEW p \in Queuers, JobStep(p) PROVE JobTypes'
  BY <1>0, <1>2, <1>4, JobMoves
<1>5. ASSUME NEW p \in Queuers, NEW sc \in SnapRecs, Starts(p, sc) PROVE JobTypes'
  <2> DEFINE j == [NoJob EXCEPT !.pc = "target", !.sc = sc]
  <2>1. j \in JobRecs /\ j.pc = "target" /\ j.sc = sc
    BY DEF NoJob, JobRecs
  <2>2. job' = [job EXCEPT ![p] = j]
    BY <1>5 DEF Starts
  <2> HIDE DEF j
  <2> QED BY <1>2, <2>1, <2>2
<1>6. CASE TickRow
  <2>1. UNCHANGED job \/ (ticker.pc = "fire" /\ Starts("tick", ticker.sc))
    BY <1>6 DEF TickRow, Skip, Fire, RecordFailure, SwitchOff, At
  <2>2. ticker.pc = "fire" => ticker.sc \in SnapRecs
    BY <1>0 DEF ClockTypes, TickTypes, Busy
  <2> QED BY <1>1, <1>5, <2>1, <2>2 DEF Queuers
<1>7. ASSUME NEW o \in Operators, NEW s \in Schedules, RunNow(o, s) PROVE JobTypes'
  BY <1>0, <1>5, <1>7, SnapTyped DEF RunNow, Queuers
<1>8. ASSUME NEW o \in Operators, HangUp(o) PROVE JobTypes'
  BY <1>2, <1>3, <1>8 DEF HangUp, Queuers
<1>9. CASE ClockCrash
  <2>1. job' = [p \in Queuers |-> NoJob]
    BY <1>9 DEF ClockCrash
  <2> QED BY <1>3, <2>1 DEF JobTypes
<1>10. ASSUME \/ \E s \in Schedules : \/ \E kind \in Kinds, onMiss \in OnMiss : Create(s, kind, onMiss)
                                      \/ Delete(s) \/ LoseTarget(s)
              \/ \E o \in Operators : \/ \E s \in Schedules, columns \in Switches \cup Rulings : Reads(o, s, columns)
                                      \/ Write(o)
              \/ \E i \in DOMAIN unit : Settle(i) \/ PruneUnits(i)
              \/ TickOnly \/ ClockTick
       PROVE  JobTypes'
  BY <1>1, <1>10 DEF Create, Delete, LoseTarget, Reads, Write, Settle, PruneUnits, ClockTick, TickOnly,
                     Scan, Decide, DecideFails, AdvanceFails, SwitchOffRead
<1> QED BY <1>0, <1>4, <1>6, <1>7, <1>8, <1>9, <1>10, ClockCases

\* The unit a job becomes.
JoinsUnits(p, k, u) ==
    /\ k = NewUnit /\ k \notin DOMAIN unit /\ DOMAIN unit' = DOMAIN unit \cup {k}
    /\ unit'[k] = u /\ \A i \in DOMAIN unit : unit'[i] = unit[i]
    /\ u.of = job[p].sc.id /\ u.run = job[p].run /\ u.live /\ u.by = p
    /\ u.edit = job[p].sc.edit /\ u.onMiss = job[p].sc.row.onMiss
    /\ job[p].sc \in SnapRecs /\ job[p].run \in Accepted /\ job[p].pc = "queued"
    /\ \E m \in Nat : DOMAIN unit \cup {k} \subseteq 1..m

LEMMA UnitIsNew ==
    ASSUME ClockInv, NEW p \in Queuers, EnqueueUnit(p)
    PROVE  \E k \in Nat \ {0}, u \in UnitRecs : JoinsUnits(p, k, u)
<1>1. PICK n \in Nat : DOMAIN unit \subseteq 1..n
  BY DEF ClockInv, ClockTypes, UnitTypes
<1>2. /\ NewUnit \in Nat \ {0} /\ NewUnit \notin DOMAIN unit
      /\ \E m \in Nat : DOMAIN unit \cup {NewUnit} \subseteq 1..m
  BY <1>1, NewUnitIsNew
<1>3. PICK k \in Nat \ {0} : k = NewUnit
  BY <1>2
<1>4. job[p].pc = "queued" /\ job[p].sc \in SnapRecs /\ job[p].run \in Accepted /\ job[p].run \in Nat
  BY DEF EnqueueUnit, JobAt, ClockInv, ClockTypes, JobTypes, JobRecs
<1> DEFINE u == [of |-> job[p].sc.id, run |-> job[p].run, live |-> TRUE, by |-> p,
                 edit |-> job[p].sc.edit, onMiss |-> job[p].sc.row.onMiss]
<1>5. u \in UnitRecs
  BY <1>4 DEF UnitRecs, SnapRecs, Rows
<1>6. unit' = [i \in DOMAIN unit \cup {k} |-> IF i = k THEN u ELSE unit[i]]
  BY <1>3 DEF EnqueueUnit
<1>7. /\ u.of = job[p].sc.id /\ u.run = job[p].run /\ u.live /\ u.by = p
      /\ u.edit = job[p].sc.edit /\ u.onMiss = job[p].sc.row.onMiss
  OBVIOUS
<1> HIDE DEF u
<1>8. DOMAIN unit' = DOMAIN unit \cup {k} /\ unit'[k] = u /\ \A i \in DOMAIN unit : unit'[i] = unit[i]
  BY <1>2, <1>3, <1>6
<1>9. JoinsUnits(p, k, u)
  BY <1>2, <1>3, <1>4, <1>7, <1>8 DEF JoinsUnits
<1> QED BY <1>3, <1>5, <1>9

LEMMA UnitTypesStep ==
    ASSUME ClockInv, ClockNext
    PROVE  UnitTypes'
<1>0. ClockTypes /\ (\A i \in DOMAIN unit : unit[i] \in UnitRecs /\ unit[i].run \in Accepted)
  BY DEF ClockInv, ClockTypes, UnitTypes
<1>1. PICK n \in Nat : DOMAIN unit \subseteq 1..n
  BY DEF ClockInv, ClockTypes, UnitTypes
<1>2. Accepted \subseteq Accepted'
  BY RunsStay
<1>3. CASE UNCHANGED unit
  BY <1>0, <1>1, <1>2, <1>3 DEF UnitTypes
<1>4. ASSUME NEW p \in Queuers, JobStep(p) PROVE UnitTypes'
  <2>1. UNCHANGED unit \/ EnqueueUnit(p)
    BY <1>4 DEF JobStep, TargetRefuses, AcceptFiring, QueueRow, QueueRowFails, EnqueueFails, SettleJob, NoteUnit, NoteFails
  <2>2. CASE EnqueueUnit(p)
    <3>1. PICK k \in Nat \ {0}, u \in UnitRecs : JoinsUnits(p, k, u)
      BY <2>2, UnitIsNew
    <3>2. PICK m \in Nat : DOMAIN unit' \subseteq 1..m
      BY <3>1 DEF JoinsUnits
    <3>3. \A i \in DOMAIN unit' : unit'[i] \in UnitRecs /\ unit'[i].run \in Accepted
      BY <1>0, <3>1 DEF JoinsUnits
    <3> QED BY <3>2, <3>3, <1>2 DEF UnitTypes
  <2> QED BY <2>1, <2>2, <1>3
<1>5. ASSUME NEW i \in DOMAIN unit, Settle(i) PROVE UnitTypes'
  <2> DEFINE u == [unit[i] EXCEPT !.live = FALSE]
  <2>1. unit' = [unit EXCEPT ![i] = u]
    BY <1>5 DEF Settle
  <2>2. u \in UnitRecs /\ u.run = unit[i].run
    BY <1>0 DEF UnitRecs
  <2> HIDE DEF u
  <2>3. DOMAIN unit' = DOMAIN unit /\ \A j \in DOMAIN unit : unit'[j] \in UnitRecs /\ unit'[j].run \in Accepted
    BY <1>0, <2>1, <2>2
  <2> QED BY <1>1, <1>2, <2>3 DEF UnitTypes
<1>6. ASSUME NEW i \in DOMAIN unit, PruneUnits(i) PROVE UnitTypes'
  <2>1. /\ DOMAIN unit' \subseteq DOMAIN unit
        /\ \A j \in DOMAIN unit' : unit'[j] \in UnitRecs /\ unit'[j].run \in Accepted
    BY <1>0, <1>6 DEF PruneUnits
  <2> QED BY <1>1, <1>2, <2>1 DEF UnitTypes
<1>7. CASE TickOnly \/ TickRow \/ ClockTick \/ ClockCrash
  BY <1>3, <1>7 DEF TickOnly, TickRow, Scan, Decide, DecideFails, AdvanceFails, SwitchOffRead,
                    Skip, Fire, RecordFailure, SwitchOff, ClockTick, ClockCrash
<1>8. ASSUME \/ \E s \in Schedules : \/ \E kind \in Kinds, onMiss \in OnMiss : Create(s, kind, onMiss)
                                     \/ Delete(s) \/ LoseTarget(s)
             \/ \E o \in Operators : \/ \E s \in Schedules, columns \in Switches \cup Rulings : Reads(o, s, columns)
                                     \/ \E s \in Schedules : RunNow(o, s)
                                     \/ Write(o) \/ HangUp(o)
      PROVE  UnitTypes'
  BY <1>3, <1>8 DEF Create, Delete, LoseTarget, Reads, RunNow, Write, HangUp
<1> QED BY <1>0, <1>4, <1>5, <1>6, <1>7, <1>8, ClockCases

\* Who writes what.
LEMMA WhoWrites ==
    ASSUME ClockTypes, ClockNext
    PROVE  /\ UNCHANGED now \/ ClockTick
           /\ \/ UNCHANGED sched \/ TickRow \/ \E p \in Queuers : NoteUnit(p)
              \/ \E o \in Operators : Write(o)
              \/ \E s \in Schedules : \/ \E kind \in Kinds, onMiss \in OnMiss : Create(s, kind, onMiss)
                                      \/ Delete(s) \/ LoseTarget(s)
           /\ \/ UNCHANGED unit \/ \E p \in Queuers : EnqueueUnit(p)
              \/ \E i \in DOMAIN unit : Settle(i) \/ PruneUnits(i)
           /\ \/ UNCHANGED operator \/ ClockCrash
              \/ \E o \in Operators : \/ \E s \in Schedules, columns \in Switches \cup Rulings : Reads(o, s, columns)
                                      \/ \E s \in Schedules : RunNow(o, s)
                                      \/ Write(o)
           /\ \/ UNCHANGED edits \/ \E o \in Operators : Write(o)
              \/ \E s \in Schedules, kind \in Kinds, onMiss \in OnMiss : Create(s, kind, onMiss)
           /\ UNCHANGED fired \/ Fire
           /\ UNCHANGED unnoted \/ ClockCrash \/ \E p \in Queuers : NoteUnit(p) \/ NoteFails(p)
           /\ UNCHANGED stray \/ ClockCrash \/ (\E o \in Operators : HangUp(o)) \/ \E p \in Queuers : SettleJob(p)
           /\ UNCHANGED faults \/ Fault
<1>1. CASE TickOnly
  BY <1>1 DEF TickOnly, Scan, Decide, DecideFails, AdvanceFails, SwitchOffRead
<1>2. CASE TickRow
  BY <1>2 DEF TickRow, Skip, Fire, RecordFailure, SwitchOff
<1>3. ASSUME NEW p \in Queuers, JobStep(p)
      PROVE  /\ UNCHANGED <<now, operator, edits, fired>> /\ (UNCHANGED sched \/ NoteUnit(p))
             /\ UNCHANGED stray \/ SettleJob(p)
             /\ UNCHANGED unit \/ EnqueueUnit(p)
             /\ UNCHANGED unnoted \/ NoteUnit(p) \/ NoteFails(p)
             /\ UNCHANGED faults \/ Fault
  BY <1>3 DEF JobStep, TargetRefuses, AcceptFiring, QueueRow, QueueRowFails, EnqueueUnit, EnqueueFails, SettleJob,
              NoteUnit, NoteFails
<1>4. ASSUME NEW s \in Schedules, \/ \E kind \in Kinds, onMiss \in OnMiss : Create(s, kind, onMiss)
                                  \/ Delete(s) \/ LoseTarget(s)
      PROVE  /\ UNCHANGED <<now, unit, operator, fired, unnoted, stray, faults>>
             /\ UNCHANGED edits \/ \E kind \in Kinds, onMiss \in OnMiss : Create(s, kind, onMiss)
  BY <1>4 DEF Create, Delete, LoseTarget
<1>5. ASSUME NEW o \in Operators, \/ \E s \in Schedules, columns \in Switches \cup Rulings : Reads(o, s, columns)
                                  \/ \E s \in Schedules : RunNow(o, s)
                                  \/ Write(o) \/ HangUp(o)
      PROVE  /\ UNCHANGED <<now, unit, fired, unnoted, faults>>
             /\ UNCHANGED sched \/ Write(o)
             /\ UNCHANGED edits \/ Write(o)
             /\ UNCHANGED stray \/ HangUp(o)
             /\ \/ UNCHANGED operator
                \/ \E s \in Schedules, columns \in Switches \cup Rulings : Reads(o, s, columns)
                \/ \E s \in Schedules : RunNow(o, s)
                \/ Write(o)
  BY <1>5 DEF Reads, RunNow, Write, HangUp
<1>6. ASSUME NEW i \in DOMAIN unit, Settle(i) \/ PruneUnits(i)
      PROVE  UNCHANGED <<now, sched, operator, edits, fired, unnoted, stray, faults>>
  BY <1>6 DEF Settle, PruneUnits
<1>7. CASE ClockTick
  BY <1>7 DEF ClockTick
<1>8. CASE ClockCrash
  BY <1>8 DEF ClockCrash
<1> QED BY <1>1, <1>2, <1>3, <1>4, <1>5, <1>6, <1>7, <1>8, ClockCases

\* A rewritten row is a newer one.
LEMMA EditsGrow ==
    ASSUME ClockTypes, ClockNext
    PROVE  /\ edits' \in [Schedules -> Nat]
           /\ \A s \in Schedules :
                 edits'[s] # edits[s] => edits'[s] = edits[s] + 1 /\ UNCHANGED <<unit, fired, ticker, job, unnoted>>
<1>0. edits \in [Schedules -> Nat] /\ DOMAIN sched \subseteq Schedules
  BY DEF ClockTypes, BookTypes, RowTypes
<1>1. CASE UNCHANGED edits
  BY <1>0, <1>1
<1>2. ASSUME NEW o \in Operators, Write(o) PROVE \/ UNCHANGED edits
                                                 \/ \E t \in Schedules : edits' = [edits EXCEPT ![t] = @ + 1]
  BY <1>0, <1>2 DEF Write
<1>3. ASSUME NEW s \in Schedules, NEW kind \in Kinds, NEW onMiss \in OnMiss, Create(s, kind, onMiss)
      PROVE  edits' = [edits EXCEPT ![s] = @ + 1]
  BY <1>0, <1>3 DEF Create
<1>4. ASSUME NEW s \in Schedules, edits' = [edits EXCEPT ![s] = @ + 1]
      PROVE  edits' \in [Schedules -> Nat] /\ \A t \in Schedules : edits'[t] # edits[t] => edits'[t] = edits[t] + 1
  BY <1>0, <1>4
<1>5. \/ UNCHANGED edits
      \/ UNCHANGED <<unit, fired, ticker, job, unnoted>> /\ \E s \in Schedules : edits' = [edits EXCEPT ![s] = @ + 1]
  BY <1>2, <1>3, WhoWrites DEF Write, Create
<1> QED BY <1>1, <1>4, <1>5

LEMMA BookTypesStep ==
    ASSUME ClockInv, ClockNext
    PROVE  BookTypes'
<1>0. /\ ClockTypes /\ now \in Nat \ {0} /\ now <= LastInstant /\ operator \in [Operators -> Requests]
      /\ fired \in [Schedules -> FiredRecs] /\ unnoted \subseteq Schedules /\ stray \subseteq Accepted
      /\ faults \in 0..MaxClockFaults /\ LastInstant \in Nat /\ MaxClockFaults \in Nat
  BY ClockConstants DEF ClockInv, ClockTypes, BookTypes
<1>1. now' \in Nat \ {0} /\ now' <= LastInstant
  BY <1>0, WhoWrites DEF ClockTick
<1>2. run' \in Seq(RunStates) /\ Accepted \subseteq Accepted'
  BY RunsStay
<1>3. operator' \in [Operators -> Requests]
  <2>1. [pc |-> "done"] \in Requests
    BY DEF Requests
  <2>2. ASSUME NEW o \in Operators, NEW s \in Schedules, NEW columns \in Switches \cup Rulings, Reads(o, s, columns)
        PROVE  operator' \in [Operators -> Requests]
    <3>1. [pc |-> "write", id |-> s, set |-> columns] \in Requests
      BY DEF Requests
    <3> QED BY <1>0, <2>2, <3>1 DEF Reads
  <2>3. ASSUME NEW o \in Operators, (\E s \in Schedules : RunNow(o, s)) \/ Write(o)
        PROVE  operator' \in [Operators -> Requests]
    <3>1. operator' = [operator EXCEPT ![o] = [pc |-> "done"]]
      BY <2>3 DEF RunNow, Write
    <3> QED BY <1>0, <2>1, <3>1
  <2>4. CASE ClockCrash
    BY <1>0, <2>1, <2>4 DEF ClockCrash
  <2> QED BY <1>0, <2>2, <2>3, <2>4, WhoWrites
<1>4. edits' \in [Schedules -> Nat]
  BY <1>0, EditsGrow
<1>5. fired' \in [Schedules -> FiredRecs]
  <2>1. CASE Fire /\ fired' # fired
    <3> DEFINE f == [instant |-> ticker.sc.row.next, at |-> ticker.at, edit |-> ticker.sc.edit]
    <3>1. ticker.pc = "fire" /\ fired' = [fired EXCEPT ![ticker.sc.id] = f]
      BY <2>1 DEF Fire, At
    <3>2. ticker.sc \in SnapRecs /\ ticker.at \in Nat
      BY <1>0, <3>1 DEF ClockTypes, TickTypes, TickRecs, Busy
    <3>3. f \in FiredRecs /\ ticker.sc.id \in Schedules
      BY <3>2 DEF FiredRecs, SnapRecs, Rows
    <3> HIDE DEF f
    <3> QED BY <1>0, <3>1, <3>3
  <2> QED BY <1>0, <2>1, WhoWrites
<1>6. unnoted' \subseteq Schedules
  <2>1. ASSUME NEW p \in Queuers, job[p].pc = "note" PROVE job[p].sc.id \in Schedules
    BY <1>0, <2>1 DEF ClockTypes, JobTypes, SnapRecs
  <2>2. ASSUME NEW p \in Queuers, NoteUnit(p) \/ NoteFails(p)
        PROVE  job[p].pc = "note" /\ unnoted' \subseteq unnoted \cup {job[p].sc.id}
    BY <2>2 DEF NoteUnit, NoteFails, JobAt
  <2>3. CASE ClockCrash
    <3>1. "tick" \in Queuers
      BY DEF Queuers
    <3> QED BY <1>0, <2>1, <2>3, <3>1 DEF ClockCrash, JobAt
  <2> QED BY <1>0, <2>1, <2>2, <2>3, WhoWrites
<1>7. stray' \subseteq Accepted'
  <2>1. \A p \in Queuers : RowWaits(p) => job[p].run \in Accepted
    BY <1>0 DEF ClockTypes, JobTypes, RowWaits
  <2>2. CASE ClockCrash
    BY <1>0, <1>2, <2>1, <2>2 DEF ClockCrash
  <2>3. ASSUME NEW o \in Operators, HangUp(o) PROVE stray' \subseteq Accepted'
    BY <1>0, <1>2, <2>1, <2>3 DEF HangUp, Queuers
  <2>4. ASSUME NEW p \in Queuers, SettleJob(p) PROVE stray' \subseteq Accepted'
    BY <1>0, <1>2, <2>1, <2>4 DEF SettleJob, JobAt, RowWaits
  <2> QED BY <1>0, <1>2, <2>2, <2>3, <2>4, WhoWrites
<1>8. faults' \in 0..MaxClockFaults
  BY <1>0, WhoWrites DEF Fault
<1> QED BY <1>1, <1>2, <1>3, <1>4, <1>5, <1>6, <1>7, <1>8 DEF BookTypes

LEMMA QueueingStep ==
    ASSUME ClockInv, ClockNext
    PROVE  Queueing'
<1>0. /\ ClockTypes /\ Queueing /\ job \in [Queuers -> JobRecs] /\ ticker \in TickRecs
      /\ operator \in [Operators -> Requests] /\ ticker.due \in SUBSET SnapRecs
  BY DEF ClockInv, ClockTypes, JobTypes, TickTypes, BookTypes, TickRecs
<1>00. "tick" \in Queuers /\ "tick" \notin Operators /\ Operators \subseteq Queuers
  BY ClockConstants DEF Queuers
<1>1. CASE UNCHANGED <<ticker, job, operator>>
  BY <1>0, <1>1 DEF Queueing
<1>2. ASSUME UNCHANGED <<job, operator>>, ticker.pc # "queueing", ticker'.pc # "queueing" PROVE Queueing'
  BY <1>0, <1>2 DEF Queueing
<1>3. Then(ticker.due).pc \in {"idle", "firing"}
  BY <1>0, ThenFits
<1>4. CASE TickOnly
  <2>1. UNCHANGED <<job, operator>> /\ ticker.pc \in {"idle", "firing", "skip", "fire", "off"}
    BY <1>4 DEF TickOnly, Scan, Decide, DecideFails, AdvanceFails, SwitchOffRead, At
  <2>2. ticker'.pc # "queueing"
    <3>1. CASE Scan
      BY <3>1, <1>0 DEF Scan, NoTick
    <3>2. CASE Decide
      BY <3>2, <1>0, DecideMoves DEF TickRecs
    <3>3. CASE DecideFails
      <4>1. PICK sc \in ticker.due : ticker' = Then(ticker.due \ {sc})
        BY <3>3 DEF DecideFails
      <4>2. ticker.due \ {sc} \in SUBSET SnapRecs
        BY <1>0
      <4> QED BY <4>1, <4>2, ThenFits
    <3>4. CASE AdvanceFails
      BY <3>4, <1>3 DEF AdvanceFails, Rest, AfterRest
    <3>5. CASE SwitchOffRead
      BY <3>5, <1>0, <1>3 DEF SwitchOffRead, Rest, AfterRest, TickRecs
    <3> QED BY <1>4, <3>1, <3>2, <3>3, <3>4, <3>5 DEF TickOnly
  <2> QED BY <2>1, <2>2, <1>2
<1>5. CASE TickRow
  <2>1. CASE UNCHANGED job
    <3>1. /\ UNCHANGED <<job, operator>> /\ ticker.pc \in {"skip", "fire", "failed", "off2"}
          /\ ticker' = Then(ticker.due) \/ ticker' = [ticker EXCEPT !.pc = "off"]
             \/ (Starts("tick", ticker.sc) /\ ticker.pc = "fire")
      BY <1>5, <2>1 DEF TickRow, Skip, Fire, RecordFailure, SwitchOff, At, AfterFailure, Goes, Rest, AfterRest
    <3>2. Starts("tick", ticker.sc) => job'["tick"].pc = "target"
      BY <1>0, <1>00 DEF Starts, NoJob
    <3>3. ticker.pc = "fire" => job["tick"].pc = "none"
      BY <1>0 DEF Queueing
    <3>4. ticker'.pc # "queueing"
      BY <1>0, <1>3, <2>1, <3>1, <3>2, <3>3 DEF TickRecs
    <3> QED BY <3>1, <3>4, <1>2
  <2>2. CASE Fire /\ job' # job
    <3>1. Starts("tick", ticker.sc) /\ ticker' = [ticker EXCEPT !.pc = "queueing"] /\ UNCHANGED operator
      BY <2>2 DEF Fire, Goes
    <3>2. ticker'.pc = "queueing" /\ ticker'.sc = ticker.sc
      BY <1>0, <3>1 DEF TickRecs
    <3>3. job'["tick"].pc = "target" /\ job'["tick"].sc = ticker.sc /\ \A o \in Operators : job'[o] = job[o]
      BY <1>0, <1>00, <3>1 DEF Starts, NoJob
    <3> QED BY <1>0, <3>1, <3>2, <3>3 DEF Queueing
  <2>3. Fire \/ UNCHANGED job
    BY <1>5 DEF TickRow, Skip, RecordFailure, SwitchOff
  <2> QED BY <2>1, <2>2, <2>3
<1>6. ASSUME NEW p \in Queuers, JobStep(p) PROVE Queueing'
  <2>1. PICK j \in JobRecs : /\ job' = [job EXCEPT ![p] = j]
                             /\ j.pc # "none" => j.sc = job[p].sc /\ job[p].pc # "none"
    BY <1>6, JobMoves DEF ClockInv
  <2>2. job'[p] = j /\ UNCHANGED operator /\ \A q \in Queuers : q # p => job'[q] = job[q]
    BY <1>0, <1>6, <2>1, WhoWrites
         DEF JobStep, TargetRefuses, AcceptFiring, QueueRow, QueueRowFails, EnqueueUnit, EnqueueFails, SettleJob, NoteUnit, NoteFails
  <2>3. \A o \in Operators : job'[o].pc # "none" => operator'[o].pc = "done"
    BY <1>0, <1>00, <2>1, <2>2 DEF Queueing
  <2>4. /\ job[p].pc # "none"
        /\ \/ UNCHANGED ticker /\ job'[p].pc # "none"
           \/ job'[p].pc = "none" /\ (JobEnds(p, TRUE) \/ JobEnds(p, FALSE))
    <3>1. CASE AcceptFiring(p) \/ QueueRow(p) \/ EnqueueUnit(p) \/ EnqueueFails(p)
      BY ZenonT(40), <1>0, <3>1 DEF AcceptFiring, QueueRow, EnqueueUnit, EnqueueFails, JobAt, JobGoes, JobRecs
    <3>2. CASE TargetRefuses(p) \/ QueueRowFails(p) \/ SettleJob(p) \/ NoteUnit(p) \/ NoteFails(p)
      <4>1. job[p].pc # "none" /\ (JobEnds(p, TRUE) \/ JobEnds(p, FALSE))
        BY <3>2 DEF TargetRefuses, QueueRowFails, SettleJob, NoteUnit, NoteFails, JobAt
      <4>2. job'[p].pc = "none"
        BY <1>0, <4>1 DEF JobEnds, NoJob
      <4> QED BY <4>1, <4>2
    <3> QED BY <1>6, <3>1, <3>2 DEF JobStep
  <2>5. CASE p # "tick"
    <3>1. UNCHANGED ticker
      BY <2>4, <2>5 DEF JobEnds
    <3> QED BY <1>0, <1>00, <2>2, <2>3, <2>5, <3>1 DEF Queueing
  <2>6. CASE p = "tick"
    <3>1. ticker.pc = "queueing" /\ job["tick"].sc = ticker.sc
      BY <1>0, <2>4, <2>6 DEF Queueing
    <3>2. CASE UNCHANGED ticker /\ job'[p].pc # "none"
      BY <2>1, <2>2, <2>3, <2>6, <3>1, <3>2 DEF Queueing
    <3>3. CASE job'[p].pc = "none" /\ (JobEnds(p, TRUE) \/ JobEnds(p, FALSE))
      <4>1. ticker' = Then(ticker.due) \/ ticker' = [ticker EXCEPT !.pc = "failed"]
        BY <2>6, <3>3 DEF JobEnds, AfterRest
      <4>2. ticker'.pc # "queueing"
        BY <1>0, <1>3, <4>1 DEF TickRecs
      <4> QED BY <2>3, <2>6, <3>3, <4>2 DEF Queueing
    <3> QED BY <2>4, <3>2, <3>3
  <2> QED BY <2>5, <2>6
<1>7. ASSUME NEW o \in Operators, NEW s \in Schedules, RunNow(o, s) PROVE Queueing'
  <2>1. /\ operator' = [operator EXCEPT ![o] = [pc |-> "done"]] /\ UNCHANGED ticker
        /\ Starts(o, Snapshot(s))
    BY <1>7 DEF RunNow
  <2>2. operator'[o].pc = "done" /\ \A q \in Operators : q # o => operator'[q] = operator[q]
    BY <1>0, <2>1
  <2>3. \A q \in Queuers : q # o => job'[q] = job[q]
    BY <1>0, <2>1 DEF Starts
  <2> QED BY <1>0, <1>00, <2>1, <2>2, <2>3 DEF Queueing
<1>8. ASSUME NEW o \in Operators, NEW s \in Schedules, NEW columns \in Switches \cup Rulings, Reads(o, s, columns)
      PROVE  Queueing'
  <2>1. /\ operator[o].pc = "new" /\ UNCHANGED <<ticker, job>>
        /\ operator' = [operator EXCEPT ![o] = [pc |-> "write", id |-> s, set |-> columns]]
    BY <1>8 DEF Reads
  <2>2. \A q \in Operators : q # o => operator'[q] = operator[q]
    BY <1>0, <2>1
  <2> QED BY <1>0, <2>1, <2>2 DEF Queueing
<1>9. ASSUME NEW o \in Operators, Write(o) PROVE Queueing'
  <2>1. UNCHANGED <<ticker, job>> /\ operator' = [operator EXCEPT ![o] = [pc |-> "done"]]
    BY <1>9 DEF Write
  <2>2. operator'[o].pc = "done" /\ \A q \in Operators : q # o => operator'[q] = operator[q]
    BY <1>0, <2>1
  <2> QED BY <1>0, <2>1, <2>2 DEF Queueing
<1>10. ASSUME NEW o \in Operators, HangUp(o) PROVE Queueing'
  <2>1. UNCHANGED <<ticker, operator>> /\ job' = [job EXCEPT ![o] = NoJob]
    BY <1>10 DEF HangUp
  <2>2. job'[o].pc = "none" /\ \A q \in Queuers : q # o => job'[q] = job[q]
    BY <1>0, <1>00, <2>1 DEF NoJob
  <2> QED BY <1>0, <1>00, <2>1, <2>2 DEF Queueing
<1>11. CASE ClockCrash
  <2>1. ticker'.pc = "idle" /\ \A p \in Queuers : job'[p].pc = "none"
    BY <1>11 DEF ClockCrash, NoTick, NoJob
  <2> QED BY <2>1, <1>00 DEF Queueing
<1>12. CASE ClockTick
  BY <1>1, <1>12 DEF ClockTick
<1>13. ASSUME \/ \E s \in Schedules : \/ \E kind \in Kinds, onMiss \in OnMiss : Create(s, kind, onMiss)
                                      \/ Delete(s) \/ LoseTarget(s)
              \/ \E i \in DOMAIN unit : Settle(i) \/ PruneUnits(i)
       PROVE  Queueing'
  BY <1>1, <1>13 DEF Create, Delete, LoseTarget, Settle, PruneUnits
<1> QED BY <1>0, <1>4, <1>5, <1>6, <1>7, <1>8, <1>9, <1>10, <1>11, <1>12, <1>13, ClockCases

\* A ledger row that says queued still has its unit, or whoever is about to insert it.
LEMMA QueuedStep ==
    ASSUME ClockInv, ClockNext
    PROVE  QueuedHasItsUnit'
<1>0. /\ ClockTypes /\ QueuedHasItsUnit /\ Queueing /\ job \in [Queuers -> JobRecs] /\ run \in Seq(RunStates)
      /\ \A p \in Queuers : job[p].pc \in {"accepted", "queued", "unqueued", "note"} => job[p].run \in DOMAIN run
      /\ \A i \in DOMAIN unit : unit[i].run \in DOMAIN run
  BY LenProperties DEF ClockInv, ClockTypes, JobTypes, BookTypes, UnitTypes, Accepted
<1>00. "tick" \in Queuers /\ Operators \subseteq Queuers
  BY DEF Queuers
<1>1. CASE UNCHANGED <<run, unit, job, stray>>
  BY <1>0, <1>1 DEF QueuedHasItsUnit, RowWaits
<1>2. ASSUME NEW p \in Queuers, NEW j, UNCHANGED <<run, unit, stray>>, job[p].pc \notin {"queued", "unqueued"},
             job' = [job EXCEPT ![p] = j]
      PROVE  QueuedHasItsUnit'
  <2>1. \A q \in Queuers : q # p => job'[q] = job[q]
    BY <1>0, <1>2
  <2> QED BY <1>0, <1>2, <2>1 DEF QueuedHasItsUnit, RowWaits
<1>3. ASSUME NEW p \in Queuers, JobStep(p) PROVE QueuedHasItsUnit'
  <2>1. CASE TargetRefuses(p) \/ QueueRowFails(p) \/ NoteUnit(p) \/ NoteFails(p)
    BY <1>2, <2>1 DEF TargetRefuses, QueueRowFails, NoteUnit, NoteFails, JobAt, JobEnds
  <2>2. CASE AcceptFiring(p)
    <3>1. /\ run' = Append(run, "accepted") /\ UNCHANGED <<unit, stray>> /\ job[p].pc = "target"
          /\ \A q \in Queuers : q # p => job'[q] = job[q]
      BY <1>0, <2>2 DEF AcceptFiring, JobAt
    <3>2. PICK e \in Nat : e = Len(run)
      BY <1>0, LenProperties
    <3>3. DOMAIN run = 1..e /\ DOMAIN run' = 1..(e + 1) /\ run'[e + 1] = "accepted" /\ \A n \in 1..e : run'[n] = run[n]
      BY <1>0, <3>1, <3>2, AppendProperties, LenProperties DEF RunStates
    <3>4. \A n \in DOMAIN run' : run'[n] = "queued" => n \in DOMAIN run /\ run[n] = "queued"
      BY <3>2, <3>3
    <3> QED BY <1>0, <3>1, <3>4 DEF QueuedHasItsUnit, RowWaits
  <2>3. CASE QueueRow(p)
    <3>1. /\ run' = [run EXCEPT ![job[p].run] = "queued"] /\ UNCHANGED <<unit, stray>> /\ job[p].pc = "accepted"
          /\ job'[p].pc = "queued" /\ job'[p].run = job[p].run
          /\ \A q \in Queuers : q # p => job'[q] = job[q]
      BY <1>0, <2>3 DEF QueueRow, JobAt, JobGoes, JobRecs
    <3>2. \A n \in DOMAIN run' : run'[n] = "queued" => n \in DOMAIN run /\ (n = job[p].run \/ run[n] = "queued")
      BY <1>0, <3>1
    <3> QED BY <1>0, <3>1, <3>2 DEF QueuedHasItsUnit, RowWaits
  <2>4. CASE EnqueueUnit(p)
    <3>1. PICK k \in Nat \ {0}, u \in UnitRecs : JoinsUnits(p, k, u)
      BY <2>4, UnitIsNew
    <3>2. UNCHANGED <<run, stray>> /\ \A q \in Queuers : q # p => job'[q] = job[q]
      BY <1>0, <2>4 DEF EnqueueUnit
    <3> QED BY <1>0, <3>1, <3>2 DEF QueuedHasItsUnit, RowWaits, JoinsUnits
  <2>5. CASE EnqueueFails(p)
    <3>1. /\ UNCHANGED <<run, unit, stray>> /\ job'[p].pc = "unqueued" /\ job'[p].run = job[p].run
          /\ \A q \in Queuers : q # p => job'[q] = job[q]
      BY <1>0, <2>5 DEF EnqueueFails, JobGoes, JobRecs
    <3> QED BY <1>0, <3>1 DEF QueuedHasItsUnit, RowWaits
  <2>6. CASE SettleJob(p)
    <3>1. /\ UNCHANGED unit /\ job[p].pc = "unqueued" /\ \A q \in Queuers : q # p => job'[q] = job[q]
          /\ \/ run' = [run EXCEPT ![job[p].run] = "settled"] /\ UNCHANGED stray
             \/ stray' = stray \cup {job[p].run} /\ UNCHANGED run
      BY <1>0, <2>6 DEF SettleJob, JobAt, JobEnds
    <3>2. CASE run' = [run EXCEPT ![job[p].run] = "settled"] /\ UNCHANGED stray
      <4>1. \A n \in DOMAIN run' : run'[n] = "queued" => n \in DOMAIN run /\ n # job[p].run /\ run[n] = "queued"
        BY <1>0, <3>1, <3>2
      <4> QED BY <1>0, <3>1, <3>2, <4>1 DEF QueuedHasItsUnit, RowWaits
    <3>3. CASE stray' = stray \cup {job[p].run} /\ UNCHANGED run
      BY <1>0, <3>1, <3>3 DEF QueuedHasItsUnit, RowWaits
    <3> QED BY <3>1, <3>2, <3>3
  <2> QED BY <1>3, <2>1, <2>2, <2>3, <2>4, <2>5, <2>6 DEF JobStep
<1>4. CASE TickRow
  <2>1. UNCHANGED <<run, unit, stray>> /\ (UNCHANGED job \/ (ticker.pc = "fire" /\ Starts("tick", ticker.sc)))
    BY <1>4 DEF TickRow, Skip, Fire, RecordFailure, SwitchOff, At
  <2>2. ticker.pc = "fire" => job["tick"].pc = "none"
    BY <1>0 DEF Queueing
  <2> QED BY <1>00, <1>1, <1>2, <2>1, <2>2 DEF Starts
<1>5. ASSUME NEW o \in Operators, NEW s \in Schedules, RunNow(o, s) PROVE QueuedHasItsUnit'
  <2>1. UNCHANGED <<run, unit, stray>> /\ Starts(o, Snapshot(s)) /\ operator[o].pc = "new"
    BY <1>5 DEF RunNow
  <2>2. job[o].pc = "none"
    BY <1>0, <2>1 DEF Queueing
  <2> QED BY <1>00, <1>2, <2>1, <2>2 DEF Starts
<1>6. ASSUME NEW o \in Operators, HangUp(o) PROVE QueuedHasItsUnit'
  <2>1. /\ UNCHANGED <<run, unit>> /\ \A q \in Queuers : q # o => job'[q] = job[q]
        /\ stray \subseteq stray' /\ (RowWaits(o) => job[o].run \in stray')
    BY <1>0, <1>6 DEF HangUp
  <2> QED BY <1>0, <2>1 DEF QueuedHasItsUnit, RowWaits
<1>7. CASE ClockCrash
  <2>1. /\ UNCHANGED <<run, unit>> /\ stray \subseteq stray'
        /\ \A q \in Queuers : RowWaits(q) => job[q].run \in stray'
    BY <1>7 DEF ClockCrash
  <2> QED BY <1>0, <2>1 DEF QueuedHasItsUnit, RowWaits
<1>8. ASSUME NEW i \in DOMAIN unit, Settle(i) PROVE QueuedHasItsUnit'
  <2>1. /\ run' = [run EXCEPT ![unit[i].run] = "settled"] /\ UNCHANGED <<job, stray>>
        /\ DOMAIN unit' = DOMAIN unit /\ \A k \in DOMAIN unit : k # i => unit'[k] = unit[k]
    BY <1>8 DEF Settle
  <2>2. \A n \in DOMAIN run' : run'[n] = "queued" => n \in DOMAIN run /\ n # unit[i].run /\ run[n] = "queued"
    BY <1>0, <2>1
  <2> QED BY <1>0, <2>1, <2>2 DEF QueuedHasItsUnit, RowWaits
<1>9. ASSUME NEW i \in DOMAIN unit, PruneUnits(i) PROVE QueuedHasItsUnit'
  <2>1. /\ UNCHANGED <<run, job, stray>> /\ ~unit[i].live
        /\ DOMAIN unit' = DOMAIN unit \ {i} /\ \A k \in DOMAIN unit : k # i => unit'[k] = unit[k]
    BY <1>9 DEF PruneUnits
  <2> QED BY <1>0, <2>1 DEF QueuedHasItsUnit, RowWaits
<1>10. ASSUME \/ TickOnly \/ ClockTick
              \/ \E s \in Schedules : \/ \E kind \in Kinds, onMiss \in OnMiss : Create(s, kind, onMiss)
                                      \/ Delete(s) \/ LoseTarget(s)
              \/ \E o \in Operators : \/ \E s \in Schedules, columns \in Switches \cup Rulings : Reads(o, s, columns)
                                      \/ Write(o)
       PROVE  QueuedHasItsUnit'
  BY <1>1, <1>10 DEF TickOnly, Scan, Decide, DecideFails, AdvanceFails, SwitchOffRead, ClockTick,
                     Create, Delete, LoseTarget, Reads, Write
<1> QED BY <1>0, <1>3, <1>4, <1>5, <1>6, <1>7, <1>8, <1>9, <1>10, ClockCases

\* What a step leaves of what was known of a schedule: its rule and its row, the clock's
\* units of it, its last firing, and the job that is about to be noted.
RuleKept(s) ==
    /\ edits'[s] \in Nat /\ edits'[s] >= edits[s] /\ (s \in unnoted => s \in unnoted')
    /\ s \in DOMAIN sched' =>
          \/ edits'[s] > edits[s]
          \/ s \in DOMAIN sched /\ edits'[s] = edits[s] /\ sched'[s].onMiss = sched[s].onMiss
RowKept(s) ==
    s \in DOMAIN sched' /\ s \in DOMAIN sched /\ edits'[s] = edits[s] =>
       sched'[s].next = sched[s].next /\ sched'[s].last = sched[s].last
UnitsKept(s) ==
    \A i \in DOMAIN unit' : unit'[i].by = "tick" /\ unit'[i].of = s =>
       /\ i \in DOMAIN unit /\ unit[i].by = "tick" /\ unit[i].of = s
       /\ unit'[i].edit = unit[i].edit /\ unit'[i].onMiss = unit[i].onMiss
       /\ unit'[i].live => unit[i].live
NoteKept(s) ==
    job["tick"].pc = "note" /\ job["tick"].sc.id = s => s \in unnoted' \/ job'["tick"] = job["tick"]

\* Only a rewrite changes a rule; the rest of a row changes where it is advanced or noted.
LEMMA RulesKept ==
    ASSUME ClockInv, ClockNext, NEW s \in Schedules
    PROVE  /\ RuleKept(s)
           /\ \/ RowKept(s) \/ (TickRow /\ ticker.sc.id = s)
              \/ \E p \in Queuers : NoteUnit(p) /\ job[p].sc.id = s
<1>0. /\ ClockTypes /\ edits \in [Schedules -> Nat] /\ DOMAIN sched \subseteq Schedules
      /\ \A t \in DOMAIN sched : sched[t] \in Rows
  BY DEF ClockInv, ClockTypes, BookTypes, RowTypes
<1>1. edits[s] \in Nat /\ edits'[s] \in Nat /\ (edits'[s] = edits[s] \/ edits'[s] = edits[s] + 1)
  BY <1>0, EditsGrow
<1>2. s \in unnoted => s \in unnoted'
  BY <1>0, WhoWrites DEF NoteUnit, NoteFails, ClockCrash
<1>3. ASSUME UNCHANGED sched PROVE RuleKept(s) /\ RowKept(s)
  BY <1>1, <1>2, <1>3 DEF RuleKept, RowKept
<1>4. ASSUME NEW t \in DOMAIN sched, NEW r, Set(t, r), r.onMiss = sched[t].onMiss
      PROVE  RuleKept(s) /\ (t # s => RowKept(s))
  <2>1. DOMAIN sched' = DOMAIN sched /\ sched'[t] = r /\ \A q \in DOMAIN sched : q # t => sched'[q] = sched[q]
    BY <1>4, RowSet
  <2> QED BY <1>1, <1>2, <1>4, <2>1 DEF RuleKept, RowKept
<1>5. CASE TickRow
  <2>1. \/ UNCHANGED sched
        \/ \E r : ticker.sc.id \in DOMAIN sched /\ Set(ticker.sc.id, r) /\ r.onMiss = sched[ticker.sc.id].onMiss
    BY <1>5, TickWrites
  <2> QED BY <1>3, <1>4, <1>5, <2>1
<1>6. ASSUME NEW p \in Queuers, NoteUnit(p)
      PROVE  RuleKept(s) /\ (RowKept(s) \/ job[p].sc.id = s)
  <2>1. \/ UNCHANGED sched
        \/ \E r : job[p].sc.id \in DOMAIN sched /\ Set(job[p].sc.id, r) /\ r.onMiss = sched[job[p].sc.id].onMiss
    BY <1>6, NoteWrites
  <2> QED BY <1>3, <1>4, <2>1
<1>7. ASSUME NEW o \in Operators, Write(o) PROVE RuleKept(s) /\ RowKept(s)
  <2>1. PICK t, r : \/ UNCHANGED sched
                    \/ t \in DOMAIN sched /\ Set(t, r) /\ edits' = [edits EXCEPT ![t] = @ + 1]
    BY <1>7 DEF Write
  <2>2. CASE t \in DOMAIN sched /\ Set(t, r) /\ edits' = [edits EXCEPT ![t] = @ + 1]
    <3>1. DOMAIN sched' = DOMAIN sched /\ \A q \in DOMAIN sched : q # t => sched'[q] = sched[q]
      BY <2>2, RowSet
    <3>2. CASE t = s
      <4>1. edits'[s] = edits[s] + 1
        BY <1>0, <2>2, <3>2
      <4> QED BY <1>1, <1>2, <4>1 DEF RuleKept, RowKept
    <3>3. CASE t # s
      BY <1>1, <1>2, <3>1, <3>3 DEF RuleKept, RowKept
    <3> QED BY <3>2, <3>3
  <2> QED BY <2>1, <2>2, <1>3
<1>8. ASSUME NEW t \in Schedules, NEW kind \in Kinds, NEW onMiss \in OnMiss, Create(t, kind, onMiss)
      PROVE  RuleKept(s) /\ RowKept(s)
  <2>1. /\ DOMAIN sched' = DOMAIN sched \cup {t} /\ \A q \in DOMAIN sched : q # t => sched'[q] = sched[q]
        /\ t \notin DOMAIN sched
    BY <1>8 DEF Create
  <2>2. t = s => edits'[s] = 1 /\ edits[s] = 0
    BY <1>0, <1>8 DEF Create
  <2> QED BY <1>1, <1>2, <2>1, <2>2 DEF RuleKept, RowKept
<1>9. ASSUME NEW t \in Schedules, Delete(t) PROVE RuleKept(s) /\ RowKept(s)
  <2>1. DOMAIN sched' \subseteq DOMAIN sched /\ \A q \in DOMAIN sched' : sched'[q] = sched[q]
    BY <1>9 DEF Delete
  <2> QED BY <1>1, <1>2, <2>1 DEF RuleKept, RowKept
<1>10. ASSUME NEW t \in Schedules, LoseTarget(t) PROVE RuleKept(s) /\ RowKept(s)
  <2> DEFINE r == [sched[t] EXCEPT !.broken = TRUE]
  <2>1. t \in DOMAIN sched /\ Set(t, r)
    BY <1>10 DEF LoseTarget
  <2>2. r.onMiss = sched[t].onMiss /\ r.next = sched[t].next /\ r.last = sched[t].last
    BY <1>0, <2>1 DEF Rows
  <2> HIDE DEF r
  <2>3. /\ DOMAIN sched' = DOMAIN sched /\ sched'[t] = r
        /\ \A q \in DOMAIN sched : q # t => sched'[q] = sched[q]
    BY <2>1, RowSet
  <2> QED BY <1>1, <1>2, <2>2, <2>3 DEF RuleKept, RowKept
<1> QED BY <1>0, <1>3, <1>5, <1>6, <1>7, <1>8, <1>9, <1>10, WhoWrites

\* The clock's units of a schedule come only from the tick's own job for it ...
LEMMA UnitsAreKept ==
    ASSUME ClockInv, ClockNext, NEW s \in Schedules
    PROVE  UnitsKept(s) \/ (EnqueueUnit("tick") /\ job["tick"].sc.id = s)
<1>0. ClockTypes /\ (\A i \in DOMAIN unit : unit[i] \in UnitRecs)
  BY DEF ClockInv, ClockTypes, UnitTypes
<1>1. CASE UNCHANGED unit
  BY <1>1 DEF UnitsKept
<1>2. ASSUME NEW p \in Queuers, EnqueueUnit(p), p # "tick" \/ job[p].sc.id # s PROVE UnitsKept(s)
  <2>1. PICK k \in Nat \ {0}, u \in UnitRecs : JoinsUnits(p, k, u)
    BY <1>2, UnitIsNew
  <2> QED BY <1>2, <2>1 DEF UnitsKept, JoinsUnits
<1>3. ASSUME NEW i \in DOMAIN unit, Settle(i) PROVE UnitsKept(s)
  <2> DEFINE u == [unit[i] EXCEPT !.live = FALSE]
  <2>1. unit' = [unit EXCEPT ![i] = u]
    BY <1>3 DEF Settle
  <2>2. u.by = unit[i].by /\ u.of = unit[i].of /\ u.edit = unit[i].edit /\ u.onMiss = unit[i].onMiss /\ ~u.live
    BY <1>0 DEF UnitRecs
  <2> HIDE DEF u
  <2>3. DOMAIN unit' = DOMAIN unit /\ unit'[i] = u /\ \A k \in DOMAIN unit : k # i => unit'[k] = unit[k]
    BY <2>1
  <2> QED BY <2>2, <2>3 DEF UnitsKept
<1>4. ASSUME NEW i \in DOMAIN unit, PruneUnits(i) PROVE UnitsKept(s)
  <2>1. DOMAIN unit' \subseteq DOMAIN unit /\ \A k \in DOMAIN unit' : unit'[k] = unit[k]
    BY <1>4 DEF PruneUnits
  <2> QED BY <2>1 DEF UnitsKept
<1> QED BY <1>0, <1>1, <1>2, <1>3, <1>4, WhoWrites

\* ... a firing from the tick at that schedule ...
LEMMA FiredIsKept ==
    ASSUME ClockInv, ClockNext, NEW s \in Schedules, fired'[s] # fired[s]
    PROVE  /\ Fire /\ ticker.pc = "fire" /\ ticker.sc.id = s /\ fired'[s] \in FiredRecs
           /\ fired'[s].instant = ticker.sc.row.next /\ fired'[s].at = ticker.at /\ fired'[s].edit = ticker.sc.edit
           /\ s \in DOMAIN sched /\ Advance(ticker.sc.row.last)
<1>0. ClockTypes /\ fired \in [Schedules -> FiredRecs]
  BY DEF ClockInv, ClockTypes, BookTypes
<1>1. Fire
  BY <1>0, WhoWrites
<1> DEFINE f == [instant |-> ticker.sc.row.next, at |-> ticker.at, edit |-> ticker.sc.edit]
<1>2. ticker.pc = "fire" /\ fired' = [fired EXCEPT ![ticker.sc.id] = f] /\ Here /\ Advance(ticker.sc.row.last)
  BY <1>1 DEF Fire, At, Wins
<1>3. f.instant = ticker.sc.row.next /\ f.at = ticker.at /\ f.edit = ticker.sc.edit
  OBVIOUS
<1> HIDE DEF f
<1>4. ticker.sc.id = s /\ fired'[s] = f
  BY <1>0, <1>2
<1>5. fired'[s] \in FiredRecs
  BY BookTypesStep DEF BookTypes
<1> QED BY <1>1, <1>2, <1>3, <1>4, <1>5 DEF Here

\* ... and a unit waits to be noted until it is, or until the row is known not to name it.
LEMMA NoteIsKept ==
    ASSUME ClockInv, ClockNext, NEW s \in Schedules
    PROVE  NoteKept(s) \/ (NoteUnit("tick") /\ job["tick"].sc.id = s)
<1>0. ClockTypes /\ Queueing /\ job \in [Queuers -> JobRecs] /\ "tick" \in Queuers /\ "tick" \notin Operators
  BY ClockConstants DEF ClockInv, ClockTypes, JobTypes, Queuers
<1>1. CASE job'["tick"] = job["tick"] \/ job["tick"].pc # "note"
  BY <1>1 DEF NoteKept
<1>2. ASSUME NEW p \in Queuers, JobStep(p), p # "tick" PROVE job'["tick"] = job["tick"]
  BY <1>0, <1>2, JobMoves
<1>3. CASE JobStep("tick")
  <2>1. CASE NoteFails("tick")
    BY <2>1 DEF NoteFails, NoteKept
  <2>2. CASE NoteUnit("tick")
    BY <2>2 DEF NoteKept
  <2> QED BY <1>1, <1>3, <2>1, <2>2 DEF JobStep, TargetRefuses, AcceptFiring, QueueRow, QueueRowFails, EnqueueUnit,
                                        EnqueueFails, SettleJob, JobAt
<1>4. CASE ClockCrash
  BY <1>4 DEF ClockCrash, NoteKept, JobAt
<1>5. CASE TickRow
  <2>1. UNCHANGED job \/ ticker.pc = "fire"
    BY <1>5 DEF TickRow, Skip, Fire, RecordFailure, SwitchOff, At
  <2>2. ticker.pc = "fire" => job["tick"].pc = "none"
    BY <1>0 DEF Queueing
  <2> QED BY <1>1, <2>1, <2>2
<1>6. ASSUME NEW o \in Operators, (\E t \in Schedules : RunNow(o, t)) \/ HangUp(o) PROVE job'["tick"] = job["tick"]
  BY <1>0, <1>6 DEF RunNow, HangUp, Starts
<1>7. ASSUME \/ TickOnly \/ ClockTick
             \/ \E t \in Schedules : \/ \E kind \in Kinds, onMiss \in OnMiss : Create(t, kind, onMiss)
                                     \/ Delete(t) \/ LoseTarget(t)
             \/ \E o \in Operators : \/ \E t \in Schedules, columns \in Switches \cup Rulings : Reads(o, t, columns)
                                     \/ Write(o)
             \/ \E i \in DOMAIN unit : Settle(i) \/ PruneUnits(i)
      PROVE  UNCHANGED job
  BY <1>7 DEF TickOnly, Scan, Decide, DecideFails, AdvanceFails, SwitchOffRead, ClockTick,
              Create, Delete, LoseTarget, Reads, Write, Settle, PruneUnits
<1> QED BY <1>0, <1>1, <1>2, <1>3, <1>4, <1>5, <1>6, <1>7, ClockCases

\* What the tick has in hand.
LEMMA HandIs ==
    ASSUME ClockInv, ticker.pc \in Busy
    PROVE  /\ ticker.sc \in SnapRecs /\ HandFits(ticker.sc) /\ ticker.sc.id \in Schedules
           /\ ticker.next \in Nat /\ ticker.at \in Nat
           /\ (job["tick"].pc # "none" => job["tick"].sc = ticker.sc /\ ticker.pc = "queueing")
           /\ (ticker.pc # "queueing" => job["tick"].pc = "none")
<1>1. ticker.sc \in SnapRecs /\ ticker.next \in Nat /\ ticker.at \in Nat
  BY DEF ClockInv, ClockTypes, TickTypes, TickRecs
<1>2. HandFits(ticker.sc)
  BY <1>1 DEF ClockInv, InHand
<1>3. ticker.sc.id \in Schedules
  BY <1>1 DEF SnapRecs
<1> QED BY <1>1, <1>2, <1>3 DEF ClockInv, Queueing

\* A snapshot still holds while its schedule's rule and units are kept.
LEMMA SnapIsKept ==
    ASSUME ClockInv, ClockNext, NEW sc \in SnapRecs, SnapFits(sc), UnitsKept(sc.id)
    PROVE  /\ SnapFits(sc)'
           /\ Told(sc) => Told(sc)'
           /\ NothingElse(sc) /\ NoteKept(sc.id) => NothingElse(sc)'
<1>0. sc.id \in Schedules /\ sc.edit \in Nat
  BY DEF SnapRecs
<1>1. RuleKept(sc.id) /\ edits[sc.id] \in Nat
  BY <1>0, RulesKept DEF ClockInv, ClockTypes, BookTypes
<1>2. SnapFits(sc)'
  <2>1. sc.edit <= edits'[sc.id]
    BY <1>0, <1>1 DEF SnapFits, RuleKept
  <2>2. sc.id \in DOMAIN sched' /\ sc.edit = edits'[sc.id] => sc.row.onMiss = sched'[sc.id].onMiss
    BY <1>0, <1>1 DEF SnapFits, RuleKept
  <2>3. \A i \in DOMAIN unit' : unit'[i].by = "tick" /\ unit'[i].of = sc.id =>
           unit'[i].edit <= sc.edit /\ (unit'[i].edit = sc.edit => unit'[i].onMiss = sc.row.onMiss)
    BY DEF SnapFits, UnitsKept, ClockUnit
  <2> QED BY <2>1, <2>2, <2>3 DEF SnapFits, ClockUnit
<1>3. ASSUME Told(sc) PROVE Told(sc)'
  BY <1>1, <1>3 DEF Told, RuleKept, UnitsKept, ClockUnit
<1>4. ASSUME NothingElse(sc), NoteKept(sc.id) PROVE NothingElse(sc)'
  BY <1>1, <1>4 DEF NothingElse, RuleKept, UnitsKept, ClockUnit, NoteKept, NewOne
<1> QED BY <1>2, <1>3, <1>4

LEMMA FiredFitsStep ==
    ASSUME ClockInv, ClockNext, NEW s \in Schedules
    PROVE  FiredFits(s)'
<1>0. /\ FiredFits(s) /\ fired[s] \in FiredRecs /\ edits[s] \in Nat /\ now \in Nat
      /\ \A i \in DOMAIN unit : unit[i] \in UnitRecs
  BY DEF ClockInv, ClockTypes, BookTypes, UnitTypes
<1>1. RuleKept(s) /\ edits'[s] >= edits[s] /\ edits'[s] \in Nat
  BY RulesKept DEF RuleKept
<1>2. now' \in Nat /\ now' >= now
  BY <1>0, WhoWrites DEF ClockTick, ClockInv
<1>3. fired'[s].at <= now' /\ fired'[s].edit <= edits'[s]
  <2>1. CASE fired'[s] = fired[s]
    BY <1>0, <1>1, <1>2, <2>1 DEF FiredFits, FiredRecs
  <2>2. CASE fired'[s] # fired[s]
    <3>1. ticker.pc = "fire" /\ ticker.sc.id = s /\ fired'[s].at = ticker.at /\ fired'[s].edit = ticker.sc.edit
      BY <2>2, FiredIsKept
    <3>2. ticker.sc \in SnapRecs /\ ticker.at \in Nat /\ ticker.at <= now /\ ticker.sc.edit <= edits[s]
      BY <3>1, HandIs DEF HandFits, SnapFits, Busy
    <3> QED BY <1>0, <1>1, <1>2, <3>1, <3>2 DEF SnapRecs
  <2> QED BY <2>1, <2>2
<1>4. \A i \in DOMAIN unit' : unit'[i].by = "tick" /\ unit'[i].of = s => unit'[i].edit <= edits'[s]
  <2>0. \A i \in DOMAIN unit : unit[i].edit \in Nat /\ (unit[i].by = "tick" /\ unit[i].of = s => unit[i].edit <= edits[s])
    BY <1>0 DEF FiredFits, ClockUnit, UnitRecs
  <2>1. CASE UnitsKept(s)
    <3> SUFFICES ASSUME NEW i \in DOMAIN unit', unit'[i].by = "tick", unit'[i].of = s
                 PROVE  unit'[i].edit <= edits'[s]
      OBVIOUS
    <3>1. i \in DOMAIN unit /\ unit[i].by = "tick" /\ unit[i].of = s /\ unit'[i].edit = unit[i].edit
      BY <2>1 DEF UnitsKept
    <3> QED BY <1>0, <1>1, <2>0, <3>1
  <2>2. CASE EnqueueUnit("tick") /\ job["tick"].sc.id = s
    <3>1. PICK k \in Nat \ {0}, u \in UnitRecs : JoinsUnits("tick", k, u)
      BY <2>2, UnitIsNew DEF Queuers
    <3>2. ticker.pc = "queueing" /\ job["tick"].sc = ticker.sc
      BY <3>1 DEF JoinsUnits, ClockInv, Queueing
    <3>3. ticker.sc \in SnapRecs /\ ticker.sc.edit <= edits[s]
      BY <2>2, <3>2, HandIs DEF HandFits, SnapFits, Busy
    <3>4. u.edit <= edits'[s]
      BY <1>0, <1>1, <3>1, <3>2, <3>3 DEF JoinsUnits, SnapRecs
    <3> SUFFICES ASSUME NEW i \in DOMAIN unit', unit'[i].by = "tick", unit'[i].of = s
                 PROVE  unit'[i].edit <= edits'[s]
      OBVIOUS
    <3>5. CASE i = k
      BY <3>1, <3>4, <3>5 DEF JoinsUnits
    <3>6. CASE i # k
      <4>1. i \in DOMAIN unit /\ unit'[i] = unit[i]
        BY <3>1, <3>6 DEF JoinsUnits
      <4> QED BY <1>0, <1>1, <2>0, <4>1
    <3> QED BY <3>5, <3>6
  <2> QED BY <2>1, <2>2, UnitsAreKept
<1> QED BY <1>3, <1>4 DEF FiredFits, ClockUnit

\* A rule's unfinished units of the clock, as the row of a schedule that skips names them.
RowNames(s, i) ==
    ClockUnit(i, s) /\ unit[i].edit = edits[s] =>
       /\ unit[i].onMiss = sched[s].onMiss
       /\ sched[s].onMiss = "skip" /\ s \notin unnoted /\ unit[i].live => i = sched[s].last \/ NewOne(i, s)

LEMMA RowFitsCalm ==
    ASSUME ClockInv, ClockNext, NEW s \in Schedules, RowKept(s), UnitsKept(s), NoteKept(s), fired'[s] = fired[s]
    PROVE  RowFits(s)'
<1>0. /\ FiredFits(s) /\ RowFits(s) /\ fired[s] \in FiredRecs /\ edits[s] \in Nat
      /\ \A i \in DOMAIN unit : unit[i] \in UnitRecs
  BY DEF ClockInv, ClockTypes, BookTypes, UnitTypes
<1>1. RuleKept(s) /\ edits'[s] \in Nat
  BY RulesKept DEF RuleKept
<1>2. CASE edits'[s] > edits[s]
  <2>1. fired'[s].edit # edits'[s] /\ edits'[s] > 0
    BY <1>0, <1>1, <1>2 DEF FiredFits, FiredRecs
  <2>2. ASSUME NEW i \in DOMAIN unit', unit'[i].by = "tick", unit'[i].of = s PROVE unit'[i].edit # edits'[s]
    <3>1. i \in DOMAIN unit /\ unit[i].by = "tick" /\ unit[i].of = s /\ unit'[i].edit = unit[i].edit
      BY <2>2 DEF UnitsKept
    <3>2. unit[i].edit <= edits[s] /\ unit[i].edit \in Nat
      BY <1>0, <3>1 DEF FiredFits, ClockUnit, UnitRecs
    <3> QED BY <1>0, <1>1, <1>2, <3>1, <3>2
  <2> QED BY <2>1, <2>2 DEF RowFits, ClockUnit
<1>3. CASE ~(edits'[s] > edits[s]) /\ s \in DOMAIN sched'
  <2>1. /\ s \in DOMAIN sched /\ edits'[s] = edits[s] /\ sched'[s].onMiss = sched[s].onMiss
        /\ sched'[s].next = sched[s].next /\ sched'[s].last = sched[s].last /\ (s \in unnoted => s \in unnoted')
    BY <1>1, <1>3 DEF RuleKept, RowKept
  <2>2. edits'[s] > 0 /\ (fired'[s].edit = edits'[s] => sched'[s].next > fired'[s].at)
    BY <1>0, <2>1 DEF RowFits
  <2>3. \A i \in DOMAIN unit : RowNames(s, i)
    BY <1>0, <2>1 DEF RowFits, RowNames
  <2>4. ASSUME NEW i \in DOMAIN unit' PROVE RowNames(s, i)'
    <3>1. CASE unit'[i].by = "tick" /\ unit'[i].of = s
      <4>1. /\ i \in DOMAIN unit /\ ClockUnit(i, s) /\ unit'[i].edit = unit[i].edit
            /\ unit'[i].onMiss = unit[i].onMiss /\ (unit'[i].live => unit[i].live)
        BY <3>1 DEF UnitsKept, ClockUnit
      <4>2. RowNames(s, i)
        BY <2>3, <4>1
      <4> QED BY <2>1, <4>1, <4>2 DEF RowNames, ClockUnit, NoteKept, NewOne
    <3>2. CASE ~(unit'[i].by = "tick" /\ unit'[i].of = s)
      BY <3>2 DEF RowNames, ClockUnit
    <3> QED BY <3>1, <3>2
  <2> QED BY <2>2, <2>4 DEF RowFits, RowNames
<1>4. CASE s \notin DOMAIN sched'
  BY <1>4 DEF RowFits
<1> QED BY <1>2, <1>3, <1>4

\* The tick's own write leaves a row due after its last firing, and naming what it may.
LEMMA RowFitsTick ==
    ASSUME ClockInv, ClockNext, TickRow, NEW s \in Schedules, ticker.sc.id = s
    PROVE  RowFits(s)'
<1>0. /\ FiredFits(s) /\ RowFits(s) /\ fired[s] \in FiredRecs /\ edits[s] \in Nat
      /\ \A i \in DOMAIN unit : unit[i] \in UnitRecs /\ unit[i].edit \in Nat
      /\ ClockTypes /\ \A t \in DOMAIN sched : sched[t] \in Rows
  BY DEF ClockInv, ClockTypes, BookTypes, UnitTypes, UnitRecs, RowTypes
<1>1. PICK sc \in SnapRecs : sc = ticker.sc
  BY DEF ClockInv, ClockTypes, TickTypes, TickRow, Skip, Fire, RecordFailure, SwitchOff, At, Busy
<1>2. ticker.pc \in {"skip", "fire", "failed", "off2"} /\ UNCHANGED <<unit, edits, unnoted>>
  BY DEF TickRow, Skip, Fire, RecordFailure, SwitchOff, At
<1>3. HandFits(sc) /\ job["tick"].pc = "none" /\ ticker.next \in Nat /\ ticker.at \in Nat /\ sc.id = s /\ sc.edit \in Nat
  BY <1>1, <1>2, HandIs DEF Busy, SnapRecs
<1> SUFFICES ASSUME s \in DOMAIN sched' PROVE RowFits(s)'
  BY DEF RowFits
<1>4. PICK r \in Rows :
         \/ UNCHANGED sched /\ s \in DOMAIN sched /\ r = sched[s]
         \/ /\ s \in DOMAIN sched /\ Set(s, r)
            /\ r.onMiss = sched[s].onMiss /\ r.next = ticker.next
            /\ \/ r.last = sc.row.last /\ ticker.pc \in {"skip", "fire", "failed"}
               \/ r.last = sched[s].last /\ ticker.pc = "off2"
  <2>1. CASE UNCHANGED sched
    <3>1. s \in DOMAIN sched /\ sched[s] \in Rows
      BY <1>0, <2>1
    <3> QED BY <2>1, <3>1
  <2> QED BY <1>1, <1>3, <2>1, TickWrites
<1>5. s \in DOMAIN sched /\ sched'[s] = r /\ r.onMiss = sched[s].onMiss
  BY <1>4, RowSet
<1>6. edits'[s] > 0 /\ edits'[s] = edits[s]
  BY <1>0, <1>2, <1>5 DEF RowFits
<1>7. fired'[s].edit = edits[s] => r.next > fired'[s].at
  <2>1. CASE fired'[s] = fired[s]
    <3>1. CASE r = sched[s]
      BY <1>0, <1>5, <2>1, <3>1 DEF RowFits
    <3>2. CASE r.next = ticker.next /\ ticker.pc \in {"skip", "fire", "failed"}
      <4>1. ticker.next > ticker.at /\ fired[s].at <= ticker.at /\ fired[s].at \in Nat
        BY <1>0, <1>3, <3>2 DEF HandFits, FiredRecs
      <4> QED BY <1>3, <2>1, <3>2, <4>1
    <3>3. CASE r.next = ticker.next /\ ticker.pc = "off2"
      BY <1>3, <2>1, <3>3 DEF HandFits
    <3> QED BY <1>2, <1>4, <3>1, <3>2, <3>3
  <2>2. CASE fired'[s] # fired[s]
    <3>1. ticker.pc = "fire" /\ fired'[s].at = ticker.at /\ Advance(ticker.sc.row.last)
      BY <2>2, FiredIsKept
    <3>2. sched'[s].next = ticker.next
      BY <1>0, <1>1, <1>3, <1>5, <3>1 DEF Advance, Set, Rows
    <3>3. ticker.next > ticker.at
      BY <1>3, <3>1 DEF HandFits
    <3> QED BY <1>5, <3>1, <3>2, <3>3
  <2> QED BY <2>1, <2>2
<1>8. ASSUME NEW i \in DOMAIN unit, ClockUnit(i, s), unit[i].edit = edits[s]
      PROVE  /\ unit[i].onMiss = r.onMiss
             /\ r.onMiss = "skip" /\ s \notin unnoted /\ unit[i].live => i = r.last
  <2>1. /\ unit[i].onMiss = r.onMiss
        /\ sched[s].onMiss = "skip" /\ s \notin unnoted /\ unit[i].live => i = sched[s].last
    BY <1>0, <1>3, <1>5, <1>8 DEF RowFits, NewOne
  <2>2. unit[i].edit = sc.edit /\ sc.row.onMiss = sched[s].onMiss
    <3>1. sc.edit <= edits[s] /\ unit[i].edit <= sc.edit
      BY <1>3, <1>8 DEF HandFits, SnapFits
    <3>2. sc.edit = edits[s]
      BY <1>0, <1>3, <1>8, <3>1
    <3> QED BY <1>3, <1>5, <1>8, <3>2 DEF HandFits, SnapFits
  <2>3. CASE r.last = sched[s].last
    BY <1>5, <2>1, <2>3
  <2>4. CASE r.last = sc.row.last /\ ticker.pc = "skip"
    BY <1>3, <1>5, <1>8, <2>1, <2>2, <2>4 DEF HandFits, Told
  <2>5. CASE ticker.pc \in {"fire", "failed"}
    BY <1>3, <1>5, <1>8, <2>1, <2>2, <2>5 DEF HandFits, NothingElse, NewOne
  <2> QED BY <1>4, <2>3, <2>4, <2>5
<1>9. \A i \in DOMAIN unit' : RowNames(s, i)'
  BY <1>2, <1>5, <1>8 DEF RowNames, ClockUnit
<1> QED BY <1>5, <1>6, <1>7, <1>9 DEF RowFits, RowNames

\* The row names the tick's unit, which nothing of the clock's was unfinished beside.
LEMMA RowFitsNote ==
    ASSUME ClockInv, ClockNext, NEW p \in Queuers, NoteUnit(p), NEW s \in Schedules, job[p].sc.id = s
    PROVE  RowFits(s)'
<1>0. /\ RowFits(s) /\ edits[s] \in Nat /\ ClockTypes
      /\ \A i \in DOMAIN unit : unit[i] \in UnitRecs /\ unit[i].edit \in Nat
  BY DEF ClockInv, ClockTypes, BookTypes, UnitTypes, UnitRecs
<1>1. UNCHANGED <<unit, edits, fired>> /\ job[p].pc = "note" /\ unnoted' = IF p = "tick" THEN unnoted ELSE unnoted \cup {s}
  BY DEF NoteUnit, JobAt
<1> SUFFICES ASSUME s \in DOMAIN sched' PROVE RowFits(s)'
  BY DEF RowFits
<1>2. PICK r \in Rows : /\ s \in DOMAIN sched /\ Set(s, r) /\ r.onMiss = sched[s].onMiss
                        /\ r.next = sched[s].next /\ r.last = job[p].unit
  BY NoteWrites
<1>3. s \in DOMAIN sched /\ sched'[s] = r
  BY <1>2, RowSet
<1>4. edits'[s] > 0 /\ (fired'[s].edit = edits'[s] => sched'[s].next > fired'[s].at)
  BY <1>0, <1>1, <1>2, <1>3 DEF RowFits
<1>5. ASSUME NEW i \in DOMAIN unit, ClockUnit(i, s), unit[i].edit = edits[s]
      PROVE  unit[i].onMiss = r.onMiss /\ (r.onMiss = "skip" /\ s \notin unnoted' /\ unit[i].live => i = r.last)
  <2>1. unit[i].onMiss = r.onMiss
    BY <1>0, <1>2, <1>5 DEF RowFits
  <2>2. CASE p # "tick"
    BY <1>1, <2>1, <2>2
  <2>3. CASE p = "tick"
    <3>1. ticker.pc = "queueing" /\ job["tick"].sc = ticker.sc
      BY <1>1, <2>3 DEF ClockInv, Queueing
    <3>2. PICK sc \in SnapRecs : sc = ticker.sc
      BY <3>1, HandIs DEF Busy
    <3>3. HandFits(sc) /\ sc.id = s /\ sc.edit \in Nat
      BY <2>3, <3>1, <3>2, HandIs DEF Busy, SnapRecs
    <3>4. sc.edit <= edits[s] /\ unit[i].edit <= sc.edit
      BY <1>5, <3>3 DEF HandFits, SnapFits
    <3>5. sc.edit = edits[s]
      BY <1>0, <1>5, <3>3, <3>4
    <3>6. sc.row.onMiss = r.onMiss
      BY <1>2, <3>3, <3>5 DEF HandFits, SnapFits
    <3>7. NothingElse(sc) /\ unnoted' = unnoted
      BY <1>1, <2>3, <3>1, <3>3 DEF HandFits
    <3> QED BY <1>2, <1>5, <2>1, <2>3, <3>3, <3>5, <3>6, <3>7 DEF NothingElse, NewOne
  <2> QED BY <2>2, <2>3
<1>6. \A i \in DOMAIN unit' : RowNames(s, i)'
  BY <1>1, <1>3, <1>5 DEF RowNames, ClockUnit
<1> QED BY <1>3, <1>4, <1>6 DEF RowFits, RowNames

LEMMA NewOneIs ==
    ASSUME ClockInv, EnqueueUnit("tick"), NEW k, NEW u, JoinsUnits("tick", k, u), NEW s, job["tick"].sc.id = s
    PROVE  job'["tick"].pc = "note" /\ job'["tick"].unit = k /\ job'["tick"].sc.id = s
<1>0. job \in [Queuers -> JobRecs] /\ "tick" \in Queuers
  BY DEF ClockInv, ClockTypes, JobTypes, Queuers
<1> DEFINE j == [job["tick"] EXCEPT !.pc = "note", !.unit = k]
<1>1. job' = [job EXCEPT !["tick"] = j]
  BY DEF EnqueueUnit, JoinsUnits
<1>2. j.pc = "note" /\ j.unit = k /\ j.sc = job["tick"].sc
  BY <1>0 DEF JobRecs
<1> HIDE DEF j
<1> QED BY <1>0, <1>1, <1>2

\* The tick's unit is of the rule it was decided under, and is about to be noted.
LEMMA RowFitsUnit ==
    ASSUME ClockInv, ClockNext, EnqueueUnit("tick"), NEW s \in Schedules, job["tick"].sc.id = s
    PROVE  RowFits(s)'
<1>0. /\ RowFits(s) /\ edits[s] \in Nat /\ ClockTypes /\ job \in [Queuers -> JobRecs] /\ "tick" \in Queuers
      /\ \A i \in DOMAIN unit : unit[i] \in UnitRecs /\ unit[i].edit \in Nat
  BY DEF ClockInv, ClockTypes, BookTypes, UnitTypes, UnitRecs, JobTypes, Queuers
<1>1. UNCHANGED <<sched, edits, fired, unnoted>>
  BY DEF EnqueueUnit
<1>2. PICK k \in Nat \ {0}, u \in UnitRecs : JoinsUnits("tick", k, u)
  BY <1>0, UnitIsNew
<1>3. ticker.pc = "queueing" /\ job["tick"].sc = ticker.sc /\ job["tick"].pc = "queued"
  BY <1>2 DEF ClockInv, Queueing, JoinsUnits
<1>4. PICK sc \in SnapRecs : sc = ticker.sc
  BY <1>3, HandIs DEF Busy
<1>5. SnapFits(sc) /\ sc.id = s
  BY <1>3, <1>4, HandIs DEF Busy, HandFits
<1>6. job'["tick"].pc = "note" /\ job'["tick"].unit = k /\ job'["tick"].sc.id = s
  BY <1>2, NewOneIs
<1> SUFFICES ASSUME s \in DOMAIN sched PROVE RowFits(s)'
  BY <1>1 DEF RowFits
<1>7. edits'[s] > 0 /\ (fired'[s].edit = edits'[s] => sched'[s].next > fired'[s].at)
  BY <1>0, <1>1 DEF RowFits
<1>8. RowNames(s, k)'
  BY <1>1, <1>2, <1>3, <1>4, <1>5, <1>6 DEF RowNames, ClockUnit, NewOne, JoinsUnits, SnapFits
<1>9. ASSUME NEW i \in DOMAIN unit, i # k PROVE RowNames(s, i)'
  <2>1. RowNames(s, i) /\ ~NewOne(i, s)
    BY <1>0, <1>3 DEF RowFits, RowNames, NewOne
  <2> QED BY <1>1, <1>2, <2>1 DEF RowNames, ClockUnit, JoinsUnits
<1>10. \A i \in DOMAIN unit' : RowNames(s, i)'
  BY <1>2, <1>8, <1>9 DEF JoinsUnits
<1> QED BY <1>7, <1>10 DEF RowFits, RowNames

LEMMA RowFitsStep ==
    ASSUME ClockInv, ClockNext, NEW s \in Schedules
    PROVE  RowFits(s)'
<1>1. CASE TickRow /\ ticker.sc.id = s
  BY <1>1, RowFitsTick
<1>2. CASE \E p \in Queuers : NoteUnit(p) /\ job[p].sc.id = s
  BY <1>2, RowFitsNote
<1>3. CASE EnqueueUnit("tick") /\ job["tick"].sc.id = s
  BY <1>3, RowFitsUnit
<1>4. CASE fired'[s] # fired[s]
  <2>1. TickRow /\ ticker.sc.id = s
    BY <1>4, FiredIsKept DEF TickRow
  <2> QED BY <2>1, RowFitsTick
<1>5. CASE NoteUnit("tick") /\ job["tick"].sc.id = s
  BY <1>5, RowFitsNote DEF Queuers
<1>6. CASE RowKept(s) /\ UnitsKept(s) /\ NoteKept(s) /\ fired'[s] = fired[s]
  BY <1>6, RowFitsCalm
<1> QED BY <1>1, <1>2, <1>3, <1>4, <1>5, <1>6, RulesKept, UnitsAreKept, NoteIsKept

\* A unit of the clock is alone under its rule: there was nothing else when it was decided on.
LEMMA NoOverlapStep ==
    ASSUME ClockInv, ClockNext
    PROVE  NoOverlap'
<1>0. NoOverlap /\ (\A i \in DOMAIN unit : unit[i] \in UnitRecs) /\ unnoted \subseteq Schedules /\ "tick" \in Queuers
  BY DEF ClockInv, ClockTypes, UnitTypes, BookTypes, Queuers
<1>00. \A i \in DOMAIN unit' : unit'[i] \in UnitRecs
  BY UnitTypesStep DEF UnitTypes
<1> SUFFICES ASSUME NEW i \in DOMAIN unit', NEW j \in DOMAIN unit',
                    i # j, unit'[i].live, unit'[j].live, unit'[i].by = "tick", unit'[j].by = "tick",
                    unit'[i].of = unit'[j].of, unit'[i].edit = unit'[j].edit
             PROVE  unit'[i].onMiss = "run" \/ unit'[i].of \in unnoted'
  BY DEF NoOverlap
<1>1. PICK s \in Schedules : s = unit'[i].of
  BY <1>00 DEF UnitRecs
<1>2. RuleKept(s)
  BY RulesKept
<1>3. CASE UnitsKept(s)
  <2>1. /\ i \in DOMAIN unit /\ j \in DOMAIN unit /\ unit[i].live /\ unit[j].live
        /\ unit[i].by = "tick" /\ unit[j].by = "tick" /\ unit[i].of = s /\ unit[j].of = s
        /\ unit[i].edit = unit[j].edit /\ unit'[i].onMiss = unit[i].onMiss
    BY <1>1, <1>3 DEF UnitsKept
  <2>2. unit[i].onMiss = "run" \/ s \in unnoted
    BY <1>0, <2>1 DEF NoOverlap
  <2> QED BY <1>1, <1>2, <2>1, <2>2 DEF RuleKept
<1>4. CASE EnqueueUnit("tick") /\ job["tick"].sc.id = s
  <2>1. PICK k \in Nat \ {0}, u \in UnitRecs : JoinsUnits("tick", k, u)
    BY <1>0, <1>4, UnitIsNew
  <2>2. ticker.pc = "queueing" /\ job["tick"].sc = ticker.sc /\ job["tick"].pc = "queued" /\ UNCHANGED unnoted
    BY <1>4, <2>1 DEF ClockInv, Queueing, JoinsUnits, EnqueueUnit
  <2>3. PICK sc \in SnapRecs : sc = ticker.sc
    BY <2>2, HandIs DEF Busy
  <2>4. NothingElse(sc) /\ SnapFits(sc) /\ sc.id = s /\ u.edit = sc.edit /\ u.onMiss = sc.row.onMiss
    BY <1>4, <2>1, <2>2, <2>3, HandIs DEF Busy, HandFits, JoinsUnits
  <2>5. \A h \in DOMAIN unit : ClockUnit(h, s) /\ unit[h].live /\ unit[h].edit = sc.edit
                                => sc.row.onMiss # "skip" \/ s \in unnoted
    BY <2>2, <2>4 DEF NothingElse, NewOne
  <2>6. \A h \in DOMAIN unit : ClockUnit(h, s) /\ unit[h].edit = sc.edit => unit[h].onMiss = sc.row.onMiss
    BY <2>4 DEF SnapFits
  <2>7. u.onMiss \in {"skip", "run"} /\ \A h \in DOMAIN unit : unit[h].onMiss \in {"skip", "run"}
    BY <1>0 DEF UnitRecs, OnMiss
  <2>8. CASE i = k
    <3>1. j \in DOMAIN unit /\ ClockUnit(j, s) /\ unit[j].live /\ unit[j].edit = sc.edit
      BY <1>1, <2>1, <2>4, <2>8 DEF JoinsUnits, ClockUnit
    <3> QED BY <1>1, <2>1, <2>2, <2>4, <2>5, <2>7, <2>8, <3>1 DEF JoinsUnits
  <2>9. CASE j = k
    <3>1. /\ i \in DOMAIN unit /\ ClockUnit(i, s) /\ unit[i].live /\ unit[i].edit = sc.edit
          /\ unit'[i] = unit[i]
      BY <1>1, <2>1, <2>4, <2>9 DEF JoinsUnits, ClockUnit
    <3> QED BY <1>1, <2>2, <2>5, <2>6, <2>7, <3>1
  <2>10. CASE i # k /\ j # k
    <3>1. i \in DOMAIN unit /\ j \in DOMAIN unit /\ unit'[i] = unit[i] /\ unit'[j] = unit[j]
      BY <2>1, <2>10 DEF JoinsUnits
    <3> QED BY <1>0, <2>2, <3>1 DEF NoOverlap
  <2> QED BY <2>8, <2>9, <2>10
<1> QED BY <1>3, <1>4, UnitsAreKept

\* The tick goes on from one schedule in hand to the next, and from one set of due ones to the next.
LEMMA HandMoves ==
    ASSUME ClockInv, ClockNext
    PROVE  /\ Scan \/ ticker'.due \subseteq ticker.due
           /\ ticker'.pc \in Busy =>
                 \/ Decide
                 \/ /\ ticker.pc \in Busy /\ ticker'.sc = ticker.sc /\ ticker'.at = ticker.at
                    /\ \/ ticker' = ticker
                       \/ Fire /\ ticker.pc = "fire" /\ ticker'.pc = "queueing" /\ ticker'.next = ticker.next
                       \/ ticker.pc = "queueing" /\ ticker'.pc = "failed" /\ ticker'.next = ticker.next
                       \/ ticker.pc = "failed" /\ ticker'.pc = "off" /\ ticker'.next = ticker.next
                       \/ /\ SwitchOffRead /\ ticker.pc = "off" /\ ticker'.pc = "off2"
                          /\ ticker.sc.id \in DOMAIN sched /\ ticker'.next = sched[ticker.sc.id].next
<1>0. ClockTypes /\ ticker \in TickRecs /\ ticker.due \in SUBSET SnapRecs /\ Queueing
  BY DEF ClockInv, ClockTypes, TickTypes, TickRecs
<1>1. ASSUME NEW D \in SUBSET ticker.due, ticker' = Then(D) PROVE ticker'.pc \notin Busy /\ ticker'.due \subseteq ticker.due
  BY <1>0, <1>1, ThenFits DEF Busy
<1>2. ASSUME Rest PROVE ticker'.pc \notin Busy /\ ticker'.due \subseteq ticker.due
  BY <1>1, <1>2 DEF Rest, AfterRest
<1>3. CASE UNCHANGED ticker
  BY <1>3
<1>4. ASSUME NEW c, Goes(c)
      PROVE  /\ ticker'.pc = c /\ ticker'.sc = ticker.sc /\ ticker'.at = ticker.at /\ ticker'.next = ticker.next
             /\ ticker'.due = ticker.due
  BY <1>0, <1>4 DEF Goes, TickRecs
<1>5. CASE Scan
  <2>1. ticker'.pc \notin Busy
    BY <1>5 DEF Scan, NoTick, Busy
  <2> QED BY <1>5, <2>1
<1>6. CASE Decide
  <2>1. ticker'.due \subseteq ticker.due
    BY ZenonT(40), <1>0, <1>6, DecideMoves DEF TickRecs
  <2> QED BY <1>6, <2>1
<1>7. CASE DecideFails
  <2>1. PICK sc \in ticker.due : ticker' = Then(ticker.due \ {sc})
    BY <1>7 DEF DecideFails
  <2>2. ticker.due \ {sc} \in SUBSET ticker.due
    OBVIOUS
  <2> QED BY <1>1, <2>1, <2>2
<1>8. CASE AdvanceFails \/ Skip \/ SwitchOff
  BY <1>2, <1>8 DEF AdvanceFails, Skip, SwitchOff
<1>9. CASE Fire
  <2>1. ticker.pc = "fire" /\ (Rest \/ Goes("queueing"))
    BY <1>9 DEF Fire, At
  <2> QED BY <1>2, <1>4, <1>9, <2>1 DEF Busy
<1>10. CASE RecordFailure
  <2>1. ticker.pc = "failed" /\ (Rest \/ Goes("off"))
    BY <1>10 DEF RecordFailure, At, AfterFailure
  <2> QED BY <1>2, <1>4, <2>1 DEF Busy
<1>11. CASE SwitchOffRead
  <2>1. CASE Here
    <3>1. ticker.pc = "off" /\ ticker' = [ticker EXCEPT !.pc = "off2", !.next = sched[ticker.sc.id].next]
      BY <1>11, <2>1 DEF SwitchOffRead, At
    <3>2. /\ ticker'.pc = "off2" /\ ticker'.sc = ticker.sc /\ ticker'.at = ticker.at /\ ticker'.due = ticker.due
          /\ ticker'.next = sched[ticker.sc.id].next
      BY <1>0, <3>1 DEF TickRecs
    <3> QED BY <1>11, <2>1, <3>1, <3>2 DEF Here, Busy
  <2>2. CASE ~Here
    BY <1>2, <1>11, <2>2 DEF SwitchOffRead
  <2> QED BY <2>1, <2>2
<1>12. ASSUME NEW p \in Queuers, JobStep(p)
       PROVE  \/ UNCHANGED ticker \/ Rest \/ (Goes("failed") /\ ticker.pc = "queueing")
  <2>1. \/ UNCHANGED ticker
        \/ JobEnds(p, TRUE) \/ (JobEnds(p, FALSE) /\ job[p].pc # "none")
    BY <1>12 DEF JobStep, TargetRefuses, AcceptFiring, QueueRow, QueueRowFails, EnqueueUnit, EnqueueFails, SettleJob,
                 NoteUnit, NoteFails, JobAt
  <2>2. p = "tick" /\ job[p].pc # "none" => ticker.pc = "queueing"
    BY <1>0 DEF Queueing
  <2> QED BY <2>1, <2>2 DEF JobEnds, Rest, Goes
<1>13. CASE \E p \in Queuers : JobStep(p)
  BY <1>2, <1>3, <1>4, <1>12, <1>13 DEF Busy
<1>14. CASE ClockCrash
  BY <1>14 DEF ClockCrash, NoTick, Busy
<1>15. ASSUME \/ \E s \in Schedules : \/ \E kind \in Kinds, onMiss \in OnMiss : Create(s, kind, onMiss)
                                      \/ Delete(s) \/ LoseTarget(s)
              \/ \E o \in Operators : \/ \E s \in Schedules, columns \in Switches \cup Rulings : Reads(o, s, columns)
                                      \/ \E s \in Schedules : RunNow(o, s)
                                      \/ Write(o) \/ HangUp(o)
              \/ \E i \in DOMAIN unit : Settle(i) \/ PruneUnits(i)
              \/ ClockTick
       PROVE  UNCHANGED ticker
  BY <1>15 DEF Create, Delete, LoseTarget, Reads, RunNow, Write, HangUp, Settle, PruneUnits, ClockTick
<1> QED BY <1>0, <1>3, <1>5, <1>6, <1>7, <1>8, <1>9, <1>10, <1>11, <1>13, <1>14, <1>15, ClockCases DEF TickOnly, TickRow

\* What a scan reads is true as it is read.
LEMMA ScanFits ==
    ASSUME ClockInv, Scan
    PROVE  DueFits'
<1>0. /\ ClockTypes /\ job["tick"].pc = "none" /\ UNCHANGED <<now, sched, unit, job, edits, fired, unnoted>>
      /\ edits \in [Schedules -> Nat] /\ DOMAIN sched \subseteq Schedules
  BY DEF Scan, At, ClockInv, Queueing, ClockTypes, BookTypes, RowTypes
<1>1. PICK D \in SUBSET {Snapshot(s) : s \in {s \in Schedules : Due(s)}} :
         ticker' = [NoTick EXCEPT !.pc = "firing", !.due = D]
  BY DEF Scan
<1>2. ticker'.due = D
  BY <1>1 DEF NoTick
<1>3. ASSUME NEW sc \in D PROVE \E s \in DOMAIN sched : s = sc.id /\ sc = Snapshot(s) /\ sc.row = sched[s] /\ sc.edit = edits[s]
  <2>1. PICK s \in Schedules : Due(s) /\ sc = Snapshot(s)
    BY <1>1
  <2>2. s \in DOMAIN sched
    BY <2>1 DEF Due
  <2> QED BY <1>0, <2>1, <2>2, SnapTyped
<1>4. ASSUME NEW sc \in D PROVE (SnapFits(sc) /\ Ahead(sc) /\ Told(sc))'
  <2>1. PICK s \in DOMAIN sched : s = sc.id /\ sc.row = sched[s] /\ sc.edit = edits[s]
    BY <1>3
  <2>2. s \in Schedules /\ FiredFits(s) /\ RowFits(s) /\ edits[s] \in Nat
    BY <1>0 DEF ClockInv
  <2>3. SnapFits(sc)
    BY <2>1, <2>2 DEF SnapFits, FiredFits, RowFits
  <2>4. Ahead(sc)
    BY <2>1, <2>2 DEF Ahead, RowFits
  <2>5. Told(sc)
    BY <1>0, <2>1, <2>2 DEF Told, RowFits, NewOne
  <2> QED BY <1>0, <2>3, <2>4, <2>5 DEF SnapFits, Ahead, Told, ClockUnit
<1>5. \A a, b \in D : a.id = b.id => a = b
  BY <1>3
<1> QED BY <1>2, <1>4, <1>5 DEF DueFits

LEMMA DueFitsStep ==
    ASSUME ClockInv, ClockNext
    PROVE  DueFits'
<1>0. ClockTypes /\ DueFits /\ ticker.due \in SUBSET SnapRecs /\ Queueing
  BY DEF ClockInv, ClockTypes, TickTypes, TickRecs
<1>1. CASE Scan
  BY <1>1, ScanFits
<1>2. CASE ticker'.due \subseteq ticker.due
  <2>1. ASSUME NEW sc \in ticker.due PROVE (SnapFits(sc) /\ Ahead(sc) /\ Told(sc))'
    <3>0. sc \in SnapRecs /\ sc.id \in Schedules /\ SnapFits(sc) /\ Ahead(sc) /\ Told(sc)
      BY <1>0 DEF DueFits, SnapRecs
    <3>1. ticker.pc \in Busy => ticker.sc.id # sc.id
      BY HandIs DEF HandFits
    <3>2. UnitsKept(sc.id)
      <4>1. EnqueueUnit("tick") => ticker.pc = "queueing" /\ job["tick"].sc = ticker.sc
        BY <1>0 DEF EnqueueUnit, JobAt, Queueing
      <4> QED BY <3>0, <3>1, <4>1, UnitsAreKept DEF Busy
    <3>3. fired'[sc.id] = fired[sc.id]
      BY <3>0, <3>1, FiredIsKept DEF Busy
    <3> QED BY <3>0, <3>2, <3>3, SnapIsKept DEF Ahead
  <2> QED BY <1>0, <1>2, <2>1 DEF DueFits
<1> QED BY <1>1, <1>2, HandMoves

\* One that is decided about fires only where nothing of the clock's is left unfinished.
LEMMA DecideFits ==
    ASSUME ClockInv, Decide, NEW sc \in SnapRecs, ticker'.sc = sc
    PROVE  HandFits(sc)'
<1>0. /\ ClockTypes /\ DueFits /\ ticker \in TickRecs /\ now \in Nat /\ sc.id \in Schedules /\ sc.row.kind \in Kinds
      /\ UNCHANGED <<now, sched, unit, job, edits, fired, unnoted>>
  BY DEF ClockInv, ClockTypes, TickTypes, BookTypes, SnapRecs, Rows, Decide
<1>1. PICK d \in ticker.due, n \in Nat, c \in {"off", "skip", "fire"} :
        /\ n = NextAfter(d.row.kind, now)
        /\ ticker' = [ticker EXCEPT !.due = @ \ {d}, !.sc = d, !.next = n, !.at = now, !.pc = c]
        /\ c # "off" => n # Never
        /\ c = "fire" => ~(d.row.onMiss = "skip" /\ Unfinished(d.row.last))
  BY <1>0, DecideMoves
<1>2. d = sc /\ ticker'.due = ticker.due \ {d} /\ ticker'.next = n /\ ticker'.at = now /\ ticker'.pc = c
  BY <1>0, <1>1 DEF TickRecs
<1>3. SnapFits(sc) /\ Ahead(sc) /\ Told(sc) /\ \A x \in ticker.due \ {sc} : x.id # sc.id
  BY <1>0, <1>1, <1>2 DEF DueFits
<1>4. c = "fire" => NothingElse(sc)
  BY <1>1, <1>2, <1>3 DEF Told, NothingElse, Unfinished
<1>5. fired[sc.id].at <= now /\ (c # "off" => n > now)
  BY <1>0, <1>1, <1>2, NextIsLater DEF ClockInv, FiredFits
<1>6. now <= now
  BY <1>0
<1> QED BY <1>0, <1>1, <1>2, <1>3, <1>4, <1>5, <1>6
        DEF HandFits, SnapFits, Ahead, Told, NothingElse, ClockUnit, NewOne

\* Nothing of the clock's comes beside the schedule in hand but the unit it becomes itself.
LEMMA HandUnit ==
    ASSUME ClockInv, ClockNext, EnqueueUnit("tick"), NEW sc \in SnapRecs, ticker.sc = sc
    PROVE  HandFits(sc)'
<1>0. UNCHANGED <<now, sched, ticker, edits, fired, unnoted>> /\ job["tick"].pc = "queued" /\ "tick" \in Queuers
  BY DEF EnqueueUnit, JobAt, Queuers
<1>1. ticker.pc = "queueing" /\ job["tick"].sc = sc
  BY <1>0 DEF ClockInv, Queueing
<1>2. HandFits(sc)
  BY <1>1, HandIs DEF Busy
<1>3. PICK k \in Nat \ {0}, u \in UnitRecs : JoinsUnits("tick", k, u)
  BY <1>0, UnitIsNew
<1>4. job'["tick"].pc = "note" /\ job'["tick"].unit = k /\ job'["tick"].sc.id = sc.id
  BY <1>1, <1>3, NewOneIs
<1>5. /\ DOMAIN unit' = DOMAIN unit \cup {k} /\ unit'[k] = u /\ (\A i \in DOMAIN unit : unit'[i] = unit[i])
      /\ u.edit = sc.edit /\ u.onMiss = sc.row.onMiss /\ sc.edit \in Nat /\ k \notin DOMAIN unit
  BY <1>1, <1>3 DEF JoinsUnits, SnapRecs
<1>6. u.edit <= sc.edit
  BY <1>5
<1>7. SnapFits(sc)'
  BY <1>0, <1>2, <1>5, <1>6 DEF HandFits, SnapFits, ClockUnit
<1>8. NothingElse(sc)'
  BY <1>0, <1>1, <1>2, <1>4, <1>5 DEF HandFits, NothingElse, ClockUnit, NewOne
<1> QED BY <1>0, <1>1, <1>2, <1>7, <1>8 DEF HandFits

LEMMA InHandStep ==
    ASSUME ClockInv, ClockNext
    PROVE  InHand'
<1>0. ClockTypes /\ ticker \in TickRecs /\ Queueing /\ now \in Nat /\ "tick" \in Queuers
  BY DEF ClockInv, ClockTypes, TickTypes, BookTypes, Queuers
<1> SUFFICES ASSUME NEW sc \in SnapRecs, ticker'.pc \in Busy, ticker'.sc = sc PROVE HandFits(sc)'
  BY DEF InHand
<1>1. CASE Decide
  BY <1>1, DecideFits
<1>2. CASE /\ ticker.pc \in Busy /\ ticker'.sc = ticker.sc /\ ticker'.at = ticker.at
           /\ \/ ticker' = ticker
              \/ Fire /\ ticker.pc = "fire" /\ ticker'.pc = "queueing" /\ ticker'.next = ticker.next
              \/ ticker.pc = "queueing" /\ ticker'.pc = "failed" /\ ticker'.next = ticker.next
              \/ ticker.pc = "failed" /\ ticker'.pc = "off" /\ ticker'.next = ticker.next
              \/ /\ SwitchOffRead /\ ticker.pc = "off" /\ ticker'.pc = "off2"
                 /\ ticker.sc.id \in DOMAIN sched /\ ticker'.next = sched[ticker.sc.id].next
  <2>0. ticker.sc = sc /\ HandFits(sc) /\ sc.id \in Schedules /\ ticker.next \in Nat /\ ticker.at \in Nat
    BY <1>2, HandIs
  <2>00. /\ RuleKept(sc.id) /\ edits[sc.id] \in Nat /\ fired[sc.id] \in FiredRecs /\ fired'[sc.id] \in FiredRecs
         /\ FiredFits(sc.id) /\ RowFits(sc.id)
    BY <2>0, RulesKept, BookTypesStep DEF ClockInv, ClockTypes, BookTypes
  <2>1. CASE EnqueueUnit("tick")
    BY <2>0, <2>1, HandUnit
  <2>2. CASE ~EnqueueUnit("tick")
    <3>1. UnitsKept(sc.id)
      BY <2>0, <2>2, UnitsAreKept
    <3>2. SnapFits(sc)' /\ (Told(sc) => Told(sc)') /\ (NothingElse(sc) /\ NoteKept(sc.id) => NothingElse(sc)')
      BY <2>0, <3>1, SnapIsKept DEF HandFits
    <3>3. \A d \in ticker'.due : d.id # sc.id
      <4>1. ~Scan
        BY <1>2 DEF Scan, At, Busy
      <4> QED BY <2>0, <4>1, HandMoves DEF HandFits
    <3>4. fired'[sc.id] # fired[sc.id] => /\ ticker.pc = "fire" /\ ticker'.pc = "queueing"
                                          /\ fired'[sc.id].at = ticker.at
      <4>1. ASSUME fired'[sc.id] # fired[sc.id] PROVE Fire /\ ticker.pc = "fire" /\ fired'[sc.id].at = ticker.at
        BY <2>0, <4>1, FiredIsKept
      <4>2. ASSUME fired'[sc.id] # fired[sc.id] PROVE ticker'.pc = "queueing"
        <5>1. Goes("queueing") \/ UNCHANGED fired
          BY <4>1, <4>2 DEF Fire
        <5> QED BY <1>0, <4>2, <5>1 DEF Goes, TickRecs
      <4> QED BY <4>1, <4>2
    <3>5. ticker'.pc = "skip" => Told(sc)'
      BY <1>2, <2>0, <3>2 DEF HandFits
    <3>6. ticker'.pc = "fire" => Ahead(sc)'
      BY <1>2, <2>0, <3>4 DEF HandFits, Ahead
    <3>7. ticker'.pc \in {"fire", "queueing", "failed"} => NothingElse(sc)'
      <4>1. ticker'.pc \in {"fire", "queueing", "failed"} => NothingElse(sc)
        BY <1>2, <2>0 DEF HandFits
      <4>2. NoteKept(sc.id)
        <5>1. CASE NoteUnit("tick")
          <6>1. ticker' = Then(ticker.due)
            BY <5>1 DEF NoteUnit, JobEnds, AfterRest
          <6>2. ticker.due \in SUBSET SnapRecs
            BY <1>0 DEF TickRecs
          <6> QED BY <6>1, <6>2, ThenFits DEF Busy
        <5> QED BY <2>0, <5>1, NoteIsKept
      <4> QED BY <3>2, <4>1, <4>2
    <3>8. ticker'.pc \in {"skip", "fire", "queueing", "failed"} =>
             ticker'.next > ticker'.at /\ fired'[sc.id].at <= ticker'.at /\ ticker'.at <= now'
      <4>1. now' \in Nat /\ now' >= now
        BY <1>0, WhoWrites DEF ClockTick
      <4>2. ticker'.pc \in {"skip", "fire", "queueing", "failed"} =>
               /\ ticker'.next = ticker.next /\ ticker'.at = ticker.at /\ ticker.next > ticker.at
               /\ fired[sc.id].at <= ticker.at /\ ticker.at <= now
        BY <1>2, <2>0 DEF HandFits
      <4>3. fired'[sc.id].at = fired[sc.id].at \/ fired'[sc.id].at = ticker.at
        BY <3>4
      <4> QED BY <1>0, <2>0, <4>1, <4>2, <4>3
    <3>9. ticker'.pc = "off2" =>
             ticker'.next # Never /\ (fired'[sc.id].edit = edits'[sc.id] => ticker'.next > fired'[sc.id].at)
      <4> SUFFICES ASSUME ticker'.pc = "off2"
                   PROVE  ticker'.next # Never /\ (fired'[sc.id].edit = edits'[sc.id] => ticker'.next > fired'[sc.id].at)
        OBVIOUS
      <4>1. fired'[sc.id] = fired[sc.id]
        BY <3>4
      <4>2. fired[sc.id].edit = edits'[sc.id] => fired[sc.id].edit = edits[sc.id]
        <5>1. edits'[sc.id] \in Nat /\ edits'[sc.id] >= edits[sc.id]
          BY <2>00 DEF RuleKept
        <5>2. fired[sc.id].edit <= edits[sc.id] /\ fired[sc.id].edit \in Nat
          BY <2>00 DEF FiredFits, FiredRecs
        <5> QED BY <2>00, <5>1, <5>2
      <4>3. CASE ticker' = ticker
        BY <2>0, <4>1, <4>2, <4>3 DEF HandFits
      <4>4. CASE SwitchOffRead /\ sc.id \in DOMAIN sched /\ ticker'.next = sched[sc.id].next
        <5>1. sched[sc.id].next # Never
          BY <1>0, <4>4 DEF ClockTypes, RowTypes, Rows
        <5> QED BY <2>00, <4>1, <4>2, <4>4, <5>1 DEF RowFits
      <4> QED BY <1>2, <2>0, <4>3, <4>4
    <3> QED BY <3>2, <3>3, <3>5, <3>6, <3>7, <3>8, <3>9 DEF HandFits
  <2> QED BY <2>1, <2>2
<1> QED BY <1>1, <1>2, HandMoves

LEMMA ClockInvInit ==
    ASSUME ClockInit
    PROVE  ClockInv
<1>1. RowTypes /\ UnitTypes
  <2>1. DOMAIN sched = {} /\ DOMAIN unit = {} /\ 0 \in Nat
    BY DEF ClockInit
  <2> QED BY <2>1 DEF RowTypes, UnitTypes
<1>2. TickTypes /\ ticker.pc = "idle" /\ ticker.due = {}
  <2>1. NoTick \in TickRecs
    BY DEF NoTick, TickRecs, NoSnapshot, Never
  <2> QED BY <2>1 DEF TickTypes, ClockInit, NoTick, Busy
<1>3. JobTypes /\ \A p \in Queuers : job[p].pc = "none"
  BY DEF ClockInit, JobTypes, JobRecs, NoJob
<1>4. BookTypes
  <2>1. NoRequest \in Requests /\ NotFired \in FiredRecs
    BY DEF NoRequest, Requests, NotFired, FiredRecs
  <2>2. <<>> \in Seq(RunStates)
    OBVIOUS
  <2>3. 1 <= LastInstant /\ 0 \in 0..MaxClockFaults
    BY ClockConstants
  <2> QED BY <2>1, <2>2, <2>3 DEF ClockInit, BookTypes
<1>5. ASSUME NEW s \in Schedules PROVE FiredFits(s) /\ RowFits(s)
  BY DEF ClockInit, FiredFits, RowFits, NotFired
<1>6. DueFits /\ InHand
  BY <1>2 DEF DueFits, InHand, Busy
<1>7. Queueing
  BY <1>2, <1>3 DEF Queueing, Queuers
<1>8. NoOverlap /\ QueuedHasItsUnit
  <2>1. DOMAIN unit = {} /\ DOMAIN run = {}
    BY DEF ClockInit
  <2> QED BY <2>1 DEF NoOverlap, QueuedHasItsUnit
<1> QED BY <1>1, <1>2, <1>3, <1>4, <1>5, <1>6, <1>7, <1>8 DEF ClockInv, ClockTypes

LEMMA ClockInvStep ==
    ASSUME ClockInv, [ClockNext]_clockVars
    PROVE  ClockInv'
<1>1. CASE ClockNext
  BY <1>1, RowTypesStep, UnitTypesStep, TickTypesStep, JobTypesStep, BookTypesStep, FiredFitsStep, RowFitsStep,
     DueFitsStep, InHandStep, QueueingStep, NoOverlapStep, QueuedStep DEF ClockInv, ClockTypes
<1>2. CASE UNCHANGED clockVars
  BY <1>2 DEF clockVars, ClockInv, ClockTypes, RowTypes, UnitTypes, TickTypes, JobTypes, BookTypes, Accepted,
              FiredFits, RowFits, DueFits, InHand, HandFits, SnapFits, Ahead, Told, NothingElse, ClockUnit, NewOne,
              Queueing, NoOverlap, QueuedHasItsUnit, RowWaits, JobAt
<1> QED BY <1>1, <1>2

LEMMA ClockHolds == ClockSpec => []ClockInv
<1> QED BY ClockInvInit, ClockInvStep, PTL DEF ClockSpec

LEMMA ClockInvTypes == ASSUME ClockInv PROVE ClockTypeOK
<1>1. ClockTypes /\ DOMAIN run = Accepted
  BY LenProperties DEF ClockInv, ClockTypes, BookTypes, Accepted
<1>2. now \in 1..LastInstant
  BY <1>1, ClockConstants DEF ClockTypes, BookTypes
<1>3. ASSUME NEW i \in DOMAIN unit
      PROVE  i \in Nat \ {0} /\ unit[i].of \in Schedules /\ unit[i].live \in BOOLEAN /\ unit[i].run \in DOMAIN run
  <2>1. PICK n \in Nat : DOMAIN unit \subseteq 1..n
    BY <1>1 DEF ClockTypes, UnitTypes
  <2>2. i \in 1..n
    BY <2>1
  <2>3. unit[i] \in UnitRecs /\ unit[i].run \in Accepted
    BY <1>1 DEF ClockTypes, UnitTypes
  <2> QED BY <1>1, <2>2, <2>3 DEF UnitRecs
<1>4. \A n \in DOMAIN run : run[n] \in {"accepted", "queued", "settled"}
  BY <1>1 DEF ClockTypes, BookTypes, RunStates
<1>5. ticker.pc \in {"idle", "firing", "skip", "fire", "queueing", "failed", "off", "off2"}
  BY <1>1 DEF ClockTypes, TickTypes, TickRecs, Busy
<1>6. \A p \in Queuers : job[p].pc \in {"none", "target", "accepted", "queued", "unqueued", "note"}
  BY <1>1 DEF ClockTypes, JobTypes, JobRecs
<1> QED BY <1>1, <1>2, <1>3, <1>4, <1>5, <1>6 DEF ClockTypeOK, ClockTypes, RowTypes, BookTypes

\* The clock and its rows keep their types: whatever is edited, missed, crashed or run by hand, a
\* row always has a next instant, and a unit a row of the ledger (store.go, schedule_tick.go).
THEOREM ClockTyped == ClockSpec => []ClockTypeOK
<1>1. ClockInv => ClockTypeOK
  BY ClockInvTypes
<1> QED BY <1>1, ClockHolds, PTL

\* No instant of a schedule is fired twice and no firing is lost sight of: for every set of
\* schedules and operators, every bound and however they race with the clock, the firing that is won
\* was due after the one before it was decided, two unfinished jobs of a schedule that skips do not
\* stand beside each other, and a queued ledger row has its unit (schedule_tick.go fire and
\* queueScheduled, store.go Advance and NoteUnit).
THEOREM FiringsRight == ClockSpec => FiringsAreRight
<1>1. ClockInv => FiringsAreAccountedFor
  BY DEF ClockInv, FiringsAreAccountedFor
<1>2. ASSUME ClockInv, [ClockNext]_clockVars
      PROVE  [\A s \in Schedules : fired'[s] # fired[s] /\ fired'[s].edit = fired[s].edit
                 => fired'[s].instant > fired[s].at]_clockVars
  <2>1. CASE UNCHANGED clockVars
    BY <2>1
  <2>2. ASSUME ClockNext, NEW s \in Schedules, fired'[s] # fired[s], fired'[s].edit = fired[s].edit
        PROVE  fired'[s].instant > fired[s].at
    <3>1. /\ ticker.pc = "fire" /\ ticker.sc.id = s /\ fired'[s].instant = ticker.sc.row.next
          /\ fired'[s].edit = ticker.sc.edit
      BY <1>2, <2>2, FiredIsKept
    <3>2. Ahead(ticker.sc)
      BY <1>2, <3>1, HandIs DEF HandFits, Busy
    <3> QED BY <2>2, <3>1, <3>2 DEF Ahead
  <2> QED BY <1>2, <2>1, <2>2
<1> QED BY <1>1, <1>2, ClockHolds, PTL DEF ClockSpec, FiringsAreRight, FiringsAreNew

===============================================================================
