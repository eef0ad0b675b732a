------------------------------ MODULE ToolProofs ------------------------------
(***************************************************************************)
(* What is promised of what agents and operators work with: that the gear  *)
(* that runs is what an administrator approved (GearApproval) and its way  *)
(* to the network is logged as it was taken (GearGate), that connections   *)
(* to MCP servers are lent to one call at a time (McpPool), that a         *)
(* terminal shows whoever is attached what the shell printed               *)
(* (TerminalSession), and that a rollback loses nothing and lands          *)
(* (WorkflowVersions); for any sets of actors, bounds and numbers of       *)
(* faults.                                                                 *)
(***************************************************************************)
EXTENDS MCTools, ScheduleClockProofs, SequenceTheorems, FiniteSetTheorems, TLAPS

------------------------------------------------------------------------------
(* Approval.                                                               *)

GearRecs   == [there : BOOLEAN, id : Nat, files : Seq(Nat), status : {"pending", "approved", "disabled"},
               net : BOOLEAN, netFor : Nat]
RulingRecs == [pc : {"idle", "granting", "ruling", "naming", "telling", "sweeping"}, id : Nat,
               status : {"none", "approved", "disabled"}, net : {"grant", "deny", "as is"},
               decided : Nat, named : Nat, alone : BOOLEAN]
CallRecs   == [pc : {"idle", "opening", "resolving", "preparing", "running", "recording", "leaving"},
               n : Nat, id : Nat, version : Nat, net : BOOLEAN, netFor : Nat, dry : BOOLEAN,
               values : BOOLEAN, ticket : BOOLEAN, content : Nat, dir : BOOLEAN, left : BOOLEAN,
               gone : BOOLEAN]

GearTypes ==
    /\ gear \in GearRecs /\ admin \in [Admins -> RulingRecs] /\ runner \in [Runners -> CallRecs]
    /\ forged \in 0..MaxForgings /\ calls \in Nat

\* What the row says fits the files there are: it is granted the network for the newest
\* of them, and approved when that was.
GearFits ==
    /\ gear.there <=> Len(gear.files) > 0
    /\ gear.id <= forged
    /\ \A k \in 1..Len(gear.files) : gear.files[k] \in 1..forged
    /\ gear.net => gear.there /\ gear.netFor = Content
    /\ ~gear.net => gear.netFor = 0
    /\ gear.there /\ gear.status = "approved" => Content \in approvals
    /\ approvals \subseteq 1..forged

\* As long as the gear a call has read is there, so are the files it has read, approved
\* and granted the network as they were, whatever was forged and decided since.
CallFits(r) ==
    /\ runner[r].pc # "idle" => runner[r].n \in 1..calls /\ runner[r].version > 0
    /\ runner[r].values => ~runner[r].dry
    /\ runner[r].ticket => runner[r].net
    /\ runner[r].pc # "idle" /\ ~runner[r].gone =>
          /\ Is(runner[r].id) /\ runner[r].version \in 1..Len(gear.files)
          /\ ~runner[r].dry =>
                /\ gear.files[runner[r].version] \in approvals
                /\ runner[r].net => runner[r].netFor = gear.files[runner[r].version]
    /\ runner[r].pc \in {"running", "recording", "leaving"} /\ ~runner[r].gone =>
          runner[r].content = gear.files[runner[r].version]
CallsFit == \A r \in Runners : CallFits(r)

\* Who is alone with the row finds there what he has written.
RulingFits(a) ==
    /\ admin[a].pc \in {"ruling", "naming", "telling"} => admin[a].status # "none"
    /\ admin[a].pc = "ruling" /\ admin[a].alone /\ admin[a].net # "as is" =>
          Is(admin[a].id) /\ gear.net = (admin[a].net = "grant")
RulingsFit == \A a \in Admins : RulingFits(a)

\* The approval that counts is on the trail, or on its way there as an approval, or lost.
ToldOrLost ==
    gear.there /\ gear.status = "approved" =>
       \/ \E t \in trail : t.decided = Content /\ t.status = "approved"
       \/ \E a \in Admins : /\ admin[a].pc \in {"naming", "telling"}
                            /\ admin[a].decided = Content /\ admin[a].status = "approved"
       \/ <<"version", Content>> \in lost

RunsCounted ==
    /\ ledger \subseteq ran /\ ran \subseteq 1..calls
    /\ \A r \in Runners : RunnerAt(r, "recording") => runner[r].n \in ran

GearInv ==
    GearTypes /\ GearFits /\ CallsFit /\ RulingsFit /\ ToldOrLost /\ RunsCounted /\ RunIsRecorded

LEMMA GearInvInit == GearInit => GearInv
<1> SUFFICES ASSUME GearInit PROVE GearInv
  OBVIOUS
<1>1. GearTypes
  <2>1. NoGear \in GearRecs
    <3>1. <<>> \in Seq(Nat)
      OBVIOUS
    <3> QED BY <3>1 DEF NoGear, GearRecs
  <2>2. NoRuling \in RulingRecs
    BY DEF NoRuling, RulingRecs
  <2>3. NoCall \in CallRecs
    BY DEF NoCall, CallRecs
  <2> QED BY <2>1, <2>2, <2>3, GearConstants DEF GearInit, GearTypes
<1>2. GearFits
  BY DEF GearInit, GearFits, NoGear, Content
<1>3. CallsFit /\ RulingsFit
  BY DEF GearInit, CallsFit, CallFits, RulingsFit, RulingFits, NoRuling, NoCall
<1>4. ToldOrLost
  BY DEF GearInit, ToldOrLost, NoGear
<1>5. RunsCounted /\ RunIsRecorded
  BY DEF GearInit, RunsCounted, RunIsRecorded, RunnerAt, NoCall
<1> QED BY <1>1, <1>2, <1>3, <1>4, <1>5 DEF GearInv

\* What the invariant promises.
LEMMA GearInvMeans == GearInv => GearTypeOK /\ RunsWhatWasApproved /\ TrailIsWhole
<1> SUFFICES ASSUME GearInv PROVE GearTypeOK /\ RunsWhatWasApproved /\ TrailIsWhole
  OBVIOUS
<1>1. GearTypeOK
  <2>1. gear.id \in 0..MaxForgings /\ gear.status \in {"pending", "approved", "disabled"}
    BY GearConstants DEF GearInv, GearTypes, GearFits, GearRecs
  <2>2. \A k \in DOMAIN gear.files : gear.files[k] \in 1..forged
    BY DEF GearInv, GearTypes, GearFits, GearRecs
  <2>3. gear.there = (gear.files # <<>>)
    BY DEF GearInv, GearTypes, GearFits, GearRecs
  <2>4. gear.net = (gear.netFor # 0)
    BY DEF GearInv, GearTypes, GearFits, GearRecs, Content
  <2> QED BY <2>1, <2>2, <2>3, <2>4 DEF GearTypeOK, GearInv, GearFits, RunsCounted
<1>2. RunsWhatWasApproved
  BY DEF RunsWhatWasApproved, GearInv, GearTypes, CallsFit, CallFits, CallRecs
<1>3. TrailIsWhole
  BY DEF TrailIsWhole, ApprovalIsTold, GearInv, ToldOrLost
<1> QED BY <1>1, <1>2, <1>3

\* A call moves on alone; what it has read stays what it was.
LEMMA CallWorks ==
    ASSUME GearInv, NEW r \in Runners, NEW c \in CallRecs, Runs(r, c),
           UNCHANGED <<gear, forged, approvals, trail, admin>>, lost \subseteq lost',
           calls' = calls \/ calls' = calls + 1,
           c.pc # "idle" => c.n \in 1..calls' /\ c.version > 0,
           c.values => ~c.dry,
           c.ticket => c.net,
           c.pc # "idle" /\ ~c.gone =>
              /\ Is(c.id) /\ c.version \in 1..Len(gear.files)
              /\ ~c.dry => /\ gear.files[c.version] \in approvals
                           /\ c.net => c.netFor = gear.files[c.version],
           c.pc \in {"running", "recording", "leaving"} /\ ~c.gone => c.content = gear.files[c.version]
    PROVE  /\ GearTypes' /\ GearFits' /\ CallsFit' /\ RulingsFit' /\ ToldOrLost'
           /\ runner'[r] = c /\ \A q \in Runners : q # r => runner'[q] = runner[q]
<1>1. runner' \in [Runners -> CallRecs] /\ runner'[r] = c /\ \A q \in Runners : q # r => runner'[q] = runner[q]
  BY DEF Runs, GearInv, GearTypes
<1>2. GearTypes' /\ calls \in Nat
  BY <1>1 DEF GearInv, GearTypes
<1>3. GearFits'
  BY DEF GearInv, GearFits, Content
<1>4. CallsFit'
  <2> SUFFICES ASSUME NEW q \in Runners PROVE CallFits(q)'
    BY DEF CallsFit
  <2>1. CASE q = r
    BY <1>1, <2>1 DEF CallFits, Is
  <2>2. CASE q # r
    BY <1>1, <1>2, <2>2 DEF GearInv, CallsFit, CallFits, Is
  <2> QED BY <2>1, <2>2
<1>5. RulingsFit'
  BY DEF GearInv, RulingsFit, RulingFits, Is
<1>6. ToldOrLost'
  BY DEF GearInv, ToldOrLost, Content
<1> QED BY <1>1, <1>2, <1>3, <1>4, <1>5, <1>6

\* A call that goes on with what it has read.
LEMMA CallGoesOn ==
    ASSUME GearInv, NEW r \in Runners, NEW c \in CallRecs, Runs(r, c),
           UNCHANGED <<gear, forged, approvals, trail, admin, calls>>, lost \subseteq lost',
           runner[r].pc # "idle",
           c.n = runner[r].n, c.id = runner[r].id, c.version = runner[r].version, c.dry = runner[r].dry,
           c.net = runner[r].net, c.netFor = runner[r].netFor, c.gone = runner[r].gone,
           c.values => ~c.dry,
           c.ticket => c.net,
           c.pc \in {"running", "recording", "leaving"} /\ ~c.gone => c.content = gear.files[c.version]
    PROVE  /\ GearTypes' /\ GearFits' /\ CallsFit' /\ RulingsFit' /\ ToldOrLost'
           /\ runner'[r] = c /\ \A q \in Runners : q # r => runner'[q] = runner[q]
<1>1. /\ runner[r].n \in 1..calls /\ runner[r].version > 0
      /\ ~runner[r].gone =>
          /\ Is(runner[r].id) /\ runner[r].version \in 1..Len(gear.files)
          /\ ~runner[r].dry =>
                /\ gear.files[runner[r].version] \in approvals
                /\ runner[r].net => runner[r].netFor = gear.files[runner[r].version]
  BY DEF GearInv, CallsFit, CallFits
<1> QED BY <1>1, CallWorks

\* No process ends and nothing is recorded: who was recording still is.
LEMMA RecordsStay ==
    ASSUME GearInv, NEW r \in Runners, runner[r].pc # "recording",
           \A q \in Runners : q # r => runner'[q] = runner[q],
           UNCHANGED <<ran, ledger>>, lost \subseteq lost'
    PROVE  RunIsRecorded'
BY DEF GearInv, RunIsRecorded, RunnerAt

\* Nor does a call begin to be recorded.
LEMMA CountsStay ==
    ASSUME GearInv, NEW r \in Runners, runner'[r].pc # "recording",
           \A q \in Runners : q # r => runner'[q] = runner[q],
           UNCHANGED <<ran, ledger>>, calls' = calls \/ calls' = calls + 1
    PROVE  RunsCounted'
BY DEF GearInv, GearTypes, RunsCounted, RunnerAt

LEMMA RunnerStep ==
    ASSUME GearInv, NEW r \in Runners,
           \/ CallGear(r) \/ OpenNetwork(r) \/ ResolveEnv(r) \/ Materialize(r)
           \/ FailToStart(r) \/ EndProcess(r) \/ RecordRun(r) \/ LeaveRun(r)
    PROVE  GearInv'
<1>0. /\ runner[r] \in CallRecs /\ gear \in GearRecs /\ NoCall \in CallRecs /\ calls \in Nat
      /\ CallFits(r) /\ RunsCounted
  BY DEF GearInv, GearTypes, NoCall, CallRecs, CallsFit
<1>n. NoCall.pc = "idle" /\ ~NoCall.values /\ ~NoCall.ticket
  BY DEF NoCall
<1>1. CASE CallGear(r)
  <2>1. PICK dry \in BOOLEAN, lent \in BOOLEAN :
           /\ dry \/ (gear.status = "approved" /\ ~lent)
           /\ Runs(r, [NoCall EXCEPT !.pc = "opening", !.n = calls + 1, !.id = gear.id,
                        !.version = Len(gear.files), !.dry = dry,
                        !.net = gear.net \/ lent, !.netFor = gear.netFor])
    BY <1>1 DEF CallGear
  <2> DEFINE c == [NoCall EXCEPT !.pc = "opening", !.n = calls + 1, !.id = gear.id,
                        !.version = Len(gear.files), !.dry = dry,
                        !.net = gear.net \/ lent, !.netFor = gear.netFor]
  <2>2. /\ runner[r].pc = "idle" /\ gear.there /\ calls' = calls + 1
        /\ UNCHANGED <<gear, forged, approvals, trail, admin, ran, ledger, lost>>
    BY <1>1 DEF CallGear, RunnerAt, OnlyRuns, books
  <2>3. /\ gear.id \in Nat /\ gear.netFor \in Nat /\ Len(gear.files) \in Nat
        /\ (gear.net \/ lent) \in BOOLEAN /\ calls + 1 \in Nat
    BY <1>0 DEF GearRecs
  <2>4. c \in CallRecs /\ c.pc = "opening" /\ c.n = calls + 1 /\ c.id = gear.id /\ c.version = Len(gear.files)
        /\ c.dry = dry /\ c.net = (gear.net \/ lent) /\ c.netFor = gear.netFor /\ c.gone = FALSE
        /\ c.values = FALSE /\ c.ticket = FALSE
    BY <2>3 DEF NoCall, CallRecs
  <2> HIDE DEF c
  <2>5. Is(c.id) /\ c.version \in 1..Len(gear.files)
    BY <1>0, <2>2, <2>3, <2>4 DEF Is, GearInv, GearFits
  <2>6. ~c.dry => /\ gear.files[c.version] \in approvals
                  /\ c.net => c.netFor = gear.files[c.version]
    BY <2>1, <2>2, <2>4 DEF GearInv, GearFits, Content
  <2>7. Runs(r, c)
    BY <2>1 DEF c
  <2>8. /\ GearTypes' /\ GearFits' /\ CallsFit' /\ RulingsFit' /\ ToldOrLost'
        /\ runner'[r] = c /\ \A q \in Runners : q # r => runner'[q] = runner[q]
    BY <1>0, <2>2, <2>4, <2>5, <2>6, <2>7, CallWorks
  <2>9. RunIsRecorded' /\ RunsCounted'
    BY <2>2, <2>4, <2>8, RecordsStay, CountsStay
  <2> QED BY <2>8, <2>9 DEF GearInv
<1>2. CASE OpenNetwork(r) \/ ResolveEnv(r) \/ Materialize(r)
  <2>1. /\ runner[r].pc \in {"opening", "resolving", "preparing"}
        /\ UNCHANGED <<gear, forged, approvals, trail, admin, ran, ledger, lost, calls>>
    BY <1>2 DEF OpenNetwork, ResolveEnv, Materialize, RunnerAt, OnlyRuns, books
  <2>2. \E c \in CallRecs :
           /\ Runs(r, c) /\ c.pc \in {"resolving", "preparing", "running"}
           /\ c.n = runner[r].n /\ c.id = runner[r].id /\ c.version = runner[r].version
           /\ c.dry = runner[r].dry /\ c.net = runner[r].net /\ c.netFor = runner[r].netFor
           /\ c.gone = runner[r].gone /\ (c.values => ~c.dry) /\ (c.ticket => c.net)
           /\ c.pc \in {"running", "recording", "leaving"} /\ ~c.gone => c.content = gear.files[c.version]
    <3>1. CASE OpenNetwork(r)
      <4> DEFINE c == [runner[r] EXCEPT !.pc = "resolving", !.ticket = runner[r].net]
      <4>1. c \in CallRecs /\ Runs(r, c)
        BY <1>0, <3>1 DEF OpenNetwork, CallRecs
      <4> QED BY <1>0, <4>1 DEF CallRecs, CallFits
    <3>2. CASE ResolveEnv(r)
      <4> DEFINE c == [runner[r] EXCEPT !.pc = "preparing", !.values = ~runner[r].dry]
      <4>1. c \in CallRecs /\ Runs(r, c)
        BY <1>0, <3>2 DEF ResolveEnv, CallRecs
      <4>2. c.n = runner[r].n /\ c.id = runner[r].id /\ c.version = runner[r].version
            /\ c.dry = runner[r].dry /\ c.net = runner[r].net /\ c.netFor = runner[r].netFor
            /\ c.gone = runner[r].gone /\ c.ticket = runner[r].ticket /\ c.pc = "preparing"
        BY <1>0 DEF CallRecs
      <4>3. c.values = ~runner[r].dry
        BY <1>0 DEF CallRecs
      <4> HIDE DEF c
      <4> QED BY <1>0, <4>1, <4>2, <4>3 DEF CallFits
    <3>3. CASE Materialize(r)
      <4> DEFINE v == runner[r].version
                 x == IF Is(runner[r].id) /\ v <= Len(gear.files) THEN gear.files[v] ELSE 0
                 c == [runner[r] EXCEPT !.pc = "running", !.dir = TRUE, !.content = x]
      <4>1. Runs(r, c)
        BY <3>3 DEF Materialize
      <4>2. ~runner[r].gone => x = gear.files[v] /\ v \in 1..Len(gear.files)
        BY <1>0, <2>1 DEF CallFits, CallRecs, GearRecs
      <4>3. c.n = runner[r].n /\ c.id = runner[r].id /\ c.version = runner[r].version
            /\ c.dry = runner[r].dry /\ c.net = runner[r].net /\ c.netFor = runner[r].netFor
            /\ c.gone = runner[r].gone /\ c.values = runner[r].values /\ c.ticket = runner[r].ticket
            /\ c.content = x /\ c.pc = "running"
        BY <1>0 DEF CallRecs
      <4>4. c \in CallRecs
        <5>1. x \in Nat
          <6>1. v \in Nat /\ v > 0
            BY <1>0, <2>1 DEF CallFits, CallRecs
          <6>2. gear.files \in Seq(Nat)
            BY <1>0 DEF GearRecs
          <6>3. v <= Len(gear.files) => gear.files[v] \in Nat
            BY <6>1, <6>2
          <6> QED BY <6>3
        <5> HIDE DEF x
        <5> QED BY <1>0, <5>1 DEF CallRecs
      <4> HIDE DEF c, x, v
      <4> QED BY <1>0, <4>1, <4>2, <4>3, <4>4 DEF CallFits, v
    <3> QED BY <1>2, <3>1, <3>2, <3>3
  <2>3. /\ GearTypes' /\ GearFits' /\ CallsFit' /\ RulingsFit' /\ ToldOrLost'
        /\ \A q \in Runners : q # r => runner'[q] = runner[q]
        /\ runner'[r].pc \in {"resolving", "preparing", "running"}
    BY <2>1, <2>2, CallGoesOn
  <2>4. RunIsRecorded' /\ RunsCounted'
    BY <2>1, <2>3, RecordsStay, CountsStay
  <2> QED BY <2>3, <2>4 DEF GearInv
<1>3. CASE FailToStart(r) \/ LeaveRun(r)
  <2>1. /\ runner[r].pc \in {"opening", "resolving", "preparing", "leaving"} /\ Runs(r, NoCall)
        /\ UNCHANGED <<gear, forged, approvals, trail, admin, ran, ledger, lost, calls>>
    BY <1>3 DEF FailToStart, LeaveRun, RunnerAt, OnlyRuns, books
  <2>2. /\ GearTypes' /\ GearFits' /\ CallsFit' /\ RulingsFit' /\ ToldOrLost'
        /\ runner'[r] = NoCall /\ \A q \in Runners : q # r => runner'[q] = runner[q]
    BY <1>0, <1>n, <2>1, CallWorks
  <2>3. RunIsRecorded' /\ RunsCounted'
    BY <1>n, <2>1, <2>2, RecordsStay, CountsStay
  <2> QED BY <2>2, <2>3 DEF GearInv
<1>4. CASE EndProcess(r)
  <2>1. /\ runner[r].pc = "running" /\ ran' = ran \cup {runner[r].n}
        /\ UNCHANGED <<gear, forged, approvals, trail, admin, ledger, lost, calls>>
    BY <1>4 DEF EndProcess, RunnerAt
  <2>2. \E c \in CallRecs :
           /\ Runs(r, c) /\ c.pc = "recording"
           /\ c.n = runner[r].n /\ c.id = runner[r].id /\ c.version = runner[r].version
           /\ c.dry = runner[r].dry /\ c.net = runner[r].net /\ c.netFor = runner[r].netFor
           /\ c.gone = runner[r].gone /\ c.values = runner[r].values /\ c.ticket = runner[r].ticket
           /\ c.content = runner[r].content
    <3> DEFINE c == [runner[r] EXCEPT !.pc = "recording"]
               d == [runner[r] EXCEPT !.pc = "recording", !.left = TRUE]
    <3>1. c \in CallRecs /\ d \in CallRecs
      BY <1>0 DEF CallRecs
    <3>2. Runs(r, c) \/ Runs(r, d)
      BY <1>4 DEF EndProcess
    <3>3. /\ c.pc = "recording" /\ c.n = runner[r].n /\ c.id = runner[r].id
          /\ c.version = runner[r].version /\ c.dry = runner[r].dry /\ c.net = runner[r].net
          /\ c.netFor = runner[r].netFor /\ c.gone = runner[r].gone /\ c.values = runner[r].values
          /\ c.ticket = runner[r].ticket /\ c.content = runner[r].content
      BY <1>0 DEF CallRecs
    <3>4. /\ d.pc = "recording" /\ d.n = runner[r].n /\ d.id = runner[r].id
          /\ d.version = runner[r].version /\ d.dry = runner[r].dry /\ d.net = runner[r].net
          /\ d.netFor = runner[r].netFor /\ d.gone = runner[r].gone /\ d.values = runner[r].values
          /\ d.ticket = runner[r].ticket /\ d.content = runner[r].content
      BY <1>0 DEF CallRecs
    <3> HIDE DEF c, d
    <3> QED BY <3>1, <3>2, <3>3, <3>4
  <2>3. PICK c \in CallRecs :
           /\ Runs(r, c) /\ c.pc = "recording"
           /\ c.n = runner[r].n /\ c.id = runner[r].id /\ c.version = runner[r].version
           /\ c.dry = runner[r].dry /\ c.net = runner[r].net /\ c.netFor = runner[r].netFor
           /\ c.gone = runner[r].gone /\ c.values = runner[r].values /\ c.ticket = runner[r].ticket
           /\ c.content = runner[r].content
    BY <2>2
  <2>4. /\ GearTypes' /\ GearFits' /\ CallsFit' /\ RulingsFit' /\ ToldOrLost'
        /\ runner'[r] = c /\ \A q \in Runners : q # r => runner'[q] = runner[q]
    BY <1>0, <2>1, <2>3, CallGoesOn DEF CallFits
  <2>5. RunIsRecorded'
    <3> SUFFICES ASSUME NEW n \in ran' PROVE (n \in ledger \/ <<"call", n>> \in lost
                   \/ \E q \in Runners : RunnerAt(q, "recording") /\ runner[q].n = n)'
      BY DEF RunIsRecorded
    <3>1. CASE n = runner[r].n
      BY <2>3, <2>4, <3>1 DEF RunnerAt
    <3>2. CASE n \in ran
      <4>1. n \in ledger \/ <<"call", n>> \in lost
            \/ \E q \in Runners : runner[q].pc = "recording" /\ runner[q].n = n
        BY <3>2 DEF GearInv, RunIsRecorded, RunnerAt
      <4>2. \A q \in Runners : runner[q].pc = "recording" => runner'[q] = runner[q]
        BY <2>1, <2>4
      <4> QED BY <2>1, <4>1, <4>2 DEF RunnerAt
    <3> QED BY <2>1, <3>1, <3>2
  <2>6. RunsCounted'
    BY <1>0, <2>1, <2>3, <2>4 DEF RunsCounted, CallFits, RunnerAt
  <2> QED BY <2>4, <2>5, <2>6 DEF GearInv
<1>5. CASE RecordRun(r)
  <2>1. /\ runner[r].pc = "recording" /\ lost \subseteq lost' /\ ledger \subseteq ledger'
        /\ runner[r].n \in ledger' \/ <<"call", runner[r].n>> \in lost'
        /\ ledger' \subseteq ledger \cup {runner[r].n}
        /\ UNCHANGED <<gear, forged, approvals, trail, admin, ran, calls>>
        /\ Runs(r, [runner[r] EXCEPT !.pc = "leaving"])
    BY <1>5 DEF RecordRun, RunnerAt
  <2> DEFINE c == [runner[r] EXCEPT !.pc = "leaving"]
  <2>2. c \in CallRecs /\ c.pc = "leaving"
        /\ c.n = runner[r].n /\ c.id = runner[r].id /\ c.version = runner[r].version
        /\ c.dry = runner[r].dry /\ c.net = runner[r].net /\ c.netFor = runner[r].netFor
        /\ c.gone = runner[r].gone /\ c.values = runner[r].values /\ c.ticket = runner[r].ticket
        /\ c.content = runner[r].content
    BY <1>0 DEF CallRecs
  <2>3. Runs(r, c)
    BY <2>1
  <2> HIDE DEF c
  <2>4. /\ GearTypes' /\ GearFits' /\ CallsFit' /\ RulingsFit' /\ ToldOrLost'
        /\ runner'[r] = c /\ \A q \in Runners : q # r => runner'[q] = runner[q]
    BY <1>0, <2>1, <2>2, <2>3, CallGoesOn DEF CallFits
  <2>5. RunIsRecorded'
    BY <2>1, <2>4 DEF GearInv, RunIsRecorded, RunnerAt
  <2>6. RunsCounted'
    BY <1>0, <2>1, <2>2, <2>4 DEF RunsCounted, RunnerAt
  <2> QED BY <2>4, <2>5, <2>6 DEF GearInv
<1> QED BY <1>1, <1>2, <1>3, <1>4, <1>5

\* A decision moves on; only what concerns its own row, or those who are alone, matters.
LEMMA AdminMoves ==
    ASSUME GearInv, NEW a \in Admins, NEW k \in RulingRecs, Rules(a, k) \/ admin' = [admin EXCEPT ![a] = k]
    PROVE  /\ admin' \in [Admins -> RulingRecs] /\ admin'[a] = k
           /\ \A b \in Admins : b # a =>
                 /\ admin'[b].pc = admin[b].pc /\ admin'[b].id = admin[b].id
                 /\ admin'[b].status = admin[b].status /\ admin'[b].net = admin[b].net
                 /\ admin'[b].decided = admin[b].decided
                 /\ admin'[b].alone => admin[b].alone
                 /\ Rules(a, k) => ~admin'[b].alone
<1>1. admin \in [Admins -> RulingRecs]
  BY DEF GearInv, GearTypes
<1>2. CASE admin' = [admin EXCEPT ![a] = k]
  <2>1. ~Rules(a, k) \/ \A b \in Admins : b # a => ~admin'[b].alone
    <3>1. ASSUME Rules(a, k), NEW b \in Admins, b # a PROVE ~admin'[b].alone
      <4>1. admin'[b] = [admin[b] EXCEPT !.alone = @ /\ b = a]
        BY <3>1 DEF Rules, Crossed
      <4> QED BY <1>1, <3>1, <4>1 DEF RulingRecs
    <3> QED BY <3>1
  <2> QED BY <1>1, <1>2, <2>1
<1>3. CASE Rules(a, k)
  <2>1. admin'[a] = k
    BY <1>3 DEF Rules, Crossed
  <2>2. ASSUME NEW b \in Admins, b # a
        PROVE  /\ admin'[b] \in RulingRecs /\ ~admin'[b].alone
               /\ admin'[b].pc = admin[b].pc /\ admin'[b].id = admin[b].id
               /\ admin'[b].status = admin[b].status /\ admin'[b].net = admin[b].net
               /\ admin'[b].decided = admin[b].decided
    <3>1. admin'[b] = [admin[b] EXCEPT !.alone = @ /\ b = a]
      BY <1>3, <2>2 DEF Rules, Crossed
    <3> QED BY <1>1, <2>2, <3>1 DEF RulingRecs
  <2>3. admin' = [b \in Admins |-> admin'[b]]
    BY <1>3 DEF Rules, Crossed
  <2> QED BY <2>1, <2>2, <2>3
<1> QED BY <1>2, <1>3

\* A step of an administrator that leaves the gear and the calls alone.
LEMMA AdminWorks ==
    ASSUME GearInv, NEW a \in Admins, NEW k \in RulingRecs, admin' = [admin EXCEPT ![a] = k],
           UNCHANGED <<gear, forged, ledger, approvals, ran, calls>>,
           \/ runner' = runner
           \/ runner' = [r \in Runners |-> [runner[r] EXCEPT !.dir = FALSE]],
           trail \subseteq trail', lost \subseteq lost',
           k.pc \in {"idle", "granting"} \/ (k.pc = "ruling" /\ k.net = "as is" /\ k.status # "none")
              \/ (k.pc = "telling" /\ admin[a].pc = "naming" /\ k.decided = admin[a].decided
                                   /\ k.status = admin[a].status),
           admin[a].pc \in {"naming", "telling"} /\ admin[a].status = "approved" =>
              \/ k.pc = "telling"
              \/ \E t \in trail' : t.decided = admin[a].decided /\ t.status = "approved"
              \/ <<"version", admin[a].decided>> \in lost'
    PROVE  GearInv'
<1>1. /\ admin' \in [Admins -> RulingRecs] /\ admin'[a] = k
      /\ \A b \in Admins : b # a => admin'[b] = admin[b]
  BY DEF GearInv, GearTypes
<1>2. /\ runner' \in [Runners -> CallRecs]
      /\ \A r \in Runners :
            /\ runner'[r].pc = runner[r].pc /\ runner'[r].n = runner[r].n /\ runner'[r].id = runner[r].id
            /\ runner'[r].version = runner[r].version /\ runner'[r].net = runner[r].net
            /\ runner'[r].netFor = runner[r].netFor /\ runner'[r].dry = runner[r].dry
            /\ runner'[r].values = runner[r].values /\ runner'[r].ticket = runner[r].ticket
            /\ runner'[r].content = runner[r].content /\ runner'[r].gone = runner[r].gone
  <2>1. runner \in [Runners -> CallRecs]
    BY DEF GearInv, GearTypes
  <2>2. CASE runner' = runner
    BY <2>1, <2>2
  <2>3. CASE runner' = [r \in Runners |-> [runner[r] EXCEPT !.dir = FALSE]]
    <3>1. \A r \in Runners : runner[r] \in CallRecs /\ runner'[r] = [runner[r] EXCEPT !.dir = FALSE]
      BY <2>1, <2>3
    <3>2. ASSUME NEW r \in Runners
          PROVE  /\ [runner[r] EXCEPT !.dir = FALSE] \in CallRecs
                 /\ runner'[r].pc = runner[r].pc /\ runner'[r].n = runner[r].n /\ runner'[r].id = runner[r].id
                 /\ runner'[r].version = runner[r].version /\ runner'[r].net = runner[r].net
                 /\ runner'[r].netFor = runner[r].netFor /\ runner'[r].dry = runner[r].dry
                 /\ runner'[r].values = runner[r].values /\ runner'[r].ticket = runner[r].ticket
                 /\ runner'[r].content = runner[r].content /\ runner'[r].gone = runner[r].gone
      BY ZenonT(40), <3>1 DEF CallRecs
    <3>3. runner' \in [Runners -> CallRecs]
      BY <2>3, <3>2, Zenon
    <3> QED BY <3>2, <3>3
  <2> QED BY <2>2, <2>3
<1>3. GearTypes' /\ GearFits'
  BY <1>1, <1>2 DEF GearInv, GearTypes, GearFits, Content
<1>4. CallsFit'
  <2> SUFFICES ASSUME NEW r \in Runners PROVE CallFits(r)'
    BY DEF CallsFit
  <2>1. CallFits(r)
    BY DEF GearInv, CallsFit
  <2> QED BY <1>2, <2>1 DEF CallFits, Is
<1>5. RulingsFit'
  <2> SUFFICES ASSUME NEW b \in Admins PROVE RulingFits(b)'
    BY DEF RulingsFit
  <2>1. RulingFits(b) /\ RulingFits(a)
    BY DEF GearInv, RulingsFit
  <2>2. CASE b = a
    BY <1>1, <2>1, <2>2 DEF RulingFits, Is
  <2>3. CASE b # a
    BY <1>1, <2>1, <2>3 DEF RulingFits, Is
  <2> QED BY <2>2, <2>3
<1>6. ToldOrLost'
  <2> SUFFICES ASSUME gear.there, gear.status = "approved"
               PROVE  \/ \E t \in trail' : t.decided = Content /\ t.status = "approved"
                      \/ \E b \in Admins : /\ admin'[b].pc \in {"naming", "telling"}
                                           /\ admin'[b].decided = Content /\ admin'[b].status = "approved"
                      \/ <<"version", Content>> \in lost'
    BY DEF ToldOrLost, Content
  <2>1. CASE \E t \in trail : t.decided = Content /\ t.status = "approved"
    BY <2>1
  <2>2. CASE \E b \in Admins : /\ admin[b].pc \in {"naming", "telling"}
                               /\ admin[b].decided = Content /\ admin[b].status = "approved"
    <3>1. PICK b \in Admins : /\ admin[b].pc \in {"naming", "telling"}
                              /\ admin[b].decided = Content /\ admin[b].status = "approved"
      BY <2>2
    <3>2. CASE b # a
      BY <1>1, <3>1, <3>2
    <3>3. CASE b = a
      BY <1>1, <3>1, <3>3
    <3> QED BY <3>2, <3>3
  <2>3. CASE <<"version", Content>> \in lost
    BY <2>3
  <2> QED BY <2>1, <2>2, <2>3 DEF GearInv, ToldOrLost
<1>7. RunsCounted'
  BY <1>2 DEF GearInv, RunsCounted, RunnerAt
<1>8. RunIsRecorded'
  <2> SUFFICES ASSUME NEW n \in ran
               PROVE  n \in ledger \/ <<"call", n>> \in lost'
                      \/ \E r \in Runners : runner'[r].pc = "recording" /\ runner'[r].n = n
    BY DEF RunIsRecorded, RunnerAt
  <2>1. n \in ledger \/ <<"call", n>> \in lost
        \/ \E r \in Runners : runner[r].pc = "recording" /\ runner[r].n = n
    BY DEF GearInv, RunIsRecorded, RunnerAt
  <2> QED BY <1>2, <2>1
<1> QED BY <1>3, <1>4, <1>5, <1>6, <1>7, <1>8 DEF GearInv

\* A step of an administrator that writes the gear's row.
LEMMA RowWritten ==
    ASSUME GearInv, NEW a \in Admins, NEW k \in RulingRecs, Rules(a, k),
           gear' \in GearRecs, gear.there, gear'.there, gear'.id = gear.id, gear'.files = gear.files,
           UNCHANGED <<forged, trail, ledger, ran, lost, runner, calls>>,
           approvals \subseteq approvals', approvals' \subseteq approvals \cup {Content},
           gear'.net => gear'.netFor = Content,
           ~gear'.net => gear'.netFor = 0,
           gear'.status = "approved" =>
              /\ Content \in approvals'
              /\ \/ gear.status = "approved" /\ admin[a].pc \notin {"naming", "telling"}
                 \/ k.pc = "naming" /\ k.decided = Content /\ k.status = "approved",
           k.pc \in {"ruling", "naming", "telling"} => k.status # "none",
           k.pc = "ruling" => k.id = gear.id /\ gear'.net = (k.net = "grant")
    PROVE  GearInv'
<1>1. /\ admin' \in [Admins -> RulingRecs] /\ admin'[a] = k
      /\ \A b \in Admins : b # a =>
            /\ admin'[b].pc = admin[b].pc /\ admin'[b].decided = admin[b].decided
            /\ admin'[b].status = admin[b].status /\ ~admin'[b].alone
  BY AdminMoves
<1>2. /\ GearFits /\ gear \in GearRecs /\ Content' = Content /\ gear'.files = gear.files
      /\ gear'.there /\ gear.there /\ gear'.id = gear.id
  BY DEF GearInv, GearTypes, Content
<1>3. GearTypes'
  BY <1>1 DEF GearInv, GearTypes
<1>4. Content \in 1..forged
  BY <1>2 DEF GearFits, Content, GearRecs
<1>5. GearFits'
  BY <1>2, <1>4 DEF GearFits
<1>6. CallsFit'
  <2> SUFFICES ASSUME NEW r \in Runners PROVE CallFits(r)'
    BY DEF CallsFit
  <2>1. CallFits(r)
    BY DEF GearInv, CallsFit
  <2> QED BY <1>2, <2>1 DEF CallFits, Is
<1>7. RulingsFit'
  <2> SUFFICES ASSUME NEW b \in Admins PROVE RulingFits(b)'
    BY DEF RulingsFit
  <2>1. RulingFits(b)
    BY DEF GearInv, RulingsFit
  <2>2. CASE b = a
    BY <1>1, <1>2, <2>2 DEF RulingFits, Is
  <2>3. CASE b # a
    BY <1>1, <2>1, <2>3 DEF RulingFits
  <2> QED BY <2>2, <2>3
<1>8. ToldOrLost'
  <2> SUFFICES ASSUME gear'.status = "approved"
               PROVE  \/ \E t \in trail : t.decided = Content /\ t.status = "approved"
                      \/ \E b \in Admins : /\ admin'[b].pc \in {"naming", "telling"}
                                           /\ admin'[b].decided = Content /\ admin'[b].status = "approved"
                      \/ <<"version", Content>> \in lost
    BY <1>2 DEF ToldOrLost
  <2>1. CASE k.pc = "naming" /\ k.decided = Content /\ k.status = "approved"
    BY <1>1, <2>1
  <2>2. CASE gear.status = "approved" /\ admin[a].pc \notin {"naming", "telling"}
    <3>1. \/ \E t \in trail : t.decided = Content /\ t.status = "approved"
          \/ \E b \in Admins : /\ admin[b].pc \in {"naming", "telling"}
                               /\ admin[b].decided = Content /\ admin[b].status = "approved"
          \/ <<"version", Content>> \in lost
      BY <1>2, <2>2 DEF GearInv, ToldOrLost
    <3>2. \A b \in Admins : admin[b].pc \in {"naming", "telling"} => b # a
      BY <2>2
    <3> QED BY <1>1, <3>1, <3>2
  <2> QED BY <2>1, <2>2
<1>9. RunsCounted' /\ RunIsRecorded'
  BY DEF GearInv, RunsCounted, RunIsRecorded, RunnerAt
<1> QED BY <1>3, <1>5, <1>6, <1>7, <1>8, <1>9 DEF GearInv

LEMMA AdminStep ==
    ASSUME GearInv, NEW a \in Admins,
           \/ BeginRuling(a) \/ SetNetwork(a) \/ SetStatus(a) \/ NameDecision(a)
           \/ TellTrail(a) \/ RemoveFiles(a)
    PROVE  GearInv'
<1>0. /\ admin[a] \in RulingRecs /\ gear \in GearRecs /\ NoRuling \in RulingRecs
      /\ NoRuling.pc = "idle" /\ GearFits
  BY DEF GearInv, GearTypes, NoRuling, RulingRecs
<1>c. gear.there => Content \in Nat
  BY <1>0 DEF GearFits, Content, GearRecs
<1>1. CASE BeginRuling(a)
  <2>1. PICK status \in {"approved", "disabled", "none"}, net \in {"grant", "deny", "as is"} :
          /\ status # "none" \/ net # "as is"
          /\ admin' = [admin EXCEPT ![a] = [NoRuling EXCEPT
                          !.pc = IF net = "as is" THEN "ruling" ELSE "granting",
                          !.id = gear.id, !.status = status, !.net = net]]
    BY <1>1 DEF BeginRuling
  <2> DEFINE pc == IF net = "as is" THEN "ruling" ELSE "granting"
             k  == [NoRuling EXCEPT !.pc = pc, !.id = gear.id, !.status = status, !.net = net]
  <2>2. k \in RulingRecs /\ k.pc = pc /\ k.status = status /\ k.net = net
    BY <1>0 DEF NoRuling, RulingRecs, GearRecs
  <2>3. admin' = [admin EXCEPT ![a] = k]
    BY <2>1
  <2> HIDE DEF k
  <2>4. /\ UNCHANGED <<gear, forged, ledger, approvals, ran, calls, runner, trail, lost>>
        /\ admin[a].pc = "idle"
    BY <1>1 DEF BeginRuling, AdminAt, books
  <2> QED BY <2>1, <2>2, <2>3, <2>4, AdminWorks
<1>2. CASE \/ SetNetwork(a) /\ ~Is(admin[a].id)
           \/ SetStatus(a) /\ ~Is(admin[a].id)
  <2>1. /\ UNCHANGED <<gear, forged, ledger, approvals, ran, calls, runner, trail, lost>>
        /\ admin[a].pc \in {"granting", "ruling"} /\ admin' = [admin EXCEPT ![a] = NoRuling]
    BY <1>2 DEF SetNetwork, SetStatus, AdminAt, books, StopRuling
  <2> QED BY <1>0, <2>1, AdminWorks
<1>3. CASE SetNetwork(a) /\ Is(admin[a].id)
  <2>1. /\ UNCHANGED <<forged, trail, ledger, approvals, ran, lost, runner, calls>>
        /\ admin[a].pc = "granting" /\ gear.there /\ gear.id = admin[a].id
        /\ gear' = Granted(admin[a].net)
        /\ Rules(a, IF admin[a].status = "none" THEN NoRuling ELSE [admin[a] EXCEPT !.pc = "ruling"])
    BY <1>3 DEF SetNetwork, AdminAt, books, Is
  <2>2. /\ gear' \in GearRecs /\ gear'.there = gear.there /\ gear'.id = gear.id /\ gear'.files = gear.files
        /\ gear'.status = gear.status /\ gear'.net = (admin[a].net = "grant")
        /\ gear'.netFor = IF admin[a].net = "grant" THEN Content ELSE 0
    BY <1>0, <1>c, <2>1 DEF Granted, GearRecs
  <2> DEFINE k == IF admin[a].status = "none" THEN NoRuling ELSE [admin[a] EXCEPT !.pc = "ruling"]
  <2>3. /\ k \in RulingRecs /\ k.pc \in {"idle", "ruling"}
        /\ k.pc = "ruling" => k.status # "none" /\ k.net = admin[a].net /\ k.id = admin[a].id
    BY <1>0 DEF RulingRecs
  <2>4. Rules(a, k)
    BY <2>1
  <2> HIDE DEF k
  <2> QED BY <1>0, <2>1, <2>2, <2>3, <2>4, RowWritten DEF GearFits
<1>4. CASE SetStatus(a) /\ Is(admin[a].id)
  <2>1. /\ UNCHANGED <<forged, trail, ledger, ran, lost, runner, calls>>
        /\ admin[a].pc = "ruling" /\ gear.there /\ gear.id = admin[a].id
        /\ gear' = [gear EXCEPT !.status = admin[a].status]
        /\ approvals' = IF admin[a].status = "approved" THEN approvals \cup {Content} ELSE approvals
        /\ Rules(a, [admin[a] EXCEPT !.pc = "naming", !.decided = Content])
    BY <1>4 DEF SetStatus, AdminAt, Is
  <2>2. admin[a].status \in {"approved", "disabled"}
    BY <1>0, <2>1 DEF GearInv, RulingsFit, RulingFits, RulingRecs
  <2>3. /\ gear' \in GearRecs /\ gear'.there = gear.there /\ gear'.id = gear.id /\ gear'.files = gear.files
        /\ gear'.status = admin[a].status /\ gear'.net = gear.net /\ gear'.netFor = gear.netFor
    BY <1>0, <2>1, <2>2 DEF GearRecs
  <2> DEFINE k == [admin[a] EXCEPT !.pc = "naming", !.decided = Content]
  <2>4. k \in RulingRecs /\ k.pc = "naming" /\ k.decided = Content /\ k.status = admin[a].status
    BY <1>0, <1>c, <2>1 DEF RulingRecs
  <2>5. Rules(a, k)
    BY <2>1
  <2> HIDE DEF k
  <2> QED BY <1>0, <2>1, <2>2, <2>3, <2>4, <2>5, RowWritten DEF GearFits
<1>5. CASE NameDecision(a)
  <2>1. /\ UNCHANGED <<gear, forged, trail, ledger, approvals, ran, runner, calls>>
        /\ admin[a].pc = "naming" /\ lost \subseteq lost'
    BY <1>5 DEF NameDecision, AdminAt
  <2>2. CASE /\ gear.there
             /\ admin' = [admin EXCEPT ![a].pc = "telling", ![a].named = Content]
    <3> DEFINE k == [admin[a] EXCEPT !.pc = "telling", !.named = Content]
    <3>1. k \in RulingRecs /\ k.pc = "telling" /\ k.decided = admin[a].decided /\ k.status = admin[a].status
      BY <1>0, <1>c, <2>2 DEF RulingRecs
    <3>2. admin' = [admin EXCEPT ![a] = k]
      BY <2>2
    <3> HIDE DEF k
    <3> QED BY <2>1, <3>1, <3>2, AdminWorks
  <2>3. CASE admin' = [admin EXCEPT ![a] = NoRuling] /\ <<"version", admin[a].decided>> \in lost'
    BY <1>0, <2>1, <2>3, AdminWorks
  <2> QED BY <1>5, <2>2, <2>3 DEF NameDecision, StopRuling, Is
<1>6. CASE TellTrail(a)
  <2>1. /\ UNCHANGED <<gear, forged, ledger, approvals, ran, runner, calls>>
        /\ admin' = [admin EXCEPT ![a] = NoRuling] /\ lost \subseteq lost' /\ trail \subseteq trail'
    BY <1>6 DEF TellTrail, StopRuling
  <2>2. \/ \E t \in trail' : t.decided = admin[a].decided /\ t.status = admin[a].status
        \/ <<"version", admin[a].decided>> \in lost'
    <3> DEFINE t == [status |-> admin[a].status, decided |-> admin[a].decided, named |-> admin[a].named]
    <3>1. t \in trail' \/ <<"version", admin[a].decided>> \in lost'
      BY <1>6 DEF TellTrail
    <3>2. t.decided = admin[a].decided /\ t.status = admin[a].status
      OBVIOUS
    <3> QED BY <3>1, <3>2
  <2> QED BY <1>0, <2>1, <2>2, AdminWorks
<1>7. CASE RemoveFiles(a)
  <2>1. /\ UNCHANGED <<gear, forged, ledger, approvals, ran, calls, trail, lost>>
        /\ runner' = [r \in Runners |-> [runner[r] EXCEPT !.dir = FALSE]]
        /\ admin[a].pc = "sweeping" /\ admin' = [admin EXCEPT ![a] = NoRuling]
    BY <1>7 DEF RemoveFiles, AdminAt, books, StopRuling
  <2> QED BY <1>0, <2>1, AdminWorks
<1> QED BY <1>1, <1>2, <1>3, <1>4, <1>5, <1>6, <1>7

LEMMA EmptyGear ==
    /\ NoGear \in GearRecs /\ ~NoGear.there /\ ~NoGear.net /\ NoGear.netFor = 0
    /\ NoGear.status = "pending" /\ NoGear.files = <<>> /\ Len(NoGear.files) = 0
<1>1. <<>> \in Seq(Nat) /\ Len(<<>>) = 0
  OBVIOUS
<1> QED BY <1>1 DEF NoGear, GearRecs

\* A new version: nobody who was at work is alone with the row any more, and whoever
\* runs an older version has its files still.
LEMMA ForgeStep == GearInv /\ Forge => GearInv'
<1> SUFFICES ASSUME GearInv, Forge PROVE GearInv'
  OBVIOUS
<1>0. /\ gear \in GearRecs /\ forged \in Nat /\ GearFits /\ forged < MaxForgings /\ forged' = forged + 1
      /\ UNCHANGED <<trail, ledger, approvals, ran, lost, runner, calls>>
      /\ gear.files \in Seq(Nat) /\ Len(gear.files) \in Nat /\ gear.id \in Nat
  BY GearConstants DEF GearInv, GearTypes, GearRecs, Forge, books
<1>1. /\ gear'.there /\ gear' \in GearRecs /\ gear'.id <= forged' /\ gear'.status = "pending"
      /\ ~gear'.net /\ gear'.netFor = 0 /\ Len(gear'.files) > 0
      /\ \A k \in 1..Len(gear'.files) : gear'.files[k] \in 1..forged'
      /\ gear.there => /\ gear'.id = gear.id /\ Len(gear'.files) = Len(gear.files) + 1
                       /\ \A k \in 1..Len(gear.files) : gear'.files[k] = gear.files[k]
  <2>1. CASE gear.there
    <3>1. gear' = [gear EXCEPT !.files = Append(@, forged + 1), !.status = "pending", !.net = FALSE, !.netFor = 0]
      BY <2>1 DEF Forge, NextVersion
    <3> DEFINE files == Append(gear.files, forged + 1)
    <3>2. /\ files \in Seq(Nat) /\ Len(files) = Len(gear.files) + 1 /\ files[Len(gear.files) + 1] = forged + 1
          /\ \A k \in 1..Len(gear.files) : files[k] = gear.files[k]
      BY <1>0
    <3>3. gear' = [gear EXCEPT !.files = files, !.status = "pending", !.net = FALSE, !.netFor = 0]
      BY <3>1
    <3> HIDE DEF files
    <3>4. /\ gear' \in GearRecs /\ gear'.there /\ gear'.id = gear.id /\ gear'.files = files
          /\ gear'.status = "pending" /\ ~gear'.net /\ gear'.netFor = 0
      BY <1>0, <2>1, <3>2, <3>3 DEF GearRecs
    <3>5. \A k \in 1..Len(files) : files[k] \in 1..forged'
      <4> SUFFICES ASSUME NEW k \in 1..Len(files) PROVE files[k] \in 1..forged + 1
        BY <1>0
      <4>1. k \in 1..Len(gear.files) \/ k = Len(gear.files) + 1
        <5>1. Len(gear.files) \in Nat /\ Len(files) = Len(gear.files) + 1
          BY <1>0, <3>2
        <5> QED BY <5>1
      <4>2. k \in 1..Len(gear.files) => files[k] \in 1..forged
        BY <3>2, <1>0 DEF GearFits
      <4>3. k = Len(gear.files) + 1 => files[k] = forged + 1
        BY <3>2
      <4>4. forged \in Nat
        BY <1>0
      <4> QED BY <4>1, <4>2, <4>3, <4>4
    <3>6. gear'.id <= forged' /\ Len(gear'.files) > 0
      <4>1. Len(gear'.files) = Len(gear.files) + 1
        BY <3>2, <3>4
      <4>2. gear.id <= forged
        BY <1>0 DEF GearFits
      <4> QED BY <1>0, <3>4, <4>1, <4>2
    <3>7. \A k \in 1..Len(gear'.files) : gear'.files[k] \in 1..forged'
      BY <3>4, <3>5
    <3>8. Len(gear'.files) = Len(gear.files) + 1 /\ \A k \in 1..Len(gear.files) : gear'.files[k] = gear.files[k]
      BY <3>2, <3>4
    <3> QED BY <3>4, <3>6, <3>7, <3>8
  <2>2. CASE ~gear.there
    <3>1. PICK id \in 1..gear.id + 1 :
             gear' = [NoGear EXCEPT !.there = TRUE, !.id = id, !.files = <<forged + 1>>]
      BY <2>2 DEF Forge, FirstVersion
    <3> DEFINE files == <<forged + 1>>
    <3>2. files \in Seq(Nat) /\ Len(files) = 1 /\ files[1] = forged + 1
      BY <1>0
    <3>3. gear' = [NoGear EXCEPT !.there = TRUE, !.id = id, !.files = files]
      BY <3>1
    <3> HIDE DEF files
    <3>4. /\ gear' \in GearRecs /\ gear'.there /\ gear'.id = id /\ gear'.files = files
          /\ gear'.status = "pending" /\ ~gear'.net /\ gear'.netFor = 0
      <4>1. id \in Nat
        BY <1>0
      <4> QED BY <3>2, <3>3, <4>1, EmptyGear DEF GearRecs
    <3>5. id <= forged + 1 /\ \A k \in 1..Len(files) : files[k] \in 1..forged + 1
      BY <1>0, <3>2 DEF GearFits
    <3>6. \A k \in 1..Len(gear'.files) : gear'.files[k] \in 1..forged'
      BY <1>0, <3>4, <3>5
    <3>7. Len(gear'.files) > 0 /\ gear'.id <= forged'
      <4>1. Len(gear'.files) = 1
        BY <3>2, <3>4
      <4>2. gear'.id = id /\ forged' = forged + 1 /\ id <= forged + 1
        BY <1>0, <3>4, <3>5
      <4> QED BY <4>1, <4>2
    <3> QED BY <2>2, <3>4, <3>6, <3>7
  <2> QED BY <2>1, <2>2
<1>2. /\ admin' \in [Admins -> RulingRecs]
      /\ \A a \in Admins : admin'[a].pc = admin[a].pc /\ admin'[a].status = admin[a].status /\ ~admin'[a].alone
  <2>1. \A a \in Admins : admin[a] \in RulingRecs
    BY DEF GearInv, GearTypes
  <2>2. ASSUME NEW k \in RulingRecs
        PROVE  LET d == [k EXCEPT !.alone = FALSE]
               IN d \in RulingRecs /\ d.pc = k.pc /\ d.status = k.status /\ ~d.alone
    BY DEF RulingRecs
  <2>3. admin' = [a \in Admins |-> [admin[a] EXCEPT !.alone = FALSE]]
    BY DEF Forge
  <2>4. \A a \in Admins : admin'[a] = [admin[a] EXCEPT !.alone = FALSE]
    BY <2>3
  <2>5. \A a \in Admins : [admin[a] EXCEPT !.alone = FALSE] \in RulingRecs
    BY <2>1, <2>2
  <2>6. admin' \in [Admins -> RulingRecs]
    BY <2>3, <2>5
  <2> QED BY <2>1, <2>2, <2>4, <2>6
<1>3. GearTypes'
  BY <1>0, <1>1, <1>2, GearConstants DEF GearInv, GearTypes
<1>4. GearFits'
  BY <1>0, <1>1 DEF GearFits
<1>5. CallsFit'
  <2> SUFFICES ASSUME NEW r \in Runners PROVE CallFits(r)'
    BY DEF CallsFit
  <2>1. CallFits(r) /\ runner' = runner /\ calls' = calls /\ approvals' = approvals
    BY <1>0 DEF GearInv, CallsFit
  <2>2. ASSUME runner[r].pc # "idle", ~runner[r].gone
        PROVE  /\ Is(runner[r].id)' /\ runner[r].version \in 1..Len(gear'.files)
               /\ gear'.files[runner[r].version] = gear.files[runner[r].version]
    <3>1. gear.there /\ gear.id = runner[r].id /\ runner[r].version \in 1..Len(gear.files)
      BY <2>1, <2>2 DEF CallFits, Is
    <3> QED BY <1>0, <1>1, <2>1, <3>1 DEF Is
  <2> QED BY <2>1, <2>2 DEF CallFits
<1>6. RulingsFit' /\ ToldOrLost'
  BY <1>1, <1>2 DEF GearInv, RulingsFit, RulingFits, ToldOrLost
<1>7. RunsCounted' /\ RunIsRecorded'
  BY <1>0 DEF GearInv, RunsCounted, RunIsRecorded, RunnerAt
<1> QED BY <1>3, <1>4, <1>5, <1>6, <1>7 DEF GearInv

\* A call whose gear goes is the call it was.
LEMMA GoneCall ==
    ASSUME NEW c \in CallRecs
    PROVE  LET d == [c EXCEPT !.gone = @ \/ c.pc # "idle"]
           IN  /\ d \in CallRecs
               /\ d.pc = c.pc /\ d.n = c.n /\ d.version = c.version /\ d.net = c.net
               /\ d.dry = c.dry /\ d.values = c.values /\ d.ticket = c.ticket
               /\ c.pc # "idle" => d.gone
BY DEF CallRecs

\* A deletion: whatever call is under way knows nothing of its gear any more.
LEMMA DeleteStep ==
    ASSUME GearInv, NEW a \in Admins, DeleteGearRow(a)
    PROVE  GearInv'
<1>0. /\ gear \in GearRecs /\ gear' = [NoGear EXCEPT !.id = gear.id]
      /\ UNCHANGED <<forged, trail, ledger, approvals, ran, lost, calls>>
      /\ Rules(a, [NoRuling EXCEPT !.pc = "sweeping"])
      /\ runner' = [r \in Runners |-> [runner[r] EXCEPT !.gone = @ \/ runner[r].pc # "idle"]]
  BY DEF GearInv, GearTypes, DeleteGearRow, books, Rules
<1>1. /\ gear' \in GearRecs /\ ~gear'.there /\ Len(gear'.files) = 0 /\ gear'.id = gear.id
      /\ ~gear'.net /\ gear'.netFor = 0
  BY <1>0, EmptyGear DEF GearRecs
<1> DEFINE k == [NoRuling EXCEPT !.pc = "sweeping"]
<1>2. k \in RulingRecs /\ k.pc = "sweeping"
  BY DEF NoRuling, RulingRecs
<1>3. Rules(a, k)
  BY <1>0
<1> HIDE DEF k
<1>4. /\ admin' \in [Admins -> RulingRecs] /\ admin'[a] = k
      /\ \A b \in Admins : b # a =>
            admin'[b].pc = admin[b].pc /\ admin'[b].status = admin[b].status /\ ~admin'[b].alone
  BY <1>2, <1>3, AdminMoves
<1>5. /\ runner' \in [Runners -> CallRecs]
      /\ \A r \in Runners :
            /\ runner'[r].pc = runner[r].pc /\ runner'[r].n = runner[r].n
            /\ runner'[r].version = runner[r].version /\ runner'[r].net = runner[r].net
            /\ runner'[r].dry = runner[r].dry /\ runner'[r].values = runner[r].values
            /\ runner'[r].ticket = runner[r].ticket
            /\ runner[r].pc # "idle" => runner'[r].gone
  <2>1. \A r \in Runners : runner[r] \in CallRecs
    BY DEF GearInv, GearTypes
  <2>2. \A r \in Runners : runner'[r] = [runner[r] EXCEPT !.gone = @ \/ runner[r].pc # "idle"]
    BY <1>0
  <2>3. ASSUME NEW r \in Runners
        PROVE  /\ [runner[r] EXCEPT !.gone = @ \/ runner[r].pc # "idle"] \in CallRecs
               /\ runner'[r].pc = runner[r].pc /\ runner'[r].n = runner[r].n
               /\ runner'[r].version = runner[r].version /\ runner'[r].net = runner[r].net
               /\ runner'[r].dry = runner[r].dry /\ runner'[r].values = runner[r].values
               /\ runner'[r].ticket = runner[r].ticket
               /\ runner[r].pc # "idle" => runner'[r].gone
    <3>1. runner[r] \in CallRecs /\ runner'[r] = [runner[r] EXCEPT !.gone = @ \/ runner[r].pc # "idle"]
      BY <2>1, <2>2
    <3> QED BY <3>1, GoneCall
  <2>4. runner' \in [Runners -> CallRecs]
    BY <1>0, <2>3, Zenon
  <2> QED BY <2>3, <2>4
<1>6. GearTypes' /\ GearFits'
  BY SMTT(30), <1>0, <1>1, <1>4, <1>5 DEF GearInv, GearTypes, GearFits
<1>7. CallsFit'
  <2> SUFFICES ASSUME NEW r \in Runners PROVE CallFits(r)'
    BY DEF CallsFit
  <2>1. CallFits(r)
    BY DEF GearInv, CallsFit
  <2> QED BY <1>0, <1>5, <2>1 DEF CallFits
<1>8. RulingsFit' /\ ToldOrLost'
  <2>1. ToldOrLost'
    BY <1>1 DEF ToldOrLost
  <2> SUFFICES ASSUME NEW b \in Admins PROVE RulingFits(b)'
    BY <2>1 DEF RulingsFit
  <2>2. RulingFits(b)
    BY DEF GearInv, RulingsFit
  <2> QED BY <1>2, <1>4, <2>2 DEF RulingFits
<1>9. RunsCounted' /\ RunIsRecorded'
  <2>1. RunsCounted'
    <3>1. RunsCounted
      BY DEF GearInv
    <3>2. ledger' \subseteq ran' /\ ran' \subseteq 1..calls'
      <4>1. ledger' = ledger /\ ran' = ran /\ calls' = calls
        BY <1>0
      <4> QED BY <3>1, <4>1 DEF RunsCounted
    <3>3. \A r \in Runners : runner'[r].pc = "recording" => runner'[r].n \in ran'
      <4>1. \A r \in Runners : runner[r].pc = "recording" => runner[r].n \in ran
        BY <3>1 DEF RunsCounted, RunnerAt
      <4>2. ran' = ran
        BY <1>0
      <4> QED BY <1>5, <4>1, <4>2
    <3> QED BY <3>2, <3>3 DEF RunsCounted, RunnerAt
  <2> SUFFICES ASSUME NEW n \in ran
               PROVE  n \in ledger \/ <<"call", n>> \in lost
                      \/ \E r \in Runners : runner'[r].pc = "recording" /\ runner'[r].n = n
    BY <1>0, <2>1 DEF RunIsRecorded, RunnerAt
  <2>2. n \in ledger \/ <<"call", n>> \in lost
        \/ \E r \in Runners : runner[r].pc = "recording" /\ runner[r].n = n
    BY DEF GearInv, RunIsRecorded, RunnerAt
  <2> QED BY <1>5, <2>2
<1> QED BY <1>6, <1>7, <1>8, <1>9 DEF GearInv

LEMMA GearInvStep == GearInv /\ [GearNext]_gearVars => GearInv'
<1> SUFFICES ASSUME GearInv, [GearNext]_gearVars PROVE GearInv'
  OBVIOUS
<1>1. CASE Forge
  BY <1>1, ForgeStep
<1>2. ASSUME NEW a \in Admins,
             BeginRuling(a) \/ SetNetwork(a) \/ SetStatus(a) \/ NameDecision(a)
               \/ TellTrail(a) \/ DeleteGearRow(a) \/ RemoveFiles(a)
      PROVE  GearInv'
  BY <1>2, AdminStep, DeleteStep
<1>3. ASSUME NEW r \in Runners,
             CallGear(r) \/ OpenNetwork(r) \/ ResolveEnv(r) \/ Materialize(r)
               \/ FailToStart(r) \/ EndProcess(r) \/ RecordRun(r) \/ LeaveRun(r)
      PROVE  GearInv'
  BY <1>3, RunnerStep
<1>4. CASE UNCHANGED gearVars
  BY <1>4 DEF gearVars, books, GearInv, GearTypes, GearFits, CallsFit, CallFits, RulingsFit, RulingFits, ToldOrLost,
     RunsCounted, RunIsRecorded, RunnerAt, Is, Content
<1> QED BY <1>1, <1>2, <1>3, <1>4 DEF GearNext

\* Approved with what the same request granted: who is alone with the row finds it as
\* he left it when he writes the status.
LEMMA ApprovalKeepsGrant ==
    ASSUME GearInv, NEW a \in Admins, SetStatus(a), admin[a].alone, admin[a].net # "as is"
    PROVE  gear'.net = (admin[a].net = "grant")
<1>1. /\ admin[a].pc = "ruling" /\ gear \in GearRecs
      /\ Is(admin[a].id) /\ gear.net = (admin[a].net = "grant")
  BY DEF SetStatus, AdminAt, GearInv, GearTypes, RulingsFit, RulingFits
<1>2. gear' = [gear EXCEPT !.status = admin[a].status]
  BY <1>1 DEF SetStatus
<1> QED BY <1>1, <1>2 DEF GearRecs

\* Every reachable state of a gear, its decisions and its calls is well typed, for any
\* administrators, runners and bounds (gear.go, approvals.go, executor.go).
THEOREM GearsTyped == GearSpec => []GearTypeOK
BY GearInvInit, GearInvStep, GearInvMeans, PTL DEF GearSpec

\* What runs outside a dry run was approved, with the network granted to that version
\* and no other; an approval keeps the grant of its request; and every approval and
\* every run is on the operator's trail, being written there or lost with a failed
\* statement (gear.go, approvals.go, executor.go, gear_handlers.go).
THEOREM DecidedAndTold == GearSpec => GearsAreDecided
<1>1. GearInv /\ [GearNext]_gearVars =>
         [\A a \in Admins : SetStatus(a) /\ admin[a].alone /\ admin[a].net # "as is" =>
             gear'.net = (admin[a].net = "grant")]_gearVars
  BY ApprovalKeepsGrant
<1>2. GearSpec => []GearInv
  BY GearInvInit, GearInvStep, PTL DEF GearSpec
<1>3. GearSpec => []TrailIsWhole /\ []RunsWhatWasApproved
  BY <1>2, GearInvMeans, PTL
<1>4. GearSpec => ApprovedWithItsGrant
  BY <1>1, <1>2, PTL DEF GearSpec, ApprovedWithItsGrant
<1> QED BY <1>3, <1>4, PTL DEF GearsAreDecided, RunsAsDecided

------------------------------------------------------------------------------
(* The gate to the network.                                                *)

TicketRecs == [state : {"none", "open", "closed", "forgotten"}, refs : BOOLEAN]
ConnPCs    == {"idle", "checking", "recording", "dialling", "carrying", "relaying", "settling"}
ConnRecs   == [pc : ConnPCs, by : Tickets \cup {"nobody"}, place : Places4,
               how : {"tunnel", "request", "read"}, row : Nat, outcome : Terminal \cup {"none"}]
Refused    == {"refused_destination", "refused_local", "refused_no_grant", "refused_invalid"}
HasRow(c)  == conn[c].pc \in {"dialling", "carrying", "relaying", "settling"}

ProxyTypes ==
    /\ ticket \in [Tickets -> TicketRecs] /\ conn \in [Conns -> ConnRecs]
    /\ netlog \in Seq(Terminal \cup {"open"})
    /\ reached \subseteq DOMAIN netlog /\ unsettled \subseteq DOMAIN netlog
    /\ listens \in BOOLEAN

\* Where a connection is decides what is known of its row: none before it is
\* recorded, and afterwards one that is open, and unreached as long as nobody has
\* been dialled or the place turned out to be this machine.
LoggedFits(c) ==
    /\ conn[c].pc # "idle" => listens /\ conn[c].by \in Tickets
    /\ ~HasRow(c) => conn[c].row = 0
    /\ HasRow(c) => conn[c].row \in DOMAIN netlog /\ netlog[conn[c].row] = "open"
    /\ conn[c].pc = "recording" => conn[c].outcome \in Refused \cup {"none"}
    /\ conn[c].pc = "dialling" => conn[c].row \notin reached
    /\ conn[c].pc = "settling" => /\ conn[c].outcome \in {"closed", "failed", "refused_local"}
                                  /\ conn[c].outcome = "refused_local" => conn[c].row \notin reached
RowsFit == \A c \in Conns : LoggedFits(c)

RowOfOne == \A c, d \in Conns : HasRow(c) /\ HasRow(d) /\ c # d => conn[c].row # conn[d].row

ProxyInv == ProxyTypes /\ RowsFit /\ RowOfOne /\ ConnLogIsTrue

LEMMA ProxyInvInit == ProxyInit => ProxyInv
BY ProxyConstants DEF ProxyInit, ProxyInv, ProxyTypes, RowsFit, LoggedFits, RowOfOne, ConnLogIsTrue, HasRow,
   TicketRecs, ConnPCs, ConnRecs, NoTicket, NoConn, Places4, Terminal

\* A connection moves on alone.
LEMMA ConnMoves ==
    ASSUME ProxyTypes, NEW c \in Conns, NEW k \in ConnRecs, Conn(c, k)
    PROVE  /\ conn' \in [Conns -> ConnRecs] /\ conn'[c] = k
           /\ \A d \in Conns : d # c => conn'[d] = conn[d]
BY DEF ProxyTypes, Conn

\* A step of one connection that keeps its row, or its lack of one, and writes nothing.
LEMMA ConnWorks ==
    ASSUME ProxyInv, NEW c \in Conns, NEW k \in ConnRecs, Conn(c, k), listens,
           UNCHANGED <<ticket, netlog, unsettled, listens>>,
           k.row = conn[c].row, k.by \in Tickets,
           k.pc \in {"dialling", "carrying", "relaying", "settling"} <=> HasRow(c),
           \/ reached' = reached
           \/ /\ reached' = reached \cup {conn[c].row} /\ HasRow(c)
              /\ k.pc = "settling" => k.outcome # "refused_local",
           k.pc = "recording" => k.outcome \in Refused \cup {"none"},
           k.pc # "dialling",
           k.pc = "settling" => /\ k.outcome \in {"closed", "failed", "refused_local"}
                                /\ k.outcome = "refused_local" => k.row \notin reached
    PROVE  ProxyInv'
<1> USE DEF ProxyInv
<1>1. conn' \in [Conns -> ConnRecs] /\ conn'[c] = k /\ \A d \in Conns : d # c => conn'[d] = conn[d]
  BY ConnMoves
<1>2. HasRow(c) => conn[c].row \in DOMAIN netlog /\ netlog[conn[c].row] = "open"
  BY DEF RowsFit, LoggedFits
<1>3. ProxyTypes'
  BY <1>1, <1>2 DEF ProxyTypes
<1>4. RowsFit'
  <2> SUFFICES ASSUME NEW d \in Conns PROVE LoggedFits(d)'
    BY DEF RowsFit
  <2>1. CASE d = c
    BY <1>1, <1>2, <2>1 DEF RowsFit, LoggedFits, HasRow
  <2>2. CASE d # c
    <3>1. HasRow(d) /\ HasRow(c) => conn[d].row # conn[c].row
      BY <2>2 DEF RowOfOne
    <3> QED BY <1>1, <2>2, <3>1 DEF RowsFit, LoggedFits, HasRow
  <2> QED BY <2>1, <2>2
<1>5. RowOfOne'
  BY <1>1 DEF RowOfOne, HasRow
<1>6. ConnLogIsTrue'
  <2> SUFFICES ASSUME NEW n \in DOMAIN netlog
               PROVE  /\ netlog[n] \in Refused => n \notin reached'
                      /\ netlog[n] = "open" /\ listens => n \in unsettled \/ \E d \in Conns : conn'[d].row = n
    BY DEF ConnLogIsTrue, Refused
  <2>1. netlog[n] \in Refused => n \notin reached'
    BY <1>2 DEF ConnLogIsTrue, Refused
  <2>2. netlog[n] = "open" => n \in unsettled \/ \E d \in Conns : conn[d].row = n
    BY DEF ConnLogIsTrue
  <2> QED BY <1>1, <2>1, <2>2
<1> QED BY <1>3, <1>4, <1>5, <1>6

\* What a connection at work is, and what settling makes of it.
LEMMA AtWork ==
    ASSUME ProxyInv, NEW c \in Conns, conn[c].pc # "idle"
    PROVE  /\ conn[c] \in ConnRecs /\ conn[c].by \in Tickets /\ listens
           /\ \A o \in Terminal : LET k == [conn[c] EXCEPT !.pc = "settling", !.outcome = o]
                                  IN /\ k \in ConnRecs /\ k.pc = "settling" /\ k.outcome = o
                                     /\ k.row = conn[c].row /\ k.by = conn[c].by
<1>1. conn[c] \in ConnRecs /\ conn[c].by \in Tickets /\ listens
  BY DEF ProxyInv, ProxyTypes, RowsFit, LoggedFits
<1> QED BY <1>1 DEF ConnRecs, ConnPCs

LEMMA ConnSettles ==
    ASSUME ProxyInv, NEW c \in Conns, HasRow(c), NEW o \in {"closed", "failed", "refused_local"}, Settles(c, o),
           UNCHANGED <<ticket, netlog, unsettled, listens>>,
           reached' = reached \/ (reached' = reached \cup {conn[c].row} /\ o # "refused_local"),
           o = "refused_local" => conn[c].row \notin reached
    PROVE  ProxyInv'
<1> DEFINE k == [conn[c] EXCEPT !.pc = "settling", !.outcome = o]
<1>1. conn[c].by \in Tickets /\ listens /\ k \in ConnRecs /\ k.pc = "settling" /\ k.outcome = o
      /\ k.row = conn[c].row /\ k.by = conn[c].by
  <2>1. conn[c].pc # "idle" /\ o \in Terminal
    BY DEF HasRow, Terminal
  <2> QED BY <2>1, AtWork
<1>2. Conn(c, k)
  BY DEF Settles
<1> HIDE DEF k
<1> QED BY <1>1, <1>2, ConnWorks

LEMMA ProxyInvStep == ProxyInv /\ [ProxyNext]_proxyVars => ProxyInv'
<1> SUFFICES ASSUME ProxyInv, [ProxyNext]_proxyVars PROVE ProxyInv'
  OBVIOUS
<1>1. ASSUME NEW k \in Tickets, OpenTicket(k) \/ CloseTicket(k) \/ ForgetTicket(k) PROVE ProxyInv'
  <2>1. UNCHANGED <<conn, netlog, reached, unsettled, listens>>
    BY <1>1 DEF OpenTicket, CloseTicket, ForgetTicket, TicketBecomes
  <2>2. ticket' \in [Tickets -> TicketRecs]
    BY <1>1 DEF OpenTicket, CloseTicket, ForgetTicket, TicketBecomes, ProxyInv, ProxyTypes, TicketRecs
  <2> QED BY <2>1, <2>2 DEF ProxyInv, ProxyTypes, RowsFit, LoggedFits, RowOfOne, ConnLogIsTrue, HasRow
<1>2. ASSUME NEW c \in Conns, Knock(c) PROVE ProxyInv'
  <2>1. conn[c].pc = "idle" /\ conn[c].row = 0 /\ listens
    BY <1>2 DEF Knock, ConnAt, ProxyInv, RowsFit, LoggedFits, HasRow
  <2>2. PICK t \in Tickets, place \in Places4, how \in {"tunnel", "request"} :
           Conn(c, [NoConn EXCEPT !.pc = "checking", !.by = t, !.place = place, !.how = how])
    BY <1>2 DEF Knock
  <2> DEFINE k == [NoConn EXCEPT !.pc = "checking", !.by = t, !.place = place, !.how = how]
  <2>3. k \in ConnRecs /\ k.pc = "checking" /\ k.row = 0 /\ k.by \in Tickets
    BY DEF NoConn, ConnRecs, ConnPCs
  <2>4. UNCHANGED <<ticket, netlog, reached, unsettled, listens>>
    BY <1>2 DEF Knock, OnlyConn
  <2> HIDE DEF k
  <2> QED BY <2>1, <2>2, <2>3, <2>4, ConnWorks DEF k, HasRow
<1>3. ASSUME NEW c \in Conns, Check(c) PROVE ProxyInv'
  <2>1. conn[c].pc = "checking" /\ UNCHANGED <<ticket, netlog, reached, unsettled, listens>>
    BY <1>3 DEF Check, ConnAt, OnlyConn
  <2>2. Refusal(c) \in Refused \cup {"none"}
    BY DEF Refusal, Refused
  <2> DEFINE k == [conn[c] EXCEPT !.pc = "recording", !.outcome = Refusal(c)]
  <2>3. conn[c] \in ConnRecs /\ conn[c].by \in Tickets /\ listens
    BY <2>1, AtWork
  <2>4. k \in ConnRecs /\ k.pc = "recording" /\ k.outcome = Refusal(c) /\ k.row = conn[c].row /\ k.by = conn[c].by
    BY <2>2, <2>3 DEF ConnRecs, ConnPCs, Refused, Terminal
  <2>5. Conn(c, k)
    BY <1>3 DEF Check
  <2> HIDE DEF k
  <2> QED BY <2>1, <2>2, <2>3, <2>4, <2>5, ConnWorks DEF HasRow
<1>4. ASSUME NEW c \in Conns, Dial(c) PROVE ProxyInv'
  <2>1. conn[c].pc = "dialling" /\ HasRow(c) /\ UNCHANGED <<ticket, netlog, unsettled, listens>>
    BY <1>4 DEF Dial, ConnAt, HasRow
  <2>2. CASE \E o \in {"failed", "refused_local"} : Settles(c, o) /\ UNCHANGED reached
    <3>1. conn[c].row \notin reached
      BY <2>1 DEF ProxyInv, RowsFit, LoggedFits
    <3> QED BY <2>1, <2>2, <3>1, ConnSettles
  <2>3. CASE reached' = reached \cup {conn[c].row} /\ Conn(c, [conn[c] EXCEPT !.pc = "carrying"])
    <3> DEFINE k == [conn[c] EXCEPT !.pc = "carrying"]
    <3>1. conn[c] \in ConnRecs /\ conn[c].by \in Tickets /\ listens
      BY <2>1, AtWork
    <3>2. k \in ConnRecs /\ k.pc = "carrying" /\ k.row = conn[c].row /\ k.by = conn[c].by
      BY <3>1 DEF ConnRecs, ConnPCs
    <3>3. Conn(c, k)
      BY <2>3
    <3> HIDE DEF k
    <3> QED BY <2>1, <2>3, <3>1, <3>2, <3>3, ConnWorks
  <2> QED BY <1>4, <2>2, <2>3 DEF Dial
<1>5. ASSUME NEW c \in Conns, Handshake(c) PROVE ProxyInv'
  <2>1. conn[c].pc = "dialling" /\ HasRow(c) /\ UNCHANGED <<ticket, netlog, reached, unsettled, listens>>
    BY <1>5 DEF Handshake, ConnAt, HasRow, OnlyConn
  <2>2. CASE Settles(c, "failed")
    BY <2>1, <2>2, ConnSettles
  <2>3. CASE Conn(c, [conn[c] EXCEPT !.pc = "relaying", !.how = "read"])
    <3> DEFINE k == [conn[c] EXCEPT !.pc = "relaying", !.how = "read"]
    <3>1. conn[c] \in ConnRecs /\ conn[c].by \in Tickets /\ listens
      BY <2>1, AtWork
    <3>2. k \in ConnRecs /\ k.pc = "relaying" /\ k.row = conn[c].row /\ k.by = conn[c].by
      BY <3>1 DEF ConnRecs, ConnPCs
    <3>3. Conn(c, k)
      BY <2>3
    <3> HIDE DEF k
    <3> QED BY <2>1, <3>1, <3>2, <3>3, ConnWorks
  <2> QED BY <1>5, <2>2, <2>3 DEF Handshake
<1>6. ASSUME NEW c \in Conns, Relay(c) PROVE ProxyInv'
  <2>1. conn[c].pc = "relaying" /\ HasRow(c) /\ UNCHANGED <<ticket, netlog, unsettled, listens>>
    BY <1>6 DEF Relay, ConnAt, HasRow
  <2>2. CASE \E o \in {"closed", "failed"} : Settles(c, o) /\ reached' \in {reached, reached \cup {conn[c].row}}
    BY <2>1, <2>2, ConnSettles
  <2>3. CASE reached' = reached \cup {conn[c].row} /\ Conn(c, conn[c])
    <3>1. conn[c] \in ConnRecs /\ conn[c].by \in Tickets /\ listens
      BY <2>1, AtWork
    <3> QED BY <2>1, <2>3, <3>1, ConnWorks
  <2> QED BY <1>6, <2>2, <2>3 DEF Relay
<1>7. ASSUME NEW c \in Conns, ClientLeaves(c) \/ Finish(c) \/ Cut(c) PROVE ProxyInv'
  <2>1. HasRow(c) /\ UNCHANGED <<ticket, netlog, reached, unsettled, listens>>
    BY <1>7 DEF ClientLeaves, Finish, Cut, ConnAt, HasRow, OnlyConn
  <2>2. \E o \in {"closed", "failed"} : Settles(c, o)
    BY <1>7 DEF ClientLeaves, Finish, Cut
  <2> QED BY <2>1, <2>2, ConnSettles
<1>8. ASSUME NEW c \in Conns, RecordConn(c) PROVE ProxyInv'
  <2> DEFINE new == Len(netlog) + 1
             o == conn[c].outcome
             row == IF o = "none" THEN "open" ELSE o
  <2>1. /\ conn[c].pc = "recording" /\ conn[c].row = 0 /\ ~HasRow(c) /\ o \in Refused \cup {"none"}
        /\ UNCHANGED <<ticket, reached, unsettled, listens>>
    BY <1>8 DEF RecordConn, ConnAt, OnlyConn, ProxyInv, RowsFit, LoggedFits, HasRow
  <2>2. conn[c] \in ConnRecs /\ conn[c].by \in Tickets /\ listens
    BY <2>1, AtWork
  <2>3. NoConn \in ConnRecs /\ NoConn.pc = "idle" /\ NoConn.row = 0
    BY DEF NoConn, ConnRecs, ConnPCs, Places4
  <2>4. netlog \in Seq(Terminal \cup {"open"}) /\ new \in Nat
    BY DEF ProxyInv, ProxyTypes
  <2>5. CASE Conn(c, NoConn) /\ UNCHANGED netlog
    <3>1. conn' \in [Conns -> ConnRecs] /\ conn'[c] = NoConn /\ \A d \in Conns : d # c => conn'[d] = conn[d]
      BY <2>3, <2>5, ConnMoves DEF ProxyInv
    <3> HIDE DEF NoConn
    <3>2. ProxyTypes' /\ RowsFit' /\ RowOfOne'
      BY <2>1, <2>3, <2>5, <3>1 DEF ProxyInv, ProxyTypes, RowsFit, LoggedFits, RowOfOne, HasRow
    <3>3. ConnLogIsTrue'
      <4>1. 0 \notin DOMAIN netlog
        BY <2>4
      <4> QED BY <2>1, <2>5, <3>1, <4>1 DEF ProxyInv, ConnLogIsTrue
    <3> QED BY <3>2, <3>3 DEF ProxyInv
  <2>6. CASE /\ netlog' = Append(netlog, row)
             /\ Conn(c, IF o = "none" THEN [conn[c] EXCEPT !.pc = "dialling", !.row = new] ELSE NoConn)
    <3>1. row \in Terminal \cup {"open"}
      BY <2>1 DEF Refused, Terminal
    <3> HIDE DEF row
    <3>2. /\ netlog' \in Seq(Terminal \cup {"open"}) /\ DOMAIN netlog' = DOMAIN netlog \cup {new}
          /\ new \notin DOMAIN netlog /\ new # 0 /\ netlog'[new] = row
          /\ \A n \in DOMAIN netlog : netlog'[n] = netlog[n]
      BY <2>4, <2>6, <3>1
    <3>3. new \notin reached /\ new \notin unsettled
      BY <3>2 DEF ProxyInv, ProxyTypes
    <3>4. \A d \in Conns : conn[d].row # new
      BY <3>2 DEF ProxyInv, RowsFit, LoggedFits
    <3> HIDE DEF new
    <3> DEFINE k == IF o = "none" THEN [conn[c] EXCEPT !.pc = "dialling", !.row = new] ELSE NoConn
    <3>5. /\ k \in ConnRecs
          /\ o = "none" => k.pc = "dialling" /\ k.row = new /\ k.by = conn[c].by
          /\ o # "none" => k = NoConn
      BY <2>2, <2>3, <2>4 DEF ConnRecs, ConnPCs
    <3>6. Conn(c, k)
      BY <2>6
    <3> HIDE DEF k, NoConn
    <3>7. conn' \in [Conns -> ConnRecs] /\ conn'[c] = k /\ \A d \in Conns : d # c => conn'[d] = conn[d]
      BY <3>5, <3>6, ConnMoves DEF ProxyInv
    <3>8. ProxyTypes'
      BY <2>1, <3>2, <3>7 DEF ProxyInv, ProxyTypes
    <3>9. RowsFit'
      <4> SUFFICES ASSUME NEW d \in Conns PROVE LoggedFits(d)'
        BY DEF RowsFit
      <4>1. CASE d # c
        BY <2>1, <3>2, <3>7, <4>1 DEF ProxyInv, RowsFit, LoggedFits, HasRow
      <4>2. CASE d = c /\ o # "none"
        BY <2>3, <3>5, <3>7, <4>2 DEF LoggedFits, HasRow
      <4>3. CASE d = c /\ o = "none"
        BY <2>1, <2>2, <3>2, <3>3, <3>5, <3>7, <4>3 DEF LoggedFits, HasRow, row
      <4> QED BY <4>1, <4>2, <4>3
    <3>10. RowOfOne'
      <4>1. HasRow(c)' => conn'[c].row = new
        BY <2>3, <3>5, <3>7 DEF HasRow
      <4> QED BY <3>4, <3>7, <4>1 DEF ProxyInv, RowOfOne, HasRow
    <3>11. ConnLogIsTrue'
      <4> SUFFICES ASSUME NEW n \in DOMAIN netlog'
                   PROVE  /\ netlog'[n] \in Refused => n \notin reached'
                          /\ netlog'[n] = "open" /\ listens' => n \in unsettled' \/ \E d \in Conns : conn'[d].row = n
        BY DEF ConnLogIsTrue, Refused
      <4>1. CASE n = new
        BY <2>1, <3>2, <3>3, <3>5, <3>7, <4>1 DEF row, Refused
      <4>2. CASE n # new
        <5>1. n \in DOMAIN netlog /\ netlog'[n] = netlog[n]
          BY <3>2, <4>2
        <5>2. n # 0
          BY <2>4, <5>1
        <5>3. netlog[n] \in Refused => n \notin reached
          BY <5>1 DEF ProxyInv, ConnLogIsTrue, Refused
        <5>4. netlog[n] = "open" /\ listens => n \in unsettled \/ \E d \in Conns : d # c /\ conn[d].row = n
          BY <2>1, <5>1, <5>2 DEF ProxyInv, ConnLogIsTrue
        <5> QED BY <2>1, <3>7, <5>1, <5>3, <5>4
      <4> QED BY <4>1, <4>2
    <3> QED BY <3>8, <3>9, <3>10, <3>11 DEF ProxyInv
  <2> QED BY <1>8, <2>5, <2>6 DEF RecordConn
<1>9. ASSUME NEW c \in Conns, SettleConn(c) PROVE ProxyInv'
  <2> DEFINE r == conn[c].row
             o == conn[c].outcome
  <2>1. /\ conn[c].pc = "settling" /\ HasRow(c) /\ r \in DOMAIN netlog /\ netlog[r] = "open"
        /\ o \in {"closed", "failed", "refused_local"} /\ (o = "refused_local" => r \notin reached)
        /\ UNCHANGED <<ticket, reached, listens>> /\ Conn(c, NoConn) /\ listens
    BY <1>9 DEF SettleConn, ConnAt, ProxyInv, RowsFit, LoggedFits, HasRow
  <2>2. NoConn \in ConnRecs /\ NoConn.pc = "idle" /\ NoConn.row = 0
    BY DEF NoConn, ConnRecs, ConnPCs, Places4
  <2>3. conn' \in [Conns -> ConnRecs] /\ conn'[c] = NoConn /\ \A d \in Conns : d # c => conn'[d] = conn[d]
    BY <2>1, <2>2, ConnMoves DEF ProxyInv
  <2> HIDE DEF NoConn
  <2>4. \A d \in Conns : d # c /\ HasRow(d) => conn[d].row # r
    BY <2>1 DEF ProxyInv, RowOfOne
  <2>5. RowOfOne'
    BY <2>2, <2>3 DEF ProxyInv, RowOfOne, HasRow
  <2>6. \/ netlog' = [netlog EXCEPT ![r] = o] /\ unsettled' = unsettled
        \/ netlog' = netlog /\ unsettled' = unsettled \cup {r}
    BY <1>9, <2>1 DEF SettleConn
  <2>7. /\ netlog' \in Seq(Terminal \cup {"open"}) /\ DOMAIN netlog' = DOMAIN netlog
        /\ \A n \in DOMAIN netlog : n # r => netlog'[n] = netlog[n]
        /\ \/ netlog'[r] = o
           \/ netlog'[r] = "open" /\ r \in unsettled'
        /\ unsettled \subseteq unsettled' /\ unsettled' \subseteq DOMAIN netlog
    <3>1. o \in Terminal
      BY <2>1 DEF Terminal
    <3> HIDE DEF o
    <3> QED BY <2>1, <2>6, <3>1 DEF ProxyInv, ProxyTypes
  <2>8. ProxyTypes'
    BY <2>1, <2>3, <2>7 DEF ProxyInv, ProxyTypes
  <2>9. RowsFit'
    <3> SUFFICES ASSUME NEW d \in Conns PROVE LoggedFits(d)'
      BY DEF RowsFit
    <3>1. CASE d = c
      BY <2>2, <2>3, <3>1 DEF LoggedFits, HasRow
    <3>2. CASE d # c
      BY <2>1, <2>3, <2>4, <2>7, <3>2 DEF ProxyInv, RowsFit, LoggedFits, HasRow
    <3> QED BY <3>1, <3>2
  <2>10. ConnLogIsTrue'
    <3> SUFFICES ASSUME NEW n \in DOMAIN netlog
                 PROVE  /\ netlog'[n] \in Refused => n \notin reached'
                        /\ netlog'[n] = "open" /\ listens' => n \in unsettled' \/ \E d \in Conns : conn'[d].row = n
      BY <2>7 DEF ConnLogIsTrue, Refused
    <3>1. CASE n = r
      BY <2>1, <2>7, <3>1 DEF Refused
    <3>2. CASE n # r
      BY <2>1, <2>3, <2>7, <3>2 DEF ProxyInv, ConnLogIsTrue, Refused
    <3> QED BY <3>1, <3>2
  <2> QED BY <2>5, <2>8, <2>9, <2>10 DEF ProxyInv
<1>10. CASE StopGate
  <2>1. NoConn \in ConnRecs /\ NoConn.pc = "idle" /\ NoConn.row = 0
    BY DEF NoConn, ConnRecs, ConnPCs, Places4
  <2>2. /\ conn' \in [Conns -> ConnRecs] /\ \A c \in Conns : conn'[c] = NoConn
        /\ UNCHANGED <<netlog, reached, unsettled>> /\ listens' = FALSE
    BY <1>10, <2>1 DEF StopGate
  <2>3. ticket' \in [Tickets -> TicketRecs]
    BY <1>10 DEF StopGate, NoTicket, TicketRecs
  <2> HIDE DEF NoConn
  <2> QED BY <2>1, <2>2, <2>3 DEF ProxyInv, ProxyTypes, RowsFit, LoggedFits, RowOfOne, ConnLogIsTrue, HasRow
<1>11. CASE StartGate
  <2>1. ~listens /\ listens' = TRUE /\ UNCHANGED <<ticket, conn, reached, unsettled>>
    BY <1>11 DEF StartGate
  <2>2. /\ netlog' \in Seq(Terminal \cup {"open"}) /\ DOMAIN netlog' = DOMAIN netlog
        /\ \A n \in DOMAIN netlog : netlog'[n] = IF netlog[n] = "open" THEN "interrupted" ELSE netlog[n]
    BY <1>11 DEF StartGate, ProxyInv, ProxyTypes, Terminal
  <2>3. \A c \in Conns : conn[c].pc = "idle"
    BY <2>1 DEF ProxyInv, RowsFit, LoggedFits
  <2>4. ProxyTypes' /\ RowsFit' /\ RowOfOne'
    BY <2>1, <2>2, <2>3 DEF ProxyInv, ProxyTypes, RowsFit, LoggedFits, RowOfOne, HasRow
  <2>5. ConnLogIsTrue'
    BY <2>1, <2>2 DEF ProxyInv, ConnLogIsTrue
  <2> QED BY <2>4, <2>5 DEF ProxyInv
<1>12. CASE UNCHANGED proxyVars
  BY <1>12 DEF proxyVars, ProxyInv, ProxyTypes, RowsFit, LoggedFits, RowOfOne, ConnLogIsTrue, HasRow
<1> QED BY <1>1, <1>2, <1>3, <1>4, <1>5, <1>6, <1>7, <1>8, <1>9, <1>10, <1>11, <1>12 DEF ProxyNext, GateStep

\* Whatever step makes a row reached is a dial or a relay of its own connection.
LEMMA ReachingStep ==
    ASSUME ProxyInv, [ProxyNext]_proxyVars, NEW c \in Conns,
           reached' \ reached = {conn[c].row}, conn[c].row # 0
    PROVE  conn[c].place = "granted" /\ ~Ended(c) /\ netlog[conn[c].row] = "open"
<1>1. HasRow(c) /\ netlog[conn[c].row] = "open"
  BY DEF ProxyInv, RowsFit, LoggedFits
<1>2. PICK d \in Conns : /\ Dial(d) \/ Relay(d)
                         /\ conn[d].place = "granted" /\ ~Ended(d) /\ reached' = reached \cup {conn[d].row}
  <2>1. reached' # reached
    OBVIOUS
  <2> QED BY <2>1 DEF ProxyNext, GateStep, proxyVars, OpenTicket, CloseTicket, ForgetTicket, TicketBecomes,
             Knock, Check, RecordConn, Handshake, ClientLeaves, Finish, Cut, SettleConn, OnlyConn, StopGate,
             StartGate, Dial, Relay
<1>3. HasRow(d) /\ conn[d].row = conn[c].row
  BY <1>2 DEF Dial, Relay, ConnAt, HasRow
<1>4. d = c
  BY <1>1, <1>3 DEF ProxyInv, RowOfOne
<1> QED BY <1>1, <1>2, <1>4

(* What the log says of a connection is what became of it: a refused one was never made,
   and an open row has somebody at it or a settling that failed; and only what the operator
   granted is reached, by a run that has not ended (gate.go begin, connect, settle; store.go
   Reconcile).                                                              *)
THEOREM LogAndReach == ProxySpec => ConnectsAsLogged
<1>1. ProxyInv => ConnLogIsTrue
  BY DEF ProxyInv
<1>2. ProxyInv /\ [ProxyNext]_proxyVars =>
        [\A c \in Conns : reached' \ reached = {conn[c].row} /\ conn[c].row # 0 =>
           conn[c].place = "granted" /\ ~Ended(c) /\ netlog[conn[c].row] = "open"]_proxyVars
  BY ReachingStep
<1> QED BY <1>1, <1>2, ProxyInvInit, ProxyInvStep, PTL DEF ProxySpec, ConnectsAsLogged, ReachesOnlyTheGranted

------------------------------------------------------------------------------
(* Connections to MCP servers: McpPool.                                    *)

CallPCs  == {"idle", "granted", "taking", "dialling", "opened", "calling"}
Holding(c) == caller[c].pc \in {"opened", "calling"}
Drained  == stop = "drained"

LendRecs == [pc : CallPCs, ws : Spaces \cup {Unset}, cmd : Commands \cup {Unset},
             conn : Nat, back : {"put", "close"}]
Links    == [cmd : Commands, ws : Spaces \cup {Unset}, state : {"alive", "dead", "closed"}]
Slots    == [conn : Nat, busy : BOOLEAN]

PoolTypes ==
    /\ server \in [cmd : Commands, status : {"pending", "approved", "disabled"},
                   fp : Commands \cup {Unset}]
    /\ keeper \in [Keepers -> [pc : {"idle", "stamping"}, status : {"none", "approved", "disabled"},
                               cmd : Commands \cup {Unset}]]
    /\ \A k \in Keepers : keeper[k].pc = "stamping" =>
          keeper[k].cmd \in Commands /\ keeper[k].status \in {"approved", "disabled"}
    /\ vetted \subseteq Commands
    /\ wire \in Seq(Links)
    /\ pool \in [Commands -> Slots]
    /\ stop \in {"open", "closed", "drained"}
    /\ caller \in [Callers -> LendRecs]
    /\ closing \subseteq DOMAIN wire

\* What is stamped was read by somebody, and who passed Spawnable passed with it.
Approvals ==
    /\ server.status = "approved" => server.fp \in vetted
    /\ \A c \in Callers : caller[c].pc \in {"taking", "dialling", "opened", "calling"} =>
          caller[c].cmd \in vetted

\* What the pool keeps under a command is a connection of that command, open, and
\* on nobody's way to be closed.
KeptIsOpen ==
    \A k \in Commands : pool[k].conn # 0 =>
       /\ ~Drained
       /\ pool[k].conn \in DOMAIN wire /\ wire[pool[k].conn].cmd = k
       /\ wire[pool[k].conn].state # "closed" /\ pool[k].conn \notin closing

\* What a call holds is of its command; it is its own, or the pool's, marked busy,
\* until the pool is drained.
HeldRight(c) ==
    /\ ~Holding(c) => caller[c].conn = 0
    /\ Holding(c) => caller[c].conn \in DOMAIN wire /\ wire[caller[c].conn].cmd = caller[c].cmd
    /\ caller[c].pc = "opened" \/ (caller[c].pc = "calling" /\ caller[c].back = "close") =>
          /\ wire[caller[c].conn].state # "closed" /\ caller[c].conn \notin closing
          /\ \A k \in Commands : pool[k].conn # caller[c].conn
    /\ caller[c].pc = "calling" /\ caller[c].back = "put" =>
          IF Drained
          THEN caller[c].conn \in closing \/ wire[caller[c].conn].state = "closed"
          ELSE pool[caller[c].cmd].conn = caller[c].conn /\ pool[caller[c].cmd].busy
HeldIsHeld == \A c \in Callers : HeldRight(c)

HeldByOne ==
    \A c, d \in Callers : Holding(c) /\ Holding(d) /\ c # d => caller[c].conn # caller[d].conn

PoolInv ==
    PoolTypes /\ Approvals /\ KeptIsOpen /\ HeldIsHeld /\ HeldByOne /\ NoConnIsLost

LEMMA PoolInvInit == PoolInit => PoolInv
BY PoolConstants DEF PoolInit, PoolInv, PoolTypes, Approvals, KeptIsOpen, HeldIsHeld, HeldRight, HeldByOne,
   NoConnIsLost, Holding, Drained, CallPCs, LendRecs, Links, Slots, NoKeeping, NoTaking, Vacant

\* A call moves on alone.
LEMMA CallMoves ==
    ASSUME PoolTypes, NEW c \in Callers, NEW t \in LendRecs, Taking(c, t)
    PROVE  /\ caller' \in [Callers -> LendRecs] /\ caller'[c] = t
           /\ \A d \in Callers : d # c => caller'[d] = caller[d]
BY DEF PoolTypes, Taking

\* A call that holds nothing before and after.
LEMMA HoldsNothing ==
    ASSUME PoolInv, NEW c \in Callers, ~Holding(c), NEW t \in LendRecs, Taking(c, t),
           t.pc \notin {"opened", "calling"}, t.conn = 0,
           UNCHANGED <<wire, pool, closing, stop>>
    PROVE  KeptIsOpen' /\ HeldIsHeld' /\ HeldByOne' /\ NoConnIsLost'
<1> USE DEF PoolInv, Holding, Drained
<1>1. caller'[c] = t /\ \A d \in Callers : d # c => caller'[d] = caller[d]
  BY CallMoves
<1>2. KeptIsOpen'
  BY DEF KeptIsOpen
<1>3. HeldIsHeld'
  BY <1>1 DEF HeldIsHeld, HeldRight
<1>4. HeldByOne'
  BY <1>1 DEF HeldByOne
<1>5. NoConnIsLost'
  BY <1>1 DEF NoConnIsLost, HeldIsHeld, HeldRight, PoolTypes
<1> QED BY <1>2, <1>3, <1>4, <1>5

LEMMA PoolInvStep == PoolInv /\ [PoolNext]_poolVars => PoolInv'
<1> SUFFICES ASSUME PoolInv, [PoolNext]_poolVars PROVE PoolInv'
  OBVIOUS
<1> USE DEF PoolInv
<1> DEFINE Lent == KeptIsOpen /\ HeldIsHeld /\ HeldByOne /\ NoConnIsLost
<1>1. ASSUME NEW k \in Keepers, ReadServer(k) \/ StampServer(k) PROVE PoolInv'
  <2> USE <1>1 DEF OnlyRow, NoKeeping
  <2>1. PoolTypes'
    <3>1. CASE ReadServer(k)
      BY <3>1 DEF ReadServer, PoolTypes
    <3>2. CASE StampServer(k)
      <4>1. vetted' \subseteq Commands /\ server' \in [cmd : Commands, status : {"pending", "approved", "disabled"},
                                                      fp : Commands \cup {Unset}]
        BY <3>2 DEF StampServer, PoolTypes
      <4> QED BY <3>2, <4>1 DEF StampServer, PoolTypes
    <3> QED BY <3>1, <3>2
  <2> USE DEF ReadServer, StampServer
  <2>2. Approvals'
    BY DEF Approvals, PoolTypes
  <2>3. Lent'
    BY DEF KeptIsOpen, HeldIsHeld, HeldRight, HeldByOne, NoConnIsLost, Holding, Drained
  <2> QED BY <2>1, <2>2, <2>3
<1>2. CASE EditServer
  <2> USE <1>2 DEF EditServer, OnlyRow
  <2>1. PoolTypes'
    BY DEF PoolTypes
  <2>2. Approvals'
    BY DEF Approvals
  <2>3. Lent'
    BY DEF KeptIsOpen, HeldIsHeld, HeldRight, HeldByOne, NoConnIsLost, Holding, Drained
  <2> QED BY <2>1, <2>2, <2>3
<1>3. ASSUME NEW c \in Callers, Grant(c) PROVE PoolInv'
  <2>1. PICK ws \in Spaces : Taking(c, [NoTaking EXCEPT !.pc = "granted", !.ws = ws])
    BY <1>3 DEF Grant
  <2> DEFINE t == [NoTaking EXCEPT !.pc = "granted", !.ws = ws]
  <2>2. t \in LendRecs /\ t.pc = "granted" /\ t.conn = 0
    BY DEF LendRecs, NoTaking, CallPCs
  <2>3. ~Holding(c) /\ UNCHANGED <<server, keeper, vetted, wire, pool, closing, stop>>
    BY <1>3 DEF Grant, TakingAt, Holding, OnlyCall
  <2> HIDE DEF t
  <2>4. Lent'
    BY <2>1, <2>2, <2>3, HoldsNothing DEF t
  <2>5. PoolTypes'
    BY <2>1, <2>2, <2>3, CallMoves DEF PoolTypes, t
  <2>6. Approvals'
    BY <2>1, <2>2, <2>3, CallMoves DEF Approvals, t
  <2> QED BY <2>4, <2>5, <2>6
<1>4. ASSUME NEW c \in Callers, Spawnable(c) PROVE PoolInv'
  <2> USE DEF Spawnable, TakingAt, OnlyCall
  <2>1. caller[c] \in LendRecs /\ caller[c].conn = 0 /\ ~Holding(c)
    BY <1>4 DEF PoolTypes, HeldIsHeld, HeldRight, Holding
  <2>2. PICK t \in LendRecs : /\ Taking(c, t) /\ t.conn = 0 /\ t.pc \in {"idle", "taking"}
                              /\ t.pc = "taking" => t.cmd = server.cmd /\ server.status = "approved"
                                                    /\ server.fp = server.cmd
    <3>1. NoTaking \in LendRecs /\ NoTaking.conn = 0 /\ NoTaking.pc = "idle"
      BY DEF NoTaking, LendRecs, CallPCs
    <3> DEFINE u == [caller[c] EXCEPT !.pc = "taking", !.cmd = server.cmd]
    <3>2. u \in LendRecs /\ u.conn = 0 /\ u.pc = "taking" /\ u.cmd = server.cmd
      BY <2>1 DEF LendRecs, CallPCs, PoolTypes
    <3> HIDE DEF u
    <3>3. CASE server.status = "approved" /\ server.fp = server.cmd
      BY <1>4, <3>2, <3>3 DEF u
    <3>4. CASE ~(server.status = "approved" /\ server.fp = server.cmd)
      BY <1>4, <3>1, <3>4
    <3> QED BY <3>3, <3>4
  <2>3. Lent'
    BY <1>4, <2>1, <2>2, HoldsNothing
  <2>4. PoolTypes'
    BY <1>4, <2>2, CallMoves DEF PoolTypes
  <2>5. Approvals'
    <3>1. server'.status = "approved" => server'.fp = server.fp /\ server.status = "approved"
      BY <1>4 DEF PoolTypes
    <3>2. caller'[c] = t /\ \A d \in Callers : d # c => caller'[d] = caller[d]
      BY <2>2, CallMoves
    <3>3. vetted' = vetted
      BY <1>4
    <3> QED BY <2>2, <3>1, <3>2, <3>3 DEF Approvals
  <2> QED BY <2>3, <2>4, <2>5
<1>5. ASSUME NEW c \in Callers, Take(c) PROVE PoolInv'
  <2> DEFINE key == caller[c].cmd
  <2> USE DEF TakingAt, OnlyCall, PoolKey
  <2>1. /\ caller[c] \in LendRecs /\ caller[c].conn = 0 /\ ~Holding(c)
        /\ key \in vetted /\ key \in Commands /\ pool[key] \in Slots
    BY <1>5 DEF Take, PoolTypes, HeldIsHeld, HeldRight, Holding, Approvals
  <2>2. UNCHANGED <<server, keeper, vetted, wire, stop>>
    BY <1>5 DEF Take
  <2>3. CASE pool[key].conn # 0 /\ ~pool[key].busy /\ Alive(pool[key].conn)
    <3> DEFINE u == [caller[c] EXCEPT !.pc = "calling", !.conn = pool[key].conn, !.back = "put"]
    <3>1. u \in LendRecs /\ u.conn = pool[key].conn /\ u.pc = "calling" /\ u.back = "put" /\ u.cmd = key
      BY <2>1 DEF LendRecs, CallPCs, Slots
    <3>2. Taking(c, u) /\ pool' = [pool EXCEPT ![key].busy = TRUE] /\ UNCHANGED closing
      BY <1>5, <2>3 DEF Take
    <3> HIDE DEF u
    <3>3. /\ caller' \in [Callers -> LendRecs] /\ caller'[c] = u
          /\ \A d \in Callers : d # c => caller'[d] = caller[d]
      BY <3>1, <3>2, CallMoves
    <3>4. /\ pool' \in [Commands -> Slots] /\ pool'[key].conn = pool[key].conn /\ pool'[key].busy
          /\ \A k \in Commands : k # key => pool'[k] = pool[k]
      BY <2>1, <3>2 DEF PoolTypes, Slots
    <3>5. ~Drained /\ pool[key].conn \in DOMAIN wire /\ wire[pool[key].conn].cmd = key
      BY <2>1, <2>3 DEF KeptIsOpen
    <3>6. PoolTypes' /\ Approvals'
      BY <2>1, <2>2, <3>1, <3>2, <3>3, <3>4 DEF PoolTypes, Approvals
    <3>7. KeptIsOpen'
      BY <2>2, <3>2, <3>4 DEF KeptIsOpen, Drained
    <3>8. \A d \in Callers : Holding(d) => caller[d].conn # pool[key].conn
      BY <2>1, <2>3, <3>5 DEF HeldIsHeld, HeldRight, Holding, PoolTypes, LendRecs
    <3>9. HeldIsHeld'
      <4> SUFFICES ASSUME NEW d \in Callers PROVE HeldRight(d)'
        BY DEF HeldIsHeld
      <4>1. CASE d = c
        BY <2>2, <3>1, <3>2, <3>3, <3>4, <3>5, <4>1 DEF HeldRight, Holding, Drained
      <4>2. CASE d # c
        BY <2>2, <3>2, <3>3, <3>4, <4>2 DEF HeldIsHeld, HeldRight, Holding, Drained
      <4> QED BY <4>1, <4>2
    <3>10. HeldByOne'
      BY <3>1, <3>3, <3>8 DEF HeldByOne, Holding
    <3>11. NoConnIsLost'
      BY <2>1, <2>2, <3>2, <3>3, <3>4 DEF NoConnIsLost, PoolTypes
    <3> QED BY <3>6, <3>7, <3>9, <3>10, <3>11
  <2>4. CASE ~(pool[key].conn # 0 /\ ~pool[key].busy /\ Alive(pool[key].conn))
    <3> DEFINE u == [caller[c] EXCEPT !.pc = "dialling"]
    <3>1. u \in LendRecs /\ u.conn = 0 /\ u.pc = "dialling" /\ u.cmd = key
      BY <2>1 DEF LendRecs, CallPCs
    <3>2. /\ Taking(c, u)
          /\ \/ UNCHANGED <<pool, closing>>
             \/ /\ pool[key].conn # 0 /\ ~pool[key].busy
                /\ pool' = [pool EXCEPT ![key] = Vacant] /\ closing' = closing \cup {pool[key].conn}
      BY <1>5, <2>4 DEF Take
    <3> HIDE DEF u
    <3>3. /\ caller' \in [Callers -> LendRecs] /\ caller'[c] = u
          /\ \A d \in Callers : d # c => caller'[d] = caller[d]
      BY <3>1, <3>2, CallMoves
    <3>4. CASE UNCHANGED <<pool, closing>>
      <4>1. Lent'
        BY <2>1, <2>2, <3>1, <3>2, <3>4, HoldsNothing
      <4>2. PoolTypes' /\ Approvals'
        BY <2>1, <2>2, <3>1, <3>3, <3>4 DEF PoolTypes, Approvals
      <4> QED BY <4>1, <4>2
    <3>5. CASE /\ pool[key].conn # 0 /\ ~pool[key].busy
               /\ pool' = [pool EXCEPT ![key] = Vacant] /\ closing' = closing \cup {pool[key].conn}
      <4>1. /\ pool' \in [Commands -> Slots] /\ pool'[key].conn = 0
            /\ \A k \in Commands : k # key => pool'[k] = pool[k]
        BY <2>1, <3>5 DEF PoolTypes, Slots, Vacant
      <4>2. ~Drained /\ pool[key].conn \in DOMAIN wire /\ wire[pool[key].conn].cmd = key
        BY <2>1, <3>5 DEF KeptIsOpen
      <4>3. PoolTypes' /\ Approvals'
        BY <2>1, <2>2, <3>1, <3>3, <3>5, <4>1, <4>2 DEF PoolTypes, Approvals
      <4>4. KeptIsOpen'
        BY <2>2, <3>5, <4>1, <4>2 DEF KeptIsOpen, Drained
      <4>5. HeldIsHeld'
        <5> SUFFICES ASSUME NEW d \in Callers PROVE HeldRight(d)'
          BY DEF HeldIsHeld
        <5>1. CASE d = c
          BY <3>1, <3>3, <5>1 DEF HeldRight, Holding
        <5>2. CASE d # c
          BY <2>1, <2>2, <3>3, <3>5, <4>1, <4>2, <5>2
             DEF HeldIsHeld, HeldRight, Holding, Drained, PoolTypes, LendRecs
        <5> QED BY <5>1, <5>2
      <4>6. HeldByOne'
        BY <3>1, <3>3 DEF HeldByOne, Holding
      <4>7. NoConnIsLost'
        BY <2>1, <2>2, <3>3, <3>5, <4>1 DEF NoConnIsLost, PoolTypes
      <4> QED BY <4>3, <4>4, <4>5, <4>6, <4>7
    <3> QED BY <3>2, <3>4, <3>5
  <2> QED BY <2>3, <2>4
<1>6. ASSUME NEW c \in Callers, DialServer(c) PROVE PoolInv'
  <2> USE DEF TakingAt, OnlyCall
  <2>1. /\ caller[c] \in LendRecs /\ caller[c].conn = 0 /\ ~Holding(c)
        /\ caller[c].cmd \in vetted /\ caller[c].cmd \in Commands /\ wire \in Seq(Links)
    BY <1>6 DEF DialServer, PoolTypes, HeldIsHeld, HeldRight, Holding, Approvals
  <2>2. UNCHANGED <<server, keeper, vetted, pool, closing, stop>>
    BY <1>6 DEF DialServer
  <2>3. CASE PoolFault /\ Taking(c, NoTaking) /\ UNCHANGED wire
    <3>1. NoTaking \in LendRecs /\ NoTaking.conn = 0 /\ NoTaking.pc = "idle"
      BY DEF NoTaking, LendRecs, CallPCs
    <3> HIDE DEF NoTaking
    <3>2. Lent'
      BY <2>1, <2>2, <2>3, <3>1, HoldsNothing
    <3>3. caller' \in [Callers -> LendRecs] /\ caller'[c] = NoTaking
          /\ \A d \in Callers : d # c => caller'[d] = caller[d]
      BY <2>3, <3>1, CallMoves
    <3>4. PoolTypes' /\ Approvals'
      BY <2>2, <2>3, <3>1, <3>3 DEF PoolTypes, Approvals
    <3> QED BY <3>2, <3>4
  <2>4. CASE ~(PoolFault /\ Taking(c, NoTaking) /\ UNCHANGED wire)
    <3> DEFINE new == Len(wire) + 1
               link == [cmd |-> caller[c].cmd, ws |-> caller[c].ws, state |-> "alive"]
               u == [caller[c] EXCEPT !.pc = "opened", !.conn = new]
    <3>1. u \in LendRecs /\ u.conn = new /\ u.pc = "opened" /\ u.cmd = caller[c].cmd
      <4>1. new \in Nat
        BY <2>1
      <4> HIDE DEF new
      <4> QED BY <2>1, <4>1 DEF LendRecs, CallPCs
    <3>2. link \in Links /\ link.cmd = caller[c].cmd /\ link.state = "alive"
      BY <2>1 DEF Links, LendRecs
    <3>3. Taking(c, u) /\ wire' = Append(wire, link)
      BY <1>6, <2>4 DEF DialServer
    <3> HIDE DEF u, link
    <3>4. /\ wire' \in Seq(Links) /\ DOMAIN wire' = DOMAIN wire \cup {new} /\ new \notin DOMAIN wire
          /\ new # 0 /\ wire'[new] = link /\ \A n \in DOMAIN wire : wire'[n] = wire[n]
      BY <2>1, <3>2, <3>3
    <3> HIDE DEF new
    <3>5. /\ caller' \in [Callers -> LendRecs] /\ caller'[c] = u
          /\ \A d \in Callers : d # c => caller'[d] = caller[d]
      BY <3>1, <3>3, CallMoves
    <3>6. PoolTypes' /\ Approvals'
      BY <2>1, <2>2, <3>1, <3>4, <3>5 DEF PoolTypes, Approvals
    <3>7. KeptIsOpen'
      BY <2>2, <3>4 DEF KeptIsOpen, Drained
    <3>8. \A k \in Commands : pool[k].conn # new
      BY <3>4 DEF KeptIsOpen
    <3>9. \A d \in Callers : caller[d].conn # new
      BY <3>4 DEF HeldIsHeld, HeldRight
    <3>10. new \notin closing
      BY <3>4 DEF PoolTypes
    <3>11. HeldIsHeld'
      <4> SUFFICES ASSUME NEW d \in Callers PROVE HeldRight(d)'
        BY DEF HeldIsHeld
      <4>1. CASE d = c
        BY <2>2, <3>1, <3>2, <3>4, <3>5, <3>8, <3>10, <4>1 DEF HeldRight, Holding
      <4>2. CASE d # c
        BY <2>2, <3>4, <3>5, <4>2 DEF HeldIsHeld, HeldRight, Holding, Drained
      <4> QED BY <4>1, <4>2
    <3>12. HeldByOne'
      BY <3>1, <3>5, <3>9 DEF HeldByOne, Holding
    <3>13. NoConnIsLost'
      <4>1. 0 \notin DOMAIN wire
        BY <2>1
      <4> QED BY <2>1, <2>2, <3>1, <3>4, <3>5, <4>1 DEF NoConnIsLost
    <3> QED BY <3>6, <3>7, <3>11, <3>12, <3>13
  <2> QED BY <2>3, <2>4
<1>7. ASSUME NEW c \in Callers, Enter(c) PROVE PoolInv'
  <2> DEFINE key == caller[c].cmd
  <2> USE DEF TakingAt, OnlyCall, PoolKey
  <2>1. /\ caller[c] \in LendRecs /\ caller[c].pc = "opened" /\ caller[c].conn \in DOMAIN wire
        /\ key \in vetted /\ key \in Commands /\ pool[key] \in Slots
        /\ wire[caller[c].conn].cmd = key /\ wire[caller[c].conn].state # "closed"
        /\ caller[c].conn \notin closing /\ \A k \in Commands : pool[k].conn # caller[c].conn
    BY <1>7 DEF Enter, PoolTypes, HeldIsHeld, HeldRight, Holding, Approvals
  <2>2. UNCHANGED <<server, keeper, vetted, wire, closing, stop>>
    BY <1>7 DEF Enter
  <2>3. \A d \in Callers : d # c /\ Holding(d) => caller[d].conn # caller[c].conn
    BY <2>1 DEF HeldByOne, Holding
  <2>4. PICK u \in LendRecs :
           /\ Taking(c, u) /\ u.conn = caller[c].conn /\ u.pc = "calling" /\ u.cmd = key
           /\ IF stop # "open" \/ pool[key].conn # 0
              THEN u.back = "close" /\ UNCHANGED pool
              ELSE u.back = "put" /\ pool' = [pool EXCEPT ![key] = [conn |-> caller[c].conn, busy |-> TRUE]]
    <3>1. CASE stop # "open" \/ pool[key].conn # 0
      <4> DEFINE u == [caller[c] EXCEPT !.pc = "calling", !.back = "close"]
      <4>1. u \in LendRecs /\ u.conn = caller[c].conn /\ u.pc = "calling" /\ u.cmd = key /\ u.back = "close"
        BY <2>1 DEF LendRecs, CallPCs
      <4>2. Taking(c, u) /\ UNCHANGED pool
        BY <1>7, <3>1 DEF Enter
      <4> HIDE DEF u
      <4> QED BY <3>1, <4>1, <4>2
    <3>2. CASE ~(stop # "open" \/ pool[key].conn # 0)
      <4> DEFINE u == [caller[c] EXCEPT !.pc = "calling", !.back = "put"]
      <4>1. u \in LendRecs /\ u.conn = caller[c].conn /\ u.pc = "calling" /\ u.cmd = key /\ u.back = "put"
        BY <2>1 DEF LendRecs, CallPCs
      <4>2. Taking(c, u) /\ pool' = [pool EXCEPT ![key] = [conn |-> caller[c].conn, busy |-> TRUE]]
        BY <1>7, <3>2 DEF Enter
      <4> HIDE DEF u
      <4> QED BY <3>2, <4>1, <4>2
    <3> QED BY <3>1, <3>2
  <2>5. /\ caller' \in [Callers -> LendRecs] /\ caller'[c] = u
        /\ \A d \in Callers : d # c => caller'[d] = caller[d]
    BY <2>4, CallMoves
  <2>6. CASE stop # "open" \/ pool[key].conn # 0
    <3>1. PoolTypes' /\ Approvals'
      BY <2>1, <2>2, <2>4, <2>5, <2>6 DEF PoolTypes, Approvals
    <3>2. KeptIsOpen'
      BY <2>2, <2>4, <2>6 DEF KeptIsOpen, Drained
    <3>3. HeldIsHeld'
      <4> SUFFICES ASSUME NEW d \in Callers PROVE HeldRight(d)'
        BY DEF HeldIsHeld
      <4>1. CASE d = c
        BY <2>1, <2>2, <2>4, <2>5, <2>6, <4>1 DEF HeldRight, Holding
      <4>2. CASE d # c
        BY <2>2, <2>4, <2>5, <2>6, <4>2 DEF HeldIsHeld, HeldRight, Holding, Drained
      <4> QED BY <4>1, <4>2
    <3>4. HeldByOne'
      BY <2>3, <2>4, <2>5 DEF HeldByOne, Holding
    <3>5. NoConnIsLost'
      BY <2>2, <2>4, <2>5, <2>6 DEF NoConnIsLost
    <3> QED BY <3>1, <3>2, <3>3, <3>4, <3>5
  <2>7. CASE ~(stop # "open" \/ pool[key].conn # 0)
    <3>1. /\ pool' \in [Commands -> Slots] /\ pool'[key].conn = caller[c].conn /\ pool'[key].busy
          /\ \A k \in Commands : k # key => pool'[k] = pool[k]
      <4> DEFINE slot == [conn |-> caller[c].conn, busy |-> TRUE]
      <4>1. slot \in Slots /\ slot.conn = caller[c].conn /\ slot.busy
        BY <2>1 DEF Slots, LendRecs
      <4>2. pool' = [pool EXCEPT ![key] = slot]
        BY <2>4, <2>7
      <4> HIDE DEF slot
      <4> QED BY <2>1, <4>1, <4>2 DEF PoolTypes
    <3>2. PoolTypes' /\ Approvals'
      BY <2>1, <2>2, <2>4, <2>5, <3>1 DEF PoolTypes, Approvals
    <3>3. KeptIsOpen'
      BY <2>1, <2>2, <2>7, <3>1 DEF KeptIsOpen, Drained
    <3>4. HeldIsHeld'
      <4> SUFFICES ASSUME NEW d \in Callers PROVE HeldRight(d)'
        BY DEF HeldIsHeld
      <4>1. CASE d = c
        BY <2>1, <2>2, <2>4, <2>5, <2>7, <3>1, <4>1 DEF HeldRight, Holding, Drained
      <4>2. CASE d # c
        <5>1. caller[d].pc = "calling" /\ caller[d].back = "put" => caller[d].cmd # key
          BY <2>7, <4>2 DEF HeldIsHeld, HeldRight, Holding, Drained, PoolTypes, KeptIsOpen
        <5>2. \A k \in Commands : Holding(d) /\ pool[k].conn # caller[d].conn => pool'[k].conn # caller[d].conn
          BY <2>3, <3>1, <4>2
        <5>3. caller'[d] = caller[d] /\ UNCHANGED <<wire, closing, stop>>
          BY <2>2, <2>5, <4>2
        <5>4. caller[d].pc = "calling" => caller[d].cmd \in Commands
          BY DEF Approvals, PoolTypes
        <5> QED BY <3>1, <5>1, <5>2, <5>3, <5>4 DEF HeldIsHeld, HeldRight, Holding, Drained
      <4> QED BY <4>1, <4>2
    <3>5. HeldByOne'
      BY <2>3, <2>4, <2>5 DEF HeldByOne, Holding
    <3>6. NoConnIsLost'
      <4> SUFFICES ASSUME NEW n \in DOMAIN wire, wire[n].state # "closed"
                   PROVE  n \in closing' \/ (stop' # "drained" /\ \E k \in Commands : pool'[k].conn = n)
                          \/ \E d \in Callers : caller'[d].conn = n
        BY <2>2 DEF NoConnIsLost
      <4>1. n \in closing \/ (stop # "drained" /\ \E k \in Commands : pool[k].conn = n)
            \/ \E d \in Callers : caller[d].conn = n
        BY DEF NoConnIsLost
      <4>2. n # 0
        BY DEF PoolTypes
      <4> QED BY <2>2, <2>4, <2>5, <2>7, <3>1, <4>1, <4>2
    <3> QED BY <3>2, <3>3, <3>4, <3>5, <3>6
  <2> QED BY <2>6, <2>7
<1>8. ASSUME NEW c \in Callers, Release(c) PROVE PoolInv'
  <2> DEFINE key == caller[c].cmd
  <2> USE DEF TakingAt, OnlyCall, PoolKey
  <2>1. /\ caller[c].pc = "calling" /\ caller[c].conn \in DOMAIN wire /\ wire[caller[c].conn].cmd = key
        /\ key \in vetted /\ key \in Commands /\ pool[key] \in Slots /\ caller[c].back \in {"put", "close"}
    BY <1>8 DEF Release, PoolTypes, HeldIsHeld, HeldRight, Holding, Approvals, LendRecs
  <2>2. UNCHANGED <<server, keeper, vetted, wire, stop>> /\ Taking(c, NoTaking)
    BY <1>8 DEF Release
  <2>3. NoTaking \in LendRecs /\ NoTaking.conn = 0 /\ NoTaking.pc = "idle"
    BY DEF NoTaking, LendRecs, CallPCs
  <2> HIDE DEF NoTaking
  <2>4. /\ caller' \in [Callers -> LendRecs] /\ caller'[c] = NoTaking
        /\ \A d \in Callers : d # c => caller'[d] = caller[d]
    BY <2>2, <2>3, CallMoves
  <2>5. \A d \in Callers : d # c /\ Holding(d) => caller[d].conn # caller[c].conn
    BY <2>1 DEF HeldByOne, Holding
  <2>6. HeldByOne'
    BY <2>3, <2>4 DEF HeldByOne, Holding
  <2>7. Approvals'
    BY <2>2, <2>3, <2>4 DEF Approvals
  <2>8. CASE caller[c].back = "close"
    <3>1. closing' = closing \cup {caller[c].conn} /\ UNCHANGED pool
      BY <1>8, <2>8 DEF Release
    <3>2. PoolTypes'
      BY <2>1, <2>2, <2>4, <3>1 DEF PoolTypes
    <3>3. \A k \in Commands : pool[k].conn # caller[c].conn
      BY <2>1, <2>8 DEF HeldIsHeld, HeldRight
    <3>4. KeptIsOpen'
      BY <2>2, <3>1, <3>3 DEF KeptIsOpen, Drained
    <3>5. HeldIsHeld'
      <4> SUFFICES ASSUME NEW d \in Callers PROVE HeldRight(d)'
        BY DEF HeldIsHeld
      <4>1. CASE d = c
        BY <2>3, <2>4, <4>1 DEF HeldRight, Holding
      <4>2. CASE d # c
        BY <2>2, <2>4, <2>5, <3>1, <4>2 DEF HeldIsHeld, HeldRight, Holding, Drained
      <4> QED BY <4>1, <4>2
    <3>6. NoConnIsLost'
      BY <2>2, <2>4, <3>1 DEF NoConnIsLost
    <3> QED BY <2>6, <2>7, <3>2, <3>4, <3>5, <3>6
  <2>9. CASE caller[c].back = "put" /\ Drained
    <3>1. \A k \in Commands : pool[k].conn = 0
      BY <2>9 DEF KeptIsOpen, Drained, PoolTypes, Slots
    <3>2. UNCHANGED <<pool, closing>>
      BY <1>8, <2>1, <2>9, <3>1 DEF Release
    <3>3. PoolTypes'
      BY <2>2, <2>4, <3>2 DEF PoolTypes
    <3>4. KeptIsOpen'
      BY <2>2, <3>2 DEF KeptIsOpen, Drained
    <3>5. HeldIsHeld'
      <4> SUFFICES ASSUME NEW d \in Callers PROVE HeldRight(d)'
        BY DEF HeldIsHeld
      <4>1. CASE d = c
        BY <2>3, <2>4, <4>1 DEF HeldRight, Holding
      <4>2. CASE d # c
        BY <2>2, <2>4, <3>2, <4>2 DEF HeldIsHeld, HeldRight, Holding, Drained
      <4> QED BY <4>1, <4>2
    <3>6. caller[c].conn \in closing \/ wire[caller[c].conn].state = "closed"
      BY <2>1, <2>9 DEF HeldIsHeld, HeldRight
    <3>7. NoConnIsLost'
      BY <2>2, <2>4, <3>2, <3>6 DEF NoConnIsLost
    <3> QED BY <2>6, <2>7, <3>3, <3>4, <3>5, <3>7
  <2>10. CASE caller[c].back = "put" /\ ~Drained
    <3>1. pool[key].conn = caller[c].conn /\ pool[key].busy /\ pool[key].conn # 0
      BY <2>1, <2>10 DEF HeldIsHeld, HeldRight, PoolTypes
    <3>2. \A d \in Callers : d # c /\ caller[d].pc = "calling" /\ caller[d].back = "put" => caller[d].cmd # key
      BY <2>5, <2>10, <3>1 DEF HeldIsHeld, HeldRight, Holding
    <3>3. \A d \in Callers : caller[d].pc = "calling" => caller[d].cmd \in Commands
      BY DEF Approvals, PoolTypes
    <3>4. CASE stop = "open"
      <4>1. pool' = [pool EXCEPT ![key].busy = FALSE] /\ UNCHANGED closing
        BY <1>8, <2>10, <3>1, <3>4 DEF Release
      <4>2. /\ pool' \in [Commands -> Slots] /\ pool'[key].conn = pool[key].conn
            /\ \A k \in Commands : k # key => pool'[k] = pool[k]
        BY <2>1, <4>1 DEF PoolTypes, Slots
      <4>3. PoolTypes'
        BY <2>2, <2>4, <4>1, <4>2 DEF PoolTypes
      <4>4. KeptIsOpen'
        BY <2>2, <4>1, <4>2 DEF KeptIsOpen, Drained
      <4>5. HeldIsHeld'
        <5> SUFFICES ASSUME NEW d \in Callers PROVE HeldRight(d)'
          BY DEF HeldIsHeld
        <5>1. CASE d = c
          BY <2>3, <2>4, <5>1 DEF HeldRight, Holding
        <5>2. CASE d # c
          BY <2>2, <2>4, <3>2, <3>3, <4>1, <4>2, <5>2 DEF HeldIsHeld, HeldRight, Holding, Drained
        <5> QED BY <5>1, <5>2
      <4>6. NoConnIsLost'
        BY <2>1, <2>2, <2>4, <3>1, <3>4, <4>1, <4>2 DEF NoConnIsLost
      <4> QED BY <2>6, <2>7, <4>3, <4>4, <4>5, <4>6
    <3>5. CASE stop # "open"
      <4>1. pool' = [pool EXCEPT ![key] = Vacant] /\ closing' = closing \cup {pool[key].conn}
        BY <1>8, <2>10, <3>1, <3>5 DEF Release
      <4>2. /\ pool' \in [Commands -> Slots] /\ pool'[key].conn = 0
            /\ \A k \in Commands : k # key => pool'[k] = pool[k]
        BY <2>1, <4>1 DEF PoolTypes, Slots, Vacant
      <4>3. PoolTypes'
        BY <2>1, <2>2, <2>4, <3>1, <4>1, <4>2 DEF PoolTypes
      <4>4. KeptIsOpen'
        BY <2>1, <2>2, <3>1, <4>1, <4>2 DEF KeptIsOpen, Drained
      <4>5. HeldIsHeld'
        <5> SUFFICES ASSUME NEW d \in Callers PROVE HeldRight(d)'
          BY DEF HeldIsHeld
        <5>1. CASE d = c
          BY <2>3, <2>4, <5>1 DEF HeldRight, Holding
        <5>2. CASE d # c
          <6>1. 0 \notin DOMAIN wire
            BY DEF PoolTypes
          <6> QED BY <2>1, <2>2, <2>4, <2>5, <3>1, <3>2, <3>3, <4>1, <4>2, <5>2, <6>1
                     DEF HeldIsHeld, HeldRight, Holding, Drained
        <5> QED BY <5>1, <5>2
      <4>6. NoConnIsLost'
        BY <2>1, <2>2, <2>4, <3>1, <4>1, <4>2 DEF NoConnIsLost
      <4> QED BY <2>6, <2>7, <4>3, <4>4, <4>5, <4>6
    <3> QED BY <3>4, <3>5
  <2> QED BY <2>1, <2>8, <2>9, <2>10
<1>9. ASSUME NEW keys \in SUBSET Commands, Removed(keys), \A k \in keys : pool[k].conn # 0,
             UNCHANGED <<server, keeper, vetted, caller, wire>>,
             \/ stop' = stop /\ \A k \in keys : ~pool[k].busy
             \/ stop = "closed" /\ Drained' /\ \A k \in Commands \ keys : pool[k].conn = 0
      PROVE  PoolInv'
  <2>1. /\ pool' \in [Commands -> Slots] /\ closing' = closing \cup {pool[k].conn : k \in keys}
        /\ \A k \in keys : pool'[k].conn = 0 /\ pool[k].conn \in DOMAIN wire
        /\ \A k \in Commands \ keys : pool'[k] = pool[k]
    BY <1>9 DEF Removed, Vacant, PoolTypes, Slots, KeptIsOpen
  <2>2. PoolTypes'
    BY <1>9, <2>1 DEF PoolTypes, Drained
  <2>3. Approvals'
    BY <1>9 DEF Approvals
  <2>4. KeptIsOpen'
    <3> SUFFICES ASSUME NEW k \in Commands, pool'[k].conn # 0
                 PROVE  /\ ~Drained' /\ pool'[k].conn \in DOMAIN wire' /\ wire'[pool'[k].conn].cmd = k
                        /\ wire'[pool'[k].conn].state # "closed" /\ pool'[k].conn \notin closing'
      BY DEF KeptIsOpen
    <3>1. k \notin keys /\ pool'[k] = pool[k]
      BY <2>1
    <3>2. \A j \in keys : pool[j].conn # pool[k].conn
      BY <1>9, <3>1 DEF KeptIsOpen
    <3> QED BY <1>9, <2>1, <3>1, <3>2 DEF KeptIsOpen, Drained
  <2>5. HeldIsHeld'
    <3> SUFFICES ASSUME NEW d \in Callers PROVE HeldRight(d)'
      BY DEF HeldIsHeld
    <3>1. HeldRight(d) /\ caller'[d] = caller[d] /\ UNCHANGED wire
      BY <1>9 DEF HeldIsHeld
    <3>2. caller[d].pc = "calling" => caller[d].cmd \in Commands
      BY DEF Approvals, PoolTypes
    <3>3. 0 \notin DOMAIN wire
      BY DEF PoolTypes
    <3>4. CASE stop' = stop /\ \A k \in keys : ~pool[k].busy
      BY <2>1, <3>1, <3>2, <3>3, <3>4 DEF HeldRight, Holding, Drained
    <3>5. CASE stop = "closed" /\ Drained' /\ \A k \in Commands \ keys : pool[k].conn = 0
      BY <2>1, <3>1, <3>2, <3>3, <3>5 DEF HeldRight, Holding, Drained
    <3> QED BY <1>9, <3>4, <3>5
  <2>6. HeldByOne'
    BY <1>9 DEF HeldByOne, Holding
  <2>7. NoConnIsLost'
    BY <1>9, <2>1 DEF NoConnIsLost, Drained, PoolTypes
  <2> QED BY <2>2, <2>3, <2>4, <2>5, <2>6, <2>7
<1>10. CASE ExpireConns
  <2>1. PICK keys \in SUBSET {k \in Commands : pool[k].conn # 0 /\ ~pool[k].busy} : Removed(keys)
    BY <1>10 DEF ExpireConns
  <2> QED BY <1>9, <1>10, <2>1 DEF ExpireConns, OnlyPool
<1>11. CASE StopPool
  <2> USE <1>11 DEF StopPool, OnlyPool
  <2>1. PoolTypes' /\ Approvals'
    BY DEF PoolTypes, Approvals
  <2>2. Lent'
    BY DEF KeptIsOpen, HeldIsHeld, HeldRight, HeldByOne, NoConnIsLost, Holding, Drained
  <2> QED BY <2>1, <2>2
<1>12. CASE DrainPool
  <2> DEFINE keys == {k \in Commands : pool[k].conn # 0}
  <2>1. keys \in SUBSET Commands /\ Removed(keys)
    BY <1>12 DEF DrainPool
  <2> QED BY <1>9, <1>12, <2>1 DEF DrainPool, OnlyPool, Drained
<1>13. ASSUME NEW n \in DOMAIN wire, CloseConn(n) PROVE PoolInv'
  <2>1. n \in closing /\ closing' = closing \ {n} /\ wire' = [wire EXCEPT ![n].state = "closed"]
        /\ UNCHANGED <<server, keeper, vetted, pool, stop, caller>>
    BY <1>13 DEF CloseConn, OnlyPool
  <2>2. /\ wire' \in Seq(Links) /\ DOMAIN wire' = DOMAIN wire /\ wire'[n].cmd = wire[n].cmd /\ wire'[n].state = "closed"
        /\ \A m \in DOMAIN wire : m # n => wire'[m] = wire[m]
    <3> DEFINE link == [wire[n] EXCEPT !.state = "closed"]
    <3>1. link \in Links /\ link.cmd = wire[n].cmd /\ link.state = "closed"
      <4>1. wire[n] \in Links
        BY DEF PoolTypes
      <4> QED BY <4>1 DEF Links
    <3>2. wire' = [wire EXCEPT ![n] = link]
      BY <2>1
    <3> HIDE DEF link
    <3> QED BY <3>1, <3>2 DEF PoolTypes
  <2>3. PoolTypes' /\ Approvals'
    BY <2>1, <2>2 DEF PoolTypes, Approvals
  <2>4. KeptIsOpen'
    BY <2>1, <2>2 DEF KeptIsOpen, Drained
  <2>5. HeldIsHeld'
    BY <2>1, <2>2 DEF HeldIsHeld, HeldRight, Holding, Drained
  <2>6. HeldByOne' /\ NoConnIsLost'
    BY <2>1, <2>2 DEF HeldByOne, NoConnIsLost, Holding
  <2> QED BY <2>3, <2>4, <2>5, <2>6
<1>14. ASSUME NEW n \in DOMAIN wire, FarEndDies(n) PROVE PoolInv'
  <2>1. wire[n].state = "alive" /\ wire' = [wire EXCEPT ![n].state = "dead"]
        /\ UNCHANGED <<server, keeper, vetted, pool, closing, stop, caller>>
    BY <1>14 DEF FarEndDies, Alive, OnlyPool
  <2>2. /\ wire' \in Seq(Links) /\ DOMAIN wire' = DOMAIN wire /\ wire'[n].cmd = wire[n].cmd /\ wire'[n].state = "dead"
        /\ \A m \in DOMAIN wire : m # n => wire'[m] = wire[m]
    <3> DEFINE link == [wire[n] EXCEPT !.state = "dead"]
    <3>1. link \in Links /\ link.cmd = wire[n].cmd /\ link.state = "dead"
      <4>1. wire[n] \in Links
        BY DEF PoolTypes
      <4> QED BY <4>1 DEF Links
    <3>2. wire' = [wire EXCEPT ![n] = link]
      BY <2>1
    <3> HIDE DEF link
    <3> QED BY <3>1, <3>2 DEF PoolTypes
  <2>3. PoolTypes' /\ Approvals'
    BY <2>1, <2>2 DEF PoolTypes, Approvals
  <2>4. KeptIsOpen'
    BY <2>1, <2>2 DEF KeptIsOpen, Drained
  <2>5. HeldIsHeld'
    BY <2>1, <2>2 DEF HeldIsHeld, HeldRight, Holding, Drained
  <2>6. HeldByOne' /\ NoConnIsLost'
    BY <2>1, <2>2 DEF HeldByOne, NoConnIsLost, Holding
  <2> QED BY <2>3, <2>4, <2>5, <2>6
<1>15. CASE UNCHANGED poolVars
  <2> USE <1>15 DEF poolVars
  <2>1. PoolTypes' /\ Approvals'
    BY DEF PoolTypes, Approvals
  <2>2. Lent'
    BY DEF KeptIsOpen, HeldIsHeld, HeldRight, HeldByOne, NoConnIsLost, Holding, Drained
  <2> QED BY <2>1, <2>2
<1> QED BY <1>1, <1>2, <1>3, <1>4, <1>5, <1>6, <1>7, <1>8, <1>10, <1>11, <1>12, <1>13, <1>14, <1>15 DEF PoolNext

(* A pooled connection has one holder and is not closed under it, none is lost, and every
   call is answered by the command that was approved, whoever edits, approves, expires and
   dies meanwhile (mcppool.go take, put, expire, closeAll; mcpstore.go SetStatus; mcp.go
   Spawnable).                                                              *)
THEOREM PoolKeepsItsWord == PoolSpec => []PoolIsSound
<1>1. PoolInv => YoursWhileYouHoldIt
  <2> SUFFICES ASSUME PoolInv, NEW c \in Callers, Calling(c)
               PROVE  /\ \A d \in Callers \ {c} : Calling(d) => caller[d].conn # caller[c].conn
                      /\ stop = "open" => wire[caller[c].conn].state # "closed" /\ caller[c].conn \notin closing
    BY DEF YoursWhileYouHoldIt
  <2>1. \A d \in Callers \ {c} : Calling(d) => caller[d].conn # caller[c].conn
    BY DEF PoolInv, HeldByOne, Holding, Calling
  <2>2. HeldRight(c) /\ caller[c].back \in {"put", "close"} /\ caller[c].cmd \in Commands
        /\ caller[c].conn # 0
    BY DEF PoolInv, HeldIsHeld, HeldRight, Holding, PoolTypes, LendRecs, Approvals, Calling
  <2>3. stop = "open" => wire[caller[c].conn].state # "closed" /\ caller[c].conn \notin closing
    BY <2>2 DEF PoolInv, HeldRight, Calling, Drained, KeptIsOpen
  <2> QED BY <2>1, <2>3
<1>2. PoolInv => AnsweredByTheApproved
  BY DEF PoolInv, AnsweredByTheApproved, Calling, Holding, HeldIsHeld, HeldRight, Approvals
<1>3. PoolInv => PoolIsSound
  BY <1>1, <1>2 DEF PoolInv, PoolIsSound, ConnsAreKept
<1> QED BY <1>3, PoolInvInit, PoolInvStep, PTL DEF PoolSpec

------------------------------------------------------------------------------
(* A terminal's shell and who reads it: TerminalSession.                   *)

Prints    == [chunk : Nat, out : Nat]
ShellRecs == [printed : Nat, closed : BOOLEAN, attached : Nat, stale : BOOLEAN]
ChanRecs  == [of : Nat, buf : Seq(Nat), open : BOOLEAN, lost : BOOLEAN]
ViewRecs  == [pc : {"away", "attached", "reading", "quiet"}, s : Nat, ch : Nat, got : Seq(Nat)]

TermTypes ==
    /\ shell \in Seq(ShellRecs) /\ pump \in Seq(Prints) /\ chan \in Seq(ChanRecs)
    /\ view \in [Viewers -> ViewRecs]
    /\ Len(pump) = Len(shell) /\ live \in 0..Len(shell)

Sessions == 1..Len(shell)
Channels == 1..Len(chan)
Has(v)   == view[v].pc \in {"reading", "quiet"}

\* A connection has a channel of its own, of its session, once it took the session; until
\* then the session was seen just now.
ViewFits(v) ==
    /\ view[v].s \in 0..Len(shell) /\ view[v].ch \in 0..Len(chan)
    /\ view[v].pc # "away" => view[v].s \in Sessions
    /\ view[v].pc = "attached" => ~Sess(v).stale
    /\ Has(v) => view[v].ch \in Channels /\ chan[view[v].ch].of = view[v].s
ViewsFit == \A v \in Viewers : ViewFits(v)
OneEach  == \A v, w \in Viewers : Has(v) /\ Has(w) /\ v # w => view[v].ch # view[w].ch

\* The open channel of a session is the one that is attached; what is on its way is the
\* last chunk printed.
ShellFits(s) ==
    /\ shell[s].printed <= MaxPrinted /\ shell[s].attached \in 0..Len(chan)
    /\ shell[s].attached # 0 => chan[shell[s].attached].of = s /\ chan[shell[s].attached].open
    /\ pump[s] # AtRest => /\ pump[s].chunk = shell[s].printed
                           /\ pump[s].out \in 0..Len(chan)
                           /\ pump[s].out # 0 => chan[pump[s].out].of = s
ShellsFit == \A s \in Sessions : ShellFits(s)
ChansFit ==
    \A c \in Channels :
       /\ chan[c].of \in Sessions /\ Len(chan[c].buf) <= Buffer
       /\ chan[c].open => shell[chan[c].of].attached = c

\* What a connection is shown goes up one by one, to the last chunk printed or to the one
\* before it while that is on its way.
EndOf(q) == IF q = <<>> THEN 0 ELSE q[Len(q)]
InOrder(q, gaps) ==
    \A i \in 1..Len(q) - 1 : q[i] < q[i + 1] /\ (~gaps => q[i + 1] = q[i] + 1)
Shown(v) == view[v].got \o chan[view[v].ch].buf
IsShown(v) ==
    LET s  == view[v].s
        ch == view[v].ch
    IN /\ InOrder(Shown(v), chan[ch].lost) /\ EndOf(Shown(v)) <= shell[s].printed
       /\ OnItsWay(s, ch) =>
             EndOf(Shown(v)) < shell[s].printed /\ (~chan[ch].lost => EndOf(Shown(v)) + 1 = shell[s].printed)
       /\ shell[s].attached = ch /\ ~chan[ch].lost /\ ~OnItsWay(s, ch) =>
             EndOf(Shown(v)) = shell[s].printed
AllShown == \A v \in Viewers : view[v].pc = "reading" => IsShown(v)

\* Whoever came last to a shell that runs is attached to it.
IsLast(v) ==
    /\ ~Sess(v).closed
    /\ \A c \in Channels : chan[c].of = view[v].s => c <= view[v].ch
LastReads == \A v \in Viewers : view[v].pc = "reading" /\ IsLast(v) => Sess(v).attached = view[v].ch

TermInv ==
    TermTypes /\ ViewsFit /\ OneEach /\ ShellsFit /\ ChansFit /\ AllShown /\ LastReads

\* What the types say of every session, channel and connection.
LEMMA TermFacts ==
    ASSUME TermInv
    PROVE  /\ Len(shell) \in Nat /\ Len(chan) \in Nat /\ Len(pump) = Len(shell)
           /\ DOMAIN shell = Sessions /\ DOMAIN pump = Sessions /\ DOMAIN chan = Channels
           /\ \A s \in Sessions : s # 0 /\ shell[s] \in ShellRecs /\ pump[s] \in Prints
           /\ \A c \in Channels : c # 0 /\ chan[c] \in ChanRecs
           /\ \A v \in Viewers : view[v] \in ViewRecs
           /\ \A v \in Viewers : Has(v) => view[v].s \in Sessions /\ view[v].ch \in Channels
<1>1. TermTypes /\ ViewsFit
  BY DEF TermInv
<1>2. Len(shell) \in Nat /\ DOMAIN shell = Sessions /\ \A s \in Sessions : shell[s] \in ShellRecs
  BY <1>1, LenProperties, ElementOfSeq DEF TermTypes, Sessions
<1>3. Len(pump) = Len(shell) /\ DOMAIN pump = Sessions /\ \A s \in Sessions : pump[s] \in Prints
  BY <1>1, LenProperties, ElementOfSeq DEF TermTypes, Sessions
<1>4. Len(chan) \in Nat /\ DOMAIN chan = Channels /\ \A c \in Channels : chan[c] \in ChanRecs
  BY <1>1, LenProperties, ElementOfSeq DEF TermTypes, Channels
<1>5. \A v \in Viewers : view[v] \in ViewRecs
  BY <1>1 DEF TermTypes
<1>6. \A s \in Sessions : s # 0
  BY <1>2 DEF Sessions
<1>7. \A c \in Channels : c # 0
  BY <1>4 DEF Channels
<1>8. \A v \in Viewers : Has(v) => view[v].s \in Sessions /\ view[v].ch \in Channels
  BY <1>1 DEF ViewsFit, ViewFits, Has
<1> QED BY <1>2, <1>3, <1>4, <1>5, <1>6, <1>7, <1>8

\* One place of a sequence is written.
LEMMA PlaceSet ==
    ASSUME NEW S, NEW q \in Seq(S), NEW i \in 1..Len(q), NEW e \in S
    PROVE  LET t == [q EXCEPT ![i] = e]
           IN  /\ t \in Seq(S) /\ Len(t) = Len(q) /\ t[i] = e
               /\ \A j \in 1..Len(q) : j # i => t[j] = q[j]
BY ExceptSeq

\* The sequence x is p, of m, and after it q, of n.
IsJoined(x, p, q, m, n) ==
    /\ x \in Seq(Nat) /\ Len(x) = m + n
    /\ \A i \in 1..m : x[i] = p[i]
    /\ \A k \in 1..n : x[m + k] = q[k]

LEMMA Joined ==
    ASSUME NEW p \in Seq(Nat), NEW q \in Seq(Nat)
    PROVE  IsJoined(p \o q, p, q, Len(p), Len(q))
<1>0. PICK m \in Nat, n \in Nat : Len(p) = m /\ Len(q) = n
  BY LenProperties
<1> DEFINE x == p \o q
<1>1. /\ x \in Seq(Nat) /\ Len(x) = Len(p) + Len(q)
      /\ \A i \in 1..Len(p) + Len(q) : x[i] = IF i <= Len(p) THEN p[i] ELSE q[i - Len(p)]
  BY ConcatProperties
<1> HIDE DEF x
<1>2. \A i \in 1..m + n : x[i] = IF i <= m THEN p[i] ELSE q[i - m]
  BY <1>0, <1>1
<1>3. ASSUME NEW i \in 1..m PROVE x[i] = p[i]
  <2>1. i \in 1..m + n /\ i <= m
    OBVIOUS
  <2> QED BY <2>1, <1>2
<1>4. ASSUME NEW k \in 1..n PROVE x[m + k] = q[k]
  <2>1. m + k \in 1..m + n /\ ~(m + k <= m) /\ (m + k) - m = k
    OBVIOUS
  <2> QED BY <2>1, <1>2
<1>5. x \in Seq(Nat) /\ Len(x) = m + n
  BY <1>0, <1>1
<1>6. IsJoined(x, p, q, m, n)
  BY <1>3, <1>4, <1>5 DEF IsJoined
<1> QED BY <1>0, <1>6 DEF x

\* A place of a sequence after another is one of the first's or one of the second's.
LEMMA EitherPart ==
    ASSUME NEW m \in Nat, NEW n \in Nat, NEW i \in 1..m + n
    PROVE  i \in 1..m \/ \E k \in 1..n : i = m + k
<1>1. CASE i <= m
  BY <1>1
<1>2. CASE ~(i <= m)
  <2>1. i - m \in 1..n /\ i = m + (i - m)
    BY <1>2
  <2> QED BY <2>1
<1> QED BY <1>1, <1>2

\* What a connection takes out of its channel it has been shown: the whole stays.
LEMMA MovedAlong ==
    ASSUME NEW p \in Seq(Nat), NEW q \in Seq(Nat), q # <<>>
    PROVE  /\ Append(p, Head(q)) \in Seq(Nat) /\ Tail(q) \in Seq(Nat) /\ Len(Tail(q)) = Len(q) - 1
           /\ Append(p, Head(q)) \o Tail(q) = p \o q
<1> DEFINE a == Append(p, Head(q))  t == Tail(q)  x == a \o t  y == p \o q
<1>1. PICK m \in Nat, n \in Nat : Len(p) = m /\ Len(q) = n + 1
  <2>1. Len(p) \in Nat /\ Len(q) \in Nat \ {0}
    BY LenProperties, EmptySeq
  <2>2. Len(q) - 1 \in Nat /\ Len(q) = (Len(q) - 1) + 1
    BY <2>1
  <2> QED BY <2>1, <2>2
<1>2. 1 \in 1..Len(q) /\ Head(q) = q[1] /\ q[1] \in Nat
  BY <1>1, ElementOfSeq
<1>3. t \in Seq(Nat) /\ Len(t) = n /\ \A k \in 1..n : t[k] = q[k + 1]
  <2>1. t \in Seq(Nat) /\ Len(t) = Len(q) - 1 /\ \A k \in 1..Len(t) : t[k] = q[k + 1]
    BY HeadTailProperties
  <2>2. Len(t) = n
    BY <2>1, <1>1
  <2> QED BY <2>1, <2>2
<1>4. a \in Seq(Nat) /\ Len(a) = m + 1 /\ a[m + 1] = q[1] /\ \A i \in 1..m : a[i] = p[i]
  BY <1>1, <1>2, AppendProperties
<1> HIDE DEF a, t
<1>5. /\ x \in Seq(Nat) /\ Len(x) = (m + 1) + n
      /\ \A i \in 1..m + 1 : x[i] = a[i]
      /\ \A k \in 1..n : x[(m + 1) + k] = t[k]
  <2>1. IsJoined(x, a, t, m + 1, n)
    BY <1>3, <1>4, Joined
  <2> HIDE DEF x
  <2> QED BY <2>1 DEF IsJoined
<1>6. /\ y \in Seq(Nat) /\ Len(y) = m + (n + 1)
      /\ \A i \in 1..m : y[i] = p[i]
      /\ \A k \in 1..n + 1 : y[m + k] = q[k]
  <2>1. IsJoined(y, p, q, m, n + 1)
    BY <1>1, Joined
  <2> HIDE DEF y
  <2> QED BY <2>1 DEF IsJoined
<1> HIDE DEF x, y
<1>7. ASSUME NEW i \in 1..(m + 1) + n PROVE x[i] = y[i]
  <2>1. CASE i \in 1..m
    <3>1. i \in 1..m + 1
      BY <2>1
    <3> QED BY <2>1, <3>1, <1>4, <1>5, <1>6
  <2>2. CASE i = m + 1
    <3>1. i \in 1..m + 1 /\ 1 \in 1..n + 1
      BY <2>2
    <3> QED BY <2>2, <3>1, <1>4, <1>5, <1>6
  <2>3. ASSUME NEW k \in 1..n, i = (m + 1) + k PROVE x[i] = y[i]
    <3>1. k + 1 \in 1..n + 1 /\ i = m + (k + 1)
      BY <2>3
    <3>2. x[i] = t[k] /\ y[i] = q[k + 1]
      BY <2>3, <3>1, <1>5, <1>6
    <3> QED BY <3>2, <1>3
  <2>4. i \in 1..m + 1 \/ \E k \in 1..n : i = (m + 1) + k
    <3>1. m + 1 \in Nat
      OBVIOUS
    <3> QED BY <3>1, EitherPart
  <2>5. i \in 1..m + 1 => i \in 1..m \/ i = m + 1
    OBVIOUS
  <2> QED BY <2>1, <2>2, <2>3, <2>4, <2>5
<1>8. x = y
  <2>1. Len(x) = Len(y) /\ Len(x) = (m + 1) + n
    BY <1>5, <1>6
  <2>2. \A i \in 1..Len(x) : x[i] = y[i]
    BY <2>1, <1>7
  <2> QED BY <1>5, <1>6, <2>1, <2>2, SeqEqual
<1>9. a \in Seq(Nat) /\ t \in Seq(Nat) /\ Len(t) = Len(q) - 1
  BY <1>1, <1>3, <1>4
<1> QED BY <1>8, <1>9 DEF a, t, x, y

\* What is put into a channel comes last of what its reader is shown.
LEMMA PutLast ==
    ASSUME NEW p \in Seq(Nat), NEW q \in Seq(Nat), NEW e \in Nat
    PROVE  p \o Append(q, e) = Append(p \o q, e) /\ p \o q \in Seq(Nat)
<1> DEFINE b == Append(q, e)  w == p \o q  x == p \o b  y == Append(w, e)
<1>1. PICK m \in Nat, n \in Nat : Len(p) = m /\ Len(q) = n
  BY LenProperties
<1>2. b \in Seq(Nat) /\ Len(b) = n + 1 /\ b[n + 1] = e /\ \A k \in 1..n : b[k] = q[k]
  BY <1>1, AppendProperties
<1>3. /\ w \in Seq(Nat) /\ Len(w) = m + n
      /\ \A i \in 1..m : w[i] = p[i]
      /\ \A k \in 1..n : w[m + k] = q[k]
  <2>1. IsJoined(w, p, q, m, n)
    BY <1>1, Joined
  <2> HIDE DEF w
  <2> QED BY <2>1 DEF IsJoined
<1> HIDE DEF b, w
<1>4. /\ x \in Seq(Nat) /\ Len(x) = m + (n + 1)
      /\ \A i \in 1..m : x[i] = p[i]
      /\ \A k \in 1..n + 1 : x[m + k] = b[k]
  <2>1. IsJoined(x, p, b, m, n + 1)
    BY <1>1, <1>2, Joined
  <2> HIDE DEF x
  <2> QED BY <2>1 DEF IsJoined
<1>5. /\ y \in Seq(Nat) /\ Len(y) = (m + n) + 1 /\ y[(m + n) + 1] = e
      /\ \A i \in 1..m + n : y[i] = w[i]
  BY <1>3, AppendProperties
<1> HIDE DEF x, y
<1>6. ASSUME NEW i \in 1..m + (n + 1) PROVE x[i] = y[i]
  <2>1. CASE i \in 1..m
    <3>1. i \in 1..m + n
      BY <2>1
    <3> QED BY <2>1, <3>1, <1>3, <1>4, <1>5
  <2>2. ASSUME NEW k \in 1..n, i = m + k PROVE x[i] = y[i]
    <3>1. k \in 1..n + 1 /\ i \in 1..m + n
      BY <2>2
    <3>2. x[i] = b[k] /\ y[i] = w[i] /\ w[i] = q[k]
      BY <2>2, <3>1, <1>3, <1>4, <1>5
    <3> QED BY <3>2, <1>2
  <2>3. CASE i = m + (n + 1)
    <3>1. n + 1 \in 1..n + 1 /\ i = (m + n) + 1
      BY <2>3
    <3> QED BY <2>3, <3>1, <1>2, <1>4, <1>5
  <2>4. i \in 1..m \/ \E k \in 1..n + 1 : i = m + k
    <3>1. n + 1 \in Nat
      OBVIOUS
    <3> QED BY <3>1, EitherPart
  <2>5. \A k \in 1..n + 1 : k \in 1..n \/ k = n + 1
    OBVIOUS
  <2> QED BY <2>1, <2>2, <2>3, <2>4, <2>5
<1>7. x = y
  <2>1. Len(x) = Len(y)
    BY <1>4, <1>5
  <2>2. \A i \in 1..Len(x) : x[i] = y[i]
    BY <1>4, <1>6
  <2> QED BY <1>4, <1>5, <2>1, <2>2, SeqEqual
<1> QED BY <1>3, <1>7 DEF b, w, x, y

\* What a sequence of chunks ends with.
LEMMA EndIsNat ==
    ASSUME NEW q \in Seq(Nat)
    PROVE  EndOf(q) \in Nat
<1>1. q # <<>> => Len(q) \in 1..Len(q)
  BY LenProperties, EmptySeq
<1>2. q # <<>> => q[Len(q)] \in Nat
  BY <1>1, ElementOfSeq
<1> QED BY <1>2 DEF EndOf

\* The next chunk keeps what is shown in order.
LEMMA OneMore ==
    ASSUME NEW q \in Seq(Nat), NEW e \in Nat, NEW gaps \in BOOLEAN, InOrder(q, gaps),
           EndOf(q) < e, ~gaps => EndOf(q) + 1 = e
    PROVE  InOrder(Append(q, e), gaps) /\ EndOf(Append(q, e)) = e /\ EndOf(q) \in Nat
<1> DEFINE t == Append(q, e)
<1>1. Len(q) \in Nat /\ \A i \in 1..Len(q) : q[i] \in Nat
  BY LenProperties, ElementOfSeq
<1>2. /\ t # <<>> /\ Len(t) = Len(q) + 1 /\ t[Len(q) + 1] = e
      /\ \A i \in 1..Len(q) : t[i] = q[i]
  BY AppendProperties
<1> HIDE DEF t
<1>3. EndOf(t) = e
  BY <1>2 DEF EndOf
<1>4. q # <<>> => Len(q) \in 1..Len(q) /\ EndOf(q) = q[Len(q)]
  BY <1>1, EmptySeq DEF EndOf
<1>5. EndOf(q) \in Nat
  BY <1>1, <1>4 DEF EndOf
<1>6. ASSUME NEW i \in 1..(Len(t) - 1) PROVE t[i] < t[i + 1] /\ (~gaps => t[i + 1] = t[i] + 1)
  <2>0. i \in 1..Len(q)
    BY <1>1, <1>2
  <2>1. CASE i < Len(q)
    <3>1. i \in 1..(Len(q) - 1) /\ i + 1 \in 1..Len(q)
      BY <2>0, <2>1, <1>1
    <3>2. t[i] = q[i] /\ t[i + 1] = q[i + 1]
      BY <2>0, <3>1, <1>2
    <3> QED BY <3>1, <3>2 DEF InOrder
  <2>2. CASE i = Len(q)
    <3>1. q # <<>>
      BY <2>0, <2>2, EmptySeq
    <3>2. t[i] = EndOf(q) /\ t[i + 1] = e
      BY <2>0, <2>2, <3>1, <1>2, <1>4
    <3> QED BY <3>2
  <2> QED BY <2>0, <2>1, <2>2, <1>1
<1>7. InOrder(t, gaps)
  BY <1>6 DEF InOrder
<1> QED BY <1>3, <1>5, <1>7 DEF t

\* The scrollback is in order, and ends with what was printed last.
LEMMA ScrollsBack ==
    ASSUME TermInv, NEW s \in Sessions
    PROVE  LET q == Scrollback(s)
           IN  /\ q \in Seq(Nat) /\ q \o <<>> = q
               /\ InOrder(q, FALSE) /\ EndOf(q) = shell[s].printed
<1> DEFINE n == shell[s].printed  k == IF n < MaxScroll THEN n ELSE MaxScroll  q == [i \in 1..k |-> n - k + i]
<1>1. n \in Nat /\ MaxScroll \in Nat \ {0}
  BY TermFacts, TerminalConstants DEF ShellRecs
<1>2. k \in Nat /\ k <= n /\ (n > 0 => k > 0)
  BY <1>1
<1> HIDE DEF n, k
<1>3. \A i \in 1..k : n - k + i \in Nat
  BY <1>1, <1>2
<1>4. q \in Seq(Nat)
  BY <1>2, <1>3, IsASeq
<1>5. DOMAIN q = 1..k /\ Len(q) = k /\ \A i \in 1..k : q[i] = n - k + i
  BY <1>2, <1>4, LenProperties
<1>6. Scrollback(s) = q
  BY DEF Scrollback, n, k
<1> HIDE DEF q
<1>7. q \o <<>> = q
  BY <1>4, ConcatEmptySeq
<1>8. InOrder(q, FALSE)
  <2>1. ASSUME NEW i \in 1..(Len(q) - 1) PROVE q[i] < q[i + 1] /\ q[i + 1] = q[i] + 1
    <3>1. i \in 1..k /\ i + 1 \in 1..k
      BY <1>2, <1>5
    <3>2. q[i] = n - k + i /\ q[i + 1] = n - k + (i + 1)
      BY <3>1, <1>5
    <3> QED BY <3>1, <3>2, <1>1, <1>2
  <2> QED BY <2>1 DEF InOrder
<1>9. EndOf(q) = n
  <2>1. CASE n = 0
    <3>1. Len(q) = 0
      BY <2>1, <1>2, <1>5
    <3>2. q = <<>>
      BY <3>1, <1>4, EmptySeq
    <3> QED BY <2>1, <3>2 DEF EndOf
  <2>2. CASE n # 0
    <3>1. k \in 1..k /\ k # 0
      BY <2>2, <1>1, <1>2
    <3>2. q # <<>> /\ q[k] = n
      BY <3>1, <1>1, <1>2, <1>5, EmptySeq
    <3> QED BY <3>2, <1>5 DEF EndOf
  <2> QED BY <2>1, <2>2
<1> QED BY <1>4, <1>6, <1>7, <1>8, <1>9 DEF n

\* A channel is closed, or none is: what it holds stays in it.
LEMMA ShutFits ==
    ASSUME TermInv, NEW c \in 0..Len(chan)
    PROVE  /\ Shut(c) \in Seq(ChanRecs) /\ Len(Shut(c)) = Len(chan)
           /\ \A d \in Channels : /\ Shut(c)[d].of = chan[d].of /\ Shut(c)[d].buf = chan[d].buf
                                  /\ Shut(c)[d].lost = chan[d].lost
                                  /\ d # c => Shut(c)[d].open = chan[d].open
                                  /\ d = c => Shut(c)[d].open = FALSE
<1>1. chan \in Seq(ChanRecs)
  BY DEF TermInv, TermTypes
<1>2. CASE c = 0
  BY <1>1, <1>2, TermFacts DEF Shut
<1>3. CASE c # 0
  <2>1. c \in Channels /\ c \in 1..Len(chan)
    BY <1>3, TermFacts DEF Channels
  <2> DEFINE r == [chan[c] EXCEPT !.open = FALSE]
  <2>2. chan[c] \in ChanRecs
    BY <2>1, TermFacts
  <2>3. /\ r \in ChanRecs /\ r.of = chan[c].of /\ r.buf = chan[c].buf /\ r.lost = chan[c].lost
        /\ r.open = FALSE
    BY <2>2 DEF ChanRecs
  <2>4. Shut(c) = [chan EXCEPT ![c] = r]
    BY <1>3 DEF Shut
  <2> HIDE DEF r
  <2>5. /\ Shut(c) \in Seq(ChanRecs) /\ Len(Shut(c)) = Len(chan) /\ Shut(c)[c] = r
        /\ \A d \in 1..Len(chan) : d # c => Shut(c)[d] = chan[d]
    BY <1>1, <2>1, <2>3, <2>4, PlaceSet
  <2> QED BY <2>3, <2>5 DEF Channels
<1> QED BY <1>2, <1>3

\* What a connection is shown is as it was if its channel, and its shell's output, are.
LEMMA ShownStays ==
    ASSUME TermInv, NEW v \in Viewers, view[v].pc = "reading", view'[v] = view[v],
           chan'[view[v].ch].buf = chan[view[v].ch].buf, chan'[view[v].ch].lost = chan[view[v].ch].lost,
           shell'[view[v].s].printed = shell[view[v].s].printed, pump'[view[v].s] = pump[view[v].s],
           shell'[view[v].s].attached = view[v].ch => shell[view[v].s].attached = view[v].ch
    PROVE  IsShown(v)'
<1>1. IsShown(v)
  BY DEF TermInv, AllShown
<1> QED BY <1>1, Zenon DEF IsShown, Shown, OnItsWay

\* A connection fits if what it refers to is as it was.
LEMMA ViewStays ==
    ASSUME TermInv, NEW v \in Viewers, view'[v] = view[v], Len(shell') \in Nat, Len(chan') \in Nat,
           Len(shell) <= Len(shell'), Len(chan) <= Len(chan'),
           view[v].pc = "attached" => shell'[view[v].s].stale = shell[view[v].s].stale
                                      \/ shell'[view[v].s].stale = FALSE,
           Has(v) => chan'[view[v].ch].of = chan[view[v].ch].of
    PROVE  ViewFits(v)' /\ Has(v)' = Has(v)
<1>1. ViewFits(v)
  BY DEF TermInv, ViewsFit
<1>2. Has(v)' = Has(v)
  BY DEF Has
<1>3. Len(shell) \in Nat /\ Len(chan) \in Nat
  BY TermFacts
<1>4. /\ view[v].s \in 0..Len(shell') /\ view[v].ch \in 0..Len(chan')
      /\ view[v].s \in Sessions => view[v].s \in Sessions'
      /\ view[v].ch \in Channels => view[v].ch \in Channels'
  BY <1>1, <1>3 DEF ViewFits, Sessions, Channels
<1>5. view[v].pc = "attached" => ~shell'[view[v].s].stale
  BY <1>1 DEF ViewFits, Sess
<1> QED BY <1>1, <1>2, <1>4, <1>5 DEF ViewFits, Sess, Has

\* A session loses its reader, or ends: its channel, if it has one, is closed.
LEMMA Detached ==
    ASSUME TermInv, NEW s \in Sessions, NEW r \in ShellRecs,
           shell' = [shell EXCEPT ![s] = r], chan' = Shut(shell[s].attached),
           r.printed = shell[s].printed, r.attached = 0,
           r.stale = shell[s].stale \/ r.stale = FALSE,
           r.closed = shell[s].closed \/ r.closed = TRUE,
           live' \in 0..Len(shell), UNCHANGED pump, view' \in [Viewers -> ViewRecs],
           \A v \in Viewers : \/ view'[v] = view[v] /\ ~(Has(v) /\ view[v].ch = shell[s].attached /\ ~r.closed)
                              \/ view'[v] = NoView
    PROVE  TermInv'
<1> DEFINE a == shell[s].attached
<1>1. ShellFits(s) /\ a \in 0..Len(chan)
  BY DEF TermInv, ShellsFit, ShellFits
<1>2. /\ chan' \in Seq(ChanRecs) /\ Len(chan') = Len(chan)
      /\ \A d \in Channels : /\ chan'[d].of = chan[d].of /\ chan'[d].buf = chan[d].buf
                             /\ chan'[d].lost = chan[d].lost
                             /\ d # a => chan'[d].open = chan[d].open
                             /\ d = a => chan'[d].open = FALSE
  BY <1>1, ShutFits
<1>3. shell \in Seq(ShellRecs) /\ Len(shell) \in Nat /\ Len(chan) \in Nat
  BY TermFacts DEF TermInv, TermTypes
<1>4. /\ shell' \in Seq(ShellRecs) /\ Len(shell') = Len(shell) /\ shell'[s] = r
      /\ \A t \in 1..Len(shell) : t # s => shell'[t] = shell[t]
  BY <1>3, PlaceSet DEF Sessions
<1> HIDE DEF a
<1>5. a = shell[s].attached
  BY DEF a
<1>6. Sessions' = Sessions /\ Channels' = Channels
  BY <1>2, <1>4 DEF Sessions, Channels
<1>7. \A t \in Sessions : t # s => shell'[t] = shell[t]
  BY <1>4 DEF Sessions
<1>8. TermTypes'
  BY <1>2, <1>4 DEF TermInv, TermTypes
<1>9. ASSUME NEW v \in Viewers PROVE ViewFits(v)' /\ (Has(v)' => view'[v] = view[v] /\ Has(v))
  <2>1. CASE view'[v] = NoView
    <3>1. view'[v].pc = "away" /\ view'[v].s = 0 /\ view'[v].ch = 0
      BY <2>1 DEF NoView
    <3> QED BY <3>1, <1>3, <1>2, <1>4 DEF ViewFits, Has
  <2>2. CASE view'[v] = view[v]
    <3>1. ViewFits(v) /\ (Has(v) => view[v].ch \in Channels)
      BY TermFacts DEF TermInv, ViewsFit
    <3>2. view[v].pc = "attached" => view[v].s \in Sessions
      BY <3>1 DEF ViewFits
    <3>3. view[v].pc = "attached" => shell'[view[v].s].stale = shell[view[v].s].stale \/ shell'[view[v].s].stale = FALSE
      BY <3>2, <1>4, <1>7
    <3>4. Has(v) => chan'[view[v].ch].of = chan[view[v].ch].of
      BY <3>1, <1>2
    <3>5. /\ Len(shell') \in Nat /\ Len(chan') \in Nat
          /\ Len(shell) <= Len(shell') /\ Len(chan) <= Len(chan')
      BY <1>2, <1>3, <1>4
    <3> QED BY <2>2, <3>3, <3>4, <3>5, ViewStays
  <2> QED BY <2>1, <2>2
<1>10. ViewsFit' /\ OneEach'
  <2>1. ViewsFit'
    BY <1>9 DEF ViewsFit
  <2>2. OneEach'
    BY <1>9 DEF OneEach, TermInv
  <2> QED BY <2>1, <2>2
<1>11. ASSUME NEW t \in Sessions PROVE ShellFits(t)'
  <2>0. ShellFits(t) /\ pump'[t] = pump[t]
    BY DEF TermInv, ShellsFit
  <2>1. \A c \in 0..Len(chan) : c # 0 => c \in Channels
    BY <1>3 DEF Channels
  <2>2. pump[t] # AtRest => /\ pump[t].chunk = shell'[t].printed
                            /\ pump[t].out \in 0..Len(chan')
                            /\ pump[t].out # 0 => chan'[pump[t].out].of = t
    BY <2>0, <2>1, <1>2, <1>4, <1>7 DEF ShellFits
  <2>3. CASE t = s
    <3>1. shell'[t].attached = 0 /\ shell'[t].printed = shell[t].printed
      BY <2>3, <1>4
    <3> QED BY <2>0, <2>2, <3>1, <1>2, <1>3 DEF ShellFits
  <2>4. CASE t # s
    <3>1. shell'[t] = shell[t]
      BY <2>4, <1>7
    <3>2. shell[t].attached # 0 =>
             /\ shell[t].attached \in Channels /\ chan[shell[t].attached].of = t
             /\ chan[shell[t].attached].open
      BY <2>0, <2>1 DEF ShellFits
    <3>3. shell[t].attached # 0 => shell[t].attached # a
      BY <2>4, <3>2, <1>1, <1>5 DEF ShellFits
    <3>4. shell[t].attached # 0 => chan'[shell[t].attached].of = t /\ chan'[shell[t].attached].open
      BY <3>2, <3>3, <1>2
    <3>5. shell[t].printed <= MaxPrinted /\ shell[t].attached \in 0..Len(chan')
      BY <2>0, <1>2 DEF ShellFits
    <3> QED BY <2>0, <2>2, <3>1, <3>4, <3>5 DEF ShellFits
  <2> QED BY <2>3, <2>4
<1>12. ShellsFit'
  BY <1>6, <1>11 DEF ShellsFit
<1>13. ASSUME NEW c \in Channels
       PROVE  /\ chan'[c].of \in Sessions /\ Len(chan'[c].buf) <= Buffer
              /\ chan'[c].open => shell'[chan'[c].of].attached = c
  <2>1. /\ chan[c].of \in Sessions /\ Len(chan[c].buf) <= Buffer
        /\ chan[c].open => shell[chan[c].of].attached = c
    BY DEF TermInv, ChansFit
  <2>2. chan'[c].open => c # a /\ chan[c].open
    BY <1>2
  <2>3. chan'[c].open => chan[c].of # s
    BY <2>1, <2>2, <1>5
  <2> QED BY <2>1, <2>2, <2>3, <1>2, <1>7
<1>14. ChansFit'
  BY <1>6, <1>13 DEF ChansFit
<1>15. ASSUME NEW v \in Viewers, view'[v].pc = "reading"
       PROVE  /\ IsShown(v)'
              /\ IsLast(v)' => shell'[view'[v].s].attached = view'[v].ch
  <2>1. view'[v] = view[v] /\ Has(v) /\ Has(v)'
    BY <1>9, <1>15 DEF Has
  <2>2. view[v].s \in Sessions /\ view[v].ch \in Channels /\ view[v].ch # 0
    BY <2>1, TermFacts
  <2>3. /\ view'[v].pc = "reading" /\ view[v].pc = "reading"
    BY <1>15, <2>1
  <2>4. /\ shell'[view[v].s].printed = shell[view[v].s].printed
        /\ shell'[view[v].s].attached = view[v].ch => shell[view[v].s].attached = view[v].ch
    BY <2>2, <1>4, <1>7
  <2>5. IsShown(v)'
    BY <2>1, <2>2, <2>3, <2>4, <1>2, ShownStays
  <2>6. ASSUME IsLast(v)' PROVE shell'[view'[v].s].attached = view'[v].ch
    <3>1. ~shell'[view[v].s].closed
      BY <2>1, <2>6 DEF IsLast, Sess
    <3>2. ~shell[view[v].s].closed
      BY <3>1, <2>2, <1>4, <1>7
    <3>3. \A c \in Channels : chan[c].of = view[v].s => c <= view[v].ch
      BY <2>1, <2>6, <1>2, <1>6 DEF IsLast
    <3>4. shell[view[v].s].attached = view[v].ch
      BY <2>3, <3>2, <3>3 DEF TermInv, LastReads, IsLast, Sess
    <3>5. view[v].s # s
      <4>1. ASSUME view[v].s = s PROVE FALSE
        <5>1. ~r.closed
          BY <4>1, <3>1, <1>4
        <5>2. view[v].ch = a /\ view'[v] # NoView
          BY <4>1, <3>4, <1>5, <1>15 DEF NoView
        <5> QED BY <5>1, <5>2, <2>1, <1>5
      <4> QED BY <4>1
    <3> QED BY <2>1, <2>2, <3>4, <3>5, <1>7
  <2> QED BY <2>5, <2>6
<1>16. AllShown' /\ LastReads'
  BY <1>15 DEF AllShown, LastReads, Sess
<1> QED BY <1>8, <1>10, <1>12, <1>14, <1>16 DEF TermInv

\* A session is seen, or an hour goes by; a connection comes to it, hears no more, or goes.
LEMMA OnlySeen ==
    ASSUME TermInv, NEW s \in Sessions, NEW r \in ShellRecs,
           shell' = [shell EXCEPT ![s] = r],
           r.printed = shell[s].printed, r.attached = shell[s].attached, r.closed = shell[s].closed,
           UNCHANGED <<live, pump, chan>>, view' \in [Viewers -> ViewRecs],
           \A v \in Viewers :
              \/ view'[v] = view[v] /\ ~(view[v].pc = "attached" /\ view[v].s = s /\ r.stale)
              \/ view'[v] = NoView
              \/ view'[v] = [NoView EXCEPT !.pc = "attached", !.s = s] /\ ~r.stale
              \/ view'[v] = [view[v] EXCEPT !.pc = "quiet"] /\ Has(v)
    PROVE  TermInv'
<1>1. shell \in Seq(ShellRecs) /\ Len(shell) \in Nat /\ Len(chan) \in Nat
  BY TermFacts DEF TermInv, TermTypes
<1>2. /\ shell' \in Seq(ShellRecs) /\ Len(shell') = Len(shell) /\ shell'[s] = r
      /\ \A t \in 1..Len(shell) : t # s => shell'[t] = shell[t]
  BY <1>1, PlaceSet DEF Sessions
<1>3. \A t \in Sessions : t # s => shell'[t] = shell[t]
  BY <1>2 DEF Sessions
<1>4. /\ Sessions' = Sessions /\ Channels' = Channels
      /\ \A t \in Sessions : /\ shell'[t].printed = shell[t].printed
                             /\ shell'[t].attached = shell[t].attached
                             /\ shell'[t].closed = shell[t].closed
  BY <1>2, <1>3 DEF Sessions, Channels
<1>5. TermTypes'
  BY <1>2 DEF TermInv, TermTypes
<1>6. ASSUME NEW v \in Viewers
      PROVE  /\ ViewFits(v)'
             /\ Has(v)' => Has(v) /\ view'[v].s = view[v].s /\ view'[v].ch = view[v].ch
             /\ view'[v].pc = "reading" => view'[v] = view[v]
  <2>0. /\ ViewFits(v) /\ view[v] \in ViewRecs
        /\ Has(v) => view[v].s \in Sessions /\ view[v].ch \in Channels
    BY TermFacts DEF TermInv, ViewsFit
  <2>1. CASE view'[v] = view[v] /\ ~(view[v].pc = "attached" /\ view[v].s = s /\ r.stale)
    <3>1. view[v].pc = "attached" => ~shell'[view[v].s].stale
      BY <2>0, <2>1, <1>2, <1>3 DEF ViewFits, Sess
    <3> QED BY <2>0, <2>1, <3>1, <1>2, <1>4 DEF ViewFits, Has, Sess
  <2>2. CASE view'[v] = NoView
    <3>1. view'[v].pc = "away" /\ view'[v].s = 0 /\ view'[v].ch = 0
      BY <2>2 DEF NoView
    <3> QED BY <3>1, <1>1, <1>2 DEF ViewFits, Has
  <2>3. CASE view'[v] = [NoView EXCEPT !.pc = "attached", !.s = s] /\ ~r.stale
    <3>1. view'[v].pc = "attached" /\ view'[v].s = s /\ view'[v].ch = 0
      BY <2>3 DEF NoView
    <3>2. ~shell'[view'[v].s].stale
      BY <2>3, <3>1, <1>2
    <3>3. s \in 0..Len(shell) /\ 0 \in 0..Len(chan)
      BY <1>1 DEF Sessions
    <3> QED BY <3>1, <3>2, <3>3, <1>1, <1>2, <1>4 DEF ViewFits, Has, Sess
  <2>4. CASE view'[v] = [view[v] EXCEPT !.pc = "quiet"] /\ Has(v)
    <3>1. view'[v].pc = "quiet" /\ view'[v].s = view[v].s /\ view'[v].ch = view[v].ch
      BY <2>0, <2>4 DEF ViewRecs
    <3> QED BY <2>0, <2>4, <3>1, <1>2, <1>4 DEF ViewFits, Has, Sess
  <2> QED BY <2>1, <2>2, <2>3, <2>4
<1>7. ViewsFit' /\ OneEach'
  <2>1. ViewsFit'
    BY <1>6 DEF ViewsFit
  <2>2. OneEach'
    BY <1>6 DEF OneEach, TermInv
  <2> QED BY <2>1, <2>2
<1>8. ShellsFit' /\ ChansFit'
  BY <1>4 DEF TermInv, ShellsFit, ShellFits, ChansFit
<1>9. ASSUME NEW v \in Viewers, view'[v].pc = "reading"
      PROVE  /\ IsShown(v)'
             /\ IsLast(v)' => shell'[view'[v].s].attached = view'[v].ch
  <2>1. view'[v] = view[v] /\ view[v].pc = "reading" /\ view[v].s \in Sessions
    BY <1>6, <1>9, TermFacts DEF Has
  <2>2. IsShown(v)'
    BY <2>1, <1>4, ShownStays
  <2>3. IsLast(v)' => IsLast(v)
    BY <2>1, <1>4 DEF IsLast, Sess
  <2> QED BY <2>1, <2>2, <2>3, <1>4 DEF TermInv, LastReads, Sess
<1>10. AllShown' /\ LastReads'
  BY <1>9 DEF AllShown, LastReads, Sess
<1> QED BY <1>5, <1>7, <1>8, <1>10 DEF TermInv

\* A session ends, once (close).
LEMMA IsClosed ==
    ASSUME TermInv, NEW s \in Sessions, Closed(s), live' \in 0..Len(shell), UNCHANGED <<pump, view>>
    PROVE  TermInv'
<1>1. CASE shell[s].closed
  <2>1. UNCHANGED <<shell, chan>>
    BY <1>1 DEF Closed
  <2>2. TermTypes'
    BY <2>1 DEF TermInv, TermTypes
  <2>3. ViewsFit' /\ OneEach' /\ ShellsFit' /\ ChansFit' /\ AllShown' /\ LastReads'
    BY <2>1 DEF TermInv, ViewsFit, ViewFits, OneEach, ShellsFit, ShellFits, ChansFit, AllShown, IsShown,
                LastReads, IsLast, Has, Sess, Sessions, Channels, Shown, OnItsWay
  <2> QED BY <2>2, <2>3 DEF TermInv
<1>2. CASE ~shell[s].closed
  <2> DEFINE r == [shell[s] EXCEPT !.closed = TRUE, !.attached = 0]
  <2>1. shell' = [shell EXCEPT ![s] = r] /\ chan' = Shut(shell[s].attached)
    BY <1>2 DEF Closed
  <2>2. shell[s] \in ShellRecs
    BY TermFacts
  <2>3. /\ r \in ShellRecs /\ r.printed = shell[s].printed /\ r.attached = 0
        /\ r.stale = shell[s].stale /\ r.closed = TRUE
    BY <2>2 DEF ShellRecs
  <2> HIDE DEF r
  <2>4. view' \in [Viewers -> ViewRecs] /\ \A v \in Viewers : view'[v] = view[v]
    BY DEF TermInv, TermTypes
  <2> QED BY <2>1, <2>3, <2>4, Detached
<1> QED BY <1>1, <1>2

LEMMA SessionEnds ==
    ASSUME TermInv, (\E s \in DOMAIN shell : ShellEnds(s)) \/ SweepTerminals \/ CloseTerminals
    PROVE  TermInv'
<1>0. Len(shell) \in Nat /\ live \in 0..Len(shell) /\ DOMAIN shell = Sessions
  BY TermFacts DEF TermInv, TermTypes
<1>1. CASE \E s \in DOMAIN shell : ShellEnds(s)
  <2>1. PICK s \in Sessions : ShellEnds(s)
    BY <1>0, <1>1
  <2>2. Closed(s) /\ live' = live /\ UNCHANGED <<pump, view>>
    BY <2>1 DEF ShellEnds
  <2> QED BY <2>2, <1>0, IsClosed
<1>2. CASE SweepTerminals \/ CloseTerminals
  <2>1. live # 0 /\ live' = 0 /\ Closed(live) /\ UNCHANGED <<pump, view>>
    BY <1>2 DEF SweepTerminals, CloseTerminals
  <2>2. live \in Sessions /\ live' \in 0..Len(shell)
    BY <2>1, <1>0 DEF Sessions
  <2> QED BY <2>1, <2>2, IsClosed
<1> QED BY <1>1, <1>2

LEMMA ViewerLeaves ==
    ASSUME TermInv, NEW v \in Viewers, Leave(v)
    PROVE  TermInv'
<1>1. /\ Has(v) /\ view' = [view EXCEPT ![v] = NoView] /\ UNCHANGED <<live, pump>>
  BY DEF Leave, Has
<1> DEFINE s == view[v].s
<1>2. s \in Sessions /\ view[v].ch \in Channels /\ shell[s] \in ShellRecs /\ live \in 0..Len(shell)
  BY <1>1, TermFacts DEF TermInv, TermTypes
<1>3. /\ view \in [Viewers -> ViewRecs] /\ NoView \in ViewRecs
      /\ view' \in [Viewers -> ViewRecs] /\ view'[v] = NoView
      /\ \A w \in Viewers : w # v => view'[w] = view[w]
  <2>1. NoView \in ViewRecs
    BY DEF NoView, ViewRecs
  <2>2. view \in [Viewers -> ViewRecs]
    BY DEF TermInv, TermTypes
  <2> QED BY <2>1, <2>2, <1>1
<1>4. CASE shell[s].attached = view[v].ch
  <2> DEFINE r == [shell[s] EXCEPT !.attached = 0, !.stale = FALSE]
  <2>1. shell' = [shell EXCEPT ![s] = r] /\ chan' = Shut(shell[s].attached)
    BY <1>4 DEF Leave
  <2>2. /\ r \in ShellRecs /\ r.printed = shell[s].printed /\ r.attached = 0
        /\ r.stale = FALSE /\ r.closed = shell[s].closed
    BY <1>2 DEF ShellRecs
  <2> HIDE DEF r, s
  <2>3. \A w \in Viewers : w # v => ~(Has(w) /\ view[w].ch = shell[s].attached)
    BY <1>1, <1>4 DEF TermInv, OneEach
  <2>4. \A w \in Viewers : \/ view'[w] = view[w] /\ ~(Has(w) /\ view[w].ch = shell[s].attached /\ ~r.closed)
                           \/ view'[w] = NoView
    BY <2>3, <1>3
  <2> QED BY <2>1, <2>2, <2>4, <1>1, <1>2, <1>3, Detached
<1>5. CASE shell[s].attached # view[v].ch
  <2> DEFINE r == [shell[s] EXCEPT !.stale = FALSE]
  <2>1. shell' = [shell EXCEPT ![s] = r] /\ UNCHANGED chan
    BY <1>5 DEF Leave
  <2>2. /\ r \in ShellRecs /\ r.printed = shell[s].printed /\ r.attached = shell[s].attached
        /\ r.stale = FALSE /\ r.closed = shell[s].closed
    BY <1>2 DEF ShellRecs
  <2> HIDE DEF r, s
  <2>4. \A w \in Viewers : \/ view'[w] = view[w] /\ ~(view[w].pc = "attached" /\ view[w].s = s /\ r.stale)
                           \/ view'[w] = NoView
    BY <2>2, <1>3
  <2> QED BY <2>1, <2>2, <2>4, <1>1, <1>2, <1>3, OnlySeen
<1> QED BY <1>4, <1>5

LEMMA HourGoesBy ==
    ASSUME TermInv, NEW s \in Sessions, HourPasses(s)
    PROVE  TermInv'
<1> DEFINE r == [shell[s] EXCEPT !.stale = TRUE]
<1>1. /\ shell' = [shell EXCEPT ![s] = r] /\ UNCHANGED <<live, pump, chan, view>>
      /\ \A v \in Viewers : ~(view[v].pc = "attached" /\ view[v].s = s)
  BY DEF HourPasses
<1>2. shell[s] \in ShellRecs /\ view \in [Viewers -> ViewRecs]
  BY TermFacts DEF TermInv, TermTypes
<1>3. /\ r \in ShellRecs /\ r.printed = shell[s].printed /\ r.attached = shell[s].attached
      /\ r.closed = shell[s].closed
  BY <1>2 DEF ShellRecs
<1> HIDE DEF r
<1> QED BY <1>1, <1>2, <1>3, OnlySeen

\* A connection that came to a session.
LEMMA NewView ==
    ASSUME NEW n \in Nat
    PROVE  LET x == [NoView EXCEPT !.pc = "attached", !.s = n]
           IN  x \in ViewRecs /\ x.pc = "attached" /\ x.s = n /\ x.ch = 0
<1>1. PICK e \in Seq(Nat) : NoView = [pc |-> "away", s |-> 0, ch |-> 0, got |-> e]
  <2>1. <<>> \in Seq(Nat)
    OBVIOUS
  <2> QED BY <2>1 DEF NoView
<1> QED BY <1>1 DEF ViewRecs

LEMMA ViewerAttaches ==
    ASSUME TermInv, NEW v \in Viewers, Attach(v)
    PROVE  TermInv'
<1>0. /\ shell \in Seq(ShellRecs) /\ pump \in Seq(Prints) /\ live \in 0..Len(shell) /\ Len(pump) = Len(shell)
      /\ view \in [Viewers -> ViewRecs] /\ Len(shell) \in Nat /\ Len(chan) \in Nat /\ view[v].pc = "away"
  BY TermFacts DEF TermInv, TermTypes, Attach, ViewAt
<1>1. CASE Running /\ shell' = [shell EXCEPT ![live].stale = FALSE]
           /\ view' = [view EXCEPT ![v] = [NoView EXCEPT !.pc = "attached", !.s = live]]
           /\ UNCHANGED <<live, pump, chan>>
  <2> DEFINE r == [shell[live] EXCEPT !.stale = FALSE]
  <2>1. live \in Sessions /\ shell[live] \in ShellRecs
    <3>1. live \in Sessions
      BY <1>0, <1>1 DEF Running, Sessions
    <3> QED BY <3>1, TermFacts
  <2>2. /\ r \in ShellRecs /\ r.printed = shell[live].printed /\ r.attached = shell[live].attached
        /\ r.closed = shell[live].closed /\ r.stale = FALSE
    BY <2>1 DEF ShellRecs
  <2>3. shell' = [shell EXCEPT ![live] = r]
    BY <1>1
  <2> HIDE DEF r
  <2>4. [NoView EXCEPT !.pc = "attached", !.s = live] \in ViewRecs
    <3>1. live \in Nat
      BY <1>0
    <3> QED BY <3>1, NewView
  <2>5. /\ view' \in [Viewers -> ViewRecs]
        /\ view'[v] = [NoView EXCEPT !.pc = "attached", !.s = live]
        /\ \A w \in Viewers : w # v => view'[w] = view[w]
    BY <1>0, <1>1, <2>4
  <2>6. \A w \in Viewers :
           \/ view'[w] = view[w] /\ ~(view[w].pc = "attached" /\ view[w].s = live /\ r.stale)
           \/ view'[w] = [NoView EXCEPT !.pc = "attached", !.s = live] /\ ~r.stale
    BY <2>2, <2>5
  <2> QED BY <1>1, <2>1, <2>2, <2>3, <2>5, <2>6, OnlySeen
<1>2. CASE /\ shell' = Append(shell, NewShell) /\ pump' = Append(pump, AtRest) /\ live' = Len(shell) + 1
           /\ view' = [view EXCEPT ![v] = [NoView EXCEPT !.pc = "attached", !.s = Len(shell) + 1]]
           /\ UNCHANGED chan
  <2>0. PICK n \in Nat : n = Len(shell) + 1
    BY <1>0
  <2> DEFINE x == [NoView EXCEPT !.pc = "attached", !.s = n]
  <2>1. NewShell \in ShellRecs /\ AtRest \in Prints
    BY DEF NewShell, AtRest, ShellRecs, Prints
  <2>2. /\ shell' \in Seq(ShellRecs) /\ Len(shell') = Len(shell) + 1 /\ shell'[Len(shell) + 1] = NewShell
        /\ \A i \in 1..Len(shell) : shell'[i] = shell[i]
    BY <1>0, <1>2, <2>1, AppendProperties
  <2>3. /\ pump' \in Seq(Prints) /\ Len(pump') = Len(shell) + 1 /\ pump'[Len(shell) + 1] = AtRest
        /\ \A i \in 1..Len(shell) : pump'[i] = pump[i]
    BY <1>0, <1>2, <2>1, AppendProperties
  <2>4. x \in ViewRecs /\ x.pc = "attached" /\ x.s = n /\ x.ch = 0
    BY <1>0, NewView
  <2>5. view' = [view EXCEPT ![v] = x] /\ live' = n /\ UNCHANGED chan
    BY <1>2, <2>0
  <2>6. n \in Nat /\ n = Len(shell) + 1 /\ n \notin Sessions
    BY <1>0, <2>0 DEF Sessions
  <2> HIDE DEF x
  <2>7. /\ view' \in [Viewers -> ViewRecs] /\ view'[v] = x
        /\ \A w \in Viewers : w # v => view'[w] = view[w]
    BY <1>0, <2>4, <2>5
  <2>8. /\ Sessions' = Sessions \cup {n} /\ Channels' = Channels
        /\ \A t \in Sessions : shell'[t] = shell[t] /\ pump'[t] = pump[t]
        /\ shell'[n] = NewShell /\ pump'[n] = AtRest
    BY <1>0, <2>2, <2>3, <2>5, <2>6 DEF Sessions, Channels
  <2>9. TermTypes'
    <3>1. live' \in 0..Len(shell') /\ Len(pump') = Len(shell')
      BY <1>0, <2>2, <2>3, <2>5, <2>6
    <3>2. chan' \in Seq(ChanRecs)
      BY <2>5 DEF TermInv, TermTypes
    <3> QED BY <3>1, <3>2, <2>2, <2>3, <2>7 DEF TermTypes
  <2>10. NewShell.printed = 0 /\ NewShell.attached = 0 /\ ~NewShell.stale
    BY DEF NewShell
  <2>11. ViewFits(v)' /\ ~Has(v)'
    BY <1>0, <2>2, <2>4, <2>5, <2>6, <2>7, <2>8, <2>10 DEF ViewFits, Has, Sess
  <2>12. ASSUME NEW w \in Viewers, w # v PROVE ViewFits(w)' /\ Has(w)' = Has(w)
    <3>1. view[w].pc = "attached" => view[w].s \in Sessions
      BY DEF TermInv, ViewsFit, ViewFits
    <3>2. /\ view'[w] = view[w] /\ chan' = chan /\ Len(shell') \in Nat /\ Len(chan') \in Nat
          /\ Len(shell) <= Len(shell') /\ Len(chan) <= Len(chan')
      BY <1>0, <2>2, <2>5, <2>7, <2>12
    <3>3. view[w].pc = "attached" => shell'[view[w].s].stale = shell[view[w].s].stale
      BY <2>8, <3>1
    <3> QED BY <3>2, <3>3, ViewStays
  <2>13. ViewsFit' /\ OneEach'
    <3>1. ViewsFit'
      BY <2>11, <2>12 DEF ViewsFit
    <3>2. OneEach'
      BY <2>7, <2>11, <2>12 DEF OneEach, TermInv
    <3> QED BY <3>1, <3>2
  <2>14. ShellsFit'
    <3>1. ASSUME NEW t \in Sessions PROVE ShellFits(t)'
      <4>1. ShellFits(t)
        BY DEF TermInv, ShellsFit
      <4> QED BY <4>1, <2>5, <2>8 DEF ShellFits
    <3>2. ShellFits(n)'
      <4>1. MaxPrinted \in Nat
        BY TerminalConstants
      <4>2. shell'[n].printed = 0 /\ shell'[n].attached = 0 /\ pump'[n] = AtRest
        BY <2>8, <2>10
      <4>3. 0 <= MaxPrinted /\ 0 \in 0..Len(chan')
        BY <4>1, <1>0, <2>5
      <4> QED BY <4>2, <4>3 DEF ShellFits
    <3> QED BY <3>1, <3>2, <2>8 DEF ShellsFit
  <2>15. ChansFit'
    BY <2>5, <2>8 DEF TermInv, ChansFit
  <2>16. ASSUME NEW w \in Viewers, view'[w].pc = "reading"
         PROVE  /\ IsShown(w)'
                /\ IsLast(w)' => shell'[view'[w].s].attached = view'[w].ch
    <3>1. view'[w] = view[w] /\ view[w].pc = "reading" /\ view[w].s \in Sessions
      <4>1. w # v
        BY <2>4, <2>7, <2>16
      <4>2. view'[w] = view[w]
        BY <4>1, <2>7
      <4> QED BY <4>2, <2>16, TermFacts DEF Has
    <3>2. IsShown(w)'
      BY <3>1, <2>5, <2>8, ShownStays
    <3>3. IsLast(w)' => IsLast(w)
      BY <3>1, <2>5, <2>8 DEF IsLast, Sess
    <3> QED BY <3>1, <3>2, <3>3, <2>8 DEF TermInv, LastReads, Sess
  <2>17. AllShown' /\ LastReads'
    BY <2>16 DEF AllShown, LastReads, Sess
  <2> QED BY <2>9, <2>13, <2>14, <2>15, <2>17 DEF TermInv
<1>3. \/ /\ Running /\ shell' = [shell EXCEPT ![live].stale = FALSE]
         /\ view' = [view EXCEPT ![v] = [NoView EXCEPT !.pc = "attached", !.s = live]]
         /\ UNCHANGED <<live, pump, chan>>
      \/ /\ shell' = Append(shell, NewShell) /\ pump' = Append(pump, AtRest) /\ live' = Len(shell) + 1
         /\ view' = [view EXCEPT ![v] = [NoView EXCEPT !.pc = "attached", !.s = Len(shell) + 1]]
         /\ UNCHANGED chan
  BY DEF Attach
<1> QED BY <1>1, <1>2, <1>3

\* A connection takes a session over: the channel it gets is the newest there is.
LEMMA ViewerTakesOver ==
    ASSUME TermInv, NEW v \in Viewers, TakeOver(v)
    PROVE  TermInv'
<1> DEFINE s == view[v].s  n == Len(chan) + 1  a == shell[s].attached  q == Scrollback(s)
           c == [of |-> s, buf |-> <<>>, open |-> TRUE, lost |-> FALSE]
           r == [shell[s] EXCEPT !.attached = n, !.stale = FALSE]
           x == [view[v] EXCEPT !.pc = "reading", !.ch = n, !.got = q]
<1>1. /\ view[v].pc = "attached" /\ chan' = Append(Shut(a), c) /\ shell' = [shell EXCEPT ![s] = r]
      /\ view' = [view EXCEPT ![v] = x] /\ UNCHANGED <<live, pump>>
  BY DEF TakeOver, ViewAt
<1>2. /\ s \in Sessions /\ shell[s] \in ShellRecs /\ view[v] \in ViewRecs /\ Len(shell) \in Nat
      /\ Len(chan) \in Nat /\ shell \in Seq(ShellRecs) /\ view \in [Viewers -> ViewRecs]
      /\ s \in Nat /\ s \in 1..Len(shell) /\ s = view[v].s
  <2>1. s \in Sessions
    BY <1>1 DEF TermInv, ViewsFit, ViewFits
  <2> QED BY <2>1, TermFacts DEF TermInv, TermTypes, Sessions
<1>3. q \in Seq(Nat) /\ q \o <<>> = q /\ InOrder(q, FALSE) /\ EndOf(q) = shell[s].printed
  BY <1>2, ScrollsBack
<1>4. n \in Nat /\ n # 0 /\ n = Len(chan) + 1 /\ n \notin Channels
  BY <1>2 DEF Channels
<1> HIDE DEF q, n
<1>5. c \in ChanRecs /\ c.of = s /\ c.buf = <<>> /\ c.open = TRUE /\ c.lost = FALSE
  BY <1>2 DEF ChanRecs
<1>6. /\ r \in ShellRecs /\ r.printed = shell[s].printed /\ r.attached = n
      /\ r.stale = FALSE /\ r.closed = shell[s].closed
  BY <1>2, <1>4 DEF ShellRecs
<1>7. x \in ViewRecs /\ x.pc = "reading" /\ x.s = s /\ x.ch = n /\ x.got = q
  BY <1>2, <1>3, <1>4 DEF ViewRecs
<1>8. ShellFits(s) /\ a = shell[s].attached /\ a \in 0..Len(chan)
  BY <1>2 DEF TermInv, ShellsFit, ShellFits
<1> HIDE DEF s, a, c, r, x
<1>9. /\ Shut(a) \in Seq(ChanRecs) /\ Len(Shut(a)) = Len(chan)
      /\ \A d \in Channels : /\ Shut(a)[d].of = chan[d].of /\ Shut(a)[d].buf = chan[d].buf
                             /\ Shut(a)[d].lost = chan[d].lost
                             /\ d # a => Shut(a)[d].open = chan[d].open
                             /\ d = a => Shut(a)[d].open = FALSE
  BY <1>8, ShutFits
<1>10. /\ chan' \in Seq(ChanRecs) /\ Len(chan') = n /\ chan'[n] = c
       /\ \A d \in 1..Len(chan) : chan'[d] = Shut(a)[d]
  BY <1>1, <1>4, <1>5, <1>9, AppendProperties
<1>11. /\ Channels' = Channels \cup {n} /\ Sessions' = Sessions
       /\ \A d \in Channels : /\ chan'[d].of = chan[d].of /\ chan'[d].buf = chan[d].buf
                              /\ chan'[d].lost = chan[d].lost
                              /\ d # a => chan'[d].open = chan[d].open
                              /\ d = a => chan'[d].open = FALSE
  <2>1. Len(shell') = Len(shell)
    BY <1>1, <1>2, <1>6, PlaceSet
  <2>2. Channels' = Channels \cup {n} /\ Sessions' = Sessions
    BY <2>1, <1>2, <1>4, <1>10 DEF Channels, Sessions
  <2>3. \A d \in Channels : chan'[d] = Shut(a)[d]
    BY <1>10 DEF Channels
  <2> QED BY <2>2, <2>3, <1>9
<1>12. /\ shell' \in Seq(ShellRecs) /\ Len(shell') = Len(shell) /\ shell'[s] = r
       /\ \A t \in Sessions : t # s => shell'[t] = shell[t]
  BY <1>1, <1>2, <1>6, PlaceSet DEF Sessions
<1>13. /\ view' \in [Viewers -> ViewRecs] /\ view'[v] = x
       /\ \A w \in Viewers : w # v => view'[w] = view[w]
  BY <1>1, <1>2, <1>7
<1>14. TermTypes'
  BY <1>1, <1>10, <1>12, <1>13 DEF TermInv, TermTypes
<1>15. ViewFits(v)' /\ Has(v)'
  <2>1. s \in 0..Len(shell') /\ n \in 0..Len(chan') /\ s \in Sessions' /\ n \in Channels'
    BY <1>2, <1>4, <1>10, <1>11, <1>12
  <2>2. view'[v].pc = "reading" /\ view'[v].s = s /\ view'[v].ch = n /\ chan'[n].of = s
    BY <1>5, <1>7, <1>10, <1>13
  <2> QED BY <2>1, <2>2 DEF ViewFits, Has
<1>16. ASSUME NEW w \in Viewers, w # v PROVE ViewFits(w)' /\ Has(w)' = Has(w)
  <2>1. /\ view[w].pc = "attached" => view[w].s \in Sessions
        /\ Has(w) => view[w].ch \in Channels
    BY DEF TermInv, ViewsFit, ViewFits
  <2>2. view[w].pc = "attached" => shell'[view[w].s].stale = shell[view[w].s].stale
                                   \/ shell'[view[w].s].stale = FALSE
    BY <2>1, <1>6, <1>12
  <2>3. Has(w) => chan'[view[w].ch].of = chan[view[w].ch].of
    BY <2>1, <1>11
  <2>4. /\ Len(shell') \in Nat /\ Len(chan') \in Nat
        /\ Len(shell) <= Len(shell') /\ Len(chan) <= Len(chan')
    BY <1>2, <1>4, <1>10, <1>12
  <2> QED BY <1>13, <1>16, <2>2, <2>3, <2>4, ViewStays
<1>17. ViewsFit' /\ OneEach'
  <2>1. ViewsFit'
    BY <1>15, <1>16 DEF ViewsFit
  <2>2. \A w \in Viewers : w # v /\ Has(w)' => view'[w].ch \in Channels /\ view'[w] = view[w] /\ Has(w)
    BY <1>13, <1>16, TermFacts
  <2>3. view'[v].ch = n
    BY <1>7, <1>13
  <2>4. OneEach'
    BY <2>2, <2>3, <1>4 DEF OneEach, TermInv
  <2> QED BY <2>1, <2>4
<1>18. ASSUME NEW t \in Sessions PROVE ShellFits(t)'
  <2>0. ShellFits(t) /\ pump'[t] = pump[t]
    BY <1>1 DEF TermInv, ShellsFit
  <2>1. \A d \in 0..Len(chan) : (d # 0 => d \in Channels) /\ d \in 0..Len(chan')
    BY <1>2, <1>4, <1>10 DEF Channels
  <2>2. pump[t] # AtRest => /\ pump[t].chunk = shell'[t].printed
                            /\ pump[t].out \in 0..Len(chan')
                            /\ pump[t].out # 0 => chan'[pump[t].out].of = t
    BY <2>0, <2>1, <1>6, <1>11, <1>12 DEF ShellFits
  <2>3. CASE t = s
    <3>1. /\ shell'[t].attached = n /\ shell'[t].printed = shell[t].printed
          /\ chan'[n].of = t /\ chan'[n].open /\ n \in 0..Len(chan')
      BY <2>3, <1>4, <1>5, <1>6, <1>10, <1>12
    <3> QED BY <2>0, <2>2, <3>1 DEF ShellFits
  <2>4. CASE t # s
    <3>1. shell'[t] = shell[t]
      BY <2>4, <1>12
    <3>2. shell[t].attached # 0 =>
             /\ shell[t].attached \in Channels /\ chan[shell[t].attached].of = t
             /\ chan[shell[t].attached].open
      BY <2>0, <2>1 DEF ShellFits
    <3>3. shell[t].attached # 0 => shell[t].attached # a
      BY <2>4, <3>2, <1>8 DEF ShellFits
    <3>4. shell[t].attached # 0 => chan'[shell[t].attached].of = t /\ chan'[shell[t].attached].open
      BY <3>2, <3>3, <1>11
    <3>5. shell[t].printed <= MaxPrinted /\ shell[t].attached \in 0..Len(chan')
      BY <2>0, <2>1 DEF ShellFits
    <3> QED BY <2>0, <2>2, <3>1, <3>4, <3>5 DEF ShellFits
  <2> QED BY <2>3, <2>4
<1>19. ShellsFit'
  BY <1>11, <1>18 DEF ShellsFit
<1>20. ChansFit'
  <2>1. ASSUME NEW d \in Channels
        PROVE  /\ chan'[d].of \in Sessions /\ Len(chan'[d].buf) <= Buffer
               /\ chan'[d].open => shell'[chan'[d].of].attached = d
    <3>1. /\ chan[d].of \in Sessions /\ Len(chan[d].buf) <= Buffer
          /\ chan[d].open => shell[chan[d].of].attached = d
      BY DEF TermInv, ChansFit
    <3>2. chan'[d].open => d # a /\ chan[d].open
      BY <1>11
    <3>3. chan'[d].open => chan[d].of # s
      BY <3>1, <3>2, <1>8
    <3> QED BY <3>1, <3>2, <3>3, <1>11, <1>12
  <2>2. chan'[n].of \in Sessions /\ Len(chan'[n].buf) <= Buffer /\ shell'[chan'[n].of].attached = n
    <3>1. Buffer \in Nat /\ Len(<<>>) = 0
      BY TerminalConstants
    <3> QED BY <3>1, <1>2, <1>5, <1>6, <1>10, <1>12
  <2> QED BY <2>1, <2>2, <1>11 DEF ChansFit
<1>21. IsShown(v)' /\ shell'[view'[v].s].attached = view'[v].ch
  <2>1. view'[v].s = s /\ view'[v].ch = n /\ view'[v].got = q /\ chan'[n] = c
    BY <1>7, <1>10, <1>13
  <2>2. Shown(v)' = q
    BY <2>1, <1>3, <1>5 DEF Shown
  <2>3. shell'[s].printed = shell[s].printed /\ shell'[s].attached = n /\ shell[s].printed \in Nat
    BY <1>2, <1>6, <1>12 DEF ShellRecs
  <2>4. ~(pump'[s] # AtRest /\ pump'[s].out = n)
    <3>1. pump[s] # AtRest => pump[s].out \in 0..Len(chan)
      BY <1>8 DEF ShellFits
    <3> QED BY <3>1, <1>1, <1>2, <1>4
  <2>5. InOrder(q, chan'[n].lost)
    BY <2>1, <1>3, <1>5
  <2>6. EndOf(q) <= shell'[s].printed /\ EndOf(q) = shell'[s].printed
    BY <2>3, <1>3
  <2> QED BY <2>1, <2>2, <2>3, <2>4, <2>5, <2>6 DEF IsShown, OnItsWay
<1>22. ASSUME NEW w \in Viewers, view'[w].pc = "reading", w # v
       PROVE  /\ IsShown(w)'
              /\ IsLast(w)' => shell'[view'[w].s].attached = view'[w].ch
  <2>1. /\ view'[w] = view[w] /\ view[w].pc = "reading"
        /\ view[w].s \in Sessions /\ view[w].ch \in Channels /\ view[w].ch # n
    <3>1. view'[w] = view[w]
      BY <1>13, <1>22
    <3> QED BY <3>1, <1>4, <1>22, TermFacts DEF Has
  <2>2. /\ shell'[view[w].s].printed = shell[view[w].s].printed
        /\ shell'[view[w].s].closed = shell[view[w].s].closed
        /\ shell'[view[w].s].attached = view[w].ch => shell[view[w].s].attached = view[w].ch
    BY <2>1, <1>6, <1>12
  <2>3. IsShown(w)'
    BY <2>1, <2>2, <1>1, <1>11, ShownStays
  <2>4. ASSUME IsLast(w)' PROVE shell'[view'[w].s].attached = view'[w].ch
    <3>1. ~shell[view[w].s].closed
      BY <2>1, <2>2, <2>4 DEF IsLast, Sess
    <3>2. \A d \in Channels \cup {n} : chan'[d].of = view[w].s => d <= view[w].ch
      BY <2>1, <2>4, <1>11 DEF IsLast
    <3>3. IsLast(w)
      BY <3>1, <3>2, <1>11 DEF IsLast, Sess
    <3>4. shell[view[w].s].attached = view[w].ch
      BY <2>1, <3>3 DEF TermInv, LastReads, Sess
    <3>5. view[w].s # s
      <4>1. chan'[n].of = s /\ ~(n <= view[w].ch)
        BY <2>1, <1>2, <1>4, <1>5, <1>10 DEF Channels
      <4> QED BY <4>1, <3>2
    <3> QED BY <2>1, <3>4, <3>5, <1>12
  <2> QED BY <2>3, <2>4
<1>23. AllShown' /\ LastReads'
  BY <1>21, <1>22 DEF AllShown, LastReads, Sess
<1> QED BY <1>14, <1>17, <1>19, <1>20, <1>23 DEF TermInv

\* What is in its channel is carried to a browser; at the end of a closed one it hears no more.
LEMMA ViewerCarries ==
    ASSUME TermInv, NEW v \in Viewers, Carry(v)
    PROVE  TermInv'
<1> DEFINE n == view[v].ch  b == chan[n].buf  s == view[v].s
<1>1. view[v].pc = "reading" /\ UNCHANGED <<live, shell, pump>>
  BY DEF Carry, ViewAt
<1>2. /\ n \in Channels /\ s \in Sessions /\ chan[n] \in ChanRecs /\ view[v] \in ViewRecs
      /\ shell[s] \in ShellRecs /\ view \in [Viewers -> ViewRecs] /\ chan \in Seq(ChanRecs)
      /\ Len(chan) \in Nat /\ Len(shell) \in Nat
  <2>1. n \in Channels /\ s \in Sessions
    BY <1>1, TermFacts DEF Has
  <2> QED BY <2>1, TermFacts DEF TermInv, TermTypes
<1>3. CASE /\ b # <<>>
           /\ view' = [view EXCEPT ![v].got = Append(@, Head(b))]
           /\ chan' = [chan EXCEPT ![n].buf = Tail(@)]
  <2> DEFINE g == view[v].got  x == [view[v] EXCEPT !.got = Append(g, Head(b))]
             c == [chan[n] EXCEPT !.buf = Tail(b)]
  <2>1. b \in Seq(Nat) /\ g \in Seq(Nat)
    BY <1>2 DEF ChanRecs, ViewRecs
  <2>2. /\ Append(g, Head(b)) \in Seq(Nat) /\ Tail(b) \in Seq(Nat) /\ Len(Tail(b)) = Len(b) - 1
        /\ Append(g, Head(b)) \o Tail(b) = g \o b
    BY <1>3, <2>1, MovedAlong
  <2>3. /\ x \in ViewRecs /\ x.pc = "reading" /\ x.s = s /\ x.ch = n /\ x.got = Append(g, Head(b))
    <3> DEFINE h == Append(g, Head(b))
    <3>1. h \in Seq(Nat) /\ x = [view[v] EXCEPT !.got = h]
      BY <2>2
    <3> HIDE DEF h, x
    <3>2. x \in ViewRecs /\ x.pc = "reading" /\ x.s = s /\ x.ch = n /\ x.got = h
      BY <1>1, <1>2, <3>1 DEF ViewRecs
    <3> QED BY <3>2 DEF h
  <2>4. /\ c \in ChanRecs /\ c.of = chan[n].of /\ c.open = chan[n].open /\ c.lost = chan[n].lost
        /\ c.buf = Tail(b)
    BY <1>2, <2>2 DEF ChanRecs
  <2>5. view' = [view EXCEPT ![v] = x] /\ chan' = [chan EXCEPT ![n] = c]
    BY <1>3
  <2>6. Len(b) \in Nat /\ Len(Tail(b)) <= Len(b)
    BY SMTT(30), <2>1, <2>2, LenProperties
  <2>7. b = chan[n].buf /\ g = view[v].got /\ n = view[v].ch /\ s = view[v].s
    OBVIOUS
  <2> HIDE DEF b, n, s, g, x, c
  <2>8. /\ view' \in [Viewers -> ViewRecs] /\ view'[v] = x
        /\ \A w \in Viewers : w # v => view'[w] = view[w]
    BY <1>2, <2>3, <2>5
  <2>9. /\ chan' \in Seq(ChanRecs) /\ Len(chan') = Len(chan) /\ chan'[n] = c
        /\ \A d \in Channels : d # n => chan'[d] = chan[d]
    BY <1>2, <2>4, <2>5, PlaceSet DEF Channels
  <2>10. /\ Sessions' = Sessions /\ Channels' = Channels
         /\ \A d \in Channels : /\ chan'[d].of = chan[d].of /\ chan'[d].open = chan[d].open
                                /\ chan'[d].lost = chan[d].lost
    BY <1>1, <2>4, <2>9 DEF Sessions, Channels
  <2>11. TermTypes'
    BY <1>1, <2>8, <2>9 DEF TermInv, TermTypes
  <2>12. ASSUME NEW w \in Viewers
         PROVE  /\ view'[w].pc = view[w].pc /\ view'[w].s = view[w].s /\ view'[w].ch = view[w].ch
                /\ ViewFits(w)' /\ Has(w)' = Has(w)
    <3>1. view'[w].pc = view[w].pc /\ view'[w].s = view[w].s /\ view'[w].ch = view[w].ch
      BY <1>1, <2>3, <2>7, <2>8
    <3>2. Has(w)' = Has(w)
      BY <3>1 DEF Has
    <3>3. ViewFits(w)
      BY DEF TermInv, ViewsFit
    <3>4. ViewFits(w)'
      BY <1>1, <3>1, <3>2, <3>3, <2>9, <2>10 DEF ViewFits, Sess
    <3> QED BY <3>1, <3>2, <3>4
  <2>13. ViewsFit' /\ OneEach'
    <3>1. ViewsFit'
      BY <2>12 DEF ViewsFit
    <3>2. OneEach'
      BY <2>12 DEF OneEach, TermInv
    <3> QED BY <3>1, <3>2
  <2>14. ShellsFit'
    <3>1. ASSUME NEW t \in Sessions PROVE ShellFits(t)'
      <4>1. ShellFits(t)
        BY DEF TermInv, ShellsFit
      <4>2. \A d \in 0..Len(chan) : d # 0 => d \in Channels
        BY <1>2 DEF Channels
      <4> QED BY <4>1, <4>2, <1>1, <2>9, <2>10 DEF ShellFits
    <3> QED BY <3>1, <2>10 DEF ShellsFit
  <2>15. ChansFit'
    <3>1. ASSUME NEW d \in Channels PROVE Len(chan'[d].buf) <= Buffer
      <4>1. Len(chan[d].buf) <= Buffer
        BY DEF TermInv, ChansFit
      <4>2. CASE d = n
        <5>1. Buffer \in Nat
          BY TerminalConstants
        <5>2. Len(b) <= Buffer
          BY <4>1, <4>2, <2>7
        <5>3. Len(Tail(b)) <= Buffer
          <6>1. Len(b) \in Nat /\ Len(Tail(b)) = Len(b) - 1
            BY <2>2, <2>6
          <6> QED BY <5>1, <5>2, <6>1
        <5> QED BY <4>2, <5>3, <2>4, <2>9
      <4>3. CASE d # n
        BY <4>1, <4>3, <2>9
      <4> QED BY <4>2, <4>3
    <3> QED BY <3>1, <1>1, <2>10 DEF TermInv, ChansFit
  <2>16. IsShown(v)'
    <3>1. IsShown(v)
      BY <1>1 DEF TermInv, AllShown
    <3>2. Shown(v)' = Shown(v)
      BY <2>2, <2>3, <2>4, <2>7, <2>8, <2>9 DEF Shown
    <3> QED BY <3>1, <3>2, <1>1, <1>2, <2>7, <2>10, <2>12 DEF IsShown, OnItsWay
  <2>17. ASSUME NEW w \in Viewers, w # v, view[w].pc = "reading" PROVE IsShown(w)'
    <3>1. view[w].ch # n /\ view[w].ch \in Channels
      BY <1>1, <2>17, <2>7, TermFacts DEF TermInv, OneEach, Has
    <3> QED BY <1>1, <2>8, <2>9, <2>17, <3>1, ShownStays
  <2>18. AllShown'
    BY <2>12, <2>16, <2>17 DEF AllShown
  <2>19. LastReads'
    <3>1. ASSUME NEW w \in Viewers, view[w].pc = "reading", IsLast(w)' PROVE IsLast(w)
      BY <3>1, <1>1, <2>10, <2>12 DEF IsLast, Sess
    <3> QED BY <3>1, <1>1, <2>12 DEF TermInv, LastReads, Sess
  <2> QED BY <2>11, <2>13, <2>14, <2>15, <2>18, <2>19 DEF TermInv
<1>4. CASE view' = [view EXCEPT ![v].pc = "quiet"] /\ UNCHANGED chan
  <2> DEFINE x == [view[v] EXCEPT !.pc = "quiet"]  r == shell[s]
  <2>1. x \in ViewRecs
    BY <1>2 DEF ViewRecs
  <2>2. view' = [view EXCEPT ![v] = x]
    BY <1>4
  <2>3. view' \in [Viewers -> ViewRecs] /\ view'[v] = x /\ \A w \in Viewers : w # v => view'[w] = view[w]
    BY <1>2, <2>1, <2>2
  <2>4. shell' = [shell EXCEPT ![s] = r]
    <3>1. [shell EXCEPT ![s] = r] = shell
      <4>1. shell \in [1..Len(shell) -> ShellRecs]
        BY LenProperties DEF TermInv, TermTypes
      <4> QED BY <4>1
    <3> QED BY <3>1, <1>1
  <2>5. Has(v)
    BY <1>1 DEF Has
  <2>6. \A w \in Viewers : view[w].pc = "attached" /\ view[w].s = s => ~r.stale
    BY DEF TermInv, ViewsFit, ViewFits, Sess
  <2>7. r \in ShellRecs /\ r = shell[s] /\ s \in Sessions
    BY <1>2
  <2> HIDE DEF s, r
  <2>8. \A w \in Viewers :
           \/ view'[w] = view[w] /\ ~(view[w].pc = "attached" /\ view[w].s = s /\ r.stale)
           \/ view'[w] = [view[w] EXCEPT !.pc = "quiet"] /\ Has(w)
    <3>1. view'[v] = [view[v] EXCEPT !.pc = "quiet"] /\ Has(v)
      BY <2>3, <2>5
    <3>2. ASSUME NEW w \in Viewers, w # v
          PROVE  view'[w] = view[w] /\ ~(view[w].pc = "attached" /\ view[w].s = s /\ r.stale)
      BY <2>3, <2>6, <3>2
    <3>3. ASSUME NEW w \in Viewers, w = v PROVE view'[w] = [view[w] EXCEPT !.pc = "quiet"] /\ Has(w)
      BY <3>1, <3>3
    <3> QED BY <3>2, <3>3
  <2> HIDE DEF x
  <2>9. /\ r.printed = shell[s].printed /\ r.attached = shell[s].attached /\ r.closed = shell[s].closed
        /\ UNCHANGED <<live, pump, chan>> /\ s \in Sessions
    BY <1>1, <1>4, <2>7
  <2>10. view' \in [Viewers -> ViewRecs]
    BY <2>3
  <2> QED BY <2>4, <2>7, <2>8, <2>9, <2>10, OnlySeen
<1>5. \/ /\ b # <<>>
         /\ view' = [view EXCEPT ![v].got = Append(@, Head(b))]
         /\ chan' = [chan EXCEPT ![n].buf = Tail(@)]
      \/ view' = [view EXCEPT ![v].pc = "quiet"] /\ UNCHANGED chan
  BY DEF Carry
<1> QED BY <1>3, <1>4, <1>5

\* A chunk is read from the shell, and is on its way to whoever is attached.
LEMMA ChunkIsRead ==
    ASSUME TermInv, NEW s \in Sessions, PumpRead(s)
    PROVE  TermInv'
<1> DEFINE r == [shell[s] EXCEPT !.printed = @ + 1]  a == shell[s].attached
           p == [chunk |-> shell[s].printed + 1, out |-> shell[s].attached]  k == shell[s].printed
<1>1. /\ pump[s] = AtRest /\ k < MaxPrinted /\ shell' = [shell EXCEPT ![s] = r]
      /\ pump' = [pump EXCEPT ![s] = p] /\ UNCHANGED <<live, chan, view>>
  BY DEF PumpRead
<1>2. /\ shell[s] \in ShellRecs /\ shell \in Seq(ShellRecs) /\ pump \in Seq(Prints)
      /\ Len(shell) \in Nat /\ Len(chan) \in Nat /\ Len(pump) = Len(shell) /\ k \in Nat /\ a \in Nat
  BY TermFacts DEF TermInv, TermTypes, ShellRecs
<1>3. /\ r \in ShellRecs /\ r.printed = k + 1 /\ r.attached = a /\ r.closed = shell[s].closed
      /\ r.stale = shell[s].stale
  <2>1. r = [shell[s] EXCEPT !.printed = k + 1] /\ k + 1 \in Nat
    BY <1>2
  <2>2. a = shell[s].attached
    OBVIOUS
  <2> HIDE DEF r, a, k
  <2> QED BY <1>2, <2>1, <2>2 DEF ShellRecs
<1>4. p \in Prints /\ p.chunk = k + 1 /\ p.out = a /\ p # AtRest
  BY <1>2 DEF Prints, AtRest
<1>5. a = shell[s].attached /\ k = shell[s].printed
  OBVIOUS
<1> HIDE DEF r, a, p, k
<1>6. /\ shell' \in Seq(ShellRecs) /\ Len(shell') = Len(shell) /\ shell'[s] = r
      /\ \A t \in Sessions : t # s => shell'[t] = shell[t]
  BY <1>1, <1>2, <1>3, PlaceSet DEF Sessions
<1>7. /\ pump' \in Seq(Prints) /\ Len(pump') = Len(shell) /\ pump'[s] = p
      /\ \A t \in Sessions : t # s => pump'[t] = pump[t]
  BY <1>1, <1>2, <1>4, PlaceSet DEF Sessions
<1>8. /\ Sessions' = Sessions /\ Channels' = Channels
      /\ \A t \in Sessions : /\ shell'[t].attached = shell[t].attached
                             /\ shell'[t].closed = shell[t].closed
                             /\ shell'[t].stale = shell[t].stale
  BY <1>1, <1>3, <1>5, <1>6 DEF Sessions, Channels
<1>9. TermTypes'
  BY <1>1, <1>6, <1>7 DEF TermInv, TermTypes
<1>10. ViewsFit' /\ OneEach'
  <2>1. ASSUME NEW w \in Viewers PROVE ViewFits(w)'
    <3>1. ViewFits(w)
      BY DEF TermInv, ViewsFit
    <3> QED BY <3>1, <1>1, <1>6, <1>8 DEF ViewFits, Has, Sess
  <2>2. OneEach'
    BY <1>1 DEF TermInv, OneEach, Has
  <2> QED BY <2>1, <2>2 DEF ViewsFit
<1>11. ASSUME NEW t \in Sessions PROVE ShellFits(t)'
  <2>1. ShellFits(t)
    BY DEF TermInv, ShellsFit
  <2>2. CASE t = s
    <3>1. shell'[t].printed = k + 1 /\ shell'[t].attached = a /\ pump'[t].chunk = k + 1 /\ pump'[t].out = a
      BY <2>2, <1>3, <1>4, <1>6, <1>7
    <3>2. k + 1 <= MaxPrinted
      BY <1>1, <1>2, TerminalConstants
    <3> QED BY <2>1, <2>2, <3>1, <3>2, <1>1, <1>5 DEF ShellFits
  <2>3. CASE t # s
    BY <2>1, <2>3, <1>1, <1>6, <1>7 DEF ShellFits
  <2> QED BY <2>2, <2>3
<1>12. ShellsFit' /\ ChansFit'
  BY <1>1, <1>8, <1>11 DEF TermInv, ShellsFit, ChansFit
<1>13. ASSUME NEW w \in Viewers, view[w].pc = "reading" PROVE IsShown(w)'
  <2>0. view[w].s \in Sessions /\ view[w].ch \in Channels /\ view[w].ch # 0 /\ IsShown(w) /\ view'[w] = view[w]
    BY <1>1, <1>13, TermFacts DEF Has, TermInv, AllShown
  <2>1. CASE view[w].s # s
    BY <1>1, <1>6, <1>7, <1>13, <2>0, <2>1, ShownStays
  <2>2. CASE view[w].s = s
    <3> DEFINE e == EndOf(Shown(w))
    <3>1. Shown(w)' = Shown(w)
      BY <1>1 DEF Shown
    <3>2. ~OnItsWay(s, view[w].ch)
      BY <1>1 DEF OnItsWay
    <3>3. InOrder(Shown(w), chan[view[w].ch].lost) /\ e <= k
      BY <2>0, <2>2, <1>5 DEF IsShown
    <3>4. a = view[w].ch /\ ~chan[view[w].ch].lost => e = k
      BY <2>0, <2>2, <3>2, <1>5 DEF IsShown
    <3>5. OnItsWay(s, view[w].ch)' <=> a = view[w].ch
      BY <1>1, <1>4, <1>7 DEF OnItsWay
    <3>6. shell'[s].printed = k + 1 /\ shell'[s].attached = a
      BY <1>3, <1>6
    <3>7. e \in Nat
      <4>1. Shown(w) \in Seq(Nat)
        <5>1. view[w].got \in Seq(Nat) /\ chan[view[w].ch].buf \in Seq(Nat)
          BY <2>0, TermFacts DEF ViewRecs, ChanRecs
        <5> QED BY <5>1, ConcatProperties DEF Shown
      <4> QED BY <4>1, EndIsNat
    <3> HIDE DEF e
    <3>8. e < k + 1 /\ e <= k + 1 /\ (e = k => e + 1 = k + 1)
      BY <3>3, <3>7, <1>2
    <3>9. e = EndOf(Shown(w))
      BY DEF e
    <3>10. /\ view'[w].s = s /\ view'[w].ch = view[w].ch /\ chan' = chan
      BY <1>1, <2>0, <2>2
    <3> QED BY <3>1, <3>3, <3>4, <3>5, <3>6, <3>8, <3>9, <3>10 DEF IsShown
  <2> QED BY <2>1, <2>2
<1>14. AllShown' /\ LastReads'
  <2>1. AllShown'
    BY <1>1, <1>13 DEF AllShown
  <2>2. ASSUME NEW w \in Viewers, view[w].pc = "reading", IsLast(w)' PROVE IsLast(w) /\ view[w].s \in Sessions
    BY <2>2, <1>1, <1>8, TermFacts DEF IsLast, Sess, Has
  <2>3. LastReads'
    BY <2>2, <1>1, <1>8 DEF TermInv, LastReads, Sess
  <2> QED BY <2>1, <2>3
<1> QED BY <1>9, <1>10, <1>12, <1>14 DEF TermInv

\* What was on its way has gone, to no channel or to one that is nobody's any more.
LEMMA ChunkIsGone ==
    ASSUME TermInv, NEW s \in Sessions, pump[s] # AtRest, pump' = [pump EXCEPT ![s] = AtRest],
           UNCHANGED <<live, shell, chan, view>>, pump[s].out # 0 => ~chan[pump[s].out].open
    PROVE  TermInv'
<1>1. pump \in Seq(Prints) /\ AtRest \in Prints /\ Len(pump) = Len(shell)
  BY TermFacts DEF TermInv, TermTypes, AtRest, Prints
<1>2. /\ pump' \in Seq(Prints) /\ Len(pump') = Len(pump) /\ pump'[s] = AtRest
      /\ \A t \in Sessions : t # s => pump'[t] = pump[t]
  BY <1>1, PlaceSet DEF Sessions
<1>3. TermTypes'
  BY <1>2 DEF TermInv, TermTypes
<1>4. ViewsFit' /\ OneEach' /\ ChansFit' /\ LastReads'
  BY DEF TermInv, ViewsFit, ViewFits, OneEach, ChansFit, LastReads, IsLast, Has, Sess, Sessions, Channels
<1>5. ShellsFit'
  <2>1. ASSUME NEW t \in Sessions PROVE ShellFits(t)'
    <3>1. ShellFits(t)
      BY DEF TermInv, ShellsFit
    <3> QED BY <3>1, <1>2 DEF ShellFits
  <2> QED BY <2>1 DEF ShellsFit, Sessions
<1>6. ASSUME NEW v \in Viewers, view[v].pc = "reading" PROVE IsShown(v)'
  <2>0. view[v].s \in Sessions /\ view[v].ch \in Channels /\ view[v].ch # 0 /\ IsShown(v)
    BY <1>6, TermFacts DEF Has, TermInv, AllShown
  <2>1. CASE view[v].s # s
    BY <2>0, <2>1, <1>2, <1>6, ShownStays
  <2>2. CASE view[v].s = s
    <3>1. ~OnItsWay(s, view[v].ch)'
      BY <1>2 DEF OnItsWay
    <3>2. Shown(v)' = Shown(v)
      BY DEF Shown
    <3>3. shell[s].attached = view[v].ch => ~OnItsWay(s, view[v].ch)
      <4>1. shell[s].attached = view[v].ch => chan[view[v].ch].open
        BY <2>0 DEF TermInv, ShellsFit, ShellFits
      <4> QED BY <4>1, <2>0 DEF OnItsWay
    <3>4. /\ InOrder(Shown(v), chan[view[v].ch].lost) /\ EndOf(Shown(v)) <= shell[s].printed
          /\ shell[s].attached = view[v].ch /\ ~chan[view[v].ch].lost /\ ~OnItsWay(s, view[v].ch) =>
                EndOf(Shown(v)) = shell[s].printed
      BY <2>0, <2>2 DEF IsShown
    <3> QED BY <2>2, <3>1, <3>2, <3>3, <3>4 DEF IsShown
  <2> QED BY <2>1, <2>2
<1>7. AllShown'
  BY <1>6 DEF AllShown
<1> QED BY <1>3, <1>4, <1>5, <1>7 DEF TermInv

\* What was on its way is in the channel it was going to, or is lost because that is full.
LEMMA ChunkIsSent ==
    ASSUME TermInv, NEW s \in Sessions, pump[s] # AtRest, pump' = [pump EXCEPT ![s] = AtRest],
           UNCHANGED <<live, shell, view>>, pump[s].out # 0, NEW c \in ChanRecs,
           chan' = [chan EXCEPT ![pump[s].out] = c],
           c.of = chan[pump[s].out].of, c.open = chan[pump[s].out].open,
           \/ /\ Len(chan[pump[s].out].buf) < Buffer /\ c.lost = chan[pump[s].out].lost
              /\ c.buf = Append(chan[pump[s].out].buf, pump[s].chunk)
           \/ c.lost = TRUE /\ c.buf = chan[pump[s].out].buf
    PROVE  TermInv'
<1>1. /\ pump \in Seq(Prints) /\ AtRest \in Prints /\ Len(pump) = Len(shell) /\ pump[s] \in Prints
      /\ chan \in Seq(ChanRecs) /\ Len(chan) \in Nat
  BY TermFacts DEF TermInv, TermTypes, AtRest, Prints
<1>2. ShellFits(s)
  BY DEF TermInv, ShellsFit
<1>0. PICK n \in Nat, e \in Nat : n = pump[s].out /\ e = pump[s].chunk
  BY <1>1 DEF Prints
<1>3. /\ n \in Channels /\ n = pump[s].out /\ e = pump[s].chunk /\ e = shell[s].printed /\ e \in Nat
      /\ chan[n].of = s
  BY <1>0, <1>1, <1>2 DEF ShellFits, Prints, Channels
<1>4. /\ pump' \in Seq(Prints) /\ Len(pump') = Len(pump) /\ pump'[s] = AtRest
      /\ \A t \in Sessions : t # s => pump'[t] = pump[t]
  BY <1>1, PlaceSet DEF Sessions
<1>5. /\ chan' \in Seq(ChanRecs) /\ Len(chan') = Len(chan) /\ chan'[n] = c
      /\ \A d \in Channels : d # n => chan'[d] = chan[d]
  BY <1>1, <1>3, PlaceSet DEF Channels
<1>6. /\ Sessions' = Sessions /\ Channels' = Channels
      /\ \A d \in Channels : chan'[d].of = chan[d].of /\ chan'[d].open = chan[d].open
  BY <1>3, <1>5 DEF Sessions, Channels
<1>7. chan[n] \in ChanRecs /\ chan[n].buf \in Seq(Nat) /\ Len(chan[n].buf) \in Nat /\ Buffer \in Nat
  <2>1. chan[n] \in ChanRecs
    BY <1>3, TermFacts
  <2>2. chan[n].buf \in Seq(Nat)
    BY <2>1 DEF ChanRecs
  <2> QED BY <2>1, <2>2, LenProperties, TerminalConstants
<1>8. TermTypes'
  BY <1>4, <1>5 DEF TermInv, TermTypes
<1>9. ViewsFit' /\ OneEach' /\ LastReads'
  <2>1. ASSUME NEW v \in Viewers PROVE ViewFits(v)'
    <3>1. ViewFits(v)
      BY DEF TermInv, ViewsFit
    <3> QED BY <3>1, <1>5, <1>6 DEF ViewFits, Has, Sess
  <2>2. OneEach'
    BY DEF TermInv, OneEach, Has
  <2>3. ASSUME NEW v \in Viewers, IsLast(v)' PROVE IsLast(v)
    BY <2>3, <1>6 DEF IsLast, Sess
  <2>4. LastReads'
    BY <2>3 DEF TermInv, LastReads, Sess
  <2> QED BY <2>1, <2>2, <2>4 DEF ViewsFit
<1>10. ShellsFit'
  <2>1. ASSUME NEW t \in Sessions PROVE ShellFits(t)'
    <3>1. ShellFits(t)
      BY DEF TermInv, ShellsFit
    <3>2. \A d \in 0..Len(chan) : d # 0 => d \in Channels
      BY <1>1 DEF Channels
    <3>3. /\ pump'[t] # AtRest => pump'[t] = pump[t] /\ pump[t] # AtRest
      BY <1>4
    <3> QED BY <3>1, <3>2, <3>3, <1>5, <1>6 DEF ShellFits
  <2> QED BY <2>1, <1>6 DEF ShellsFit
<1>11. ChansFit'
  <2>1. ASSUME NEW d \in Channels PROVE Len(chan'[d].buf) <= Buffer
    <3>1. Len(chan[d].buf) <= Buffer
      BY DEF TermInv, ChansFit
    <3>2. CASE d # n
      BY <3>1, <3>2, <1>5
    <3>3. CASE d = n /\ c.buf = chan[n].buf
      BY <3>1, <3>3, <1>5
    <3>4. CASE d = n /\ Len(chan[n].buf) < Buffer /\ c.buf = Append(chan[n].buf, e)
      <4>1. Len(c.buf) = Len(chan[n].buf) + 1
        BY <3>4, <1>3, <1>7, AppendProperties
      <4>2. Len(c.buf) <= Buffer
        BY SMTT(30), <4>1, <3>4, <1>7
      <4> QED BY <4>2, <3>4, <1>5
    <3> QED BY <3>2, <3>3, <3>4, <1>3
  <2> QED BY <2>1, <1>6 DEF TermInv, ChansFit
<1>12. ASSUME NEW v \in Viewers, view[v].pc = "reading" PROVE IsShown(v)'
  <2>0. /\ view[v].s \in Sessions /\ view[v].ch \in Channels /\ view[v].ch # 0 /\ IsShown(v)
        /\ chan[view[v].ch].of = view[v].s
    BY <1>12, TermFacts DEF Has, TermInv, AllShown, ViewsFit, ViewFits
  <2>1. CASE view[v].s # s
    <3>1. view[v].ch # n
      BY <2>0, <2>1, <1>3
    <3> QED BY <2>0, <2>1, <3>1, <1>4, <1>5, <1>12, ShownStays
  <2>2. CASE view[v].s = s /\ view[v].ch # n
    <3>1. ~OnItsWay(s, view[v].ch)' /\ ~OnItsWay(s, view[v].ch)
      BY <2>2, <1>3, <1>4 DEF OnItsWay
    <3>2. chan'[view[v].ch] = chan[view[v].ch]
      BY <2>0, <2>2, <1>5
    <3>3. Shown(v)' = Shown(v)
      BY <3>2 DEF Shown
    <3> QED BY <2>0, <2>2, <3>1, <3>2, <3>3 DEF IsShown
  <2>3. CASE view[v].s = s /\ view[v].ch = n
    <3>1. ~OnItsWay(s, n)' /\ OnItsWay(s, n)
      BY <1>3, <1>4 DEF OnItsWay
    <3>2. /\ InOrder(Shown(v), chan[n].lost) /\ EndOf(Shown(v)) < e
          /\ ~chan[n].lost => EndOf(Shown(v)) + 1 = e
      BY <2>0, <2>3, <3>1, <1>3 DEF IsShown
    <3>3. view[v].got \in Seq(Nat)
      BY TermFacts DEF ViewRecs
    <3>4. Shown(v) \in Seq(Nat) /\ Shown(v) = view[v].got \o chan[n].buf /\ Shown(v)' = view[v].got \o c.buf
      BY <2>3, <3>3, <1>5, <1>7, ConcatProperties DEF Shown
    <3>5. CASE c.lost = chan[n].lost /\ c.buf = Append(chan[n].buf, e)
      <4>1. Shown(v)' = Append(Shown(v), e)
        <5>1. view[v].got \o Append(chan[n].buf, e) = Append(view[v].got \o chan[n].buf, e)
          BY <3>3, <1>3, <1>7, PutLast
        <5> QED BY <5>1, <3>4, <3>5
      <4>2. chan[n].lost \in BOOLEAN
        BY <1>7 DEF ChanRecs
      <4>3. InOrder(Append(Shown(v), e), chan[n].lost) /\ EndOf(Append(Shown(v), e)) = e
        BY <3>2, <3>4, <4>2, <1>3, OneMore
      <4>4. /\ view'[v].s = s /\ view'[v].ch = n /\ chan'[n].lost = chan[n].lost /\ shell'[s].printed = e
            /\ e <= e
        BY <2>3, <3>5, <1>3, <1>5
      <4> QED BY <4>1, <4>3, <4>4, <3>1 DEF IsShown
    <3>6. CASE c.lost = TRUE /\ c.buf = chan[n].buf
      <4>1. Shown(v)' = Shown(v)
        BY <3>4, <3>6
      <4>2. InOrder(Shown(v), TRUE)
        BY <3>2 DEF InOrder
      <4>3. EndOf(Shown(v)) <= e
        <5>1. EndOf(Shown(v)) \in Nat
          BY <3>4, EndIsNat
        <5> QED BY <5>1, <3>2, <1>3
      <4>4. /\ view'[v].s = s /\ view'[v].ch = n /\ chan'[n].lost = TRUE /\ shell'[s].printed = e
        BY <2>3, <3>6, <1>3, <1>5
      <4> QED BY <4>1, <4>2, <4>3, <4>4, <3>1 DEF IsShown
    <3> QED BY <3>5, <3>6, <1>3
  <2> QED BY <2>1, <2>2, <2>3
<1>13. AllShown'
  BY <1>12 DEF AllShown
<1> QED BY <1>8, <1>9, <1>10, <1>11, <1>13 DEF TermInv

LEMMA ChunkGoes ==
    ASSUME TermInv, NEW s \in Sessions, PumpSend(s)
    PROVE  TermInv'
<1> DEFINE n == pump[s].out
<1>1. /\ pump[s] # AtRest /\ pump' = [pump EXCEPT ![s] = AtRest] /\ UNCHANGED <<live, shell, view>>
  BY DEF PumpSend
<1>2. CASE (n = 0 \/ ~chan[n].open) /\ UNCHANGED chan
  BY <1>1, <1>2, ChunkIsGone
<1>3. CASE n # 0 /\ chan' = IF Len(chan[n].buf) < Buffer THEN [chan EXCEPT ![n].buf = Append(@, pump[s].chunk)]
                            ELSE [chan EXCEPT ![n].lost = TRUE]
  <2>1. n \in Channels /\ pump[s].chunk \in Nat
    <3>1. ShellFits(s) /\ Len(chan) \in Nat
      BY TermFacts DEF TermInv, ShellsFit
    <3>2. pump[s] \in Prints
      BY TermFacts
    <3> QED BY <1>1, <1>3, <3>1, <3>2 DEF ShellFits, Channels, Prints
  <2>2. chan[n] \in ChanRecs
    BY <2>1, TermFacts
  <2>3. n = pump[s].out
    OBVIOUS
  <2> HIDE DEF n
  <2>4. CASE Len(chan[n].buf) < Buffer
    <3> DEFINE b == Append(chan[n].buf, pump[s].chunk)  c == [chan[n] EXCEPT !.buf = b]
    <3>1. b \in Seq(Nat)
      <4>1. chan[n].buf \in Seq(Nat)
        BY <2>2 DEF ChanRecs
      <4> QED BY <4>1, <2>1, AppendProperties
    <3>2. chan' = [chan EXCEPT ![n] = c]
      BY <1>3, <2>4
    <3>3. b = Append(chan[n].buf, pump[s].chunk)
      OBVIOUS
    <3> HIDE DEF b
    <3>4. c \in ChanRecs /\ c.of = chan[n].of /\ c.open = chan[n].open /\ c.lost = chan[n].lost /\ c.buf = b
      BY <2>2, <3>1 DEF ChanRecs
    <3> HIDE DEF c
    <3>5. /\ Len(chan[pump[s].out].buf) < Buffer /\ c.lost = chan[pump[s].out].lost
          /\ c.buf = Append(chan[pump[s].out].buf, pump[s].chunk)
          /\ c.of = chan[pump[s].out].of /\ c.open = chan[pump[s].out].open /\ pump[s].out # 0
      BY <1>3, <2>3, <2>4, <3>3, <3>4
    <3>6. chan' = [chan EXCEPT ![pump[s].out] = c] /\ c \in ChanRecs
      BY <2>3, <3>2, <3>4
    <3> QED BY <1>1, <3>5, <3>6, ChunkIsSent
  <2>5. CASE ~(Len(chan[n].buf) < Buffer)
    <3> DEFINE c == [chan[n] EXCEPT !.lost = TRUE]
    <3>1. chan' = [chan EXCEPT ![n] = c]
      BY <1>3, <2>5
    <3>2. c \in ChanRecs /\ c.of = chan[n].of /\ c.open = chan[n].open /\ c.lost = TRUE /\ c.buf = chan[n].buf
      BY <2>2 DEF ChanRecs
    <3> HIDE DEF c
    <3> QED BY <1>1, <1>3, <2>3, <3>1, <3>2, ChunkIsSent
  <2> QED BY <2>4, <2>5
<1>4. \/ (n = 0 \/ ~chan[n].open) /\ UNCHANGED chan
      \/ n # 0 /\ chan' = IF Len(chan[n].buf) < Buffer THEN [chan EXCEPT ![n].buf = Append(@, pump[s].chunk)]
                          ELSE [chan EXCEPT ![n].lost = TRUE]
  BY DEF PumpSend
<1> QED BY <1>2, <1>3, <1>4

LEMMA TermInvInit == TermInit => TermInv
<1> SUFFICES ASSUME TermInit PROVE TermInv
  OBVIOUS
<1>1. /\ live = 0 /\ shell = <<>> /\ pump = <<>> /\ chan = <<>> /\ view = [v \in Viewers |-> NoView]
  BY DEF TermInit
<1>2. NoView \in ViewRecs /\ NoView.pc = "away" /\ NoView.s = 0 /\ NoView.ch = 0
  BY DEF NoView, ViewRecs
<1>3. Len(shell) = 0 /\ Len(chan) = 0 /\ Len(pump) = 0 /\ Sessions = {} /\ Channels = {}
  BY <1>1 DEF Sessions, Channels
<1>4. TermTypes
  BY <1>1, <1>2, <1>3 DEF TermTypes
<1>5. \A v \in Viewers : view[v] = NoView /\ view[v].pc = "away"
  BY <1>1, <1>2
<1>6. ViewsFit /\ OneEach /\ AllShown /\ LastReads
  BY <1>2, <1>3, <1>5 DEF ViewsFit, ViewFits, OneEach, AllShown, LastReads, Has
<1>7. ShellsFit /\ ChansFit
  BY <1>3 DEF ShellsFit, ChansFit
<1> QED BY <1>4, <1>6, <1>7 DEF TermInv

LEMMA TermInvStep == TermInv /\ [TermNext]_termVars => TermInv'
<1> SUFFICES ASSUME TermInv, [TermNext]_termVars PROVE TermInv'
  OBVIOUS
<1>0. DOMAIN shell = Sessions
  BY TermFacts
<1>1. ASSUME NEW v \in Viewers, Attach(v) PROVE TermInv'
  BY <1>1, ViewerAttaches
<1>2. ASSUME NEW v \in Viewers, TakeOver(v) PROVE TermInv'
  BY <1>2, ViewerTakesOver
<1>3. ASSUME NEW v \in Viewers, Carry(v) PROVE TermInv'
  BY <1>3, ViewerCarries
<1>4. ASSUME NEW v \in Viewers, Leave(v) PROVE TermInv'
  BY <1>4, ViewerLeaves
<1>5. ASSUME NEW s \in Sessions, PumpRead(s) PROVE TermInv'
  BY <1>5, ChunkIsRead
<1>6. ASSUME NEW s \in Sessions, PumpSend(s) PROVE TermInv'
  BY <1>6, ChunkGoes
<1>7. ASSUME NEW s \in Sessions, HourPasses(s) PROVE TermInv'
  BY <1>7, HourGoesBy
<1>8. ASSUME (\E s \in DOMAIN shell : ShellEnds(s)) \/ SweepTerminals \/ CloseTerminals PROVE TermInv'
  BY <1>8, SessionEnds
<1>9. ASSUME UNCHANGED termVars PROVE TermInv'
  <2>1. UNCHANGED <<live, shell, pump, chan, view>>
    BY <1>9 DEF termVars
  <2>2. TermTypes' /\ ViewsFit' /\ OneEach' /\ ShellsFit'
    BY <2>1 DEF TermInv, TermTypes, ViewsFit, ViewFits, OneEach, ShellsFit, ShellFits, Has, Sess, Sessions, Channels
  <2>3. ChansFit' /\ AllShown' /\ LastReads'
    BY <2>1 DEF TermInv, ChansFit, AllShown, IsShown, LastReads, IsLast, Has, Sess, Sessions, Channels, Shown, OnItsWay
  <2> QED BY <2>2, <2>3 DEF TermInv
<1> QED BY <1>0, <1>1, <1>2, <1>3, <1>4, <1>5, <1>6, <1>7, <1>8, <1>9 DEF TermNext

LEMMA TermHolds == TermSpec => []TermInv
BY TermInvInit, TermInvStep, PTL DEF TermSpec

LEMMA TermInvTypes == ASSUME TermInv PROVE TermTypeOK
<1>1. /\ live \in 0..Len(shell) /\ Len(pump) = Len(shell)
      /\ DOMAIN shell = Sessions /\ DOMAIN chan = Channels
  BY TermFacts DEF TermInv, TermTypes
<1>2. \A s \in Sessions : shell[s].attached \in 0..Len(chan) /\ shell[s].printed <= MaxPrinted
  BY DEF TermInv, ShellsFit, ShellFits
<1>3. \A c \in Channels : Len(chan[c].buf) <= Buffer
  BY DEF TermInv, ChansFit
<1>4. \A v \in Viewers : view[v].s \in 0..Len(shell) /\ view[v].ch \in 0..Len(chan)
  BY DEF TermInv, ViewsFit, ViewFits
<1> QED BY <1>1, <1>2, <1>3, <1>4 DEF TermTypeOK

\* What refers to a session or a channel refers to one there is, and no channel holds more
\* than it has room for.
THEOREM TermTyped == TermSpec => []TermTypeOK
<1>1. TermInv => TermTypeOK
  BY TermInvTypes
<1> QED BY <1>1, TermHolds, PTL

\* What a connection is shown is what its shell printed, each chunk once and in order; the
\* one that came last is the one that is written to while the shell runs; and the sweep
\* ends no shell that somebody has just come back to (take, pump, release, attach, sweep).
THEOREM ShellFollowed == TermSpec => ShellIsFollowed
<1>1. ASSUME TermInv PROVE ShownOnceAndInOrder
  <2> SUFFICES ASSUME NEW v \in Viewers, view[v].pc = "reading"
               PROVE  LET ch    == view[v].ch
                          shown == view[v].got \o chan[ch].buf
                      IN /\ \A i \in 1..Len(shown) - 1 :
                               shown[i] < shown[i + 1] /\ (~chan[ch].lost => shown[i + 1] = shown[i] + 1)
                         /\ Sess(v).attached = ch /\ ~chan[ch].lost /\ ~OnItsWay(view[v].s, ch) =>
                               IF shown = <<>> THEN Sess(v).printed = 0 ELSE shown[Len(shown)] = Sess(v).printed
    BY DEF ShownOnceAndInOrder
  <2>1. IsShown(v)
    BY <1>1 DEF TermInv, AllShown
  <2>2. InOrder(Shown(v), chan[view[v].ch].lost)
    BY <2>1 DEF IsShown
  <2>3. Sess(v).attached = view[v].ch /\ ~chan[view[v].ch].lost /\ ~OnItsWay(view[v].s, view[v].ch) =>
           EndOf(Shown(v)) = Sess(v).printed
    BY <2>1 DEF IsShown, Sess
  <2>4. Sess(v).attached = view[v].ch /\ ~chan[view[v].ch].lost /\ ~OnItsWay(view[v].s, view[v].ch) =>
           IF Shown(v) = <<>> THEN Sess(v).printed = 0 ELSE Shown(v)[Len(Shown(v))] = Sess(v).printed
    BY <2>3 DEF EndOf
  <2> QED BY <2>2, <2>4 DEF InOrder, Shown
<1>2. ASSUME TermInv PROVE LastToComeReads
  <2> SUFFICES ASSUME NEW v \in Viewers, ViewAt(v, "reading"), ~Sess(v).closed,
                      \A c \in DOMAIN chan : chan[c].of = view[v].s => c <= view[v].ch
               PROVE  Sess(v).attached = view[v].ch /\ chan[view[v].ch].open
    BY DEF LastToComeReads
  <2>1. view[v].pc = "reading" /\ IsLast(v) /\ view[v].s \in Sessions /\ view[v].ch # 0
    BY <1>2, TermFacts DEF ViewAt, IsLast, Has
  <2>2. shell[view[v].s].attached = view[v].ch
    BY <1>2, <2>1 DEF TermInv, LastReads, Sess
  <2> QED BY <1>2, <2>1, <2>2 DEF TermInv, ShellsFit, ShellFits, Sess
<1>3. ASSUME TermInv
      PROVE  \A s \in DOMAIN shell :
                live = s /\ live' = 0 /\ shell'[s].closed /\ ~shell[s].closed /\ shell[s].stale =>
                  \A v \in Viewers : view[v].s = s => view[v].pc # "attached"
  BY <1>3 DEF TermInv, ViewsFit, ViewFits, Sess
<1> QED BY <1>1, <1>2, <1>3, TermHolds, PTL DEF ShellIsFollowed, NotSweptUnderAVisitor

------------------------------------------------------------------------------
(* Versions of a workflow: WorkflowVersions.                               *)

(* What a row is, and what is recorded of one: an agent nobody knows is adrift. *)
RowKinds == {"wire", "gear", "doc", "clock"}
RowRecs  == [kind : RowKinds, thing : {"wire"} \cup Gears \cup Docs \cup Clocks,
             owner : Names \cup {"all", "gear", "none", "adrift"}, on : BOOLEAN]
RowBelongs(r, owners, starts) ==
    /\ r.kind = "wire"  => r.thing = "wire" /\ r.owner \in Helpers /\ r.on = TRUE
    /\ r.kind = "gear"  => r.thing \in Gears /\ r.owner \in owners /\ r.on = TRUE
    /\ r.kind = "doc"   => r.thing \in Docs /\ r.owner \in owners /\ r.on = TRUE
    /\ r.kind = "clock" => r.thing \in Clocks /\ r.owner \in starts
SavedRows == {r \in RowRecs : RowBelongs(r, Names \cup {"all", "adrift"}, Names \cup {"adrift"})}
KindNo(k) == IF k = "wire" THEN 1 ELSE IF k = "gear" THEN 2 ELSE IF k = "doc" THEN 3 ELSE 4
No(r)     == KindNo(r.kind)

Maps   == UNION {[S -> Models \cup {"none"}] : S \in SUBSET Names}
Snaps  == [model : Maps, rows : SUBSET SavedRows]
Wholes == {s \in Snaps : Orchestrator \in DOMAIN s.model}

Restoring == {"listing agents", "removing", "making", "listing", "dropping", "drawing", "noting"}
ClerkPCs  == {"idle", "agents", "taking", "comparing", "keeping"} \cup Restoring
ClerkRecs == [pc : ClerkPCs, op : {"none", "save", "rollback"}, kind : 0..4, snap : Snaps, want : Snaps,
              todo : SUBSET (Names \cup AllRows \cup SavedRows), here : SUBSET Names,
              missing : SUBSET SavedRows, hired : SUBSET Names, since : SUBSET AllRows,
              alone : BOOLEAN, kept : BOOLEAN]

WorldTyped ==
    /\ VersionTypeOK
    /\ model \in Maps /\ offered \subseteq Models /\ library \subseteq Gears
    /\ versions \in Seq(Wholes)

(* What a request has in its hands belongs to where it is.                 *)
ClerkFits(o) ==
    LET c == clerk[o]
    IN /\ c.pc \in Restoring => c.op = "rollback"
       /\ c.pc # "idle" => c.op # "none"
       /\ c.op = "rollback" => \E n \in DOMAIN versions : c.want = versions[n]
       /\ c.pc \in {"taking", "comparing", "keeping"} => c.snap \in Wholes
       /\ c.pc \in {"taking", "listing", "dropping", "drawing"} => c.kind \in 1..4
       /\ c.pc = "removing" => c.todo \subseteq Names \ {Orchestrator}
       /\ c.pc = "making"   => c.todo \subseteq DOMAIN c.want.model
       /\ c.pc = "dropping" => c.todo \subseteq {r \in AllRows : No(r) = c.kind}
       /\ c.pc = "drawing"  => c.todo \subseteq {r \in c.want.rows : No(r) = c.kind}
       /\ c.alone = TRUE => c.hired = {} /\ c.since = {}

Stray(r)      == r.kind = "clock" /\ r.owner \notin Names
StillNoted(r)    == \E n \in DOMAIN versions : r \in AsRecorded(versions[n]).rows
AgentKept(a)  == \E n \in DOMAIN versions : a \in DOMAIN versions[n].model
SnapHas(c, r) == r \in c.since \/ r \in c.snap.rows \/ Stray(r)
Covered(c, r) == r \in c.since \/ StillNoted(r) \/ Stray(r)

(* What a rollback is about to destroy it has taken down, or it came meanwhile: first in
   what the request holds, and then in a version.                          *)
Keeping(o) ==
    LET c == clerk[o]
    IN c.op = "rollback" /\ c.kept = TRUE =>
       /\ c.pc \in {"taking", "comparing", "keeping"} =>
             /\ \A a \in DOMAIN model : a \in c.hired \/ a \in DOMAIN c.snap.model
             /\ \A r \in rows : r.owner \in Names \ DOMAIN c.snap.model => r \in c.since
             /\ \A r \in rows : (c.pc = "taking" => No(r) < c.kind) => SnapHas(c, r)
       /\ c.pc \in {"listing agents", "removing"} =>
             \A a \in DOMAIN model : a \in c.hired \/ AgentKept(a)
       /\ c.pc \in {"listing agents", "removing", "making"} => \A r \in rows : Covered(c, r)
       /\ c.pc \in {"listing", "dropping", "drawing"} =>
             \A r \in rows : No(r) > c.kind \/ (No(r) = c.kind /\ c.pc # "drawing") => Covered(c, r)

(* A rollback nobody interferes with: how far the agents are what the version says,
   which rows are, and that at the end they all are.                       *)
AgentsMade(d, m, done) == \A a \in done : a \in DOMAIN m /\ d.want.model[a] \in {m[a], "none"}
Peopled(d, m) ==
    /\ d.pc = "removing" =>
          d.here = DOMAIN m /\ d.todo = DOMAIN m \ (DOMAIN d.want.model \cup {Orchestrator})
    /\ d.pc = "making" =>
          /\ d.here = DOMAIN m /\ DOMAIN m \subseteq DOMAIN d.want.model
          /\ AgentsMade(d, m, DOMAIN d.want.model \ d.todo)
    /\ d.pc \in {"agents", "taking", "comparing", "keeping", "listing agents", "removing", "making"} =>
          d.missing = {}
    /\ d.pc \in {"listing", "dropping", "drawing", "noting"} =>
          DOMAIN m = DOMAIN d.want.model /\ AgentsMade(d, m, DOMAIN m)
Furnished(d, S) ==
    /\ d.pc \in {"listing", "dropping", "drawing"} =>
          /\ \A r \in S : No(r) < d.kind => \E q \in d.want.rows \ d.missing : r = Drawn(q)
          /\ \A q \in d.want.rows \ d.missing : No(q) < d.kind => Drawn(q) \in S
          /\ \A q \in d.missing : No(q) < d.kind \/ (No(q) = d.kind /\ d.pc = "drawing" /\ q \notin d.todo)
    /\ d.pc = "dropping" => d.todo = {r \in S : No(r) = d.kind}
    /\ d.pc = "drawing" =>
          /\ \A r \in S : No(r) = d.kind => \E q \in d.want.rows \ (d.missing \cup d.todo) : r = Drawn(q)
          /\ \A q \in d.want.rows \ (d.missing \cup d.todo) : No(q) = d.kind => Drawn(q) \in S
Landed(d, S) == d.pc = "noting" => S = {Drawn(q) : q \in d.want.rows \ d.missing}
Landing(o) ==
    clerk[o].alone = TRUE =>
        Peopled(clerk[o], model) /\ Furnished(clerk[o], rows) /\ Landed(clerk[o], rows)

VersionInv ==
    /\ WorldTyped /\ clerk \in [Clerks -> ClerkRecs]
    /\ \A o \in Clerks : ClerkFits(o) /\ Keeping(o) /\ Landing(o)

------------------------------------------------------------------------------
(* What rows and snapshots are.                                            *)

LEMMA NamesApart ==
    /\ "all" \notin Names /\ "adrift" \notin Names /\ "gear" \notin Names /\ "none" \notin Names
    /\ Orchestrator \in Names /\ Helpers \subseteq Names
BY VersionConstants DEF Names, Orchestrator

LEMMA HeldIs ==
    ASSUME NEW k, NEW t, NEW w
    PROVE  Held(k, t, w) = [kind |-> k, thing |-> t, owner |-> w, on |-> TRUE]
BY DEF Held

\* The rows there can be, by what they say.
LEMMA RowsAre ==
    ASSUME NEW r
    PROVE  r \in AllRows <=> /\ r \in RowRecs
                             /\ RowBelongs(r, Names \cup {"all"}, Names \cup {"gear", "none"})
<1> DEFINE fits == r \in RowRecs /\ RowBelongs(r, Names \cup {"all"}, Names \cup {"gear", "none"})
<1>0. Helpers \subseteq Names
  BY NamesApart
<1>1. ASSUME NEW a \in Helpers, r = Held("wire", "wire", a) PROVE fits
  BY <1>0, <1>1 DEF Held, RowRecs, RowKinds, RowBelongs
<1>2. ASSUME NEW g \in Gears, NEW w \in Names \cup {"all"}, r = Held("gear", g, w) PROVE fits
  BY <1>2 DEF Held, RowRecs, RowKinds, RowBelongs
<1>3. ASSUME NEW d \in Docs, NEW w \in Names \cup {"all"}, r = Held("doc", d, w) PROVE fits
  BY <1>3 DEF Held, RowRecs, RowKinds, RowBelongs
<1>4. ASSUME NEW c \in Clocks, NEW w \in Names \cup {"gear", "none"}, NEW e \in BOOLEAN,
             r = [Held("clock", c, w) EXCEPT !.on = e]
      PROVE  fits
  BY <1>4 DEF Held, RowRecs, RowKinds, RowBelongs
<1>5. r \in AllRows => fits
  <2> HIDE DEF fits
  <2> QED BY <1>1, <1>2, <1>3, <1>4 DEF AllRows
<1>6. ASSUME fits PROVE r \in AllRows
  <2>0. r = [kind |-> r.kind, thing |-> r.thing, owner |-> r.owner, on |-> r.on] /\ r.on \in BOOLEAN
    BY <1>6 DEF RowRecs
  <2>1. CASE r.kind = "wire"
    <3>1. r.owner \in Helpers /\ r = Held("wire", "wire", r.owner)
      BY <1>6, <2>0, <2>1 DEF RowBelongs, Held
    <3> QED BY <3>1 DEF AllRows
  <2>2. CASE r.kind = "gear"
    <3>1. r.thing \in Gears /\ r.owner \in Names \cup {"all"} /\ r = Held("gear", r.thing, r.owner)
      BY <1>6, <2>0, <2>2 DEF RowBelongs, Held
    <3> QED BY <3>1 DEF AllRows
  <2>3. CASE r.kind = "doc"
    <3>1. r.thing \in Docs /\ r.owner \in Names \cup {"all"} /\ r = Held("doc", r.thing, r.owner)
      BY <1>6, <2>0, <2>3 DEF RowBelongs, Held
    <3> QED BY <3>1 DEF AllRows
  <2>4. CASE r.kind = "clock"
    <3>1. /\ r.thing \in Clocks /\ r.owner \in Names \cup {"gear", "none"}
          /\ r = [Held("clock", r.thing, r.owner) EXCEPT !.on = r.on]
      BY <1>6, <2>0, <2>4 DEF RowBelongs, Held
    <3> QED BY <2>0, <3>1 DEF AllRows
  <2> QED BY <1>6, <2>1, <2>2, <2>3, <2>4 DEF RowRecs, RowKinds
<1> QED BY <1>5, <1>6

\* The four kinds, by their number.
LEMMA KindsAre ==
    /\ Len(KindsKept) = 4
    /\ \A k \in RowKinds : KindNo(k) \in 1..4 /\ KindsKept[KindNo(k)] = k
    /\ \A n \in 1..4 : KindsKept[n] \in RowKinds /\ KindNo(KindsKept[n]) = n
BY DEF KindsKept, RowKinds, KindNo

\* A set of rows by its kind is by its number.
LEMMA OfKindIs ==
    ASSUME NEW S \in SUBSET RowRecs, NEW n \in 1..4
    PROVE  OfKind(S, KindsKept[n]) = {r \in S : No(r) = n}
<1>1. \A r \in S : r.kind \in RowKinds
  BY DEF RowRecs
<1> QED BY <1>1, KindsAre DEF OfKind, No

\* Rows that change: one whose agent has gone, one switched over, one recorded, and one
\* put back.
LEMMA RowsMade ==
    /\ \A r \in AllRows : r \in RowRecs /\ r.owner # "adrift"
    /\ \A r \in AllRows : r.kind = "clock" => [r EXCEPT !.owner = "none"] \in AllRows
    /\ \A r \in AllRows : r.kind = "clock" => [r EXCEPT !.on = ~@] \in AllRows
    /\ \A r \in SavedRows : /\ r \in RowRecs /\ (Drawn(r)).kind = r.kind
                            /\ ~(r.kind = "clock" /\ r.owner = "adrift") => Drawn(r) \in AllRows
<1>1. ASSUME NEW r \in AllRows PROVE r \in RowRecs /\ r.owner # "adrift"
  BY RowsAre, NamesApart DEF RowBelongs, RowRecs, RowKinds
<1>2. ASSUME NEW r \in AllRows, r.kind = "clock" PROVE [r EXCEPT !.owner = "none"] \in AllRows
  <2> DEFINE q == [r EXCEPT !.owner = "none"]
  <2>1. r \in RowRecs /\ r.thing \in Clocks
    BY <1>2, RowsAre DEF RowBelongs
  <2>2. q \in RowRecs /\ q.kind = "clock" /\ q.thing = r.thing /\ q.owner = "none"
    BY <1>2, <2>1 DEF RowRecs
  <2> HIDE DEF q
  <2>3. RowBelongs(q, Names \cup {"all"}, Names \cup {"gear", "none"})
    BY <2>1, <2>2 DEF RowBelongs
  <2>4. q \in AllRows
    BY <2>2, <2>3, RowsAre
  <2> QED BY <2>4 DEF q
<1>3. ASSUME NEW r \in AllRows, r.kind = "clock" PROVE [r EXCEPT !.on = ~@] \in AllRows
  <2> DEFINE q == [r EXCEPT !.on = ~@]
  <2>1. r \in RowRecs /\ r.thing \in Clocks /\ r.owner \in Names \cup {"gear", "none"}
    BY <1>3, RowsAre DEF RowBelongs
  <2>2. q \in RowRecs /\ q.kind = "clock" /\ q.thing = r.thing /\ q.owner = r.owner
    BY <1>3, <2>1 DEF RowRecs
  <2> HIDE DEF q
  <2>3. RowBelongs(q, Names \cup {"all"}, Names \cup {"gear", "none"})
    BY <2>1, <2>2 DEF RowBelongs
  <2>4. q \in AllRows
    BY <2>2, <2>3, RowsAre
  <2> QED BY <2>4 DEF q
<1>4. ASSUME NEW r \in SavedRows
      PROVE  /\ r \in RowRecs /\ (Drawn(r)).kind = r.kind
             /\ ~(r.kind = "clock" /\ r.owner = "adrift") => Drawn(r) \in AllRows
  <2> DEFINE q == Drawn(r)
  <2>1. r \in RowRecs /\ RowBelongs(r, Names \cup {"all", "adrift"}, Names \cup {"adrift"})
    BY DEF SavedRows
  <2>2. /\ q \in RowRecs /\ q.kind = r.kind /\ q.thing = r.thing /\ q.on = TRUE
        /\ q.owner = IF r.owner = "adrift" THEN "all" ELSE r.owner
    BY <2>1 DEF RowRecs, Drawn
  <2> HIDE DEF q
  <2>3. ASSUME ~(r.kind = "clock" /\ r.owner = "adrift")
        PROVE  RowBelongs(q, Names \cup {"all"}, Names \cup {"gear", "none"})
    BY <2>1, <2>2, <2>3, NamesApart DEF RowBelongs
  <2>4. ~(r.kind = "clock" /\ r.owner = "adrift") => q \in AllRows
    BY <2>2, <2>3, RowsAre
  <2> QED BY <2>1, <2>2, <2>4 DEF q
<1> QED BY <1>1, <1>2, <1>3, <1>4

LEMMA NamedIs ==
    ASSUME NEW s, NEW r \in AllRows,
           r.kind = "wire" => r.owner \in DOMAIN s.model, r.kind = "clock" => r.owner \in Names
    PROVE  /\ NamedIn(s, r) \in SavedRows
           /\ r.owner \notin Names \ DOMAIN s.model => NamedIn(s, r) = r
<1> DEFINE q == NamedIn(s, r)
<1>1. r \in RowRecs /\ RowBelongs(r, Names \cup {"all"}, Names \cup {"gear", "none"})
  BY RowsAre
<1>2. /\ q \in RowRecs /\ q.kind = r.kind /\ q.thing = r.thing /\ q.on = r.on
      /\ q.owner = IF r.owner \in Names \ DOMAIN s.model THEN "adrift" ELSE r.owner
  BY <1>1 DEF RowRecs, NamedIn
<1>3. r.owner \notin Names \ DOMAIN s.model => q = r
  BY DEF NamedIn
<1> HIDE DEF q
<1>4. RowBelongs(q, Names \cup {"all", "adrift"}, Names \cup {"adrift"})
  BY <1>1, <1>2 DEF RowBelongs
<1>5. q \in SavedRows
  BY <1>2, <1>4 DEF SavedRows
<1> QED BY <1>3, <1>5 DEF q

LEMMA MapsAre ==
    ASSUME NEW f
    PROVE  f \in Maps <=> DOMAIN f \in SUBSET Names /\ f \in [DOMAIN f -> Models \cup {"none"}]
<1>1. ASSUME f \in Maps PROVE DOMAIN f \in SUBSET Names /\ f \in [DOMAIN f -> Models \cup {"none"}]
  <2>1. PICK S \in SUBSET Names : f \in [S -> Models \cup {"none"}]
    BY <1>1 DEF Maps
  <2>2. DOMAIN f = S
    BY <2>1
  <2> QED BY <2>1, <2>2
<1>2. ASSUME DOMAIN f \in SUBSET Names, f \in [DOMAIN f -> Models \cup {"none"}] PROVE f \in Maps
  BY <1>2 DEF Maps
<1> QED BY <1>1, <1>2

LEMMA LessIs ==
    ASSUME NEW f \in Maps, NEW S
    PROVE  /\ Less(f, S) \in Maps /\ DOMAIN Less(f, S) = DOMAIN f \ S
           /\ \A a \in DOMAIN f \ S : Less(f, S)[a] = f[a]
<1>1. DOMAIN f \in SUBSET Names /\ f \in [DOMAIN f -> Models \cup {"none"}]
  BY MapsAre
<1>2. DOMAIN Less(f, S) = DOMAIN f \ S /\ \A a \in DOMAIN f \ S : Less(f, S)[a] = f[a]
  BY DEF Less
<1>3. Less(f, S) \in [DOMAIN f \ S -> Models \cup {"none"}]
  BY <1>1 DEF Less
<1> QED BY <1>1, <1>2, <1>3, MapsAre

LEMMA WithIs ==
    ASSUME NEW f \in Maps, NEW x \in Names, NEW v \in Models \cup {"none"}
    PROVE  /\ With(f, x, v) \in Maps /\ DOMAIN With(f, x, v) = DOMAIN f \cup {x}
           /\ With(f, x, v)[x] = v /\ \A a \in DOMAIN f : a # x => With(f, x, v)[a] = f[a]
<1>1. DOMAIN f \in SUBSET Names /\ f \in [DOMAIN f -> Models \cup {"none"}]
  BY MapsAre
<1>2. /\ DOMAIN With(f, x, v) = DOMAIN f \cup {x}
      /\ With(f, x, v)[x] = v /\ \A a \in DOMAIN f : a # x => With(f, x, v)[a] = f[a]
  BY DEF With
<1>3. With(f, x, v) \in [DOMAIN f \cup {x} -> Models \cup {"none"}]
  BY <1>1 DEF With
<1> QED BY <1>1, <1>2, <1>3, MapsAre

\* A snapshot as it is compared and shown.
LEMMA RecordedIs ==
    ASSUME NEW s \in Snaps
    PROVE  /\ AsRecorded(s).model = s.model
           /\ \A r \in s.rows : r.owner # "adrift" => r \in AsRecorded(s).rows
BY DEF AsRecorded, Snaps

LEMMA SameIs ==
    ASSUME NEW s \in Snaps, NEW t \in Snaps, Same(s, t)
    PROVE  s.model = t.model /\ AsRecorded(s).rows = AsRecorded(t).rows
BY RecordedIs DEF Same

LEMMA NothingIs == Nothing \in Snaps /\ NoClerk \in ClerkRecs
<1>1. [a \in {} |-> "none"] \in Maps
  <2> DEFINE f == [a \in {} |-> "none"]
  <2>1. DOMAIN f = {} /\ f \in [{} -> Models \cup {"none"}]
    OBVIOUS
  <2> HIDE DEF f
  <2>2. f \in Maps
    BY <2>1, MapsAre
  <2> QED BY <2>2 DEF f
<1>2. Nothing \in Snaps
  BY <1>1 DEF Nothing, Snaps
<1> QED BY <1>2 DEF NoClerk, ClerkRecs, ClerkPCs

------------------------------------------------------------------------------
(* The workspace stays what it is, whoever writes.                         *)

ModelOK == /\ Orchestrator \in DOMAIN model /\ DOMAIN model \subseteq Names /\ model \in Maps
           /\ \A a \in DOMAIN model : model[a] \in offered \cup {"none"}
           /\ offered \subseteq Models /\ library \subseteq Gears
RowsOK  == /\ rows \subseteq AllRows
           /\ \A r \in rows : Begins(r)
           /\ \A q, r \in rows : Key(q) = Key(r) => q = r

LEMMA WorldIs == WorldTyped <=> ModelOK /\ RowsOK /\ versions \in Seq(Wholes)
BY DEF WorldTyped, VersionTypeOK, ModelOK, RowsOK

LEMMA RowsLeft ==
    ASSUME RowsOK, rows' \subseteq rows, DOMAIN model \subseteq DOMAIN model'
    PROVE  RowsOK'
BY DEF RowsOK, Begins

LEMMA RowAdded ==
    ASSUME RowsOK, NEW r \in AllRows, Begins(r), ~Taken(r), rows' = rows \cup {r}, UNCHANGED model
    PROVE  RowsOK'
<1>1. \A q \in rows : Key(q) # Key(r)
  BY DEF Taken
<1> QED BY <1>1 DEF RowsOK, Begins

LEMMA ClockTurns ==
    ASSUME RowsOK, NEW r \in rows, r.kind = "clock", rows' = (rows \ {r}) \cup {[r EXCEPT !.on = ~@]},
           UNCHANGED model
    PROVE  RowsOK'
<1> DEFINE t == [r EXCEPT !.on = ~@]
<1>1. t \in AllRows /\ t.kind = r.kind /\ t.owner = r.owner /\ t.thing = r.thing
  BY RowsMade DEF RowsOK, RowRecs
<1>2. rows' = (rows \ {r}) \cup {t}
  OBVIOUS
<1> HIDE DEF t
<1>3. Key(t) = Key(r) /\ (Begins(r) => Begins(t)')
  BY <1>1 DEF Key, Begins
<1>4. \A q \in rows : Key(q) = Key(r) => q = r
  BY DEF RowsOK
<1> QED BY <1>1, <1>2, <1>3, <1>4 DEF RowsOK, Begins

\* An agent goes with what is its own, and leaves its clocks.
LEMMA AgentGoes ==
    ASSUME ModelOK, RowsOK, NEW a \in DOMAIN model, a # Orchestrator,
           model' = Less(model, {a}), rows' = RowsWithout(a), UNCHANGED shelf
    PROVE  ModelOK' /\ RowsOK'
<1>1. /\ model' \in Maps /\ DOMAIN model' = DOMAIN model \ {a}
      /\ \A b \in DOMAIN model \ {a} : model'[b] = model[b]
  BY LessIs DEF ModelOK
<1>2. ModelOK'
  BY <1>1 DEF ModelOK, shelf
<1> DEFINE Left(r) == IF r.kind = "clock" /\ r.owner = a THEN [r EXCEPT !.owner = "none"] ELSE r
<1>3. \A q \in rows' : \E r \in rows : (r.owner # a \/ r.kind = "clock") /\ q = Left(r)
  BY DEF RowsWithout
<1>4. ASSUME NEW r \in rows, r.owner # a \/ r.kind = "clock"
      PROVE  Left(r) \in AllRows /\ Key(Left(r)) = Key(r) /\ Begins(Left(r))'
  <2>1. r \in AllRows /\ r \in RowRecs /\ Begins(r)
    BY RowsMade DEF RowsOK
  <2>2. CASE r.kind = "clock" /\ r.owner = a
    <3>1. /\ Left(r) = [r EXCEPT !.owner = "none"] /\ Left(r) \in AllRows
          /\ Left(r).kind = r.kind /\ Left(r).thing = r.thing /\ Left(r).owner = "none"
      BY <2>1, <2>2, RowsMade DEF RowRecs
    <3> HIDE DEF Left
    <3> QED BY <2>2, <3>1, NamesApart DEF Key, Begins
  <2>3. CASE ~(r.kind = "clock" /\ r.owner = a)
    <3>1. Left(r) = r /\ r.owner # a
      BY <1>4, <2>3
    <3> HIDE DEF Left
    <3> QED BY <1>1, <2>1, <3>1 DEF Begins
  <2> QED BY <2>2, <2>3
<1> HIDE DEF Left
<1>5. \A q, r \in rows : Key(q) = Key(r) => q = r
  BY DEF RowsOK
<1>6. RowsOK'
  <2>1. ASSUME NEW q \in rows' PROVE q \in AllRows /\ Begins(q)'
    BY <1>3, <1>4, <2>1
  <2>2. ASSUME NEW p \in rows', NEW q \in rows', Key(p) = Key(q) PROVE p = q
    <3>1. PICK u \in rows : (u.owner # a \/ u.kind = "clock") /\ p = Left(u)
      BY <1>3
    <3>2. PICK v \in rows : (v.owner # a \/ v.kind = "clock") /\ q = Left(v)
      BY <1>3
    <3>3. Key(u) = Key(v)
      BY <1>4, <2>2, <3>1, <3>2
    <3> QED BY <1>5, <3>1, <3>2, <3>3
  <2> QED BY <2>1, <2>2 DEF RowsOK, Begins
<1> QED BY <1>2, <1>6

LEMMA DrawnIs ==
    ASSUME NEW r \in SavedRows
    PROVE  /\ Drawn(r).kind = r.kind /\ Drawn(r).thing = r.thing
           /\ Drawn(r).owner = IF r.owner = "adrift" THEN "all" ELSE r.owner
BY DEF Drawn, SavedRows, RowRecs

LEMMA OneIs == ASSUME NEW S, S # {} PROVE OneOf(S) \in S
BY DEF OneOf

VersionParts ==
    /\ WorldTyped /\ clerk \in [Clerks -> ClerkRecs]
    /\ \A o \in Clerks : ClerkFits(o)

LEMMA ClerkIs ==
    ASSUME VersionParts, NEW o \in Clerks
    PROVE  /\ ModelOK /\ RowsOK /\ versions \in Seq(Wholes) /\ DOMAIN model \subseteq Names
           /\ clerk[o] \in ClerkRecs /\ Wanted(o) = clerk[o].want
           /\ clerk[o].want \in Snaps /\ clerk[o].snap \in Snaps
           /\ DOMAIN clerk[o].want.model \subseteq Names
<1>1. clerk[o] \in ClerkRecs
  BY DEF VersionParts
<1>2. clerk[o].want \in Snaps /\ clerk[o].snap \in Snaps
  BY <1>1 DEF ClerkRecs
<1>3. clerk[o].want.model \in Maps
  BY <1>2 DEF Snaps
<1> QED BY <1>1, <1>2, <1>3, WorldIs, MapsAre DEF Wanted, VersionParts, ModelOK

LEMMA AppendedVersion ==
    ASSUME versions \in Seq(Wholes), NEW s \in Wholes, versions' = Append(versions, s)
    PROVE  /\ versions' \in Seq(Wholes) /\ Len(versions) + 1 \in DOMAIN versions'
           /\ versions'[Len(versions) + 1] = s
           /\ \A n \in DOMAIN versions : n \in DOMAIN versions' /\ versions'[n] = versions[n]
<1>1. Len(versions) \in Nat /\ DOMAIN versions = 1..Len(versions)
  OBVIOUS
<1>2. Append(versions, s) \in Seq(Wholes) /\ Len(Append(versions, s)) = Len(versions) + 1
  BY AppendProperties
<1>3. /\ Append(versions, s)[Len(versions) + 1] = s
      /\ \A n \in 1..Len(versions) : Append(versions, s)[n] = versions[n]
  BY AppendProperties
<1>4. DOMAIN versions' = 1..Len(versions) + 1
  BY <1>2
<1> QED BY <1>1, <1>2, <1>3, <1>4

\* What a request does to the workspace.
Silent(o) ==
    \/ AskToSave(o) \/ AskToRollBack(o) \/ TakeAgents(o) \/ TakeRows(o) \/ TakeSkips(o)
    \/ TakeFails(o) \/ Compare(o) \/ ListAgents(o) \/ RemovedAll(o) \/ MadeAll(o) \/ ListRows(o) \/ DroppedAll(o) \/ DrawnAll(o)
    \/ RestoreFails(o)
Edits(o) == Keep(o) \/ NoteRollback(o) \/ RemoveOne(o) \/ MakeOne(o) \/ DropOne(o) \/ DrawOne(o)

LEMMA SilentOrEdits == ASSUME NEW o, ClerkStep(o) PROVE Silent(o) \/ Edits(o)
BY DEF ClerkStep, Silent, Edits

LEMMA SilentIs ==
    ASSUME NEW o, Silent(o)
    PROVE  UNCHANGED <<model, rows, versions, shelf>> /\ \E c : Becomes(o, c)
<1>1. Silent(o) => ClerkReads
  BY DEF Silent, AskToSave, AskToRollBack, TakeAgents, TakeRows, TakeSkips, TakeFails, Compare, ListAgents, RemovedAll,
         MadeAll, ListRows, DroppedAll, DrawnAll, RestoreFails
<1>2. UNCHANGED <<model, rows, versions, shelf>>
  BY <1>1 DEF ClerkReads, Desk
<1>3. \E c : clerk' = [clerk EXCEPT ![o] = c]
  BY DEF Silent, AskToSave, AskToRollBack, TakeAgents, TakeRows, TakeSkips, TakeFails, Compare, ListAgents, RemovedAll,
         MadeAll, ListRows, DroppedAll, DrawnAll, RestoreFails, Becomes, StopClerk
<1> QED BY <1>2, <1>3 DEF Becomes

\* What is removed, made, dropped and drawn is what the request has before it.
LEMMA EditFacts ==
    ASSUME VersionParts, NEW o \in Clerks
    PROVE  /\ RemoveOne(o) => OneOf(clerk[o].todo) \in Names \ {Orchestrator}
           /\ MakeOne(o) => OneOf(clerk[o].todo) \in DOMAIN clerk[o].want.model
           /\ DropOne(o) => OneOf(clerk[o].todo) \in AllRows /\ No(OneOf(clerk[o].todo)) = clerk[o].kind
           /\ DrawOne(o) => OneOf(clerk[o].todo) \in SavedRows /\ No(OneOf(clerk[o].todo)) = clerk[o].kind
           /\ Keep(o) => clerk[o].snap \in Wholes
           /\ NoteRollback(o) => clerk[o].want \in Wholes
<1>1. ClerkFits(o)
  BY DEF VersionParts
<1>2. clerk[o].want.rows \subseteq SavedRows
  BY ClerkIs DEF Snaps
<1>3. NoteRollback(o) => \E n \in DOMAIN versions : clerk[o].want = versions[n]
  BY <1>1 DEF ClerkFits, NoteRollback, ClerkAt, Restoring
<1>4. \A n \in DOMAIN versions : versions[n] \in Wholes
  BY ClerkIs
<1>5. RemoveOne(o) \/ MakeOne(o) \/ DropOne(o) \/ DrawOne(o) => OneOf(clerk[o].todo) \in clerk[o].todo
  BY OneIs DEF RemoveOne, MakeOne, DropOne, DrawOne
<1>6. RemoveOne(o) => clerk[o].todo \subseteq Names \ {Orchestrator}
  BY <1>1 DEF ClerkFits, RemoveOne, ClerkAt
<1>7. MakeOne(o) => clerk[o].todo \subseteq DOMAIN clerk[o].want.model
  BY <1>1 DEF ClerkFits, MakeOne, ClerkAt
<1>8. DropOne(o) => clerk[o].todo \subseteq {r \in AllRows : No(r) = clerk[o].kind}
  BY <1>1 DEF ClerkFits, DropOne, ClerkAt
<1>9. DrawOne(o) => clerk[o].todo \subseteq {r \in clerk[o].want.rows : No(r) = clerk[o].kind}
  BY <1>1 DEF ClerkFits, DrawOne, ClerkAt
<1>10. Keep(o) => clerk[o].snap \in Wholes
  BY <1>1 DEF ClerkFits, Keep, ClerkAt
<1> QED BY <1>2, <1>3, <1>4, <1>5, <1>6, <1>7, <1>8, <1>9, <1>10

\* A row that is drawn is one there can be, of an agent there is.
LEMMA DrawnFits ==
    ASSUME VersionParts, NEW o \in Clerks, DrawOne(o), NEW r, r = OneOf(clerk[o].todo), ~Unknown(o, r)
    PROVE  /\ r \in SavedRows /\ Drawn(r) \in AllRows /\ No(Drawn(r)) = No(r)
           /\ (r.owner \in Names => r.owner \in DOMAIN model) => Begins(Drawn(r))
<1>1. r \in SavedRows
  BY EditFacts
<1>2. ~(r.kind = "clock" /\ r.owner = "adrift")
  BY DEF Unknown
<1> QED BY <1>1, <1>2, RowsMade, DrawnIs, NamesApart DEF Begins, No

LEMMA EditsWell ==
    ASSUME VersionParts, NEW o \in Clerks, Edits(o)
    PROVE  ModelOK' /\ RowsOK' /\ versions' \in Seq(Wholes)
<1>0. ModelOK /\ RowsOK /\ versions \in Seq(Wholes) /\ DOMAIN model \subseteq Names
  BY ClerkIs
<1>1. ASSUME UNCHANGED <<model, shelf>> PROVE ModelOK'
  BY <1>0, <1>1 DEF ModelOK, shelf
<1>2. CASE Keep(o) \/ NoteRollback(o)
  <2>1. UNCHANGED <<model, rows, shelf>>
    BY <1>2 DEF Keep, NoteRollback, Desk
  <2>2. RowsOK'
    BY <1>0, <2>1 DEF RowsOK, Begins
  <2>3. UNCHANGED versions \/ \E s \in Wholes : versions' = Append(versions, s)
    BY <1>2, EditFacts, ClerkIs DEF Keep, NoteRollback
  <2> QED BY <1>0, <1>1, <2>1, <2>2, <2>3, AppendedVersion
<1>3. CASE RemoveOne(o)
  <2> DEFINE a == OneOf(clerk[o].todo)
  <2>1. UNCHANGED <<versions, shelf>> /\ a # Orchestrator
    BY <1>3, EditFacts DEF RemoveOne, Desk
  <2>2. \/ a \in DOMAIN model /\ model' = Less(model, {a}) /\ rows' = RowsWithout(a)
        \/ UNCHANGED <<model, rows>>
    BY <1>3 DEF RemoveOne
  <2> HIDE DEF a
  <2>3. CASE a \in DOMAIN model /\ model' = Less(model, {a}) /\ rows' = RowsWithout(a)
    BY <1>0, <2>1, <2>3, AgentGoes
  <2>4. CASE UNCHANGED <<model, rows>>
    BY <1>0, <1>1, <2>1, <2>4 DEF RowsOK, Begins
  <2> QED BY <1>0, <2>1, <2>2, <2>3, <2>4
<1>4. CASE MakeOne(o)
  <2> DEFINE a == OneOf(clerk[o].todo)  m == Wanted(o).model[a]
  <2>1. UNCHANGED <<versions, rows, shelf>> /\ a \in Names
    BY <1>4, EditFacts, ClerkIs DEF MakeOne, Desk
  <2>2. \/ a \in DOMAIN model /\ m \in offered \cup {"none"} /\ model' = [model EXCEPT ![a] = IF m = "none" THEN @ ELSE m]
        \/ a \notin DOMAIN model /\ m \in offered /\ model' = With(model, a, m)
        \/ UNCHANGED model
    BY <1>4 DEF MakeOne
  <2> HIDE DEF a, m
  <2>3. CASE a \in DOMAIN model /\ m \in offered \cup {"none"} /\ model' = [model EXCEPT ![a] = IF m = "none" THEN @ ELSE m]
    <3>1. model \in [DOMAIN model -> Models \cup {"none"}]
      BY <1>0, MapsAre DEF ModelOK
    <3>2. /\ DOMAIN model' = DOMAIN model /\ model' \in [DOMAIN model -> Models \cup {"none"}]
          /\ \A b \in DOMAIN model : model'[b] \in offered \cup {"none"}
      BY <1>0, <2>3, <3>1 DEF ModelOK
    <3>3. ModelOK'
      BY <1>0, <2>1, <3>2, MapsAre DEF ModelOK, shelf
    <3> QED BY <1>0, <2>1, <3>2, <3>3, RowsLeft
  <2>4. CASE a \notin DOMAIN model /\ m \in offered /\ model' = With(model, a, m)
    <3>1. /\ model' \in Maps /\ DOMAIN model' = DOMAIN model \cup {a} /\ model'[a] = m
          /\ \A b \in DOMAIN model : b # a => model'[b] = model[b]
      <4>1. model \in Maps /\ m \in Models \cup {"none"}
        BY <1>0, <2>4 DEF ModelOK
      <4> QED BY <2>1, <2>4, <4>1, WithIs
    <3>2. ModelOK'
      BY <1>0, <2>1, <2>4, <3>1 DEF ModelOK, shelf
    <3> QED BY <1>0, <2>1, <3>1, <3>2, RowsLeft
  <2>5. CASE UNCHANGED model
    BY <1>0, <1>1, <2>1, <2>5 DEF RowsOK, Begins
  <2> QED BY <2>2, <2>3, <2>4, <2>5
<1>5. CASE DropOne(o)
  <2>1. UNCHANGED <<versions, model, shelf>> /\ rows' \subseteq rows
    BY <1>5 DEF DropOne, Desk
  <2> QED BY <1>0, <1>1, <2>1, RowsLeft
<1>6. CASE DrawOne(o)
  <2> DEFINE r == OneOf(clerk[o].todo)
  <2>1. UNCHANGED <<versions, model, shelf>>
    BY <1>6 DEF DrawOne, Desk
  <2>2. \/ UNCHANGED rows
        \/ /\ ~Unknown(o, r) /\ ~Taken(Drawn(r)) /\ (r.owner \in Names => r.owner \in DOMAIN model)
           /\ rows' = rows \cup {Drawn(r)}
    BY <1>6 DEF DrawOne
  <2> HIDE DEF r
  <2>3. CASE UNCHANGED rows
    BY <1>0, <1>1, <2>1, <2>3 DEF RowsOK, Begins
  <2>4. CASE /\ ~Unknown(o, r) /\ ~Taken(Drawn(r)) /\ (r.owner \in Names => r.owner \in DOMAIN model)
             /\ rows' = rows \cup {Drawn(r)}
    <3>1. Drawn(r) \in AllRows /\ Begins(Drawn(r))
      BY <1>6, <2>4, DrawnFits DEF r
    <3> QED BY <1>0, <1>1, <2>1, <2>4, <3>1, RowAdded
  <2> QED BY <2>2, <2>3, <2>4
<1> QED BY <1>2, <1>3, <1>4, <1>5, <1>6 DEF Edits

\* Everybody else.
Others ==
    \/ \E a \in Names : CreateAgent(a) \/ UpdateAgent(a) \/ DeleteAgent(a)
    \/ \E r \in AllRows : AddRow(r) \/ DeleteRow(r) \/ PauseClock(r)
    \/ \E g \in Gears : DeleteGear(g)
    \/ \E m \in Models : DeleteModel(m)

LEMMA OthersWell ==
    ASSUME ModelOK, RowsOK, Others
    PROVE  ModelOK' /\ RowsOK' /\ UNCHANGED versions
<1>0. /\ DOMAIN model \subseteq Names /\ model \in [DOMAIN model -> Models \cup {"none"}]
      /\ offered \subseteq Models
  BY MapsAre DEF ModelOK
<1>1. ASSUME NEW a \in Names, CreateAgent(a) PROVE ModelOK' /\ RowsOK' /\ UNCHANGED versions
  <2>1. PICK m \in offered \cup {"none"} : model' = With(model, a, m)
    BY <1>1 DEF CreateAgent
  <2>2. UNCHANGED <<rows, shelf, versions>> /\ a \notin DOMAIN model
    BY <1>1 DEF CreateAgent, Revise
  <2>3. model \in Maps /\ m \in Models \cup {"none"}
    BY <1>0, <2>1 DEF ModelOK
  <2>4. /\ model' \in Maps /\ DOMAIN model' = DOMAIN model \cup {a} /\ model'[a] = m
        /\ \A b \in DOMAIN model : b # a => model'[b] = model[b]
    BY <2>1, <2>3, WithIs
  <2>5. ModelOK'
    BY <1>0, <2>1, <2>2, <2>4 DEF ModelOK, shelf
  <2> QED BY <2>2, <2>4, <2>5, RowsLeft
<1>2. ASSUME NEW a \in Names, UpdateAgent(a) PROVE ModelOK' /\ RowsOK' /\ UNCHANGED versions
  <2>1. PICK m \in offered : model' = [model EXCEPT ![a] = m]
    BY <1>2 DEF UpdateAgent
  <2>2. UNCHANGED <<rows, shelf, versions>> /\ a \in DOMAIN model
    BY <1>2 DEF UpdateAgent, Revise
  <2>3. /\ DOMAIN model' = DOMAIN model /\ model' \in [DOMAIN model -> Models \cup {"none"}]
        /\ \A b \in DOMAIN model : model'[b] \in offered \cup {"none"}
    BY <1>0, <2>1, <2>2 DEF ModelOK
  <2>4. ModelOK'
    BY <1>0, <2>2, <2>3, MapsAre DEF ModelOK, shelf
  <2> QED BY <2>2, <2>3, <2>4, RowsLeft
<1>3. ASSUME NEW a \in Names, DeleteAgent(a) PROVE ModelOK' /\ RowsOK' /\ UNCHANGED versions
  BY <1>3, AgentGoes DEF DeleteAgent, Revise
<1>4. ASSUME UNCHANGED <<model, shelf>> PROVE ModelOK'
  BY <1>4 DEF ModelOK, shelf
<1>5. ASSUME NEW r \in AllRows, AddRow(r) PROVE ModelOK' /\ RowsOK' /\ UNCHANGED versions
  BY <1>4, <1>5, RowAdded DEF AddRow, Revise
<1>6. ASSUME NEW r \in AllRows, DeleteRow(r) PROVE ModelOK' /\ RowsOK' /\ UNCHANGED versions
  BY <1>4, <1>6, RowsLeft DEF DeleteRow, Revise
<1>7. ASSUME NEW r \in AllRows, PauseClock(r) PROVE ModelOK' /\ RowsOK' /\ UNCHANGED versions
  BY <1>4, <1>7, ClockTurns DEF PauseClock, Revise
<1>8. ASSUME NEW g \in Gears, DeleteGear(g) PROVE ModelOK' /\ RowsOK' /\ UNCHANGED versions
  <2>1. UNCHANGED <<model, offered, versions>> /\ library' \subseteq library /\ rows' \subseteq rows
    BY <1>8 DEF DeleteGear, Revise
  <2>2. ModelOK'
    BY <2>1 DEF ModelOK
  <2> QED BY <2>1, <2>2, RowsLeft
<1>9. ASSUME NEW m \in Models, DeleteModel(m) PROVE ModelOK' /\ RowsOK' /\ UNCHANGED versions
  <2>1. UNCHANGED <<rows, library, versions>> /\ offered' = offered \ {m}
    BY <1>9 DEF DeleteModel, Revise
  <2>2. model' = [a \in DOMAIN model |-> IF model[a] = m THEN "none" ELSE model[a]]
    BY <1>9 DEF DeleteModel
  <2>3. /\ DOMAIN model' = DOMAIN model /\ model' \in [DOMAIN model -> Models \cup {"none"}]
        /\ \A b \in DOMAIN model : model'[b] \in offered' \cup {"none"}
    BY <1>0, <2>1, <2>2 DEF ModelOK
  <2>4. ModelOK'
    BY <1>0, <2>1, <2>3, MapsAre DEF ModelOK
  <2> QED BY <2>1, <2>3, <2>4, RowsLeft
<1> QED BY <1>1, <1>2, <1>3, <1>5, <1>6, <1>7, <1>8, <1>9 DEF Others

LEMMA StepIs ==
    ASSUME [VersionNext]_versionVars
    PROVE  UNCHANGED versionVars \/ Others \/ \E o \in Clerks : ClerkStep(o)
BY DEF VersionNext, Others

LEMMA WorldStep == ASSUME VersionParts, [VersionNext]_versionVars PROVE WorldTyped'
<1>0. ModelOK /\ RowsOK /\ versions \in Seq(Wholes)
  BY WorldIs DEF VersionParts
<1>1. ASSUME UNCHANGED <<model, rows, versions, shelf>> PROVE ModelOK' /\ RowsOK' /\ versions' \in Seq(Wholes)
  BY <1>0, <1>1 DEF ModelOK, RowsOK, Begins, shelf
<1>2. ASSUME NEW o \in Clerks, ClerkStep(o) PROVE ModelOK' /\ RowsOK' /\ versions' \in Seq(Wholes)
  BY <1>1, <1>2, SilentOrEdits, SilentIs, EditsWell
<1>3. ModelOK' /\ RowsOK' /\ versions' \in Seq(Wholes)
  <2>1. CASE UNCHANGED versionVars
    BY <1>1, <2>1 DEF versionVars
  <2>2. CASE Others
    BY <1>0, <2>2, OthersWell
  <2> QED BY <1>2, <2>1, <2>2, StepIs
<1> QED BY <1>3 DEF WorldTyped, VersionTypeOK, ModelOK, RowsOK

------------------------------------------------------------------------------
(* What a request notices of a step that is another's.                     *)

VersionsGrow == \A n \in DOMAIN versions : n \in DOMAIN versions' /\ versions'[n] = versions[n]

\* Somebody has written, and what came by it.
Moves(hired, made) ==
    /\ hired \subseteq DOMAIN model' /\ made \subseteq rows'
    /\ DOMAIN model' \subseteq DOMAIN model \cup hired
    /\ \A r \in rows' : r \in rows \/ r \in made \/ Stray(r)

Notices(o) ==
    \/ clerk'[o] = clerk[o] /\ UNCHANGED <<model, rows>>
    \/ \E hired, made : Moves(hired, made) /\ clerk'[o] = Knowing(clerk[o], hired, made)

LEMMA RowsWithoutIs ==
    ASSUME RowsOK, NEW a, NEW q \in RowsWithout(a)
    PROVE  q \in rows \/ Stray(q)
<1>1. PICK r \in rows : q = IF r.kind = "clock" /\ r.owner = a THEN [r EXCEPT !.owner = "none"] ELSE r
  BY DEF RowsWithout
<1>2. CASE r.kind = "clock" /\ r.owner = a
  <2>1. r \in RowRecs
    BY RowsMade DEF RowsOK
  <2> QED BY <1>1, <1>2, <2>1, NamesApart DEF Stray, RowRecs
<1> QED BY <1>1, <1>2

LEMMA OthersMove ==
    ASSUME ModelOK, RowsOK, clerk \in [Clerks -> ClerkRecs], Others, NEW o \in Clerks
    PROVE  \E hired, made : Moves(hired, made) /\ clerk'[o] = Knowing(clerk[o], hired, made)
<1>1. ASSUME NEW hired, NEW made, Revise(hired, made) PROVE clerk'[o] = Knowing(clerk[o], hired, made)
  BY <1>1 DEF Revise
<1>2. ASSUME NEW a \in Names, CreateAgent(a)
      PROVE  \E hired, made : Moves(hired, made) /\ clerk'[o] = Knowing(clerk[o], hired, made)
  <2>1. PICK m \in offered \cup {"none"} : model' = With(model, a, m)
    BY <1>2 DEF CreateAgent
  <2>2. DOMAIN model' = DOMAIN model \cup {a} /\ UNCHANGED rows /\ Revise({a}, {})
    BY <1>2, <2>1 DEF CreateAgent, With
  <2> QED BY <1>1, <2>2 DEF Moves
<1>3. ASSUME NEW a \in Names, UpdateAgent(a)
      PROVE  \E hired, made : Moves(hired, made) /\ clerk'[o] = Knowing(clerk[o], hired, made)
  <2>1. DOMAIN model' = DOMAIN model /\ UNCHANGED rows /\ Revise({}, {})
    BY <1>3 DEF UpdateAgent
  <2> QED BY <1>1, <2>1 DEF Moves
<1>4. ASSUME NEW a \in Names, DeleteAgent(a)
      PROVE  \E hired, made : Moves(hired, made) /\ clerk'[o] = Knowing(clerk[o], hired, made)
  <2>1. DOMAIN model' \subseteq DOMAIN model /\ rows' = RowsWithout(a) /\ Revise({}, {})
    BY <1>4 DEF DeleteAgent, Less
  <2> QED BY <1>1, <2>1, RowsWithoutIs DEF Moves
<1>5. ASSUME NEW r \in AllRows, AddRow(r)
      PROVE  \E hired, made : Moves(hired, made) /\ clerk'[o] = Knowing(clerk[o], hired, made)
  <2>1. UNCHANGED model /\ rows' = rows \cup {r} /\ Revise({}, {r})
    BY <1>5 DEF AddRow
  <2> QED BY <1>1, <2>1 DEF Moves
<1>6. ASSUME NEW r \in AllRows, DeleteRow(r)
      PROVE  \E hired, made : Moves(hired, made) /\ clerk'[o] = Knowing(clerk[o], hired, made)
  <2>1. UNCHANGED model /\ rows' \subseteq rows /\ Revise({}, {})
    BY <1>6 DEF DeleteRow
  <2> QED BY <1>1, <2>1 DEF Moves
<1>7. ASSUME NEW r \in AllRows, PauseClock(r)
      PROVE  \E hired, made : Moves(hired, made) /\ clerk'[o] = Knowing(clerk[o], hired, made)
  <2> DEFINE t == [r EXCEPT !.on = ~@]
  <2>1. UNCHANGED model /\ rows' = (rows \ {r}) \cup {t} /\ Revise({}, {t})
    BY <1>7 DEF PauseClock
  <2> HIDE DEF t
  <2> QED BY <1>1, <2>1 DEF Moves
<1>8. ASSUME NEW g \in Gears, DeleteGear(g)
      PROVE  \E hired, made : Moves(hired, made) /\ clerk'[o] = Knowing(clerk[o], hired, made)
  <2>1. UNCHANGED model /\ rows' \subseteq rows /\ Revise({}, {})
    BY <1>8 DEF DeleteGear
  <2> QED BY <1>1, <2>1 DEF Moves
<1>9. ASSUME NEW m \in Models, DeleteModel(m)
      PROVE  \E hired, made : Moves(hired, made) /\ clerk'[o] = Knowing(clerk[o], hired, made)
  <2>1. DOMAIN model' = DOMAIN model /\ UNCHANGED rows /\ Revise({}, {})
    BY <1>9 DEF DeleteModel
  <2> QED BY <1>1, <2>1 DEF Moves
<1> QED BY <1>2, <1>3, <1>4, <1>5, <1>6, <1>7, <1>8, <1>9 DEF Others

LEMMA EditsMove ==
    ASSUME VersionParts, NEW p \in Clerks, Edits(p), NEW o \in Clerks \ {p}
    PROVE  Notices(o)
<1>0. ModelOK /\ RowsOK /\ clerk \in [Clerks -> ClerkRecs]
  BY ClerkIs DEF VersionParts
<1>1. ASSUME NEW c, Becomes(p, c) PROVE clerk'[o] = clerk[o]
  BY <1>0, <1>1 DEF Becomes
<1>2. StopClerk(p) => clerk'[o] = clerk[o]
  BY <1>1 DEF StopClerk
<1>3. ASSUME NEW hired, NEW made, NEW c, Writes(p, hired, made, c) PROVE clerk'[o] = Knowing(clerk[o], hired, made)
  BY <1>3 DEF Writes
<1>4. CASE Keep(p) \/ NoteRollback(p)
  <2>1. UNCHANGED <<model, rows>> /\ (StopClerk(p) \/ \E c : Becomes(p, c))
    BY <1>4 DEF Keep, NoteRollback
  <2> QED BY <1>1, <1>2, <2>1 DEF Notices
<1>5. CASE RemoveOne(p)
  <2> DEFINE a == OneOf(clerk[p].todo)
  <2>1. \/ /\ model' = Less(model, {a}) /\ rows' = RowsWithout(a)
           /\ \E c : Writes(p, {}, {}, c)
        \/ UNCHANGED <<model, rows>> /\ StopClerk(p)
    BY <1>5 DEF RemoveOne
  <2> HIDE DEF a
  <2>2. CASE model' = Less(model, {a}) /\ rows' = RowsWithout(a) /\ \E c : Writes(p, {}, {}, c)
    <3>1. DOMAIN model' \subseteq DOMAIN model
      BY <2>2 DEF Less
    <3>2. Moves({}, {})
      BY <1>0, <2>2, <3>1, RowsWithoutIs DEF Moves
    <3> QED BY <1>3, <2>2, <3>2 DEF Notices
  <2> QED BY <1>2, <2>1, <2>2 DEF Notices
<1>6. CASE MakeOne(p)
  <2> DEFINE a == OneOf(clerk[p].todo)  m == Wanted(p).model[a]
  <2>1. /\ UNCHANGED rows
        /\ \/ model' = [model EXCEPT ![a] = IF m = "none" THEN @ ELSE m] /\ \E c : Writes(p, {}, {}, c)
           \/ model' = With(model, a, m) /\ \E c : Writes(p, {a}, {}, c)
           \/ UNCHANGED model /\ StopClerk(p)
    BY <1>6 DEF MakeOne
  <2> HIDE DEF a, m
  <2>2. CASE model' = [model EXCEPT ![a] = IF m = "none" THEN @ ELSE m] /\ \E c : Writes(p, {}, {}, c)
    <3>1. Moves({}, {})
      BY <2>1, <2>2 DEF Moves
    <3> QED BY <1>3, <2>2, <3>1 DEF Notices
  <2>3. CASE model' = With(model, a, m) /\ \E c : Writes(p, {a}, {}, c)
    <3>1. DOMAIN model' = DOMAIN model \cup {a}
      BY <2>3 DEF With
    <3>2. Moves({a}, {})
      BY <2>1, <3>1 DEF Moves
    <3> QED BY <1>3, <2>3, <3>2 DEF Notices
  <2> QED BY <1>2, <2>1, <2>2, <2>3 DEF Notices
<1>7. CASE DropOne(p)
  <2>1. /\ UNCHANGED model /\ rows' \subseteq rows
        /\ (\E c : Writes(p, {}, {}, c)) \/ (UNCHANGED rows /\ StopClerk(p))
    BY <1>7 DEF DropOne
  <2>2. Moves({}, {})
    BY <2>1 DEF Moves
  <2> QED BY <1>2, <1>3, <2>1, <2>2 DEF Notices
<1>8. CASE DrawOne(p)
  <2> DEFINE r == Drawn(OneOf(clerk[p].todo))
  <2>1. /\ UNCHANGED model
        /\ \/ UNCHANGED rows /\ ((\E c : Becomes(p, c)) \/ StopClerk(p))
           \/ rows' = rows \cup {r} /\ \E c : Writes(p, {}, {r}, c)
    BY <1>8 DEF DrawOne
  <2> HIDE DEF r
  <2>2. CASE rows' = rows \cup {r} /\ \E c : Writes(p, {}, {r}, c)
    <3>1. Moves({}, {r})
      BY <2>1, <2>2 DEF Moves
    <3> QED BY <1>3, <2>2, <3>1 DEF Notices
  <2> QED BY <1>1, <1>2, <2>1, <2>2 DEF Notices
<1> QED BY <1>4, <1>5, <1>6, <1>7, <1>8 DEF Edits

LEMMA Bystander ==
    ASSUME VersionParts, [VersionNext]_versionVars, NEW o \in Clerks
    PROVE  VersionsGrow /\ (Notices(o) \/ ClerkStep(o))
<1>0. ModelOK /\ RowsOK /\ clerk \in [Clerks -> ClerkRecs] /\ versions \in Seq(Wholes)
  BY ClerkIs DEF VersionParts
<1>1. ASSUME NEW p \in Clerks, ClerkStep(p) PROVE VersionsGrow
  <2>1. CASE Silent(p) \/ RemoveOne(p) \/ MakeOne(p) \/ DropOne(p) \/ DrawOne(p)
    <3>1. UNCHANGED versions
      BY <2>1, SilentIs DEF RemoveOne, MakeOne, DropOne, DrawOne
    <3> QED BY <3>1 DEF VersionsGrow
  <2>2. CASE Keep(p) \/ NoteRollback(p)
    <3>1. UNCHANGED versions \/ \E s \in Wholes : versions' = Append(versions, s)
      BY <2>2, EditFacts, ClerkIs DEF Keep, NoteRollback
    <3> QED BY <1>0, <3>1, AppendedVersion DEF VersionsGrow
  <2> QED BY <1>1, <2>1, <2>2, SilentOrEdits DEF Edits
<1>2. ASSUME NEW p \in Clerks \ {o}, ClerkStep(p) PROVE Notices(o)
  <2>1. CASE Silent(p)
    <3>1. UNCHANGED <<model, rows>> /\ \E c : Becomes(p, c)
      BY <2>1, SilentIs
    <3> QED BY <1>0, <3>1 DEF Becomes, Notices
  <2>2. CASE Edits(p)
    BY <2>2, EditsMove
  <2> QED BY <1>2, <2>1, <2>2, SilentOrEdits
<1>3. ASSUME Others PROVE VersionsGrow /\ Notices(o)
  BY <1>0, <1>3, OthersMove, OthersWell DEF VersionsGrow, Notices
<1>4. ASSUME UNCHANGED versionVars PROVE VersionsGrow /\ Notices(o)
  BY <1>4 DEF versionVars, VersionsGrow, Notices
<1> QED BY <1>1, <1>2, <1>3, <1>4, StepIs

------------------------------------------------------------------------------
(* What a request does to itself.                                          *)

LEMMA Mine ==
    ASSUME clerk \in [Clerks -> ClerkRecs], NEW o \in Clerks
    PROVE  /\ \A c : Becomes(o, c) => clerk'[o] = c
           /\ StopClerk(o) => clerk'[o] = NoClerk
           /\ \A hired, made, c : Writes(o, hired, made, c) => clerk'[o] = c
BY DEF Becomes, StopClerk, Writes

LEMMA Done ==
    ASSUME NEW o, clerk'[o] = NoClerk
    PROVE  clerk'[o] \in ClerkRecs /\ ClerkFits(o)' /\ Keeping(o)' /\ Landing(o)'
BY NothingIs DEF NoClerk, ClerkFits, Keeping, Landing, Peopled, Furnished, Landed, Restoring

LEMMA WantedStill ==
    ASSUME VersionParts, NEW o \in Clerks, VersionsGrow, clerk'[o].op = clerk[o].op, clerk'[o].want = clerk[o].want
    PROVE  clerk'[o].op = "rollback" => \E n \in DOMAIN versions' : clerk'[o].want = versions'[n]
BY DEF VersionParts, ClerkFits, VersionsGrow

\* A request that goes on as it was asked, and what it may set on its way.
GoesOnAs(c, d) == /\ d \in ClerkRecs /\ d.op = c.op /\ d.want = c.want /\ d.alone = c.alone
                  /\ d.hired = c.hired /\ d.since = c.since
PutPc(c, p) == [c EXCEPT !.pc = p]
PutKind(c, k) == [c EXCEPT !.kind = k]
PutSnap(c, s) == [c EXCEPT !.snap = s]
PutTodo(c, T) == [c EXCEPT !.todo = T]
PutHere(c, h) == [c EXCEPT !.here = h]
PutMissing(c, m) == [c EXCEPT !.missing = m]
PutPcKind(c, p, k) == [c EXCEPT !.pc = p, !.kind = k]
PutPcKindSnap(c, p, k, s) == [c EXCEPT !.pc = p, !.kind = k, !.snap = s]
PutSnapKind(c, s, k) == [c EXCEPT !.snap = s, !.kind = k]
PutSnapPc(c, s, p) == [c EXCEPT !.snap = s, !.pc = p]
PutSkipped(c, s, k) == [c EXCEPT !.snap = s, !.kind = k, !.kept = FALSE]
PutUnkept(c, p) == [c EXCEPT !.pc = p, !.kept = FALSE]
PutPcTodo(c, p, T) == [c EXCEPT !.pc = p, !.todo = T]
PutPcHere(c, p, h) == [c EXCEPT !.pc = p, !.here = h]
PutPcHereTodo(c, p, h, T) == [c EXCEPT !.pc = p, !.here = h, !.todo = T]
PutPcKindHere(c, p, k, h) == [c EXCEPT !.pc = p, !.kind = k, !.here = h]
PutTodoHere(c, T, h) == [c EXCEPT !.todo = T, !.here = h]
PutTodoMissing(c, T, m) == [c EXCEPT !.todo = T, !.missing = m]

LEMMA SetPc ==
    ASSUME NEW c \in ClerkRecs, NEW p \in ClerkPCs
    PROVE  LET d == PutPc(c, p)
           IN /\ GoesOnAs(c, d)
              /\ d.pc = p /\ d.kind = c.kind /\ d.snap = c.snap /\ d.todo = c.todo /\ d.here = c.here
              /\ d.missing = c.missing /\ d.kept = c.kept
BY DEF ClerkRecs, GoesOnAs, PutPc

LEMMA SetKind ==
    ASSUME NEW c \in ClerkRecs, NEW k \in 0..4
    PROVE  LET d == PutKind(c, k)
           IN /\ GoesOnAs(c, d)
              /\ d.kind = k /\ d.pc = c.pc /\ d.snap = c.snap /\ d.todo = c.todo /\ d.here = c.here
              /\ d.missing = c.missing /\ d.kept = c.kept
BY DEF ClerkRecs, GoesOnAs, PutKind

LEMMA SetSnap ==
    ASSUME NEW c \in ClerkRecs, NEW s \in Snaps
    PROVE  LET d == PutSnap(c, s)
           IN /\ GoesOnAs(c, d)
              /\ d.snap = s /\ d.pc = c.pc /\ d.kind = c.kind /\ d.todo = c.todo /\ d.here = c.here
              /\ d.missing = c.missing /\ d.kept = c.kept
BY DEF ClerkRecs, GoesOnAs, PutSnap

LEMMA SetTodo ==
    ASSUME NEW c \in ClerkRecs, NEW T \in SUBSET (Names \cup AllRows \cup SavedRows)
    PROVE  LET d == PutTodo(c, T)
           IN /\ GoesOnAs(c, d)
              /\ d.todo = T /\ d.pc = c.pc /\ d.kind = c.kind /\ d.snap = c.snap /\ d.here = c.here
              /\ d.missing = c.missing /\ d.kept = c.kept
BY DEF ClerkRecs, GoesOnAs, PutTodo

LEMMA SetHere ==
    ASSUME NEW c \in ClerkRecs, NEW h \in SUBSET Names
    PROVE  LET d == PutHere(c, h)
           IN /\ GoesOnAs(c, d)
              /\ d.here = h /\ d.pc = c.pc /\ d.kind = c.kind /\ d.snap = c.snap /\ d.todo = c.todo
              /\ d.missing = c.missing /\ d.kept = c.kept
BY DEF ClerkRecs, GoesOnAs, PutHere

LEMMA SetMissing ==
    ASSUME NEW c \in ClerkRecs, NEW m \in SUBSET SavedRows
    PROVE  LET d == PutMissing(c, m)
           IN /\ GoesOnAs(c, d)
              /\ d.missing = m /\ d.pc = c.pc /\ d.kind = c.kind /\ d.snap = c.snap /\ d.todo = c.todo
              /\ d.here = c.here /\ d.kept = c.kept
BY DEF ClerkRecs, GoesOnAs, PutMissing

LEMMA SetPcKind ==
    ASSUME NEW c \in ClerkRecs, NEW p \in ClerkPCs, NEW k \in 0..4
    PROVE  LET d == PutPcKind(c, p, k)
           IN /\ GoesOnAs(c, d)
              /\ d.pc = p /\ d.kind = k /\ d.snap = c.snap /\ d.todo = c.todo /\ d.here = c.here
              /\ d.missing = c.missing /\ d.kept = c.kept
<1>1. PutPcKind(c, p, k) = PutKind(PutPc(c, p), k)
  BY DEF PutPc, PutKind, PutPcKind
<1> QED BY <1>1, SetPc, SetKind DEF GoesOnAs

LEMMA SetPcKindSnap ==
    ASSUME NEW c \in ClerkRecs, NEW p \in ClerkPCs, NEW k \in 0..4, NEW s \in Snaps
    PROVE  LET d == PutPcKindSnap(c, p, k, s)
           IN /\ GoesOnAs(c, d)
              /\ d.pc = p /\ d.kind = k /\ d.snap = s /\ d.todo = c.todo /\ d.here = c.here
              /\ d.missing = c.missing /\ d.kept = c.kept
<1>1. PutPcKindSnap(c, p, k, s) = PutSnap(PutPcKind(c, p, k), s)
  BY DEF PutPcKind, PutSnap, PutPcKindSnap
<1> DEFINE e == PutPcKind(c, p, k)
<1>2. /\ GoesOnAs(c, e) /\ e \in ClerkRecs
      /\ e.pc = p /\ e.kind = k /\ e.snap = c.snap /\ e.todo = c.todo /\ e.here = c.here
      /\ e.missing = c.missing /\ e.kept = c.kept
  BY SetPcKind DEF GoesOnAs
<1> HIDE DEF e
<1> QED BY <1>1, <1>2, SetSnap DEF GoesOnAs, e

LEMMA SetSnapKind ==
    ASSUME NEW c \in ClerkRecs, NEW s \in Snaps, NEW k \in 0..4
    PROVE  LET d == PutSnapKind(c, s, k)
           IN /\ GoesOnAs(c, d)
              /\ d.snap = s /\ d.kind = k /\ d.pc = c.pc /\ d.todo = c.todo /\ d.here = c.here
              /\ d.missing = c.missing /\ d.kept = c.kept
<1>1. PutSnapKind(c, s, k) = PutKind(PutSnap(c, s), k)
  BY DEF PutSnap, PutKind, PutSnapKind
<1> QED BY <1>1, SetSnap, SetKind DEF GoesOnAs

LEMMA SetSnapPc ==
    ASSUME NEW c \in ClerkRecs, NEW s \in Snaps, NEW p \in ClerkPCs
    PROVE  LET d == PutSnapPc(c, s, p)
           IN /\ GoesOnAs(c, d)
              /\ d.snap = s /\ d.pc = p /\ d.kind = c.kind /\ d.todo = c.todo /\ d.here = c.here
              /\ d.missing = c.missing /\ d.kept = c.kept
<1>1. PutSnapPc(c, s, p) = PutPc(PutSnap(c, s), p)
  BY DEF PutSnap, PutPc, PutSnapPc
<1> QED BY <1>1, SetSnap, SetPc DEF GoesOnAs

LEMMA SetSkipped ==
    ASSUME NEW c \in ClerkRecs, NEW s \in Snaps, NEW k \in 0..4
    PROVE  /\ GoesOnAs(c, PutSkipped(c, s, k))
           /\ PutSkipped(c, s, k).snap = s /\ PutSkipped(c, s, k).kind = k
           /\ PutSkipped(c, s, k).pc = c.pc /\ PutSkipped(c, s, k).missing = c.missing
<1> DEFINE e == PutSnapKind(c, s, k)
<1>1. /\ GoesOnAs(c, e) /\ e.snap = s /\ e.kind = k /\ e.pc = c.pc /\ e.missing = c.missing
  BY SetSnapKind
<1>2. PutSkipped(c, s, k) = [e EXCEPT !.kept = FALSE]
  BY DEF PutSkipped, PutSnapKind
<1> HIDE DEF e
<1> QED BY <1>1, <1>2 DEF GoesOnAs, ClerkRecs

LEMMA SkippedUnkept ==
    ASSUME NEW c \in ClerkRecs, NEW s \in Snaps, NEW k \in 0..4
    PROVE  PutSkipped(c, s, k).kept = FALSE
BY DEF PutSkipped, ClerkRecs

LEMMA SetUnkept ==
    ASSUME NEW c \in ClerkRecs, NEW p \in ClerkPCs
    PROVE  LET d == PutUnkept(c, p)
           IN /\ GoesOnAs(c, d)
              /\ d.pc = p /\ d.kept = FALSE /\ d.kind = c.kind /\ d.snap = c.snap
              /\ d.todo = c.todo /\ d.here = c.here /\ d.missing = c.missing
BY DEF ClerkRecs, GoesOnAs, PutUnkept

LEMMA SetPcTodo ==
    ASSUME NEW c \in ClerkRecs, NEW p \in ClerkPCs, NEW T \in SUBSET (Names \cup AllRows \cup SavedRows)
    PROVE  LET d == PutPcTodo(c, p, T)
           IN /\ GoesOnAs(c, d)
              /\ d.pc = p /\ d.todo = T /\ d.kind = c.kind /\ d.snap = c.snap /\ d.here = c.here
              /\ d.missing = c.missing /\ d.kept = c.kept
<1>1. PutPcTodo(c, p, T) = PutTodo(PutPc(c, p), T)
  BY DEF PutPc, PutTodo, PutPcTodo
<1> QED BY <1>1, SetPc, SetTodo DEF GoesOnAs

LEMMA SetPcHere ==
    ASSUME NEW c \in ClerkRecs, NEW p \in ClerkPCs, NEW h \in SUBSET Names
    PROVE  LET d == PutPcHere(c, p, h)
           IN /\ GoesOnAs(c, d)
              /\ d.pc = p /\ d.here = h /\ d.kind = c.kind /\ d.snap = c.snap /\ d.todo = c.todo
              /\ d.missing = c.missing /\ d.kept = c.kept
<1>1. PutPcHere(c, p, h) = PutHere(PutPc(c, p), h)
  BY DEF PutPc, PutHere, PutPcHere
<1> QED BY <1>1, SetPc, SetHere DEF GoesOnAs

LEMMA SetPcHereTodo ==
    ASSUME NEW c \in ClerkRecs, NEW p \in ClerkPCs, NEW h \in SUBSET Names, NEW T \in SUBSET (Names \cup AllRows \cup SavedRows)
    PROVE  LET d == PutPcHereTodo(c, p, h, T)
           IN /\ GoesOnAs(c, d)
              /\ d.pc = p /\ d.here = h /\ d.todo = T /\ d.kind = c.kind /\ d.snap = c.snap
              /\ d.missing = c.missing /\ d.kept = c.kept
<1>1. PutPcHereTodo(c, p, h, T) = PutTodo(PutPcHere(c, p, h), T)
  BY DEF PutPcHere, PutTodo, PutPcHereTodo
<1> QED BY <1>1, SetPcHere, SetTodo DEF GoesOnAs

LEMMA SetPcKindHere ==
    ASSUME NEW c \in ClerkRecs, NEW p \in ClerkPCs, NEW k \in 0..4, NEW h \in SUBSET Names
    PROVE  LET d == PutPcKindHere(c, p, k, h)
           IN /\ GoesOnAs(c, d)
              /\ d.pc = p /\ d.kind = k /\ d.here = h /\ d.snap = c.snap /\ d.todo = c.todo
              /\ d.missing = c.missing /\ d.kept = c.kept
<1>1. PutPcKindHere(c, p, k, h) = PutHere(PutPcKind(c, p, k), h)
  BY DEF PutPcKind, PutHere, PutPcKindHere
<1> DEFINE e == PutPcKind(c, p, k)
<1>2. /\ GoesOnAs(c, e) /\ e \in ClerkRecs
      /\ e.pc = p /\ e.kind = k /\ e.snap = c.snap /\ e.todo = c.todo /\ e.here = c.here
      /\ e.missing = c.missing /\ e.kept = c.kept
  BY SetPcKind DEF GoesOnAs
<1> HIDE DEF e
<1> QED BY <1>1, <1>2, SetHere DEF GoesOnAs, e

LEMMA SetTodoHere ==
    ASSUME NEW c \in ClerkRecs, NEW T \in SUBSET (Names \cup AllRows \cup SavedRows), NEW h \in SUBSET Names
    PROVE  LET d == PutTodoHere(c, T, h)
           IN /\ GoesOnAs(c, d)
              /\ d.todo = T /\ d.here = h /\ d.pc = c.pc /\ d.kind = c.kind /\ d.snap = c.snap
              /\ d.missing = c.missing /\ d.kept = c.kept
<1>1. PutTodoHere(c, T, h) = PutHere(PutTodo(c, T), h)
  BY DEF PutTodo, PutHere, PutTodoHere
<1> QED BY <1>1, SetTodo, SetHere DEF GoesOnAs

LEMMA SetTodoMissing ==
    ASSUME NEW c \in ClerkRecs, NEW T \in SUBSET (Names \cup AllRows \cup SavedRows), NEW m \in SUBSET SavedRows
    PROVE  LET d == PutTodoMissing(c, T, m)
           IN /\ GoesOnAs(c, d)
              /\ d.todo = T /\ d.missing = m /\ d.pc = c.pc /\ d.kind = c.kind /\ d.snap = c.snap
              /\ d.here = c.here /\ d.kept = c.kept
<1>1. PutTodoMissing(c, T, m) = PutMissing(PutTodo(c, T), m)
  BY DEF PutTodo, PutMissing, PutTodoMissing
<1> QED BY <1>1, SetTodo, SetMissing DEF GoesOnAs

LEMMA AsksWell ==
    ASSUME VersionParts, NEW o \in Clerks, VersionsGrow, AskToSave(o) \/ AskToRollBack(o)
    PROVE  clerk'[o] \in ClerkRecs /\ ClerkFits(o)'
<1>0. NoClerk \in ClerkRecs /\ NoClerk.hired = {} /\ NoClerk.since = {} /\ NoClerk.op = "none"
  BY NothingIs DEF NoClerk
<1>1. CASE AskToSave(o)
  <2>1. clerk'[o] = [NoClerk EXCEPT !.pc = "agents", !.op = "save"]
    BY <1>1, Mine DEF AskToSave, VersionParts
  <2>2. clerk'[o] \in ClerkRecs /\ clerk'[o].pc = "agents" /\ clerk'[o].op = "save"
        /\ clerk'[o].hired = {} /\ clerk'[o].since = {}
    BY <1>0, <2>1 DEF ClerkRecs, ClerkPCs
  <2> QED BY <2>2 DEF ClerkFits, Restoring
<1>2. CASE AskToRollBack(o)
  <2>1. PICK n \in DOMAIN versions :
           clerk'[o] = [NoClerk EXCEPT !.pc = "agents", !.op = "rollback", !.want = versions[n]]
    BY <1>2, Mine DEF AskToRollBack, VersionParts
  <2>0. versions[n] \in Wholes
    BY ClerkIs
  <2>2. versions[n] \in Snaps /\ n \in DOMAIN versions' /\ versions'[n] = versions[n]
    BY <2>0 DEF Wholes, VersionsGrow
  <2>3. /\ clerk'[o] \in ClerkRecs /\ clerk'[o].pc = "agents" /\ clerk'[o].op = "rollback"
        /\ clerk'[o].hired = {} /\ clerk'[o].since = {} /\ clerk'[o].want = versions[n]
    BY <1>0, <2>1, <2>2 DEF ClerkRecs, ClerkPCs
  <2> QED BY <2>2, <2>3 DEF ClerkFits, Restoring
<1> QED BY <1>1, <1>2

\* The rows it takes down of a kind.
LEMMA TakenIs ==
    ASSUME VersionParts, NEW o \in Clerks, NEW n \in 1..4, NEW s \in Wholes
    PROVE  /\ [s EXCEPT !.rows = @ \cup Recordable(s, KindsKept[n])] \in Wholes
           /\ \A r \in rows : No(r) = n /\ r.owner \notin Names \ DOMAIN s.model =>
                 r \in Recordable(s, KindsKept[n]) \/ Stray(r)
<1>0. rows \subseteq AllRows /\ rows \subseteq RowRecs /\ s \in Snaps
  BY ClerkIs, RowsMade DEF RowsOK, Wholes
<1>1. ASSUME NEW q \in Recordable(s, KindsKept[n]) PROVE q \in SavedRows
  <2>1. PICK r \in rows : /\ q = NamedIn(s, r)
                          /\ r.kind = "wire" => r.owner \in DOMAIN s.model
                          /\ r.kind = "clock" => r.owner \in Names
    BY DEF Recordable, OfKind
  <2> QED BY <1>0, <2>1, NamedIs
<1>2. ASSUME NEW r \in rows, No(r) = n, r.owner \notin Names \ DOMAIN s.model
      PROVE  r \in Recordable(s, KindsKept[n]) \/ Stray(r)
  <2>1. r \in OfKind(rows, KindsKept[n]) /\ r.kind = KindsKept[n]
    BY <1>0, <1>2, OfKindIs DEF OfKind
  <2>2. CASE r.kind = "clock" /\ r.owner \notin Names
    BY <2>2 DEF Stray
  <2>3. CASE r.kind = "clock" => r.owner \in Names
    <3>1. r.kind = "wire" => r.owner \in DOMAIN s.model
      BY <1>0, <1>2, RowsAre, NamesApart DEF RowBelongs
    <3>2. NamedIn(s, r) = r
      BY <1>2 DEF NamedIn
    <3> QED BY <2>1, <2>3, <3>1, <3>2 DEF Recordable
  <2> QED BY <2>2, <2>3
<1>3. [s EXCEPT !.rows = @ \cup Recordable(s, KindsKept[n])] \in Wholes
  BY <1>0, <1>1 DEF Wholes, Snaps
<1> QED BY <1>2, <1>3

\* A version whose grants could not all be looked up goes on without them.
LEMMA SkipIs ==
    ASSUME VersionParts, NEW o \in Clerks, TakeSkips(o)
    PROVE  /\ clerk[o].pc = "taking" /\ clerk[o].kind = 2
           /\ \E s \in Wholes : \E k \in 1..4 : clerk'[o] = PutSkipped(clerk[o], s, k)
<1> DEFINE c == clerk[o]
<1>1. c \in ClerkRecs /\ c.pc = "taking" /\ c.kind \in 1..4 /\ c.snap \in Wholes
  BY ClerkIs DEF VersionParts, TakeSkips, ClerkAt, ClerkFits
<1>2. c.kind = 2
  BY <1>1 DEF TakeSkips, KindsKept
<1>3. PICK S \in SUBSET Recordable(c.snap, "gear") :
         Becomes(o, [c EXCEPT !.snap.rows = @ \cup S, !.kind = @ + 1, !.kept = FALSE])
  BY DEF TakeSkips
<1> DEFINE s == [c.snap EXCEPT !.rows = @ \cup S]
<1>4. s \in Wholes
  <2>1. [c.snap EXCEPT !.rows = @ \cup Recordable(c.snap, KindsKept[2])] \in Wholes
    BY <1>1, TakenIs
  <2>2. Recordable(c.snap, KindsKept[2]) = Recordable(c.snap, "gear")
    BY DEF KindsKept
  <2> QED BY <1>1, <1>3, <2>1, <2>2 DEF Wholes, Snaps
<1>5. clerk'[o] = [c EXCEPT !.snap.rows = @ \cup S, !.kind = @ + 1, !.kept = FALSE]
  BY <1>3, Mine DEF VersionParts
<1>6. clerk'[o] = PutSkipped(c, s, 3) /\ 3 \in 1..4
  BY <1>1, <1>2, <1>5 DEF PutSkipped, ClerkRecs
<1> QED BY <1>1, <1>2, <1>4, <1>6

LEMMA TakesWell ==
    ASSUME VersionParts, NEW o \in Clerks, VersionsGrow,
           TakeAgents(o) \/ TakeRows(o) \/ TakeSkips(o) \/ TakeFails(o) \/ Compare(o) \/ Keep(o)
    PROVE  clerk'[o] \in ClerkRecs /\ ClerkFits(o)'
<1>0. clerk[o] \in ClerkRecs /\ ClerkFits(o) /\ clerk \in [Clerks -> ClerkRecs] /\ ModelOK
  BY ClerkIs DEF VersionParts
<1>1. ASSUME clerk'[o].op = clerk[o].op, clerk'[o].want = clerk[o].want
      PROVE  clerk'[o].op = "rollback" => \E n \in DOMAIN versions' : clerk'[o].want = versions'[n]
  BY <1>1, WantedStill
<1>6. clerk[o].pc # "idle"
  BY DEF TakeAgents, TakeRows, TakeSkips, TakeFails, Compare, Keep, ClerkAt
<1>7. "taking" \in ClerkPCs /\ "comparing" \in ClerkPCs /\ "keeping" \in ClerkPCs /\ "listing agents" \in ClerkPCs
  BY DEF ClerkPCs, Restoring
<1>8. clerk[o] \in ClerkRecs
  BY <1>0
<1>2. CASE TakeAgents(o)
  <2> DEFINE t == [clerk[o].snap EXCEPT !.model = model]
  <2>1. clerk'[o] = [clerk[o] EXCEPT !.pc = "taking", !.kind = 1, !.snap.model = model]
    BY <1>0, <1>2, Mine DEF TakeAgents
  <2>2. t \in Wholes
    BY <1>0 DEF ClerkRecs, Wholes, Snaps, ModelOK
  <2>3. clerk'[o] = PutPcKindSnap(clerk[o], "taking", 1, t)
    BY <1>0, <2>1 DEF PutPcKindSnap
  <2> HIDE DEF t
  <2>4. /\ GoesOnAs(clerk[o], clerk'[o])
        /\ clerk'[o].pc \in {"taking", "comparing"} /\ clerk'[o].kind \in 1..4 /\ clerk'[o].snap = t
    <3>1. t \in Snaps /\ "taking" \in ClerkPCs /\ 1 \in 0..4
      BY <2>2 DEF Wholes, ClerkPCs
    <3>2. GoesOnAs(clerk[o], clerk'[o]) /\ clerk'[o].pc = "taking"
      BY <1>8, <2>3, <3>1, SetPcKindSnap
    <3>3. clerk'[o].kind = 1 /\ clerk'[o].snap = t
      BY <1>8, <2>3, <3>1, SetPcKindSnap
    <3> QED BY <3>2, <3>3
  <2> QED BY <1>0, <1>1, <1>6, <2>2, <2>4 DEF ClerkFits, Restoring, GoesOnAs
<1>3. CASE TakeRows(o)
  <2> DEFINE s == [clerk[o].snap EXCEPT !.rows = @ \cup Recordable(clerk[o].snap, KindsKept[clerk[o].kind])]
             k == clerk[o].kind
  <2>1. clerk'[o] = IF k < 4 THEN [clerk[o] EXCEPT !.snap = s, !.kind = k + 1]
                    ELSE [clerk[o] EXCEPT !.snap = s, !.pc = "comparing"]
    BY <1>0, <1>3, Mine, KindsAre DEF TakeRows
  <2>2. clerk[o].pc = "taking" /\ k \in 1..4 /\ clerk[o].snap \in Wholes
    BY <1>0, <1>3 DEF TakeRows, ClerkAt, ClerkFits
  <2>3. s \in Wholes
    BY <2>2, TakenIs
  <2> HIDE DEF s
  <2>4. clerk'[o] = IF k < 4 THEN PutSnapKind(clerk[o], s, k + 1) ELSE PutSnapPc(clerk[o], s, "comparing")
    BY <2>1 DEF PutSnapKind, PutSnapPc
  <2>5. /\ GoesOnAs(clerk[o], clerk'[o]) /\ clerk'[o].snap = s
        /\ clerk'[o].pc \in {"taking", "comparing"} /\ clerk'[o].kind \in 1..4
    <3>1. s \in Snaps
      BY <2>3 DEF Wholes
    <3>2. CASE k < 4
      <4>1. k + 1 \in 0..4 /\ clerk'[o] = PutSnapKind(clerk[o], s, k + 1)
        BY <2>2, <2>4, <3>2
      <4>2. GoesOnAs(clerk[o], clerk'[o]) /\ clerk'[o].snap = s /\ clerk'[o].pc = "taking" /\ clerk'[o].kind = k + 1
        BY <1>0, <2>2, <3>1, <4>1, SetSnapKind
      <4> QED BY <2>2, <3>2, <4>2
    <3>3. CASE ~(k < 4)
      BY <1>0, <2>2, <2>4, <3>1, <3>3, SetSnapPc DEF ClerkPCs
    <3> QED BY <3>2, <3>3
  <2> QED BY <1>0, <1>1, <1>6, <2>3, <2>5 DEF ClerkFits, Restoring, GoesOnAs
<1>4. CASE TakeFails(o)
  <2>1. \/ clerk'[o] = NoClerk
        \/ clerk[o].op # "save" /\ clerk'[o] = [clerk[o] EXCEPT !.pc = "listing agents", !.kept = FALSE]
    BY <1>0, <1>4, Mine DEF TakeFails
  <2>2. CASE clerk[o].op # "save" /\ clerk'[o] = [clerk[o] EXCEPT !.pc = "listing agents", !.kept = FALSE]
    <3>0. clerk'[o] = PutUnkept(clerk[o], "listing agents")
      BY <2>2 DEF PutUnkept
    <3>1. GoesOnAs(clerk[o], clerk'[o]) /\ clerk'[o].pc = "listing agents"
      BY ZenonT(40), <1>7, <1>8, <3>0, SetUnkept
    <3>2. clerk[o].op = "rollback"
      BY <1>0, <1>4, <2>2 DEF TakeFails, ClerkAt, ClerkRecs, ClerkFits
    <3> QED BY <1>0, <1>1, <3>1, <3>2 DEF ClerkFits, Restoring, GoesOnAs
  <2> QED BY <2>1, <2>2, Done
<1>5. CASE Compare(o) \/ Keep(o)
  <2>1. \/ clerk'[o] = NoClerk
        \/ clerk[o].op # "save" /\ clerk'[o] = [clerk[o] EXCEPT !.pc = "listing agents"]
        \/ clerk'[o] = [clerk[o] EXCEPT !.pc = "keeping"] /\ clerk[o].snap \in Wholes
    BY <1>0, <1>5, Mine DEF Compare, Keep, ClerkAt, ClerkFits
  <2>2. clerk[o].pc \in {"comparing", "keeping"}
    BY <1>5 DEF Compare, Keep, ClerkAt
  <2>3. CASE clerk[o].op # "save" /\ clerk'[o] = [clerk[o] EXCEPT !.pc = "listing agents"]
    <3>0. clerk'[o] = PutPc(clerk[o], "listing agents")
      BY <2>3 DEF PutPc
    <3>1. GoesOnAs(clerk[o], clerk'[o]) /\ clerk'[o].pc = "listing agents"
      BY ZenonT(40), <1>7, <1>8, <3>0, SetPc
    <3>2. clerk[o].op = "rollback"
      BY <1>0, <2>2, <2>3 DEF ClerkRecs, ClerkFits
    <3> QED BY <1>0, <1>1, <3>1, <3>2 DEF ClerkFits, Restoring, GoesOnAs
  <2>4. CASE clerk'[o] = [clerk[o] EXCEPT !.pc = "keeping"] /\ clerk[o].snap \in Wholes
    <3>0. clerk'[o] = PutPc(clerk[o], "keeping")
      BY <2>4 DEF PutPc
    <3>2. clerk'[o].snap = clerk[o].snap
      BY <1>8, <2>4 DEF ClerkRecs
    <3>1. GoesOnAs(clerk[o], clerk'[o]) /\ clerk'[o].pc = "keeping"
      BY ZenonT(40), <1>7, <1>8, <3>0, SetPc
    <3> QED BY <1>0, <1>1, <1>6, <2>4, <3>1, <3>2 DEF ClerkFits, Restoring, GoesOnAs
  <2> QED BY <2>1, <2>3, <2>4, Done
<1>9. CASE TakeSkips(o)
  <2>1. PICK s \in Wholes, k \in 1..4 : clerk'[o] = PutSkipped(clerk[o], s, k) /\ clerk[o].pc = "taking"
    BY <1>9, SkipIs
  <2>2. GoesOnAs(clerk[o], clerk'[o]) /\ clerk'[o].pc = "taking" /\ clerk'[o].kind \in 1..4 /\ clerk'[o].snap = s
    <3>1. s \in Snaps /\ k \in 0..4
      BY <2>1 DEF Wholes
    <3>2. GoesOnAs(clerk[o], clerk'[o]) /\ clerk'[o].pc = "taking"
      BY <1>8, <2>1, <3>1, SetSkipped
    <3>3. clerk'[o].kind = k /\ clerk'[o].snap = s
      BY <1>8, <2>1, <3>1, SetSkipped
    <3> QED BY <3>1, <3>2, <3>3
  <2> QED BY <1>0, <1>1, <1>6, <2>2 DEF ClerkFits, Restoring, GoesOnAs
<1> QED BY <1>2, <1>3, <1>4, <1>5, <1>9

------------------------------------------------------------------------------
(* The steps of a rollback.                                                *)

LEMMA RestoringIs ==
    ASSUME VersionParts, NEW o \in Clerks
    PROVE  /\ clerk[o].pc \in Restoring => clerk[o].op = "rollback"
           /\ clerk[o].pc \in {"listing", "dropping", "drawing"} => clerk[o].kind \in 1..4 /\ clerk[o].pc \in Restoring
           /\ \A p \in Restoring : p \in ClerkPCs
           /\ clerk[o].todo \in SUBSET (Names \cup AllRows \cup SavedRows) /\ clerk[o].here \in SUBSET Names
           /\ clerk[o].missing \in SUBSET SavedRows /\ clerk[o].kind \in 0..4
           /\ clerk[o].want.rows \subseteq SavedRows /\ rows \subseteq AllRows
           /\ rows \subseteq RowRecs /\ SavedRows \subseteq RowRecs
<1>1. ClerkFits(o) /\ clerk[o] \in ClerkRecs
  BY ClerkIs DEF VersionParts
<1>2. clerk[o].want \in Snaps /\ rows \subseteq AllRows
  BY ClerkIs DEF RowsOK
<1>3. clerk[o].want.rows \subseteq SavedRows
  BY <1>2 DEF Snaps
<1>4. rows \subseteq RowRecs /\ SavedRows \subseteq RowRecs
  BY <1>2, RowsMade
<1>5. /\ clerk[o].pc \in Restoring => clerk[o].op = "rollback"
      /\ clerk[o].pc \in {"listing", "dropping", "drawing"} => clerk[o].kind \in 1..4
  BY <1>1 DEF ClerkFits
<1>6. /\ clerk[o].pc \in {"listing", "dropping", "drawing"} => clerk[o].pc \in Restoring
      /\ \A p \in Restoring : p \in ClerkPCs
  BY DEF Restoring, ClerkPCs
<1>7. /\ clerk[o].todo \in SUBSET (Names \cup AllRows \cup SavedRows) /\ clerk[o].here \in SUBSET Names
      /\ clerk[o].missing \in SUBSET SavedRows /\ clerk[o].kind \in 0..4
  BY <1>1 DEF ClerkRecs
<1> QED BY <1>2, <1>3, <1>4, <1>5, <1>6, <1>7

LEMMA ListAgentsIs ==
    ASSUME VersionParts, NEW o \in Clerks, ListAgents(o)
    PROVE  /\ clerk[o].pc = "listing agents" /\ GoesOnAs(clerk[o], clerk'[o])
           /\ clerk'[o].pc = "removing" /\ clerk'[o].here = DOMAIN model
           /\ clerk'[o].todo = DOMAIN model \ (DOMAIN clerk[o].want.model \cup {Orchestrator})
           /\ clerk'[o].missing = clerk[o].missing
           /\ clerk'[o].kept = clerk[o].kept
<1> DEFINE T == DOMAIN model \ (DOMAIN clerk[o].want.model \cup {Orchestrator})
<1>1. clerk[o] \in ClerkRecs /\ DOMAIN model \in SUBSET Names /\ Wanted(o) = clerk[o].want
  BY ClerkIs
<1>2. T \in SUBSET (Names \cup AllRows \cup SavedRows) /\ "removing" \in ClerkPCs
  BY <1>1 DEF ClerkPCs, Restoring
<1>3. clerk'[o] = PutPcHereTodo(clerk[o], "removing", DOMAIN model, T)
  BY <1>1, Mine DEF ListAgents, VersionParts, PutPcHereTodo
<1>4. clerk[o].pc = "listing agents"
  BY DEF ListAgents, ClerkAt
<1> HIDE DEF T
<1>5. GoesOnAs(clerk[o], clerk'[o]) /\ clerk'[o].pc = "removing" /\ clerk'[o].here = DOMAIN model
  BY <1>1, <1>2, <1>3, SetPcHereTodo
<1>6. clerk'[o].todo = T /\ clerk'[o].missing = clerk[o].missing
  BY <1>1, <1>2, <1>3, SetPcHereTodo
<1>7. clerk'[o].kept = clerk[o].kept
  BY <1>1, <1>2, <1>3, SetPcHereTodo
<1> QED BY <1>4, <1>5, <1>6, <1>7 DEF T

LEMMA RemoveOneIs ==
    ASSUME VersionParts, NEW o \in Clerks, RemoveOne(o), clerk'[o] # NoClerk
    PROVE  LET a == OneOf(clerk[o].todo)
           IN /\ clerk[o].pc = "removing" /\ GoesOnAs(clerk[o], clerk'[o]) /\ clerk'[o].pc = clerk[o].pc
              /\ a \in DOMAIN model /\ a \in clerk[o].todo
              /\ model' = Less(model, {a}) /\ rows' = RowsWithout(a)
              /\ clerk'[o].todo = clerk[o].todo \ {a} /\ clerk'[o].here = clerk[o].here \ {a}
              /\ clerk'[o].missing = clerk[o].missing
              /\ clerk'[o].kept = clerk[o].kept
<1> DEFINE a == OneOf(clerk[o].todo)  T == clerk[o].todo \ {a}  h == clerk[o].here \ {a}
<1>1. clerk[o] \in ClerkRecs /\ clerk \in [Clerks -> ClerkRecs]
  BY ClerkIs DEF VersionParts
<1>2. /\ a \in DOMAIN model /\ model' = Less(model, {a}) /\ rows' = RowsWithout(a)
      /\ Writes(o, {}, {}, PutTodoHere(clerk[o], T, h))
  BY <1>1, Mine DEF RemoveOne, PutTodoHere
<1>3. clerk[o].pc = "removing" /\ a \in clerk[o].todo
  BY OneIs DEF RemoveOne, ClerkAt
<1> HIDE DEF a
<1>4. T \in SUBSET (Names \cup AllRows \cup SavedRows) /\ h \in SUBSET Names
  BY RestoringIs
<1>5. clerk'[o] = PutTodoHere(clerk[o], T, h)
  BY <1>1, <1>2, Mine
<1> HIDE DEF T, h
<1>6. GoesOnAs(clerk[o], clerk'[o]) /\ clerk'[o].pc = clerk[o].pc
  BY <1>1, <1>4, <1>5, SetTodoHere
<1>7. clerk'[o].todo = T /\ clerk'[o].here = h
  BY <1>1, <1>4, <1>5, SetTodoHere
<1>8. clerk'[o].missing = clerk[o].missing
  BY <1>1, <1>4, <1>5, SetTodoHere
<1>9. clerk'[o].kept = clerk[o].kept
  BY <1>1, <1>4, <1>5, SetTodoHere
<1> QED BY <1>2, <1>3, <1>6, <1>7, <1>8, <1>9 DEF T, h, a

LEMMA RemovedAllIs ==
    ASSUME VersionParts, NEW o \in Clerks, RemovedAll(o)
    PROVE  /\ clerk[o].pc = "removing" /\ GoesOnAs(clerk[o], clerk'[o]) /\ clerk[o].todo = {}
           /\ clerk'[o].pc = "making" /\ clerk'[o].here = clerk[o].here
           /\ clerk'[o].todo = DOMAIN clerk[o].want.model
           /\ clerk'[o].missing = clerk[o].missing
           /\ clerk'[o].kept = clerk[o].kept
<1> DEFINE T == DOMAIN clerk[o].want.model
<1>1. clerk[o] \in ClerkRecs /\ Wanted(o) = clerk[o].want /\ T \subseteq Names
  BY ClerkIs
<1>2. T \in SUBSET (Names \cup AllRows \cup SavedRows) /\ "making" \in ClerkPCs
  BY <1>1 DEF ClerkPCs, Restoring
<1>3. clerk'[o] = PutPcTodo(clerk[o], "making", T)
  BY <1>1, Mine DEF RemovedAll, VersionParts, PutPcTodo
<1>4. clerk[o].pc = "removing" /\ clerk[o].todo = {}
  BY DEF RemovedAll, ClerkAt
<1> HIDE DEF T
<1>5. GoesOnAs(clerk[o], clerk'[o]) /\ clerk'[o].pc = "making" /\ clerk'[o].here = clerk[o].here
  BY <1>1, <1>2, <1>3, SetPcTodo
<1>6. clerk'[o].todo = T /\ clerk'[o].missing = clerk[o].missing
  BY <1>1, <1>2, <1>3, SetPcTodo
<1>7. clerk'[o].kept = clerk[o].kept
  BY <1>1, <1>2, <1>3, SetPcTodo
<1> QED BY <1>4, <1>5, <1>6, <1>7 DEF T

LEMMA MakeOneIs ==
    ASSUME VersionParts, NEW o \in Clerks, MakeOne(o), clerk'[o] # NoClerk
    PROVE  LET a == OneOf(clerk[o].todo)
               m == clerk[o].want.model[a]
           IN /\ clerk[o].pc = "making" /\ GoesOnAs(clerk[o], clerk'[o]) /\ clerk'[o].pc = clerk[o].pc
              /\ a \in clerk[o].todo /\ a \in DOMAIN clerk[o].want.model
              /\ \/ /\ a \in clerk[o].here /\ a \in DOMAIN model
                    /\ model' = [model EXCEPT ![a] = IF m = "none" THEN @ ELSE m]
                 \/ /\ a \notin DOMAIN model /\ model' = With(model, a, m)
              /\ clerk'[o].todo = clerk[o].todo \ {a} /\ clerk'[o].here = clerk[o].here \cup {a}
              /\ clerk'[o].missing = clerk[o].missing
              /\ clerk'[o].kept = clerk[o].kept
<1> DEFINE a == OneOf(clerk[o].todo)  T == clerk[o].todo \ {a}  h == clerk[o].here \cup {a}
           m == clerk[o].want.model[a]
<1>1. clerk[o] \in ClerkRecs /\ clerk \in [Clerks -> ClerkRecs] /\ Wanted(o) = clerk[o].want
  BY ClerkIs DEF VersionParts
<1>2. /\ \/ /\ a \in clerk[o].here /\ a \in DOMAIN model
            /\ model' = [model EXCEPT ![a] = IF m = "none" THEN @ ELSE m]
         \/ /\ a \notin DOMAIN model /\ model' = With(model, a, m)
      /\ \E S : Writes(o, S, {}, PutTodoHere(clerk[o], T, h))
  BY <1>1, Mine DEF MakeOne, PutTodoHere
<1>3. clerk[o].pc = "making" /\ a \in clerk[o].todo
  BY OneIs DEF MakeOne, ClerkAt
<1>4. a \in DOMAIN clerk[o].want.model /\ a \in Names
  BY EditFacts, ClerkIs
<1> HIDE DEF a
<1>5. T \in SUBSET (Names \cup AllRows \cup SavedRows) /\ h \in SUBSET Names
  BY <1>4, RestoringIs
<1>6. clerk'[o] = PutTodoHere(clerk[o], T, h)
  BY <1>1, <1>2, Mine
<1> HIDE DEF T, h, m
<1>7. GoesOnAs(clerk[o], clerk'[o]) /\ clerk'[o].pc = clerk[o].pc
  BY <1>1, <1>5, <1>6, SetTodoHere
<1>8. clerk'[o].todo = T /\ clerk'[o].here = h
  BY <1>1, <1>5, <1>6, SetTodoHere
<1>9. clerk'[o].missing = clerk[o].missing
  BY <1>1, <1>5, <1>6, SetTodoHere
<1>10. clerk'[o].kept = clerk[o].kept
  BY <1>1, <1>5, <1>6, SetTodoHere
<1> QED BY <1>2, <1>3, <1>4, <1>7, <1>8, <1>9, <1>10 DEF T, h, a, m

LEMMA MadeAllIs ==
    ASSUME VersionParts, NEW o \in Clerks, MadeAll(o)
    PROVE  /\ clerk[o].pc = "making" /\ GoesOnAs(clerk[o], clerk'[o]) /\ clerk[o].todo = {}
           /\ clerk'[o].pc = "listing" /\ clerk'[o].kind = 1
           /\ clerk'[o].missing = clerk[o].missing
           /\ clerk'[o].kept = clerk[o].kept
<1> DEFINE h == DOMAIN clerk[o].want.model
<1>1. clerk[o] \in ClerkRecs /\ Wanted(o) = clerk[o].want /\ h \in SUBSET Names
  BY ClerkIs
<1>2. "listing" \in ClerkPCs /\ 1 \in 0..4
  BY DEF ClerkPCs, Restoring
<1>3. clerk'[o] = PutPcKindHere(clerk[o], "listing", 1, h)
  BY <1>1, Mine DEF MadeAll, VersionParts, PutPcKindHere
<1>4. clerk[o].pc = "making" /\ clerk[o].todo = {}
  BY DEF MadeAll, ClerkAt
<1> HIDE DEF h
<1>5. GoesOnAs(clerk[o], clerk'[o]) /\ clerk'[o].pc = "listing"
  BY <1>1, <1>2, <1>3, SetPcKindHere
<1>6. clerk'[o].kind = 1 /\ clerk'[o].missing = clerk[o].missing
  BY <1>1, <1>2, <1>3, SetPcKindHere
<1>7. clerk'[o].kept = clerk[o].kept
  BY <1>1, <1>2, <1>3, SetPcKindHere
<1> QED BY <1>4, <1>5, <1>6, <1>7

LEMMA ListRowsIs ==
    ASSUME VersionParts, NEW o \in Clerks, ListRows(o)
    PROVE  /\ clerk[o].pc = "listing" /\ GoesOnAs(clerk[o], clerk'[o])
           /\ clerk'[o].pc = "dropping" /\ clerk'[o].kind = clerk[o].kind
           /\ clerk'[o].todo = {r \in rows : No(r) = clerk[o].kind}
           /\ clerk'[o].missing = clerk[o].missing
           /\ clerk'[o].kept = clerk[o].kept
<1> DEFINE T == {r \in rows : No(r) = clerk[o].kind}
<1>1. clerk[o] \in ClerkRecs /\ clerk[o].pc = "listing"
  BY ClerkIs DEF ListRows, ClerkAt
<1>2. T \in SUBSET (Names \cup AllRows \cup SavedRows) /\ "dropping" \in ClerkPCs
  BY RestoringIs DEF Restoring
<1>3. OfKind(rows, KindsKept[clerk[o].kind]) = T
  BY <1>1, RestoringIs, OfKindIs
<1>4. clerk'[o] = PutPcTodo(clerk[o], "dropping", T)
  BY <1>1, <1>3, Mine DEF ListRows, VersionParts, PutPcTodo
<1> HIDE DEF T
<1>5. GoesOnAs(clerk[o], clerk'[o]) /\ clerk'[o].pc = "dropping" /\ clerk'[o].kind = clerk[o].kind
  BY <1>1, <1>2, <1>4, SetPcTodo
<1>6. clerk'[o].todo = T /\ clerk'[o].missing = clerk[o].missing
  BY <1>1, <1>2, <1>4, SetPcTodo
<1>7. clerk'[o].kept = clerk[o].kept
  BY <1>1, <1>2, <1>4, SetPcTodo
<1> QED BY <1>1, <1>5, <1>6, <1>7 DEF T

LEMMA DropOneIs ==
    ASSUME VersionParts, NEW o \in Clerks, DropOne(o), clerk'[o] # NoClerk
    PROVE  LET r == OneOf(clerk[o].todo)
           IN /\ clerk[o].pc = "dropping" /\ GoesOnAs(clerk[o], clerk'[o]) /\ clerk'[o].pc = clerk[o].pc
              /\ clerk'[o].kind = clerk[o].kind
              /\ r \in clerk[o].todo /\ rows' = rows \ {q \in rows : Key(q) = Key(r)}
              /\ clerk'[o].todo = clerk[o].todo \ {r}
              /\ clerk'[o].missing = clerk[o].missing
              /\ clerk'[o].kept = clerk[o].kept
<1> DEFINE r == OneOf(clerk[o].todo)  T == clerk[o].todo \ {r}
<1>1. clerk[o] \in ClerkRecs /\ clerk \in [Clerks -> ClerkRecs]
  BY ClerkIs DEF VersionParts
<1>2. rows' = rows \ {q \in rows : Key(q) = Key(r)} /\ Writes(o, {}, {}, PutTodo(clerk[o], T))
  BY <1>1, Mine DEF DropOne, PutTodo
<1>3. clerk[o].pc = "dropping" /\ r \in clerk[o].todo
  BY OneIs DEF DropOne, ClerkAt
<1> HIDE DEF r
<1>4. T \in SUBSET (Names \cup AllRows \cup SavedRows)
  BY RestoringIs
<1>5. clerk'[o] = PutTodo(clerk[o], T)
  BY <1>1, <1>2, Mine
<1> HIDE DEF T
<1>6. GoesOnAs(clerk[o], clerk'[o]) /\ clerk'[o].pc = clerk[o].pc /\ clerk'[o].kind = clerk[o].kind
  BY <1>1, <1>4, <1>5, SetTodo
<1>7. clerk'[o].todo = T /\ clerk'[o].missing = clerk[o].missing
  BY <1>1, <1>4, <1>5, SetTodo
<1>8. clerk'[o].kept = clerk[o].kept
  BY <1>1, <1>4, <1>5, SetTodo
<1> QED BY <1>2, <1>3, <1>6, <1>7, <1>8 DEF T, r

LEMMA DroppedAllIs ==
    ASSUME VersionParts, NEW o \in Clerks, DroppedAll(o)
    PROVE  /\ clerk[o].pc = "dropping" /\ GoesOnAs(clerk[o], clerk'[o]) /\ clerk[o].todo = {}
           /\ clerk'[o].pc = "drawing" /\ clerk'[o].kind = clerk[o].kind
           /\ clerk'[o].todo = {r \in clerk[o].want.rows : No(r) = clerk[o].kind}
           /\ clerk'[o].missing = clerk[o].missing
           /\ clerk'[o].kept = clerk[o].kept
<1> DEFINE T == {r \in clerk[o].want.rows : No(r) = clerk[o].kind}
<1>1. clerk[o] \in ClerkRecs /\ clerk[o].pc = "dropping" /\ clerk[o].todo = {} /\ Wanted(o) = clerk[o].want
  BY ClerkIs DEF DroppedAll, ClerkAt
<1>2. T \in SUBSET (Names \cup AllRows \cup SavedRows) /\ "drawing" \in ClerkPCs
  BY RestoringIs DEF Restoring
<1>3. OfKind(clerk[o].want.rows, KindsKept[clerk[o].kind]) = T
  <2>1. clerk[o].want.rows \in SUBSET RowRecs /\ clerk[o].kind \in 1..4
    BY <1>1, RestoringIs
  <2> QED BY <2>1, OfKindIs
<1>4. clerk'[o] = PutPcTodo(clerk[o], "drawing", T)
  BY <1>1, <1>3, Mine DEF DroppedAll, VersionParts, PutPcTodo
<1> HIDE DEF T
<1>5. GoesOnAs(clerk[o], clerk'[o]) /\ clerk'[o].pc = "drawing" /\ clerk'[o].kind = clerk[o].kind
  BY <1>1, <1>2, <1>4, SetPcTodo
<1>6. clerk'[o].todo = T /\ clerk'[o].missing = clerk[o].missing
  BY <1>1, <1>2, <1>4, SetPcTodo
<1>7. clerk'[o].kept = clerk[o].kept
  BY <1>1, <1>2, <1>4, SetPcTodo
<1> QED BY <1>1, <1>5, <1>6, <1>7 DEF T

LEMMA DrawOneIs ==
    ASSUME VersionParts, NEW o \in Clerks, DrawOne(o), clerk'[o] # NoClerk
    PROVE  LET r == OneOf(clerk[o].todo)
           IN /\ clerk[o].pc = "drawing" /\ GoesOnAs(clerk[o], clerk'[o]) /\ clerk'[o].pc = clerk[o].pc
              /\ clerk'[o].kind = clerk[o].kind /\ clerk'[o].kept = clerk[o].kept
              /\ r \in clerk[o].todo /\ r \in SavedRows /\ No(r) = clerk[o].kind
              /\ clerk'[o].todo = clerk[o].todo \ {r}
              /\ \/ UNCHANGED rows /\ clerk'[o].missing = clerk[o].missing \cup {r}
                 \/ /\ rows' = rows \cup {Drawn(r)} /\ No(Drawn(r)) = No(r)
                    /\ clerk'[o].missing = clerk[o].missing
<1> DEFINE r == OneOf(clerk[o].todo)  T == clerk[o].todo \ {r}  m == clerk[o].missing \cup {r}
<1>1. clerk[o] \in ClerkRecs /\ clerk \in [Clerks -> ClerkRecs]
  BY ClerkIs DEF VersionParts
<1>2. clerk[o].pc = "drawing" /\ r \in clerk[o].todo
  BY OneIs DEF DrawOne, ClerkAt
<1>3. r \in SavedRows /\ No(r) = clerk[o].kind
  BY EditFacts
<1>4. \/ UNCHANGED rows /\ Becomes(o, PutTodoMissing(clerk[o], T, m))
      \/ ~Unknown(o, r) /\ rows' = rows \cup {Drawn(r)} /\ Writes(o, {}, {Drawn(r)}, PutTodo(clerk[o], T))
  <2>1. PutTodoMissing(clerk[o], T, m) = [[clerk[o] EXCEPT !.todo = @ \ {r}] EXCEPT !.missing = @ \cup {r}]
    BY <1>1 DEF PutTodoMissing, ClerkRecs
  <2>2. PutTodo(clerk[o], T) = [clerk[o] EXCEPT !.todo = @ \ {r}]
    BY DEF PutTodo
  <2> DEFINE next == [clerk[o] EXCEPT !.todo = @ \ {r}]  given == [next EXCEPT !.missing = @ \cup {r}]
  <2>3. \/ UNCHANGED rows /\ (Becomes(o, given) \/ StopClerk(o))
        \/ ~Unknown(o, r) /\ rows' = rows \cup {Drawn(r)} /\ Writes(o, {}, {Drawn(r)}, next)
    BY DEF DrawOne
  <2>4. ~StopClerk(o)
    BY <1>1, Mine
  <2> QED BY <2>1, <2>2, <2>3, <2>4
<1> HIDE DEF r
<1>5. T \in SUBSET (Names \cup AllRows \cup SavedRows) /\ m \in SUBSET SavedRows
  BY <1>3, RestoringIs
<1>6. \/ UNCHANGED rows /\ clerk'[o] = PutTodoMissing(clerk[o], T, m)
      \/ ~Unknown(o, r) /\ rows' = rows \cup {Drawn(r)} /\ clerk'[o] = PutTodo(clerk[o], T)
  BY <1>1, <1>4, Mine
<1> HIDE DEF T, m
<1>7. CASE UNCHANGED rows /\ clerk'[o] = PutTodoMissing(clerk[o], T, m)
  <2>1. GoesOnAs(clerk[o], clerk'[o]) /\ clerk'[o].pc = clerk[o].pc /\ clerk'[o].kind = clerk[o].kind
    BY <1>1, <1>5, <1>7, SetTodoMissing
  <2>2. clerk'[o].todo = T /\ clerk'[o].missing = m
    BY <1>1, <1>5, <1>7, SetTodoMissing
  <2>3. clerk'[o].kept = clerk[o].kept
    BY <1>1, <1>5, <1>7, SetTodoMissing
  <2> QED BY <1>2, <1>3, <1>7, <2>1, <2>2, <2>3 DEF T, m, r
<1>8. CASE ~Unknown(o, r) /\ rows' = rows \cup {Drawn(r)} /\ clerk'[o] = PutTodo(clerk[o], T)
  <2>1. GoesOnAs(clerk[o], clerk'[o]) /\ clerk'[o].pc = clerk[o].pc /\ clerk'[o].kind = clerk[o].kind
    BY <1>1, <1>5, <1>8, SetTodo
  <2>2. clerk'[o].todo = T /\ clerk'[o].missing = clerk[o].missing
    BY <1>1, <1>5, <1>8, SetTodo
  <2>3. clerk'[o].kept = clerk[o].kept
    BY <1>1, <1>5, <1>8, SetTodo
  <2>4. No(Drawn(r)) = No(r)
    BY <1>8, DrawnFits DEF r
  <2> QED BY <1>2, <1>3, <1>8, <2>1, <2>2, <2>3, <2>4 DEF T, r
<1> QED BY <1>6, <1>7, <1>8

LEMMA DrawnAllIs ==
    ASSUME VersionParts, NEW o \in Clerks, DrawnAll(o)
    PROVE  /\ clerk[o].pc = "drawing" /\ GoesOnAs(clerk[o], clerk'[o]) /\ clerk[o].todo = {}
           /\ \/ clerk[o].kind < 4 /\ clerk'[o].pc = "listing" /\ clerk'[o].kind = clerk[o].kind + 1
              \/ clerk[o].kind = 4 /\ clerk'[o].pc = "noting"
           /\ clerk'[o].missing = clerk[o].missing
           /\ clerk'[o].kept = clerk[o].kept
<1> DEFINE k == clerk[o].kind
<1>1. clerk[o] \in ClerkRecs /\ clerk[o].pc = "drawing" /\ clerk[o].todo = {}
  BY ClerkIs DEF DrawnAll, ClerkAt
<1>2. "listing" \in ClerkPCs /\ "noting" \in ClerkPCs /\ k \in 1..4
  BY <1>1, RestoringIs DEF Restoring
<1>3. clerk'[o] = IF k < 4 THEN PutPcKind(clerk[o], "listing", k + 1) ELSE PutPc(clerk[o], "noting")
  BY <1>1, Mine, KindsAre DEF DrawnAll, VersionParts, PutPcKind, PutPc
<1>4. CASE k < 4
  <2>1. k + 1 \in 0..4 /\ clerk'[o] = PutPcKind(clerk[o], "listing", k + 1)
    BY <1>2, <1>3, <1>4
  <2>2. GoesOnAs(clerk[o], clerk'[o]) /\ clerk'[o].pc = "listing" /\ clerk'[o].kind = k + 1
    BY <1>1, <1>2, <2>1, SetPcKind
  <2>3. clerk'[o].missing = clerk[o].missing
    BY <1>1, <1>2, <2>1, SetPcKind
  <2>4. clerk'[o].kept = clerk[o].kept
    BY <1>1, <1>2, <2>1, SetPcKind
  <2> QED BY <1>1, <1>4, <2>2, <2>3, <2>4
<1>5. CASE ~(k < 4)
  <2>1. k = 4 /\ clerk'[o] = PutPc(clerk[o], "noting")
    BY <1>2, <1>3, <1>5
  <2>2. GoesOnAs(clerk[o], clerk'[o]) /\ clerk'[o].pc = "noting"
    BY <1>1, <1>2, <2>1, SetPc
  <2>3. clerk'[o].missing = clerk[o].missing
    BY <1>1, <1>2, <2>1, SetPc
  <2>4. clerk'[o].kept = clerk[o].kept
    BY <1>1, <1>2, <2>1, SetPc
  <2> QED BY <1>1, <2>1, <2>2, <2>3, <2>4
<1> QED BY <1>4, <1>5

Restores(o) ==
    \/ ListAgents(o) \/ RemoveOne(o) \/ RemovedAll(o) \/ MakeOne(o) \/ MadeAll(o) \/ ListRows(o)
    \/ DropOne(o) \/ DroppedAll(o) \/ DrawOne(o) \/ DrawnAll(o)

LEMMA RestoresWell ==
    ASSUME VersionParts, NEW o \in Clerks, VersionsGrow, Restores(o)
    PROVE  clerk'[o] \in ClerkRecs /\ ClerkFits(o)'
<1>0. ClerkFits(o) /\ clerk[o] \in ClerkRecs /\ rows \subseteq AllRows /\ DOMAIN model \subseteq Names
  BY ClerkIs, RestoringIs DEF VersionParts
<1>1. ASSUME GoesOnAs(clerk[o], clerk'[o]), clerk[o].pc \in Restoring
      PROVE  /\ clerk'[o] \in ClerkRecs /\ clerk'[o].op = "rollback" /\ clerk'[o].want = clerk[o].want
             /\ \E n \in DOMAIN versions' : clerk'[o].want = versions'[n]
             /\ clerk'[o].alone = TRUE => clerk'[o].hired = {} /\ clerk'[o].since = {}
  <2>1. clerk'[o].op = "rollback"
    BY <1>1, RestoringIs DEF GoesOnAs
  <2> QED BY <1>0, <1>1, <2>1, WantedStill DEF GoesOnAs, ClerkFits
<1>2. ASSUME clerk'[o].pc \in Restoring, GoesOnAs(clerk[o], clerk'[o]), clerk[o].pc \in Restoring,
             clerk'[o].pc \in {"listing", "dropping", "drawing"} => clerk'[o].kind \in 1..4,
             clerk'[o].pc = "removing" => clerk'[o].todo \subseteq Names \ {Orchestrator},
             clerk'[o].pc = "making"   => clerk'[o].todo \subseteq DOMAIN clerk[o].want.model,
             clerk'[o].pc = "dropping" => clerk'[o].todo \subseteq {r \in AllRows : No(r) = clerk'[o].kind},
             clerk'[o].pc = "drawing"  => clerk'[o].todo \subseteq {r \in clerk[o].want.rows : No(r) = clerk'[o].kind}
      PROVE  clerk'[o] \in ClerkRecs /\ ClerkFits(o)'
  <2>1. clerk'[o].pc \notin {"taking", "comparing", "keeping", "idle"}
    BY <1>2 DEF Restoring
  <2> QED BY <1>1, <1>2, <2>1 DEF ClerkFits
<1> DEFINE c == clerk[o]
<1>3. /\ c.pc = "removing" => c.todo \subseteq Names \ {Orchestrator}
      /\ c.pc = "making"   => c.todo \subseteq DOMAIN c.want.model
      /\ c.pc = "dropping" => c.todo \subseteq {r \in AllRows : No(r) = c.kind}
      /\ c.pc = "drawing"  => c.todo \subseteq {r \in c.want.rows : No(r) = c.kind}
  BY <1>0 DEF ClerkFits
<1>4. c.pc \in {"listing", "dropping", "drawing"} => c.kind \in 1..4
  BY RestoringIs
<1>5. {"listing agents", "removing", "making", "listing", "dropping", "drawing", "noting"} \subseteq Restoring
  BY DEF Restoring
<1>6. CASE clerk'[o] = NoClerk
  BY <1>6, Done
<1>7. CASE ListAgents(o)
  <2>1. /\ c.pc = "listing agents" /\ GoesOnAs(c, clerk'[o]) /\ clerk'[o].pc = "removing"
        /\ clerk'[o].todo = DOMAIN model \ (DOMAIN c.want.model \cup {Orchestrator})
    BY <1>7, ListAgentsIs
  <2> QED BY <1>0, <1>2, <1>5, <2>1
<1>8. CASE RemoveOne(o) /\ clerk'[o] # NoClerk
  <2>1. /\ c.pc = "removing" /\ GoesOnAs(c, clerk'[o]) /\ clerk'[o].pc = "removing"
        /\ clerk'[o].todo \subseteq c.todo
    BY <1>8, RemoveOneIs
  <2> QED BY <1>2, <1>3, <1>5, <2>1
<1>9. CASE RemovedAll(o)
  <2>1. /\ c.pc = "removing" /\ GoesOnAs(c, clerk'[o]) /\ clerk'[o].pc = "making"
        /\ clerk'[o].todo = DOMAIN c.want.model
    BY <1>9, RemovedAllIs
  <2> QED BY <1>2, <1>5, <2>1
<1>10. CASE MakeOne(o) /\ clerk'[o] # NoClerk
  <2>1. /\ c.pc = "making" /\ GoesOnAs(c, clerk'[o]) /\ clerk'[o].pc = "making"
        /\ clerk'[o].todo \subseteq c.todo
    BY <1>10, MakeOneIs
  <2> QED BY <1>2, <1>3, <1>5, <2>1
<1>11. CASE MadeAll(o)
  <2>1. c.pc = "making" /\ GoesOnAs(c, clerk'[o]) /\ clerk'[o].pc = "listing" /\ clerk'[o].kind \in 1..4
    BY <1>11, MadeAllIs
  <2> QED BY <1>2, <1>5, <2>1
<1>12. CASE ListRows(o)
  <2>1. /\ c.pc = "listing" /\ GoesOnAs(c, clerk'[o]) /\ clerk'[o].pc = "dropping" /\ clerk'[o].kind = c.kind
        /\ clerk'[o].todo = {r \in rows : No(r) = c.kind}
    BY <1>12, ListRowsIs
  <2> QED BY <1>0, <1>2, <1>4, <1>5, <2>1
<1>13. CASE DropOne(o) /\ clerk'[o] # NoClerk
  <2>1. /\ c.pc = "dropping" /\ GoesOnAs(c, clerk'[o]) /\ clerk'[o].pc = "dropping" /\ clerk'[o].kind = c.kind
        /\ clerk'[o].todo \subseteq c.todo
    BY <1>13, DropOneIs
  <2> QED BY <1>2, <1>3, <1>4, <1>5, <2>1
<1>14. CASE DroppedAll(o)
  <2>1. /\ c.pc = "dropping" /\ GoesOnAs(c, clerk'[o]) /\ clerk'[o].pc = "drawing" /\ clerk'[o].kind = c.kind
        /\ clerk'[o].todo = {r \in c.want.rows : No(r) = c.kind}
    BY <1>14, DroppedAllIs
  <2> QED BY <1>2, <1>4, <1>5, <2>1
<1>15. CASE DrawOne(o) /\ clerk'[o] # NoClerk
  <2>1. /\ c.pc = "drawing" /\ GoesOnAs(c, clerk'[o]) /\ clerk'[o].pc = "drawing" /\ clerk'[o].kind = c.kind
        /\ clerk'[o].todo \subseteq c.todo
    BY <1>15, DrawOneIs
  <2> QED BY <1>2, <1>3, <1>4, <1>5, <2>1
<1>16. CASE DrawnAll(o)
  <2>1. /\ c.pc = "drawing" /\ GoesOnAs(c, clerk'[o])
        /\ \/ c.kind < 4 /\ clerk'[o].pc = "listing" /\ clerk'[o].kind = c.kind + 1
           \/ clerk'[o].pc = "noting"
    BY <1>16, DrawnAllIs
  <2>2. clerk'[o].pc = "listing" => clerk'[o].kind \in 1..4
    BY <1>4, <2>1
  <2> QED BY <1>2, <1>5, <2>1, <2>2
<1> QED BY <1>6, <1>7, <1>8, <1>9, <1>10, <1>11, <1>12, <1>13, <1>14, <1>15, <1>16 DEF Restores

LEMMA OwnStep ==
    ASSUME VersionParts, NEW o \in Clerks, VersionsGrow, ClerkStep(o)
    PROVE  clerk'[o] \in ClerkRecs /\ ClerkFits(o)'
<1>1. CASE NoteRollback(o) \/ RestoreFails(o)
  <2>1. clerk'[o] = NoClerk
    BY <1>1, Mine DEF NoteRollback, RestoreFails, VersionParts
  <2> QED BY <2>1, Done
<1>2. CASE AskToSave(o) \/ AskToRollBack(o)
  BY <1>2, AsksWell
<1>3. CASE TakeAgents(o) \/ TakeRows(o) \/ TakeSkips(o) \/ TakeFails(o) \/ Compare(o) \/ Keep(o)
  BY <1>3, TakesWell
<1>4. CASE Restores(o)
  BY <1>4, RestoresWell
<1> QED BY <1>1, <1>2, <1>3, <1>4 DEF ClerkStep, Restores

\* What a request that is under way learns when others write.
Learns(c, d, hired, made) ==
    /\ d \in ClerkRecs /\ d.pc = c.pc /\ d.op = c.op /\ d.kind = c.kind /\ d.snap = c.snap
    /\ d.want = c.want /\ d.todo = c.todo /\ d.here = c.here /\ d.missing = c.missing
    /\ d.hired = c.hired \cup hired /\ d.since = c.since \cup made /\ d.alone = FALSE /\ d.kept = c.kept

LEMMA KnowingIs ==
    ASSUME NEW c \in ClerkRecs, NEW hired \in SUBSET Names, NEW made \in SUBSET AllRows, c.pc # "idle"
    PROVE  Learns(c, Knowing(c, hired, made), hired, made)
<1> DEFINE d1 == [c EXCEPT !.alone = FALSE]
           d2 == [d1 EXCEPT !.hired = @ \cup hired]
           d3 == [d2 EXCEPT !.since = @ \cup made]
<1>1. /\ d1 \in ClerkRecs /\ d1.pc = c.pc /\ d1.op = c.op /\ d1.kind = c.kind /\ d1.snap = c.snap
      /\ d1.want = c.want /\ d1.todo = c.todo /\ d1.here = c.here /\ d1.missing = c.missing
      /\ d1.hired = c.hired /\ d1.since = c.since /\ d1.alone = FALSE /\ d1.kept = c.kept
  BY DEF ClerkRecs
<1>2. Knowing(c, hired, made) = d3
  BY DEF Knowing, ClerkRecs
<1> HIDE DEF d1
<1>3. /\ d2 \in ClerkRecs /\ d2.pc = d1.pc /\ d2.op = d1.op /\ d2.kind = d1.kind /\ d2.snap = d1.snap
      /\ d2.want = d1.want /\ d2.todo = d1.todo /\ d2.here = d1.here /\ d2.missing = d1.missing
      /\ d2.hired = d1.hired \cup hired /\ d2.since = d1.since /\ d2.alone = d1.alone /\ d2.kept = d1.kept
  BY <1>1 DEF ClerkRecs
<1> HIDE DEF d2
<1>4. /\ d3 \in ClerkRecs /\ d3.pc = d2.pc /\ d3.op = d2.op /\ d3.kind = d2.kind /\ d3.snap = d2.snap
      /\ d3.want = d2.want /\ d3.todo = d2.todo /\ d3.here = d2.here /\ d3.missing = d2.missing
      /\ d3.hired = d2.hired /\ d3.since = d2.since \cup made /\ d3.alone = d2.alone /\ d3.kept = d2.kept
  BY <1>3 DEF ClerkRecs
<1> HIDE DEF d3
<1> QED BY <1>1, <1>2, <1>3, <1>4 DEF Learns

LEMMA NoticesIs ==
    ASSUME VersionParts, NEW o \in Clerks, WorldTyped', Notices(o)
    PROVE  \/ clerk'[o] = clerk[o] /\ (UNCHANGED <<model, rows>> \/ clerk[o].pc = "idle")
           \/ clerk[o].pc # "idle" /\ \E hired, made : Moves(hired, made) /\ Learns(clerk[o], clerk'[o], hired, made)
<1>1. clerk[o] \in ClerkRecs
  BY ClerkIs
<1>2. ASSUME NEW hired, NEW made, Moves(hired, made), clerk'[o] = Knowing(clerk[o], hired, made)
      PROVE  \/ clerk'[o] = clerk[o] /\ clerk[o].pc = "idle"
             \/ clerk[o].pc # "idle" /\ Learns(clerk[o], clerk'[o], hired, made)
  <2>1. hired \in SUBSET Names /\ made \in SUBSET AllRows
    BY <1>2 DEF Moves, WorldTyped, VersionTypeOK
  <2>2. clerk[o].pc # "idle" => Learns(clerk[o], Knowing(clerk[o], hired, made), hired, made)
    BY <1>1, <2>1, KnowingIs
  <2>3. clerk[o].pc = "idle" => Knowing(clerk[o], hired, made) = clerk[o]
    BY DEF Knowing
  <2> QED BY <1>2, <2>2, <2>3
<1> QED BY <1>2 DEF Notices

LEMMA NoticedWell ==
    ASSUME VersionParts, NEW o \in Clerks, WorldTyped', VersionsGrow, Notices(o)
    PROVE  clerk'[o] \in ClerkRecs /\ ClerkFits(o)'
<1>0. ClerkFits(o) /\ clerk[o] \in ClerkRecs
  BY ClerkIs DEF VersionParts
<1>1. CASE clerk'[o] = clerk[o]
  BY <1>0, <1>1, WantedStill DEF ClerkFits
<1>2. CASE \E hired, made : Learns(clerk[o], clerk'[o], hired, made)
  <2>1. /\ clerk'[o] \in ClerkRecs /\ clerk'[o].op = clerk[o].op /\ clerk'[o].want = clerk[o].want
        /\ clerk'[o].pc = clerk[o].pc /\ clerk'[o].kind = clerk[o].kind /\ clerk'[o].snap = clerk[o].snap
        /\ clerk'[o].todo = clerk[o].todo /\ clerk'[o].alone = FALSE
    BY <1>2 DEF Learns
  <2> QED BY <1>0, <2>1, WantedStill DEF ClerkFits
<1> QED BY <1>1, <1>2, NoticesIs

LEMMA PartsStep == ASSUME VersionParts, [VersionNext]_versionVars PROVE VersionParts'
<1>1. WorldTyped'
  BY WorldStep
<1>2. ASSUME NEW o \in Clerks PROVE clerk'[o] \in ClerkRecs /\ ClerkFits(o)'
  BY <1>1, Bystander, NoticedWell, OwnStep
<1>3. clerk' = [o \in Clerks |-> clerk'[o]]
  <2>0. clerk = [o \in Clerks |-> clerk[o]]
    BY DEF VersionParts
  <2>1. CASE UNCHANGED versionVars
    BY <2>0, <2>1 DEF versionVars
  <2>2. CASE Others
    <3>1. \E hired, made : Revise(hired, made)
      BY <2>2 DEF Others, CreateAgent, UpdateAgent, DeleteAgent, AddRow, DeleteRow, PauseClock, DeleteGear, DeleteModel
    <3> QED BY <3>1 DEF Revise
  <2>3. ASSUME NEW o \in Clerks, ClerkStep(o) PROVE clerk' = [p \in Clerks |-> clerk'[p]]
    <3>1. CASE Silent(o)
      BY <2>0, <3>1, SilentIs DEF Becomes
    <3>2. CASE Edits(o)
      <4>1. (\E c : Becomes(o, c)) \/ \E hired, made, c : Writes(o, hired, made, c)
        <5>1. CASE Keep(o) \/ NoteRollback(o)
          BY <5>1 DEF Keep, NoteRollback, StopClerk
        <5>2. CASE RemoveOne(o)
          BY <5>2 DEF RemoveOne, StopClerk
        <5>3. CASE MakeOne(o)
          BY <5>3 DEF MakeOne, StopClerk
        <5>4. CASE DropOne(o)
          BY <5>4 DEF DropOne, StopClerk
        <5>5. CASE DrawOne(o)
          BY <5>5 DEF DrawOne, StopClerk
        <5> QED BY <3>2, <5>1, <5>2, <5>3, <5>4, <5>5 DEF Edits
      <4> QED BY <2>0, <4>1 DEF Becomes, Writes
    <3> QED BY <2>3, <3>1, <3>2, SilentOrEdits
  <2> QED BY <2>1, <2>2, <2>3, StepIs
<1> QED BY <1>1, <1>2, <1>3 DEF VersionParts

------------------------------------------------------------------------------
(* What is taken away is on record.                                        *)

LEMMA OnRecord ==
    ASSUME VersionsGrow
    PROVE  /\ \A r : StillNoted(r) => StillNoted(r)'
           /\ \A a : AgentKept(a) => AgentKept(a)'
BY DEF VersionsGrow, StillNoted, AgentKept

LEMMA CoveredStill ==
    ASSUME VersionsGrow, NEW o, clerk[o].since \subseteq clerk'[o].since
    PROVE  \A r : Covered(clerk[o], r) => Covered(clerk[o], r)'
<1>1. \A r : StillNoted(r) => StillNoted(r)'
  BY OnRecord
<1> QED BY <1>1 DEF Covered

LEMMA NumbersAre ==
    ASSUME VersionParts
    PROVE  \A r \in rows : No(r) \in 1..4 /\ r.owner # "adrift"
<1>1. rows \subseteq AllRows
  BY WorldIs DEF VersionParts, RowsOK
<1>2. ASSUME NEW r \in rows PROVE No(r) \in 1..4 /\ r.owner # "adrift"
  <2>1. r \in RowRecs /\ r.owner # "adrift"
    BY <1>1, RowsMade
  <2> QED BY <2>1, KindsAre DEF No, RowRecs
<1> QED BY <1>2

LEMMA NoticedKeeps ==
    ASSUME VersionParts, NEW o \in Clerks, WorldTyped', VersionsGrow, Notices(o), Keeping(o)
    PROVE  Keeping(o)'
<1> DEFINE c == clerk[o]
<1>1. CASE clerk'[o] = clerk[o] /\ (UNCHANGED <<model, rows>> \/ clerk[o].pc = "idle")
  <2>1. \A r : Covered(c, r) => Covered(c, r)'
    BY <1>1, CoveredStill
  <2>2. \A a : AgentKept(a) => AgentKept(a)'
    BY OnRecord
  <2>3. \A r : SnapHas(c, r) => SnapHas(c, r)'
    BY <1>1 DEF SnapHas
  <2>4. UNCHANGED <<model, rows>> \/ c.pc = "idle"
    BY <1>1
  <2>5. c.pc = "idle" => Keeping(o)'
    BY <1>1 DEF Keeping
  <2>6. ASSUME UNCHANGED <<model, rows>> PROVE Keeping(o)'
    BY <1>1, <2>1, <2>2, <2>3, <2>6 DEF Keeping
  <2> QED BY <2>4, <2>5, <2>6
<1>2. ASSUME NEW hired, NEW made, Moves(hired, made), Learns(clerk[o], clerk'[o], hired, made)
      PROVE  Keeping(o)'
  <2> DEFINE d == clerk'[o]
  <2>1. /\ d.pc = c.pc /\ d.op = c.op /\ d.kind = c.kind /\ d.snap = c.snap
        /\ d.hired = c.hired \cup hired /\ d.since = c.since \cup made
    BY <1>2 DEF Learns
  <2>2. d.kept = c.kept
    BY <1>2 DEF Learns
  <2>3. /\ \A a \in DOMAIN model' : a \in DOMAIN model \/ a \in hired
        /\ \A r \in rows' : r \in rows \/ r \in made \/ Stray(r)
    BY <1>2 DEF Moves
  <2>4. \A r \in rows' : r \notin rows => r \in d.since \/ Stray(r)
    BY <2>1, <2>3
  <2>5. \A r : Covered(c, r) => Covered(clerk[o], r)'
    BY <2>1, CoveredStill
  <2>6. \A r \in rows' : r \notin rows => Covered(clerk[o], r)' /\ SnapHas(clerk[o], r)'
    BY <2>4 DEF Covered, SnapHas
  <2>7. \A r : SnapHas(c, r) => SnapHas(clerk[o], r)'
    BY <2>1 DEF SnapHas
  <2>8. \A a : AgentKept(a) => AgentKept(a)'
    BY OnRecord
  <2>9. ASSUME d.op = "rollback", d.kept = TRUE
        PROVE  /\ d.pc \in {"taking", "comparing", "keeping"} =>
                    /\ \A a \in DOMAIN model' : a \in d.hired \/ a \in DOMAIN d.snap.model
                    /\ \A r \in rows' : r.owner \in Names \ DOMAIN d.snap.model => r \in d.since
                    /\ \A r \in rows' : (d.pc = "taking" => No(r) < d.kind) => SnapHas(clerk[o], r)'
               /\ d.pc \in {"listing agents", "removing"} =>
                    \A a \in DOMAIN model' : a \in d.hired \/ AgentKept(a)'
               /\ d.pc \in {"listing agents", "removing", "making"} => \A r \in rows' : Covered(clerk[o], r)'
               /\ d.pc \in {"listing", "dropping", "drawing"} =>
                    \A r \in rows' : No(r) > d.kind \/ (No(r) = d.kind /\ d.pc # "drawing") => Covered(clerk[o], r)'
    <3>0. c.op = "rollback" /\ c.kept = TRUE
      BY <2>1, <2>2, <2>9
    <3>1. ASSUME d.pc \in {"taking", "comparing", "keeping"}
          PROVE  /\ \A a \in DOMAIN model' : a \in d.hired \/ a \in DOMAIN d.snap.model
                 /\ \A r \in rows' : r.owner \in Names \ DOMAIN d.snap.model => r \in d.since
                 /\ \A r \in rows' : (d.pc = "taking" => No(r) < d.kind) => SnapHas(clerk[o], r)'
      <4>1. /\ \A a \in DOMAIN model : a \in c.hired \/ a \in DOMAIN c.snap.model
            /\ \A r \in rows : r.owner \in Names \ DOMAIN c.snap.model => r \in c.since
            /\ \A r \in rows : (c.pc = "taking" => No(r) < c.kind) => SnapHas(c, r)
        BY <2>1, <3>0, <3>1 DEF Keeping
      <4>2. \A r \in rows' : r.owner \in Names => ~Stray(r)
        BY DEF Stray
      <4> QED BY <2>1, <2>3, <2>4, <2>6, <2>7, <4>1, <4>2
    <3>2. ASSUME d.pc \in {"listing agents", "removing"}
          PROVE  \A a \in DOMAIN model' : a \in d.hired \/ AgentKept(a)'
      <4>1. \A a \in DOMAIN model : a \in c.hired \/ AgentKept(a)
        BY <2>1, <3>0, <3>2 DEF Keeping
      <4> QED BY <2>1, <2>3, <2>8, <4>1
    <3>3. ASSUME d.pc \in {"listing agents", "removing", "making"} PROVE \A r \in rows' : Covered(clerk[o], r)'
      <4>1. \A r \in rows : Covered(c, r)
        BY <2>1, <3>0, <3>3 DEF Keeping
      <4> QED BY <2>5, <2>6, <4>1
    <3>4. ASSUME d.pc \in {"listing", "dropping", "drawing"}
          PROVE  \A r \in rows' : No(r) > d.kind \/ (No(r) = d.kind /\ d.pc # "drawing") => Covered(clerk[o], r)'
      <4>1. \A r \in rows : No(r) > c.kind \/ (No(r) = c.kind /\ c.pc # "drawing") => Covered(c, r)
        BY <2>1, <3>0, <3>4 DEF Keeping
      <4> QED BY <2>1, <2>5, <2>6, <4>1
    <3> QED BY <3>1, <3>2, <3>3, <3>4
  <2> QED BY <2>9 DEF Keeping
<1> QED BY <1>1, <1>2, NoticesIs

LEMMA TakesKeep ==
    ASSUME VersionParts, NEW o \in Clerks, VersionsGrow, Keeping(o), clerk'[o].kept = TRUE, clerk'[o].op = "rollback",
           TakeAgents(o) \/ TakeRows(o) \/ TakeSkips(o) \/ TakeFails(o) \/ Compare(o) \/ Keep(o)
    PROVE  Keeping(o)'
<1> DEFINE c == clerk[o]  d == clerk'[o]
<1>0. c \in ClerkRecs /\ ClerkFits(o) /\ clerk \in [Clerks -> ClerkRecs] /\ ModelOK /\ RowsOK
  BY ClerkIs DEF VersionParts
<1>1. \A r \in rows : No(r) \in 1..4 /\ r.owner # "adrift"
  BY NumbersAre
<1>2. CASE TakeAgents(o)
  <2>1. d = [c EXCEPT !.pc = "taking", !.kind = 1, !.snap.model = model] /\ UNCHANGED <<model, rows>>
    BY <1>0, <1>2, Mine DEF TakeAgents, ClerkReads
  <2>2. d.pc = "taking" /\ d.kind = 1 /\ d.snap.model = model
    BY <1>0, <2>1 DEF ClerkRecs, Snaps
  <2>3. \A r \in rows : r.owner \in Names => r.owner \in DOMAIN model
    BY <1>0 DEF RowsOK, Begins
  <2>4. \A r \in rows : ~(No(r) < 1)
    BY <1>1
  <2> HIDE DEF d
  <2>5. /\ \A a \in DOMAIN model' : a \in DOMAIN d.snap.model
        /\ \A r \in rows' : r.owner \notin Names \ DOMAIN d.snap.model
        /\ \A r \in rows' : ~(No(r) < d.kind)
    BY <2>1, <2>2, <2>3, <2>4
  <2> QED BY <2>2, <2>5 DEF Keeping, d
<1>3. CASE TakeRows(o)
  <2> DEFINE s == [c.snap EXCEPT !.rows = @ \cup Recordable(c.snap, KindsKept[c.kind])]
             k == c.kind
  <2>1. d = IF k < 4 THEN [c EXCEPT !.snap = s, !.kind = k + 1] ELSE [c EXCEPT !.snap = s, !.pc = "comparing"]
    BY <1>0, <1>3, Mine, KindsAre DEF TakeRows
  <2>2. c.pc = "taking" /\ k \in 1..4 /\ c.snap \in Wholes /\ UNCHANGED <<model, rows>>
    BY <1>0, <1>3 DEF TakeRows, ClerkAt, ClerkFits, ClerkReads
  <2>3. /\ s \in Wholes
        /\ \A r \in rows : No(r) = k /\ r.owner \notin Names \ DOMAIN c.snap.model =>
              r \in Recordable(c.snap, KindsKept[k]) \/ Stray(r)
    BY <2>2, TakenIs
  <2>4. s.model = c.snap.model /\ s.rows = c.snap.rows \cup Recordable(c.snap, KindsKept[k])
    BY <2>2 DEF Wholes, Snaps
  <2> HIDE DEF s
  <2>5. d = IF k < 4 THEN PutSnapKind(c, s, k + 1) ELSE PutSnapPc(c, s, "comparing")
    BY <2>1 DEF PutSnapKind, PutSnapPc
  <2>6. /\ GoesOnAs(c, d) /\ d.snap = s /\ d.kept = c.kept
        /\ (d.pc = "taking" /\ d.kind = k + 1) \/ (d.pc = "comparing" /\ k = 4)
    <3>1. s \in Snaps
      BY <2>3 DEF Wholes
    <3>2. CASE k < 4
      <4>1. k + 1 \in 0..4 /\ d = PutSnapKind(c, s, k + 1)
        BY <2>2, <2>5, <3>2
      <4>2. GoesOnAs(c, d) /\ d.snap = s /\ d.pc = "taking" /\ d.kind = k + 1
        BY <1>0, <2>2, <3>1, <4>1, SetSnapKind
      <4>3. d.kept = c.kept
        BY <1>0, <2>2, <3>1, <4>1, SetSnapKind
      <4> QED BY <4>2, <4>3
    <3>3. CASE ~(k < 4)
      <4>1. k = 4 /\ d = PutSnapPc(c, s, "comparing") /\ "comparing" \in ClerkPCs
        BY <2>2, <2>5, <3>3 DEF ClerkPCs
      <4>2. GoesOnAs(c, d) /\ d.snap = s /\ d.pc = "comparing"
        BY <1>0, <2>2, <3>1, <4>1, SetSnapPc
      <4>3. d.kept = c.kept
        BY <1>0, <2>2, <3>1, <4>1, SetSnapPc
      <4> QED BY <4>1, <4>2, <4>3
    <3> QED BY <3>2, <3>3
  <2>7. /\ \A a \in DOMAIN model : a \in c.hired \/ a \in DOMAIN c.snap.model
        /\ \A r \in rows : r.owner \in Names \ DOMAIN c.snap.model => r \in c.since
        /\ \A r \in rows : No(r) < k => SnapHas(c, r)
    <3>1. c.op = "rollback" /\ c.kept = TRUE
      BY <2>6 DEF GoesOnAs
    <3> QED BY <2>2, <3>1 DEF Keeping
  <2> HIDE DEF d
  <2>8. ASSUME NEW r \in rows, d.pc = "taking" => No(r) < d.kind PROVE SnapHas(d, r)
    <3>0. No(r) \in 1..4 /\ d.since = c.since /\ d.snap.rows = c.snap.rows \cup Recordable(c.snap, KindsKept[k])
      BY <1>1, <2>4, <2>6 DEF GoesOnAs
    <3>1. No(r) < k \/ No(r) = k
      BY <2>2, <2>6, <2>8, <3>0
    <3>2. CASE No(r) < k
      BY <2>7, <3>0, <3>2 DEF SnapHas
    <3>3. CASE No(r) = k
      BY <2>3, <2>7, <3>0, <3>3 DEF SnapHas
    <3> QED BY <3>1, <3>2, <3>3
  <2>9. /\ \A a \in DOMAIN model' : a \in d.hired \/ a \in DOMAIN d.snap.model
        /\ \A r \in rows' : r.owner \in Names \ DOMAIN d.snap.model => r \in d.since
        /\ \A r \in rows' : (d.pc = "taking" => No(r) < d.kind) => SnapHas(d, r)
    BY <2>2, <2>4, <2>6, <2>7, <2>8 DEF GoesOnAs
  <2> QED BY <2>6, <2>9 DEF Keeping, d, SnapHas
<1>4. CASE TakeFails(o)
  <2>1. d = NoClerk \/ d = PutUnkept(c, "listing agents")
    BY <1>0, <1>4, Mine DEF TakeFails, PutUnkept
  <2>2. CASE d = PutUnkept(c, "listing agents")
    <3>1. "listing agents" \in ClerkPCs
      BY DEF ClerkPCs, Restoring
    <3>2. d.kept = FALSE
      BY <1>0, <2>2, <3>1, SetUnkept
    <3> QED BY <3>2
  <2> QED BY <2>1, <2>2, Done
<1>5. CASE Compare(o) \/ Keep(o)
  <2>1. \/ d = NoClerk
        \/ /\ d = PutPc(c, "listing agents") /\ c.pc = "comparing"
           /\ Len(versions) > 0 /\ Same(versions[Len(versions)], c.snap) /\ UNCHANGED versions
        \/ d = PutPc(c, "listing agents") /\ c.pc = "keeping" /\ versions' = Append(versions, c.snap)
        \/ d = PutPc(c, "keeping") /\ c.pc = "comparing"
    BY <1>0, <1>5, Mine DEF Compare, Keep, ClerkAt, PutPc, ClerkReads
  <2>2. c.pc \in {"comparing", "keeping"} /\ UNCHANGED <<model, rows>> /\ c.snap \in Wholes
    BY <1>0, <1>5 DEF Compare, Keep, ClerkAt, ClerkReads, ClerkFits
  <2>3. ASSUME NEW p \in ClerkPCs, d = PutPc(c, p)
        PROVE  GoesOnAs(c, d) /\ d.pc = p /\ d.snap = c.snap /\ d.kept = c.kept
    <3>1. GoesOnAs(c, d) /\ d.pc = p
      BY <1>0, <2>3, SetPc
    <3>2. d.snap = c.snap
      BY <1>0, <2>3, SetPc
    <3>3. d.kept = c.kept
      BY <1>0, <2>3, SetPc
    <3> QED BY <3>1, <3>2, <3>3
  <2>4. "listing agents" \in ClerkPCs /\ "keeping" \in ClerkPCs
    BY DEF ClerkPCs, Restoring
  <2>5. ASSUME c.op = "rollback", c.kept = TRUE
        PROVE  /\ \A a \in DOMAIN model : a \in c.hired \/ a \in DOMAIN c.snap.model
               /\ \A r \in rows : r.owner \in Names \ DOMAIN c.snap.model => r \in c.since
               /\ \A r \in rows : SnapHas(c, r)
    BY <2>2, <2>5 DEF Keeping
  <2>6. CASE d = PutPc(c, "keeping")
    <3>1. GoesOnAs(c, d) /\ d.pc = "keeping" /\ d.snap = c.snap /\ d.kept = c.kept
      BY <2>3, <2>4, <2>6
    <3>2. c.op = "rollback" /\ c.kept = TRUE
      BY <3>1 DEF GoesOnAs
    <3>3. d.since = c.since /\ d.hired = c.hired
      BY <3>1 DEF GoesOnAs
    <3> HIDE DEF d
    <3>4. /\ \A a \in DOMAIN model' : a \in d.hired \/ a \in DOMAIN d.snap.model
          /\ \A r \in rows' : r.owner \in Names \ DOMAIN d.snap.model => r \in d.since
          /\ \A r \in rows' : SnapHas(d, r)
      BY <2>2, <2>5, <3>1, <3>2, <3>3 DEF SnapHas
    <3> QED BY <3>1, <3>4 DEF Keeping, d, SnapHas
  <2>7. ASSUME d = PutPc(c, "listing agents"), NEW n \in DOMAIN versions', Same(versions'[n], c.snap),
               versions'[n] \in Snaps
        PROVE  Keeping(o)'
    <3>1. GoesOnAs(c, d) /\ d.pc = "listing agents" /\ d.kept = c.kept
      BY <2>3, <2>4, <2>7
    <3>2. c.op = "rollback" /\ c.kept = TRUE
      BY <3>1 DEF GoesOnAs
    <3>3. d.since = c.since /\ d.hired = c.hired /\ c.snap \in Snaps
      BY <2>2, <3>1 DEF GoesOnAs, Wholes
    <3>4. versions'[n].model = c.snap.model /\ AsRecorded(versions'[n]).rows = AsRecorded(c.snap).rows
      BY <2>7, <3>3, SameIs
    <3>5. \A a \in DOMAIN model' : a \in d.hired \/ AgentKept(a)'
      BY <2>2, <2>5, <2>7, <3>2, <3>3, <3>4 DEF AgentKept
    <3>6. \A r \in rows : r \in c.snap.rows => StillNoted(r)'
      BY <1>1, <2>7, <3>3, <3>4, RecordedIs DEF StillNoted
    <3>7. \A r \in rows' : r \in d.since \/ StillNoted(r)' \/ Stray(r)
      BY <2>2, <2>5, <3>2, <3>3, <3>6 DEF SnapHas
    <3> HIDE DEF d
    <3> QED BY <3>1, <3>5, <3>7 DEF Keeping, d, Covered
  <2>8. CASE d = PutPc(c, "listing agents") /\ Len(versions) > 0 /\ Same(versions[Len(versions)], c.snap) /\ UNCHANGED versions
    <3>1. versions \in Seq(Wholes)
      BY ClerkIs
    <3>4. Len(versions) \in Nat /\ DOMAIN versions = 1..Len(versions)
      BY <3>1
    <3>5. Len(versions) > 0
      BY <2>8
    <3>2. Len(versions) \in DOMAIN versions
      BY <3>4, <3>5
    <3>3. versions[Len(versions)] \in Wholes
      BY <3>1, <3>2
    <3> QED BY <2>7, <2>8, <3>2, <3>3 DEF Wholes
  <2>9. CASE d = PutPc(c, "listing agents") /\ versions' = Append(versions, c.snap)
    <3>1. versions \in Seq(Wholes)
      BY ClerkIs
    <3>2. Len(versions) + 1 \in DOMAIN versions' /\ versions'[Len(versions) + 1] = c.snap
      BY <2>2, <2>9, <3>1, AppendedVersion
    <3> QED BY <2>2, <2>7, <2>9, <3>2 DEF Wholes, Same
  <2> QED BY <2>1, <2>6, <2>8, <2>9, Done
<1>9. CASE TakeSkips(o)
  <2>1. PICK s \in Wholes, k \in 1..4 : d = PutSkipped(c, s, k)
    BY <1>9, SkipIs
  <2>2. s \in Snaps /\ c \in ClerkRecs /\ k \in 0..4
    BY <1>0 DEF Wholes
  <2>3. d.kept = FALSE
    BY <2>1, <2>2, SkippedUnkept
  <2> QED BY <2>3
<1> QED BY <1>2, <1>3, <1>4, <1>9, <1>5

LEMMA RestoresKeep ==
    ASSUME VersionParts, NEW o \in Clerks, VersionsGrow, Keeping(o), Restores(o)
    PROVE  Keeping(o)'
<1> DEFINE c == clerk[o]  d == clerk'[o]
<1>0. ModelOK /\ RowsOK /\ \A r \in rows : No(r) \in 1..4
  BY ClerkIs, NumbersAre
\* Nothing new is to be taken away, and it comes to no kind it had not before it.
<1>1. ASSUME GoesOnAs(c, d), d.kept = c.kept,
             d.pc \in Restoring,
             d.pc \in {"listing agents", "removing"} =>
                 /\ c.pc \in {"listing agents", "removing"}
                 /\ \A a \in DOMAIN model' : a \in DOMAIN model,
             d.pc \in {"listing agents", "removing", "making"} =>
                 /\ c.pc \in {"listing agents", "removing", "making"}
                 /\ \A r \in rows' : r \in rows \/ Stray(r),
             d.pc \in {"listing", "dropping", "drawing"} =>
                 \A r \in rows' : No(r) > d.kind \/ (No(r) = d.kind /\ d.pc # "drawing") =>
                     /\ r \in rows
                     /\ \/ c.pc = "making"
                        \/ /\ c.pc \in {"listing", "dropping", "drawing"}
                           /\ No(r) > c.kind \/ (No(r) = c.kind /\ c.pc # "drawing")
      PROVE  Keeping(o)'
  <2>1. /\ \A r : StillNoted(r) => StillNoted(r)'
        /\ \A a : AgentKept(a) => AgentKept(a)'
    BY OnRecord
  <2>2. d.op = c.op /\ d.since = c.since /\ d.hired = c.hired
    BY <1>1 DEF GoesOnAs
  <2>3. d.pc \notin {"taking", "comparing", "keeping"}
    BY <1>1 DEF Restoring
  <2> HIDE DEF d
  <2>4. ASSUME d.op = "rollback", d.kept = TRUE
        PROVE  /\ d.pc \in {"listing agents", "removing"} =>
                     \A a \in DOMAIN model' : a \in d.hired \/ AgentKept(a)'
               /\ d.pc \in {"listing agents", "removing", "making"} =>
                     \A r \in rows' : r \in d.since \/ StillNoted(r)' \/ Stray(r)
               /\ d.pc \in {"listing", "dropping", "drawing"} =>
                     \A r \in rows' : No(r) > d.kind \/ (No(r) = d.kind /\ d.pc # "drawing") =>
                         r \in d.since \/ StillNoted(r)' \/ Stray(r)
    <3>0. c.op = "rollback" /\ c.kept = TRUE
      BY <1>1, <2>2, <2>4
    <3>1. ASSUME d.pc \in {"listing agents", "removing"}
          PROVE  \A a \in DOMAIN model' : a \in d.hired \/ AgentKept(a)'
      <4>1. \A a \in DOMAIN model : a \in c.hired \/ AgentKept(a)
        BY <1>1, <3>0, <3>1 DEF Keeping
      <4> QED BY <1>1, <2>1, <2>2, <3>1, <4>1
    <3>2. ASSUME d.pc \in {"listing agents", "removing", "making"}
          PROVE  \A r \in rows' : r \in d.since \/ StillNoted(r)' \/ Stray(r)
      <4>1. \A r \in rows : Covered(c, r)
        BY <1>1, <3>0, <3>2 DEF Keeping
      <4> QED BY <1>1, <2>1, <2>2, <3>2, <4>1 DEF Covered
    <3>3. ASSUME d.pc \in {"listing", "dropping", "drawing"}
          PROVE  \A r \in rows' : No(r) > d.kind \/ (No(r) = d.kind /\ d.pc # "drawing") =>
                     r \in d.since \/ StillNoted(r)' \/ Stray(r)
      <4>1. c.pc = "making" => \A r \in rows : Covered(c, r)
        BY <3>0 DEF Keeping
      <4>2. c.pc \in {"listing", "dropping", "drawing"} =>
               \A r \in rows : No(r) > c.kind \/ (No(r) = c.kind /\ c.pc # "drawing") => Covered(c, r)
        BY <3>0 DEF Keeping
      <4>3. ASSUME NEW r \in rows', No(r) > d.kind \/ (No(r) = d.kind /\ d.pc # "drawing")
            PROVE  Covered(c, r)
        BY <1>1, <3>3, <4>1, <4>2, <4>3
      <4> QED BY <2>1, <2>2, <4>3 DEF Covered
    <3> QED BY <3>1, <3>2, <3>3
  <2> QED BY <2>3, <2>4 DEF Keeping, d, Covered
<1>2. {"listing agents", "removing", "making", "listing", "dropping", "drawing", "noting"} \subseteq Restoring
  BY DEF Restoring
<1>3. c.pc \in {"listing", "dropping", "drawing"} => c.kind \in 1..4
  BY RestoringIs
<1>6. CASE d = NoClerk
  BY <1>6, Done
<1>7. CASE ListAgents(o)
  <2>1. c.pc = "listing agents" /\ GoesOnAs(c, d) /\ d.pc = "removing" /\ d.kept = c.kept
    BY <1>7, ListAgentsIs
  <2>2. UNCHANGED <<model, rows>>
    BY <1>7 DEF ListAgents, ClerkReads
  <2> HIDE DEF d
  <2> QED BY <1>1, <1>2, <2>1, <2>2
<1>8. CASE RemoveOne(o) /\ d # NoClerk
  <2> DEFINE a == OneOf(c.todo)
  <2>1. c.pc = "removing" /\ GoesOnAs(c, d) /\ d.pc = "removing" /\ d.kept = c.kept
    BY <1>8, RemoveOneIs
  <2>2. model' = Less(model, {a}) /\ rows' = RowsWithout(a)
    BY <1>8, RemoveOneIs
  <2> HIDE DEF a, d
  <2>3. /\ \A b \in DOMAIN model' : b \in DOMAIN model
        /\ \A r \in rows' : r \in rows \/ Stray(r)
    BY <1>0, <2>2, RowsWithoutIs DEF Less
  <2> QED BY <1>1, <1>2, <2>1, <2>3
<1>9. CASE RemovedAll(o)
  <2>1. c.pc = "removing" /\ GoesOnAs(c, d) /\ d.pc = "making" /\ d.kept = c.kept
    BY <1>9, RemovedAllIs
  <2>2. UNCHANGED <<model, rows>>
    BY <1>9 DEF RemovedAll, ClerkReads
  <2> HIDE DEF d
  <2> QED BY <1>1, <1>2, <2>1, <2>2
<1>10. CASE MakeOne(o) /\ d # NoClerk
  <2>1. c.pc = "making" /\ GoesOnAs(c, d) /\ d.pc = "making" /\ d.kept = c.kept
    BY <1>10, MakeOneIs
  <2>2. UNCHANGED rows
    BY <1>10 DEF MakeOne
  <2> HIDE DEF d
  <2> QED BY <1>1, <1>2, <2>1, <2>2
<1>11. CASE MadeAll(o)
  <2>1. c.pc = "making" /\ GoesOnAs(c, d) /\ d.pc = "listing" /\ d.kept = c.kept
    BY <1>11, MadeAllIs
  <2>2. UNCHANGED rows
    BY <1>11 DEF MadeAll, ClerkReads
  <2> HIDE DEF d
  <2> QED BY <1>1, <1>2, <2>1, <2>2
<1>12. CASE ListRows(o)
  <2>1. c.pc = "listing" /\ GoesOnAs(c, d) /\ d.pc = "dropping" /\ d.kind = c.kind /\ d.kept = c.kept
    BY <1>12, ListRowsIs
  <2>2. UNCHANGED rows
    BY <1>12 DEF ListRows, ClerkReads
  <2> HIDE DEF d
  <2> QED BY <1>1, <1>2, <2>1, <2>2
<1>13. CASE DropOne(o) /\ d # NoClerk
  <2>1. c.pc = "dropping" /\ GoesOnAs(c, d) /\ d.pc = "dropping" /\ d.kind = c.kind /\ d.kept = c.kept
    BY <1>13, DropOneIs
  <2>2. rows' \subseteq rows
    BY <1>13 DEF DropOne
  <2> HIDE DEF d
  <2> QED BY <1>1, <1>2, <2>1, <2>2
<1>14. CASE DroppedAll(o)
  <2>1. c.pc = "dropping" /\ GoesOnAs(c, d) /\ d.pc = "drawing" /\ d.kind = c.kind /\ d.kept = c.kept
    BY <1>14, DroppedAllIs
  <2>2. UNCHANGED rows
    BY <1>14 DEF DroppedAll, ClerkReads
  <2> HIDE DEF d
  <2> QED BY <1>1, <1>2, <2>1, <2>2
<1>15. CASE DrawOne(o) /\ d # NoClerk
  <2> DEFINE r == OneOf(c.todo)
  <2>1. c.pc = "drawing" /\ GoesOnAs(c, d) /\ d.pc = "drawing" /\ d.kind = c.kind /\ d.kept = c.kept
    BY <1>15, DrawOneIs
  <2>2. No(r) = c.kind /\ (UNCHANGED rows \/ (rows' = rows \cup {Drawn(r)} /\ No(Drawn(r)) = No(r)))
    BY <1>15, DrawOneIs
  <2> HIDE DEF d, r
  <2>3. \A q \in rows' : q \in rows \/ No(q) = c.kind
    BY <2>2
  <2>4. c.kind \in Nat
    BY <1>3, <2>1
  <2>5. \A q \in rows' : No(q) > d.kind => q \in rows
    BY <2>1, <2>3, <2>4
  <2> QED BY <1>1, <1>2, <2>1, <2>5
<1>16. CASE DrawnAll(o)
  <2>1. /\ c.pc = "drawing" /\ GoesOnAs(c, d) /\ d.kept = c.kept
        /\ (d.pc = "listing" /\ d.kind = c.kind + 1) \/ d.pc = "noting"
    BY <1>16, DrawnAllIs
  <2>2. UNCHANGED rows
    BY <1>16 DEF DrawnAll, ClerkReads
  <2> HIDE DEF d
  <2>3. c.kind \in 1..4
    BY <1>3, <2>1
  <2>4. d.pc = "listing" => \A r \in rows : No(r) > d.kind \/ No(r) = d.kind => No(r) > c.kind
    BY <1>0, <2>1, <2>3
  <2> QED BY <1>1, <1>2, <2>1, <2>2, <2>4
<1> QED BY <1>6, <1>7, <1>8, <1>9, <1>10, <1>11, <1>12, <1>13, <1>14, <1>15, <1>16 DEF Restores

LEMMA KeepingStep ==
    ASSUME VersionParts, [VersionNext]_versionVars, NEW o \in Clerks, Keeping(o)
    PROVE  Keeping(o)'
<1>0. WorldTyped' /\ VersionsGrow /\ (Notices(o) \/ ClerkStep(o)) /\ clerk \in [Clerks -> ClerkRecs]
  BY WorldStep, Bystander DEF VersionParts
<1>1. CASE Notices(o)
  BY <1>0, <1>1, NoticedKeeps
<1>2. CASE NoteRollback(o) \/ RestoreFails(o)
  <2>1. clerk'[o] = NoClerk
    BY <1>0, <1>2, Mine DEF NoteRollback, RestoreFails
  <2> QED BY <2>1, Done
<1>3. CASE AskToSave(o) \/ AskToRollBack(o)
  <2>1. clerk'[o].pc = "agents"
    BY <1>0, <1>3, Mine DEF AskToSave, AskToRollBack, NoClerk
  <2> QED BY <2>1 DEF Keeping
<1>4. CASE TakeAgents(o) \/ TakeRows(o) \/ TakeSkips(o) \/ TakeFails(o) \/ Compare(o) \/ Keep(o)
  <2>1. ~(clerk'[o].op = "rollback" /\ clerk'[o].kept = TRUE) => Keeping(o)'
    BY DEF Keeping
  <2> QED BY <1>0, <1>4, <2>1, TakesKeep
<1>5. CASE Restores(o)
  BY <1>0, <1>5, RestoresKeep
<1> QED BY <1>0, <1>1, <1>2, <1>3, <1>4, <1>5 DEF ClerkStep, Restores

------------------------------------------------------------------------------
(* A rollback that is left alone lands.                                    *)

LEMMA NoticedLands ==
    ASSUME VersionParts, NEW o \in Clerks, WorldTyped', Notices(o), Landing(o)
    PROVE  Landing(o)'
<1>1. CASE clerk'[o] = clerk[o] /\ clerk[o].pc = "idle"
  BY <1>1 DEF Landing, Peopled, Furnished, Landed
<1>2. CASE clerk'[o] = clerk[o] /\ UNCHANGED <<model, rows>>
  <2>1. clerk'[o] = clerk[o] /\ model' = model /\ rows' = rows
    BY <1>2
  <2> QED BY <2>1 DEF Landing
<1>3. CASE \E hired, made : Learns(clerk[o], clerk'[o], hired, made)
  <2>1. clerk'[o].alone = FALSE
    BY <1>3 DEF Learns
  <2> QED BY <2>1 DEF Landing, Peopled, Furnished, Landed
<1> QED BY <1>1, <1>2, <1>3, NoticesIs

LEMMA TakesLand ==
    ASSUME VersionParts, NEW o \in Clerks, Landing(o),
           TakeAgents(o) \/ TakeRows(o) \/ TakeSkips(o) \/ TakeFails(o) \/ Compare(o) \/ Keep(o)
    PROVE  Landing(o)'
<1> DEFINE c == clerk[o]  d == clerk'[o]  Early == {"listing agents", "agents", "taking", "comparing", "keeping"}
<1>0. c \in ClerkRecs /\ clerk \in [Clerks -> ClerkRecs] /\ ModelOK /\ ClerkFits(o)
  BY ClerkIs DEF VersionParts
<1>9. c \in ClerkRecs
  BY <1>0
<1>1. c.pc \in Early
  BY DEF TakeAgents, TakeRows, TakeSkips, TakeFails, Compare, Keep, ClerkAt
<1>2. ASSUME d.pc \in Early, d.missing = c.missing, d.alone = c.alone PROVE Landing(o)'
  <2>1. d.alone = TRUE => d.missing = {}
    BY <1>1, <1>2 DEF Landing, Peopled, Furnished, Landed
  <2> HIDE DEF d
  <2> QED BY <1>2, <2>1 DEF Landing, Peopled, Furnished, Landed, d
<1>3. /\ "taking" \in ClerkPCs /\ "comparing" \in ClerkPCs /\ "listing agents" \in ClerkPCs
      /\ "keeping" \in ClerkPCs
  BY DEF ClerkPCs, Restoring
<1>4. ASSUME NEW p \in {"listing agents", "keeping"}, d = PutPc(c, p) PROVE Landing(o)'
  <2>1. p \in ClerkPCs
    BY <1>3
  <2>2. GoesOnAs(c, d) /\ d.pc = p
    BY <1>9, <1>4, <2>1, SetPc
  <2>3. d.missing = c.missing
    BY ZenonT(40), <1>9, <1>4, <2>1, SetPc
  <2> QED BY <1>2, <2>2, <2>3 DEF GoesOnAs
<1>5. CASE TakeAgents(o)
  <2> DEFINE t == [c.snap EXCEPT !.model = model]
  <2>1. d = [c EXCEPT !.pc = "taking", !.kind = 1, !.snap.model = model]
    BY <1>0, <1>5, Mine DEF TakeAgents
  <2>2. t \in Snaps /\ 1 \in 0..4
    BY <1>0 DEF ClerkRecs, Snaps, ModelOK
  <2>3. d = PutPcKindSnap(c, "taking", 1, t)
    BY <1>0, <2>1 DEF PutPcKindSnap
  <2> HIDE DEF t
  <2>6. t \in Snaps /\ "taking" \in ClerkPCs /\ 1 \in 0..4
    BY <1>3, <2>2
  <2>4. GoesOnAs(c, d) /\ d.pc = "taking"
    BY <1>9, <2>3, <2>6, SetPcKindSnap
  <2>5. d.missing = c.missing
    BY <1>9, <2>3, <2>6, SetPcKindSnap
  <2> QED BY <1>2, <2>4, <2>5 DEF GoesOnAs
<1>6. CASE TakeRows(o)
  <2> DEFINE s == [c.snap EXCEPT !.rows = @ \cup Recordable(c.snap, KindsKept[c.kind])]
             k == c.kind
  <2>1. d = IF k < 4 THEN [c EXCEPT !.snap = s, !.kind = k + 1] ELSE [c EXCEPT !.snap = s, !.pc = "comparing"]
    BY <1>0, <1>6, Mine, KindsAre DEF TakeRows
  <2>2. c.pc = "taking" /\ k \in 1..4 /\ c.snap \in Wholes
    BY <1>0, <1>6 DEF TakeRows, ClerkAt, ClerkFits
  <2>3. s \in Snaps
    BY <2>2, TakenIs DEF Wholes
  <2> HIDE DEF s
  <2>4. CASE k < 4
    <3>1. k + 1 \in 0..4 /\ d = PutSnapKind(c, s, k + 1)
      BY <2>1, <2>2, <2>4 DEF PutSnapKind
    <3>2. GoesOnAs(c, d) /\ d.pc = c.pc
      BY <1>9, <2>3, <3>1, SetSnapKind
    <3>3. d.missing = c.missing
      BY <1>9, <2>3, <3>1, SetSnapKind
    <3> QED BY <1>2, <2>2, <3>2, <3>3 DEF GoesOnAs
  <2>5. CASE ~(k < 4)
    <3>1. d = PutSnapPc(c, s, "comparing") /\ "comparing" \in ClerkPCs
      BY <1>3, <2>1, <2>5 DEF PutSnapPc
    <3>2. GoesOnAs(c, d) /\ d.pc = "comparing"
      BY <1>9, <2>3, <3>1, SetSnapPc
    <3>3. d.missing = c.missing
      BY <1>9, <2>3, <3>1, SetSnapPc
    <3> QED BY <1>2, <3>2, <3>3 DEF GoesOnAs
  <2> QED BY <2>4, <2>5
<1>7. CASE TakeFails(o)
  <2>1. d = NoClerk \/ d = PutUnkept(c, "listing agents")
    BY <1>0, <1>7, Mine DEF TakeFails, PutUnkept
  <2>2. CASE d = PutUnkept(c, "listing agents")
    <3>3. "listing agents" \in ClerkPCs
      BY <1>3
    <3>1. GoesOnAs(c, d) /\ d.pc = "listing agents"
      BY <1>9, <2>2, <3>3, SetUnkept
    <3>2. d.missing = c.missing
      BY <1>9, <2>2 DEF PutUnkept, ClerkRecs
    <3> QED BY <1>2, <3>1, <3>2 DEF GoesOnAs
  <2> QED BY <2>1, <2>2, Done
<1>8. CASE Compare(o) \/ Keep(o)
  <2>1. d = NoClerk \/ d = PutPc(c, "listing agents") \/ d = PutPc(c, "keeping")
    BY <1>0, <1>8, Mine DEF Compare, Keep, PutPc
  <2> QED BY <1>4, <2>1, Done
<1>10. CASE TakeSkips(o)
  <2>1. PICK s \in Wholes, k \in 1..4 : d = PutSkipped(c, s, k) /\ c.pc = "taking"
    BY <1>10, SkipIs
  <2>2. s \in Snaps /\ k \in 0..4
    BY DEF Wholes
  <2>3. GoesOnAs(c, d) /\ d.pc = c.pc
    BY <1>9, <2>1, <2>2, SetSkipped
  <2>4. d.missing = c.missing
    BY <1>9, <2>1, <2>2, SetSkipped
  <2> QED BY <1>2, <2>1, <2>3, <2>4 DEF GoesOnAs
<1> QED BY <1>5, <1>6, <1>7, <1>8, <1>10

LEMMA DrawnNumber == \A q \in SavedRows : No(Drawn(q)) = No(q) /\ No(q) \in 1..4
<1>1. ASSUME NEW q \in SavedRows PROVE No(Drawn(q)) = No(q) /\ No(q) \in 1..4
  <2>1. q \in RowRecs /\ (Drawn(q)).kind = q.kind
    BY RowsMade
  <2> QED BY <2>1, KindsAre DEF No, RowRecs
<1> QED BY <1>1

\* The agents: those the version does not know go, and those it knows are made.
LEMMA AgentsLand ==
    ASSUME VersionParts, NEW o \in Clerks, Landing(o),
           ListAgents(o) \/ RemoveOne(o) \/ RemovedAll(o) \/ MakeOne(o) \/ MadeAll(o)
    PROVE  Landing(o)'
<1> DEFINE c == clerk[o]  d == clerk'[o]
<1>0. ModelOK /\ \A r \in rows : No(r) \in 1..4
  BY ClerkIs, NumbersAre
<1>6. CASE d = NoClerk
  BY <1>6, Done
<1>7. CASE ListAgents(o)
  <2>1. c.pc = "listing agents" /\ GoesOnAs(c, d) /\ d.pc = "removing"
    BY <1>7, ListAgentsIs
  <2>2. d.here = DOMAIN model /\ d.todo = DOMAIN model \ (DOMAIN c.want.model \cup {Orchestrator})
    BY <1>7, ListAgentsIs
  <2>3. d.missing = c.missing /\ UNCHANGED model
    BY <1>7, ListAgentsIs DEF ListAgents, ClerkReads
  <2>4. d.want = c.want /\ d.alone = c.alone
    BY <2>1 DEF GoesOnAs
  <2>5. d.alone = TRUE => d.missing = {}
    BY <2>1, <2>3, <2>4 DEF Landing, Peopled, Furnished, Landed
  <2> HIDE DEF d
  <2> QED BY <2>1, <2>2, <2>3, <2>4, <2>5 DEF Landing, Peopled, Furnished, Landed, d
<1>8. CASE RemoveOne(o) /\ d # NoClerk
  <2> DEFINE a == OneOf(c.todo)
  <2>1. c.pc = "removing" /\ GoesOnAs(c, d) /\ d.pc = "removing" /\ d.missing = c.missing
    BY <1>8, RemoveOneIs
  <2>2. model' = Less(model, {a}) /\ d.todo = c.todo \ {a} /\ d.here = c.here \ {a}
    BY <1>8, RemoveOneIs
  <2>3. d.want = c.want /\ d.alone = c.alone
    BY <2>1 DEF GoesOnAs
  <2> HIDE DEF a, d
  <2>4. DOMAIN model' = DOMAIN model \ {a}
    BY <2>2 DEF Less
  <2>5. c.alone = TRUE => /\ c.missing = {} /\ c.here = DOMAIN model
                          /\ c.todo = DOMAIN model \ (DOMAIN c.want.model \cup {Orchestrator})
    BY <2>1 DEF Landing, Peopled, Furnished, Landed
  <2>6. d.alone = TRUE => /\ d.missing = {} /\ d.here = DOMAIN model'
                          /\ d.todo = DOMAIN model' \ (DOMAIN d.want.model \cup {Orchestrator})
    BY <2>1, <2>2, <2>3, <2>4, <2>5
  <2> QED BY <2>1, <2>6 DEF Landing, Peopled, Furnished, Landed, d
<1>9. CASE RemovedAll(o)
  <2>1. c.pc = "removing" /\ GoesOnAs(c, d) /\ d.pc = "making" /\ d.missing = c.missing /\ c.todo = {}
    BY <1>9, RemovedAllIs
  <2>2. d.here = c.here /\ d.todo = DOMAIN c.want.model /\ UNCHANGED model
    BY <1>9, RemovedAllIs DEF RemovedAll, ClerkReads
  <2>3. d.want = c.want /\ d.alone = c.alone
    BY <2>1 DEF GoesOnAs
  <2>4. Orchestrator \in DOMAIN c.want.model
    <3>1. \E n \in DOMAIN versions : c.want = versions[n]
      BY <2>1 DEF VersionParts, ClerkFits, Restoring
    <3>2. versions \in Seq(Wholes)
      BY ClerkIs
    <3>3. \A n \in DOMAIN versions : versions[n] \in Wholes
      BY <3>2
    <3> QED BY <3>1, <3>3 DEF Wholes
  <2> HIDE DEF d
  <2>5. c.alone = TRUE => /\ c.missing = {} /\ c.here = DOMAIN model
                          /\ c.todo = DOMAIN model \ (DOMAIN c.want.model \cup {Orchestrator})
    BY <2>1 DEF Landing, Peopled, Furnished, Landed
  <2>6. d.alone = TRUE => /\ d.missing = {} /\ d.here = DOMAIN model'
                          /\ DOMAIN model' \subseteq DOMAIN d.want.model
                          /\ DOMAIN d.want.model \ d.todo = {}
    BY <2>1, <2>2, <2>3, <2>4, <2>5
  <2> QED BY <2>1, <2>6 DEF Landing, Peopled, Furnished, Landed, AgentsMade, d
<1>10. CASE MakeOne(o) /\ d # NoClerk
  <2> DEFINE a == OneOf(c.todo)  m == c.want.model[a]
  <2>1. c.pc = "making" /\ GoesOnAs(c, d) /\ d.pc = "making" /\ d.missing = c.missing
    BY <1>10, MakeOneIs
  <2>2. a \in DOMAIN c.want.model /\ d.todo = c.todo \ {a} /\ d.here = c.here \cup {a}
    BY <1>10, MakeOneIs
  <2>3. \/ a \in c.here /\ a \in DOMAIN model /\ model' = [model EXCEPT ![a] = IF m = "none" THEN @ ELSE m]
        \/ a \notin DOMAIN model /\ model' = With(model, a, m)
    BY <1>10, MakeOneIs
  <2>4. d.want = c.want /\ d.alone = c.alone
    BY <2>1 DEF GoesOnAs
  <2> HIDE DEF a, d
  <2>5. /\ DOMAIN model' = DOMAIN model \cup {a} /\ m \in {model'[a], "none"}
        /\ \A b \in DOMAIN model : b # a => model'[b] = model[b]
    BY <2>3 DEF With
  <2> HIDE DEF m
  <2>6. c.alone = TRUE => /\ c.missing = {} /\ c.here = DOMAIN model /\ DOMAIN model \subseteq DOMAIN c.want.model
                          /\ \A b \in DOMAIN c.want.model \ c.todo :
                                b \in DOMAIN model /\ c.want.model[b] \in {model[b], "none"}
    BY <2>1 DEF Landing, Peopled, Furnished, Landed, AgentsMade
  <2>7. d.alone = TRUE => /\ d.missing = {} /\ d.here = DOMAIN model' /\ DOMAIN model' \subseteq DOMAIN d.want.model
                          /\ \A b \in DOMAIN d.want.model \ d.todo :
                                b \in DOMAIN model' /\ d.want.model[b] \in {model'[b], "none"}
    BY <2>1, <2>2, <2>4, <2>5, <2>6 DEF m
  <2> QED BY <2>1, <2>7 DEF Landing, Peopled, Furnished, Landed, AgentsMade, d
<1>11. CASE MadeAll(o)
  <2>1. c.pc = "making" /\ GoesOnAs(c, d) /\ d.pc = "listing" /\ d.missing = c.missing
    BY <1>11, MadeAllIs
  <2>2. d.kind = 1 /\ c.todo = {} /\ UNCHANGED <<model, rows>>
    BY <1>11, MadeAllIs DEF MadeAll, ClerkReads
  <2>3. d.want = c.want /\ d.alone = c.alone
    BY <2>1 DEF GoesOnAs
  <2> HIDE DEF d
  <2>4. c.alone = TRUE => /\ c.missing = {} /\ DOMAIN model \subseteq DOMAIN c.want.model
                          /\ \A b \in DOMAIN c.want.model \ c.todo :
                                b \in DOMAIN model /\ c.want.model[b] \in {model[b], "none"}
    BY <2>1 DEF Landing, Peopled, Furnished, Landed, AgentsMade
  <2>5. d.alone = TRUE => /\ d.missing = {} /\ DOMAIN model' = DOMAIN d.want.model
                          /\ \A b \in DOMAIN model' :
                                b \in DOMAIN model' /\ d.want.model[b] \in {model'[b], "none"}
    BY <2>1, <2>2, <2>3, <2>4
  <2>6. \A r \in rows' : ~(No(r) < d.kind)
    BY <1>0, <2>2
  <2>7. \A q \in d.want.rows : ~(No(q) < d.kind)
    BY <2>2, <2>3, DrawnNumber, RestoringIs
  <2> QED BY <2>1, <2>5, <2>6, <2>7 DEF Landing, Peopled, Furnished, Landed, AgentsMade, d
<1> QED BY <1>6, <1>7, <1>8, <1>9, <1>10, <1>11

\* The rows: of every kind what there is goes, and what the version has is made.
LEMMA RowsLand ==
    ASSUME VersionParts, NEW o \in Clerks, Landing(o),
           ListRows(o) \/ DropOne(o) \/ DroppedAll(o) \/ DrawOne(o) \/ DrawnAll(o)
    PROVE  Landing(o)'
<1> DEFINE c == clerk[o]  d == clerk'[o]  Back(q) == q \in c.want.rows \ c.missing
<1>0. RowsOK /\ (\A r \in rows : No(r) \in 1..4) /\ c.want.rows \subseteq SavedRows
  BY ClerkIs, NumbersAre, RestoringIs
<1>1. \A q \in c.want.rows : No(Drawn(q)) = No(q) /\ No(q) \in 1..4
  BY <1>0, DrawnNumber
\* What a step that leaves the agents alone has to show.
<1>2. ASSUME c.pc \in {"listing", "dropping", "drawing"}, GoesOnAs(c, d), UNCHANGED model,
             d.pc \in {"listing", "dropping", "drawing", "noting"},
             c.alone = TRUE /\ Furnished(c, rows) => Furnished(d, rows') /\ Landed(d, rows')
      PROVE  Landing(o)'
  <2>1. d.want = c.want /\ d.alone = c.alone
    BY <1>2 DEF GoesOnAs
  <2> HIDE DEF d
  <2>2. c.alone = TRUE => DOMAIN model = DOMAIN c.want.model /\ AgentsMade(c, model, DOMAIN model)
    BY <1>2 DEF Landing, Peopled
  <2>3. d.alone = TRUE => DOMAIN model' = DOMAIN d.want.model /\ AgentsMade(d, model', DOMAIN model')
    BY <1>2, <2>1, <2>2 DEF AgentsMade
  <2>4. d.alone = TRUE => Peopled(d, model')
    BY <1>2, <2>3 DEF Peopled
  <2> QED BY <1>2, <2>1, <2>4 DEF Landing, d
<1>3. c.pc \in {"listing", "dropping", "drawing"} => c.kind \in 1..4
  BY RestoringIs
<1>6. CASE d = NoClerk
  BY <1>6, Done
<1>7. CASE ListRows(o)
  <2>1. c.pc = "listing" /\ GoesOnAs(c, d) /\ d.pc = "dropping" /\ d.kind = c.kind /\ d.missing = c.missing
    BY <1>7, ListRowsIs
  <2>2. d.todo = {r \in rows : No(r) = c.kind} /\ UNCHANGED <<model, rows>>
    BY <1>7, ListRowsIs DEF ListRows, ClerkReads
  <2>3. d.want = c.want
    BY <2>1 DEF GoesOnAs
  <2>4. ASSUME Furnished(c, rows) PROVE Furnished(d, rows') /\ Landed(d, rows')
    <3>1. /\ \A r \in rows : No(r) < c.kind => \E q \in c.want.rows \ c.missing : r = Drawn(q)
          /\ \A q \in c.want.rows \ c.missing : No(q) < c.kind => Drawn(q) \in rows
          /\ \A q \in c.missing : No(q) < c.kind
      BY <2>1, <2>4 DEF Furnished
    <3> HIDE DEF d
    <3> QED BY <2>1, <2>2, <2>3, <3>1 DEF Furnished, Landed
  <2> QED BY <1>2, <2>1, <2>2, <2>4
<1>8. CASE DropOne(o) /\ d # NoClerk
  <2> DEFINE r == OneOf(c.todo)
  <2>1. c.pc = "dropping" /\ GoesOnAs(c, d) /\ d.pc = "dropping" /\ d.kind = c.kind /\ d.missing = c.missing
    BY <1>8, DropOneIs
  <2>2. r \in c.todo /\ d.todo = c.todo \ {r} /\ rows' = rows \ {q \in rows : Key(q) = Key(r)} /\ UNCHANGED model
    BY <1>8, DropOneIs DEF DropOne
  <2>3. d.want = c.want
    BY <2>1 DEF GoesOnAs
  <2> HIDE DEF d, r
  <2>4. ASSUME Furnished(c, rows) PROVE Furnished(d, rows') /\ Landed(d, rows')
    <3>1. /\ \A q \in rows : No(q) < c.kind => \E p \in c.want.rows \ c.missing : q = Drawn(p)
          /\ \A p \in c.want.rows \ c.missing : No(p) < c.kind => Drawn(p) \in rows
          /\ \A p \in c.missing : No(p) < c.kind
          /\ c.todo = {q \in rows : No(q) = c.kind}
      BY <2>1, <2>4 DEF Furnished
    <3>2. r \in rows /\ No(r) = c.kind /\ {q \in rows : Key(q) = Key(r)} = {r}
      BY <1>0, <2>2, <3>1 DEF RowsOK
    <3>3. rows' = rows \ {r}
      BY <2>2, <3>2
    <3>4. c.kind \in Nat
      BY <1>3, <2>1
    <3>5. \A p \in c.want.rows \ c.missing : No(p) < c.kind => Drawn(p) \in rows'
      BY <1>1, <3>1, <3>2, <3>3, <3>4
    <3>6. /\ \A q \in rows' : No(q) < c.kind => \E p \in c.want.rows \ c.missing : q = Drawn(p)
          /\ d.todo = {q \in rows' : No(q) = c.kind}
      BY <2>2, <3>1, <3>3
    <3> QED BY <2>1, <2>3, <3>1, <3>5, <3>6 DEF Furnished, Landed
  <2> QED BY <1>2, <2>1, <2>2, <2>4 DEF d
<1>9. CASE DroppedAll(o)
  <2>1. c.pc = "dropping" /\ GoesOnAs(c, d) /\ d.pc = "drawing" /\ d.kind = c.kind /\ d.missing = c.missing
    BY <1>9, DroppedAllIs
  <2>2. c.todo = {} /\ d.todo = {r \in c.want.rows : No(r) = c.kind} /\ UNCHANGED <<model, rows>>
    BY <1>9, DroppedAllIs DEF DroppedAll, ClerkReads
  <2>3. d.want = c.want
    BY <2>1 DEF GoesOnAs
  <2> HIDE DEF d
  <2>4. ASSUME Furnished(c, rows) PROVE Furnished(d, rows') /\ Landed(d, rows')
    <3>1. /\ \A q \in rows : No(q) < c.kind => \E p \in c.want.rows \ c.missing : q = Drawn(p)
          /\ \A p \in c.want.rows \ c.missing : No(p) < c.kind => Drawn(p) \in rows
          /\ \A p \in c.missing : No(p) < c.kind
          /\ c.todo = {q \in rows : No(q) = c.kind}
      BY <2>1, <2>4 DEF Furnished
    <3>2. \A q \in rows : No(q) # c.kind
      BY <2>2, <3>1
    <3>3. \A p \in c.want.rows \ (c.missing \cup d.todo) : No(p) # c.kind
      BY <2>2
    <3> QED BY <2>1, <2>2, <2>3, <3>1, <3>2, <3>3 DEF Furnished, Landed
  <2> QED BY <1>2, <2>1, <2>2, <2>4 DEF d
<1>10. CASE DrawOne(o) /\ d # NoClerk
  <2> DEFINE r == OneOf(c.todo)
  <2>1. c.pc = "drawing" /\ GoesOnAs(c, d) /\ d.pc = "drawing" /\ d.kind = c.kind
    BY <1>10, DrawOneIs
  <2>2. r \in c.todo /\ No(r) = c.kind /\ d.todo = c.todo \ {r} /\ UNCHANGED model
    BY <1>10, DrawOneIs DEF DrawOne
  <2>3. \/ UNCHANGED rows /\ d.missing = c.missing \cup {r}
        \/ rows' = rows \cup {Drawn(r)} /\ No(Drawn(r)) = No(r) /\ d.missing = c.missing
    BY <1>10, DrawOneIs
  <2>4. d.want = c.want
    BY <2>1 DEF GoesOnAs
  <2>5. r \in c.want.rows
    BY <2>1, <2>2 DEF VersionParts, ClerkFits
  <2> HIDE DEF d, r
  <2>6. ASSUME Furnished(c, rows) PROVE Furnished(d, rows') /\ Landed(d, rows')
    <3>1. /\ \A q \in rows : No(q) < c.kind => \E p \in c.want.rows \ c.missing : q = Drawn(p)
          /\ \A p \in c.want.rows \ c.missing : No(p) < c.kind => Drawn(p) \in rows
          /\ \A p \in c.missing : No(p) < c.kind \/ (No(p) = c.kind /\ p \notin c.todo)
          /\ \A q \in rows : No(q) = c.kind => \E p \in c.want.rows \ (c.missing \cup c.todo) : q = Drawn(p)
          /\ \A p \in c.want.rows \ (c.missing \cup c.todo) : No(p) = c.kind => Drawn(p) \in rows
      BY <2>1, <2>6 DEF Furnished
    <3>2. c.kind \in Nat /\ r \notin c.missing
      BY <1>3, <2>1, <2>2, <3>1
    <3>3. CASE UNCHANGED rows /\ d.missing = c.missing \cup {r}
      <4>1. \A q \in rows' : No(q) < c.kind => \E p \in c.want.rows \ d.missing : q = Drawn(p)
        <5>1. ASSUME NEW q \in rows, No(q) < c.kind PROVE \E p \in c.want.rows \ d.missing : q = Drawn(p)
          <6>1. PICK p \in c.want.rows \ c.missing : q = Drawn(p)
            BY <3>1, <5>1
          <6>2. p # r
            BY <1>1, <2>2, <3>2, <5>1, <6>1
          <6> QED BY <3>3, <6>1, <6>2
        <5> QED BY <3>3, <5>1
      <4>2. \A p \in c.want.rows \ d.missing : No(p) < c.kind => Drawn(p) \in rows'
        BY <3>1, <3>3
      <4>3. \A p \in d.missing : No(p) < c.kind \/ (No(p) = c.kind /\ p \notin d.todo)
        BY <2>2, <3>1, <3>3
      <4>4. c.want.rows \ (d.missing \cup d.todo) = c.want.rows \ (c.missing \cup c.todo)
        BY <2>2, <3>3
      <4> QED BY <2>1, <2>4, <3>1, <3>3, <4>1, <4>2, <4>3, <4>4 DEF Furnished, Landed
    <3>4. CASE rows' = rows \cup {Drawn(r)} /\ No(Drawn(r)) = No(r) /\ d.missing = c.missing
      <4>1. \A q \in rows' : No(q) < c.kind => \E p \in c.want.rows \ d.missing : q = Drawn(p)
        <5>1. ASSUME NEW q \in rows', No(q) < c.kind PROVE q \in rows
          BY <2>2, <3>2, <3>4, <5>1
        <5> QED BY <3>1, <3>4, <5>1
      <4>2. \A p \in c.want.rows \ d.missing : No(p) < c.kind => Drawn(p) \in rows'
        BY <3>1, <3>4
      <4>3. \A p \in d.missing : No(p) < c.kind \/ (No(p) = c.kind /\ p \notin d.todo)
        BY <2>2, <3>1, <3>4
      <4>4. c.want.rows \ (d.missing \cup d.todo) = (c.want.rows \ (c.missing \cup c.todo)) \cup {r}
        BY <2>2, <2>5, <3>2, <3>4
      <4>5. \A q \in rows' : No(q) = c.kind => \E p \in c.want.rows \ (d.missing \cup d.todo) : q = Drawn(p)
        <5>1. ASSUME NEW q \in rows, No(q) = c.kind PROVE \E p \in c.want.rows \ (d.missing \cup d.todo) : q = Drawn(p)
          BY <3>1, <4>4, <5>1
        <5> QED BY <3>4, <4>4, <5>1
      <4>6. \A p \in c.want.rows \ (d.missing \cup d.todo) : No(p) = c.kind => Drawn(p) \in rows'
        BY <3>1, <3>4, <4>4
      <4> QED BY <2>1, <2>4, <4>1, <4>2, <4>3, <4>5, <4>6 DEF Furnished, Landed
    <3> QED BY <2>3, <3>3, <3>4
  <2> QED BY <1>2, <2>1, <2>2, <2>6 DEF d
<1>11. CASE DrawnAll(o)
  <2>1. c.pc = "drawing" /\ GoesOnAs(c, d) /\ c.todo = {} /\ d.missing = c.missing
    BY <1>11, DrawnAllIs
  <2>2. (c.kind < 4 /\ d.pc = "listing" /\ d.kind = c.kind + 1) \/ (c.kind = 4 /\ d.pc = "noting")
    BY <1>11, DrawnAllIs
  <2>3. UNCHANGED <<model, rows>> /\ d.want = c.want
    BY <1>11, <2>1 DEF DrawnAll, ClerkReads, GoesOnAs
  <2> HIDE DEF d
  <2>4. ASSUME Furnished(c, rows) PROVE Furnished(d, rows') /\ Landed(d, rows')
    <3>1. /\ \A q \in rows : No(q) < c.kind => \E p \in c.want.rows \ c.missing : q = Drawn(p)
          /\ \A p \in c.want.rows \ c.missing : No(p) < c.kind => Drawn(p) \in rows
          /\ \A p \in c.missing : No(p) < c.kind \/ No(p) = c.kind
          /\ \A q \in rows : No(q) = c.kind => \E p \in c.want.rows \ c.missing : q = Drawn(p)
          /\ \A p \in c.want.rows \ c.missing : No(p) = c.kind => Drawn(p) \in rows
      BY <2>1, <2>4 DEF Furnished
    <3>2. c.kind \in 1..4
      BY <1>3, <2>1
    <3>3. CASE c.kind < 4 /\ d.pc = "listing" /\ d.kind = c.kind + 1
      <4>1. ASSUME NEW q \in rows, No(q) < c.kind + 1 PROVE \E p \in c.want.rows \ c.missing : q = Drawn(p)
        <5>1. No(q) < c.kind \/ No(q) = c.kind
          BY <1>0, <3>2, <4>1
        <5> QED BY <3>1, <5>1
      <4>2. ASSUME NEW p \in c.want.rows \ c.missing, No(p) < c.kind + 1 PROVE Drawn(p) \in rows
        <5>1. No(p) < c.kind \/ No(p) = c.kind
          BY <1>1, <3>2, <4>2
        <5> QED BY <3>1, <5>1
      <4>4. \A p \in c.missing : No(p) \in 1..4
        BY DrawnNumber, RestoringIs
      <4>3. \A p \in c.missing : No(p) < c.kind + 1
        BY <3>1, <3>2, <4>4
      <4> QED BY <2>1, <2>3, <3>3, <4>1, <4>2, <4>3 DEF Furnished, Landed
    <3>4. CASE c.kind = 4 /\ d.pc = "noting"
      <4>1. ASSUME NEW q \in rows PROVE \E p \in c.want.rows \ c.missing : q = Drawn(p)
        <5>1. No(q) < c.kind \/ No(q) = c.kind
          BY <1>0, <3>4
        <5> QED BY <3>1, <5>1
      <4>2. ASSUME NEW p \in c.want.rows \ c.missing PROVE Drawn(p) \in rows
        <5>1. No(p) < c.kind \/ No(p) = c.kind
          BY <1>1, <3>4
        <5> QED BY <3>1, <5>1
      <4>3. rows = {Drawn(p) : p \in c.want.rows \ c.missing}
        BY <4>1, <4>2
      <4> QED BY <2>1, <2>3, <3>4, <4>3 DEF Furnished, Landed
    <3> QED BY <2>2, <3>3, <3>4
  <2> QED BY <1>2, <2>1, <2>2, <2>3, <2>4 DEF d
<1> QED BY <1>6, <1>7, <1>8, <1>9, <1>10, <1>11

LEMMA LandingStep ==
    ASSUME VersionParts, [VersionNext]_versionVars, NEW o \in Clerks, Landing(o)
    PROVE  Landing(o)'
<1>0. WorldTyped' /\ (Notices(o) \/ ClerkStep(o)) /\ clerk \in [Clerks -> ClerkRecs]
  BY WorldStep, Bystander DEF VersionParts
<1>1. CASE Notices(o)
  BY <1>0, <1>1, NoticedLands
<1>2. CASE NoteRollback(o) \/ RestoreFails(o)
  <2>1. clerk'[o] = NoClerk
    BY <1>0, <1>2, Mine DEF NoteRollback, RestoreFails
  <2> QED BY <2>1, Done
<1>3. CASE AskToSave(o) \/ AskToRollBack(o)
  <2>1. clerk'[o].pc = "agents" /\ clerk'[o].missing = {}
    BY ZenonT(40), <1>0, <1>3, Mine DEF AskToSave, AskToRollBack, NoClerk
  <2> QED BY <2>1 DEF Landing, Peopled, Furnished, Landed
<1>4. CASE TakeAgents(o) \/ TakeRows(o) \/ TakeSkips(o) \/ TakeFails(o) \/ Compare(o) \/ Keep(o)
  BY <1>4, TakesLand
<1>5. CASE ListAgents(o) \/ RemoveOne(o) \/ RemovedAll(o) \/ MakeOne(o) \/ MadeAll(o)
  BY <1>5, AgentsLand
<1>6. CASE ListRows(o) \/ DropOne(o) \/ DroppedAll(o) \/ DrawOne(o) \/ DrawnAll(o)
  BY <1>6, RowsLand
<1> QED BY <1>0, <1>1, <1>2, <1>3, <1>4, <1>5, <1>6 DEF ClerkStep

------------------------------------------------------------------------------
(* Always.                                                                 *)

LEMMA VersionStarts == ASSUME VersionInit PROVE VersionInv
<1>1. PICK S \in SUBSET Helpers : model \in [{Orchestrator} \cup S -> Models \cup {"none"}]
  BY DEF VersionInit
<1>2. ModelOK
  <2>1. DOMAIN model = {Orchestrator} \cup S /\ DOMAIN model \in SUBSET Names
    BY <1>1, NamesApart
  <2>2. model \in Maps
    BY <1>1, <2>1, MapsAre
  <2>3. offered = Models /\ library = Gears
    BY DEF VersionInit
  <2> QED BY <1>1, <2>1, <2>2, <2>3 DEF ModelOK
<1>3. RowsOK
  BY DEF VersionInit, RowsOK
<1>4. versions = <<>> /\ clerk = [o \in Clerks |-> NoClerk]
  BY DEF VersionInit
<1>5. WorldTyped
  BY <1>2, <1>3, <1>4, WorldIs
<1>6. clerk \in [Clerks -> ClerkRecs]
  BY <1>4, NothingIs
<1>7. ASSUME NEW o \in Clerks PROVE ClerkFits(o) /\ Keeping(o) /\ Landing(o)
  <2>1. clerk[o] = NoClerk
    BY <1>4
  <2> QED BY <2>1 DEF NoClerk, ClerkFits, Keeping, Landing, Peopled, Furnished, Landed, Restoring
<1> QED BY <1>5, <1>6, <1>7 DEF VersionInv

LEMMA VersionStep == ASSUME VersionInv, [VersionNext]_versionVars PROVE VersionInv'
<1>1. VersionParts
  BY DEF VersionInv, VersionParts
<1>2. VersionParts'
  BY <1>1, PartsStep
<1>3. ASSUME NEW o \in Clerks PROVE Keeping(o)' /\ Landing(o)'
  BY <1>1, KeepingStep, LandingStep DEF VersionInv
<1> QED BY <1>2, <1>3 DEF VersionInv, VersionParts

LEMMA VersionInvAlways == VersionSpec => []VersionInv
<1>1. VersionInit => VersionInv
  BY VersionStarts
<1>2. VersionInv /\ [VersionNext]_versionVars => VersionInv'
  BY VersionStep
<1> QED BY <1>1, <1>2, PTL DEF VersionSpec

\* The rows of a workspace are always those of agents that are there, one of a key,
\* and every agent has a model that is offered or none, whatever operators, rollbacks and the
\* catalogue do to each other (workspace.go, gear.go, schedule/store.go, workflow/snapshot.go).
THEOREM VersionTyped == VersionSpec => []VersionTypeOK
<1>1. VersionInv => VersionTypeOK
  BY DEF VersionInv, WorldTyped
<1> QED BY <1>1, VersionInvAlways, PTL

LEMMA KeyOfKind == ASSUME NEW q, NEW r, Key(q) = Key(r) PROVE q.kind = r.kind
BY DEF Key

LEMMA KeptWhenDestroyed ==
    ASSUME VersionInv, NEW o \in Clerks, Destroys(o)
    PROVE  /\ \A a \in DOMAIN model \ DOMAIN model' : a \in clerk[o].hired \/ AgentKept(a)
           /\ \A r \in {q \in rows : Key(q) \notin {Key(p) : p \in rows'}} : Covered(clerk[o], r)
<1> DEFINE c == clerk[o]
<1>0. VersionParts /\ Keeping(o) /\ c \in ClerkRecs
  BY ClerkIs DEF VersionInv, VersionParts
<1>1. c.kept = TRUE
  BY <1>0 DEF Destroys, ClerkRecs
<1>2. CASE RemoveOne(o)
  <2>1. c.pc = "removing" /\ c.op = "rollback"
    BY <1>0, <1>2, RestoringIs DEF RemoveOne, ClerkAt, Restoring
  <2> QED BY <1>0, <1>1, <2>1 DEF Keeping
<1>3. CASE DropOne(o)
  <2> DEFINE t == OneOf(c.todo)
  <2>1. c.pc = "dropping" /\ c.op = "rollback" /\ UNCHANGED model
    BY <1>0, <1>3, RestoringIs DEF DropOne, ClerkAt, Restoring
  <2>2. No(t) = c.kind
    BY <1>0, <1>3, EditFacts
  <2>3. UNCHANGED rows \/ rows' = rows \ {q \in rows : Key(q) = Key(t)}
    BY <1>3 DEF DropOne
  <2> HIDE DEF t
  <2>4. ASSUME NEW r \in rows, Key(r) \notin {Key(p) : p \in rows'} PROVE Covered(c, r)
    <3>1. Key(r) = Key(t)
      BY <2>3, <2>4
    <3>2. No(r) = c.kind
      BY <2>2, <3>1, KeyOfKind DEF No
    <3> QED BY <1>0, <1>1, <2>1, <3>2 DEF Keeping
  <2> QED BY <2>1, <2>4
<1> QED BY <1>2, <1>3 DEF Destroys

LEMMA LandedWhenNoted ==
    ASSUME VersionInv, NEW o \in Clerks, NoteRollback(o), clerk[o].alone
    PROVE  /\ DOMAIN model = DOMAIN Wanted(o).model
           /\ \A a \in DOMAIN model : Wanted(o).model[a] \in {model[a], "none"}
           /\ rows = {Drawn(r) : r \in Wanted(o).rows \ clerk[o].missing}
<1>1. clerk[o] \in ClerkRecs /\ Landing(o) /\ Wanted(o) = clerk[o].want
  BY ClerkIs DEF VersionInv, VersionParts
<1>2. clerk[o].alone = TRUE /\ clerk[o].pc = "noting"
  BY <1>1 DEF ClerkRecs, NoteRollback, ClerkAt
<1>3. Peopled(clerk[o], model) /\ Landed(clerk[o], rows)
  BY <1>1, <1>2 DEF Landing
<1> QED BY <1>1, <1>2, <1>3 DEF Peopled, Landed, AgentsMade

\* A rollback takes away only what is on record, what came after it began and clocks no version
\* records, and one that nobody interferes with ends with the agents and rows of the
\* version it goes back to, but for what it says it could not put back
\* (workflow/snapshot.go Take and Restore, versions_drawer.go).
THEOREM VersionsKept == VersionSpec => VersionsHold
<1> DEFINE Kept == \A o \in Clerks : Destroys(o) =>
         /\ \A a \in DOMAIN model \ DOMAIN model' :
               a \in clerk[o].hired \/ \E n \in DOMAIN versions : a \in DOMAIN versions[n].model
         /\ \A r \in {q \in rows : Key(q) \notin {Key(p) : p \in rows'}} :
               \/ r \in clerk[o].since \/ \E n \in DOMAIN versions : r \in AsRecorded(versions[n]).rows
               \/ r.kind = "clock" /\ r.owner \notin Names
           Lands == \A o \in Clerks : NoteRollback(o) /\ clerk[o].alone =>
         /\ DOMAIN model = DOMAIN Wanted(o).model
         /\ \A a \in DOMAIN model : Wanted(o).model[a] \in {model[a], "none"}
         /\ rows = {Drawn(r) : r \in Wanted(o).rows \ clerk[o].missing}
<1>1. VersionInv /\ [VersionNext]_versionVars => Kept
  BY KeptWhenDestroyed DEF Covered, StillNoted, AgentKept, Stray
<1>2. VersionInv /\ [VersionNext]_versionVars => Lands
  BY LandedWhenNoted
<1> HIDE DEF Kept, Lands
<1>3. VersionSpec => [][Kept]_versionVars /\ [][Lands]_versionVars
  BY <1>1, <1>2, VersionInvAlways, PTL DEF VersionSpec
<1> QED BY <1>3 DEF VersionsHold, DestroysOnlyWhatIsKept, RollbackLands, Kept, Lands

------------------------------------------------------------------------------
(* The instances of MCTools, where one of them moves and the others rest.  *)

LEMMA LogIsBounded ==
    ASSUME ProxyInv, Len(netlog) <= MaxDials, [ProxyNext]_proxyVars PROVE (Len(netlog) <= MaxDials)'
<1>0. netlog \in Seq(Terminal \cup {"open"}) /\ Len(netlog) \in Nat /\ MaxDials \in Nat
  BY LenProperties, ProxyConstants DEF ProxyInv, ProxyTypes
<1>1. CASE UNCHANGED netlog
  BY <1>1
<1>2. ASSUME NEW c \in Conns, RecordConn(c) PROVE Len(netlog') <= MaxDials
  <2>1. CASE UNCHANGED netlog
    BY <2>1
  <2>2. ASSUME NEW x, netlog' = Append(netlog, x), Len(netlog) < MaxDials PROVE Len(netlog') <= MaxDials
    <3>1. Len(Append(netlog, x)) = Len(netlog) + 1
      BY <1>0
    <3> QED BY <1>0, <2>2, <3>1
  <2> QED BY <1>2, <2>1, <2>2 DEF RecordConn
<1>3. ASSUME NEW c \in Conns, SettleConn(c) PROVE Len(netlog') <= MaxDials
  <2>1. Len([netlog EXCEPT ![conn[c].row] = conn[c].outcome]) = Len(netlog)
    BY <1>0
  <2> QED BY <1>1, <1>3, <2>1 DEF SettleConn
<1>4. CASE StartGate
  <2>1. Len([n \in DOMAIN netlog |-> IF netlog[n] = "open" THEN "interrupted" ELSE netlog[n]]) = Len(netlog)
    BY <1>0
  <2> QED BY <1>4, <2>1 DEF StartGate
<1>5. ASSUME NEW c \in Conns, GateStep(c) PROVE Len(netlog') <= MaxDials
  BY <1>1, <1>2, <1>3, <1>5 DEF GateStep, Check, Dial, Handshake, Cut, OnlyConn
<1>6. ASSUME NEW c \in Conns, Knock(c) \/ Relay(c) \/ ClientLeaves(c) \/ Finish(c) PROVE UNCHANGED netlog
  BY <1>6 DEF Knock, Relay, ClientLeaves, Finish
<1>7. ASSUME NEW k \in Tickets, OpenTicket(k) \/ CloseTicket(k) \/ ForgetTicket(k) PROVE UNCHANGED netlog
  BY <1>7 DEF OpenTicket, CloseTicket, ForgetTicket, TicketBecomes
<1>8. CASE StopGate
  BY <1>1, <1>8 DEF StopGate
<1>9. CASE UNCHANGED proxyVars
  BY <1>1, <1>9 DEF proxyVars
<1> QED BY <1>1, <1>4, <1>5, <1>6, <1>7, <1>8, <1>9 DEF ProxyNext

LEMMA ProxyInvTypes == ASSUME ProxyInv, Len(netlog) <= MaxDials PROVE ProxyTypeOK
<1>1. \A k \in Tickets : ticket[k].state \in {"none", "open", "closed", "forgotten"}
  BY DEF ProxyInv, ProxyTypes, TicketRecs
<1>2. \A n \in DOMAIN netlog : netlog[n] \in Terminal \cup {"open"}
  BY DEF ProxyInv, ProxyTypes
<1> QED BY <1>1, <1>2 DEF ProxyInv, ProxyTypes, ProxyTypeOK

LEMMA PoolInvTypes == ASSUME PoolInv PROVE PoolTypeOK
<1>1. ASSUME NEW n \in DOMAIN wire PROVE wire[n].state \in {"alive", "dead", "closed"}
  <2>1. wire \in Seq(Links)
    BY DEF PoolInv, PoolTypes
  <2>2. wire[n] \in Links
    BY <2>1
  <2> QED BY <2>2 DEF Links
<1>2. \A k \in Commands : pool[k].conn \in 0..Len(wire)
  BY DEF PoolInv, PoolTypes, Slots, KeptIsOpen
<1> QED BY <1>1, <1>2 DEF PoolInv, PoolTypes, PoolTypeOK

ToolsInv ==
    VersionInv /\ GearInv /\ ProxyInv /\ Len(netlog) <= MaxDials /\ PoolInv /\ TermInv /\ ClockInv

LEMMA ToolsInvStep ==
    ASSUME ToolsInv, [ToolsNext]_<<focus, versionVars, gearVars, proxyVars, poolVars, termVars, clockVars>>
    PROVE  ToolsInv'
<1>1. [VersionNext]_versionVars /\ [GearNext]_gearVars /\ [ProxyNext]_proxyVars
  BY DEF ToolsNext
<1>2. [PoolNext]_poolVars /\ [TermNext]_termVars /\ [ClockNext]_clockVars
  BY DEF ToolsNext
<1> QED BY <1>1, <1>2, VersionStep, GearInvStep, ProxyInvStep, LogIsBounded, PoolInvStep, TermInvStep, ClockInvStep
        DEF ToolsInv

\* In the instances of MCTools too, whichever of them moves: the versions, the gears, the gate, the
\* pool, the shells and the clock stay within their types together.
THEOREM ToolsTyped == ToolsSpec => []ToolsTypeOK
<1>1. ToolsInit => ToolsInv
  <2>1. ASSUME ProxyInit PROVE Len(netlog) <= MaxDials
    BY <2>1, ProxyConstants DEF ProxyInit
  <2> QED BY <2>1, VersionStarts, GearInvInit, ProxyInvInit, PoolInvInit, TermInvInit, ClockInvInit DEF ToolsInit, ToolsInv
<1>2. ToolsInv => ToolsTypeOK
  <2>1. VersionInv => VersionTypeOK
    BY DEF VersionInv, WorldTyped
  <2> QED BY <2>1, GearInvMeans, ProxyInvTypes, PoolInvTypes, TermInvTypes, ClockInvTypes DEF ToolsInv, ToolsTypeOK
<1> QED BY <1>1, <1>2, ToolsInvStep, PTL DEF ToolsSpec

===============================================================================
