---------------------------- MODULE PlatformProofs ----------------------------
(***************************************************************************)
(* What is promised of what the server keeps running beside its agents: the*)
(* update check's one loop (UpdateCheck), the calls of a plugin's backend  *)
(* (PluginBackend), the containers kept warm for gears (WarmPool), and the *)
(* sign-in and the connection to a remote server (McpSignIn, McpWire); for *)
(* any callers, runs, boxes and answers, and any number of faults.         *)
(***************************************************************************)
EXTENDS MCPlatform, SequenceTheorems, FiniteSetTheorems, TLAPS

------------------------------------------------------------------------------
(* The update check: UpdateCheck.                                          *)

Looping(n) == loops[n] \notin {"none", "left"}

AnswerPCs == {"none", "storing", "ticking", "looking", "ask", "on"}
AnswerTypeOK == answer \in [pc : AnswerPCs, mode : Modes \cup {"none"}]

\* The count the checker keeps is the number of loops there are: none or one.
LiveCounts ==
    \/ live = 0 /\ \A n \in 1..MaxLoops : ~Looping(n)
    \/ live = 1 /\ \E n \in 1..MaxLoops : Looping(n) /\ \A k \in 1..MaxLoops : Looping(k) => k = n

\* An answer on its way to the row is the last one; after that the row has it.
RowFollows ==
    /\ answer.pc = "storing" => mode = given /\ answer.mode = given
    /\ given # "none" /\ ~lost /\ answer.pc # "storing" => stored = given

UpdateInv ==
    /\ UpdateTypeOK /\ AnswerTypeOK
    /\ LiveCounts /\ FileIsObeyed /\ RowFollows /\ AnswerHolds

LEMMA UpdateInvInit == UpdateInit(Modes) => UpdateInv
<1> SUFFICES ASSUME UpdateInit(Modes) PROVE UpdateInv
  OBVIOUS
<1> USE UpdateConstants DEF UpdateInit, Modes, NoAnswerYet
<1>1. UpdateTypeOK /\ AnswerTypeOK
  BY DEF UpdateTypeOK, AnswerTypeOK, LoopPCs, AnswerPCs
<1>2. FileIsObeyed /\ RowFollows /\ AnswerHolds
  BY DEF FileIsObeyed, RowFollows, AnswerHolds
<1>3. LiveCounts
  <2>1. 1 \in 1..MaxLoops
    OBVIOUS
  <2> QED BY <2>1 DEF LiveCounts, Looping
<1> QED BY <1>1, <1>2, <1>3 DEF UpdateInv

LEMMA UpdateInvStep == UpdateInv /\ [UpdateNext]_updateVars => UpdateInv'
<1> SUFFICES ASSUME UpdateInv, [UpdateNext]_updateVars PROVE UpdateInv'
  OBVIOUS
<1> USE UpdateConstants DEF Modes, NoAnswerYet, Unasked, AnswerPCs, LoopPCs
<1> USE DEF UpdateInv
<1>1. ASSUME NEW m \in Modes, RefuseAnswer(m) PROVE UpdateInv'
  <2>1. UpdateTypeOK' /\ AnswerTypeOK'
    BY <1>1 DEF RefuseAnswer, UpdateTypeOK, AnswerTypeOK
  <2>2. LiveCounts'
    BY <1>1 DEF RefuseAnswer, LiveCounts, Looping
  <2>3. (FileIsObeyed /\ RowFollows /\ AnswerHolds)'
    BY <1>1 DEF RefuseAnswer, FileIsObeyed, RowFollows, AnswerHolds
  <2> QED BY <2>1, <2>2, <2>3
<1>2. ASSUME NEW m \in Modes, AnswerWith(m) PROVE UpdateInv'
  <2>1. UpdateTypeOK' /\ AnswerTypeOK'
    BY <1>2 DEF AnswerWith, UpdateTypeOK, AnswerTypeOK
  <2>2. LiveCounts'
    BY <1>2 DEF AnswerWith, LiveCounts, Looping
  <2>3. (FileIsObeyed /\ RowFollows /\ AnswerHolds)'
    BY <1>2 DEF AnswerWith, FileIsObeyed, RowFollows, AnswerHolds
  <2> QED BY <2>1, <2>2, <2>3
<1>3. ASSUME NEW m \in Modes, Reboot(m) PROVE UpdateInv'
  <2>1. mode' \in Loaded(ceiling', stored)
    BY <1>3 DEF Reboot
  <2>2. UpdateTypeOK' /\ AnswerTypeOK'
    BY <1>3, <2>1 DEF Reboot, Loaded, UpdateTypeOK, AnswerTypeOK
  <2>3. LiveCounts'
    <3>1. 1 \in 1..MaxLoops
      OBVIOUS
    <3> QED BY <1>3, <3>1 DEF Reboot, LiveCounts, Looping
  <2>4. (FileIsObeyed /\ RowFollows /\ AnswerHolds)'
    BY <1>3, <2>1 DEF Reboot, Loaded, FileIsObeyed, RowFollows, AnswerHolds, UpdateTypeOK
  <2> QED BY <2>2, <2>3, <2>4
<1>4. ASSUME NEW l \in Lookers, CheckNow(l) \/ FoundNow(l) PROVE UpdateInv'
  <2>1. UpdateTypeOK' /\ AnswerTypeOK'
    BY <1>4 DEF CheckNow, FoundNow, UpdateTypeOK, AnswerTypeOK
  <2>2. LiveCounts'
    BY <1>4 DEF CheckNow, FoundNow, LiveCounts, Looping
  <2>3. (FileIsObeyed /\ RowFollows /\ AnswerHolds)'
    BY <1>4 DEF CheckNow, FoundNow, FileIsObeyed, RowFollows, AnswerHolds, UpdateTypeOK
  <2> QED BY <2>1, <2>2, <2>3
<1>5. ASSUME NEW n \in 1..MaxLoops, Wake(n) \/ LoopLooks(n) PROVE UpdateInv'
  <2>1. PICK pc \in LoopPCs \ {"none", "left"} : loops' = [loops EXCEPT ![n] = pc] /\ Looping(n)
    <3>1. mode # "off" => mode \in {"ask", "on"}
      BY DEF UpdateTypeOK
    <3> QED BY <1>5, <3>1 DEF Wake, LoopLooks, Loop, Looping
  <2>2. UNCHANGED <<ceiling, answers, reboots, stored, mode, report, answer, live, look, given, lost>>
    BY <1>5 DEF Wake, LoopLooks
  <2>3. UpdateTypeOK' /\ AnswerTypeOK'
    BY <2>1, <2>2 DEF UpdateTypeOK, AnswerTypeOK
  <2>4. LiveCounts'
    BY <2>1, <2>2 DEF LiveCounts, Looping, UpdateTypeOK
  <2>5. (FileIsObeyed /\ RowFollows /\ AnswerHolds)'
    BY <2>2 DEF FileIsObeyed, RowFollows, AnswerHolds
  <2> QED BY <2>3, <2>4, <2>5
<1>6. ASSUME NEW n \in 1..MaxLoops, LoopFinds(n) PROVE UpdateInv'
  <2>1. UpdateTypeOK' /\ AnswerTypeOK'
    BY <1>6 DEF LoopFinds, Loop, UpdateTypeOK, AnswerTypeOK
  <2>2. LiveCounts' /\ live # 0
    BY <1>6 DEF LoopFinds, Loop, LiveCounts, Looping, UpdateTypeOK
  <2>3. (FileIsObeyed /\ RowFollows /\ AnswerHolds)'
    BY <1>6, <2>2 DEF LoopFinds, Loop, FileIsObeyed, RowFollows, AnswerHolds
  <2> QED BY <2>1, <2>2, <2>3
<1>7. ASSUME NEW n \in 1..MaxLoops, LeaveLoop(n) PROVE UpdateInv'
  <2>1. live = 1 /\ \A k \in 1..MaxLoops : Looping(k) => k = n
    BY <1>7 DEF LeaveLoop, Loop, LiveCounts, Looping
  <2>2. UpdateTypeOK' /\ AnswerTypeOK'
    BY <1>7, <2>1 DEF LeaveLoop, Loop, UpdateTypeOK, AnswerTypeOK
  <2>3. LiveCounts'
    BY <1>7, <2>1 DEF LeaveLoop, Loop, LiveCounts, Looping, UpdateTypeOK
  <2>4. (FileIsObeyed /\ RowFollows /\ AnswerHolds)'
    BY <1>7, <2>1 DEF LeaveLoop, Loop, FileIsObeyed, RowFollows, AnswerHolds
  <2> QED BY <2>2, <2>3, <2>4
<1>8. CASE StoreAnswer
  <2>1. UpdateTypeOK' /\ AnswerTypeOK'
    BY <1>8 DEF StoreAnswer, UpdateTypeOK, AnswerTypeOK
  <2>2. LiveCounts'
    BY <1>8 DEF StoreAnswer, LiveCounts, Looping
  <2>3. (FileIsObeyed /\ RowFollows /\ AnswerHolds)'
    BY <1>8 DEF StoreAnswer, FileIsObeyed, RowFollows, AnswerHolds, AnswerTypeOK
  <2> QED BY <2>1, <2>2, <2>3
<1>9. CASE Tick
  <2>1. UpdateTypeOK' /\ AnswerTypeOK'
    BY <1>9 DEF Tick, UpdateTypeOK, AnswerTypeOK
  <2>2. LiveCounts'
    <3>1. CASE UNCHANGED <<loops, live>>
      BY <3>1 DEF LiveCounts, Looping
    <3>2. CASE ~UNCHANGED <<loops, live>>
      <4>1. PICK n \in 1..MaxLoops : loops' = [loops EXCEPT ![n] = "waiting"]
        BY <1>9, <3>2 DEF Tick
      <4>2. live = 0 /\ live' = 1
        BY <1>9, <3>2 DEF Tick
      <4>3. \A k \in 1..MaxLoops : ~Looping(k)
        BY <4>2 DEF LiveCounts
      <4>4. /\ loops'[n] = "waiting"
            /\ \A k \in 1..MaxLoops : k # n => loops'[k] = loops[k]
        BY <4>1 DEF UpdateTypeOK
      <4>5. Looping(n)' /\ \A k \in 1..MaxLoops : Looping(k)' => k = n
        BY <4>3, <4>4 DEF Looping
      <4> QED BY <4>2, <4>5 DEF LiveCounts
    <3> QED BY <3>1, <3>2
  <2>3. (FileIsObeyed /\ RowFollows /\ AnswerHolds)'
    BY <1>9 DEF Tick, FileIsObeyed, RowFollows, AnswerHolds, AnswerTypeOK
  <2> QED BY <2>1, <2>2, <2>3
<1>10. CASE LookAfterAnswer
  <2>1. UpdateTypeOK' /\ AnswerTypeOK'
    BY <1>10 DEF LookAfterAnswer, UpdateTypeOK, AnswerTypeOK
  <2>2. LiveCounts'
    BY <1>10 DEF LookAfterAnswer, LiveCounts, Looping
  <2>3. (FileIsObeyed /\ RowFollows /\ AnswerHolds)'
    <3>1. mode \in Modes
      BY DEF UpdateTypeOK
    <3>2. answer' = [answer EXCEPT !.pc = mode] \/ answer'.pc = "none"
      BY <1>10 DEF LookAfterAnswer
    <3>3. answer'.pc # "storing" /\ answer.pc # "storing"
      BY <1>10, <3>1, <3>2 DEF LookAfterAnswer, AnswerTypeOK
    <3> QED BY <1>10, <3>3 DEF LookAfterAnswer, FileIsObeyed, RowFollows, AnswerHolds
  <2> QED BY <2>1, <2>2, <2>3
<1>11. CASE UNCHANGED updateVars
  BY <1>11 DEF updateVars, UpdateTypeOK, AnswerTypeOK, LiveCounts, Looping, FileIsObeyed,
               RowFollows, AnswerHolds
<1> QED BY <1>1, <1>2, <1>3, <1>4, <1>5, <1>6, <1>7, <1>8, <1>9, <1>10, <1>11 DEF UpdateNext

LEMMA LiveIsOneLoop == LiveCounts => OneLoop
<1> SUFFICES ASSUME LiveCounts PROVE OneLoop
  OBVIOUS
<1> DEFINE R == {n \in 1..MaxLoops : loops[n] \notin {"none", "left"}}
<1>1. R = {} \/ \E n : R = {n}
  BY DEF LiveCounts, Looping
<1>2. Cardinality({}) = 0 /\ \A n : Cardinality({n}) = 1
  BY FS_EmptySet, FS_Singleton
<1>3. Cardinality(R) \in {0, 1}
  BY <1>1, <1>2
<1> QED BY <1>3 DEF OneLoop

(* At no time does more than one loop ask for releases, what the file forbids is never
   asked or waited for, and the answer an administrator gave holds across restarts while
   its row could be written and read (update.go: SetMode, Load, tick, loop, Check).  *)
THEOREM AnswersAreKept == UpdateSpec => []UpdatesAreDecided
<1>1. UpdateInv => UpdatesAreDecided
  BY LiveIsOneLoop DEF UpdateInv, UpdatesAreDecided
<1> QED BY <1>1, UpdateInvInit, UpdateInvStep, PTL DEF UpdateSpec

------------------------------------------------------------------------------
(* The calls of a plugin's backend: PluginBackend.                         *)

Frames == {Hello, Noise} \cup HostCalls \cup {AnswerOf(c) : c \in Calls}

Exchanging(c) == call[c].pc \in {"greeting", "writing", "reading"}

\* Whoever holds the worker is in an exchange, and nobody else is.
HolderTalks == \A c \in Calls : Exchanging(c) <=> holder = c

\* The pipe holds a frame at most, and it is one the exchange that holds the worker is
\* about: nothing is left in it from one exchange to the next.
PipeFree == requests = <<>> /\ frames = <<>>
PipeOf(c) ==
    /\ call[c].pc = "greeting" =>
          /\ requests = <<>> /\ frames \in {<<>>, <<Hello>>, <<Noise>>}
          /\ child.at \in {"greeting", "listening", "dead"}
          /\ child.at = "greeting" => frames = <<>>
    /\ call[c].pc = "writing" => PipeFree /\ child.at \in {"listening", "dead"}
    /\ call[c].pc = "reading" =>
          /\ child.at \in {"listening", "working", "asking", "dead"}
          /\ requests \in {<<>>, <<c>>}
          /\ requests # <<>> => frames = <<>> /\ child.at \in {"listening", "dead"}
          /\ frames = <<>> \/ \E f \in {Noise, AnswerOf(c)} \cup HostCalls : frames = <<f>>
          /\ child.at \in {"working", "asking"} => child.by = c
          /\ child.at = "working" => frames = <<>>
          /\ child.at = "asking" => frames # <<AnswerOf(c)>>
          /\ \A f \in HostCalls : frames = <<f>> => child.at \in {"asking", "dead"}
PipeFits ==
    /\ holder = NoCall => PipeFree /\ child.at \in {"none", "listening", "dead"}
    /\ \A c \in Calls : holder = c => PipeOf(c)

\* A swap was told true from versions the row has left behind.
SwapsAreBehind == ~lostSwap /\ \A v \in swaps : v < row

BackendInv ==
    BackendTypeOK /\ AnswersAreTheirs /\ HolderTalks /\ PipeFits /\ OneChild /\ SwapsAreBehind

\* A pipe with one frame in it: what reading it, and writing to an empty pipe, give.
LEMMA OneFrame ==
    ASSUME NEW f
    PROVE  /\ Head(<<f>>) = f /\ Tail(<<f>>) = <<>> /\ <<f>> # <<>> /\ Append(<<>>, f) = <<f>>
           /\ <<f>> \o <<>> = <<f>>
OBVIOUS

CallRecs == [pc : CallPCs, asked : 0..MaxHostCalls,
             told : Calls \cup {NoAnswer, "refused", "failed"}]

\* What is asked of the host is neither noise nor an answer.
LEMMA AsksAreAsks ==
    ASSUME NEW f \in HostCalls
    PROVE  f.say \in {"set", "delete", "swap"} /\ f # Noise /\ \A c \in Calls : f # AnswerOf(c)
<1>1. PICK how \in {"set", "delete", "swap"}, v \in 0..MaxVersion : f = [say |-> how, of |-> v]
  BY DEF HostCalls
<1>2. f.say = how /\ Noise.say = "noise" /\ \A c \in Calls : AnswerOf(c).say = "answer"
  BY <1>1 DEF Noise, AnswerOf
<1> QED BY <1>2

\* A call moves on: only where it is changes.
LEMMA CallGoes ==
    ASSUME call \in [Calls -> CallRecs], NEW c \in Calls, NEW pc \in CallPCs,
           call' = [call EXCEPT ![c].pc = pc]
    PROVE  /\ call' \in [Calls -> CallRecs]
           /\ call'[c].pc = pc /\ call'[c].told = call[c].told
           /\ \A d \in Calls : d # c => call'[d] = call[d]
BY DEF CallRecs

\* A call is told what became of it.
LEMMA CallIsTold ==
    ASSUME call \in [Calls -> CallRecs], NEW c \in Calls,
           NEW what \in {c, "refused", "failed"}, Tell(c, what)
    PROVE  /\ call' \in [Calls -> CallRecs]
           /\ call'[c].pc = "told" /\ call'[c].told = what
           /\ \A d \in Calls : d # c => call'[d] = call[d]
BY DEF CallRecs, CallPCs, Tell

LEMMA BackendInvInit == BackendInit => BackendInv
<1> SUFFICES ASSUME BackendInit PROVE BackendInv
  OBVIOUS
<1> USE SomebodyCalls
<1>1. /\ MaxHostCalls \in Nat /\ MaxChildren \in Nat /\ MaxVersion \in Nat
  BY BackendConstants
<1>2. AtRest \in CallRecs /\ NoChild \in [at : ChildAts, by : Calls \cup {NoCall}]
  BY <1>1 DEF AtRest, NoChild, CallPCs, ChildAts, CallRecs
<1>3. call \in [Calls -> CallRecs]
  BY <1>2 DEF BackendInit
<1>4. BackendTypeOK
  <2>1. call \in [Calls -> [pc : CallPCs, asked : 0..MaxHostCalls,
                            told : Calls \cup {NoAnswer, "refused", "failed"}]]
    BY <1>3 DEF CallRecs
  <2>2. BackendInit => child = NoChild /\ holder = NoCall /\ children = 0 /\ alive = {} /\ row = 0
    BY DEF BackendInit
  <2>3. resting \in BOOLEAN /\ loose \in BOOLEAN /\ lostSwap \in BOOLEAN /\ swaps = {}
    BY DEF BackendInit
  <2> QED BY <1>1, <1>2, <2>1, <2>2, <2>3 DEF BackendTypeOK
<1>5. AnswersAreTheirs /\ HolderTalks
  BY DEF BackendInit, AtRest, AnswersAreTheirs, HolderTalks, Exchanging
<1>6. PipeFits /\ OneChild /\ SwapsAreBehind
  BY DEF BackendInit, NoChild, PipeFits, PipeFree, OneChild, SwapsAreBehind
<1> QED BY <1>4, <1>5, <1>6 DEF BackendInv

\* A step of the call that holds the worker, or takes it, keeps whose the answers are and
\* who talks.
LEMMA CallKeepsRest ==
    ASSUME BackendInv, NEW c \in Calls, call' \in [Calls -> CallRecs],
           \A d \in Calls : d # c => call'[d] = call[d],
           call'[c].told \in {c, NoAnswer, "refused", "failed"},
           holder \in {NoCall, c}, holder' = IF Exchanging(c)' THEN c ELSE NoCall
    PROVE  AnswersAreTheirs' /\ HolderTalks' /\ holder' \in Calls \cup {NoCall}
<1>1. AnswersAreTheirs'
  BY DEF BackendInv, AnswersAreTheirs
<1>2. HolderTalks'
  BY SomebodyCalls DEF BackendInv, HolderTalks, Exchanging
<1> QED BY <1>1, <1>2

\* What the pipe looks like once the call in the exchange is c.
LEMMA PipeIsHolders ==
    ASSUME NEW c \in Calls, holder' = c, PipeOf(c)'
    PROVE  PipeFits'
BY SomebodyCalls DEF PipeFits

\* What the pipe looks like between calls.
LEMMA PipeIsFree ==
    ASSUME holder' = NoCall, PipeFree', child'.at \in {"none", "listening", "dead"}
    PROVE  PipeFits'
BY SomebodyCalls DEF PipeFits

\* What is left to show of a step of a call, once where it goes is known.
LEMMA CallStep ==
    ASSUME BackendInv, NEW c \in Calls, call' \in [Calls -> CallRecs],
           \A d \in Calls : d # c => call'[d] = call[d],
           call'[c].told \in {c, NoAnswer, "refused", "failed"},
           holder \in {NoCall, c}, holder' = IF Exchanging(c)' THEN c ELSE NoCall,
           PipeFits', OneChild', SwapsAreBehind',
           child' \in [at : ChildAts, by : Calls \cup {NoCall}], resting' \in BOOLEAN,
           loose' \in BOOLEAN, lostSwap' \in BOOLEAN, children' \in 0..MaxChildren,
           alive' \subseteq 1..MaxChildren, row' \in 0..MaxVersion, swaps' \subseteq 1..MaxVersion
    PROVE  BackendInv'
<1>1. AnswersAreTheirs' /\ HolderTalks' /\ holder' \in Calls \cup {NoCall}
  BY CallKeepsRest
<1>2. BackendTypeOK'
  BY <1>1 DEF BackendTypeOK, CallRecs
<1> QED BY <1>1, <1>2 DEF BackendInv

\* Whatever is not the call's stays as it was: the row, or the children.
LEMMA RowStays ==
    ASSUME BackendInv, UNCHANGED Kv
    PROVE  /\ lostSwap' \in BOOLEAN /\ row' \in 0..MaxVersion /\ swaps' \subseteq 1..MaxVersion
           /\ SwapsAreBehind'
BY DEF BackendInv, BackendTypeOK, SwapsAreBehind, Kv

LEMMA ChildStays ==
    ASSUME BackendInv, UNCHANGED <<child, children, alive>>
    PROVE  /\ child' \in [at : ChildAts, by : Calls \cup {NoCall}] /\ children' \in 0..MaxChildren
           /\ alive' \subseteq 1..MaxChildren /\ OneChild'
BY DEF BackendInv, BackendTypeOK, OneChild

LEMMA ChildStops ==
    ASSUME BackendInv, StopLocked, UNCHANGED children
    PROVE  /\ child' \in [at : ChildAts, by : Calls \cup {NoCall}] /\ children' \in 0..MaxChildren
           /\ alive' \subseteq 1..MaxChildren /\ OneChild' /\ PipeFree' /\ child'.at = "none"
BY DEF BackendInv, BackendTypeOK, OneChild, StopLocked, NoChild, PipeFree, ChildAts

\* A call that has yet to hold the worker.
LEMMA CallBegins ==
    ASSUME BackendInv, NEW c \in Calls,
           AskPlugin(c) \/ UseChild(c) \/ RefuseForNow(c) \/ StartChild(c) \/ StartFails(c)
    PROVE  BackendInv'
<1>0. /\ call \in [Calls -> CallRecs] /\ resting \in BOOLEAN /\ loose \in BOOLEAN
      /\ call[c].told \in {c, NoAnswer, "refused", "failed"}
  BY DEF BackendInv, BackendTypeOK, CallRecs, AnswersAreTheirs
<1>1. CASE AskPlugin(c)
  <2> USE <1>1 DEF AskPlugin, Pipes, Born, Kv
  <2>1. /\ call' \in [Calls -> CallRecs]
        /\ call'[c].pc = "waiting" /\ call'[c].told = call[c].told
        /\ \A d \in Calls : d # c => call'[d] = call[d]
    BY <1>0, CallGoes DEF CallPCs
  <2>2. BackendTypeOK'
    BY <2>1 DEF BackendInv, BackendTypeOK, CallRecs
  <2>3. AnswersAreTheirs' /\ HolderTalks'
    BY <2>1 DEF BackendInv, AnswersAreTheirs, HolderTalks, Exchanging
  <2>4. PipeFits'
    BY <2>1 DEF BackendInv, PipeFits, PipeFree, PipeOf, HolderTalks, Exchanging
  <2>5. OneChild' /\ SwapsAreBehind'
    BY DEF BackendInv, OneChild, SwapsAreBehind
  <2> QED BY <2>2, <2>3, <2>4, <2>5 DEF BackendInv
<1>2. CASE UseChild(c)
  <2> USE <1>2 DEF UseChild, Pipes, Born
  <2>1. /\ call' \in [Calls -> CallRecs]
        /\ call'[c].pc = "writing" /\ call'[c].told = call[c].told
        /\ \A d \in Calls : d # c => call'[d] = call[d]
    BY <1>0, CallGoes DEF CallPCs
  <2>2. PipeFree /\ child.at \in {"listening", "dead"}
    BY DEF BackendInv, PipeFits
  <2>3. PipeFits'
    BY <2>1, <2>2, PipeIsHolders DEF PipeOf, PipeFree
  <2> HIDE DEF UseChild
  <2>4. holder = NoCall /\ holder' = c /\ UNCHANGED <<child, children, alive, resting, loose>> /\ UNCHANGED Kv
    BY DEF UseChild
  <2>5. holder' = IF Exchanging(c)' THEN c ELSE NoCall
    BY <2>1, <2>4 DEF Exchanging
  <2> QED BY <1>0, <2>1, <2>3, <2>4, <2>5, CallStep, RowStays, ChildStays
<1>3. CASE RefuseForNow(c) \/ StartFails(c)
  <2>1. /\ holder = NoCall /\ child.at = "none" /\ UNCHANGED <<child, children, alive, requests, frames, loose>>
        /\ UNCHANGED Kv /\ resting' \in BOOLEAN
    BY <1>0, <1>3 DEF RefuseForNow, StartFails, Pipes, Born
  <2>2. PICK what \in {"refused", "failed"} : Tell(c, what)
    BY <1>3 DEF RefuseForNow, StartFails
  <2>3. /\ call' \in [Calls -> CallRecs] /\ call'[c].pc = "told" /\ call'[c].told = what
        /\ \A d \in Calls : d # c => call'[d] = call[d]
    BY <1>0, <2>2, CallIsTold
  <2>4. holder' = NoCall
    BY <2>2 DEF Tell
  <2>5. PipeFits'
    BY <2>1, <2>4, PipeIsFree DEF BackendInv, PipeFits, PipeFree
  <2>6. holder' = IF Exchanging(c)' THEN c ELSE NoCall
    BY <2>3, <2>4 DEF Exchanging
  <2> QED BY <1>0, <2>1, <2>3, <2>5, <2>6, CallStep, RowStays, ChildStays
<1>4. CASE StartChild(c)
  <2> USE <1>4 DEF StartChild, Pipes
  <2>1. /\ call' \in [Calls -> CallRecs]
        /\ call'[c].pc = "greeting" /\ call'[c].told = call[c].told
        /\ \A d \in Calls : d # c => call'[d] = call[d]
    BY <1>0, CallGoes DEF CallPCs
  <2>2. PipeFree /\ alive = {} /\ children \in Nat /\ MaxChildren \in Nat
    BY BackendConstants DEF BackendInv, PipeFits, OneChild, BackendTypeOK
  <2>3. PipeFits'
    BY <2>1, <2>2, PipeIsHolders DEF PipeOf, PipeFree
  <2>4. /\ child' \in [at : ChildAts, by : Calls \cup {NoCall}] /\ children' \in 0..MaxChildren
        /\ alive' \subseteq 1..MaxChildren /\ OneChild'
    BY <2>2 DEF OneChild, ChildAts
  <2>5. holder = NoCall /\ holder' = c /\ UNCHANGED <<resting, loose>> /\ UNCHANGED Kv
    OBVIOUS
  <2>6. holder' = IF Exchanging(c)' THEN c ELSE NoCall
    BY <2>1, <2>5 DEF Exchanging
  <2> HIDE DEF StartChild
  <2> QED BY <1>0, <2>1, <2>3, <2>4, <2>5, <2>6, CallStep, RowStays
<1> QED BY <1>1, <1>2, <1>3, <1>4

\* The call in the exchange, and nobody else, holds the worker.
LEMMA HolderIs ==
    ASSUME BackendInv, NEW c \in Calls, call[c].pc \in {"greeting", "writing", "reading"}
    PROVE  holder = c /\ PipeOf(c) /\ holder # NoCall
BY SomebodyCalls DEF BackendInv, HolderTalks, Exchanging, PipeFits

\* A call that gives its exchange up: the child is stopped, and the pipe with it.
LEMMA CallGivesUp ==
    ASSUME BackendInv, NEW c \in Calls, NoHello(c) \/ ExchangeFails(c)
    PROVE  BackendInv'
<1>0. /\ call \in [Calls -> CallRecs] /\ resting \in BOOLEAN /\ loose \in BOOLEAN
  BY DEF BackendInv, BackendTypeOK, CallRecs
<1>1. /\ StopLocked /\ Tell(c, "failed") /\ UNCHANGED children /\ UNCHANGED Kv
      /\ call[c].pc \in {"greeting", "writing", "reading"}
  BY DEF NoHello, ExchangeFails, Born
<1>2. resting' \in BOOLEAN /\ loose' \in BOOLEAN
  BY <1>0 DEF NoHello, ExchangeFails, Hears
<1>3. /\ call' \in [Calls -> CallRecs] /\ call'[c].pc = "told" /\ call'[c].told = "failed"
      /\ \A d \in Calls : d # c => call'[d] = call[d]
  BY <1>0, <1>1, CallIsTold
<1>4. holder = c /\ holder' = NoCall
  BY <1>1, HolderIs DEF Tell
<1>5. PipeFits'
  BY <1>1, <1>4, ChildStops, PipeIsFree
<1>6. holder' = IF Exchanging(c)' THEN c ELSE NoCall
  BY <1>3, <1>4 DEF Exchanging
<1> QED BY <1>1, <1>2, <1>3, <1>4, <1>5, <1>6, CallStep, RowStays, ChildStops

\* A call goes on with its exchange, from the hello to the request.
LEMMA CallGoesOn ==
    ASSUME BackendInv, NEW c \in Calls, HearHello(c) \/ WriteRequest(c)
    PROVE  BackendInv'
<1>0. /\ call \in [Calls -> CallRecs] /\ resting \in BOOLEAN /\ loose \in BOOLEAN
      /\ call[c].told \in {c, NoAnswer, "refused", "failed"}
  BY DEF BackendInv, BackendTypeOK, CallRecs, AnswersAreTheirs
<1>1. /\ UNCHANGED <<holder, child, children, alive, loose>> /\ UNCHANGED Kv
      /\ call[c].pc \in {"greeting", "writing", "reading"} /\ resting' \in BOOLEAN
  BY <1>0 DEF HearHello, WriteRequest, Born
<1>2. holder = c /\ PipeOf(c)
  BY <1>1, HolderIs
<1>3. PICK pc \in {"writing", "reading"} : call' = [call EXCEPT ![c].pc = pc]
  BY DEF HearHello, WriteRequest
<1>4. /\ call' \in [Calls -> CallRecs] /\ call'[c].pc = pc /\ call'[c].told = call[c].told
      /\ \A d \in Calls : d # c => call'[d] = call[d]
  BY <1>0, <1>3, CallGoes DEF CallPCs
<1>5. PipeFits'
  <2>1. CASE HearHello(c)
    <3>1. call'[c].pc = "writing"
      BY <2>1, <1>0 DEF HearHello, CallRecs
    <3>2. frames = <<Hello>> /\ requests = <<>>
      BY <2>1, <1>2 DEF HearHello, PipeOf, Hello, Noise
    <3>3. frames' = <<>> /\ requests' = <<>>
      BY <2>1, <3>2, OneFrame DEF HearHello
    <3>4. child'.at \in {"listening", "dead"}
      BY <2>1, <1>1, <1>2, <3>2, OneFrame DEF HearHello, PipeOf
    <3>5. PipeOf(c)'
      BY <3>1, <3>3, <3>4 DEF PipeOf, PipeFree
    <3> QED BY <1>1, <1>2, <3>5, PipeIsHolders
  <2>2. CASE WriteRequest(c)
    <3>1. call'[c].pc = "reading" /\ call[c].pc = "writing" /\ child.at # "dead"
      BY <2>2, <1>0 DEF WriteRequest, CallRecs
    <3>2. PipeFree /\ child.at = "listening"
      BY <3>1, <1>2 DEF PipeOf
    <3>3. requests' = <<c>> /\ frames' = <<>>
      BY <2>2, <3>2, OneFrame DEF WriteRequest, PipeFree
    <3>4. PipeOf(c)'
      BY <1>1, <3>1, <3>2, <3>3, OneFrame DEF PipeOf
    <3> QED BY <1>1, <1>2, <3>4, PipeIsHolders
  <2> QED BY <2>1, <2>2
<1>6. holder' = IF Exchanging(c)' THEN c ELSE NoCall
  BY <1>1, <1>2, <1>3, <1>4 DEF Exchanging
<1> QED BY <1>0, <1>1, <1>2, <1>4, <1>5, <1>6, CallStep, RowStays, ChildStays

\* What is read while a call waits for its answer: the call's own answer, or what its
\* exchange asks, and nothing is behind it.
LEMMA WhatIsHeard ==
    ASSUME BackendInv, NEW c \in Calls, NEW what, Hears(c, what)
    PROVE  /\ call[c].pc = "reading" /\ holder = c /\ requests = <<>> /\ Tail(frames) = <<>>
           /\ child.at \in {"listening", "asking", "dead"}
           /\ Head(frames) \in {Noise, AnswerOf(c)} \cup HostCalls
           /\ frames = <<Head(frames)>>
<1>1. call[c].pc = "reading" /\ frames # <<>>
  BY DEF Hears
<1>2. holder = c /\ PipeOf(c)
  BY <1>1, HolderIs
<1>3. PICK f \in {Noise, AnswerOf(c)} \cup HostCalls : frames = <<f>>
  BY <1>1, <1>2 DEF PipeOf
<1>4. requests = <<>> /\ child.at \in {"listening", "asking", "dead"}
  BY <1>1, <1>2 DEF PipeOf
<1> QED BY <1>1, <1>2, <1>3, <1>4, OneFrame

LEMMA CallHears ==
    ASSUME BackendInv, NEW c \in Calls, HearAnswer(c)
    PROVE  BackendInv'
<1>0. /\ call \in [Calls -> CallRecs] /\ resting \in BOOLEAN /\ loose \in BOOLEAN
  BY DEF BackendInv, BackendTypeOK, CallRecs
<1>1. /\ UNCHANGED <<child, children, alive, requests, resting, loose>> /\ UNCHANGED Kv
      /\ Hears(c, {"answer"}) /\ frames' = Tail(frames)
  BY DEF HearAnswer, Born
<1>2. /\ call[c].pc = "reading" /\ holder = c /\ requests = <<>> /\ Tail(frames) = <<>>
      /\ Head(frames) \in {Noise, AnswerOf(c)} \cup HostCalls /\ frames = <<Head(frames)>>
  BY <1>1, WhatIsHeard
<1>3. Head(frames).say = "answer"
  BY <1>1 DEF Hears
<1>4. Head(frames) = AnswerOf(c)
  BY <1>2, <1>3 DEF Noise, HostCalls
<1>5. PICK told \in {c, "failed"} : Tell(c, told)
  BY <1>4 DEF HearAnswer, AnswerOf
<1>6. /\ call' \in [Calls -> CallRecs] /\ call'[c].pc = "told" /\ call'[c].told = told
      /\ \A d \in Calls : d # c => call'[d] = call[d]
  BY <1>0, <1>5, CallIsTold
<1>7. holder' = NoCall
  BY <1>5 DEF Tell
<1>8. PipeOf(c)
  BY <1>2, HolderIs
<1>9. child.at \in {"listening", "dead"}
  BY <1>2, <1>4, <1>8 DEF PipeOf
<1>10. PipeFits'
  BY <1>1, <1>2, <1>7, <1>9, PipeIsFree DEF PipeFree
<1>11. holder' = IF Exchanging(c)' THEN c ELSE NoCall
  BY <1>6, <1>7 DEF Exchanging
<1> QED BY <1>0, <1>1, <1>2, <1>6, <1>10, <1>11, CallStep, RowStays, ChildStays

\* What a host call does to the row, and to the versions that were swapped from.
LEMMA RowIsServed ==
    ASSUME BackendInv, NEW ask \in HostCalls, ServeHost(ask), row < MaxVersion
    PROVE  /\ lostSwap' \in BOOLEAN /\ row' \in 0..MaxVersion /\ swaps' \subseteq 1..MaxVersion
           /\ SwapsAreBehind'
<1>0. /\ row \in Nat /\ MaxVersion \in Nat /\ row < MaxVersion /\ lostSwap = FALSE
      /\ swaps \subseteq 1..MaxVersion /\ \A v \in swaps : v < row
  BY BackendConstants DEF BackendInv, BackendTypeOK, SwapsAreBehind
<1>1. CASE ask.say = "set"
  <2>1. row' = row + 1 /\ swaps' = swaps /\ lostSwap' = lostSwap
    BY <1>1 DEF ServeHost
  <2>2. lostSwap' = FALSE
    BY <1>0, <2>1
  <2>3. row' \in 0..MaxVersion /\ swaps' \subseteq 1..MaxVersion /\ \A v \in swaps' : v < row'
    BY <1>0, <2>1
  <2> QED BY <2>2, <2>3 DEF SwapsAreBehind
<1>2. CASE ask.say = "delete"
  <2>1. row' = 0 /\ swaps' = {} /\ lostSwap' = lostSwap
    BY <1>2 DEF ServeHost
  <2>2. lostSwap' = FALSE
    BY <1>0, <2>1
  <2>3. row' \in 0..MaxVersion /\ swaps' \subseteq 1..MaxVersion /\ \A v \in swaps' : v < row'
    BY <1>0, <2>1
  <2> QED BY <2>2, <2>3 DEF SwapsAreBehind
<1>3. CASE ask.say = "swap"
  <2>1. ask.of \in 0..MaxVersion
    BY DEF HostCalls
  <2> DEFINE done == Swap(ask.of)
             won  == IF done.told /\ ask.of > 0 THEN {ask.of} ELSE {}
  <2>2. /\ row' = done.row /\ swaps' = swaps \cup won
        /\ lostSwap' = (lostSwap \/ won \cap swaps # {})
    BY <1>3 DEF ServeHost
  <2>3. CASE ask.of = 0
    <3>1. won = {} /\ done.row = IF row > 0 THEN row ELSE 1
      BY <2>3 DEF Swap, Exists
    <3> HIDE DEF done, won
    <3>2. lostSwap' = FALSE /\ swaps' = swaps
      BY <1>0, <2>2, <3>1
    <3> QED BY <1>0, <2>2, <3>1, <3>2 DEF SwapsAreBehind
  <2>4. CASE ask.of # 0 /\ row = ask.of
    <3>1. ask.of = row /\ row > 0
      BY <1>0, <2>4
    <3>2. ask.of # 0
      BY <2>4
    <3>3. done = [row |-> IF row = ask.of THEN row + 1 ELSE row, told |-> row = ask.of]
      BY <3>2, Zenon DEF Swap
    <3>4. done.row = row + 1 /\ done.told = TRUE
      <4> HIDE DEF done
      <4>1. done.row = IF row = ask.of THEN row + 1 ELSE row
        BY <3>3
      <4>2. done.told = (row = ask.of)
        BY <3>3, Zenon
      <4> QED BY <3>1, <4>1, <4>2
    <3>5. won = {row} /\ done.row = row + 1
      BY <3>1, <3>4
    <3> HIDE DEF done, won
    <3>6. row \notin swaps /\ row \in 1..MaxVersion
      BY <1>0, <3>1
    <3>7. lostSwap' = FALSE
      BY <1>0, <2>2, <3>5, <3>6
    <3>8. row' \in 0..MaxVersion /\ swaps' \subseteq 1..MaxVersion /\ \A v \in swaps' : v < row'
      BY <1>0, <2>2, <3>5, <3>6
    <3> QED BY <3>7, <3>8 DEF SwapsAreBehind
  <2>5. CASE ask.of # 0 /\ row # ask.of
    <3>1. won = {} /\ done.row = row
      BY <1>0, <2>1, <2>5 DEF Swap, Exists
    <3> HIDE DEF done, won
    <3>2. lostSwap' = FALSE /\ swaps' = swaps
      BY <1>0, <2>2, <3>1
    <3> QED BY <1>0, <2>2, <3>1, <3>2 DEF SwapsAreBehind
  <2> QED BY <2>3, <2>4, <2>5
<1> QED BY <1>1, <1>2, <1>3 DEF HostCalls

LEMMA CallIsServed ==
    ASSUME BackendInv, NEW c \in Calls, ServeAsk(c)
    PROVE  BackendInv'
<1> DEFINE ask == Head(frames)
<1>0. /\ call \in [Calls -> CallRecs] /\ resting \in BOOLEAN /\ loose \in BOOLEAN
      /\ call[c].told \in {c, NoAnswer, "refused", "failed"} /\ MaxHostCalls \in Nat
      /\ child \in [at : ChildAts, by : Calls \cup {NoCall}]
  BY BackendConstants DEF BackendInv, BackendTypeOK, CallRecs, AnswersAreTheirs
<1>1. /\ UNCHANGED <<holder, requests, resting, loose, children, alive>>
      /\ Hears(c, {"set", "delete", "swap"}) /\ row < MaxVersion /\ ServeHost(ask)
      /\ frames' = Tail(frames) /\ call' = [call EXCEPT ![c].asked = @ + 1]
      /\ child' = IF child.at = "asking" THEN [child EXCEPT !.at = "working"] ELSE child
  BY DEF ServeAsk, Born
<1>2. /\ call[c].pc = "reading" /\ holder = c /\ requests = <<>> /\ Tail(frames) = <<>>
      /\ child.at \in {"listening", "asking", "dead"}
      /\ ask \in {Noise, AnswerOf(c)} \cup HostCalls /\ frames = <<ask>>
  BY <1>1, WhatIsHeard
<1>3. ask.say \in {"set", "delete", "swap"} /\ call[c].asked < MaxHostCalls
  BY <1>1 DEF Hears
<1>4. ask \in HostCalls
  BY <1>2, <1>3 DEF Noise, AnswerOf
<1> HIDE DEF ask
<1>5. /\ lostSwap' \in BOOLEAN /\ row' \in 0..MaxVersion /\ swaps' \subseteq 1..MaxVersion
      /\ SwapsAreBehind'
  BY <1>1, <1>4, RowIsServed
<1>6. /\ call' \in [Calls -> CallRecs] /\ call'[c].pc = "reading" /\ call'[c].told = call[c].told
      /\ \A d \in Calls : d # c => call'[d] = call[d]
  BY <1>0, <1>1, <1>2, <1>3 DEF CallRecs
<1>7. PipeOf(c)
  BY <1>2, HolderIs
<1>8. child.at \in {"asking", "dead"} /\ (child.at = "asking" => child.by = c)
  BY <1>2, <1>4, <1>7 DEF PipeOf
<1>9. /\ child' \in [at : ChildAts, by : Calls \cup {NoCall}] /\ child'.at \in {"working", "dead"}
      /\ child'.at = "working" => child.at = "asking" /\ child'.by = c
      /\ child'.at = "dead" => child.at = "dead"
  BY <1>0, <1>1, <1>8 DEF ChildAts
<1>10. PipeFits'
  <2>1. requests' = <<>> /\ frames' = <<>>
    BY <1>1, <1>2
  <2>2. PipeOf(c)'
    BY <1>6, <1>9, <2>1, OneFrame DEF PipeOf
  <2> QED BY <1>1, <1>2, <2>2, PipeIsHolders
<1>11. OneChild' /\ children' \in 0..MaxChildren /\ alive' \subseteq 1..MaxChildren
  BY <1>1, <1>8, <1>9 DEF BackendInv, OneChild, BackendTypeOK
<1>12. holder' = IF Exchanging(c)' THEN c ELSE NoCall
  BY <1>1, <1>2, <1>6 DEF Exchanging
<1> QED BY <1>0, <1>1, <1>2, <1>5, <1>6, <1>9, <1>10, <1>11, <1>12, CallStep

\* A step of the child, or of the reader left behind, which moves no call.
LEMMA ChildStep ==
    ASSUME BackendInv, UNCHANGED <<call, holder, resting, children>>, UNCHANGED Kv, loose' \in BOOLEAN,
           child' \in [at : ChildAts, by : Calls \cup {NoCall}], alive' \subseteq alive,
           child.at \notin {"none", "dead"} => child'.at \notin {"none", "dead"} \/ alive' = {},
           holder = NoCall => PipeFree' /\ child'.at \in {"none", "listening", "dead"},
           \A c \in Calls : holder = c /\ PipeOf(c) => PipeOf(c)'
    PROVE  BackendInv'
<1>1. BackendTypeOK'
  BY DEF BackendInv, BackendTypeOK, Kv
<1>2. AnswersAreTheirs' /\ HolderTalks' /\ SwapsAreBehind'
  BY DEF BackendInv, AnswersAreTheirs, HolderTalks, Exchanging, SwapsAreBehind, Kv
<1>3. PipeFits'
  BY DEF BackendInv, PipeFits
<1>4. OneChild'
  BY DEF BackendInv, OneChild
<1> QED BY <1>1, <1>2, <1>3, <1>4 DEF BackendInv

LEMMA ChildActs ==
    ASSUME BackendInv,
           SayHello \/ ReadRequest \/ (\E ask \in HostCalls : AskHost(ask)) \/ AnswerCall \/ SayNoise \/ Die
    PROVE  BackendInv'
<1>0. /\ child \in [at : ChildAts, by : Calls \cup {NoCall}] /\ loose \in BOOLEAN
      /\ alive \subseteq {children} /\ child.at # "none"
      /\ holder \in Calls \cup {NoCall}
  BY DEF BackendInv, BackendTypeOK, OneChild, SayHello, ReadRequest, AskHost, AnswerCall, SayNoise, Die
<1>1. /\ UNCHANGED <<call, holder, resting, children, loose>> /\ UNCHANGED Kv
  BY DEF SayHello, ReadRequest, AskHost, AnswerCall, SayNoise, Die, OnlyChild
<1>2. holder = NoCall => PipeFree /\ child.at \in {"listening", "dead"}
  BY <1>0 DEF BackendInv, PipeFits
<1>3. CASE SayHello \/ (SayNoise /\ child.at = "greeting")
  <2>1. PICK f \in {Hello, Noise} : frames' = Append(frames, f)
    BY <1>3 DEF SayHello, SayNoise
  <2>2. /\ child.at = "greeting" /\ child' = [at |-> "listening", by |-> NoCall]
        /\ UNCHANGED <<requests, alive>>
    BY <1>3 DEF SayHello, SayNoise, Does
  <2>3. ASSUME NEW c \in Calls, holder = c, PipeOf(c) PROVE PipeOf(c)'
    <3>1. call[c].pc = "greeting"
      BY <2>2, <2>3 DEF BackendInv, PipeOf, PipeFree, HolderTalks, Exchanging
    <3>2. frames' = <<f>> /\ requests' = <<>>
      BY <2>1, <2>2, <2>3, <3>1, OneFrame DEF PipeOf
    <3> QED BY <1>1, <2>2, <3>1, <3>2 DEF PipeOf
  <2>4. child' \in [at : ChildAts, by : Calls \cup {NoCall}]
    BY <2>2 DEF ChildAts
  <2> QED BY <1>0, <1>1, <1>2, <2>2, <2>3, <2>4, ChildStep
<1>4. CASE ReadRequest
  <2>1. /\ child.at = "listening" /\ requests # <<>> /\ child' = [at |-> "working", by |-> Head(requests)]
        /\ requests' = Tail(requests) /\ UNCHANGED <<frames, alive>>
    BY <1>4 DEF ReadRequest, Does
  <2>2. PICK c \in Calls : holder = c
    BY <1>0, <1>2, <2>1 DEF PipeFree
  <2>3. call[c].pc = "reading" /\ requests = <<c>> /\ frames = <<>> /\ PipeOf(c)
    BY <2>1, <2>2 DEF BackendInv, PipeFits, PipeOf, PipeFree, HolderTalks, Exchanging
  <2>4. child' = [at |-> "working", by |-> c] /\ requests' = <<>> /\ frames' = <<>>
    BY <2>1, <2>3, OneFrame
  <2>5. PipeOf(c)'
    BY <1>1, <2>3, <2>4, OneFrame DEF PipeOf
  <2>6. child' \in [at : ChildAts, by : Calls \cup {NoCall}]
    BY <2>4 DEF ChildAts
  <2>7. holder # NoCall /\ child'.at = "working" /\ alive' = alive
    BY <2>1, <2>2, <2>4, SomebodyCalls
  <2>8. ASSUME NEW d \in Calls, holder = d, PipeOf(d) PROVE PipeOf(d)'
    BY <2>2, <2>5, <2>8
  <2> QED BY <1>0, <1>1, <2>6, <2>7, <2>8, ChildStep
<1>5. CASE (\E ask \in HostCalls : AskHost(ask)) \/ AnswerCall \/ (SayNoise /\ child.at = "working")
  <2>1. child.at = "working" /\ UNCHANGED <<requests, alive>>
    BY <1>5 DEF AskHost, AnswerCall, SayNoise
  <2>2. PICK c \in Calls : holder = c
    BY <1>0, <1>2, <2>1
  <2>3. call[c].pc = "reading" /\ requests = <<>> /\ frames = <<>> /\ child.by = c
    BY <2>1, <2>2, OneFrame DEF BackendInv, PipeFits, PipeOf, PipeFree, HolderTalks, Exchanging
  <2>4. PICK f \in {Noise, AnswerOf(c)} \cup HostCalls :
           /\ frames' = Append(frames, f)
           /\ IF f \in HostCalls THEN child' = [at |-> "asking", by |-> c]
                                 ELSE child' = [at |-> "listening", by |-> NoCall]
    <3>1. Noise \notin HostCalls /\ AnswerOf(c) \notin HostCalls
      BY AsksAreAsks
    <3> QED BY <1>5, <2>3, <3>1 DEF AskHost, AnswerCall, SayNoise, Does
  <2>5. frames' = <<f>> /\ requests' = <<>>
    BY <2>1, <2>3, <2>4, OneFrame
  <2>6. PipeOf(c)'
    <3>1. f \in HostCalls => f # AnswerOf(c)
      BY DEF AnswerOf, HostCalls
    <3>2. \A g : frames' = <<g>> => g = f
      BY <2>5, OneFrame
    <3>3. child'.at = (IF f \in HostCalls THEN "asking" ELSE "listening")
          /\ (f \in HostCalls => child'.by = c)
      BY <2>4
    <3> QED BY <1>1, <2>3, <2>5, <3>1, <3>2, <3>3 DEF PipeOf
  <2>7. /\ child' \in [at : ChildAts, by : Calls \cup {NoCall}] /\ child'.at \in {"asking", "listening"}
    BY <2>4 DEF ChildAts
  <2> QED BY <1>0, <1>1, <2>1, <2>2, <2>6, <2>7, ChildStep, SomebodyCalls
<1>6. CASE Die
  <2>1. child' = [at |-> "dead", by |-> NoCall] /\ alive' = {} /\ UNCHANGED <<requests, frames>>
    BY <1>0, <1>6 DEF Die, Does, Pipes
  <2>2. ASSUME NEW c \in Calls, holder = c, PipeOf(c) PROVE PipeOf(c)'
    BY <1>1, <2>1, <2>2 DEF PipeOf, PipeFree
  <2>3. child' \in [at : ChildAts, by : Calls \cup {NoCall}]
    BY <2>1 DEF ChildAts
  <2> QED BY <1>0, <1>1, <1>2, <2>1, <2>2, <2>3, ChildStep DEF PipeFree
<1>7. SayNoise => child.at \in {"greeting", "working"}
  BY DEF SayNoise
<1> QED BY <1>3, <1>4, <1>5, <1>6, <1>7

\* The reader left behind: it takes the process down where there is no child, and so no
\* exchange; or it takes a frame out of the pipe, or breaks it.
LEMMA LooseActs ==
    ASSUME BackendInv, LoosePanics \/ LooseReads
    PROVE  BackendInv'
<1>0. /\ child \in [at : ChildAts, by : Calls \cup {NoCall}] /\ holder \in Calls \cup {NoCall}
      /\ call \in [Calls -> CallRecs]
  BY DEF BackendInv, BackendTypeOK, CallRecs
<1>1. CASE LoosePanics
  <2> USE <1>1 DEF LoosePanics, Pipes, Born, Kv
  <2>1. holder = NoCall
    BY <1>0 DEF BackendInv, PipeFits, PipeOf, HolderTalks, Exchanging
  <2>2. \A c \in Calls : call'[c].told = call[c].told /\ ~Exchanging(c)'
    BY <1>0, <2>1, SomebodyCalls DEF BackendInv, HolderTalks, Exchanging, CallRecs
  <2>3. call' \in [Calls -> CallRecs]
    BY <1>0 DEF CallRecs, CallPCs
  <2>4. BackendTypeOK'
    BY <2>3 DEF BackendInv, BackendTypeOK, CallRecs
  <2>5. AnswersAreTheirs' /\ HolderTalks'
    BY <2>2, SomebodyCalls DEF BackendInv, AnswersAreTheirs, HolderTalks
  <2>6. PipeFits'
    BY <2>1, PipeIsFree DEF BackendInv, PipeFits, PipeFree
  <2>7. OneChild' /\ SwapsAreBehind'
    BY DEF BackendInv, OneChild, SwapsAreBehind
  <2> QED BY <2>4, <2>5, <2>6, <2>7 DEF BackendInv
<1>2. CASE LooseReads
  <2>1. /\ frames # <<>> /\ frames' \in {Tail(frames), <<Noise>> \o Tail(frames)}
        /\ UNCHANGED <<call, holder, child, children, requests, resting, alive>> /\ UNCHANGED Kv
        /\ loose' \in BOOLEAN
    BY <1>2 DEF LooseReads, Born
  <2>2. PICK c \in Calls : holder = c
    BY <1>0, <2>1 DEF BackendInv, PipeFits, PipeFree
  <2>3. PipeOf(c) /\ call[c].pc \in {"greeting", "reading"}
    BY <2>1, <2>2 DEF BackendInv, PipeFits, PipeOf, PipeFree, HolderTalks, Exchanging
  <2>4. PICK f \in {Hello, Noise, AnswerOf(c)} \cup HostCalls : frames = <<f>>
    BY <2>1, <2>3 DEF PipeOf
  <2>5. frames' = <<>> \/ frames' = <<Noise>>
    BY <2>1, <2>4, OneFrame
  <2>6. \A g \in HostCalls : frames' # <<g>>
    <3>1. Noise \notin HostCalls
      BY AsksAreAsks
    <3> QED BY <2>5, <3>1, OneFrame
  <2>7. requests = <<>> /\ child.at # "working" /\ child.at # "greeting"
    BY <2>1, <2>3 DEF PipeOf
  <2>8. frames' # <<AnswerOf(c)>>
    <3>1. Noise # AnswerOf(c)
      BY DEF Noise, AnswerOf
    <3> QED BY <2>5, <3>1, OneFrame
  <2>9. PipeOf(c)'
    BY <2>1, <2>3, <2>5, <2>6, <2>7, <2>8 DEF PipeOf
  <2> QED BY <1>0, <2>1, <2>2, <2>9, ChildStep, SomebodyCalls DEF BackendInv, OneChild
<1> QED BY <1>1, <1>2

LEMMA BackendInvStep == BackendInv /\ [BackendNext]_backendVars => BackendInv'
<1> SUFFICES ASSUME BackendInv, [BackendNext]_backendVars PROVE BackendInv'
  OBVIOUS
<1>1. ASSUME NEW c \in Calls,
             \/ AskPlugin(c) \/ UseChild(c) \/ RefuseForNow(c) \/ StartChild(c) \/ StartFails(c)
             \/ HearHello(c) \/ NoHello(c) \/ WriteRequest(c) \/ HearAnswer(c) \/ ServeAsk(c)
             \/ ExchangeFails(c)
      PROVE BackendInv'
  BY <1>1, CallBegins, CallGivesUp, CallGoesOn, CallHears, CallIsServed
<1>2. CASE RestEnds
  <2>1. UNCHANGED <<call, holder, child, requests, frames, children, alive, loose>> /\ UNCHANGED Kv
        /\ resting' \in BOOLEAN
    BY <1>2 DEF RestEnds, Pipes, Born
  <2>2. BackendTypeOK'
    BY <2>1 DEF BackendInv, BackendTypeOK, Kv
  <2> QED BY <2>1, <2>2 DEF BackendInv, AnswersAreTheirs, HolderTalks, Exchanging, PipeFits, PipeOf,
             PipeFree, OneChild, SwapsAreBehind, Kv
<1>3. CASE LoosePanics \/ LooseReads
  BY <1>3, LooseActs
<1>4. CASE SayHello \/ ReadRequest \/ (\E ask \in HostCalls : AskHost(ask)) \/ AnswerCall \/ SayNoise \/ Die
  BY <1>4, ChildActs
<1>5. CASE UNCHANGED backendVars
  BY <1>5 DEF backendVars, BackendInv, BackendTypeOK, AnswersAreTheirs, HolderTalks, Exchanging, PipeFits,
     PipeOf, PipeFree, OneChild, SwapsAreBehind
<1> QED BY <1>1, <1>2, <1>3, <1>4, <1>5 DEF BackendNext

LEMMA BackendHolds == BackendSpec => []BackendInv
BY BackendInvInit, BackendInvStep, PTL DEF BackendSpec

\* A plugin's backend is well typed, for any calls and any number of children, host calls
\* and versions (worker.go, plugin_backend.go).
THEOREM BackendTyped == BackendSpec => []BackendTypeOK
<1>1. BackendInv => BackendTypeOK
  BY DEF BackendInv
<1> QED BY BackendHolds, <1>1, PTL

\* BackendIsSound, for any calls and any number of children, host calls and versions: an
\* answer is the one to that call, between calls a living child has nothing to read and
\* nothing unread, there is one child at most, and of two swaps from one version of a
\* row one loses.
THEOREM AnswersComeHome == BackendSpec => []BackendIsSound
<1>1. BackendInv => BackendIsSound
  BY DEF BackendInv, BackendIsSound, InStep, SwapsOnce, SwapsAreBehind, PipeFits, PipeFree
<1> QED BY BackendHolds, <1>1, PTL

------------------------------------------------------------------------------
(* The containers gears run in: WarmPool.                                  *)

RunPCs  == Holding \cup {"idle", "starting", "over"}
RunEnds == {"none", "exited", "timedOut", "cancelled", "failed"}
RunRecs == [pc : RunPCs, box : 0..MaxBoxes, end : RunEnds]
BoxRecs == [up : BOOLEAN, made : BOOLEAN, served : Nat, payload : BOOLEAN,
            left : {"nothing", "timedOut", "cancelled", "leaked"}]

\* Whether somebody has to have it.
Kept(x) == x.up /\ x.left # "leaked"

RunTypeOK ==
    /\ gearRun \in [GearRuns -> RunRecs] /\ armed \subseteq (Nat \X Boxes)
    /\ timers \in 0..MaxTimers

\* Containers are made in the order of their names, and what is not made is not up.
MadeInOrder ==
    /\ \E n \in 0..MaxBoxes : \A b \in Boxes : box[b].made <=> b <= n
    /\ \A b \in Boxes : box[b].up => box[b].made

HasBox(r) == gearRun[r].pc \in Holding
BoxOf(r)  == gearRun[r].box

\* The container a run has is nobody else's, and as clean as where the run is in it says:
\* nothing of a run that timed out before this one, and no payload once it is offered back.
RunFits(r) ==
    HasBox(r) =>
       /\ BoxOf(r) \in Boxes /\ box[BoxOf(r)].made
       /\ BoxOf(r) \notin ToSet(idle) /\ BoxOf(r) \notin retiring
       /\ gearRun[r].pc \in {"inspecting", "clearing", "copying", "executing", "offering"} =>
             box[BoxOf(r)].left # "timedOut"
       /\ gearRun[r].pc = "finishing" /\ gearRun[r].end # "timedOut" => box[BoxOf(r)].left # "timedOut"
       /\ gearRun[r].pc = "offering" => ~box[BoxOf(r)].payload
RunsFit == \A r \in GearRuns : RunFits(r)

RunsApart == \A r, s \in GearRuns : HasBox(r) /\ HasBox(s) /\ r # s => BoxOf(r) # BoxOf(s)

\* What is in the pool is in it once, and not on its way out; what is up is kept.
PoolFits ==
    /\ IsInjective(idle)
    /\ \A b \in ToSet(idle) : box[b].made /\ b \notin retiring
    /\ \A b \in retiring : box[b].made
UpIsKept ==
    \A b \in Boxes : Kept(box[b]) =>
       b \in ToSet(idle) \/ b \in retiring \/ \E r \in GearRuns : HasBox(r) /\ BoxOf(r) = b

WarmInv ==
    /\ WarmTypeOK /\ RunTypeOK /\ MadeInOrder /\ RunsFit /\ RunsApart /\ PoolFits /\ UpIsKept
    /\ IdleIsClean

\* What a sequence without repetitions holds once something is put at its end, and once
\* one place of it is taken out.
LEMMA Added ==
    ASSUME NEW S, NEW s \in Seq(S), NEW e \in S, e \notin ToSet(s), IsInjective(s)
    PROVE  LET t == Append(s, e)
           IN  /\ t \in Seq(S) /\ ToSet(t) = ToSet(s) \cup {e}
               /\ IsInjective(t)
<1> DEFINE t == Append(s, e)
<1>1. /\ t \in Seq(S) /\ Len(t) = Len(s) + 1 /\ t[Len(s) + 1] = e
      /\ \A i \in 1..Len(s) : t[i] = s[i]
  BY AppendProperties
<1>2. Len(s) \in Nat /\ DOMAIN s = 1..Len(s) /\ DOMAIN t = 1..(Len(s) + 1)
  BY <1>1, LenProperties
<1> HIDE DEF t
<1>3. \A i \in 1..Len(s) : s[i] # e
  BY <1>2 DEF ToSet
<1>4. ToSet(t) = ToSet(s) \cup {e}
  <2>1. ASSUME NEW x \in ToSet(t) PROVE x \in ToSet(s) \cup {e}
    <3>1. PICK i \in 1..(Len(s) + 1) : x = t[i]
      BY <2>1, <1>2 DEF ToSet
    <3>2. CASE i = Len(s) + 1
      BY <3>1, <3>2, <1>1
    <3>3. CASE i \in 1..Len(s)
      BY <3>1, <3>3, <1>1, <1>2 DEF ToSet
    <3> QED BY <3>1, <3>2, <3>3, <1>2
  <2>2. ToSet(s) \subseteq ToSet(t)
    BY <1>1, <1>2 DEF ToSet
  <2>3. e \in ToSet(t)
    BY <1>1, <1>2 DEF ToSet
  <2> QED BY <2>1, <2>2, <2>3
<1>5. IsInjective(t)
  <2> SUFFICES ASSUME NEW i \in 1..(Len(s) + 1), NEW j \in 1..(Len(s) + 1), i # j PROVE t[i] # t[j]
    BY <1>2 DEF IsInjective
  <2>1. CASE i \in 1..Len(s) /\ j \in 1..Len(s)
    BY <2>1, <1>1, <1>2 DEF IsInjective
  <2>2. CASE i = Len(s) + 1
    BY <2>2, <1>1, <1>2, <1>3
  <2>3. CASE j = Len(s) + 1
    BY <2>3, <1>1, <1>2, <1>3
  <2> QED BY <2>1, <2>2, <2>3, <1>2
<1> QED BY <1>1, <1>4, <1>5 DEF t

\* The sequence t is s with place n taken out.
LacksPlace(t, s, n) ==
    /\ Len(t) = Len(s) - 1
    /\ \A i \in 1..Len(t) : t[i] = IF i < n THEN s[i] ELSE s[i + 1]

LEMMA PlaceOut ==
    ASSUME NEW S, NEW s \in Seq(S), NEW n \in 1..Len(s), IsInjective(s),
           NEW t \in Seq(S), LacksPlace(t, s, n)
    PROVE  ToSet(t) = ToSet(s) \ {s[n]} /\ IsInjective(t)
<1>0. /\ Len(t) = Len(s) - 1
      /\ \A i \in 1..Len(t) : t[i] = IF i < n THEN s[i] ELSE s[i + 1]
  BY DEF LacksPlace
<1>1. Len(s) \in Nat /\ DOMAIN s = 1..Len(s) /\ DOMAIN t = 1..(Len(s) - 1)
  BY <1>0, LenProperties
<1>2. ASSUME NEW x \in ToSet(t) PROVE x \in ToSet(s) \ {s[n]}
  <2>1. PICK i \in 1..(Len(s) - 1) : x = t[i]
    BY <1>2, <1>1 DEF ToSet
  <2>2. CASE i < n
    <3>1. i \in 1..Len(s) /\ i # n /\ x = s[i]
      BY <2>1, <2>2, <1>0, <1>1
    <3> QED BY <3>1, <1>1 DEF ToSet, IsInjective
  <2>3. CASE ~(i < n)
    <3>1. i + 1 \in 1..Len(s) /\ i + 1 # n /\ x = s[i + 1]
      BY <2>1, <2>3, <1>0, <1>1
    <3> QED BY <3>1, <1>1 DEF ToSet, IsInjective
  <2> QED BY <2>2, <2>3
<1>3. ASSUME NEW x \in ToSet(s) \ {s[n]} PROVE x \in ToSet(t)
  <2>1. PICK i \in 1..Len(s) : x = s[i] /\ i # n
    BY <1>3, <1>1 DEF ToSet
  <2>2. CASE i < n
    <3>1. i \in 1..(Len(s) - 1) /\ x = t[i]
      BY <2>1, <2>2, <1>0, <1>1
    <3> QED BY <3>1, <1>1 DEF ToSet
  <2>3. CASE ~(i < n)
    <3>1. i - 1 \in 1..(Len(s) - 1) /\ ~(i - 1 < n) /\ (i - 1) + 1 = i
      BY <2>1, <2>3, <1>1
    <3>2. x = t[i - 1]
      BY <2>1, <3>1, <1>0
    <3> QED BY <3>1, <3>2, <1>1 DEF ToSet
  <2> QED BY <2>2, <2>3, <1>1
<1>4. IsInjective(t)
  <2> SUFFICES ASSUME NEW i \in 1..Len(t), NEW j \in 1..Len(t), i # j PROVE t[i] # t[j]
    BY <1>0, <1>1 DEF IsInjective
  <2> DEFINE at(k) == IF k < n THEN k ELSE k + 1
  <2>1. at(i) \in 1..Len(s) /\ at(j) \in 1..Len(s) /\ at(i) # at(j)
    BY <1>0, <1>1
  <2>2. t[i] = s[at(i)] /\ t[j] = s[at(j)]
    BY <1>0
  <2>3. s[at(i)] # s[at(j)]
    BY <2>1, <1>1 DEF IsInjective
  <2> QED BY <2>2, <2>3
<1> QED BY <1>2, <1>3, <1>4

LEMMA HeadOut ==
    ASSUME NEW S, NEW s \in Seq(S), s # <<>>, IsInjective(s)
    PROVE  /\ Head(s) \in S /\ Head(s) \in ToSet(s)
           /\ Tail(s) \in Seq(S) /\ ToSet(Tail(s)) = ToSet(s) \ {Head(s)} /\ IsInjective(Tail(s))
<1> DEFINE t == Tail(s)
<1>1. /\ Head(s) \in S /\ t \in Seq(S) /\ Len(t) = Len(s) - 1
      /\ \A i \in 1..Len(t) : t[i] = s[i + 1]
  BY HeadTailProperties
<1>2. Len(s) \in Nat /\ DOMAIN s = 1..Len(s) /\ 1 \in 1..Len(s) /\ Head(s) = s[1]
  BY LenProperties, EmptySeq
<1> HIDE DEF t
<1>3. LacksPlace(t, s, 1)
  BY <1>1, <1>2 DEF LacksPlace
<1>4. ToSet(t) = ToSet(s) \ {s[1]} /\ IsInjective(t)
  BY <1>1, <1>2, <1>3, PlaceOut
<1>5. s[1] \in ToSet(s)
  BY <1>2 DEF ToSet
<1> QED BY <1>1, <1>2, <1>4, <1>5 DEF t

LEMMA CutOut ==
    ASSUME NEW S, NEW s \in Seq(S), NEW n \in 1..Len(s), IsInjective(s)
    PROVE  /\ RemoveAt(s, n) \in Seq(S) /\ ToSet(RemoveAt(s, n)) = ToSet(s) \ {s[n]}
           /\ IsInjective(RemoveAt(s, n))
<1> DEFINE a == SubSeq(s, 1, n - 1)  b == SubSeq(s, n + 1, Len(s))  t == a \o b
<1>1. Len(s) \in Nat /\ \A i \in 1..Len(s) : s[i] \in S
  BY ElementOfSeq, LenProperties
<1>2. a \in Seq(S) /\ Len(a) = n - 1 /\ \A i \in 1..(n - 1) : a[i] = s[i]
  <2>1. \A i \in 1..(n - 1) : s[i] \in S
    BY <1>1
  <2> QED BY <2>1, SubSeqProperties
<1>3. b \in Seq(S) /\ Len(b) = Len(s) - n /\ \A i \in 1..(Len(s) - n) : b[i] = s[n + i]
  <2>1. \A i \in (n + 1)..Len(s) : s[i] \in S
    BY <1>1
  <2> QED BY <1>1, <2>1, SubSeqProperties
<1> HIDE DEF a, b
<1>4. /\ t \in Seq(S) /\ Len(t) = Len(a) + Len(b)
      /\ \A i \in 1..(Len(a) + Len(b)) : t[i] = IF i <= Len(a) THEN a[i] ELSE b[i - Len(a)]
  BY <1>2, <1>3, ConcatProperties
<1> HIDE DEF t
<1>5. Len(t) = Len(s) - 1
  BY <1>1, <1>2, <1>3, <1>4
<1>6. ASSUME NEW i \in 1..Len(t) PROVE t[i] = IF i < n THEN s[i] ELSE s[i + 1]
  <2>0. i \in 1..(Len(a) + Len(b)) /\ n \in Nat /\ i \in Nat
    BY <1>1, <1>4, <1>5, <1>2, <1>3
  <2>1. CASE i < n
    <3>1. i \in 1..(n - 1) /\ i <= Len(a)
      BY <2>0, <2>1, <1>2
    <3> QED BY <2>0, <2>1, <3>1, <1>2, <1>4
  <2>2. CASE ~(i < n)
    <3>1. ~(i <= Len(a)) /\ i - Len(a) = i - n + 1 /\ i - n + 1 \in 1..(Len(s) - n) /\ n + (i - n + 1) = i + 1
      BY <2>0, <2>2, <1>1, <1>2, <1>3
    <3>2. t[i] = b[i - n + 1]
      BY <2>0, <3>1, <1>4
    <3> QED BY <2>2, <3>1, <3>2, <1>3
  <2> QED BY <2>1, <2>2
<1>7. LacksPlace(t, s, n)
  BY <1>5, <1>6 DEF LacksPlace
<1>8. ToSet(t) = ToSet(s) \ {s[n]} /\ IsInjective(t)
  BY <1>4, <1>7, PlaceOut
<1>9. RemoveAt(s, n) = t
  BY DEF RemoveAt, a, b, t
<1> QED BY <1>4, <1>8, <1>9

\* A container that was removed, or could not be, has nobody.
LEMMA BoxRemoved ==
    ASSUME NEW b \in Boxes, box \in [Boxes -> BoxRecs], Removed(b)
    PROVE  \E x \in BoxRecs :
              /\ box' = [box EXCEPT ![b] = x] /\ ~Kept(x)
              /\ x.made = box[b].made /\ x.payload = box[b].payload /\ (x.up => box[b].up)
              /\ x.left = "timedOut" => box[b].left = "timedOut"
<1>1. CASE box' = [box EXCEPT ![b].up = FALSE]
  <2> DEFINE x == [box[b] EXCEPT !.up = FALSE]
  <2>1. x \in BoxRecs /\ box' = [box EXCEPT ![b] = x] /\ x.up = FALSE /\ x.left = box[b].left
    BY <1>1 DEF BoxRecs
  <2>2. x.made = box[b].made /\ x.payload = box[b].payload
    BY DEF BoxRecs
  <2> HIDE DEF x
  <2> QED BY <2>1, <2>2 DEF Kept
<1>2. CASE box[b].up /\ box' = [box EXCEPT ![b].left = "leaked"]
  <2> DEFINE x == [box[b] EXCEPT !.left = "leaked"]
  <2>1. x \in BoxRecs /\ box' = [box EXCEPT ![b] = x] /\ x.up = box[b].up /\ x.left = "leaked"
    BY <1>2 DEF BoxRecs
  <2>2. x.made = box[b].made /\ x.payload = box[b].payload
    BY DEF BoxRecs
  <2> HIDE DEF x
  <2> QED BY <2>1, <2>2 DEF Kept
<1> QED BY <1>1, <1>2 DEF Removed

\* The next container to be made is one that is not.
LEMMA FreshIsNew ==
    ASSUME WarmInv, \E b \in Boxes : ~box[b].made
    PROVE  /\ Fresh \in Boxes /\ ~box[Fresh].made
           /\ \E n \in 0..MaxBoxes : \A b \in Boxes : box[b].made \/ b = Fresh <=> b <= n
<1>0. MaxBoxes \in Nat
  BY WarmConstants
<1>1. PICK n \in 0..MaxBoxes : \A b \in Boxes : box[b].made <=> b <= n
  BY DEF WarmInv, MadeInOrder
<1>2. n < MaxBoxes
  BY <1>0, <1>1 DEF Boxes
<1> DEFINE Next(b) == ~box[b].made /\ \A c \in Boxes : c < b => box[c].made
<1>3. n + 1 \in Boxes /\ Next(n + 1)
  BY <1>0, <1>1, <1>2 DEF Boxes
<1>4. Fresh \in Boxes /\ Next(Fresh)
  <2>1. Fresh = CHOOSE b \in Boxes : Next(b)
    BY DEF Fresh
  <2> HIDE DEF Next
  <2> QED BY <1>3, <2>1, Zenon
<1>5. Fresh = n + 1
  <2>1. ~(Fresh < n + 1) /\ ~(n + 1 < Fresh)
    BY <1>1, <1>3, <1>4 DEF Boxes
  <2> QED BY <1>0, <1>4, <2>1 DEF Boxes
<1>6. \A b \in Boxes : box[b].made \/ b = Fresh <=> b <= n + 1
  BY <1>0, <1>1, <1>5 DEF Boxes
<1>7. n + 1 \in 0..MaxBoxes
  BY <1>0, <1>2
<1> QED BY <1>4, <1>6, <1>7

LEMMA WarmInvInit == WarmInit => WarmInv
<1> SUFFICES ASSUME WarmInit PROVE WarmInv
  OBVIOUS
<1> USE DEF WarmInit
<1>0. /\ MaxBoxes \in Nat /\ MaxTimers \in Nat
      /\ NoBox \in BoxRecs /\ ~NoBox.made /\ ~NoBox.up
  BY WarmConstants DEF BoxRecs, NoBox
<1>1. NoRun \in RunRecs /\ NoRun.pc = "idle"
  BY <1>0 DEF RunRecs, RunPCs, RunEnds, NoRun
<1>2. ToSet(idle) = {} /\ idle \in Seq(Boxes) /\ IsInjective(idle)
  BY DEF ToSet, IsInjective
<1>3. WarmTypeOK /\ RunTypeOK
  <2>1. WarmTypeOK
    BY <1>0, <1>2 DEF WarmTypeOK, BoxRecs
  <2> QED BY <1>0, <1>1, <2>1 DEF RunTypeOK
<1>4. MadeInOrder
  BY <1>0 DEF MadeInOrder, Boxes
<1>5. RunsFit /\ RunsApart
  BY <1>1 DEF RunsFit, RunFits, RunsApart, HasBox, Holding
<1>6. PoolFits /\ UpIsKept /\ IdleIsClean
  BY <1>0, <1>2 DEF PoolFits, UpIsKept, Kept, IdleIsClean
<1> QED BY <1>3, <1>4, <1>5, <1>6 DEF WarmInv

\* A run that has no container, and has none after.
LEMMA RunWithout ==
    ASSUME WarmInv, NEW r \in GearRuns, ~HasBox(r), NEW t \in RunRecs, t.pc \notin Holding,
           gearRun' = [gearRun EXCEPT ![r] = t],
           UNCHANGED <<box, idle, timerOf, armed, firing, retiring, closing, timers>>
    PROVE  WarmInv'
<1>0. gearRun \in [GearRuns -> RunRecs]
  BY DEF WarmInv, RunTypeOK
<1>1. /\ gearRun' \in [GearRuns -> RunRecs] /\ ~HasBox(r)'
      /\ \A s \in GearRuns : s # r => HasBox(s)' = HasBox(s) /\ BoxOf(s)' = BoxOf(s) /\ gearRun'[s] = gearRun[s]
  BY <1>0 DEF HasBox, BoxOf
<1>2. WarmTypeOK' /\ RunTypeOK'
  BY <1>1 DEF WarmInv, WarmTypeOK, RunTypeOK
<1>3. MadeInOrder' /\ PoolFits' /\ IdleIsClean'
  BY DEF WarmInv, MadeInOrder, PoolFits, IdleIsClean
<1>4. RunsFit'
  BY <1>1 DEF WarmInv, RunsFit, RunFits
<1>5. RunsApart'
  BY <1>1 DEF WarmInv, RunsApart
<1>6. UpIsKept'
  BY <1>1 DEF WarmInv, UpIsKept
<1> QED BY <1>2, <1>3, <1>4, <1>5, <1>6 DEF WarmInv

\* A run at work in the container it has, which it has after unless that is down.
LEMMA RunInBox ==
    ASSUME WarmInv, NEW r \in GearRuns, HasBox(r), NEW t \in RunRecs, NEW x \in BoxRecs,
           gearRun' = [gearRun EXCEPT ![r] = t], box' = [box EXCEPT ![BoxOf(r)] = x],
           UNCHANGED <<idle, timerOf, armed, firing, retiring, closing, timers>>,
           x.made,
           (t.pc \in Holding /\ t.box = BoxOf(r)) \/ (t.pc \notin Holding /\ ~Kept(x)),
           t.pc \in {"inspecting", "clearing", "copying", "executing", "offering"} => x.left # "timedOut",
           t.pc = "finishing" /\ t.end # "timedOut" => x.left # "timedOut",
           t.pc = "offering" => ~x.payload
    PROVE  WarmInv'
<1> DEFINE b == BoxOf(r)
<1>0. /\ gearRun \in [GearRuns -> RunRecs] /\ box \in [Boxes -> BoxRecs] /\ b \in Boxes
      /\ box[b].made /\ b \notin ToSet(idle) /\ b \notin retiring
      /\ \A s \in GearRuns : HasBox(s) /\ s # r => BoxOf(s) # b
  BY DEF WarmInv, RunTypeOK, WarmTypeOK, BoxRecs, RunsFit, RunFits, RunsApart
<1>1. /\ gearRun' \in [GearRuns -> RunRecs] /\ gearRun'[r] = t
      /\ \A s \in GearRuns : s # r => HasBox(s)' = HasBox(s) /\ BoxOf(s)' = BoxOf(s) /\ gearRun'[s] = gearRun[s]
  BY <1>0 DEF HasBox, BoxOf
<1>2. /\ box' \in [Boxes -> BoxRecs] /\ box'[b] = x /\ \A c \in Boxes : c # b => box'[c] = box[c]
  BY <1>0
<1>3. HasBox(r)' <=> t.pc \in Holding
  BY <1>1 DEF HasBox
<1>4. BoxOf(r)' = t.box
  BY <1>1 DEF BoxOf
<1> HIDE DEF b
<1>5. b = BoxOf(r)
  BY DEF b
<1>6. WarmTypeOK' /\ RunTypeOK'
  BY <1>1, <1>2 DEF WarmInv, WarmTypeOK, RunTypeOK, BoxRecs
<1>7. MadeInOrder'
  <2>1. \A c \in Boxes : box'[c].made <=> box[c].made
    BY <1>0, <1>2
  <2>2. \A c \in Boxes : box'[c].up => box'[c].made
    BY <1>0, <1>2 DEF WarmInv, MadeInOrder
  <2> QED BY <2>1, <2>2 DEF WarmInv, MadeInOrder
<1>8. RunFits(r)'
  BY <1>0, <1>1, <1>2, <1>3, <1>4, <1>5 DEF RunFits
<1>9. ASSUME NEW s \in GearRuns, s # r PROVE RunFits(s)'
  BY <1>0, <1>1, <1>2, <1>9 DEF WarmInv, RunsFit, RunFits
<1>10. RunsFit'
  BY <1>8, <1>9 DEF RunsFit
<1>11. RunsApart'
  BY <1>0, <1>1, <1>3, <1>4, <1>5 DEF WarmInv, RunsApart
<1>12. PoolFits'
  BY <1>0, <1>2 DEF WarmInv, PoolFits, WarmTypeOK
<1>13. UpIsKept'
  <2> SUFFICES ASSUME NEW c \in Boxes, Kept(box'[c])
               PROVE  c \in ToSet(idle) \/ c \in retiring \/ \E s \in GearRuns : HasBox(s)' /\ BoxOf(s)' = c
    BY DEF UpIsKept
  <2>1. CASE c = b
    BY <2>1, <1>2, <1>3, <1>4, <1>5
  <2>2. CASE c # b
    BY <2>2, <1>1, <1>2, <1>5 DEF WarmInv, UpIsKept
  <2> QED BY <2>1, <2>2
<1>14. IdleIsClean'
  <2>1. ToSet(idle) \subseteq Boxes
    BY LenProperties, ElementOfSeq DEF WarmInv, WarmTypeOK, ToSet
  <2> QED BY <1>0, <1>2, <2>1 DEF WarmInv, IdleIsClean
<1> QED BY <1>6, <1>7, <1>10, <1>11, <1>12, <1>13, <1>14 DEF WarmInv

\* A run that has none makes itself a container.
LEMMA RunMakes ==
    ASSUME WarmInv, NEW r \in GearRuns, ~HasBox(r), NEW t \in RunRecs, NEW x \in BoxRecs,
           \E b \in Boxes : ~box[b].made,
           gearRun' = [gearRun EXCEPT ![r] = t], box' = [box EXCEPT ![Fresh] = x],
           UNCHANGED <<idle, timerOf, armed, firing, retiring, closing, timers>>,
           x.made, x.left = "nothing", t.pc \in {"plain", "removing", "clearing"}, t.box = Fresh
    PROVE  WarmInv'
<1> DEFINE b == Fresh
<1>0. /\ gearRun \in [GearRuns -> RunRecs] /\ box \in [Boxes -> BoxRecs] /\ ToSet(idle) \subseteq Boxes
      /\ retiring \subseteq Boxes
  BY LenProperties, ElementOfSeq DEF WarmInv, RunTypeOK, WarmTypeOK, BoxRecs, ToSet
<1>1. b \in Boxes /\ ~box[b].made /\ \E n \in 0..MaxBoxes : \A c \in Boxes : box[c].made \/ c = b <=> c <= n
  BY FreshIsNew
<1> HIDE DEF b
<1>2. b = Fresh
  BY DEF b
<1>3. /\ b \notin ToSet(idle) /\ b \notin retiring
      /\ \A s \in GearRuns : HasBox(s) => BoxOf(s) # b
  BY <1>1 DEF WarmInv, PoolFits, RunsFit, RunFits
<1>4. /\ gearRun' \in [GearRuns -> RunRecs] /\ gearRun'[r] = t
      /\ \A s \in GearRuns : s # r => HasBox(s)' = HasBox(s) /\ BoxOf(s)' = BoxOf(s) /\ gearRun'[s] = gearRun[s]
  BY <1>0 DEF HasBox, BoxOf
<1>5. /\ box' \in [Boxes -> BoxRecs] /\ box'[b] = x /\ \A c \in Boxes : c # b => box'[c] = box[c]
  BY <1>0, <1>1, <1>2
<1>6. HasBox(r)' /\ BoxOf(r)' = b
  BY <1>2, <1>4 DEF HasBox, BoxOf, Holding
<1>7. WarmTypeOK' /\ RunTypeOK'
  BY <1>4, <1>5 DEF WarmInv, WarmTypeOK, RunTypeOK, BoxRecs
<1>8. MadeInOrder'
  <2>1. \A c \in Boxes : box'[c].made <=> box[c].made \/ c = b
    BY <1>5
  <2>2. \A c \in Boxes : box'[c].up => box'[c].made
    BY <1>5 DEF WarmInv, MadeInOrder
  <2> QED BY <1>1, <2>1, <2>2 DEF MadeInOrder
<1>9. RunFits(r)'
  BY <1>1, <1>2, <1>3, <1>4, <1>5, <1>6 DEF RunFits
<1>10. ASSUME NEW s \in GearRuns, s # r PROVE RunFits(s)'
  BY <1>3, <1>4, <1>5, <1>10 DEF WarmInv, RunsFit, RunFits
<1>11. RunsFit'
  BY <1>9, <1>10 DEF RunsFit
<1>12. RunsApart'
  BY <1>3, <1>4, <1>6 DEF WarmInv, RunsApart
<1>13. PoolFits' /\ IdleIsClean'
  BY <1>0, <1>3, <1>5 DEF WarmInv, PoolFits, IdleIsClean
<1>14. UpIsKept'
  <2> SUFFICES ASSUME NEW c \in Boxes, Kept(box'[c])
               PROVE  c \in ToSet(idle) \/ c \in retiring \/ \E s \in GearRuns : HasBox(s)' /\ BoxOf(s)' = c
    BY DEF UpIsKept
  <2>1. CASE c = b
    BY <2>1, <1>6
  <2>2. CASE c # b
    <3>1. c \in ToSet(idle) \/ c \in retiring \/ \E s \in GearRuns : HasBox(s) /\ BoxOf(s) = c
      BY <2>2, <1>5 DEF WarmInv, UpIsKept
    <3> QED BY <3>1, <1>4
  <2> QED BY <2>1, <2>2
<1> QED BY <1>7, <1>8, <1>11, <1>12, <1>13, <1>14 DEF WarmInv

LEMMA RunTakes ==
    ASSUME WarmInv, NEW r \in GearRuns, TakeWarm(r)
    PROVE  WarmInv'
<1> DEFINE b == Head(idle)
           t == [pc |-> "inspecting", box |-> b, end |-> "none"]
<1>0. /\ gearRun \in [GearRuns -> RunRecs] /\ box \in [Boxes -> BoxRecs] /\ idle \in Seq(Boxes)
      /\ retiring \subseteq Boxes /\ IsInjective(idle) /\ MaxTimers \in Nat
      /\ timerOf \in [Boxes -> 0..MaxTimers]
  BY WarmConstants DEF WarmInv, RunTypeOK, WarmTypeOK, BoxRecs, PoolFits
<1>1. /\ At(r, "idle") /\ idle # <<>> /\ idle' = Tail(idle) /\ timerOf' = [timerOf EXCEPT ![b] = 0]
      /\ armed' \subseteq armed /\ gearRun' = [gearRun EXCEPT ![r] = t]
      /\ UNCHANGED <<box, firing, retiring, closing, timers>>
  BY DEF TakeWarm
<1>2. /\ b \in Boxes /\ b \in ToSet(idle) /\ idle' \in Seq(Boxes)
      /\ ToSet(idle)' = ToSet(idle) \ {b} /\ IsInjective(idle)'
  BY <1>0, <1>1, HeadOut
<1>3. t \in RunRecs /\ t.pc = "inspecting" /\ t.box = b
  BY <1>2 DEF RunRecs, RunPCs, RunEnds, Holding, Boxes
<1> HIDE DEF b, t
<1>4. /\ gearRun' \in [GearRuns -> RunRecs] /\ gearRun'[r] = t
      /\ \A s \in GearRuns : s # r => HasBox(s)' = HasBox(s) /\ BoxOf(s)' = BoxOf(s) /\ gearRun'[s] = gearRun[s]
  BY <1>0, <1>1, <1>3 DEF HasBox, BoxOf
<1>5. HasBox(r)' /\ BoxOf(r)' = b /\ ~HasBox(r)
  BY <1>1, <1>3, <1>4 DEF HasBox, BoxOf, Holding, At
<1>6. /\ box[b].made /\ b \notin retiring /\ box[b].left # "timedOut"
      /\ \A s \in GearRuns : HasBox(s) => BoxOf(s) # b
  BY <1>2 DEF WarmInv, PoolFits, IdleIsClean, RunsFit, RunFits
<1>7. WarmTypeOK' /\ RunTypeOK'
  BY <1>0, <1>1, <1>2, <1>4 DEF WarmInv, WarmTypeOK, RunTypeOK
<1>8. MadeInOrder'
  BY <1>1 DEF WarmInv, MadeInOrder
<1>9. RunFits(r)'
  BY <1>1, <1>2, <1>3, <1>4, <1>5, <1>6 DEF RunFits
<1>10. ASSUME NEW s \in GearRuns, s # r PROVE RunFits(s)'
  BY <1>1, <1>2, <1>4, <1>10 DEF WarmInv, RunsFit, RunFits
<1>11. RunsFit'
  BY <1>9, <1>10 DEF RunsFit
<1>12. RunsApart'
  BY <1>4, <1>5, <1>6 DEF WarmInv, RunsApart
<1>13. PoolFits' /\ IdleIsClean'
  BY <1>1, <1>2 DEF WarmInv, PoolFits, IdleIsClean
<1>14. UpIsKept'
  <2> SUFFICES ASSUME NEW c \in Boxes, Kept(box[c])
               PROVE  c \in ToSet(idle)' \/ c \in retiring \/ \E s \in GearRuns : HasBox(s)' /\ BoxOf(s)' = c
    BY <1>1 DEF UpIsKept
  <2>1. c \in ToSet(idle) \/ c \in retiring \/ \E s \in GearRuns : HasBox(s) /\ BoxOf(s) = c
    BY DEF WarmInv, UpIsKept
  <2> QED BY <2>1, <1>2, <1>4, <1>5
<1> QED BY <1>7, <1>8, <1>11, <1>12, <1>13, <1>14 DEF WarmInv

\* A run puts its container back into the pool.
LEMMA RunPutsBack ==
    ASSUME WarmInv, NEW r \in GearRuns, At(r, "offering"), To(r, "over"),
           timers < MaxTimers, timers' = timers + 1,
           idle' = Append(idle, BoxOf(r)), timerOf' = [timerOf EXCEPT ![BoxOf(r)] = timers'],
           armed' = armed \cup {<<timers', BoxOf(r)>>},
           UNCHANGED <<box, firing, retiring, closing>>
    PROVE  WarmInv'
<1> DEFINE b == BoxOf(r)
<1>0. /\ gearRun \in [GearRuns -> RunRecs] /\ box \in [Boxes -> BoxRecs] /\ idle \in Seq(Boxes)
      /\ IsInjective(idle) /\ MaxTimers \in Nat /\ timers \in Nat
      /\ timerOf \in [Boxes -> 0..MaxTimers] /\ armed \subseteq (Nat \X Boxes)
  BY WarmConstants DEF WarmInv, RunTypeOK, WarmTypeOK, BoxRecs, PoolFits
<1>1. HasBox(r) /\ gearRun[r].pc = "offering"
  BY DEF HasBox, At, Holding
<1>2. /\ b \in Boxes /\ box[b].made /\ b \notin ToSet(idle) /\ b \notin retiring
      /\ box[b].left # "timedOut" /\ ~box[b].payload
  BY <1>1 DEF WarmInv, RunsFit, RunFits
<1>3. \A s \in GearRuns : HasBox(s) /\ s # r => BoxOf(s) # b
  BY <1>1 DEF WarmInv, RunsApart
<1>4. idle' \in Seq(Boxes) /\ ToSet(idle)' = ToSet(idle) \cup {b} /\ IsInjective(idle)'
  BY <1>0, <1>2, Added
<1>5. /\ gearRun' \in [GearRuns -> RunRecs] /\ ~HasBox(r)'
      /\ \A s \in GearRuns : s # r => HasBox(s)' = HasBox(s) /\ BoxOf(s)' = BoxOf(s) /\ gearRun'[s] = gearRun[s]
  BY <1>0 DEF HasBox, BoxOf, To, RunRecs, RunPCs, Holding
<1> HIDE DEF b
<1>6. b = BoxOf(r)
  BY DEF b
<1>7. WarmTypeOK'
  <2>1. timerOf' \in [Boxes -> 0..MaxTimers]
    BY <1>0, <1>2, <1>6
  <2> QED BY <1>4, <2>1 DEF WarmInv, WarmTypeOK
<1>8. RunTypeOK'
  BY <1>0, <1>2, <1>5, <1>6 DEF RunTypeOK
<1>9. MadeInOrder'
  BY DEF WarmInv, MadeInOrder
<1>10. ASSUME NEW s \in GearRuns PROVE RunFits(s)'
  BY <1>3, <1>4, <1>5, <1>10 DEF WarmInv, RunsFit, RunFits
<1>11. RunsFit' /\ RunsApart'
  BY <1>5, <1>10 DEF WarmInv, RunsFit, RunsApart
<1>12. PoolFits' /\ IdleIsClean'
  BY <1>2, <1>4 DEF WarmInv, PoolFits, IdleIsClean
<1>13. UpIsKept'
  <2> SUFFICES ASSUME NEW c \in Boxes, Kept(box[c])
               PROVE  c \in ToSet(idle)' \/ c \in retiring \/ \E s \in GearRuns : HasBox(s)' /\ BoxOf(s)' = c
    BY DEF UpIsKept
  <2>1. c \in ToSet(idle) \/ c \in retiring \/ \E s \in GearRuns : HasBox(s) /\ BoxOf(s) = c
    BY DEF WarmInv, UpIsKept
  <2> QED BY <2>1, <1>4, <1>5, <1>6
<1> QED BY <1>7, <1>8, <1>9, <1>11, <1>12, <1>13 DEF WarmInv

\* Timers fire, containers leave the pool to be removed, or vanish: no run moves.
LEMMA PoolMoves ==
    ASSUME WarmInv, gearRun' = gearRun, armed' \subseteq armed, timers' = timers,
           timerOf' \in [Boxes -> 0..MaxTimers], closing' \in {"no", "draining", "closed"},
           firing' \subseteq Boxes, idle' \in Seq(Boxes), IsInjective(idle)',
           ToSet(idle)' \subseteq ToSet(idle), retiring' \subseteq retiring \cup (ToSet(idle) \ ToSet(idle)'),
           box' \in [Boxes -> BoxRecs],
           \A b \in Boxes : /\ box'[b].made = box[b].made
                            /\ box'[b].left = "timedOut" => box[b].left = "timedOut"
                            /\ box'[b].payload = box[b].payload /\ (box'[b].up => box[b].up)
                            /\ Kept(box'[b]) => Kept(box[b]) /\ (b \in ToSet(idle) \cup retiring =>
                                                              b \in ToSet(idle)' \cup retiring')
    PROVE  WarmInv'
<1>0. ToSet(idle) \subseteq Boxes /\ retiring \subseteq Boxes /\ ToSet(idle)' \subseteq Boxes
  BY LenProperties, ElementOfSeq DEF WarmInv, WarmTypeOK, ToSet
<1>1. \A s \in GearRuns : HasBox(s)' = HasBox(s) /\ BoxOf(s)' = BoxOf(s)
  BY DEF HasBox, BoxOf
<1>2. WarmTypeOK' /\ RunTypeOK'
  BY <1>0 DEF WarmInv, WarmTypeOK, RunTypeOK, BoxRecs
<1>3. MadeInOrder'
  <2>1. \A b \in Boxes : (box'[b].made <=> box[b].made) /\ (box'[b].up => box[b].up)
    OBVIOUS
  <2> QED BY <2>1 DEF WarmInv, MadeInOrder
<1>4. ASSUME NEW s \in GearRuns PROVE RunFits(s)'
  BY <1>1, <1>4 DEF WarmInv, RunsFit, RunFits
<1>5. RunsFit' /\ RunsApart'
  BY <1>1, <1>4 DEF WarmInv, RunsFit, RunsApart
<1>6. PoolFits'
  BY <1>0 DEF WarmInv, PoolFits
<1>7. UpIsKept'
  BY <1>1 DEF WarmInv, UpIsKept
<1>8. IdleIsClean'
  BY <1>0 DEF WarmInv, IdleIsClean
<1> QED BY <1>2, <1>3, <1>5, <1>6, <1>7, <1>8 DEF WarmInv

\* A run at work, step by step.
LEMMA RunActs ==
    ASSUME WarmInv, NEW r \in GearRuns,
           \/ RunPlain(r) \/ RemoveBox(r) \/ InspectBox(r) \/ ReplaceBox(r) \/ ClearBefore(r)
           \/ CopyIn(r) \/ Execute(r) \/ FinishRun(r)
    PROVE  WarmInv'
<1> DEFINE b == BoxOf(r)
           Moves(t, x) == gearRun' = [gearRun EXCEPT ![r] = t] /\ box' = [box EXCEPT ![b] = x]
<1>1. At(r, "plain") \/ At(r, "removing") \/ At(r, "inspecting") \/ At(r, "replacing") \/ At(r, "clearing")
      \/ At(r, "copying") \/ At(r, "executing") \/ At(r, "finishing")
  BY DEF RunPlain, RemoveBox, InspectBox, ReplaceBox, ClearBefore, CopyIn, Execute, FinishRun
<1>2. HasBox(r) /\ RunFits(r)
  BY <1>1 DEF HasBox, At, Holding, WarmInv, RunsFit
<1>3. /\ gearRun \in [GearRuns -> RunRecs] /\ box \in [Boxes -> BoxRecs] /\ b \in Boxes
      /\ gearRun[r] \in RunRecs /\ box[b] \in BoxRecs /\ box[b].made /\ 0 \in 0..MaxBoxes
  BY <1>2, WarmConstants DEF WarmInv, RunTypeOK, WarmTypeOK, BoxRecs, RunFits
<1>4. UNCHANGED <<idle, timerOf, armed, firing, retiring, closing, timers>>
  BY DEF RunPlain, RemoveBox, InspectBox, ReplaceBox, ClearBefore, CopyIn, Execute, FinishRun, PoolVars
<1> SUFFICES \E t \in RunRecs, x \in BoxRecs :
                /\ Moves(t, x) /\ x.made
                /\ (t.pc \in Holding /\ t.box = b) \/ (t.pc \notin Holding /\ ~Kept(x))
                /\ t.pc \in {"inspecting", "clearing", "copying", "executing", "offering"} => x.left # "timedOut"
                /\ t.pc = "finishing" /\ t.end # "timedOut" => x.left # "timedOut"
                /\ t.pc = "offering" => ~x.payload
  BY <1>2, <1>4, RunInBox
<1> DEFINE Fit(t, x) ==
              /\ t \in RunRecs /\ x \in BoxRecs /\ Moves(t, x) /\ x.made
              /\ (t.pc \in Holding /\ t.box = b) \/ (t.pc \notin Holding /\ ~Kept(x))
              /\ t.pc \in {"inspecting", "clearing", "copying", "executing", "offering"} => x.left # "timedOut"
              /\ t.pc = "finishing" /\ t.end # "timedOut" => x.left # "timedOut"
              /\ t.pc = "offering" => ~x.payload
<1> SUFFICES \E t, x : Fit(t, x)
  OBVIOUS
<1> DEFINE Run(pc) == [gearRun[r] EXCEPT !.pc = pc]
<1>5. box' = box => box' = [box EXCEPT ![b] = box[b]]
  BY <1>3
<1>6. \A pc \in RunPCs : /\ Run(pc) \in RunRecs /\ Run(pc).pc = pc /\ Run(pc).box = b
                         /\ Run(pc).end = gearRun[r].end
  BY <1>3 DEF RunRecs, BoxOf
<1>7. \A pc : To(r, pc) => gearRun' = [gearRun EXCEPT ![r] = Run(pc)]
  BY <1>3 DEF To
<1> USE DEF At, Up, BoxOf, Holding, RunPCs
<1>8. CASE RunPlain(r)
  <2>1. PICK end \in {"exited", "timedOut", "cancelled"} :
           gearRun' = [gearRun EXCEPT ![r].pc = "removing", ![r].end = end]
    BY <1>8 DEF RunPlain
  <2> DEFINE t == [gearRun[r] EXCEPT !.pc = "removing", !.end = end]
  <2>2. t \in RunRecs /\ t.pc = "removing" /\ t.box = b
    BY <1>3 DEF RunRecs, RunEnds
  <2>3. gearRun' = [gearRun EXCEPT ![r] = t] /\ box' = [box EXCEPT ![b] = box[b]]
    BY <1>3, <1>5, <1>8, <2>1 DEF RunPlain
  <2> HIDE DEF t
  <2>4. Fit(t, box[b])
    BY <1>3, <2>2, <2>3
  <2> QED BY <2>4
<1>9. CASE RemoveBox(r)
  <2>1. PICK x \in BoxRecs : x.made /\ ~Kept(x) /\ box' = [box EXCEPT ![b] = x]
    BY <1>3, <1>9, BoxRemoved DEF RemoveBox
  <2>2. gearRun' = [gearRun EXCEPT ![r] = Run("over")] /\ Run("over") \in RunRecs /\ Run("over").pc = "over"
    BY <1>6, <1>7, <1>9 DEF RemoveBox
  <2> HIDE DEF Run
  <2>3. Fit(Run("over"), x)
    BY <2>1, <2>2
  <2> QED BY <2>3
<1>10. CASE InspectBox(r)
  <2>1. PICK pc \in {"clearing", "replacing"} : To(r, pc) /\ box' = box
    BY <1>10 DEF InspectBox
  <2>2. Run(pc) \in RunRecs /\ Run(pc).pc = pc /\ Run(pc).box = b
    BY <1>6
  <2>3. box[b].left # "timedOut"
    BY <1>2, <1>10 DEF InspectBox, RunFits
  <2>4. gearRun' = [gearRun EXCEPT ![r] = Run(pc)]
    BY <1>7, <2>1
  <2> HIDE DEF Run
  <2>5. Fit(Run(pc), box[b])
    BY <1>3, <1>5, <2>1, <2>2, <2>3, <2>4
  <2> QED BY <2>5
<1>11. CASE ReplaceBox(r)
  <2> DEFINE t == [pc |-> "starting", box |-> 0, end |-> "none"]
  <2>1. PICK x \in BoxRecs : x.made /\ ~Kept(x) /\ box' = [box EXCEPT ![b] = x]
    BY <1>3, <1>11, BoxRemoved DEF ReplaceBox
  <2>2. t \in RunRecs /\ t.pc = "starting" /\ gearRun' = [gearRun EXCEPT ![r] = t]
    BY <1>3, <1>11 DEF ReplaceBox, RunRecs, RunEnds
  <2> HIDE DEF t
  <2>3. Fit(t, x)
    BY <2>1, <2>2
  <2> QED BY <2>3
<1>12. CASE ClearBefore(r)
  <2>0. box[b].left # "timedOut"
    BY <1>2, <1>12 DEF ClearBefore, RunFits
  <2>1. CASE To(r, "copying") /\ box' = [box EXCEPT ![b].payload = FALSE]
    <3> DEFINE x == [box[b] EXCEPT !.payload = FALSE]
    <3>1. x \in BoxRecs /\ x.made /\ x.left # "timedOut" /\ box' = [box EXCEPT ![b] = x]
      BY <1>3, <2>0, <2>1 DEF BoxRecs
    <3>2. /\ gearRun' = [gearRun EXCEPT ![r] = Run("copying")] /\ Run("copying") \in RunRecs
          /\ Run("copying").pc = "copying" /\ Run("copying").box = b
      BY <1>6, <1>7, <2>1
    <3> HIDE DEF x, Run
    <3>3. Fit(Run("copying"), x)
      BY <3>1, <3>2
    <3> QED BY <3>3
  <2>2. CASE gearRun' = [gearRun EXCEPT ![r].pc = "finishing", ![r].end = "failed"] /\ box' = box
    <3> DEFINE t == [gearRun[r] EXCEPT !.pc = "finishing", !.end = "failed"]
    <3>1. t \in RunRecs /\ t.pc = "finishing" /\ t.box = b /\ gearRun' = [gearRun EXCEPT ![r] = t]
      BY <1>3, <2>2 DEF RunRecs, RunEnds
    <3> HIDE DEF t
    <3>2. Fit(t, box[b])
      BY <1>3, <1>5, <2>0, <2>2, <3>1
    <3> QED BY <3>2
  <2> QED BY <1>12, <2>1, <2>2 DEF ClearBefore
<1>13. CASE CopyIn(r)
  <2> DEFINE x == [box[b] EXCEPT !.payload = Up(r)]
  <2>0. box[b].left # "timedOut"
    BY <1>2, <1>13 DEF CopyIn, RunFits
  <2>1. Up(r) \in BOOLEAN
    BY <1>3 DEF BoxRecs
  <2>2. x \in BoxRecs /\ x.made /\ x.left # "timedOut" /\ box' = [box EXCEPT ![b] = x]
    BY <1>3, <1>13, <2>0, <2>1 DEF CopyIn, BoxRecs
  <2> HIDE DEF x
  <2>3. CASE To(r, "executing")
    <3>1. /\ gearRun' = [gearRun EXCEPT ![r] = Run("executing")] /\ Run("executing") \in RunRecs
          /\ Run("executing").pc = "executing" /\ Run("executing").box = b
      BY <1>6, <1>7, <2>3
    <3> HIDE DEF Run
    <3>2. Fit(Run("executing"), x)
      BY <2>2, <3>1
    <3> QED BY <3>2
  <2>4. CASE gearRun' = [gearRun EXCEPT ![r].pc = "finishing", ![r].end = "failed"]
    <3> DEFINE t == [gearRun[r] EXCEPT !.pc = "finishing", !.end = "failed"]
    <3>1. t \in RunRecs /\ t.pc = "finishing" /\ t.box = b /\ gearRun' = [gearRun EXCEPT ![r] = t]
      BY <1>3, <2>4 DEF RunRecs, RunEnds
    <3> HIDE DEF t
    <3>2. Fit(t, x)
      BY <2>2, <3>1
    <3> QED BY <3>2
  <2> QED BY <1>13, <2>3, <2>4 DEF CopyIn
<1>14. CASE Execute(r)
  <2>0. box[b].left # "timedOut"
    BY <1>2, <1>14 DEF Execute, RunFits
  <2>1. PICK end \in {"exited", "timedOut", "cancelled"} :
          /\ gearRun' = [gearRun EXCEPT ![r].pc = "finishing", ![r].end = end]
          /\ box' = [box EXCEPT ![b].served = @ + 1, ![b].left = IF end = "exited" THEN @ ELSE end]
    BY <1>14 DEF Execute
  <2> DEFINE t == [gearRun[r] EXCEPT !.pc = "finishing", !.end = end]
             x == [box[b] EXCEPT !.served = @ + 1, !.left = IF end = "exited" THEN @ ELSE end]
  <2>2. t \in RunRecs /\ t.pc = "finishing" /\ t.end = end /\ t.box = b /\ gearRun' = [gearRun EXCEPT ![r] = t]
    BY <1>3, <2>1 DEF RunRecs, RunEnds
  <2>3. x \in BoxRecs /\ x.made /\ x.left = (IF end = "exited" THEN box[b].left ELSE end)
    <3>1. (IF end = "exited" THEN box[b].left ELSE end) \in {"nothing", "timedOut", "cancelled", "leaked"}
      BY <1>3, <2>1 DEF BoxRecs
    <3>2. box[b].served + 1 \in Nat
      BY <1>3 DEF BoxRecs
    <3>3. x = [box[b] EXCEPT !.served = box[b].served + 1,
                             !.left = IF end = "exited" THEN box[b].left ELSE end]
      BY <1>3 DEF BoxRecs
    <3> DEFINE n == box[b].served + 1
               l == IF end = "exited" THEN box[b].left ELSE end
    <3> HIDE DEF x, n, l
    <3>4. x = [box[b] EXCEPT !.served = n, !.left = l]
      BY <3>3 DEF n, l
    <3>5. n \in Nat /\ l \in {"nothing", "timedOut", "cancelled", "leaked"}
      BY <3>1, <3>2 DEF n, l
    <3>6. x \in BoxRecs /\ x.made = box[b].made /\ x.left = l
      BY <1>3, <3>4, <3>5 DEF BoxRecs
    <3> QED BY <1>3, <3>6 DEF l
  <2>4. box' = [box EXCEPT ![b] = x]
    BY <1>3, <2>1
  <2> HIDE DEF t, x
  <2>5. Fit(t, x)
    BY <2>0, <2>2, <2>3, <2>4
  <2> QED BY <2>5
<1>15. CASE FinishRun(r)
  <2>1. CASE To(r, "removing") /\ box' = box
    <3>1. /\ gearRun' = [gearRun EXCEPT ![r] = Run("removing")] /\ Run("removing") \in RunRecs
          /\ Run("removing").pc = "removing" /\ Run("removing").box = b
      BY <1>6, <1>7, <2>1
    <3> HIDE DEF Run
    <3>2. Fit(Run("removing"), box[b])
      BY <1>3, <1>5, <2>1, <3>1
    <3> QED BY <3>2
  <2>2. CASE To(r, "offering") /\ box' = [box EXCEPT ![b].payload = FALSE] /\ gearRun[r].end # "timedOut"
    <3> DEFINE x == [box[b] EXCEPT !.payload = FALSE]
    <3>0. box[b].left # "timedOut"
      BY <1>2, <1>15, <2>2 DEF FinishRun, RunFits
    <3>1. x \in BoxRecs /\ x.made /\ ~x.payload /\ x.left # "timedOut" /\ box' = [box EXCEPT ![b] = x]
      BY <1>3, <2>2, <3>0 DEF BoxRecs
    <3>2. /\ gearRun' = [gearRun EXCEPT ![r] = Run("offering")] /\ Run("offering") \in RunRecs
          /\ Run("offering").pc = "offering" /\ Run("offering").box = b
      BY <1>6, <1>7, <2>2
    <3> HIDE DEF x, Run
    <3>3. Fit(Run("offering"), x)
      BY <3>1, <3>2
    <3> QED BY <3>3
  <2> QED BY <1>15, <2>1, <2>2 DEF FinishRun
<1> QED BY <1>8, <1>9, <1>10, <1>11, <1>12, <1>13, <1>14, <1>15

LEMMA WarmInvStep == WarmInv /\ [WarmNext]_warmVars => WarmInv'
<1> SUFFICES ASSUME WarmInv, [WarmNext]_warmVars PROVE WarmInv'
  OBVIOUS
<1>0. /\ gearRun \in [GearRuns -> RunRecs] /\ box \in [Boxes -> BoxRecs] /\ idle \in Seq(Boxes)
      /\ IsInjective(idle) /\ firing \subseteq Boxes /\ retiring \subseteq Boxes /\ ToSet(idle) \subseteq Boxes
      /\ timerOf \in [Boxes -> 0..MaxTimers] /\ closing \in {"no", "draining", "closed"}
      /\ armed \subseteq (Nat \X Boxes) /\ MaxTimers \in Nat /\ MaxBoxes \in Nat
  BY WarmConstants, LenProperties, ElementOfSeq
     DEF WarmInv, WarmTypeOK, RunTypeOK, PoolFits, BoxRecs, ToSet
<1>1. ASSUME NEW r \in GearRuns,
             \/ RunPlain(r) \/ RemoveBox(r) \/ InspectBox(r) \/ ReplaceBox(r) \/ ClearBefore(r)
             \/ CopyIn(r) \/ Execute(r) \/ FinishRun(r)
      PROVE WarmInv'
  BY <1>1, RunActs
<1>2. ASSUME NEW r \in GearRuns, TakeWarm(r) PROVE WarmInv'
  BY <1>2, RunTakes
<1>3. ASSUME NEW r \in GearRuns, CreateBox(r) PROVE WarmInv'
  <2>1. PICK pc \in {"plain", "removing"}, end \in {"none", "failed"} :
           gearRun' = [gearRun EXCEPT ![r] = [pc |-> pc, box |-> Fresh, end |-> end]]
    BY <1>3 DEF CreateBox
  <2>2. /\ \E b \in Boxes : ~box[b].made
        /\ ~HasBox(r) /\ UNCHANGED <<idle, timerOf, armed, firing, retiring, closing, timers>>
    BY <1>3 DEF CreateBox, PoolVars, HasBox, At, Holding
  <2> DEFINE x == [NewBox EXCEPT !.payload = TRUE]
             t == [pc |-> pc, box |-> Fresh, end |-> end]
  <2>3. x \in BoxRecs /\ x.made /\ x.left = "nothing" /\ box' = [box EXCEPT ![Fresh] = x]
    BY <1>3 DEF CreateBox, BoxRecs, NewBox, NoBox
  <2>4. Fresh \in 0..MaxBoxes
    BY <2>2, FreshIsNew DEF Boxes
  <2>5. t \in RunRecs /\ t.pc \in {"plain", "removing", "clearing"} /\ t.box = Fresh
    BY <2>4 DEF RunRecs, RunPCs, RunEnds, Holding
  <2> HIDE DEF x, t
  <2>6. gearRun' = [gearRun EXCEPT ![r] = t]
    BY <2>1 DEF t
  <2> QED BY <2>2, <2>3, <2>5, <2>6, RunMakes
<1>4. ASSUME NEW r \in GearRuns, StartWarm(r) PROVE WarmInv'
  <2>0. ~HasBox(r) /\ UNCHANGED <<idle, timerOf, armed, firing, retiring, closing, timers>>
    BY <1>4 DEF StartWarm, PoolVars, HasBox, At, Holding
  <2>1. CASE To(r, "over") /\ box' = box
    <3> DEFINE t == [gearRun[r] EXCEPT !.pc = "over"]
    <3>1. t \in RunRecs /\ t.pc \notin Holding /\ gearRun' = [gearRun EXCEPT ![r] = t]
      BY <1>0, <2>1 DEF RunRecs, RunPCs, Holding, To
    <3> HIDE DEF t
    <3> QED BY <2>0, <2>1, <3>1, RunWithout
  <2>2. CASE /\ \E b \in Boxes : ~box[b].made
             /\ box' = [box EXCEPT ![Fresh] = NewBox]
             /\ gearRun' = [gearRun EXCEPT ![r] = [pc |-> "clearing", box |-> Fresh, end |-> "none"]]
    <3> DEFINE t == [pc |-> "clearing", box |-> Fresh, end |-> "none"]
    <3>1. NewBox \in BoxRecs /\ NewBox.made /\ NewBox.left = "nothing"
      BY DEF BoxRecs, NewBox, NoBox
    <3>2. Fresh \in 0..MaxBoxes
      BY <2>2, FreshIsNew DEF Boxes
    <3>3. t \in RunRecs /\ t.pc \in {"plain", "removing", "clearing"} /\ t.box = Fresh
      BY <3>2 DEF RunRecs, RunPCs, RunEnds, Holding
    <3>4. gearRun' = [gearRun EXCEPT ![r] = t]
      BY <2>2
    <3> HIDE DEF t
    <3> QED BY <2>0, <2>2, <3>1, <3>3, <3>4, RunMakes
  <2> QED BY <1>4, <2>1, <2>2 DEF StartWarm
<1>5. ASSUME NEW r \in GearRuns, TakeNone(r) PROVE WarmInv'
  <2> DEFINE t == [gearRun[r] EXCEPT !.pc = "starting"]
  <2>1. t \in RunRecs /\ t.pc \notin Holding /\ gearRun' = [gearRun EXCEPT ![r] = t] /\ ~HasBox(r)
    BY <1>0, <1>5 DEF TakeNone, RunRecs, RunPCs, Holding, To, HasBox, At
  <2>2. UNCHANGED <<box, idle, timerOf, armed, firing, retiring, closing, timers>>
    BY <1>5 DEF TakeNone, PoolVars
  <2> HIDE DEF t
  <2> QED BY <2>1, <2>2, RunWithout
<1>6. ASSUME NEW r \in GearRuns, OfferBox(r) PROVE WarmInv'
  <2>0. At(r, "offering") /\ UNCHANGED <<box, firing, retiring, closing>>
    BY <1>6 DEF OfferBox
  <2>1. CASE To(r, "removing") /\ UNCHANGED <<idle, timerOf, armed, timers>>
    <3> DEFINE b == BoxOf(r)
               t == [gearRun[r] EXCEPT !.pc = "removing"]
    <3>1. HasBox(r)
      BY <2>0 DEF HasBox, At, Holding
    <3>2. b \in Boxes /\ box[b].made /\ box[b] \in BoxRecs
      BY <1>0, <3>1 DEF WarmInv, RunsFit, RunFits
    <3>3. t \in RunRecs /\ t.pc = "removing" /\ t.box = b /\ gearRun' = [gearRun EXCEPT ![r] = t]
      BY <1>0, <2>1 DEF RunRecs, RunPCs, Holding, To, BoxOf
    <3>4. box' = [box EXCEPT ![b] = box[b]]
      BY <1>0, <2>0
    <3> HIDE DEF t
    <3>5. t.pc \in Holding
      BY <3>3 DEF Holding
    <3> QED BY <2>0, <2>1, <3>1, <3>2, <3>3, <3>4, <3>5, RunInBox
  <2>2. CASE /\ timers < MaxTimers /\ timers' = timers + 1
             /\ idle' = Append(idle, BoxOf(r)) /\ timerOf' = [timerOf EXCEPT ![BoxOf(r)] = timers']
             /\ armed' = armed \cup {<<timers', BoxOf(r)>>} /\ To(r, "over")
    BY <2>0, <2>2, RunPutsBack
  <2> QED BY <1>6, <2>1, <2>2 DEF OfferBox, BoxOf
<1>7. CASE Fire
  <2>1. PICK t \in armed : armed' = armed \ {t} /\ firing' = firing \cup {t[2]}
    BY <1>7 DEF Fire
  <2>2. UNCHANGED <<box, gearRun, idle, timerOf, retiring, closing, timers>>
    BY <1>7 DEF Fire
  <2>3. firing' \subseteq Boxes /\ armed' \subseteq armed
    BY <1>0, <2>1
  <2> QED BY <1>0, <2>2, <2>3, PoolMoves
<1>8. CASE DropIdle
  <2>1. PICK b \in firing :
           /\ firing' = firing \ {b}
           /\ IF b \in ToSet(idle)
              THEN /\ \E i \in 1..Len(idle) : idle[i] = b /\ idle' = RemoveAt(idle, i)
                   /\ timerOf' = [timerOf EXCEPT ![b] = 0] /\ retiring' = retiring \cup {b}
              ELSE UNCHANGED <<idle, timerOf, retiring>>
    BY <1>8 DEF DropIdle
  <2>2. UNCHANGED <<box, gearRun, armed, closing, timers>>
    BY <1>8 DEF DropIdle
  <2>3. CASE b \in ToSet(idle)
    <3>1. PICK i \in 1..Len(idle) : idle[i] = b /\ idle' = RemoveAt(idle, i)
      BY <2>1, <2>3
    <3>2. idle' \in Seq(Boxes) /\ ToSet(idle)' = ToSet(idle) \ {b} /\ IsInjective(idle)'
      BY <1>0, <3>1, CutOut
    <3>3. /\ timerOf' \in [Boxes -> 0..MaxTimers] /\ retiring' = retiring \cup {b}
          /\ firing' \subseteq Boxes
      <4>1. timerOf' = [timerOf EXCEPT ![b] = 0] /\ retiring' = retiring \cup {b} /\ 0 \in 0..MaxTimers
        BY <1>0, <2>1, <2>3
      <4>2. timerOf' \in [Boxes -> 0..MaxTimers]
        BY <1>0, <4>1
      <4> QED BY <1>0, <2>1, <4>1, <4>2
    <3> QED BY <1>0, <2>2, <2>3, <3>2, <3>3, PoolMoves
  <2>4. CASE b \notin ToSet(idle)
    <3>1. UNCHANGED <<idle, timerOf, retiring>> /\ firing' \subseteq Boxes
      BY <1>0, <2>1, <2>4
    <3> QED BY <1>0, <2>2, <3>1, PoolMoves
  <2> QED BY <2>3, <2>4
<1>9. CASE RetireBox
  <2>1. PICK b \in retiring : retiring' = retiring \ {b} /\ Removed(b)
    BY <1>9 DEF RetireBox
  <2>2. UNCHANGED <<gearRun, idle, timerOf, armed, firing, closing, timers>>
    BY <1>9 DEF RetireBox
  <2>3. PICK x \in BoxRecs : /\ box' = [box EXCEPT ![b] = x] /\ ~Kept(x) /\ x.made = box[b].made
                             /\ x.payload = box[b].payload /\ (x.up => box[b].up)
                             /\ x.left = "timedOut" => box[b].left = "timedOut"
    BY <1>0, <2>1, BoxRemoved
  <2>4. /\ box' \in [Boxes -> BoxRecs] /\ box'[b] = x
        /\ \A c \in Boxes : c # b => box'[c] = box[c]
    BY <1>0, <2>3
  <2>5. \A c \in Boxes : Kept(box'[c]) => Kept(box[c]) /\ (c \in ToSet(idle) \cup retiring => c \in ToSet(idle)' \cup retiring')
    BY <2>1, <2>2, <2>3, <2>4
  <2>6. \A c \in Boxes : /\ box'[c].made = box[c].made /\ box'[c].payload = box[c].payload
                         /\ box'[c].up => box[c].up
                         /\ box'[c].left = "timedOut" => box[c].left = "timedOut"
    BY <2>3, <2>4
  <2>7. retiring' \subseteq retiring
    BY <2>1
  <2> QED BY <1>0, <2>2, <2>4, <2>5, <2>6, <2>7, PoolMoves
<1>10. CASE CloseWarm
  <2>1. /\ armed' \subseteq armed /\ timerOf' \in [Boxes -> 0..MaxTimers] /\ closing' = "draining"
        /\ idle' = <<>> /\ retiring' = retiring \cup ToSet(idle) /\ UNCHANGED <<box, gearRun, firing, timers>>
    BY <1>0, <1>10 DEF CloseWarm
  <2>2. idle' \in Seq(Boxes) /\ IsInjective(idle)' /\ ToSet(idle)' = {}
    BY <2>1 DEF IsInjective, ToSet
  <2> QED BY <1>0, <2>1, <2>2, PoolMoves
<1>11. CASE CloseDone
  <2>1. closing' = "closed" /\ UNCHANGED <<box, gearRun, idle, timerOf, armed, firing, retiring, timers>>
    BY <1>11 DEF CloseDone
  <2> QED BY <1>0, <2>1, PoolMoves
<1>12. CASE Vanish
  <2>1. PICK b \in Boxes : box' = [box EXCEPT ![b].up = FALSE]
    BY <1>12 DEF Vanish
  <2>2. UNCHANGED <<gearRun, idle, timerOf, armed, firing, retiring, closing, timers>>
    BY <1>12 DEF Vanish, PoolVars
  <2>3. /\ box' \in [Boxes -> BoxRecs]
        /\ \A c \in Boxes : /\ box'[c].made = box[c].made /\ box'[c].left = box[c].left
                            /\ box'[c].payload = box[c].payload
                            /\ box'[c].up = IF c = b THEN FALSE ELSE box[c].up
    BY <1>0, <2>1 DEF BoxRecs
  <2>4. \A c \in Boxes : Kept(box'[c]) => Kept(box[c])
    BY <2>3 DEF Kept
  <2> QED BY <1>0, <2>2, <2>3, <2>4, PoolMoves
<1>13. CASE UNCHANGED warmVars
  BY <1>13 DEF warmVars, WarmInv, WarmTypeOK, RunTypeOK, MadeInOrder, RunsFit, RunFits, RunsApart, PoolFits,
     UpIsKept, IdleIsClean, HasBox, BoxOf
<1> QED BY <1>1, <1>2, <1>3, <1>4, <1>5, <1>6, <1>7, <1>8, <1>9, <1>10, <1>11, <1>12, <1>13
        DEF WarmNext

\* A container has one keeper because its keepers are apart.
LEMMA KeeperIsOne == WarmInv => OneKeeper
<1> SUFFICES ASSUME WarmInv, NEW b \in Boxes
             PROVE  LET keepers == Cardinality(Held(b)) + Cardinality({i \in 1..Len(idle) : idle[i] = b})
                                   + Cardinality(retiring \cap {b})
                    IN keepers <= 1 /\ (box[b].up /\ box[b].left # "leaked" => keepers = 1)
  BY DEF OneKeeper
<1> DEFINE runs  == Held(b)
           slots == {i \in 1..Len(idle) : idle[i] = b}
           going == retiring \cap {b}
<1>1. runs = {r \in GearRuns : HasBox(r) /\ BoxOf(r) = b}
  BY DEF Held, HasBox, BoxOf
<1>2. DOMAIN idle = 1..Len(idle) /\ IsInjective(idle)
  BY LenProperties DEF WarmInv, WarmTypeOK, PoolFits
<1>3. runs = {} \/ \E r \in GearRuns : runs = {r}
  BY <1>1 DEF WarmInv, RunsApart
<1>4. slots = {} \/ \E i \in 1..Len(idle) : slots = {i}
  BY <1>2 DEF IsInjective
<1>5. going = {} \/ going = {b}
  OBVIOUS
<1>6. slots # {} <=> b \in ToSet(idle)
  BY <1>2 DEF ToSet
<1>7. /\ runs # {} => slots = {} /\ going = {}
      /\ slots # {} => going = {}
  BY <1>1, <1>6 DEF WarmInv, RunsFit, RunFits, PoolFits
<1>8. Kept(box[b]) => runs # {} \/ slots # {} \/ going # {}
  BY <1>1, <1>6 DEF WarmInv, UpIsKept
<1> HIDE DEF runs, slots, going
<1>9. /\ (runs = {} => Cardinality(runs) = 0) /\ (runs # {} => Cardinality(runs) = 1)
      /\ (slots = {} => Cardinality(slots) = 0) /\ (slots # {} => Cardinality(slots) = 1)
      /\ (going = {} => Cardinality(going) = 0) /\ (going # {} => Cardinality(going) = 1)
  BY <1>3, <1>4, <1>5, FS_EmptySet, FS_Singleton
<1>10. Cardinality(runs) + Cardinality(slots) + Cardinality(going) <= 1
  BY <1>7, <1>9
<1>11. box[b].up /\ box[b].left # "leaked" => Cardinality(runs) + Cardinality(slots) + Cardinality(going) = 1
  BY <1>7, <1>8, <1>9 DEF Kept
<1> QED BY <1>10, <1>11 DEF runs, slots, going

LEMMA WarmHolds == WarmSpec => []WarmInv
BY WarmInvInit, WarmInvStep, PTL DEF WarmSpec

\* Containers, the pool of warm ones and its timers are well typed, for any runs, sizes and
\* faults (docker.go, pool.go).
THEOREM WarmTyped == WarmSpec => []WarmTypeOK
<1>1. WarmInv => WarmTypeOK
  BY DEF WarmInv
<1> QED BY WarmHolds, <1>1, PTL

\* WarmIsSound, for any runs, sizes, timers and faults: a container has one keeper, a run,
\* the pool or whoever removes it, none that is up is without, and what waits in the pool
\* holds no gear's files and nothing of a run that timed out.
THEOREM KeptByOne == WarmSpec => []WarmIsSound
<1>1. WarmInv => WarmIsSound
  BY KeeperIsOne DEF WarmInv, WarmIsSound
<1> QED BY WarmHolds, <1>1, PTL

------------------------------------------------------------------------------
(* The sign-in to a remote server: McpSignIn.                              *)

Issuers    == {0} \cup {Min(Usable(l)) : l \in {m \in AuthLists : Usable(m) # {}}}
GrantRecs  == [family : Nat, gen : Nat, scopes : SUBSET Permissions, spent : BOOLEAN, key : Nat, rev : Nat]
SignInPCs  == {"idle", "found", "asked", "begun", "sent", "failed"}
SignInRecs == [pc : SignInPCs, asked : SUBSET Permissions, challenge : SUBSET Permissions,
               issuer : Issuers, says : BOOLEAN, key : Nat, base : Nat]
ReturnPCs  == {"idle", "taken", "exchanging", "granted", "refused", "done"}
ReturnRecs == [pc : ReturnPCs, of : SignIns \cup {0}, family : Nat]
AskPCs     == {"idle", "refreshing", "refreshed", "over"}
AskRecs    == [pc : AskPCs, grant : GrantRecs, gen : Nat, out : {"none", "unsigned", "failed", "signed"}]

SignInRecsOK ==
    /\ SignInTypeOK
    /\ grantRow \in GrantRecs /\ signIn \in [SignIns -> SignInRecs]
    /\ return \in [Returns -> ReturnRecs] /\ connect \in [Connects -> AskRecs]
    /\ writes \in Nat /\ rotates \in BOOLEAN

(* Whoever names a family of tokens: the row, a connection that refreshes, a return that
   was given one.                                                          *)
Refreshing(c) == connect[c].pc = "refreshing"
Refreshed(c)  == connect[c].pc = "refreshed"
FamilyOf(c)   == connect[c].grant.family

\* What the row will hold of a connection's answer.
WillHold(c) == IF connect[c].gen = 0 THEN connect[c].grant.gen ELSE connect[c].gen

\* No generation is ahead of the server's, and what is refreshed is a refresh token.
NobodyAhead ==
    /\ \A c \in Connects : Refreshing(c) =>
          /\ FamilyOf(c) \in 1..Len(issued)
          /\ connect[c].grant.gen \in 1..issued[FamilyOf(c)]
          /\ ~rotates /\ FamilyOf(c) \notin lostHold => connect[c].grant.gen = issued[FamilyOf(c)]
    /\ grantRow.family # 0 =>
          /\ grantRow.gen <= issued[grantRow.family]
          /\ ~rotates /\ grantRow.family \notin lostHold => grantRow.gen = issued[grantRow.family]

\* An answer on its way to the row is the server's newest, as long as none was lost.
AnswerIsNewest ==
    \A c \in Connects : Refreshed(c) =>
       /\ FamilyOf(c) \in 1..Len(issued)
       /\ rotates <=> connect[c].gen # 0
       /\ WillHold(c) <= issued[FamilyOf(c)]
       /\ FamilyOf(c) \notin lostHold => WillHold(c) = issued[FamilyOf(c)]

\* Where the server rotates, the answer on its way is the only one, and everything else that
\* is known of its family is older: nobody can refresh past it.
AnswerIsAlone ==
    rotates => \A c \in Connects : Refreshed(c) /\ FamilyOf(c) \notin lostHold =>
       /\ \A d \in Connects : d # c /\ FamilyOf(d) = FamilyOf(c) =>
             ~Refreshed(d) /\ (Refreshing(d) => connect[d].grant.gen < issued[FamilyOf(c)])
       /\ grantRow.family = FamilyOf(c) => grantRow.gen < issued[FamilyOf(c)]

\* The tokens a return was just given are nobody else's.
GrantedIsNew ==
    \A b \in Returns : return[b].pc = "granted" =>
       /\ return[b].family \in 1..Len(issued) /\ return[b].family # grantRow.family
       /\ \A c \in Connects : Refreshing(c) \/ Refreshed(c) => FamilyOf(c) # return[b].family
       /\ \A a \in Returns : a # b /\ return[a].pc = "granted" => return[a].family # return[b].family

\* What a sign-in looked at, and the key of the row, are not of the future.
LookedBefore ==
    /\ grantRow.rev <= writes /\ grantRow.key <= sealKey
    /\ \A s \in SignIns : signIn[s].base <= writes

\* A return that goes on has taken the row of a sign-in, which does not come back.
TakenIsGone ==
    \A b \in Returns :
       /\ return[b].pc = "idle" => return[b].of = 0
       /\ return[b].pc \notin {"idle", "refused"} =>
             return[b].of \in SignIns \ pendings /\ signIn[return[b].of].pc = "sent"

SignInInv ==
    /\ SignInRecsOK /\ NobodyAhead /\ AnswerIsNewest /\ AnswerIsAlone /\ GrantedIsNew
    /\ LookedBefore /\ TakenIsGone /\ RefreshIsHeld /\ StepUpKeeps /\ TakenOnce

LEMMA SignInBounds == MaxWrites \in Nat /\ MaxSpent \in Nat /\ MaxSealKeys \in Nat \ {0}
BY SignInConstants

\* What a server issued, seen as numbers.
LEMMA IssuedSeen ==
    ASSUME SignInRecsOK
    PROVE  /\ Len(issued) \in Nat /\ DOMAIN issued = 1..Len(issued)
           /\ \A f \in 1..Len(issued) : issued[f] \in Nat
           /\ grantRow.family \in 0..Len(issued) /\ lostHold \subseteq 1..Len(issued)
<1>1. issued \in Seq(Nat)
  BY DEF SignInRecsOK, SignInTypeOK
<1>2. Len(issued) \in Nat /\ DOMAIN issued = 1..Len(issued)
  BY <1>1, LenProperties
<1>3. \A f \in 1..Len(issued) : issued[f] \in Nat
  BY <1>1, ElementOfSeq
<1> QED BY <1>2, <1>3 DEF SignInRecsOK, SignInTypeOK

LEMMA SignInRecsInit ==
    ASSUME NEW gens \in SUBSET Nat, NEW policies \in SUBSET (BOOLEAN \X BOOLEAN),
           SignInInit(gens, policies)
    PROVE  SignInInv
<1> USE SignInConstants
<1>1. PICK p \in policies : rotates = p[1]
  BY DEF SignInInit
<1>2. rotates \in BOOLEAN
  BY <1>1
<1>3. NoGrant \in GrantRecs
  BY DEF NoGrant, GrantRecs
<1>4. /\ grantRow \in GrantRecs /\ issued \in Seq(Nat) /\ writes \in Nat
      /\ grantRow.family \in 0..Len(issued) /\ grantRow.scopes \subseteq Permissions
      /\ grantRow.rev <= writes /\ grantRow.key <= sealKey
      /\ grantRow.family # 0 => grantRow.gen = issued[grantRow.family]
  <2>1. CASE grantRow = NoGrant /\ issued = <<>> /\ writes = 0
    BY <2>1, <1>3, EmptySeq DEF SignInInit, NoGrant
  <2>2. ASSUME NEW gen \in gens,
               grantRow = [NoGrant EXCEPT !.family = 1, !.gen = gen, !.scopes = Supported, !.key = 1, !.rev = 1],
               issued = <<gen>>, writes = 1
        PROVE  /\ grantRow \in GrantRecs /\ issued \in Seq(Nat) /\ writes \in Nat
               /\ grantRow.family \in 0..Len(issued) /\ grantRow.scopes \subseteq Permissions
               /\ grantRow.rev <= writes /\ grantRow.key <= sealKey
               /\ grantRow.family # 0 => grantRow.gen = issued[grantRow.family]
    <3>1. gen \in Nat /\ Supported \in SUBSET Permissions /\ sealKey = 1
      BY DEF SignInInit
    <3>2. grantRow = [family |-> 1, gen |-> gen, scopes |-> Supported, spent |-> FALSE, key |-> 1, rev |-> 1]
      BY <2>2 DEF NoGrant
    <3>3. issued \in Seq(Nat) /\ Len(issued) = 1 /\ issued[1] = gen
      BY <2>2, <3>1
    <3>4. grantRow \in GrantRecs
      BY <3>1, <3>2 DEF GrantRecs
    <3>5. /\ grantRow.family = 1 /\ grantRow.gen = gen /\ grantRow.scopes = Supported
          /\ grantRow.key = 1 /\ grantRow.rev = 1
      BY <3>2
    <3> QED BY <2>2, <3>1, <3>3, <3>4, <3>5
  <2> QED BY <2>1, <2>2 DEF SignInInit
<1>5. NoSignIn \in SignInRecs /\ NoReturn \in ReturnRecs /\ NoConnect \in AskRecs
  BY <1>3 DEF NoSignIn, NoReturn, NoConnect, SignInRecs, SignInPCs, ReturnRecs, ReturnPCs, AskRecs, AskPCs, Issuers
<1>6. /\ \A s \in SignIns : signIn[s] = NoSignIn
      /\ \A b \in Returns : return[b] = NoReturn
      /\ \A c \in Connects : connect[c] = NoConnect
  BY DEF SignInInit
<1>7. SignInRecsOK
  <2>1. /\ signIn \in [SignIns -> SignInRecs] /\ return \in [Returns -> ReturnRecs]
        /\ connect \in [Connects -> AskRecs]
    BY <1>5 DEF SignInInit
  <2>2. pendings = {} /\ sealKey = 1 /\ lostHold = {}
    BY DEF SignInInit
  <2>3. 1 \in 1..MaxSealKeys
    BY SignInBounds
  <2> QED BY <1>2, <1>4, <2>1, <2>2, <2>3 DEF SignInRecsOK, SignInTypeOK
<1>8. NobodyAhead /\ AnswerIsNewest /\ AnswerIsAlone /\ GrantedIsNew /\ RefreshIsHeld
  <2>1. \A c \in Connects : ~Refreshing(c) /\ ~Refreshed(c)
    BY <1>6 DEF NoConnect, Refreshing, Refreshed
  <2>2. \A b \in Returns : return[b].pc # "granted"
    BY <1>6 DEF NoReturn
  <2>3. grantRow.gen \in Nat
    BY <1>4 DEF GrantRecs
  <2> QED BY <1>4, <2>1, <2>2, <2>3 DEF NobodyAhead, AnswerIsNewest, AnswerIsAlone, GrantedIsNew, RefreshIsHeld
<1>9. LookedBefore
  BY <1>4, <1>6 DEF LookedBefore, NoSignIn
<1>10. TakenIsGone /\ TakenOnce
  BY <1>6 DEF TakenIsGone, TakenOnce, NoReturn
<1>11. StepUpKeeps
  BY <1>6 DEF StepUpKeeps, NoSignIn
<1> QED BY <1>7, <1>8, <1>9, <1>10, <1>11 DEF SignInInv

\* The sign-ins' own steps: what they write, and what they leave alone.
LEMMA StartRecsKept ==
    ASSUME SignInRecsOK, NEW s \in SignIns, DiscoverServer(s) \/ AskForMore(s) \/ RegisterClient(s) \/ SavePending(s)
    PROVE  SignInRecsOK'
<1> USE SignInConstants DEF SignInRecsOK
<1>1. signIn[s] \in SignInRecs /\ NoSignIn \in SignInRecs
  BY DEF SignInRecs, SignInPCs, NoSignIn, Issuers
<1>3. signIn[s].pc # "sent" => s \notin pendings
  BY DEF SignInTypeOK
<1>8. rotates' = rotates /\ grantRow' = grantRow /\ return' = return /\ connect' = connect
      /\ issued' = issued /\ sealKey' = sealKey /\ writes' = writes /\ lostHold' = lostHold
  BY DEF DiscoverServer, AskForMore, RegisterClient, SavePending, policy
<1>10. ASSUME NEW r \in SignInRecs, signIn' = [signIn EXCEPT ![s] = r], pendings' = pendings, s \notin pendings
       PROVE  SignInRecsOK'
  <2>1. signIn' \in [SignIns -> SignInRecs]
    BY <1>10
  <2>2. pendings' \subseteq {t \in SignIns : signIn'[t].pc = "sent"}
    BY <1>10 DEF SignInTypeOK
  <2> QED BY <1>8, <2>1, <2>2 DEF SignInTypeOK
<1>4. CASE DiscoverServer(s)
  <2>9. pendings' = pendings /\ s \notin pendings
    BY <1>3, <1>4 DEF DiscoverServer
  <2>1. PICK list \in AuthLists, challenge \in Challenges :
          signIn' = [signIn EXCEPT ![s] =
              IF Usable(list) = {} THEN [NoSignIn EXCEPT !.pc = "failed"]
              ELSE [NoSignIn EXCEPT !.pc = "found", !.issuer = Min(Usable(list)),
                                    !.asked = ChosenScopes(challenge, Supported),
                                    !.challenge = challenge]]
    BY <1>4 DEF DiscoverServer
  <2>2. Usable(list) # {} => Min(Usable(list)) \in Issuers
    BY DEF Issuers
  <2>3. challenge \in SUBSET Permissions /\ ChosenScopes(challenge, Supported) \in SUBSET Permissions
    BY DEF ChosenScopes
  <2>4. CASE Usable(list) = {}
    <3>1. [NoSignIn EXCEPT !.pc = "failed"] \in SignInRecs
      BY <1>1 DEF SignInRecs, SignInPCs
    <3> QED BY <1>10, <2>9, <2>1, <2>4, <3>1
  <2>5. CASE Usable(list) # {}
    <3> DEFINE r == [NoSignIn EXCEPT !.pc = "found", !.issuer = Min(Usable(list)),
                                     !.asked = ChosenScopes(challenge, Supported), !.challenge = challenge]
    <3>1. r \in SignInRecs
      BY <1>1, <2>2, <2>3, <2>5 DEF SignInRecs, SignInPCs
    <3>2. signIn' = [signIn EXCEPT ![s] = r]
      BY <2>1, <2>5
    <3> HIDE DEF r
    <3> QED BY <1>10, <2>9, <3>1, <3>2
  <2> QED BY <2>4, <2>5
<1>5. CASE AskForMore(s)
  <2>9. pendings' = pendings /\ s \notin pendings
    BY <1>3, <1>5 DEF AskForMore
  <2> DEFINE a == IF grantRow.family # 0 /\ Opens(grantRow.key)
                  THEN grantRow.scopes \cup signIn[s].challenge ELSE signIn[s].asked
             r == [signIn[s] EXCEPT !.pc = "asked", !.base = grantRow.rev, !.challenge = {}, !.asked = a]
  <2>1. a \in SUBSET Permissions /\ grantRow.rev \in Nat
    BY <1>1 DEF SignInRecs, GrantRecs
  <2>2. signIn' = [signIn EXCEPT ![s] = r]
    BY <1>5 DEF AskForMore
  <2>3. r \in SignInRecs
    <3> HIDE DEF a
    <3> QED BY <1>1, <2>1 DEF SignInRecs, SignInPCs
  <2> HIDE DEF r
  <2> QED BY <1>10, <2>9, <2>2, <2>3
<1>6. CASE RegisterClient(s)
  <2>9. pendings' = pendings /\ s \notin pendings
    BY <1>3, <1>6 DEF RegisterClient
  <2>1. CASE signIn' = [signIn EXCEPT ![s] = [NoSignIn EXCEPT !.pc = "failed"]]
    <3>1. [NoSignIn EXCEPT !.pc = "failed"] \in SignInRecs
      BY <1>1 DEF SignInRecs, SignInPCs
    <3> QED BY <1>10, <2>9, <2>1, <3>1
  <2>2. ASSUME NEW says \in BOOLEAN, signIn' = [signIn EXCEPT ![s].pc = "begun", ![s].says = says]
        PROVE  SignInRecsOK'
    <3> DEFINE r == [signIn[s] EXCEPT !.pc = "begun", !.says = says]
    <3>1. r \in SignInRecs
      BY <1>1 DEF SignInRecs, SignInPCs
    <3>2. signIn' = [signIn EXCEPT ![s] = r]
      BY <2>2
    <3> HIDE DEF r
    <3> QED BY <1>10, <2>9, <3>1, <3>2
  <2> QED BY <1>6, <2>1, <2>2 DEF RegisterClient
<1>7. CASE SavePending(s)
  <2> DEFINE r == [signIn[s] EXCEPT !.pc = "sent", !.key = sealKey]
  <2>0. sealKey \in Nat
    BY SignInBounds DEF SignInTypeOK
  <2>1. r \in SignInRecs
    BY <1>1, <2>0 DEF SignInRecs, SignInPCs
  <2>2. signIn' = [signIn EXCEPT ![s] = r] /\ r.pc = "sent"
    BY <1>1, <1>7 DEF SavePending, SignInRecs
  <2> HIDE DEF r
  <2>3. signIn' \in [SignIns -> SignInRecs]
    BY <2>1, <2>2
  <2>4. pendings' \subseteq {t \in SignIns : signIn'[t].pc = "sent"}
    BY <1>7, <2>2 DEF SavePending, SignInTypeOK
  <2> QED BY <1>8, <2>3, <2>4 DEF SignInTypeOK
<1> QED BY <1>4, <1>5, <1>6, <1>7

\* What a save makes of the row.
LEMMA SavedRow ==
    ASSUME SignInRecsOK, NEW f, NEW g, NEW sc, Save(f, g, sc)
    PROVE  /\ grantRow'.family = f /\ grantRow'.gen = g /\ grantRow'.scopes = sc /\ grantRow'.spent = FALSE
           /\ grantRow'.key = sealKey /\ grantRow'.rev = writes + 1 /\ writes' = writes + 1
           /\ f \in Nat /\ g \in Nat /\ sc \in SUBSET Permissions => grantRow' \in GrantRecs
<1>1. grantRow' = [family |-> f, gen |-> g, scopes |-> sc, spent |-> FALSE, key |-> sealKey, rev |-> writes + 1]
      /\ writes' = writes + 1
  BY DEF Save
<1>2. writes \in Nat /\ sealKey \in Nat
  BY SignInBounds DEF SignInRecsOK, SignInTypeOK
<1> QED BY <1>1, <1>2 DEF GrantRecs

LEMMA ReturnRecsKept ==
    ASSUME SignInRecsOK, GrantedIsNew, TakenIsGone, NEW b \in Returns,
           (\E s \in SignIns : TakePending(b, s)) \/ ReadResponse(b) \/ Exchange(b) \/ SaveGrant(b)
    PROVE  SignInRecsOK'
<1> USE DEF SignInRecsOK
<1>0. return[b] \in ReturnRecs
  OBVIOUS
<1>1. ASSUME NEW s \in SignIns, TakePending(b, s) PROVE SignInRecsOK'
  <2>1. return' \in [Returns -> ReturnRecs]
    BY <1>1 DEF TakePending, ReturnRecs, ReturnPCs, NoReturn
  <2>2. pendings' \subseteq pendings
    BY <1>1 DEF TakePending
  <2> QED BY <1>1, <2>1, <2>2 DEF TakePending, SignInTypeOK, policy
<1>2. CASE ReadResponse(b)
  <2>1. return' \in [Returns -> ReturnRecs]
    BY <1>0, <1>2 DEF ReadResponse, ReturnRecs, ReturnPCs
  <2> QED BY <1>2, <2>1 DEF ReadResponse, SignInTypeOK, policy
<1>3. CASE Exchange(b)
  <2>1. CASE return' = [return EXCEPT ![b].pc = "refused"] /\ UNCHANGED issued
    <3>1. return' \in [Returns -> ReturnRecs]
      BY <1>0, <2>1 DEF ReturnRecs, ReturnPCs
    <3> QED BY <1>3, <2>1, <3>1 DEF Exchange, SignInTypeOK, policy
  <2>2. ASSUME NEW n \in {0, 1}, issued' = Append(issued, n),
               return' = [return EXCEPT ![b].pc = "granted", ![b].family = Len(issued')]
        PROVE  SignInRecsOK'
    <3>1. issued' \in Seq(Nat) /\ Len(issued') = Len(issued) + 1 /\ Len(issued) \in Nat
      BY <2>2, IssuedSeen, AppendProperties DEF SignInTypeOK
    <3>2. return' \in [Returns -> ReturnRecs]
      <4>1. Len(issued') \in Nat
        BY <3>1
      <4> DEFINE n2 == Len(issued')
      <4> HIDE DEF n2
      <4>2. return' = [return EXCEPT ![b].pc = "granted", ![b].family = n2]
        BY <2>2 DEF n2
      <4>3. [return[b] EXCEPT !.pc = "granted", !.family = n2] \in ReturnRecs
        BY <1>0, <4>1 DEF ReturnRecs, ReturnPCs, n2
      <4> QED BY <4>2, <4>3
    <3>3. grantRow.family \in 0..Len(issued') /\ lostHold \subseteq DOMAIN issued'
      <4>1. DOMAIN issued' = 1..Len(issued')
        BY <3>1, LenProperties
      <4> QED BY <3>1, <4>1, IssuedSeen
    <3> QED BY <1>3, <3>1, <3>2, <3>3 DEF Exchange, SignInTypeOK, policy
  <2> QED BY <1>3, <2>1, <2>2 DEF Exchange
<1>4. CASE SaveGrant(b)
  <2>1. return' \in [Returns -> ReturnRecs]
    BY <1>0, <1>4 DEF SaveGrant, ReturnRecs, ReturnPCs
  <2>2. CASE grantRow' = grantRow /\ writes' = writes
    BY <1>4, <2>1, <2>2 DEF SaveGrant, SignInTypeOK, policy
  <2>3. CASE Save(return[b].family, issued[return[b].family], signIn[return[b].of].asked)
    <3>1. return[b].family \in 1..Len(issued) /\ return[b].of \in SignIns
      BY <1>4 DEF SaveGrant, GrantedIsNew, TakenIsGone
    <3>2. issued[return[b].family] \in Nat /\ signIn[return[b].of].asked \in SUBSET Permissions
      BY <3>1, IssuedSeen DEF SignInRecs
    <3> DEFINE f == return[b].family  g == issued[f]  sc == signIn[return[b].of].asked
    <3>5. f \in Nat /\ g \in Nat /\ sc \in SUBSET Permissions
      BY <1>0, <3>2 DEF ReturnRecs
    <3>6. Save(f, g, sc)
      BY <2>3
    <3> HIDE DEF f, g, sc
    <3>7. grantRow' \in GrantRecs /\ writes' = writes + 1 /\ grantRow'.family = f /\ grantRow'.scopes = sc
      BY <3>5, <3>6, SavedRow
    <3>3. /\ grantRow' \in GrantRecs /\ writes' \in Nat /\ grantRow'.family = return[b].family
          /\ grantRow'.scopes \subseteq Permissions
      BY <3>5, <3>7 DEF f
    <3>4. grantRow'.family \in 0..Len(issued)
      BY <3>1, <3>3, IssuedSeen
    <3> QED BY <1>4, <2>1, <3>3, <3>4 DEF SaveGrant, SignInTypeOK, policy
  <2> QED BY <1>4, <2>2, <2>3 DEF SaveGrant
<1> QED BY <1>1, <1>2, <1>3, <1>4

LEMMA EndedIsOver ==
    ASSUME NEW o \in {"none", "unsigned", "failed", "signed"}
    PROVE  Ended(o) \in AskRecs /\ Ended(o).pc = "over"
<1>1. NoGrant \in GrantRecs
  BY DEF NoGrant, GrantRecs
<1> QED BY <1>1 DEF Ended, NoConnect, AskRecs, AskPCs

LEMMA UnusableIsOver == Unusable \in AskRecs /\ Unusable.pc = "over"
BY EndedIsOver DEF Unusable

\* A connection that read the row has ended, or refreshes what it read.
Reads(c, r) ==
    /\ connect' = [connect EXCEPT ![c] = r] /\ r \in AskRecs
    /\ \/ r.pc = "over"
       \/ r.pc = "refreshing" /\ r.grant = grantRow /\ grantRow.family # 0 /\ grantRow.gen # 0

LEMMA WhatWasRead ==
    ASSUME SignInRecsOK, NEW c \in Connects, ReadGrant(c)
    PROVE  \E r \in AskRecs : Reads(c, r)
<1>1. Ended("unsigned") \in AskRecs /\ Ended("unsigned").pc = "over"
      /\ Ended("signed") \in AskRecs /\ Ended("signed").pc = "over"
  BY EndedIsOver
<1> DEFINE g == grantRow  n == [NoConnect EXCEPT !.pc = "refreshing", !.grant = g]
<1>2. n \in AskRecs /\ n.pc = "refreshing" /\ n.grant = grantRow
  <2>1. g \in GrantRecs /\ NoGrant \in GrantRecs
    BY DEF SignInRecsOK, NoGrant, GrantRecs
  <2> HIDE DEF g
  <2>2. n \in AskRecs /\ n.pc = "refreshing" /\ n.grant = g
    BY <2>1 DEF NoConnect, AskRecs, AskPCs
  <2> QED BY <2>2 DEF g
<1> HIDE DEF n
<1>3. CASE g.family = 0
  <2>1. connect' = [connect EXCEPT ![c] = Ended("unsigned")]
    BY <1>3 DEF ReadGrant
  <2> QED BY <1>1, <2>1 DEF Reads
<1>4. CASE g.family # 0 /\ ~Opens(g.key)
  <2>1. connect' = [connect EXCEPT ![c] = Unusable]
    BY <1>4 DEF ReadGrant
  <2> QED BY UnusableIsOver, <2>1 DEF Reads
<1>5. CASE g.family # 0 /\ Opens(g.key) /\ ~g.spent
  <2>1. connect' = [connect EXCEPT ![c] = Ended("signed")]
    BY <1>5 DEF ReadGrant
  <2> QED BY <1>1, <2>1 DEF Reads
<1>6. CASE g.family # 0 /\ Opens(g.key) /\ g.spent /\ g.gen = 0
  <2>1. connect' = [connect EXCEPT ![c] = Unusable]
    BY <1>6 DEF ReadGrant
  <2> QED BY UnusableIsOver, <2>1 DEF Reads
<1>7. CASE g.family # 0 /\ Opens(g.key) /\ g.spent /\ g.gen # 0
  <2>1. connect' = [connect EXCEPT ![c] = n]
    BY <1>7 DEF ReadGrant, n
  <2> QED BY <1>2, <1>7, <2>1 DEF Reads
<1> QED BY <1>3, <1>4, <1>5, <1>6, <1>7

\* What a step makes of a connection, of its server's tokens and of the row.
LEMMA ConnectRecsKept ==
    ASSUME SignInRecsOK, NobodyAhead, AnswerIsNewest, NEW c \in Connects,
           ReadGrant(c) \/ RefreshToken(c) \/ RefreshFails(c) \/ SaveRefresh(c)
    PROVE  SignInRecsOK'
<1> USE DEF SignInRecsOK
<1>0. connect[c] \in AskRecs /\ connect[c].grant \in GrantRecs /\ connect[c].gen \in Nat
  BY DEF AskRecs
<1> DEFINE g == connect[c].grant
<1>1. CASE ReadGrant(c)
  <2>1. connect' \in [Connects -> AskRecs]
    <3>1. PICK r \in AskRecs : Reads(c, r)
      BY <1>1, WhatWasRead
    <3> QED BY <3>1 DEF Reads
  <2> QED BY <1>1, <2>1 DEF ReadGrant, SignInTypeOK, policy
<1>2. ASSUME g.family \in 1..Len(issued)
      PROVE  /\ [issued EXCEPT ![g.family] = @ + 1] \in Seq(Nat)
             /\ Len([issued EXCEPT ![g.family] = @ + 1]) = Len(issued)
             /\ DOMAIN [issued EXCEPT ![g.family] = @ + 1] = DOMAIN issued
  <2>1. issued \in Seq(Nat) /\ issued[g.family] + 1 \in Nat
    BY <1>2, IssuedSeen DEF SignInTypeOK
  <2>2. [issued EXCEPT ![g.family] = issued[g.family] + 1] \in Seq(Nat)
        /\ Len([issued EXCEPT ![g.family] = issued[g.family] + 1]) = Len(issued)
    BY <1>2, <2>1, ExceptSeq
  <2> QED BY <2>2
<1>3. CASE RefreshToken(c)
  <2>0. g.family \in 1..Len(issued) /\ g.gen \in Nat
    BY <1>0, <1>3 DEF RefreshToken, NobodyAhead, Refreshing, FamilyOf, GrantRecs
  <2>1. connect' \in [Connects -> AskRecs]
    <3>1. ASSUME NEW n \in Nat, connect' = [connect EXCEPT ![c].pc = "refreshed", ![c].gen = n]
          PROVE  connect' \in [Connects -> AskRecs]
      BY <1>0, <3>1 DEF AskRecs, AskPCs
    <3>2. 0 \in Nat /\ g.gen + 1 \in Nat
      BY <2>0
    <3>3. \/ connect' = [connect EXCEPT ![c].pc = "refreshed", ![c].gen = 0]
          \/ connect' = [connect EXCEPT ![c].pc = "refreshed", ![c].gen = g.gen + 1]
      BY <1>3 DEF RefreshToken
    <3> QED BY <3>1, <3>2, <3>3
  <2>2. issued' = issued \/ issued' = [issued EXCEPT ![g.family] = @ + 1]
    BY <1>3 DEF RefreshToken
  <2>3. issued' \in Seq(Nat) /\ Len(issued') = Len(issued) /\ DOMAIN issued' = DOMAIN issued
    BY <1>2, <2>0, <2>2 DEF SignInTypeOK
  <2> QED BY <1>3, <2>1, <2>3 DEF RefreshToken, SignInTypeOK, policy
<1>4. CASE RefreshFails(c)
  <2>0. g.family \in 1..Len(issued)
    BY <1>4 DEF RefreshFails, NobodyAhead, Refreshing, FamilyOf
  <2>1. connect' \in [Connects -> AskRecs]
    BY <1>4, UnusableIsOver DEF RefreshFails
  <2>2. issued' = issued \/ issued' = [issued EXCEPT ![g.family] = @ + 1]
    BY <1>4 DEF RefreshFails
  <2>3. issued' \in Seq(Nat) /\ Len(issued') = Len(issued) /\ DOMAIN issued' = DOMAIN issued
    BY <1>2, <2>0, <2>2 DEF SignInTypeOK
  <2>4. lostHold' \subseteq lostHold \cup {g.family}
    BY <1>4 DEF RefreshFails
  <2>5. lostHold' \subseteq DOMAIN issued
    BY <2>0, <2>4, IssuedSeen
  <2> QED BY <1>4, <2>1, <2>3, <2>5 DEF RefreshFails, SignInTypeOK, policy
<1>5. CASE SaveRefresh(c)
  <2>0. g.family \in 1..Len(issued) /\ g.family \in Nat /\ WillHold(c) \in Nat /\ g.scopes \in SUBSET Permissions
    BY <1>0, <1>5 DEF SaveRefresh, AnswerIsNewest, Refreshed, FamilyOf, WillHold, GrantRecs
  <2>1. connect' \in [Connects -> AskRecs]
    BY <1>5, EndedIsOver DEF SaveRefresh
  <2>2. CASE grantRow' = grantRow /\ writes' = writes
    <3>1. lostHold' \subseteq lostHold \cup {g.family}
      BY <1>5 DEF SaveRefresh
    <3>2. lostHold' \subseteq DOMAIN issued
      BY <2>0, <3>1, IssuedSeen
    <3> QED BY <1>5, <2>1, <2>2, <3>2 DEF SaveRefresh, SignInTypeOK, policy
  <2>3. CASE Save(g.family, WillHold(c), g.scopes) /\ UNCHANGED lostHold
    <3> DEFINE f == g.family  w == WillHold(c)  sc == g.scopes
    <3>1. f \in Nat /\ w \in Nat /\ sc \in SUBSET Permissions /\ Save(f, w, sc) /\ f \in 0..Len(issued)
      BY <2>0, <2>3, IssuedSeen
    <3> HIDE DEF f, w, sc
    <3>2. grantRow' \in GrantRecs /\ writes' = writes + 1 /\ grantRow'.family = f /\ grantRow'.scopes = sc
      BY <3>1, SavedRow
    <3> QED BY <1>5, <2>1, <2>3, <3>1, <3>2 DEF SaveRefresh, SignInTypeOK, policy
  <2> QED BY <1>5, <2>2, <2>3 DEF SaveRefresh, WillHold
<1> QED BY <1>1, <1>3, <1>4, <1>5

LEMMA RestRecsKept ==
    ASSUME SignInRecsOK, AnswerIsNewest, SweepPending \/ ForgetGrant \/ SpendToken \/ StartWithKey
    PROVE  SignInRecsOK'
<1> USE DEF SignInRecsOK
<1>1. CASE SweepPending
  BY <1>1 DEF SweepPending, SignInTypeOK, policy
<1>2. CASE ForgetGrant
  <2>1. grantRow' \in GrantRecs /\ grantRow'.family = 0 /\ grantRow'.scopes = {}
    BY <1>2 DEF ForgetGrant, NoGrant, GrantRecs
  <2> QED BY <1>2, <2>1, IssuedSeen DEF ForgetGrant, SignInTypeOK, policy
<1>3. CASE SpendToken
  <2>1. grantRow' \in GrantRecs /\ grantRow'.family = grantRow.family /\ grantRow'.scopes = grantRow.scopes
    BY <1>3 DEF SpendToken, GrantRecs
  <2> QED BY <1>3, <2>1 DEF SpendToken, SignInTypeOK, policy
<1>4. CASE StartWithKey
  <2>0. sealKey \in 1..MaxSealKeys /\ sealKey' \in 1..MaxSealKeys
    BY <1>4, SignInBounds DEF StartWithKey, SignInTypeOK
  <2>1. signIn' \in [SignIns -> SignInRecs]
    <3>1. [NoSignIn EXCEPT !.pc = "failed"] \in SignInRecs
      BY DEF NoSignIn, SignInRecs, SignInPCs, Issuers
    <3> QED BY <1>4, <3>1 DEF StartWithKey
  <2>2. return' \in [Returns -> ReturnRecs]
    <3>1. NoReturn \in ReturnRecs
      BY DEF NoReturn, ReturnRecs, ReturnPCs
    <3>2. \A b \in Returns : [return[b] EXCEPT !.pc = "refused"] \in ReturnRecs
      BY DEF ReturnRecs, ReturnPCs
    <3> QED BY <1>4, <3>1, <3>2 DEF StartWithKey
  <2>3. connect' \in [Connects -> AskRecs]
    <3>1. NoConnect \in AskRecs /\ [NoConnect EXCEPT !.pc = "over"] \in AskRecs
      BY DEF NoConnect, NoGrant, GrantRecs, AskRecs, AskPCs
    <3> QED BY <1>4, <3>1 DEF StartWithKey
  <2>4. pendings \subseteq {s \in SignIns : signIn'[s].pc = "sent"}
    BY <1>4 DEF StartWithKey, SignInTypeOK
  <2>5. lostHold' \subseteq DOMAIN issued
    <3>1. \A c \in Connects : connect[c].pc = "refreshed" => connect[c].grant.family \in DOMAIN issued
      BY IssuedSeen DEF AnswerIsNewest, Refreshed, FamilyOf
    <3>2. lostHold \subseteq DOMAIN issued
      BY DEF SignInTypeOK
    <3> QED BY <1>4, <3>1, <3>2 DEF StartWithKey
  <2> QED BY <1>4, <2>0, <2>1, <2>2, <2>3, <2>4, <2>5 DEF StartWithKey, SignInTypeOK, policy
<1> QED BY <1>1, <1>2, <1>3, <1>4

Tokens == NobodyAhead /\ AnswerIsNewest /\ AnswerIsAlone /\ RefreshIsHeld

\* Nothing that names a generation changed, but that the row may have lost its own.
LEMMA TokensSame ==
    ASSUME Tokens, connect' = connect, issued' = issued, lostHold' = lostHold, rotates' = rotates,
           \/ grantRow'.family = 0
           \/ grantRow'.family = grantRow.family /\ grantRow'.gen = grantRow.gen
    PROVE  Tokens'
<1> USE DEF Tokens, Refreshing, Refreshed, FamilyOf, WillHold
<1>1. NobodyAhead' /\ AnswerIsNewest'
  BY DEF NobodyAhead, AnswerIsNewest
<1>2. AnswerIsAlone'
  <2>1. ASSUME NEW c \in Connects, rotates, Refreshed(c), FamilyOf(c) \notin lostHold
        PROVE  FamilyOf(c) # 0
    BY <2>1, SMT DEF AnswerIsNewest
  <2> QED BY <2>1 DEF AnswerIsAlone
<1>3. RefreshIsHeld'
  BY DEF RefreshIsHeld
<1> QED BY <1>1, <1>2, <1>3

\* A family is added behind those that were issued.
LEMMA TokensIssued ==
    ASSUME SignInRecsOK, Tokens, NEW n \in Nat, issued' = Append(issued, n),
           connect' = connect, grantRow' = grantRow, lostHold' = lostHold, rotates' = rotates
    PROVE  Tokens' /\ Len(issued') = Len(issued) + 1
<1> USE DEF Tokens, Refreshing, Refreshed, FamilyOf, WillHold
<1>1. /\ Len(issued) \in Nat /\ Len(issued') = Len(issued) + 1
      /\ \A f \in 1..Len(issued) : issued'[f] = issued[f]
  BY IssuedSeen, AppendProperties DEF SignInRecsOK, SignInTypeOK
<1>2. grantRow.family # 0 => grantRow.family \in 1..Len(issued)
  BY IssuedSeen
<1>3. NobodyAhead' /\ AnswerIsNewest'
  <2>1. NobodyAhead'
    BY <1>1, <1>2 DEF NobodyAhead
  <2>2. AnswerIsNewest'
    BY <1>1 DEF AnswerIsNewest
  <2> QED BY <2>1, <2>2
<1>4. AnswerIsAlone'
  BY <1>1 DEF AnswerIsAlone, AnswerIsNewest
<1>5. RefreshIsHeld'
  BY <1>1, <1>2 DEF RefreshIsHeld
<1> QED BY <1>1, <1>3, <1>4, <1>5

LEMMA TokensReturned ==
    ASSUME SignInRecsOK, Tokens, GrantedIsNew, NEW b \in Returns,
           (\E s \in SignIns : TakePending(b, s)) \/ ReadResponse(b) \/ Exchange(b) \/ SaveGrant(b)
    PROVE  Tokens'
<1>1. CASE (\E s \in SignIns : TakePending(b, s)) \/ ReadResponse(b)
  BY <1>1, TokensSame DEF TakePending, ReadResponse, policy
<1>2. CASE Exchange(b)
  <2>1. CASE issued' = issued
    BY <1>2, <2>1, TokensSame DEF Exchange, policy
  <2>2. ASSUME NEW n \in {0, 1}, issued' = Append(issued, n) PROVE Tokens'
    BY <1>2, <2>2, TokensIssued DEF Exchange, policy
  <2> QED BY <1>2, <2>1, <2>2 DEF Exchange
<1>3. CASE SaveGrant(b)
  <2>1. CASE grantRow' = grantRow
    BY <1>3, <2>1, TokensSame DEF SaveGrant, policy
  <2>2. CASE Save(return[b].family, issued[return[b].family], signIn[return[b].of].asked)
    <3> USE DEF Tokens, Refreshing, Refreshed, FamilyOf, WillHold
    <3>1. grantRow'.family = return[b].family /\ grantRow'.gen = issued[return[b].family]
      BY <2>2, SavedRow
    <3>2. /\ return[b].family \in 1..Len(issued) /\ issued[return[b].family] \in Nat
          /\ \A c \in Connects : Refreshing(c) \/ Refreshed(c) => FamilyOf(c) # return[b].family
      BY <1>3, IssuedSeen DEF SaveGrant, GrantedIsNew
    <3>3. connect' = connect /\ issued' = issued /\ lostHold' = lostHold /\ rotates' = rotates
      BY <1>3 DEF SaveGrant, policy
    <3>4. NobodyAhead'
      BY <3>1, <3>2, <3>3 DEF NobodyAhead
    <3>5. AnswerIsNewest'
      BY <3>3 DEF AnswerIsNewest
    <3>6. AnswerIsAlone'
      BY <3>1, <3>2, <3>3 DEF AnswerIsAlone
    <3>7. RefreshIsHeld'
      BY <3>1, <3>3 DEF RefreshIsHeld
    <3> QED BY <3>4, <3>5, <3>6, <3>7
  <2> QED BY <1>3, <2>1, <2>2 DEF SaveGrant
<1> QED BY <1>1, <1>2, <1>3

\* A connection ends, or begins a refresh of what the row holds.
LEMMA TokensRead ==
    ASSUME SignInRecsOK, Tokens, NEW c \in Connects, NEW r \in AskRecs, Reads(c, r),
           connect[c].pc # "refreshed",
           issued' = issued, grantRow' = grantRow, lostHold' = lostHold, rotates' = rotates
    PROVE  Tokens'
<1> USE DEF Tokens, Refreshing, Refreshed, FamilyOf, WillHold
<1>1. /\ connect'[c] = r
      /\ \A d \in Connects : d # c => connect'[d] = connect[d]
  BY DEF Reads, SignInRecsOK
<1>2. r.pc # "refreshed"
  BY DEF Reads
<1>3. r.pc = "refreshing" =>
         /\ r.grant.family = grantRow.family /\ r.grant.gen = grantRow.gen
         /\ grantRow.family \in 1..Len(issued)
         /\ grantRow.gen \in 1..issued[grantRow.family] /\ issued[grantRow.family] \in Nat
  <2>1. grantRow.gen \in Nat
    BY DEF SignInRecsOK, GrantRecs
  <2>2. grantRow.family # 0 => grantRow.family \in 1..Len(issued) /\ issued[grantRow.family] \in Nat
    BY IssuedSeen
  <2>3. grantRow.family # 0 => grantRow.gen <= issued[grantRow.family]
    BY DEF NobodyAhead
  <2> QED BY <2>1, <2>2, <2>3 DEF Reads
<1>4. NobodyAhead'
  <2>1. ASSUME NEW d \in Connects, connect'[d].pc = "refreshing"
        PROVE  /\ connect'[d].grant.family \in 1..Len(issued)
               /\ connect'[d].grant.gen \in 1..issued[connect'[d].grant.family]
               /\ ~rotates /\ connect'[d].grant.family \notin lostHold =>
                     connect'[d].grant.gen = issued[connect'[d].grant.family]
    BY <1>1, <1>3, <2>1 DEF NobodyAhead
  <2> QED BY <2>1 DEF NobodyAhead
<1>5. AnswerIsNewest'
  BY <1>1, <1>2 DEF AnswerIsNewest
<1>6. AnswerIsAlone'
  <2>1. ASSUME NEW e \in Connects, rotates, connect'[e].pc = "refreshed", connect'[e].grant.family \notin lostHold
        PROVE  /\ \A d \in Connects : d # e /\ connect'[d].grant.family = connect'[e].grant.family =>
                     /\ connect'[d].pc # "refreshed"
                     /\ connect'[d].pc = "refreshing" => connect'[d].grant.gen < issued[connect'[e].grant.family]
               /\ grantRow.family = connect'[e].grant.family => grantRow.gen < issued[connect'[e].grant.family]
    <3>1. connect'[e] = connect[e] /\ e # c
      BY <1>1, <1>2, <2>1
    <3>2. grantRow.family = connect[e].grant.family => grantRow.gen < issued[connect[e].grant.family]
      BY <2>1, <3>1 DEF AnswerIsAlone
    <3>3. ASSUME NEW d \in Connects, d # e, connect'[d].grant.family = connect'[e].grant.family
          PROVE  /\ connect'[d].pc # "refreshed"
                 /\ connect'[d].pc = "refreshing" => connect'[d].grant.gen < issued[connect'[e].grant.family]
      <4>1. CASE d = c
        BY <1>1, <1>2, <1>3, <3>1, <3>2, <3>3, <4>1
      <4>2. CASE d # c
        BY <1>1, <2>1, <3>1, <3>3, <4>2 DEF AnswerIsAlone
      <4> QED BY <4>1, <4>2
    <3> QED BY <3>1, <3>2, <3>3
  <2> QED BY <2>1 DEF AnswerIsAlone
<1>7. RefreshIsHeld'
  <2>1. \A d \in Connects : connect'[d].pc = "refreshed" <=> connect[d].pc = "refreshed"
    BY <1>1, <1>2
  <2>2. \A d \in Connects : connect[d].pc = "refreshed" => connect'[d] = connect[d]
    BY <1>1
  <2> QED BY <2>1, <2>2 DEF RefreshIsHeld
<1> QED BY <1>4, <1>5, <1>6, <1>7

\* The server took the newest token there is, so that no answer is on its way; what it
\* issued in its place, if anything, is ahead of all that is known of the family.
LEMMA TokensRefreshed ==
    ASSUME SignInRecsOK, Tokens, NEW c \in Connects, RefreshToken(c)
    PROVE  Tokens'
<1> USE DEF Tokens, Refreshing, Refreshed, FamilyOf, WillHold
<1> DEFINE f == connect[c].grant.family  g == connect[c].grant.gen
<1>1. /\ connect[c].pc = "refreshing" /\ f \in 1..Len(issued) /\ g \in 1..issued[f] /\ issued[f] = g
      /\ issued[f] \in Nat /\ g \in Nat /\ g # 0
      /\ grantRow' = grantRow /\ lostHold' = lostHold /\ rotates' = rotates
  BY IssuedSeen DEF RefreshToken, NobodyAhead, policy
<1>2. /\ Len(issued) \in Nat /\ DOMAIN issued = 1..Len(issued) /\ \A e \in 1..Len(issued) : issued[e] \in Nat
      /\ grantRow.family \in 0..Len(issued)
  BY IssuedSeen
<1>3. /\ connect' \in [Connects -> AskRecs] /\ connect'[c].pc = "refreshed" /\ connect'[c].grant = connect[c].grant
      /\ \A d \in Connects : d # c => connect'[d] = connect[d]
      /\ \/ ~rotates /\ issued' = issued /\ connect'[c].gen = 0
         \/ rotates /\ connect'[c].gen = g + 1 /\ issued' = [issued EXCEPT ![f] = g + 1]
  <2>1. connect[c] \in AskRecs
    BY DEF SignInRecsOK
  <2>2. ASSUME NEW n \in Nat, connect' = [connect EXCEPT ![c].pc = "refreshed", ![c].gen = n]
        PROVE  /\ connect'[c].pc = "refreshed" /\ connect'[c].grant = connect[c].grant /\ connect'[c].gen = n
               /\ \A d \in Connects : d # c => connect'[d] = connect[d]
    BY <2>1, <2>2 DEF SignInRecsOK, AskRecs
  <2>3. CASE ~rotates /\ issued' = issued /\ connect' = [connect EXCEPT ![c].pc = "refreshed", ![c].gen = 0]
    BY <2>2, <2>3, ConnectRecsKept DEF SignInRecsOK
  <2>4. CASE /\ rotates /\ issued' = [issued EXCEPT ![f] = @ + 1]
             /\ connect' = [connect EXCEPT ![c].pc = "refreshed", ![c].gen = g + 1]
    <3>1. issued' = [issued EXCEPT ![f] = g + 1] /\ g + 1 \in Nat
      BY <1>1, <2>4
    <3> QED BY <2>2, <2>4, <3>1, ConnectRecsKept DEF SignInRecsOK
  <2> QED BY <2>3, <2>4 DEF RefreshToken
<1> HIDE DEF f, g
<1>4. ASSUME rotates, f \notin lostHold, NEW d \in Connects, connect[d].pc = "refreshed"
      PROVE  connect[d].grant.family # f
  BY <1>1, <1>4 DEF AnswerIsAlone, f, g
<1>5. CASE ~rotates /\ issued' = issued /\ connect'[c].gen = 0
  <2>1. NobodyAhead'
    BY <1>1, <1>3, <1>5 DEF NobodyAhead
  <2>2. AnswerIsNewest'
    BY <1>1, <1>3, <1>5 DEF AnswerIsNewest, f, g
  <2>3. AnswerIsAlone'
    BY <1>1, <1>5 DEF AnswerIsAlone
  <2>4. RefreshIsHeld'
    BY <1>1, <1>5 DEF RefreshIsHeld, NobodyAhead
  <2> QED BY <2>1, <2>2, <2>3, <2>4
<1>6. CASE rotates /\ connect'[c].gen = g + 1 /\ issued' = [issued EXCEPT ![f] = g + 1]
  <2>0. /\ Len(issued') = Len(issued) /\ issued'[f] = g + 1
        /\ \A e \in 1..Len(issued) : e # f => issued'[e] = issued[e]
        /\ \A e \in 1..Len(issued) : issued[e] <= issued'[e] /\ issued'[e] \in Nat
        /\ f \in 1..Len(issued)
    <3>1. issued \in Seq(Nat) /\ g + 1 \in Nat
      BY <1>1 DEF SignInRecsOK, SignInTypeOK
    <3>2. Len(issued') = Len(issued) /\ \A e \in 1..Len(issued) : issued'[e] = IF e = f THEN g + 1 ELSE issued[e]
      BY <1>1, <1>6, <3>1, ExceptSeq DEF f
    <3> QED BY <1>1, <1>2, <3>2 DEF f
  <2>1. NobodyAhead'
    <3>1. ASSUME NEW d \in Connects, connect'[d].pc = "refreshing"
          PROVE  /\ connect'[d].grant.family \in 1..Len(issued')
                 /\ connect'[d].grant.gen \in 1..issued'[connect'[d].grant.family]
      <4>1. connect'[d] = connect[d] /\ d # c
        BY <1>3, <3>1
      <4>2. connect[d].grant.family \in 1..Len(issued) /\ connect[d].grant.gen \in 1..issued[connect[d].grant.family]
        BY <3>1, <4>1 DEF NobodyAhead
      <4>3. issued[connect[d].grant.family] <= issued'[connect[d].grant.family]
            /\ issued[connect[d].grant.family] \in Nat /\ issued'[connect[d].grant.family] \in Nat
        BY <1>2, <2>0, <4>2
      <4> QED BY <2>0, <4>1, <4>2, <4>3
    <3>2. grantRow.family # 0 => grantRow.gen <= issued'[grantRow.family]
      <4>1. ASSUME grantRow.family # 0 PROVE grantRow.gen <= issued'[grantRow.family]
        <5>1. grantRow.family \in 1..Len(issued) /\ grantRow.gen <= issued[grantRow.family]
          BY <1>2, <4>1 DEF NobodyAhead
        <5>2. grantRow.gen \in Nat
          BY DEF SignInRecsOK, GrantRecs
        <5> QED BY <1>2, <2>0, <5>1, <5>2
      <4> QED BY <4>1
    <3> QED BY <1>1, <1>6, <3>1, <3>2 DEF NobodyAhead
  <2>2. AnswerIsNewest'
    <3>1. ASSUME NEW d \in Connects, connect'[d].pc = "refreshed"
          PROVE  /\ connect'[d].grant.family \in 1..Len(issued')
                 /\ connect'[d].gen # 0
                 /\ connect'[d].gen <= issued'[connect'[d].grant.family]
                 /\ connect'[d].grant.family \notin lostHold => connect'[d].gen = issued'[connect'[d].grant.family]
      <4>1. CASE d = c
        BY <1>1, <1>3, <1>6, <2>0, <4>1 DEF f
      <4>2. CASE d # c
        <5> DEFINE k == connect[d].grant.family
        <5>1. connect'[d] = connect[d] /\ connect[d].pc = "refreshed"
          BY <1>3, <3>1, <4>2
        <5>2. /\ k \in 1..Len(issued) /\ connect[d].gen # 0 /\ connect[d].gen <= issued[k]
              /\ k \notin lostHold => connect[d].gen = issued[k]
          BY <1>6, <5>1 DEF AnswerIsNewest
        <5>3. connect[d].gen \in Nat
          BY DEF SignInRecsOK, AskRecs
        <5>4. k \notin lostHold => k # f
          BY <1>4, <1>6, <5>1
        <5> HIDE DEF k
        <5>5. issued[k] <= issued'[k] /\ issued[k] \in Nat /\ issued'[k] \in Nat /\ (k # f => issued'[k] = issued[k])
          BY <1>2, <2>0, <5>2
        <5>6. connect[d].gen <= issued'[k] /\ (k \notin lostHold => connect[d].gen = issued'[k])
          BY <5>2, <5>3, <5>4, <5>5
        <5> QED BY <2>0, <5>1, <5>2, <5>6 DEF k
      <4> QED BY <4>1, <4>2
    <3>2. \A d \in Connects : connect'[d].pc = "refreshed" => rotates
      BY <1>6
    <3> QED BY <1>1, <1>6, <3>1, <3>2 DEF AnswerIsNewest
  <2>3. AnswerIsAlone'
    <3>1. ASSUME NEW e \in Connects, connect'[e].pc = "refreshed", connect'[e].grant.family \notin lostHold
          PROVE  /\ \A d \in Connects : d # e /\ connect'[d].grant.family = connect'[e].grant.family =>
                       /\ connect'[d].pc # "refreshed"
                       /\ connect'[d].pc = "refreshing" => connect'[d].grant.gen < issued'[connect'[e].grant.family]
                 /\ grantRow.family = connect'[e].grant.family => grantRow.gen < issued'[connect'[e].grant.family]
      <4>1. CASE e = c
        <5>1. connect'[e].grant.family = f /\ f \notin lostHold
          BY <1>3, <3>1, <4>1 DEF f
        <5>2. ASSUME NEW d \in Connects, d # e, connect'[d].grant.family = f
              PROVE  /\ connect'[d].pc # "refreshed"
                     /\ connect'[d].pc = "refreshing" => connect'[d].grant.gen < g + 1
          <6>1. connect'[d] = connect[d]
            BY <1>3, <4>1, <5>2
          <6>2. connect[d].pc # "refreshed"
            BY <1>4, <1>6, <5>1, <5>2, <6>1
          <6>3. connect[d].pc = "refreshing" => connect[d].grant.gen \in 1..issued[f]
            BY <5>2, <6>1 DEF NobodyAhead
          <6>4. issued[f] = g /\ g \in Nat
            BY <1>1 DEF f, g
          <6> QED BY <6>1, <6>2, <6>3, <6>4
        <5>3. grantRow.family = f => grantRow.gen < g + 1
          <6>1. grantRow.family = f => grantRow.gen <= issued[f]
            BY <1>1 DEF NobodyAhead, f
          <6>2. issued[f] = g /\ g \in Nat /\ grantRow.gen \in Nat
            BY <1>1 DEF f, g, SignInRecsOK, GrantRecs
          <6> QED BY <6>1, <6>2
        <5> QED BY <2>0, <5>1, <5>2, <5>3
      <4>2. CASE e # c
        <5>1. connect'[e] = connect[e]
          BY <1>3, <4>2
        <5>2. connect[e].grant.family # f /\ connect[e].grant.family \in 1..Len(issued)
          BY <1>4, <1>6, <3>1, <5>1 DEF AnswerIsNewest
        <5>3. issued'[connect[e].grant.family] = issued[connect[e].grant.family]
          BY <2>0, <5>2
        <5>4. connect'[c].grant.family = f
          BY <1>3 DEF f
        <5>5. ASSUME NEW d \in Connects, d # e, connect'[d].grant.family = connect[e].grant.family
              PROVE  /\ connect'[d].pc # "refreshed"
                     /\ connect'[d].pc = "refreshing" => connect'[d].grant.gen < issued[connect[e].grant.family]
          <6>1. d # c /\ connect'[d] = connect[d]
            BY <1>3, <5>2, <5>4, <5>5
          <6> QED BY <1>6, <3>1, <5>1, <5>5, <6>1 DEF AnswerIsAlone
        <5>6. grantRow.family = connect[e].grant.family => grantRow.gen < issued[connect[e].grant.family]
          BY <1>6, <3>1, <5>1 DEF AnswerIsAlone
        <5> QED BY <5>1, <5>3, <5>5, <5>6
      <4> QED BY <4>1, <4>2
    <3> QED BY <1>1, <3>1 DEF AnswerIsAlone
  <2>4. RefreshIsHeld'
    <3> DEFINE r == grantRow.family
    <3>1. ASSUME r # 0, r \notin lostHold, \A d \in Connects : connect'[d].pc = "refreshed" => connect'[d].grant.family # r
          PROVE  grantRow.gen = issued'[r]
      <4>1. r # f
        BY <1>3, <3>1 DEF f
      <4>2. \A d \in Connects : connect[d].pc = "refreshed" => connect[d].grant.family # r
        BY <1>1, <1>3, <3>1
      <4>3. grantRow.gen = issued[r] /\ r \in 1..Len(issued)
        BY <1>2, <3>1, <4>2 DEF RefreshIsHeld
      <4> QED BY <2>0, <4>1, <4>3
    <3> QED BY <1>1, <3>1 DEF RefreshIsHeld
  <2> QED BY <2>1, <2>2, <2>3, <2>4
<1> QED BY <1>3, <1>5, <1>6

\* A connection that did not hold an answer ends, and the family it refreshed may be lost.
LEMMA TokensFailed ==
    ASSUME SignInRecsOK, Tokens, NEW c \in Connects, RefreshFails(c)
    PROVE  Tokens'
<1> USE DEF Tokens, Refreshing, Refreshed, FamilyOf, WillHold
<1> DEFINE f == connect[c].grant.family  g == connect[c].grant.gen
<1>1. /\ connect[c].pc = "refreshing" /\ f \in 1..Len(issued) /\ g \in 1..issued[f] /\ issued[f] \in Nat
      /\ grantRow' = grantRow /\ rotates' = rotates
  BY IssuedSeen DEF RefreshFails, NobodyAhead, policy
<1>2. /\ Len(issued) \in Nat /\ \A e \in 1..Len(issued) : issued[e] \in Nat
      /\ grantRow.family \in 0..Len(issued) /\ grantRow.gen \in Nat
      /\ \A d \in Connects : connect[d].grant.family \in Nat /\ connect[d].grant.gen \in Nat /\ connect[d].gen \in Nat
  BY IssuedSeen DEF SignInRecsOK, GrantRecs, AskRecs
<1>3. /\ connect'[c].pc = "over" /\ \A d \in Connects : d # c => connect'[d] = connect[d]
  BY UnusableIsOver DEF RefreshFails, SignInRecsOK
<1>4. \A d \in Connects : connect'[d].pc \in {"refreshing", "refreshed"} => d # c /\ connect'[d] = connect[d]
  BY <1>3
<1>5. CASE issued' = issued /\ lostHold' = lostHold
  <2>1. NobodyAhead' /\ AnswerIsNewest'
    BY <1>1, <1>4, <1>5 DEF NobodyAhead, AnswerIsNewest
  <2>2. AnswerIsAlone'
    BY <1>1, <1>4, <1>5 DEF AnswerIsAlone
  <2>3. RefreshIsHeld'
    BY <1>1, <1>3, <1>5 DEF RefreshIsHeld
  <2> QED BY <2>1, <2>2, <2>3
<1>6. CASE rotates /\ issued' = [issued EXCEPT ![f] = @ + 1] /\ lostHold' = lostHold \cup {f}
  <2>0. /\ Len(issued') = Len(issued)
        /\ \A e \in 1..Len(issued) : e # f => issued'[e] = issued[e]
        /\ \A e \in 1..Len(issued) : issued[e] <= issued'[e] /\ issued'[e] \in Nat
    <3>1. issued \in Seq(Nat) /\ issued[f] + 1 \in Nat /\ issued' = [issued EXCEPT ![f] = issued[f] + 1]
      BY <1>1, <1>6 DEF SignInRecsOK, SignInTypeOK
    <3>2. Len(issued') = Len(issued) /\ \A e \in 1..Len(issued) : issued'[e] = IF e = f THEN issued[f] + 1 ELSE issued[e]
      BY <1>1, <3>1, ExceptSeq
    <3> HIDE DEF f
    <3>3. ASSUME NEW e \in 1..Len(issued) PROVE issued[e] <= issued'[e] /\ issued'[e] \in Nat
      <4>1. issued[e] \in Nat /\ issued'[e] = IF e = f THEN issued[f] + 1 ELSE issued[e]
        BY <1>2, <3>2
      <4> QED BY <4>1
    <3> QED BY <3>2, <3>3
  <2> HIDE DEF f, g
  <2>1. NobodyAhead'
    <3>1. ASSUME NEW d \in Connects, connect'[d].pc = "refreshing"
          PROVE  /\ connect'[d].grant.family \in 1..Len(issued')
                 /\ connect'[d].grant.gen \in 1..issued'[connect'[d].grant.family]
      <4>1. connect'[d] = connect[d]
        BY <1>4, <3>1
      <4>2. connect[d].grant.family \in 1..Len(issued) /\ connect[d].grant.gen \in 1..issued[connect[d].grant.family]
        BY <3>1, <4>1 DEF NobodyAhead
      <4>3. issued[connect[d].grant.family] <= issued'[connect[d].grant.family]
            /\ issued[connect[d].grant.family] \in Nat /\ issued'[connect[d].grant.family] \in Nat
        BY <1>2, <2>0, <4>2
      <4> QED BY <2>0, <4>1, <4>2, <4>3
    <3>2. grantRow.family # 0 => grantRow.gen <= issued'[grantRow.family]
      <4>1. ASSUME grantRow.family # 0 PROVE grantRow.gen <= issued'[grantRow.family]
        <5>1. grantRow.family \in 1..Len(issued) /\ grantRow.gen <= issued[grantRow.family]
          BY <1>2, <4>1 DEF NobodyAhead
        <5> QED BY <1>2, <2>0, <5>1
      <4> QED BY <4>1
    <3> QED BY <1>1, <1>6, <3>1, <3>2 DEF NobodyAhead
  <2>2. AnswerIsNewest'
    <3>1. ASSUME NEW d \in Connects, connect'[d].pc = "refreshed"
          PROVE  /\ connect'[d].grant.family \in 1..Len(issued')
                 /\ connect'[d].gen # 0
                 /\ connect'[d].gen <= issued'[connect'[d].grant.family]
                 /\ connect'[d].grant.family \notin lostHold' => connect'[d].gen = issued'[connect'[d].grant.family]
      <4> DEFINE k == connect[d].grant.family
      <4>1. connect'[d] = connect[d] /\ connect[d].pc = "refreshed"
        BY <1>4, <3>1
      <4>2. /\ k \in 1..Len(issued) /\ connect[d].gen # 0 /\ connect[d].gen <= issued[k]
            /\ k \notin lostHold => connect[d].gen = issued[k]
        BY <1>6, <4>1 DEF AnswerIsNewest
      <4> HIDE DEF k
      <4>3. issued[k] <= issued'[k] /\ issued[k] \in Nat /\ issued'[k] \in Nat /\ (k # f => issued'[k] = issued[k])
        BY <1>2, <2>0, <4>2
      <4>4. connect[d].gen <= issued'[k] /\ (k \notin lostHold' => connect[d].gen = issued'[k])
        BY <1>2, <1>6, <4>2, <4>3
      <4> QED BY <2>0, <4>1, <4>2, <4>4 DEF k
    <3> QED BY <1>1, <1>6, <3>1 DEF AnswerIsNewest
  <2>3. AnswerIsAlone'
    <3>1. ASSUME NEW e \in Connects, connect'[e].pc = "refreshed", connect'[e].grant.family \notin lostHold'
          PROVE  /\ \A d \in Connects : d # e /\ connect'[d].grant.family = connect'[e].grant.family =>
                       /\ connect'[d].pc # "refreshed"
                       /\ connect'[d].pc = "refreshing" => connect'[d].grant.gen < issued'[connect'[e].grant.family]
                 /\ grantRow.family = connect'[e].grant.family => grantRow.gen < issued'[connect'[e].grant.family]
      <4>1. connect'[e] = connect[e]
        BY <1>4, <3>1
      <4>2. connect[e].grant.family # f /\ connect[e].grant.family \notin lostHold
            /\ connect[e].grant.family \in 1..Len(issued)
        BY <1>6, <3>1, <4>1 DEF AnswerIsNewest
      <4>3. issued'[connect[e].grant.family] = issued[connect[e].grant.family]
        BY <2>0, <4>2
      <4>4. ASSUME NEW d \in Connects, d # e, connect'[d].grant.family = connect[e].grant.family
            PROVE  /\ connect'[d].pc # "refreshed"
                   /\ connect'[d].pc = "refreshing" => connect'[d].grant.gen < issued[connect[e].grant.family]
        <5>1. CASE d = c
          BY <1>3, <5>1
        <5>2. CASE d # c
          BY <1>3, <1>6, <3>1, <4>1, <4>2, <4>4, <5>2 DEF AnswerIsAlone
        <5> QED BY <5>1, <5>2
      <4>5. grantRow.family = connect[e].grant.family => grantRow.gen < issued[connect[e].grant.family]
        BY <1>6, <3>1, <4>1, <4>2 DEF AnswerIsAlone
      <4> QED BY <4>1, <4>3, <4>4, <4>5
    <3> QED BY <1>1, <3>1 DEF AnswerIsAlone
  <2>4. RefreshIsHeld'
    <3> DEFINE r == grantRow.family
    <3>1. ASSUME r # 0, r \notin lostHold', \A d \in Connects : connect'[d].pc = "refreshed" => connect'[d].grant.family # r
          PROVE  grantRow.gen = issued'[r]
      <4>1. r # f /\ r \notin lostHold
        BY <1>6, <3>1
      <4>2. \A d \in Connects : connect[d].pc = "refreshed" => connect[d].grant.family # r
        BY <1>1, <1>3, <3>1
      <4>3. grantRow.gen = issued[r] /\ r \in 1..Len(issued)
        BY <1>2, <3>1, <4>1, <4>2 DEF RefreshIsHeld
      <4> QED BY <2>0, <4>1, <4>3
    <3> QED BY <1>1, <3>1 DEF RefreshIsHeld
  <2> QED BY <2>1, <2>2, <2>3, <2>4
<1>7. \/ issued' = issued /\ lostHold' = lostHold
      \/ rotates /\ issued' = [issued EXCEPT ![f] = @ + 1] /\ lostHold' = lostHold \cup {f}
  BY DEF RefreshFails
<1> QED BY <1>5, <1>6, <1>7

\* The answer reaches the row, or is lost on the way to it.
LEMMA TokensSaved ==
    ASSUME SignInRecsOK, Tokens, NEW c \in Connects, SaveRefresh(c)
    PROVE  Tokens'
<1> USE DEF Tokens, Refreshing, Refreshed, FamilyOf, WillHold
<1> DEFINE f == connect[c].grant.family  w == WillHold(c)
<1>1. /\ connect[c].pc = "refreshed" /\ f \in 1..Len(issued) /\ w <= issued[f] /\ issued[f] \in Nat
      /\ f \notin lostHold => w = issued[f]
      /\ rotates <=> connect[c].gen # 0
      /\ issued' = issued /\ rotates' = rotates
  BY IssuedSeen DEF SaveRefresh, AnswerIsNewest, policy
<1>2. w \in Nat /\ grantRow.gen \in Nat /\ grantRow.family \in 0..Len(issued) /\ Len(issued) \in Nat
  BY IssuedSeen DEF SignInRecsOK, GrantRecs, AskRecs
<1>3. connect'[c].pc = "over" /\ \A d \in Connects : d # c => connect'[d] = connect[d]
  BY EndedIsOver DEF SaveRefresh, SignInRecsOK
<1>4. \A d \in Connects : connect'[d].pc \in {"refreshing", "refreshed"} => d # c /\ connect'[d] = connect[d]
  BY <1>3
<1>5. CASE Save(f, w, connect[c].grant.scopes) /\ lostHold' = lostHold
  <2>1. grantRow'.family = f /\ grantRow'.gen = w
    BY <1>5, SavedRow
  <2> HIDE DEF w
  <2>2. NobodyAhead'
    BY <1>1, <1>2, <1>4, <1>5, <2>1 DEF NobodyAhead
  <2>3. AnswerIsNewest'
    BY <1>1, <1>4, <1>5 DEF AnswerIsNewest
  <2>4. AnswerIsAlone'
    <3>1. ASSUME NEW e \in Connects, rotates, connect'[e].pc = "refreshed", connect'[e].grant.family \notin lostHold
          PROVE  /\ \A d \in Connects : d # e /\ connect'[d].grant.family = connect'[e].grant.family =>
                       /\ connect'[d].pc # "refreshed"
                       /\ connect'[d].pc = "refreshing" => connect'[d].grant.gen < issued[connect'[e].grant.family]
                 /\ f # connect'[e].grant.family
      <4>1. connect'[e] = connect[e] /\ e # c
        BY <1>4, <3>1
      <4>2. f # connect[e].grant.family
        BY <1>1, <3>1, <4>1 DEF AnswerIsAlone
      <4>3. ASSUME NEW d \in Connects, d # e, connect'[d].grant.family = connect[e].grant.family
            PROVE  /\ connect'[d].pc # "refreshed"
                   /\ connect'[d].pc = "refreshing" => connect'[d].grant.gen < issued[connect[e].grant.family]
        <5>1. CASE d = c
          BY <1>3, <5>1
        <5>2. CASE d # c
          BY <1>3, <3>1, <4>1, <4>3, <5>2 DEF AnswerIsAlone
        <5> QED BY <5>1, <5>2
      <4> QED BY <4>1, <4>2, <4>3
    <3> QED BY <1>1, <1>5, <2>1, <3>1 DEF AnswerIsAlone
  <2>5. RefreshIsHeld'
    BY <1>1, <1>5, <2>1 DEF RefreshIsHeld
  <2> QED BY <2>2, <2>3, <2>4, <2>5
<1>6. CASE /\ grantRow' = grantRow
           /\ lostHold' = IF connect[c].gen = 0 THEN lostHold ELSE lostHold \cup {f}
  <2>1. NobodyAhead' /\ AnswerIsNewest'
    BY <1>1, <1>4, <1>6 DEF NobodyAhead, AnswerIsNewest
  <2>2. AnswerIsAlone'
    <3>1. ASSUME NEW e \in Connects, rotates, connect'[e].pc = "refreshed", connect'[e].grant.family \notin lostHold'
          PROVE  /\ \A d \in Connects : d # e /\ connect'[d].grant.family = connect'[e].grant.family =>
                       /\ connect'[d].pc # "refreshed"
                       /\ connect'[d].pc = "refreshing" => connect'[d].grant.gen < issued[connect'[e].grant.family]
                 /\ grantRow.family = connect'[e].grant.family => grantRow.gen < issued[connect'[e].grant.family]
      <4>1. connect'[e] = connect[e] /\ e # c /\ connect[e].grant.family \notin lostHold
        BY <1>4, <1>6, <3>1
      <4>2. ASSUME NEW d \in Connects, d # e, connect'[d].grant.family = connect[e].grant.family
            PROVE  /\ connect'[d].pc # "refreshed"
                   /\ connect'[d].pc = "refreshing" => connect'[d].grant.gen < issued[connect[e].grant.family]
        <5>1. CASE d = c
          BY <1>3, <5>1
        <5>2. CASE d # c
          BY <1>3, <3>1, <4>1, <4>2, <5>2 DEF AnswerIsAlone
        <5> QED BY <5>1, <5>2
      <4> QED BY <3>1, <4>1, <4>2 DEF AnswerIsAlone
    <3> QED BY <1>1, <1>6, <3>1 DEF AnswerIsAlone
  <2>3. RefreshIsHeld'
    <3> DEFINE r == grantRow.family
    <3>1. ASSUME r # 0, r \notin lostHold', \A d \in Connects : connect'[d].pc = "refreshed" => connect'[d].grant.family # r
          PROVE  grantRow.gen = issued[r]
      <4>1. CASE rotates
        <5>1. r # f /\ r \notin lostHold
          BY <1>1, <1>6, <3>1, <4>1
        <5>2. \A d \in Connects : connect[d].pc = "refreshed" => connect[d].grant.family # r
          BY <1>3, <3>1, <5>1
        <5> QED BY <3>1, <5>1, <5>2 DEF RefreshIsHeld
      <4>2. CASE ~rotates
        BY <1>1, <1>6, <3>1, <4>2 DEF NobodyAhead
      <4> QED BY <4>1, <4>2
    <3> QED BY <1>1, <1>6, <3>1 DEF RefreshIsHeld
  <2> QED BY <2>1, <2>2, <2>3
<1> QED BY <1>5, <1>6 DEF SaveRefresh

\* Started again: what was on its way is lost, and nothing is any more.
LEMMA TokensRestarted ==
    ASSUME SignInRecsOK, Tokens, StartWithKey
    PROVE  Tokens'
<1> USE DEF Tokens, Refreshing, Refreshed, FamilyOf, WillHold
<1>1. \A c \in Connects : connect'[c].pc \notin {"refreshing", "refreshed"}
  BY DEF StartWithKey, NoConnect
<1>2. /\ grantRow' = grantRow /\ issued' = issued /\ rotates' = rotates /\ lostHold \subseteq lostHold'
      /\ \A c \in Connects : connect[c].pc = "refreshed" => connect[c].grant.family \in lostHold'
  BY DEF StartWithKey, policy
<1>3. NobodyAhead' /\ AnswerIsNewest' /\ AnswerIsAlone'
  BY <1>1, <1>2 DEF NobodyAhead, AnswerIsNewest, AnswerIsAlone
<1>4. RefreshIsHeld'
  BY <1>2 DEF RefreshIsHeld
<1> QED BY <1>3, <1>4

\* Nothing but Exchange gives a return its tokens, and no one else has them then.
LEMMA GrantedKept ==
    ASSUME SignInRecsOK, Tokens, GrantedIsNew, [SignInNext]_signInVars
    PROVE  GrantedIsNew'
<1> USE DEF Refreshing, Refreshed, FamilyOf
<1>0. /\ Len(issued) \in Nat /\ grantRow.family \in 0..Len(issued)
      /\ \A b \in Returns : return[b] \in ReturnRecs /\ return[b].family \in Nat
      /\ \A c \in Connects : connect[c].pc \in {"refreshing", "refreshed"} =>
            connect[c].grant.family \in 1..Len(issued)
  BY IssuedSeen DEF SignInRecsOK, Tokens, NobodyAhead, AnswerIsNewest, ReturnRecs
<1> DEFINE Given(b) == return[b].pc = "granted"
<1>1. ASSUME /\ Len(issued') = Len(issued)
             /\ \A b \in Returns : return'[b].pc = "granted" =>
                   return[b].pc = "granted" /\ return'[b].family = return[b].family
             /\ \/ grantRow'.family = grantRow.family \/ grantRow'.family = 0
                \/ \E b \in Returns : /\ return[b].pc = "granted" /\ grantRow'.family = return[b].family
                                      /\ return'[b].pc # "granted"
                \/ \E c \in Connects : connect[c].pc = "refreshed" /\ grantRow'.family = connect[c].grant.family
             /\ \A c \in Connects : connect'[c].pc \in {"refreshing", "refreshed"} =>
                   \/ /\ connect[c].pc \in {"refreshing", "refreshed"}
                      /\ connect'[c].grant.family = connect[c].grant.family
                   \/ connect'[c].grant.family = grantRow.family
      PROVE  GrantedIsNew'
  <2>1. ASSUME NEW b \in Returns, return'[b].pc = "granted"
        PROVE  /\ return'[b].family \in 1..Len(issued') /\ return'[b].family # grantRow'.family
               /\ \A c \in Connects : connect'[c].pc \in {"refreshing", "refreshed"} =>
                     connect'[c].grant.family # return'[b].family
               /\ \A a \in Returns : a # b /\ return'[a].pc = "granted" => return'[a].family # return'[b].family
    <3>1. return[b].pc = "granted" /\ return'[b].family = return[b].family
      BY <1>1, <2>1
    <3>2. /\ return[b].family \in 1..Len(issued) /\ return[b].family # grantRow.family
          /\ \A c \in Connects : connect[c].pc \in {"refreshing", "refreshed"} =>
                connect[c].grant.family # return[b].family
          /\ \A a \in Returns : a # b /\ return[a].pc = "granted" => return[a].family # return[b].family
      BY <3>1 DEF GrantedIsNew
    <3>3. return[b].family # grantRow'.family
      <4>1. return[b].family # 0
        BY <1>0, <3>2
      <4>2. ASSUME NEW a \in Returns, return[a].pc = "granted", return'[a].pc # "granted"
            PROVE  return[a].family # return[b].family
        BY <2>1, <3>2, <4>2
      <4> QED BY <1>1, <3>2, <4>1, <4>2
    <3>4. \A c \in Connects : connect'[c].pc \in {"refreshing", "refreshed"} =>
             connect'[c].grant.family # return[b].family
      BY <1>1, <3>2
    <3>5. \A a \in Returns : a # b /\ return'[a].pc = "granted" => return'[a].family # return[b].family
      BY <1>1, <3>2
    <3> QED BY <1>1, <3>1, <3>2, <3>3, <3>4, <3>5
  <2> QED BY <2>1 DEF GrantedIsNew
<1>2. ASSUME NEW s \in SignIns, DiscoverServer(s) \/ AskForMore(s) \/ RegisterClient(s) \/ SavePending(s)
      PROVE  GrantedIsNew'
  BY <1>1, <1>2 DEF DiscoverServer, AskForMore, RegisterClient, SavePending
<1>3. ASSUME NEW b \in Returns, (\E s \in SignIns : TakePending(b, s)) \/ ReadResponse(b) \/ SaveGrant(b)
      PROVE  GrantedIsNew'
  <2>1. return' \in [Returns -> ReturnRecs] /\ return'[b].pc # "granted" /\ \A a \in Returns : a # b => return'[a] = return[a]
    <3>1. CASE \E s \in SignIns : TakePending(b, s)
      <4>1. PICK s \in SignIns : TakePending(b, s)
        BY <3>1
      <4>2. PICK r \in {"taken", "refused"} :
              return' = [return EXCEPT ![b] = [NoReturn EXCEPT !.of = s, !.pc = r]]
        BY <4>1 DEF TakePending
      <4>3. [NoReturn EXCEPT !.of = s, !.pc = r] \in ReturnRecs /\ [NoReturn EXCEPT !.of = s, !.pc = r].pc = r
        BY DEF NoReturn, ReturnRecs, ReturnPCs
      <4> QED BY <4>2, <4>3 DEF SignInRecsOK
    <3>2. CASE ReadResponse(b)
      BY ZenonT(40), <3>2, <1>0 DEF ReadResponse, SignInRecsOK, ReturnRecs, ReturnPCs
    <3>3. CASE SaveGrant(b)
      BY <3>3, <1>0 DEF SaveGrant, SignInRecsOK, ReturnRecs, ReturnPCs
    <3> QED BY <1>3, <3>1, <3>2, <3>3
  <2>2. issued' = issued /\ connect' = connect
    BY <1>3 DEF TakePending, ReadResponse, SaveGrant
  <2>3. \/ grantRow'.family = grantRow.family
        \/ return[b].pc = "granted" /\ grantRow'.family = return[b].family
    <3>1. CASE grantRow' = grantRow
      BY <3>1
    <3>2. CASE /\ return[b].pc = "granted"
               /\ Save(return[b].family, issued[return[b].family], signIn[return[b].of].asked)
      BY <3>2, SavedRow
    <3> QED BY <1>3, <3>1, <3>2 DEF TakePending, ReadResponse, SaveGrant
  <2> QED BY <1>1, <2>1, <2>2, <2>3
<1>4. ASSUME NEW b \in Returns, Exchange(b) PROVE GrantedIsNew'
  <2>0. \A a \in Returns : a # b => return'[a] = return[a]
    BY <1>4 DEF Exchange, SignInRecsOK
  <2>9. connect' = connect /\ grantRow' = grantRow
    BY <1>4 DEF Exchange
  <2>1. CASE return' = [return EXCEPT ![b].pc = "refused"] /\ issued' = issued
    <3>1. return'[b].pc # "granted"
      BY <1>0, <2>1 DEF SignInRecsOK, ReturnRecs
    <3> QED BY <1>1, <2>0, <2>1, <2>9, <3>1
  <2>2. ASSUME NEW n \in {0, 1}, issued' = Append(issued, n),
               return' = [return EXCEPT ![b].pc = "granted", ![b].family = Len(issued')]
        PROVE  GrantedIsNew'
    <3>1. Len(issued') = Len(issued) + 1
      BY <2>2, AppendProperties DEF SignInRecsOK, SignInTypeOK
    <3>2. return'[b].pc = "granted" /\ return'[b].family = Len(issued) + 1
      BY <1>0, <2>2, <3>1 DEF SignInRecsOK, ReturnRecs
    <3>3. \A a \in Returns : return[a].pc = "granted" => return[a].family \in 1..Len(issued)
      BY DEF GrantedIsNew
    <3>4. ASSUME NEW a \in Returns, return'[a].pc = "granted"
          PROVE  /\ return'[a].family \in 1..Len(issued') /\ return'[a].family # grantRow.family
                 /\ \A c \in Connects : connect[c].pc \in {"refreshing", "refreshed"} =>
                       connect[c].grant.family # return'[a].family
                 /\ \A d \in Returns : d # a /\ return'[d].pc = "granted" => return'[d].family # return'[a].family
      <4>1. CASE a = b
        BY <1>0, <2>0, <3>1, <3>2, <3>3, <4>1
      <4>2. CASE a # b
        <5>1. return'[a] = return[a] /\ return[a].family \in 1..Len(issued)
          BY <2>0, <3>3, <3>4, <4>2
        <5>2. return[a].family # Len(issued) + 1 /\ return[a].family \in 1..Len(issued')
          BY <1>0, <3>1, <5>1
        <5>3. ASSUME NEW d \in Returns, d # a, return'[d].pc = "granted" PROVE return'[d].family # return[a].family
          <6>1. CASE d = b
            BY <3>2, <5>2, <6>1
          <6>2. CASE d # b
            BY <2>0, <3>4, <5>1, <5>3, <6>2 DEF GrantedIsNew
          <6> QED BY <6>1, <6>2
        <5> QED BY <3>4, <5>1, <5>2, <5>3 DEF GrantedIsNew
      <4> QED BY <4>1, <4>2
    <3> QED BY <2>9, <3>4 DEF GrantedIsNew
  <2> QED BY <1>4, <2>1, <2>2 DEF Exchange
<1>5. ASSUME NEW c \in Connects, ReadGrant(c) \/ RefreshToken(c) \/ RefreshFails(c) \/ SaveRefresh(c)
      PROVE  GrantedIsNew'
  <2>1. return' = return /\ \A d \in Connects : d # c => connect'[d] = connect[d]
    BY <1>5 DEF ReadGrant, RefreshToken, RefreshFails, SaveRefresh, SignInRecsOK
  <2>2. connect[c] \in AskRecs
    BY DEF SignInRecsOK
  <2>3. CASE ReadGrant(c)
    <3>1. PICK r \in AskRecs : Reads(c, r)
      BY <2>3, WhatWasRead
    <3>2. connect'[c] = r
      BY <3>1 DEF Reads, SignInRecsOK
    <3>3. connect'[c].pc \in {"refreshing", "refreshed"} => connect'[c].grant.family = grantRow.family
      BY <3>1, <3>2 DEF Reads
    <3> QED BY <1>1, <2>1, <2>3, <3>3 DEF ReadGrant
  <2>4. Len(issued') = Len(issued)
    <3>1. ASSUME connect[c].grant.family \in 1..Len(issued),
                 issued' = [issued EXCEPT ![connect[c].grant.family] = @ + 1]
          PROVE  Len(issued') = Len(issued)
      <4>1. issued \in Seq(Nat) /\ issued[connect[c].grant.family] + 1 \in Nat
        BY <3>1, IssuedSeen DEF SignInRecsOK, SignInTypeOK
      <4>2. issued' = [issued EXCEPT ![connect[c].grant.family] = issued[connect[c].grant.family] + 1]
        BY <3>1
      <4> QED BY <3>1, <4>1, <4>2, ExceptSeq
    <3>2. connect[c].pc = "refreshing" => connect[c].grant.family \in 1..Len(issued)
      BY <1>0
    <3>3. \/ issued' = issued
          \/ connect[c].pc = "refreshing" /\ issued' = [issued EXCEPT ![connect[c].grant.family] = @ + 1]
      <4>1. CASE ReadGrant(c) \/ SaveRefresh(c)
        BY <4>1 DEF ReadGrant, SaveRefresh
      <4>2. CASE RefreshToken(c)
        BY <4>2 DEF RefreshToken
      <4>3. CASE RefreshFails(c)
        BY <4>3 DEF RefreshFails
      <4> QED BY <1>5, <4>1, <4>2, <4>3
    <3> QED BY <3>1, <3>2, <3>3
  <2>5. CASE RefreshToken(c)
    <3>1. connect[c].pc = "refreshing" /\ connect'[c].grant = connect[c].grant
      BY <2>2, <2>5 DEF RefreshToken, SignInRecsOK, AskRecs
    <3> QED BY <1>1, <2>1, <2>4, <2>5, <3>1 DEF RefreshToken
  <2>6. CASE RefreshFails(c)
    <3>1. connect'[c].pc = "over"
      BY <2>6, UnusableIsOver DEF RefreshFails, SignInRecsOK
    <3> QED BY <1>1, <2>1, <2>4, <2>6, <3>1 DEF RefreshFails
  <2>7. CASE SaveRefresh(c)
    <3>1. connect'[c].pc = "over" /\ connect[c].pc = "refreshed"
      BY <2>7, EndedIsOver DEF SaveRefresh, SignInRecsOK
    <3>2. grantRow'.family = grantRow.family \/ grantRow'.family = connect[c].grant.family
      <4>1. CASE grantRow' = grantRow
        BY <4>1
      <4>2. CASE Save(connect[c].grant.family, IF connect[c].gen = 0 THEN connect[c].grant.gen ELSE connect[c].gen, connect[c].grant.scopes)
        BY <4>2, SavedRow
      <4> QED BY <2>7, <4>1, <4>2 DEF SaveRefresh
    <3> QED BY <1>1, <2>1, <2>4, <3>1, <3>2
  <2> QED BY <1>5, <2>3, <2>5, <2>6, <2>7
<1>6. CASE SweepPending
  BY <1>1, <1>6 DEF SweepPending
<1>7. CASE ForgetGrant
  BY <1>1, <1>7 DEF ForgetGrant, NoGrant
<1>8. CASE SpendToken
  <2>1. grantRow'.family = grantRow.family
    BY <1>8 DEF SpendToken, SignInRecsOK, GrantRecs
  <2> QED BY <1>1, <1>8, <2>1 DEF SpendToken
<1>9. CASE StartWithKey
  <2>1. \A b \in Returns : return'[b].pc # "granted"
    BY <1>0, <1>9 DEF StartWithKey, NoReturn, ReturnRecs
  <2> QED BY <2>1 DEF GrantedIsNew
<1>10. CASE UNCHANGED signInVars
  BY <1>1, <1>10 DEF signInVars
<1> QED BY <1>2, <1>3, <1>4, <1>5, <1>6, <1>7, <1>8, <1>9, <1>10 DEF SignInNext

\* Which steps write the row, and the sign-ins; each write of the row is a later one.
LEMMA LookedKept ==
    ASSUME SignInRecsOK, LookedBefore, StepUpKeeps, GrantedIsNew, TakenIsGone, [SignInNext]_signInVars
    PROVE  LookedBefore' /\ StepUpKeeps'
<1> USE DEF Opens
<1>0. /\ writes \in Nat /\ sealKey \in Nat /\ grantRow \in GrantRecs /\ grantRow.rev \in Nat /\ grantRow.key \in Nat
      /\ \A s \in SignIns : signIn[s] \in SignInRecs /\ signIn[s].base \in Nat
  BY SignInBounds DEF SignInRecsOK, SignInTypeOK, GrantRecs, SignInRecs
<1> DEFINE Standing(s) == signIn[s].pc \in {"asked", "begun", "sent"}
\* The row as it was, or none, or one of another revision, and the sign-ins as they were.
<1>1. ASSUME signIn' = signIn, sealKey' = sealKey,
             \/ /\ grantRow'.rev = grantRow.rev /\ grantRow'.key = grantRow.key /\ grantRow'.family = grantRow.family
                /\ grantRow'.scopes = grantRow.scopes /\ writes' = writes
             \/ grantRow'.family = 0 /\ grantRow'.rev = writes /\ grantRow'.key = 0 /\ writes' = writes
             \/ grantRow'.rev = writes + 1 /\ writes' = writes + 1 /\ grantRow'.key = sealKey
      PROVE  LookedBefore' /\ StepUpKeeps'
  <2>1. LookedBefore'
    BY <1>0, <1>1 DEF LookedBefore
  <2>2. ASSUME NEW s \in SignIns, Standing(s), grantRow'.family # 0, grantRow'.key = sealKey,
               signIn[s].base = grantRow'.rev
        PROVE  grantRow'.scopes \subseteq signIn[s].asked
    <3>1. grantRow'.rev # writes + 1
      BY <1>0, <2>2 DEF LookedBefore
    <3> QED BY <1>1, <2>2, <3>1 DEF StepUpKeeps
  <2> QED BY <1>1, <2>1, <2>2 DEF StepUpKeeps
\* The row as it was, and one sign-in no further than before, or as it should ask.
<1>2. ASSUME NEW s \in SignIns, grantRow' = grantRow, sealKey' = sealKey, writes' = writes,
             \A t \in SignIns : t # s => signIn'[t] = signIn[t],
             \/ signIn'[s].base = 0 /\ signIn'[s].pc \notin {"asked", "begun", "sent"}
             \/ Standing(s) /\ signIn'[s].asked = signIn[s].asked /\ signIn'[s].base = signIn[s].base
             \/ /\ signIn'[s].base = grantRow.rev
                /\ grantRow.family # 0 /\ grantRow.key = sealKey => grantRow.scopes \subseteq signIn'[s].asked
      PROVE  LookedBefore' /\ StepUpKeeps'
  <2>1. LookedBefore'
    BY <1>0, <1>2 DEF LookedBefore
  <2>2. ASSUME NEW t \in SignIns, signIn'[t].pc \in {"asked", "begun", "sent"}, grantRow.family # 0,
               grantRow.key = sealKey, signIn'[t].base = grantRow.rev
        PROVE  grantRow.scopes \subseteq signIn'[t].asked
    <3>1. CASE t = s
      BY <1>2, <2>2, <3>1 DEF StepUpKeeps
    <3>2. CASE t # s
      BY <1>2, <2>2, <3>2 DEF StepUpKeeps
    <3> QED BY <3>1, <3>2
  <2> QED BY <1>2, <2>1, <2>2 DEF StepUpKeeps
<1>3. ASSUME NEW s \in SignIns, DiscoverServer(s) \/ AskForMore(s) \/ RegisterClient(s) \/ SavePending(s)
      PROVE  LookedBefore' /\ StepUpKeeps'
  <2>1. grantRow' = grantRow /\ sealKey' = sealKey /\ writes' = writes
        /\ \A t \in SignIns : t # s => signIn'[t] = signIn[t]
    BY <1>3 DEF DiscoverServer, AskForMore, RegisterClient, SavePending, SignInRecsOK
  <2>2. CASE DiscoverServer(s)
    <3>1. signIn'[s].base = 0 /\ signIn'[s].pc \in {"found", "failed"}
      BY <2>2 DEF DiscoverServer, NoSignIn, SignInRecsOK
    <3> QED BY <1>2, <2>1, <3>1
  <2>3. CASE AskForMore(s)
    <3>1. /\ signIn'[s].base = grantRow.rev
          /\ grantRow.family # 0 /\ Opens(grantRow.key) => signIn'[s].asked = grantRow.scopes \cup signIn[s].challenge
      BY <1>0, <2>3 DEF AskForMore, SignInRecsOK, SignInRecs
    <3> QED BY <1>2, <2>1, <3>1
  <2>4. CASE RegisterClient(s)
    <3>1. \/ signIn'[s].base = 0 /\ signIn'[s].pc = "failed"
          \/ Standing(s) /\ signIn'[s].asked = signIn[s].asked /\ signIn'[s].base = signIn[s].base
      BY <1>0, <2>4 DEF RegisterClient, NoSignIn, SignInRecsOK, SignInRecs
    <3> QED BY <1>2, <2>1, <3>1
  <2>5. CASE SavePending(s)
    <3>1. Standing(s) /\ signIn'[s].asked = signIn[s].asked /\ signIn'[s].base = signIn[s].base
      BY <1>0, <2>5 DEF SavePending, SignInRecsOK, SignInRecs
    <3> QED BY <1>2, <2>1, <3>1
  <2> QED BY <1>3, <2>2, <2>3, <2>4, <2>5
<1>4. ASSUME NEW b \in Returns,
             (\E s \in SignIns : TakePending(b, s)) \/ ReadResponse(b) \/ Exchange(b) \/ SaveGrant(b)
      PROVE  LookedBefore' /\ StepUpKeeps'
  <2>1. signIn' = signIn /\ sealKey' = sealKey
    BY <1>4 DEF TakePending, ReadResponse, Exchange, SaveGrant
  <2>2. CASE grantRow' = grantRow /\ writes' = writes
    BY <1>1, <2>1, <2>2
  <2>3. CASE Save(return[b].family, issued[return[b].family], signIn[return[b].of].asked)
    <3>1. grantRow'.rev = writes + 1 /\ writes' = writes + 1 /\ grantRow'.key = sealKey
      BY <2>3, SavedRow
    <3> QED BY <1>1, <2>1, <3>1
  <2> QED BY <1>4, <2>2, <2>3 DEF TakePending, ReadResponse, Exchange, SaveGrant
<1>5. ASSUME NEW c \in Connects, ReadGrant(c) \/ RefreshToken(c) \/ RefreshFails(c) \/ SaveRefresh(c)
      PROVE  LookedBefore' /\ StepUpKeeps'
  <2>1. signIn' = signIn /\ sealKey' = sealKey
    BY <1>5 DEF ReadGrant, RefreshToken, RefreshFails, SaveRefresh
  <2>2. CASE grantRow' = grantRow /\ writes' = writes
    BY <1>1, <2>1, <2>2
  <2>3. CASE Save(connect[c].grant.family, IF connect[c].gen = 0 THEN connect[c].grant.gen ELSE connect[c].gen,
                  connect[c].grant.scopes)
    <3>1. grantRow'.rev = writes + 1 /\ writes' = writes + 1 /\ grantRow'.key = sealKey
      BY <2>3, SavedRow
    <3> QED BY <1>1, <2>1, <3>1
  <2> QED BY <1>5, <2>2, <2>3 DEF ReadGrant, RefreshToken, RefreshFails, SaveRefresh
<1>6. CASE SweepPending
  BY <1>1, <1>6 DEF SweepPending
<1>7. CASE ForgetGrant
  <2>1. grantRow'.family = 0 /\ grantRow'.rev = writes /\ grantRow'.key = 0
    BY <1>7 DEF ForgetGrant, NoGrant
  <2> QED BY <1>1, <1>7, <2>1 DEF ForgetGrant
<1>8. CASE SpendToken
  <2>1. /\ grantRow'.rev = grantRow.rev /\ grantRow'.key = grantRow.key /\ grantRow'.family = grantRow.family
        /\ grantRow'.scopes = grantRow.scopes
    BY <1>0, <1>8 DEF SpendToken, GrantRecs
  <2> QED BY <1>1, <1>8, <2>1 DEF SpendToken
<1>9. CASE StartWithKey
  <2>1. sealKey' = sealKey + 1 /\ grantRow' = grantRow /\ writes' = writes
    BY <1>9 DEF StartWithKey
  <2>2. grantRow.key < sealKey'
    BY <1>0, <2>1 DEF LookedBefore
  <2>3. \A s \in SignIns : signIn'[s].base <= writes
    BY <1>0, <1>9 DEF StartWithKey, LookedBefore, NoSignIn
  <2> QED BY <1>0, <2>1, <2>2, <2>3 DEF LookedBefore, StepUpKeeps
<1>10. CASE UNCHANGED signInVars
  BY <1>1, <1>10 DEF signInVars
<1> QED BY <1>3, <1>4, <1>5, <1>6, <1>7, <1>8, <1>9, <1>10 DEF SignInNext

\* What a return took is nobody else's to take.
LEMMA TakenKept ==
    ASSUME SignInRecsOK, TakenIsGone, TakenOnce, [SignInNext]_signInVars
    PROVE  TakenIsGone' /\ TakenOnce'
<1> DEFINE Goes(b) == return[b].pc \notin {"idle", "refused"}
<1>0. \A b \in Returns : return[b] \in ReturnRecs
  BY DEF SignInRecsOK
\* No sign-in is sent again, and no return that goes on took another.
<1>1. ASSUME \A s \in SignIns : /\ signIn[s].pc = "sent" => signIn'[s].pc = "sent" /\ (s \in pendings' => s \in pendings),
             \A b \in Returns :
                /\ return'[b].pc = "idle" => return'[b].of = 0
                /\ return'[b].pc \notin {"idle", "refused"} => Goes(b) /\ return'[b].of = return[b].of
      PROVE  TakenIsGone' /\ TakenOnce'
  <2>1. TakenIsGone'
    BY <1>1 DEF TakenIsGone
  <2>2. ASSUME NEW a \in Returns, NEW b \in Returns, a # b, return'[a].of = return'[b].of, return'[a].of # 0,
               return'[a].pc # "refused", return'[b].pc # "refused"
        PROVE  FALSE
    BY <1>1, <2>2 DEF TakenOnce
  <2> QED BY <2>1, <2>2 DEF TakenOnce
<1>2. \A b \in Returns : return[b].pc = "idle" => return[b].of = 0
  BY DEF TakenIsGone
<1>3. ASSUME NEW s \in SignIns, DiscoverServer(s) \/ AskForMore(s) \/ RegisterClient(s) \/ SavePending(s)
      PROVE  TakenIsGone' /\ TakenOnce'
  <2>1. /\ signIn[s].pc # "sent" /\ return' = return
        /\ \A t \in SignIns : t # s => signIn'[t] = signIn[t]
        /\ pendings' \subseteq pendings \cup {s}
    BY <1>3 DEF DiscoverServer, AskForMore, RegisterClient, SavePending, SignInRecsOK
  <2>2. \A t \in SignIns : signIn[t].pc = "sent" => signIn'[t].pc = "sent" /\ (t \in pendings' => t \in pendings)
    BY <2>1
  <2> QED BY <1>1, <1>2, <2>1, <2>2
<1>4. ASSUME NEW b \in Returns, NEW s \in SignIns, TakePending(b, s) PROVE TakenIsGone' /\ TakenOnce'
  <2>1. signIn' = signIn /\ signIn[s].pc = "sent" /\ return[b].pc = "idle"
        /\ \A a \in Returns : a # b => return'[a] = return[a]
    BY <1>4 DEF TakePending, SignInRecsOK
  <2>2. CASE s \in pendings /\ Opens(signIn[s].key)
    <3>1. return'[b].pc = "taken" /\ return'[b].of = s /\ pendings' = pendings \ {s}
      BY <1>4, <2>2 DEF TakePending, NoReturn, SignInRecsOK
    <3>2. \A a \in Returns : Goes(a) => return[a].of # s
      BY <2>2 DEF TakenIsGone
    <3>3. TakenIsGone'
      <4>1. ASSUME NEW a \in Returns
            PROVE  /\ return'[a].pc = "idle" => return'[a].of = 0
                   /\ return'[a].pc \notin {"idle", "refused"} =>
                         return'[a].of \in SignIns \ pendings' /\ signIn'[return'[a].of].pc = "sent"
        <5>1. CASE a = b
          BY <2>1, <3>1, <5>1
        <5>2. CASE a # b
          BY <2>1, <3>1, <5>2 DEF TakenIsGone
        <5> QED BY <5>1, <5>2
      <4> QED BY <4>1 DEF TakenIsGone
    <3>4. ASSUME NEW a \in Returns, NEW d \in Returns, a # d, return'[a].of = return'[d].of, return'[a].of # 0,
                 return'[a].pc # "refused", return'[d].pc # "refused"
          PROVE  FALSE
      <4>1. CASE a = b
        BY <1>2, <2>1, <3>1, <3>2, <3>4, <4>1
      <4>2. CASE d = b
        BY <1>2, <2>1, <3>1, <3>2, <3>4, <4>2
      <4>3. CASE a # b /\ d # b
        BY <2>1, <3>4, <4>3 DEF TakenOnce
      <4> QED BY <4>1, <4>2, <4>3
    <3> QED BY <3>3, <3>4 DEF TakenOnce
  <2>3. CASE ~(s \in pendings /\ Opens(signIn[s].key))
    <3>1. return'[b].pc = "refused" /\ pendings' = pendings
      BY <1>4, <2>3 DEF TakePending, NoReturn, SignInRecsOK
    <3>2. \A a \in Returns :
             /\ return'[a].pc = "idle" => return'[a].of = 0
             /\ return'[a].pc \notin {"idle", "refused"} => Goes(a) /\ return'[a].of = return[a].of
      BY <1>2, <2>1, <3>1
    <3> QED BY <1>1, <2>1, <3>1, <3>2
  <2> QED BY <2>2, <2>3
<1>5. ASSUME NEW b \in Returns, ReadResponse(b) \/ Exchange(b) \/ SaveGrant(b)
      PROVE  TakenIsGone' /\ TakenOnce'
  <2>1. signIn' = signIn /\ pendings' = pendings /\ \A a \in Returns : a # b => return'[a] = return[a]
    BY <1>5 DEF ReadResponse, Exchange, SaveGrant, SignInRecsOK
  <2>2. Goes(b) /\ return'[b].of = return[b].of /\ return'[b].pc # "idle"
    <3>1. CASE ReadResponse(b)
      BY <1>0, <3>1 DEF ReadResponse, SignInRecsOK, ReturnRecs
    <3>2. CASE Exchange(b)
      BY <1>0, <3>2 DEF Exchange, SignInRecsOK, ReturnRecs
    <3>3. CASE SaveGrant(b)
      BY <1>0, <3>3 DEF SaveGrant, SignInRecsOK, ReturnRecs
    <3> QED BY <1>5, <3>1, <3>2, <3>3
  <2> QED BY <1>1, <1>2, <2>1, <2>2
<1>6. ASSUME NEW c \in Connects, ReadGrant(c) \/ RefreshToken(c) \/ RefreshFails(c) \/ SaveRefresh(c)
      PROVE  TakenIsGone' /\ TakenOnce'
  BY <1>1, <1>2, <1>6 DEF ReadGrant, RefreshToken, RefreshFails, SaveRefresh
<1>7. CASE SweepPending \/ ForgetGrant \/ SpendToken
  BY <1>1, <1>2, <1>7 DEF SweepPending, ForgetGrant, SpendToken
<1>8. CASE StartWithKey
  <2>1. \A s \in SignIns : signIn[s].pc = "sent" => signIn'[s].pc = "sent"
    BY <1>8 DEF StartWithKey
  <2>2. \A b \in Returns :
           /\ return'[b].pc = "idle" => return'[b].of = 0
           /\ return'[b].pc \in {"idle", "refused"}
    BY <1>0, <1>8 DEF StartWithKey, NoReturn, ReturnRecs
  <2> QED BY <1>1, <1>8, <2>1, <2>2 DEF StartWithKey
<1>9. CASE UNCHANGED signInVars
  BY <1>1, <1>2, <1>9 DEF signInVars
<1> QED BY <1>3, <1>4, <1>5, <1>6, <1>7, <1>8, <1>9 DEF SignInNext

LEMMA SignInInvStep == SignInInv /\ [SignInNext]_signInVars => SignInInv'
<1> SUFFICES ASSUME SignInInv, [SignInNext]_signInVars PROVE SignInInv'
  OBVIOUS
<1>0. SignInRecsOK /\ Tokens /\ GrantedIsNew /\ LookedBefore /\ TakenIsGone /\ StepUpKeeps /\ TakenOnce
  BY DEF SignInInv, Tokens
<1>1. SignInRecsOK' /\ Tokens'
  <2>1. ASSUME NEW s \in SignIns, DiscoverServer(s) \/ AskForMore(s) \/ RegisterClient(s) \/ SavePending(s)
        PROVE  SignInRecsOK' /\ Tokens'
    <3>1. Tokens'
      BY <1>0, <2>1, TokensSame DEF DiscoverServer, AskForMore, RegisterClient, SavePending, policy
    <3> QED BY <1>0, <2>1, <3>1, StartRecsKept
  <2>2. ASSUME NEW b \in Returns,
               (\E s \in SignIns : TakePending(b, s)) \/ ReadResponse(b) \/ Exchange(b) \/ SaveGrant(b)
        PROVE  SignInRecsOK' /\ Tokens'
    BY <1>0, <2>2, ReturnRecsKept, TokensReturned
  <2>3. ASSUME NEW c \in Connects, ReadGrant(c) \/ RefreshToken(c) \/ RefreshFails(c) \/ SaveRefresh(c)
        PROVE  SignInRecsOK' /\ Tokens'
    <3>1. SignInRecsOK'
      BY <1>0, <2>3, ConnectRecsKept DEF Tokens
    <3>2. CASE ReadGrant(c)
      <4>1. PICK r \in AskRecs : Reads(c, r)
        BY <1>0, <3>2, WhatWasRead
      <4>2. /\ connect[c].pc # "refreshed"
            /\ issued' = issued /\ grantRow' = grantRow /\ lostHold' = lostHold /\ rotates' = rotates
        BY <3>2 DEF ReadGrant, policy
      <4> QED BY <1>0, <3>1, <4>1, <4>2, TokensRead
    <3> QED BY <1>0, <2>3, <3>1, <3>2, TokensRefreshed, TokensFailed, TokensSaved
  <2>4. CASE SweepPending \/ ForgetGrant \/ SpendToken \/ StartWithKey
    <3>1. SignInRecsOK'
      BY <1>0, <2>4, RestRecsKept DEF Tokens
    <3>2. CASE SweepPending \/ ForgetGrant \/ SpendToken
      <4>1. connect' = connect /\ issued' = issued /\ lostHold' = lostHold /\ rotates' = rotates
        BY <3>2 DEF SweepPending, ForgetGrant, SpendToken, policy
      <4>2. CASE SweepPending
        <5>1. grantRow' = grantRow
          BY <4>2 DEF SweepPending
        <5> QED BY <1>0, <3>1, <4>1, <5>1, TokensSame
      <4>3. CASE ForgetGrant
        <5>1. grantRow'.family = 0
          BY <4>3 DEF ForgetGrant, NoGrant
        <5> QED BY <1>0, <3>1, <4>1, <5>1, TokensSame
      <4>4. CASE SpendToken
        <5>1. grantRow'.family = grantRow.family /\ grantRow'.gen = grantRow.gen
          BY <1>0, <4>4 DEF SpendToken, SignInRecsOK, GrantRecs
        <5> QED BY <1>0, <3>1, <4>1, <5>1, TokensSame
      <4> QED BY <3>2, <4>2, <4>3, <4>4
    <3> QED BY <1>0, <2>4, <3>1, <3>2, TokensRestarted
  <2>5. CASE UNCHANGED signInVars
    <3>1. SignInRecsOK'
      BY <1>0, <2>5 DEF signInVars, policy, SignInRecsOK, SignInTypeOK
    <3>2. Tokens'
      BY <1>0, <2>5, TokensSame DEF signInVars, policy
    <3> QED BY <3>1, <3>2
  <2> QED BY <2>1, <2>2, <2>3, <2>4, <2>5 DEF SignInNext
<1>2. GrantedIsNew' /\ LookedBefore' /\ TakenIsGone' /\ StepUpKeeps' /\ TakenOnce'
  BY <1>0, GrantedKept, LookedKept, TakenKept
<1> QED BY <1>1, <1>2 DEF SignInInv, Tokens

LEMMA SignInInvAlways == SignInSpec => []SignInInv
<1>1. SignInInit({0, 1}, BOOLEAN \X BOOLEAN) => SignInInv
  BY SignInRecsInit
<1> QED BY <1>1, SignInInvStep, PTL DEF SignInSpec

(* The row of the grant, the sign-ins in progress, the returns and the connections stay
   within their types, whatever keys the install is started with.          *)
THEOREM SignInTyped == SignInSpec => []SignInTypeOK
<1>1. SignInInv => SignInTypeOK
  BY DEF SignInInv, SignInRecsOK
<1> QED BY <1>1, SignInInvAlways, PTL

(* The refresh token in the row is the one its server still takes, whoever else refreshed,
   signed in or removed it; a sign-in asks for all that the grant holds; and a sign-in in
   progress is finished once: for any number of sign-ins, returns and connections (Bearer,
   StepUpScopes, TakePending).                                             *)
THEOREM RefreshHeld == SignInSpec => []SignInIsSound
<1>1. SignInInv => SignInIsSound
  BY DEF SignInInv, SignInIsSound
<1> QED BY <1>1, SignInInvAlways, PTL

------------------------------------------------------------------------------
(* A connection to a server: McpWire.                                      *)

Stages    == {"streaming", "dialing", "ready", "failed", "closing", "closed"}
WireRecs  == [kind : Kinds, use : {"probe", "pool"}, up : BOOLEAN, closed : BOOLEAN, ended : BOOLEAN,
              dead : BOOLEAN, session : BOOLEAN, given : BOOLEAN, listed : BOOLEAN, nextId : 0..MaxIds,
              stage : Stages]
TalkPCs   == {"idle", "writing", "waiting", "greeting", "cancelling", "over"}
TalkRecs  == [pc : TalkPCs, id : Nat, told : Seq(Nat)]
Messages  == {"initialize", "initialized", "list", "call", "cancelled", "refusal"}
PostPCs   == {"queued", "sent", "body", "handing", "refusing", "over"}
PostRecs  == [pc : PostPCs, what : Messages, id : Nat, carried : BOOLEAN, mirrored : BOOLEAN, told : Seq(Nat)]
ReadRecs  == [pc : {"reading", "handing", "refusing", "over"}, id : {0}, told : Seq(Nat)]
WireLines == (Messages \cup {"answer", "note", "request"}) \X Nat

\* Whatever is asked was asked under an id that was given out.
WireOK ==
    /\ wire \in WireRecs /\ lines \in 0..MaxLines
    /\ pending \subseteq 1..wire.nextId /\ seen \subseteq 1..wire.nextId
TalkOK ==
    /\ caller \in [Callers \cup {"dial"} -> TalkRecs]
    /\ \A w \in Callers \cup {"dial"} : caller[w].id <= wire.nextId
PostsOK ==
    /\ posts \in Seq(PostRecs) /\ Len(posts) <= MaxPosts[wire.kind]
    /\ \A i \in 1..Len(posts) : posts[i].id <= wire.nextId
PipesOK ==
    /\ toChild \in Seq(WireLines) /\ Len(toChild) <= PipeRoom
    /\ \A i \in 1..Len(toChild) : toChild[i][2] <= wire.nextId
    /\ fromServer \in Seq(WireLines) /\ Len(fromServer) <= PipeRoom
ReadOK == reader \in ReadRecs /\ slot \in [Ids -> Seq(Nat)]
WireRecsOK == WireOK /\ TalkOK /\ PostsOK /\ PipesOK /\ ReadOK

\* An id somebody waits for, or that was not given out yet, has nothing in its channel; and
\* what is in a channel is the answer to its id, or an error.
SlotsFit ==
    \A n \in Ids : /\ slot[n] \in {<<>>, <<0>>, <<n>>}
                   /\ n \in pending \/ n > wire.nextId => slot[n] = <<>>

\* A goroutine that has an answer to hand took it out of the table, and its channel is empty.
Claimed(n) == n \in 1..wire.nextId /\ n \notin pending /\ slot[n] = <<>>
ReaderFits == reader.pc = "handing" => Len(reader.told) = 1 /\ Claimed(reader.told[1])
PostFits(p) ==
    p.pc = "handing" => Len(p.told) \in {1, 2} /\ Claimed(p.told[1]) /\ p.told[Len(p.told)] \in {0, p.told[1]}
PostsFit == \A i \in 1..Len(posts) : PostFits(posts[i])
Handing(i) == posts[i].pc = "handing"
ClaimsApart ==
    \A i \in 1..Len(posts) : Handing(i) =>
       /\ reader.pc = "handing" => reader.told[1] # posts[i].told[1]
       /\ \A j \in 1..Len(posts) : Handing(j) /\ i # j => posts[i].told[1] # posts[j].told[1]

\* Who waits has an id, and is told nothing before it is over.
CallersFit ==
    \A w \in Callers \cup {"dial"} :
       /\ caller[w].pc \in {"writing", "waiting", "cancelling"} => caller[w].id \in 1..wire.nextId
       /\ caller[w].pc # "over" => caller[w].told = <<>>

\* Nobody is under way on a connection that is being closed, and nothing is posted once it is.
ClosingFits ==
    /\ wire.stage \in {"closing", "closed"} => wire.closed /\ \A w \in Callers \cup {"dial"} : ~Under(w)
    /\ wire.stage = "closed" => wire.ended

\* What calls off the first request comes under its id; nothing else precedes its answer.
Unheard == posts = <<>> \/ posts[1].pc \in {"queued", "sent"}
Dial    == caller["dial"]
HandshakeFits ==
    /\ wire.given = wire.session /\ (wire.given => wire.kind = "stream")
    /\ wire.kind = "stream" =>
          /\ reader.pc = "reading" /\ fromServer = <<>>
          /\ \A i \in 1..Len(posts) : posts[i].what = "initialize" <=> i = 1
          /\ Dial.pc \in {"idle", "writing"} => posts = <<>> /\ wire.nextId = IF Dial.pc = "idle" THEN 0 ELSE 1
          /\ posts = <<>> => Dial.pc \in {"idle", "writing", "over"}
UnheardFits ==
    wire.kind = "stream" /\ Unheard =>
       /\ ~wire.given /\ wire.stage # "ready" /\ wire.nextId <= 1 /\ Dial.pc # "greeting"
       /\ Dial.pc = "cancelling" => pending = {}
       /\ \A w \in Callers : caller[w].pc = "idle"
       /\ \A n \in Ids : slot[n] = <<>>
       /\ \A i \in 1..Len(posts) : i # 1 => posts[i].what \in {"cancelled", "refusal"} /\ pending = {}
       /\ \A i \in 1..Len(posts) : posts[i].pc # "handing"

WireInv ==
    /\ WireRecsOK /\ SlotsFit /\ ReaderFits /\ PostsFit /\ ClaimsApart
    /\ CallersFit /\ ClosingFits /\ HandshakeFits /\ UnheardFits
    /\ ToldItsOwn /\ SessionIsEchoed /\ ClosedIsQuiet

LEMMA WireNumbers ==
    /\ "dial" \notin Callers /\ PipeRoom \in Nat /\ MaxIds \in Nat /\ MaxLines \in Nat
    /\ \A k \in Kinds : MaxPosts[k] \in Nat
    /\ Kinds \subseteq {"stdio", "stream", "legacy"}
BY WireConstants

\* The sequences, seen as numbers.
LEMMA WireSeen ==
    ASSUME WireRecsOK
    PROVE  /\ wire.nextId \in 0..MaxIds /\ wire.nextId \in Nat /\ wire.kind \in Kinds /\ Ids = 1..MaxIds
           /\ Len(posts) \in Nat /\ DOMAIN posts = 1..Len(posts)
           /\ \A i \in 1..Len(posts) : posts[i] \in PostRecs /\ posts[i].id \in 0..wire.nextId
           /\ DOMAIN caller = Callers \cup {"dial"}
           /\ \A w \in Callers \cup {"dial"} : caller[w] \in TalkRecs /\ caller[w].id \in 0..wire.nextId
<1> USE DEF WireRecsOK
<1>1. wire.nextId \in 0..MaxIds /\ wire.nextId \in Nat /\ wire.kind \in Kinds
  BY WireNumbers DEF WireOK, WireRecs
<1>2. Len(posts) \in Nat /\ DOMAIN posts = 1..Len(posts) /\ \A i \in 1..Len(posts) : posts[i] \in PostRecs
  BY LenProperties, ElementOfSeq DEF PostsOK
<1>3. \A i \in 1..Len(posts) : posts[i].id \in 0..wire.nextId
  BY <1>1, <1>2 DEF PostsOK, PostRecs
<1>4. \A w \in Callers \cup {"dial"} : caller[w] \in TalkRecs
  BY DEF TalkOK
<1>5. \A w \in Callers \cup {"dial"} : caller[w].id \in 0..wire.nextId
  BY <1>1, <1>4 DEF TalkOK, TalkRecs
<1> QED BY <1>1, <1>2, <1>3, <1>4, <1>5 DEF TalkOK, Ids

\* A POST goes on as p; a POST is added.
PostSet(i, p) ==
    /\ i \in 1..Len(posts) /\ p \in PostRecs /\ posts' \in Seq(PostRecs) /\ Len(posts') = Len(posts)
    /\ posts'[i] = p /\ \A j \in 1..Len(posts) : j # i => posts'[j] = posts[j]
PostAdded(p) ==
    /\ p \in PostRecs /\ posts' \in Seq(PostRecs) /\ Len(posts') = Len(posts) + 1
    /\ posts'[Len(posts) + 1] = p /\ \A j \in 1..Len(posts) : posts'[j] = posts[j]

LEMMA SetIsSet ==
    ASSUME WireRecsOK, NEW i \in 1..Len(posts), NEW p \in PostRecs, SetPost(i, p)
    PROVE  PostSet(i, p)
<1>1. posts \in Seq(PostRecs) /\ posts' = [posts EXCEPT ![i] = p]
  BY DEF WireRecsOK, PostsOK, SetPost
<1>2. /\ posts' \in Seq(PostRecs) /\ Len(posts') = Len(posts)
      /\ \A j \in 1..Len(posts) : posts'[j] = IF j = i THEN p ELSE posts[j]
  BY <1>1, ExceptSeq
<1> QED BY <1>2 DEF PostSet

LEMMA NewIsPost ==
    ASSUME NEW what \in Messages, NEW id \in Nat
    PROVE  /\ NewPost(what, id) \in PostRecs /\ NewPost(what, id).pc = "queued"
           /\ NewPost(what, id).what = what /\ NewPost(what, id).id = id
<1>1. <<>> \in Seq(Nat)
  BY EmptySeq
<1> QED BY <1>1 DEF NewPost, PostRecs, PostPCs

LEMMA AddIsAdded ==
    ASSUME NEW s \in Seq(PostRecs), NEW p \in PostRecs
    PROVE  /\ Append(s, p) \in Seq(PostRecs) /\ Len(Append(s, p)) = Len(s) + 1
           /\ Append(s, p)[Len(s) + 1] = p /\ \A j \in 1..Len(s) : Append(s, p)[j] = s[j]
BY AppendProperties

\* What came of sending: nothing, one more message in the pipe, or one more POST.
LEMMA SendCases ==
    ASSUME WireRecsOK, NEW what \in Messages, NEW id \in 0..wire.nextId, Send(what, id) \/ CannotSend
    PROVE  /\ toChild' \in Seq(WireLines) /\ Len(toChild') <= PipeRoom
           /\ \A i \in 1..Len(toChild') : toChild'[i][2] <= wire.nextId
           /\ \/ posts' = posts
              \/ /\ PostAdded(NewPost(what, id)) /\ Len(posts) + 1 <= MaxPosts[wire.kind]
                 /\ ~wire.ended /\ wire.kind # "stdio"
<1> USE DEF WireRecsOK
<1>1. wire.nextId \in Nat /\ id \in Nat /\ wire.kind \in Kinds /\ MaxPosts[wire.kind] \in Nat /\ Len(posts) \in Nat
  <2>1. wire.nextId \in Nat /\ wire.kind \in Kinds /\ Len(posts) \in Nat
    BY WireSeen
  <2>2. MaxPosts[wire.kind] \in Nat
    BY <2>1, WireNumbers
  <2>3. id \in Nat
    BY <2>1
  <2> QED BY <2>1, <2>2, <2>3
<1>2. toChild \in Seq(WireLines) /\ Len(toChild) \in Nat /\ \A i \in 1..Len(toChild) : toChild[i][2] <= wire.nextId
  BY LenProperties DEF PipesOK
<1>3. CASE CannotSend
  BY <1>3 DEF CannotSend, PipesOK
<1>4. CASE Send(what, id) /\ Stdio
  <2>1. toChild' = Append(toChild, <<what, id>>) /\ posts' = posts /\ Len(toChild) < PipeRoom
    BY <1>4 DEF Send, CanSend
  <2>2. <<what, id>> \in WireLines
    BY <1>1 DEF WireLines
  <2>3. /\ toChild' \in Seq(WireLines) /\ Len(toChild') = Len(toChild) + 1
        /\ toChild'[Len(toChild) + 1] = <<what, id>> /\ \A i \in 1..Len(toChild) : toChild'[i] = toChild[i]
    BY <1>2, <2>1, <2>2, AppendProperties
  <2>4. Len(toChild') <= PipeRoom
    BY <1>2, <2>1, <2>3, WireNumbers
  <2>5. \A i \in 1..Len(toChild') : toChild'[i][2] <= wire.nextId
    BY <1>1, <1>2, <2>3
  <2> QED BY <2>1, <2>3, <2>4, <2>5
<1>5. CASE Send(what, id) /\ ~Stdio
  <2>1. posts' = Append(posts, NewPost(what, id)) /\ toChild' = toChild /\ ~wire.ended
        /\ Len(posts) < MaxPosts[wire.kind] /\ wire.kind # "stdio"
    BY <1>5 DEF Send, CanSend, Stdio
  <2>2. NewPost(what, id) \in PostRecs
    BY <1>1, NewIsPost
  <2>3. PostAdded(NewPost(what, id))
    BY <2>1, <2>2, AddIsAdded DEF PostAdded, PostsOK
  <2>4. Len(posts) + 1 <= MaxPosts[wire.kind]
    BY <1>1, <2>1
  <2> QED BY <2>1, <2>3, <2>4 DEF PipesOK
<1> QED BY <1>3, <1>4, <1>5

\* What a goroutine makes of a line: nothing, a refusal, or an answer it takes out of the table.
HeardLine(g, h) ==
    \/ h = g /\ pending' = pending
    \/ h = [g EXCEPT !.pc = "refusing"] /\ pending' = pending
    \/ \E n \in pending : h = [g EXCEPT !.pc = "handing", !.told = <<n>>] /\ pending' = pending \ {n}

LEMMA LineIsHeard ==
    ASSUME NEW g, NEW line, ClaimFor(line)
    PROVE  HeardLine(g, Handled(g, line))
<1>1. CASE line[1] = "answer" /\ line[2] \in pending
  <2>1. Handled(g, line) = [g EXCEPT !.pc = "handing", !.told = <<line[2]>>]
    BY <1>1 DEF Handled
  <2>2. pending' = pending \ {line[2]}
    BY <1>1 DEF ClaimFor, Claim
  <2> QED BY <1>1, <2>1, <2>2 DEF HeardLine
<1>2. CASE line[1] = "answer" /\ line[2] \notin pending
  <2>1. Handled(g, line) = g
    BY <1>2 DEF Handled
  <2>2. pending' = pending
    BY <1>2 DEF ClaimFor, Claim
  <2> QED BY <2>1, <2>2 DEF HeardLine
<1>3. CASE line[1] # "answer"
  <2>1. Handled(g, line) = g \/ Handled(g, line) = [g EXCEPT !.pc = "refusing"]
    BY <1>3 DEF Handled
  <2>2. pending' = pending
    BY <1>3 DEF ClaimFor
  <2> QED BY <2>1, <2>2 DEF HeardLine
<1> QED BY <1>1, <1>2, <1>3

\* A caller is at pc with what it was told, and no other moved.
Moved(w, pc, told) ==
    /\ w \in Callers \cup {"dial"} /\ caller' \in [Callers \cup {"dial"} -> TalkRecs]
    /\ caller'[w].pc = pc /\ caller'[w].id = caller[w].id /\ caller'[w].told = told
    /\ \A v \in Callers \cup {"dial"} : v # w => caller'[v] = caller[v]

LEMMA OnwardMoves ==
    ASSUME WireRecsOK, NEW w \in Callers \cup {"dial"}, NEW pc \in TalkPCs, Onward(w, pc)
    PROVE  Moved(w, pc, caller[w].told)
<1>1. caller[w] \in TalkRecs /\ caller \in [Callers \cup {"dial"} -> TalkRecs]
  BY DEF WireRecsOK, TalkOK
<1>2. [caller[w] EXCEPT !.pc = pc] \in TalkRecs
  BY <1>1 DEF TalkRecs
<1>3. caller' = [caller EXCEPT ![w] = [caller[w] EXCEPT !.pc = pc]]
  BY DEF Onward
<1>4. /\ [caller[w] EXCEPT !.pc = pc].pc = pc /\ [caller[w] EXCEPT !.pc = pc].id = caller[w].id
      /\ [caller[w] EXCEPT !.pc = pc].told = caller[w].told
  BY <1>1 DEF TalkRecs
<1> DEFINE r == [caller[w] EXCEPT !.pc = pc]
<1> HIDE DEF r
<1>5. caller' \in [Callers \cup {"dial"} -> TalkRecs] /\ caller'[w] = r
      /\ \A v \in Callers \cup {"dial"} : v # w => caller'[v] = caller[v]
  BY <1>1, <1>2, <1>3 DEF r
<1> QED BY <1>4, <1>5 DEF Moved, r

LEMMA RestMoves ==
    ASSUME WireRecsOK, NEW w \in Callers \cup {"dial"}, NEW told \in Seq(Nat), Rest(w, told)
    PROVE  Moved(w, "over", told)
<1>1. caller[w] \in TalkRecs /\ caller \in [Callers \cup {"dial"} -> TalkRecs]
  BY DEF WireRecsOK, TalkOK
<1> DEFINE r == [Idle EXCEPT !.pc = "over", !.id = caller[w].id, !.told = told]
<1>2. Idle \in TalkRecs
  <2>1. <<>> \in Seq(Nat)
    BY EmptySeq
  <2> QED BY <2>1 DEF Idle, TalkRecs, TalkPCs
<1>3. r \in TalkRecs /\ r.pc = "over" /\ r.id = caller[w].id /\ r.told = told
  BY <1>1, <1>2 DEF TalkRecs, TalkPCs
<1>4. caller' = [caller EXCEPT ![w] = r]
  BY DEF Rest
<1> HIDE DEF r
<1>5. caller' \in [Callers \cup {"dial"} -> TalkRecs] /\ caller'[w] = r
      /\ \A v \in Callers \cup {"dial"} : v # w => caller'[v] = caller[v]
  BY <1>1, <1>3, <1>4
<1> QED BY <1>3, <1>5 DEF Moved

SameIds == wire'.kind = wire.kind /\ wire'.nextId = wire.nextId

\* Each part of the types, by what a step does to it.
LEMMA PartsKept ==
    ASSUME WireRecsOK, SameIds
    PROVE  /\ caller' = caller => TalkOK'
           /\ \A w, pc, told : Moved(w, pc, told) => TalkOK'
           /\ posts' = posts => PostsOK'
           /\ \A i, p : PostSet(i, p) /\ p.id <= wire.nextId => PostsOK'
           /\ \A p : PostAdded(p) /\ p.id <= wire.nextId /\ Len(posts) + 1 <= MaxPosts[wire.kind] => PostsOK'
           /\ toChild' = toChild /\ fromServer' = fromServer => PipesOK'
           /\ reader' = reader /\ slot' = slot => ReadOK'
           /\ wire' \in WireRecs /\ pending' \subseteq pending /\ seen' = seen /\ lines' = lines => WireOK'
           /\ wire' = wire => wire' \in WireRecs
<1> USE DEF WireRecsOK, SameIds
<1>0. Len(posts) \in Nat
  BY WireSeen
<1>1. caller' = caller => TalkOK'
  BY DEF TalkOK
<1>2. ASSUME NEW w, NEW pc, NEW told, Moved(w, pc, told) PROVE TalkOK'
  BY <1>2 DEF TalkOK, Moved
<1>3. posts' = posts => PostsOK'
  BY DEF PostsOK
<1>4. ASSUME NEW i, NEW p, PostSet(i, p), p.id <= wire.nextId PROVE PostsOK'
  BY <1>0, <1>4 DEF PostsOK, PostSet
<1>5. ASSUME NEW p, PostAdded(p), p.id <= wire.nextId, Len(posts) + 1 <= MaxPosts[wire.kind] PROVE PostsOK'
  BY <1>0, <1>5 DEF PostsOK, PostAdded
<1>6. toChild' = toChild /\ fromServer' = fromServer => PipesOK'
  BY DEF PipesOK
<1>7. reader' = reader /\ slot' = slot => ReadOK'
  BY DEF ReadOK
<1>8. wire' \in WireRecs /\ pending' \subseteq pending /\ seen' = seen /\ lines' = lines => WireOK'
  BY DEF WireOK
<1>9. wire' = wire => wire' \in WireRecs
  BY DEF WireOK
<1> QED BY <1>1, <1>2, <1>3, <1>4, <1>5, <1>6, <1>7, <1>8, <1>9

\* What goes into a channel, and what comes out of it.
LEMMA PutFits ==
    ASSUME WireRecsOK, SlotsFit, NEW n \in Ids, NEW told \in {0, n}, Fits(n), Put(n, told)
    PROVE  slot' \in [Ids -> Seq(Nat)] /\ slot'[n] = <<told>> /\ \A m \in Ids : m # n => slot'[m] = slot[m]
<1>1. slot \in [Ids -> Seq(Nat)] /\ slot[n] = <<>> /\ told \in Nat
  BY WireNumbers DEF WireRecsOK, ReadOK, Fits, Ids
<1>2. Append(slot[n], told) = <<told>> /\ <<told>> \in Seq(Nat)
  BY <1>1
<1> QED BY <1>1, <1>2 DEF Put

LEMMA TakeFits ==
    ASSUME WireRecsOK, SlotsFit, NEW n \in Ids, slot[n] # <<>>, slot' = [slot EXCEPT ![n] = Tail(@)]
    PROVE  /\ slot' \in [Ids -> Seq(Nat)] /\ slot'[n] = <<>> /\ \A m \in Ids : m # n => slot'[m] = slot[m]
           /\ slot[n][1] \in {0, n}
<1>1. slot \in [Ids -> Seq(Nat)] /\ slot[n] \in {<<0>>, <<n>>}
  BY DEF WireRecsOK, ReadOK, SlotsFit
<1>2. Tail(slot[n]) = <<>> /\ slot[n][1] \in {0, n} /\ <<>> \in Seq(Nat)
  BY <1>1, EmptySeq
<1>3. slot' = [slot EXCEPT ![n] = Tail(slot[n])]
  OBVIOUS
<1> QED BY <1>1, <1>2, <1>3

\* A goroutine that heard a line is still a POST's, or the reader's.
LEMMA HeardTyped ==
    ASSUME WireRecsOK, NEW g, NEW h, HeardLine(g, h)
    PROVE  /\ g \in PostRecs => h \in PostRecs /\ h.id = g.id /\ h.what = g.what /\ h.carried = g.carried
           /\ g \in ReadRecs => h \in ReadRecs
           /\ pending' \subseteq pending
<1>1. ASSUME NEW n \in pending PROVE <<n>> \in Seq(Nat)
  <2>1. n \in Nat
    BY WireSeen DEF WireRecsOK, WireOK
  <2> QED BY <2>1
<1>2. CASE h = g /\ pending' = pending
  BY <1>2
<1>3. CASE h = [g EXCEPT !.pc = "refusing"] /\ pending' = pending
  BY <1>3 DEF PostRecs, PostPCs, ReadRecs
<1>4. ASSUME NEW n \in pending, h = [g EXCEPT !.pc = "handing", !.told = <<n>>], pending' = pending \ {n}
      PROVE  /\ g \in PostRecs => h \in PostRecs /\ h.id = g.id /\ h.what = g.what /\ h.carried = g.carried
             /\ g \in ReadRecs => h \in ReadRecs
             /\ pending' \subseteq pending
  <2> DEFINE t == <<n>>
  <2>1. t \in Seq(Nat) /\ h = [g EXCEPT !.pc = "handing", !.told = t]
    BY <1>1, <1>4
  <2> HIDE DEF t
  <2> QED BY <1>4, <2>1 DEF PostRecs, PostPCs, ReadRecs
<1> QED BY <1>2, <1>3, <1>4 DEF HeardLine

LEMMA CallsTyped ==
    ASSUME WireRecsOK, SlotsFit, CallersFit, NEW w \in Callers \cup {"dial"},
           \/ BeginCall(w) \/ WriteCall(w) \/ HearReply(w) \/ HearDeath(w) \/ GiveUp(w) \/ SendCancelled(w)
    PROVE  WireRecsOK'
<1> USE DEF WaitsAt
<1>0. /\ wire \in WireRecs /\ wire.nextId \in Nat /\ caller[w] \in TalkRecs /\ caller[w].id \in 0..wire.nextId
      /\ <<0>> \in Seq(Nat) /\ WireOK /\ TalkOK /\ PostsOK /\ PipesOK /\ ReadOK
      /\ pending \subseteq 1..wire.nextId /\ seen \subseteq 1..wire.nextId
  BY WireSeen DEF WireRecsOK, WireOK
<1>1. CASE BeginCall(w)
  <2> DEFINE k == wire.nextId + 1
  <2>1. /\ wire.nextId < MaxIds /\ wire' = [wire EXCEPT !.nextId = @ + 1] /\ pending' = pending \cup {wire.nextId + 1}
        /\ caller' = [caller EXCEPT ![w] = [Idle EXCEPT !.pc = "writing", !.id = wire.nextId + 1]]
    BY <1>1 DEF BeginCall
  <2>2. wire' \in WireRecs /\ wire'.nextId = k /\ wire'.kind = wire.kind /\ k \in Nat
    BY <1>0, <2>1, WireNumbers DEF WireRecs
  <2>3. WireOK'
    BY <1>0, <1>1, <2>1, <2>2 DEF BeginCall, WireOK
  <2>4. TalkOK'
    <3>1. Idle \in TalkRecs
      <4>1. <<>> \in Seq(Nat)
        BY EmptySeq
      <4> QED BY <4>1 DEF Idle, TalkRecs, TalkPCs
    <3>2. [Idle EXCEPT !.pc = "writing", !.id = k] \in TalkRecs /\ [Idle EXCEPT !.pc = "writing", !.id = k].id = k
      BY <2>2, <3>1 DEF TalkRecs, TalkPCs
    <3> DEFINE r == [Idle EXCEPT !.pc = "writing", !.id = k]
    <3>3. caller' = [caller EXCEPT ![w] = r]
      BY <2>1
    <3> HIDE DEF r
    <3>4. caller' \in [Callers \cup {"dial"} -> TalkRecs] /\ caller'[w] = r
          /\ \A v \in Callers \cup {"dial"} : v # w => caller'[v] = caller[v]
      BY <1>0, <3>2, <3>3 DEF TalkOK, r
    <3>5. ASSUME NEW v \in Callers \cup {"dial"} PROVE caller'[v].id <= wire'.nextId
      <4>1. caller[v].id \in 0..wire.nextId
        BY WireSeen
      <4>2. r.id = wire.nextId + 1 /\ wire'.nextId = wire.nextId + 1
        BY <2>2, <3>2 DEF r
      <4>3. CASE v = w
        BY <1>0, <3>4, <4>2, <4>3
      <4>4. CASE v # w
        BY <1>0, <3>4, <4>1, <4>2, <4>4
      <4> QED BY <4>3, <4>4
    <3> QED BY <3>4, <3>5 DEF TalkOK
  <2>5. PostsOK'
    <3>1. \A i \in 1..Len(posts) : posts[i].id <= wire.nextId + 1
      BY <1>0, WireSeen
    <3> QED BY <1>0, <1>1, <2>2, <3>1 DEF BeginCall, PostsOK
  <2>6. PipesOK'
    <3>1. ASSUME NEW i \in 1..Len(toChild) PROVE toChild[i][2] <= wire.nextId + 1
      <4>1. toChild[i] \in WireLines /\ toChild[i][2] <= wire.nextId
        BY <1>0, ElementOfSeq DEF PipesOK
      <4>2. toChild[i][2] \in Nat
        BY <4>1 DEF WireLines
      <4> QED BY <1>0, <4>1, <4>2
    <3> QED BY <1>0, <1>1, <2>2, <3>1 DEF BeginCall, PipesOK
  <2>7. ReadOK'
    BY <1>0, <1>1 DEF BeginCall, ReadOK
  <2> QED BY <2>3, <2>4, <2>5, <2>6, <2>7 DEF WireRecsOK
<1>2. CASE WriteCall(w)
  <2>1. SameIds /\ WireOK'
    <3>1. SameIds /\ pending' \subseteq pending
      BY <1>2 DEF WriteCall, SameIds
    <3> QED BY <1>2, <3>1, PartsKept DEF WriteCall
  <2>2. ReadOK' /\ fromServer' = fromServer
    BY <1>2, <2>1, PartsKept DEF WriteCall
  <2>3. TalkOK'
    BY <1>0, <1>2, <2>1, OnwardMoves, RestMoves, PartsKept DEF WriteCall, TalkPCs
  <2>4. PostsOK' /\ PipesOK'
    <3>1. What(w) \in Messages
      BY DEF What, Messages
    <3>2. Send(What(w), caller[w].id) \/ CannotSend
      BY <1>2 DEF WriteCall
    <3>3. NewPost(What(w), caller[w].id).id <= wire.nextId
      BY <1>0, <3>1, NewIsPost
    <3>4. PipesOK'
      BY <1>0, <2>1, <2>2, <3>1, <3>2, SendCases DEF PipesOK, SameIds
    <3> QED BY <1>0, <2>1, <3>1, <3>2, <3>3, <3>4, SendCases, PartsKept
  <2> QED BY <2>1, <2>2, <2>3, <2>4 DEF WireRecsOK
<1>3. CASE HearReply(w)
  <2> DEFINE n == caller[w].id
  <2>1. caller[w].pc = "waiting" /\ n \in Ids /\ slot[n] # <<>> /\ slot' = [slot EXCEPT ![n] = Tail(@)]
    <3>1. caller[w].pc = "waiting" /\ slot[n] # <<>> /\ slot' = [slot EXCEPT ![n] = Tail(@)]
      BY <1>3 DEF HearReply
    <3>2. n \in 1..wire.nextId /\ wire.nextId \in 0..MaxIds
      BY <3>1, WireSeen DEF CallersFit
    <3> QED BY <3>1, <3>2, WireNumbers DEF Ids
  <2>2. slot' \in [Ids -> Seq(Nat)] /\ slot[n][1] \in {0, n}
    BY <2>1, TakeFits
  <2>3. <<slot[n][1]>> \in Seq(Nat)
    <3>1. slot[n][1] \in Nat
      BY <2>1, <2>2, WireNumbers DEF Ids
    <3> QED BY <3>1
  <2>4. wire' \in WireRecs /\ SameIds
    BY <1>0, <1>3 DEF HearReply, WireRecs, SameIds
  <2>5. TalkOK'
    <3>1. Onward(w, "greeting") \/ Rest(w, <<slot[n][1]>>)
      BY <1>3 DEF HearReply
    <3> QED BY <2>3, <2>4, <3>1, OnwardMoves, RestMoves, PartsKept DEF TalkPCs
  <2>6. WireOK' /\ PostsOK' /\ PipesOK'
    BY <1>3, <2>4, PartsKept DEF HearReply
  <2>7. ReadOK'
    BY <1>0, <1>3, <2>2 DEF HearReply, ReadOK
  <2> QED BY <2>5, <2>6, <2>7 DEF WireRecsOK
<1>4. CASE HearDeath(w) \/ GiveUp(w)
  <2>1. SameIds /\ wire' = wire /\ pending' \subseteq pending
    BY <1>4 DEF HearDeath, GiveUp, SameIds, Rest, Onward
  <2>2. TalkOK'
    BY <1>0, <1>4, <2>1, OnwardMoves, RestMoves, PartsKept DEF HearDeath, GiveUp, TalkPCs
  <2>3. WireOK' /\ PostsOK' /\ PipesOK' /\ ReadOK'
    BY <1>4, <2>1, PartsKept DEF HearDeath, GiveUp
  <2> QED BY <2>2, <2>3 DEF WireRecsOK
<1>5. CASE SendCancelled(w)
  <2>1. SameIds /\ wire' = wire /\ pending' = pending
    BY <1>5 DEF SendCancelled, SameIds
  <2>2. TalkOK'
    BY <1>0, <1>5, <2>1, RestMoves, PartsKept DEF SendCancelled
  <2>3. WireOK' /\ ReadOK' /\ fromServer' = fromServer
    BY <1>5, <2>1, PartsKept DEF SendCancelled
  <2>4. PostsOK' /\ PipesOK'
    <3>1. "cancelled" \in Messages
      BY DEF Messages
    <3>2. Send("cancelled", caller[w].id) \/ CannotSend
      BY <1>5 DEF SendCancelled
    <3>3. NewPost("cancelled", caller[w].id).id <= wire.nextId
      BY <1>0, <3>1, NewIsPost
    <3>4. PipesOK'
      BY <1>0, <2>1, <2>3, <3>1, <3>2, SendCases DEF PipesOK, SameIds
    <3> QED BY <1>0, <2>1, <3>1, <3>2, <3>3, <3>4, SendCases, PartsKept
  <2> QED BY <2>2, <2>3, <2>4 DEF WireRecsOK
<1> QED BY <1>1, <1>2, <1>3, <1>4, <1>5

\* What a POST that fails does: it hands an error to the id that is told, or to nobody.
FailsAs(i, id, asked) ==
    /\ SetPost(i, [posts[i] EXCEPT !.pc = IF asked THEN "handing" ELSE "over",
                                   !.told = IF asked THEN <<id, 0>> ELSE <<>>])
    /\ asked => id \in pending
    /\ pending' = IF asked THEN pending \ {id} ELSE pending
    /\ wire' = wire /\ slot' = slot /\ caller' = caller /\ toChild' = toChild /\ seen' = seen
    /\ fromServer' = fromServer /\ reader' = reader /\ lines' = lines

LEMMA FailIs ==
    ASSUME NEW i \in 1..Len(posts), posts[i].id \in Nat, PostFails(i)
    PROVE  \E id \in Nat, asked \in BOOLEAN : FailsAs(i, id, asked)
<1>1. (IF posts[i].what = "refusal" THEN Ids \cup {0} ELSE {posts[i].id}) \subseteq Nat
  BY DEF Ids
<1>2. PICK id \in (IF posts[i].what = "refusal" THEN Ids \cup {0} ELSE {posts[i].id}) :
         LET asked == posts[i].what \in {"initialize", "list", "call", "refusal"} /\ id \in pending
         IN /\ SetPost(i, [posts[i] EXCEPT !.pc = IF asked THEN "handing" ELSE "over",
                                           !.told = IF asked THEN <<id, 0>> ELSE <<>>])
            /\ IF asked THEN Claim(id) ELSE UNCHANGED pending
  BY DEF PostFails
<1>3. UNCHANGED <<wire, slot, caller, toChild, fromServer, reader, seen, lines>>
  BY DEF PostFails
<1> DEFINE asked == posts[i].what \in {"initialize", "list", "call", "refusal"} /\ id \in pending
<1>4. asked \in BOOLEAN /\ (asked => id \in pending)
  OBVIOUS
<1>5. /\ SetPost(i, [posts[i] EXCEPT !.pc = IF asked THEN "handing" ELSE "over",
                                     !.told = IF asked THEN <<id, 0>> ELSE <<>>])
      /\ pending' = IF asked THEN pending \ {id} ELSE pending
  BY <1>2 DEF Claim
<1> HIDE DEF asked
<1>6. FailsAs(i, id, asked)
  BY <1>3, <1>4, <1>5 DEF FailsAs
<1> QED BY <1>1, <1>4, <1>6

\* The POST i as the next step leaves it, for the steps that change it only.
LEMMA PostsTyped ==
    ASSUME WireRecsOK, SlotsFit, PostsFit, NEW i \in 1..Len(posts),
           \/ BuildPost(i) \/ PostFails(i) \/ HearHeaders(i) \/ HearBody(i)
           \/ PostEnds(i) \/ PostHands(i) \/ PostRefuses(i)
    PROVE  WireRecsOK'
<1>0. /\ wire \in WireRecs /\ wire.nextId \in Nat /\ posts[i] \in PostRecs /\ posts[i].id \in 0..wire.nextId
      /\ WireOK /\ TalkOK /\ PostsOK /\ PipesOK /\ ReadOK /\ Len(posts) \in Nat
      /\ pending \subseteq 1..wire.nextId /\ seen \subseteq 1..wire.nextId
  BY WireSeen DEF WireRecsOK, WireOK
<1>1. ASSUME NEW p \in PostRecs, p.id = posts[i].id, SetPost(i, p), SameIds PROVE PostsOK'
  <2>1. PostSet(i, p) /\ p.id <= wire.nextId
    BY <1>0, <1>1, SetIsSet
  <2> QED BY <1>1, <2>1, PartsKept
<1>2. CASE BuildPost(i)
  <2> DEFINE p == [posts[i] EXCEPT !.pc = "sent", !.carried = wire.session, !.mirrored = Mirrored(posts[i])]
  <2>1. wire.session \in BOOLEAN /\ Mirrored(posts[i]) \in BOOLEAN
    BY <1>0 DEF WireRecs, Mirrored
  <2>2. p \in PostRecs /\ p.id = posts[i].id
    BY <1>0, <2>1 DEF PostRecs, PostPCs
  <2>3. SameIds /\ SetPost(i, p)
    BY <1>2 DEF BuildPost, SameIds
  <2> HIDE DEF p
  <2>4. PostsOK'
    BY <1>1, <2>2, <2>3
  <2>5. seen' \subseteq 1..wire.nextId
    BY <1>0, <1>2 DEF BuildPost
  <2>6. WireOK'
    BY <1>0, <1>2, <2>5 DEF BuildPost, WireOK
  <2>7. TalkOK' /\ PipesOK' /\ ReadOK'
    BY <1>2, <2>3, PartsKept DEF BuildPost
  <2> QED BY <2>4, <2>6, <2>7 DEF WireRecsOK
<1>3. CASE PostFails(i)
  <2>0. PICK id \in Nat, asked \in BOOLEAN : FailsAs(i, id, asked)
    BY <1>0, <1>3, FailIs DEF PostRecs
  <2> DEFINE t == IF asked THEN <<id, 0>> ELSE <<>>
             c == IF asked THEN "handing" ELSE "over"
             p == [posts[i] EXCEPT !.pc = c, !.told = t]
  <2>1. t \in Seq(Nat) /\ c \in PostPCs
    <3>1. <<id, 0>> \in Seq(Nat) /\ <<>> \in Seq(Nat)
      BY <1>0, EmptySeq
    <3> QED BY <3>1 DEF PostPCs
  <2>2. SetPost(i, p) /\ SameIds
    BY <2>0 DEF FailsAs, SameIds
  <2>3. p \in PostRecs /\ p.id = posts[i].id
    <3> HIDE DEF t, c
    <3> QED BY <1>0, <2>1 DEF PostRecs
  <2>4. pending' \subseteq pending
    BY <2>0 DEF FailsAs
  <2> HIDE DEF p
  <2>5. PostsOK'
    BY <1>1, <2>2, <2>3
  <2>6. wire' \in WireRecs
    BY <1>0, <2>0 DEF FailsAs
  <2>7. WireOK' /\ TalkOK' /\ PipesOK' /\ ReadOK'
    BY <2>0, <2>2, <2>4, <2>6, PartsKept DEF FailsAs
  <2> QED BY <2>5, <2>7 DEF WireRecsOK
<1>4. CASE HearHeaders(i)
  <2> DEFINE p == [posts[i] EXCEPT !.pc = "body"]
  <2>1. p \in PostRecs /\ p.id = posts[i].id
    BY <1>0 DEF PostRecs, PostPCs
  <2>2. PICK gave \in BOOLEAN : wire' = [wire EXCEPT !.session = @ \/ gave, !.given = @ \/ gave]
    BY <1>4 DEF HearHeaders
  <2>3. wire' \in WireRecs /\ SameIds
    <3>1. (wire.session \/ gave) \in BOOLEAN /\ (wire.given \/ gave) \in BOOLEAN
      OBVIOUS
    <3> QED BY <1>0, <2>2 DEF WireRecs, SameIds
  <2>4. SetPost(i, p)
    BY <1>4 DEF HearHeaders
  <2> HIDE DEF p
  <2>5. PostsOK'
    BY <1>1, <2>1, <2>3, <2>4
  <2>6. WireOK' /\ TalkOK' /\ PipesOK' /\ ReadOK'
    BY <1>4, <2>3, PartsKept DEF HearHeaders
  <2> QED BY <2>5, <2>6 DEF WireRecsOK
<1>5. CASE HearBody(i)
  <2>1. PICK line \in ({"answer"} \X seen) \cup {<<"request", 0>>} :
          SetPost(i, Handled(posts[i], line)) /\ ClaimFor(line)
    BY <1>5 DEF HearBody
  <2> DEFINE p == Handled(posts[i], line)
  <2>2. HeardLine(posts[i], p)
    BY <2>1, LineIsHeard
  <2>3. SetPost(i, p)
    BY <2>1
  <2> HIDE DEF p
  <2>4. p \in PostRecs /\ p.id = posts[i].id /\ pending' \subseteq pending
    BY <1>0, <2>2, HeardTyped
  <2>5. SameIds
    BY <1>5 DEF HearBody, SameIds
  <2>6. PostsOK'
    BY <1>1, <2>3, <2>4, <2>5
  <2>7. lines' \in 0..MaxLines
    BY <1>0, <1>5, WireNumbers DEF HearBody, WireOK
  <2>8. WireOK'
    BY <1>0, <1>5, <2>4, <2>7 DEF HearBody, WireOK
  <2>9. TalkOK' /\ PipesOK' /\ ReadOK'
    BY <1>5, <2>5, PartsKept DEF HearBody
  <2> QED BY <2>6, <2>8, <2>9 DEF WireRecsOK
<1>6. CASE PostEnds(i)
  <2> DEFINE p == [posts[i] EXCEPT !.pc = "over"]
  <2>1. p \in PostRecs /\ p.id = posts[i].id
    BY <1>0 DEF PostRecs, PostPCs
  <2>2. SetPost(i, p) /\ SameIds /\ wire' \in WireRecs
    BY <1>0, <1>6 DEF PostEnds, SameIds
  <2> HIDE DEF p
  <2>3. PostsOK'
    BY <1>1, <2>1, <2>2
  <2>4. WireOK' /\ TalkOK' /\ PipesOK' /\ ReadOK'
    BY <1>6, <2>2, PartsKept DEF PostEnds
  <2> QED BY <2>3, <2>4 DEF WireRecsOK
<1>7. CASE PostHands(i)
  <2> DEFINE c == IF Len(posts[i].told) = 2 THEN "over" ELSE "body"
             n == posts[i].told[1]
             v == posts[i].told[Len(posts[i].told)]
             p == [posts[i] EXCEPT !.pc = c, !.told = <<>>]
  <2>1. p \in PostRecs /\ p.id = posts[i].id
    <3>1. c \in PostPCs /\ <<>> \in Seq(Nat)
      BY EmptySeq DEF PostPCs
    <3> HIDE DEF c
    <3> QED BY <1>0, <3>1 DEF PostRecs
  <2>2. SetPost(i, p) /\ SameIds /\ wire' \in WireRecs
    BY <1>0, <1>7 DEF PostHands, SameIds
  <2>3. n \in Ids /\ v \in {0, n} /\ Fits(n) /\ Put(n, v)
    <3>1. posts[i].pc = "handing" /\ Fits(n) /\ Put(n, v)
      BY <1>7 DEF PostHands
    <3>2. n \in 1..wire.nextId /\ v \in {0, n}
      BY <3>1 DEF PostsFit, PostFits, Claimed
    <3>3. wire.nextId \in 0..MaxIds
      BY WireSeen
    <3> QED BY <3>1, <3>2, <3>3, WireNumbers DEF Ids
  <2> HIDE DEF p, n, v
  <2>4. slot' \in [Ids -> Seq(Nat)]
    BY <2>3, PutFits
  <2>5. PostsOK'
    BY <1>1, <2>1, <2>2
  <2>6. ReadOK'
    BY <1>0, <1>7, <2>4 DEF PostHands, ReadOK
  <2>7. WireOK' /\ TalkOK' /\ PipesOK'
    BY <1>7, <2>2, PartsKept DEF PostHands
  <2> QED BY <2>5, <2>6, <2>7 DEF WireRecsOK
<1>8. CASE PostRefuses(i)
  <2> DEFINE p == [posts[i] EXCEPT !.pc = "body"]  s == [posts EXCEPT ![i] = p]  n == NewPost("refusal", 0)
  <2>1. p \in PostRecs /\ p.id = posts[i].id
    BY <1>0 DEF PostRecs, PostPCs
  <2>2. SameIds /\ wire' \in WireRecs
    BY <1>0, <1>8 DEF PostRefuses, SameIds
  <2>3. n \in PostRecs /\ n.id = 0
    BY NewIsPost DEF Messages
  <2>4. \/ SetPost(i, p)
        \/ posts' = Append(s, n) /\ Len(posts) < MaxPosts[wire.kind]
    BY <1>8 DEF PostRefuses
  <2> HIDE DEF p, n
  <2>5. PostsOK'
    <3>1. CASE SetPost(i, p)
      BY <1>1, <2>1, <2>2, <3>1
    <3>2. CASE posts' = Append(s, n) /\ Len(posts) < MaxPosts[wire.kind]
      <4>1. /\ s \in Seq(PostRecs) /\ Len(s) = Len(posts)
            /\ \A j \in 1..Len(posts) : s[j] = IF j = i THEN p ELSE posts[j]
        BY <1>0, <2>1, ExceptSeq DEF PostsOK
      <4> HIDE DEF s
      <4>2. /\ posts' \in Seq(PostRecs) /\ Len(posts') = Len(posts) + 1
            /\ posts'[Len(posts) + 1] = n /\ \A j \in 1..Len(posts) : posts'[j] = s[j]
        <5>1. /\ Append(s, n) \in Seq(PostRecs) /\ Len(Append(s, n)) = Len(s) + 1
              /\ Append(s, n)[Len(s) + 1] = n /\ \A j \in 1..Len(s) : Append(s, n)[j] = s[j]
          BY <2>3, <4>1, AddIsAdded
        <5>2. posts' = Append(s, n)
          BY <3>2
        <5> HIDE DEF s
        <5> QED BY <4>1, <5>1, <5>2
      <4>3. Len(posts') <= MaxPosts[wire.kind]
        <5>1. MaxPosts[wire.kind] \in Nat
          BY WireSeen, WireNumbers
        <5> QED BY <1>0, <3>2, <4>2, <5>1
      <4>4. ASSUME NEW j \in 1..Len(posts') PROVE posts'[j].id <= wire.nextId
        <5>1. CASE j \in 1..Len(posts)
          <6>1. posts'[j].id = posts[j].id
            BY <2>1, <4>1, <4>2, <5>1
          <6> QED BY <1>0, <5>1, <6>1 DEF PostsOK
        <5>2. CASE j = Len(posts) + 1
          BY <1>0, <2>3, <4>2, <5>2
        <5> QED BY <1>0, <4>2, <5>1, <5>2
      <4> QED BY <2>2, <4>2, <4>3, <4>4 DEF PostsOK, SameIds
    <3> QED BY <2>4, <3>1, <3>2
  <2>6. WireOK' /\ TalkOK' /\ PipesOK' /\ ReadOK'
    BY <1>8, <2>2, PartsKept DEF PostRefuses
  <2> QED BY <2>5, <2>6 DEF WireRecsOK
<1> QED BY <1>2, <1>3, <1>4, <1>5, <1>6, <1>7, <1>8

\* The dialling, the reader and the server.
LEMMA RestTyped ==
    ASSUME WireRecsOK, SlotsFit, ReaderFits,
           \/ NameEndpoint \/ Greet \/ ReadLine \/ ReaderHands \/ ReaderRefuses \/ ReaderEnds
           \/ ServerReads \/ ServerSays \/ ServerGoes \/ CloseConn \/ EndLife \/ ConnClosed
    PROVE  WireRecsOK'
<1>0. /\ wire \in WireRecs /\ wire.nextId \in Nat /\ reader \in ReadRecs
      /\ WireOK /\ TalkOK /\ PostsOK /\ PipesOK /\ ReadOK /\ Len(posts) \in Nat
      /\ pending \subseteq 1..wire.nextId /\ seen \subseteq 1..wire.nextId
      /\ Len(toChild) \in Nat /\ Len(fromServer) \in Nat
  BY WireSeen, LenProperties DEF WireRecsOK, WireOK, ReadOK, PipesOK
<1>1. CASE NameEndpoint \/ CloseConn
  <2>1. wire' \in WireRecs /\ SameIds
    BY <1>0, <1>1 DEF NameEndpoint, CloseConn, Stage, WireRecs, SameIds, Stages
  <2> QED BY <1>1, <2>1, PartsKept DEF NameEndpoint, CloseConn, WireRecsOK
<1>2. CASE Greet
  <2>1. wire' \in WireRecs /\ SameIds
    BY <1>0, <1>2 DEF Greet, Stage, WireRecs, SameIds, Stages
  <2>2. TalkOK'
    <3>1. <<0>> \in Seq(Nat) /\ <<1>> \in Seq(Nat) /\ "dial" \in Callers \cup {"dial"}
      OBVIOUS
    <3>2. Rest("dial", <<1>>) \/ Rest("dial", <<0>>)
      BY <1>2 DEF Greet
    <3> QED BY <2>1, <3>1, <3>2, RestMoves, PartsKept
  <2>3. WireOK' /\ ReadOK' /\ fromServer' = fromServer
    BY <1>2, <2>1, PartsKept DEF Greet
  <2>4. PostsOK' /\ PipesOK'
    <3>1. "initialized" \in Messages /\ 0 \in 0..wire.nextId
      BY <1>0 DEF Messages
    <3>2. Send("initialized", 0) \/ CannotSend
      BY <1>2 DEF Greet
    <3>3. NewPost("initialized", 0).id <= wire.nextId
      BY <1>0, <3>1, NewIsPost
    <3>4. PipesOK'
      BY <1>0, <2>1, <2>3, <3>1, <3>2, SendCases DEF PipesOK, SameIds
    <3> QED BY <1>0, <2>1, <3>1, <3>2, <3>3, <3>4, SendCases, PartsKept
  <2> QED BY <2>2, <2>3, <2>4 DEF WireRecsOK
<1>3. CASE ReadLine
  <2>1. fromServer # <<>> /\ fromServer' = Tail(fromServer) /\ reader' = Handled(reader, fromServer[1])
        /\ ClaimFor(fromServer[1])
    BY <1>3 DEF ReadLine
  <2>2. reader' \in ReadRecs /\ pending' \subseteq pending
    BY <1>0, <2>1, LineIsHeard, HeardTyped
  <2>3. SameIds /\ wire' = wire
    BY <1>3 DEF ReadLine, SameIds
  <2>4. fromServer' \in Seq(WireLines) /\ Len(fromServer') <= PipeRoom
    <3>1. fromServer' \in Seq(WireLines) /\ Len(fromServer') = Len(fromServer) - 1
      BY <1>0, <2>1, HeadTailProperties DEF PipesOK
    <3> QED BY <1>0, <3>1, WireNumbers DEF PipesOK
  <2>5. PipesOK' /\ ReadOK'
    BY <1>0, <1>3, <2>2, <2>4 DEF ReadLine, PipesOK, ReadOK
  <2>6. WireOK' /\ TalkOK' /\ PostsOK'
    BY <1>3, <2>2, <2>3, PartsKept DEF ReadLine
  <2> QED BY <2>5, <2>6 DEF WireRecsOK
<1>4. CASE ReaderHands
  <2> DEFINE n == reader.told[1]
  <2>1. n \in Ids /\ Fits(n) /\ Put(n, n)
    <3>1. reader.pc = "handing" /\ Fits(n) /\ Put(n, n)
      BY <1>4 DEF ReaderHands
    <3>2. n \in 1..wire.nextId
      BY <3>1 DEF ReaderFits, Claimed
    <3>3. wire.nextId \in 0..MaxIds
      BY WireSeen
    <3> QED BY <3>1, <3>2, <3>3, WireNumbers DEF Ids
  <2> HIDE DEF n
  <2>2. slot' \in [Ids -> Seq(Nat)]
    BY <2>1, PutFits
  <2>3. reader' \in ReadRecs
    <3>1. <<>> \in Seq(Nat)
      BY EmptySeq
    <3> QED BY <1>0, <1>4, <3>1 DEF ReaderHands, ReadRecs
  <2>4. SameIds /\ wire' = wire
    BY <1>4 DEF ReaderHands, SameIds
  <2>5. WireOK' /\ TalkOK' /\ PostsOK' /\ PipesOK'
    BY <1>4, <2>4, PartsKept DEF ReaderHands
  <2> QED BY <2>2, <2>3, <2>5 DEF WireRecsOK, ReadOK
<1>5. CASE ReaderRefuses
  <2>1. SameIds /\ wire' = wire
    BY <1>5 DEF ReaderRefuses, SameIds
  <2>2. WireOK' /\ TalkOK' /\ fromServer' = fromServer
    BY <1>5, <2>1, PartsKept DEF ReaderRefuses
  <2>3. ReadOK'
    BY <1>0, <1>5 DEF ReaderRefuses, ReadOK, ReadRecs
  <2>4. PostsOK' /\ PipesOK'
    <3>1. "refusal" \in Messages /\ 0 \in 0..wire.nextId
      BY <1>0 DEF Messages
    <3>2. Send("refusal", 0) \/ CannotSend
      BY <1>5 DEF ReaderRefuses
    <3>3. NewPost("refusal", 0).id <= wire.nextId
      BY <1>0, <3>1, NewIsPost
    <3>4. PipesOK'
      BY <1>0, <2>1, <2>2, <3>1, <3>2, SendCases DEF PipesOK, SameIds
    <3> QED BY <1>0, <2>1, <3>1, <3>2, <3>3, <3>4, SendCases, PartsKept
  <2> QED BY <2>2, <2>3, <2>4 DEF WireRecsOK
<1>6. CASE ReaderEnds
  <2>1. wire' \in WireRecs /\ SameIds /\ pending' \subseteq pending
    BY <1>0, <1>6 DEF ReaderEnds, WireRecs, SameIds
  <2>2. ReadOK'
    BY <1>0, <1>6 DEF ReaderEnds, ReadOK, ReadRecs
  <2>3. WireOK' /\ TalkOK' /\ PostsOK' /\ PipesOK'
    BY <1>6, <2>1, PartsKept DEF ReaderEnds
  <2> QED BY <2>2, <2>3 DEF WireRecsOK
<1>7. CASE ServerReads
  <2>1. toChild # <<>> /\ toChild' = Tail(toChild) /\ seen' = seen \cup ({toChild[1][2]} \ {0})
    BY <1>7 DEF ServerReads
  <2>2. /\ toChild' \in Seq(WireLines) /\ Len(toChild') = Len(toChild) - 1 /\ Len(toChild) > 0
        /\ \A j \in 1..Len(toChild') : toChild'[j] = toChild[j + 1]
    BY <1>0, <2>1, HeadTailProperties, EmptySeq DEF PipesOK
  <2>3. toChild[1][2] \in 0..wire.nextId
    <3>1. toChild[1] \in WireLines /\ toChild[1][2] <= wire.nextId
      BY <1>0, <2>2, ElementOfSeq DEF PipesOK
    <3>2. toChild[1][2] \in Nat
      BY <3>1 DEF WireLines
    <3> QED BY <1>0, <3>1, <3>2
  <2>4. wire' = wire /\ SameIds
    BY <1>7 DEF ServerReads, SameIds
  <2>5. PipesOK'
    <3>1. Len(toChild') <= PipeRoom
      BY <1>0, <2>2, WireNumbers DEF PipesOK
    <3>2. ASSUME NEW j \in 1..Len(toChild') PROVE toChild'[j][2] <= wire.nextId
      <4>1. j + 1 \in 1..Len(toChild)
        BY <1>0, <2>2
      <4>2. toChild[j + 1][2] <= wire.nextId
        BY <1>0, <4>1 DEF PipesOK
      <4> QED BY <2>2, <4>2
    <3> QED BY <1>0, <1>7, <2>2, <2>4, <3>1, <3>2 DEF ServerReads, PipesOK
  <2>6. WireOK'
    <3> DEFINE m == toChild[1][2]
    <3> HIDE DEF m
    <3>1. m \in 0..wire.nextId /\ seen' = seen \cup ({m} \ {0})
      BY <2>1, <2>3 DEF m
    <3>2. seen' \subseteq 1..wire.nextId
      BY <1>0, <3>1
    <3> QED BY <1>0, <1>7, <2>4, <3>2 DEF ServerReads, WireOK
  <2>7. TalkOK' /\ PostsOK' /\ ReadOK'
    BY <1>7, <2>4, PartsKept DEF ServerReads
  <2> QED BY <2>5, <2>6, <2>7 DEF WireRecsOK
<1>8. CASE ServerSays
  <2>1. PICK line \in ({"answer"} \X seen) \cup {<<"note", 0>>, <<"request", 0>>} :
          fromServer' = Append(fromServer, line)
    BY <1>8 DEF ServerSays
  <2>2. line \in WireLines
    <3>1. CASE line \in {"answer"} \X seen
      <4>1. PICK k \in seen : line = <<"answer", k>>
        BY <3>1
      <4>2. k \in Nat
        BY <1>0
      <4> QED BY <4>1, <4>2 DEF WireLines
    <3>2. CASE line \in {<<"note", 0>>, <<"request", 0>>}
      BY <3>2 DEF WireLines
    <3> QED BY <2>1, <3>1, <3>2
  <2>3. fromServer' \in Seq(WireLines) /\ Len(fromServer') = Len(fromServer) + 1
    BY <1>0, <2>1, <2>2, AppendProperties DEF PipesOK
  <2>4. wire' = wire /\ SameIds /\ Len(fromServer) < PipeRoom
    BY <1>8 DEF ServerSays, SameIds
  <2>5. PipesOK'
    <3>1. Len(fromServer') <= PipeRoom
      BY <1>0, <2>3, <2>4, WireNumbers
    <3> QED BY <1>0, <1>8, <2>3, <2>4, <3>1 DEF ServerSays, PipesOK
  <2>6. WireOK'
    <3>1. lines' \in 0..MaxLines
      BY <1>0, <1>8, WireNumbers DEF ServerSays, WireOK
    <3> QED BY <1>0, <1>8, <2>4, <3>1 DEF ServerSays, WireOK
  <2>7. TalkOK' /\ PostsOK' /\ ReadOK'
    BY <1>8, <2>4, PartsKept DEF ServerSays
  <2> QED BY <2>5, <2>6, <2>7 DEF WireRecsOK
<1>9. CASE ServerGoes \/ EndLife
  <2>1. wire' \in WireRecs /\ SameIds /\ toChild' = <<>>
    BY <1>0, <1>9 DEF ServerGoes, EndLife, WireRecs, SameIds
  <2>2. PipesOK'
    <3>1. <<>> \in Seq(WireLines) /\ Len(<<>>) = 0
      BY EmptySeq
    <3> QED BY <1>0, <1>9, <2>1, <3>1, WireNumbers DEF ServerGoes, EndLife, PipesOK
  <2>3. WireOK' /\ TalkOK' /\ PostsOK' /\ ReadOK'
    BY <1>9, <2>1, PartsKept DEF ServerGoes, EndLife
  <2> QED BY <2>2, <2>3 DEF WireRecsOK
<1>10. CASE ConnClosed
  <2>1. wire' \in WireRecs /\ SameIds /\ pending' \subseteq pending
    BY <1>0, <1>10 DEF ConnClosed, Stage, WireRecs, SameIds, Stages
  <2> QED BY <1>10, <2>1, PartsKept DEF ConnClosed, WireRecsOK
<1> QED BY <1>1, <1>2, <1>3, <1>4, <1>5, <1>6, <1>7, <1>8, <1>9, <1>10

LEMMA StillTyped ==
    ASSUME WireRecsOK, UNCHANGED wireVars
    PROVE  WireRecsOK'
BY DEF WireRecsOK, WireOK, TalkOK, PostsOK, PipesOK, ReadOK, wireVars

Claims == SlotsFit /\ ReaderFits /\ PostsFit /\ ClaimsApart

\* A goroutine hands what it handed before, or nothing.
HandsNoMore(g, h) == h = g \/ h.pc # "handing"
PostsHandNoMore ==
    \A i \in 1..Len(posts') : posts'[i].pc = "handing" => i \in 1..Len(posts) /\ posts'[i] = posts[i]

\* Nobody takes an answer, and no channel changes.
LEMMA ClaimsLeft ==
    ASSUME WireRecsOK, Claims, wire'.nextId = wire.nextId, pending' \subseteq pending, slot' = slot,
           HandsNoMore(reader, reader'), PostsHandNoMore
    PROVE  Claims'
<1> USE DEF Claims
<1>1. SlotsFit'
  BY DEF SlotsFit
<1>2. \A n : Claimed(n) => Claimed(n)'
  BY DEF Claimed
<1>3. reader'.pc = "handing" => reader' = reader
  BY DEF HandsNoMore
<1>4. ReaderFits'
  BY <1>2, <1>3 DEF ReaderFits
<1>5. ASSUME NEW i \in 1..Len(posts'), posts'[i].pc = "handing" PROVE PostFits(posts[i])'
  <2>1. i \in 1..Len(posts) /\ posts'[i] = posts[i]
    BY <1>5 DEF PostsHandNoMore
  <2> QED BY <1>2, <1>5, <2>1 DEF PostsFit, PostFits
<1>6. PostsFit'
  BY <1>5 DEF PostsFit, PostFits
<1>7. ClaimsApart'
  <2>1. \A i \in 1..Len(posts') : Handing(i)' => i \in 1..Len(posts) /\ Handing(i) /\ posts'[i] = posts[i]
    BY DEF PostsHandNoMore, Handing
  <2> QED BY <1>3, <2>1 DEF ClaimsApart
<1> QED BY <1>1, <1>4, <1>6, <1>7

\* A new id is nobody's yet, and its channel is empty.
LEMMA ClaimsBegun ==
    ASSUME WireRecsOK, Claims, wire'.nextId = wire.nextId + 1, pending' = pending \cup {wire.nextId + 1},
           slot' = slot, reader' = reader, posts' = posts
    PROVE  Claims'
<1> USE DEF Claims
<1>0. wire.nextId \in Nat /\ Ids = 1..MaxIds /\ MaxIds \in Nat
  BY WireSeen, WireNumbers
<1>1. SlotsFit'
  BY <1>0 DEF SlotsFit
<1>2. \A n : Claimed(n) => Claimed(n)'
  BY <1>0 DEF Claimed
<1>3. ReaderFits' /\ PostsFit'
  BY <1>2 DEF ReaderFits, PostsFit, PostFits
<1>4. ClaimsApart'
  BY DEF ClaimsApart, Handing
<1> QED BY <1>1, <1>3, <1>4

\* A caller empties its channel.
LEMMA ClaimsHeard ==
    ASSUME WireRecsOK, Claims, wire'.nextId = wire.nextId, pending' = pending, reader' = reader, posts' = posts,
           NEW n \in Ids, slot'[n] = <<>>, \A m \in Ids : m # n => slot'[m] = slot[m]
    PROVE  Claims'
<1> USE DEF Claims
<1>1. SlotsFit'
  BY DEF SlotsFit
<1>2. ASSUME NEW m, Claimed(m) PROVE Claimed(m)'
  <2>1. m \in Ids
    BY <1>2, WireSeen, WireNumbers DEF Claimed
  <2> QED BY <1>2, <2>1 DEF Claimed
<1>3. ReaderFits' /\ PostsFit'
  BY <1>2 DEF ReaderFits, PostsFit, PostFits
<1>4. ClaimsApart'
  BY DEF ClaimsApart, Handing
<1> QED BY <1>1, <1>3, <1>4

\* An id is taken out of the table, and its channel is still empty.
LEMMA TakenIsClaimed ==
    ASSUME WireRecsOK, Claims, wire'.nextId = wire.nextId, slot' = slot, NEW n \in pending, pending' = pending \ {n}
    PROVE  SlotsFit' /\ Claimed(n)' /\ ~Claimed(n) /\ \A m : Claimed(m) => Claimed(m)'
<1> USE DEF Claims
<1>1. n \in 1..wire.nextId /\ n \in Ids
  <2>1. n \in 1..wire.nextId /\ wire.nextId \in 0..MaxIds
    BY WireSeen DEF WireRecsOK, WireOK
  <2> QED BY <2>1, WireNumbers DEF Ids
<1>2. SlotsFit'
  BY DEF SlotsFit
<1>3. slot[n] = <<>>
  BY <1>1 DEF SlotsFit
<1> QED BY <1>1, <1>2, <1>3 DEF Claimed

LEMMA ReaderTakes ==
    ASSUME WireRecsOK, Claims, wire'.nextId = wire.nextId, slot' = slot, posts' = posts,
           NEW n \in pending, pending' = pending \ {n}, reader'.told = <<n>>
    PROVE  Claims'
<1> USE DEF Claims
<1>1. SlotsFit' /\ Claimed(n)' /\ ~Claimed(n) /\ \A m : Claimed(m) => Claimed(m)'
  BY TakenIsClaimed
<1>2. ReaderFits'
  <2>1. Len(reader'.told) = 1 /\ reader'.told[1] = n
    OBVIOUS
  <2> QED BY <1>1, <2>1 DEF ReaderFits
<1>3. PostsFit'
  BY <1>1 DEF PostsFit, PostFits
<1>4. \A i \in 1..Len(posts) : Handing(i) => posts[i].told[1] # n
  BY <1>1 DEF PostsFit, PostFits, Handing
<1>5. reader'.told[1] = n
  OBVIOUS
<1>6. ClaimsApart'
  BY <1>4, <1>5 DEF ClaimsApart, Handing
<1> QED BY <1>1, <1>2, <1>3, <1>6

LEMMA PostTakes ==
    ASSUME WireRecsOK, Claims, wire'.nextId = wire.nextId, slot' = slot, reader' = reader,
           NEW n \in pending, pending' = pending \ {n}, NEW i, NEW p, PostSet(i, p),
           p.told \in {<<n>>, <<n, 0>>}
    PROVE  Claims'
<1> USE DEF Claims
<1>1. SlotsFit' /\ Claimed(n)' /\ ~Claimed(n) /\ \A m : Claimed(m) => Claimed(m)'
  BY TakenIsClaimed
<1>2. Len(p.told) \in {1, 2} /\ p.told[1] = n /\ p.told[Len(p.told)] \in {0, n}
  OBVIOUS
<1>3. /\ i \in 1..Len(posts) /\ Len(posts') = Len(posts) /\ posts'[i] = p
      /\ \A j \in 1..Len(posts) : j # i => posts'[j] = posts[j]
  BY DEF PostSet
<1>4. ReaderFits'
  BY <1>1 DEF ReaderFits
<1>5. PostsFit'
  <2>1. PostFits(posts[i])'
    BY <1>1, <1>2, <1>3 DEF PostFits
  <2>2. ASSUME NEW j \in 1..Len(posts), j # i PROVE PostFits(posts[j])'
    BY <1>1, <1>3, <2>2 DEF PostsFit, PostFits
  <2> QED BY <1>3, <2>1, <2>2 DEF PostsFit
<1>6. /\ \A j \in 1..Len(posts) : Handing(j) => posts[j].told[1] # n
      /\ reader.pc = "handing" => reader.told[1] # n
  BY <1>1 DEF PostsFit, PostFits, Handing, ReaderFits
<1>7. ClaimsApart'
  BY <1>2, <1>3, <1>6 DEF ClaimsApart, Handing
<1> QED BY <1>1, <1>4, <1>5, <1>7

\* What was taken goes into its channel: its goroutine has nothing to hand any more, and
\* what the others took is still theirs.
LEMMA ClaimsHanded ==
    ASSUME WireRecsOK, Claims, wire'.nextId = wire.nextId, pending' = pending,
           NEW n, Claimed(n), NEW told \in {0, n}, slot'[n] = <<told>>, \A m \in Ids : m # n => slot'[m] = slot[m]
    PROVE  SlotsFit' /\ \A m : Claimed(m) /\ m # n => Claimed(m)'
<1> USE DEF Claims
<1>1. wire.nextId \in 0..MaxIds /\ n \in 1..wire.nextId /\ n \notin pending
  BY WireSeen DEF Claimed
<1>2. Ids = 1..MaxIds /\ MaxIds \in Nat
  BY WireNumbers DEF Ids
<1>3. ASSUME NEW m, Claimed(m), m # n PROVE Claimed(m)'
  <2>1. m \in 1..wire.nextId /\ m \in Ids
    BY <1>1, <1>2, <1>3 DEF Claimed
  <2> QED BY <1>3, <2>1 DEF Claimed
<1>4. ASSUME NEW m \in Ids
      PROVE  /\ slot'[m] \in {<<>>, <<0>>, <<m>>}
             /\ m \in pending' \/ m > wire'.nextId => slot'[m] = <<>>
  <2>1. CASE m = n
    <3>1. m \notin pending' /\ ~(m > wire'.nextId)
      BY <1>1, <2>1
    <3> QED BY <2>1, <3>1
  <2>2. CASE m # n
    BY <2>2 DEF SlotsFit
  <2> QED BY <2>1, <2>2
<1>5. SlotsFit'
  BY <1>4 DEF SlotsFit
<1> QED BY <1>3, <1>5

LEMMA ReaderHanded ==
    ASSUME WireRecsOK, Claims, ReaderHands
    PROVE  Claims'
<1> USE DEF Claims
<1> DEFINE n == reader.told[1]
<1>1. /\ reader.pc = "handing" /\ Fits(n) /\ Put(n, n) /\ reader'.pc = "reading" /\ posts' = posts
      /\ wire' = wire /\ pending' = pending
  BY DEF ReaderHands, WireRecsOK, ReadOK, ReadRecs
<1>2. Claimed(n)
  BY <1>1 DEF ReaderFits
<1>3. n \in Ids
  <2>1. n \in 1..wire.nextId /\ wire.nextId \in 0..MaxIds
    BY <1>2, WireSeen DEF Claimed
  <2> QED BY <2>1, WireNumbers DEF Ids
<1>4. \A i \in 1..Len(posts) : Handing(i) => posts[i].told[1] # n
  BY <1>1 DEF ClaimsApart
<1> HIDE DEF n
<1>5. slot'[n] = <<n>> /\ \A m \in Ids : m # n => slot'[m] = slot[m]
  BY <1>1, <1>3, PutFits
<1>6. SlotsFit' /\ \A m : Claimed(m) /\ m # n => Claimed(m)'
  BY <1>1, <1>2, <1>5, ClaimsHanded
<1>7. PostsFit'
  BY <1>1, <1>4, <1>6 DEF PostsFit, PostFits, Handing
<1>8. ReaderFits' /\ ClaimsApart'
  BY <1>1 DEF ReaderFits, ClaimsApart, Handing
<1> QED BY <1>6, <1>7, <1>8

LEMMA PostHanded ==
    ASSUME WireRecsOK, Claims, NEW i \in 1..Len(posts), PostHands(i)
    PROVE  Claims'
<1> USE DEF Claims
<1> DEFINE n == posts[i].told[1]
           v == posts[i].told[Len(posts[i].told)]
           c == IF Len(posts[i].told) = 2 THEN "over" ELSE "body"
           p == [posts[i] EXCEPT !.pc = c, !.told = <<>>]
<1>0. posts[i] \in PostRecs
  BY WireSeen
<1>1. /\ posts[i].pc = "handing" /\ Fits(n) /\ Put(n, v) /\ SetPost(i, p) /\ reader' = reader
      /\ wire' = wire /\ pending' = pending
  BY DEF PostHands
<1>2. p \in PostRecs /\ p.pc # "handing"
  <2>1. c \in PostPCs /\ c # "handing" /\ <<>> \in Seq(Nat)
    BY EmptySeq DEF PostPCs
  <2> HIDE DEF c
  <2> QED BY <1>0, <2>1 DEF PostRecs
<1>3. Claimed(n) /\ v \in {0, n}
  BY <1>1 DEF PostsFit, PostFits
<1>4. n \in Ids
  <2>1. n \in 1..wire.nextId /\ wire.nextId \in 0..MaxIds
    BY <1>3, WireSeen DEF Claimed
  <2> QED BY <2>1, WireNumbers DEF Ids
<1>5. /\ \A j \in 1..Len(posts) : Handing(j) /\ j # i => posts[j].told[1] # n
      /\ reader.pc = "handing" => reader.told[1] # n
  BY <1>1 DEF ClaimsApart, Handing
<1> HIDE DEF n, v, p
<1>6. PostSet(i, p)
  BY <1>1, <1>2, SetIsSet
<1>7. /\ Len(posts') = Len(posts) /\ posts'[i] = p
      /\ \A j \in 1..Len(posts) : j # i => posts'[j] = posts[j]
  BY <1>6 DEF PostSet
<1>8. slot'[n] = <<v>> /\ \A m \in Ids : m # n => slot'[m] = slot[m]
  BY <1>1, <1>3, <1>4, PutFits
<1>9. SlotsFit' /\ \A m : Claimed(m) /\ m # n => Claimed(m)'
  BY <1>1, <1>3, <1>8, ClaimsHanded
<1>10. PostsFit'
  <2>1. ASSUME NEW j \in 1..Len(posts), posts'[j].pc = "handing" PROVE PostFits(posts[j])'
    <3>1. j # i /\ posts'[j] = posts[j]
      BY <1>2, <1>7, <2>1
    <3>2. posts[j].told[1] # n
      BY <1>5, <2>1, <3>1 DEF Handing
    <3> QED BY <1>9, <2>1, <3>1, <3>2 DEF PostsFit, PostFits
  <2> QED BY <1>7, <2>1 DEF PostsFit, PostFits
<1>11. ReaderFits'
  BY <1>1, <1>5, <1>9 DEF ReaderFits
<1>12. ClaimsApart'
  BY <1>1, <1>2, <1>7 DEF ClaimsApart, Handing
<1> QED BY <1>9, <1>10, <1>11, <1>12

LEMMA NobodyHandsMore ==
    ASSUME WireRecsOK
    PROVE  /\ posts' = posts => PostsHandNoMore
           /\ \A i, p : PostSet(i, p) /\ HandsNoMore(posts[i], p) => PostsHandNoMore
           /\ \A p : PostAdded(p) /\ p.pc = "queued" => PostsHandNoMore
<1>1. Len(posts) \in Nat
  BY WireSeen
<1>2. posts' = posts => PostsHandNoMore
  BY DEF PostsHandNoMore
<1>3. ASSUME NEW i, NEW p, PostSet(i, p), HandsNoMore(posts[i], p) PROVE PostsHandNoMore
  BY <1>3 DEF PostSet, HandsNoMore, PostsHandNoMore
<1>4. ASSUME NEW p, PostAdded(p), p.pc = "queued" PROVE PostsHandNoMore
  BY <1>1, <1>4 DEF PostAdded, PostsHandNoMore
<1> QED BY <1>2, <1>3, <1>4

LEMMA SendClaims ==
    ASSUME WireRecsOK, NEW what \in Messages, NEW id \in 0..wire.nextId, Send(what, id) \/ CannotSend
    PROVE  PostsHandNoMore
<1>1. id \in Nat
  BY WireSeen
<1>2. posts' = posts \/ PostAdded(NewPost(what, id))
  BY SendCases
<1> QED BY <1>1, <1>2, NewIsPost, NobodyHandsMore

LEMMA CallsClaims ==
    ASSUME WireRecsOK, Claims, CallersFit, NEW w \in Callers \cup {"dial"},
           \/ BeginCall(w) \/ WriteCall(w) \/ HearReply(w) \/ HearDeath(w) \/ GiveUp(w) \/ SendCancelled(w)
    PROVE  Claims'
<1> USE DEF WaitsAt
<1>0. wire \in WireRecs /\ wire.nextId \in Nat /\ caller[w].id \in 0..wire.nextId
  BY WireSeen DEF WireRecsOK, WireOK
<1>1. CASE BeginCall(w)
  <2>1. wire'.nextId = wire.nextId + 1
    BY <1>0, <1>1 DEF BeginCall, WireRecs
  <2> QED BY <1>1, <2>1, ClaimsBegun DEF BeginCall
<1>2. CASE WriteCall(w)
  <2>1. What(w) \in Messages
    BY DEF What, Messages
  <2>2. PostsHandNoMore
    BY <1>0, <1>2, <2>1, SendClaims DEF WriteCall
  <2>3. pending' \subseteq pending /\ wire'.nextId = wire.nextId /\ slot' = slot /\ reader' = reader
    BY <1>2 DEF WriteCall
  <2> QED BY <2>2, <2>3, ClaimsLeft DEF HandsNoMore
<1>3. CASE HearReply(w)
  <2> DEFINE n == caller[w].id
  <2>1. slot[n] # <<>> /\ slot' = [slot EXCEPT ![n] = Tail(@)] /\ caller[w].pc = "waiting"
    BY <1>3 DEF HearReply
  <2>2. n \in Ids
    <3>1. n \in 1..wire.nextId /\ wire.nextId \in 0..MaxIds
      BY <2>1, WireSeen DEF CallersFit
    <3> QED BY <3>1, WireNumbers DEF Ids
  <2>3. wire'.nextId = wire.nextId /\ pending' = pending /\ reader' = reader /\ posts' = posts
    BY <1>0, <1>3 DEF HearReply, WireRecs
  <2> HIDE DEF n
  <2>4. slot'[n] = <<>> /\ \A m \in Ids : m # n => slot'[m] = slot[m]
    BY <2>1, <2>2, TakeFits DEF Claims
  <2> QED BY <2>2, <2>3, <2>4, ClaimsHeard
<1>4. CASE HearDeath(w) \/ GiveUp(w)
  <2>1. PostsHandNoMore
    BY <1>4, NobodyHandsMore DEF HearDeath, GiveUp
  <2>2. pending' \subseteq pending /\ wire'.nextId = wire.nextId /\ slot' = slot /\ reader' = reader
    BY <1>4 DEF HearDeath, GiveUp
  <2> QED BY <2>1, <2>2, ClaimsLeft DEF HandsNoMore
<1>5. CASE SendCancelled(w)
  <2>1. "cancelled" \in Messages
    BY DEF Messages
  <2>2. PostsHandNoMore
    BY <1>0, <1>5, <2>1, SendClaims DEF SendCancelled
  <2>3. pending' \subseteq pending /\ wire'.nextId = wire.nextId /\ slot' = slot /\ reader' = reader
    BY <1>5 DEF SendCancelled
  <2> QED BY <2>2, <2>3, ClaimsLeft DEF HandsNoMore
<1> QED BY <1>1, <1>2, <1>3, <1>4, <1>5

LEMMA PostsClaims ==
    ASSUME WireRecsOK, Claims, NEW i \in 1..Len(posts),
           \/ BuildPost(i) \/ PostFails(i) \/ HearHeaders(i) \/ HearBody(i)
           \/ PostEnds(i) \/ PostHands(i) \/ PostRefuses(i)
    PROVE  Claims'
<1>0. wire \in WireRecs /\ posts[i] \in PostRecs /\ wire.nextId \in Nat /\ Len(posts) \in Nat
      /\ posts \in Seq(PostRecs)
  BY WireSeen DEF WireRecsOK, WireOK, PostsOK
<1>1. ASSUME NEW p \in PostRecs, p.pc # "handing", SetPost(i, p),
             wire'.nextId = wire.nextId, pending' = pending, slot' = slot, reader' = reader
      PROVE  Claims'
  <2>1. PostsHandNoMore
    BY <1>1, SetIsSet, NobodyHandsMore DEF HandsNoMore
  <2> QED BY <1>1, <2>1, ClaimsLeft DEF HandsNoMore
<1>2. CASE BuildPost(i)
  <2> DEFINE p == [posts[i] EXCEPT !.pc = "sent", !.carried = wire.session, !.mirrored = Mirrored(posts[i])]
  <2>1. wire.session \in BOOLEAN /\ Mirrored(posts[i]) \in BOOLEAN
    BY <1>0 DEF WireRecs, Mirrored
  <2>2. p \in PostRecs /\ p.pc = "sent"
    BY <1>0, <2>1 DEF PostRecs, PostPCs
  <2>3. SetPost(i, p) /\ wire' = wire /\ pending' = pending /\ slot' = slot /\ reader' = reader
    BY <1>2 DEF BuildPost
  <2> HIDE DEF p
  <2> QED BY <1>1, <2>2, <2>3
<1>3. CASE PostFails(i)
  <2>0. PICK id \in Nat, asked \in BOOLEAN : FailsAs(i, id, asked)
    BY <1>0, <1>3, FailIs DEF PostRecs
  <2> DEFINE t == IF asked THEN <<id, 0>> ELSE <<>>
             c == IF asked THEN "handing" ELSE "over"
             p == [posts[i] EXCEPT !.pc = c, !.told = t]
  <2>1. t \in Seq(Nat) /\ c \in PostPCs
    <3>1. <<id, 0>> \in Seq(Nat) /\ <<>> \in Seq(Nat)
      BY <1>0, EmptySeq DEF PostRecs
    <3> QED BY <3>1 DEF PostPCs
  <2>2. SetPost(i, p) /\ wire' = wire /\ slot' = slot /\ reader' = reader
    BY <2>0 DEF FailsAs
  <2>3. p \in PostRecs /\ p.pc = c /\ p.told = t
    <3> HIDE DEF t, c
    <3> QED BY <1>0, <2>1 DEF PostRecs
  <2>4. (pending' = IF asked THEN pending \ {id} ELSE pending) /\ (asked => id \in pending)
    BY <2>0 DEF FailsAs
  <2> HIDE DEF p
  <2>5. CASE asked
    <3>1. PostSet(i, p) /\ id \in pending /\ p.told = <<id, 0>> /\ pending' = pending \ {id}
      BY <2>2, <2>3, <2>4, <2>5, SetIsSet
    <3> QED BY <2>2, <3>1, PostTakes
  <2>6. CASE ~asked
    BY <1>1, <2>2, <2>3, <2>4, <2>6
  <2> QED BY <2>5, <2>6
<1>4. CASE HearHeaders(i)
  <2> DEFINE p == [posts[i] EXCEPT !.pc = "body"]
  <2>1. p \in PostRecs /\ p.pc = "body"
    BY <1>0 DEF PostRecs, PostPCs
  <2>2. SetPost(i, p) /\ pending' = pending /\ slot' = slot /\ reader' = reader
    BY <1>4 DEF HearHeaders
  <2>3. wire'.nextId = wire.nextId
    BY <1>0, <1>4 DEF HearHeaders, WireRecs
  <2> HIDE DEF p
  <2> QED BY <1>1, <2>1, <2>2, <2>3
<1>5. CASE HearBody(i)
  <2>1. PICK line \in ({"answer"} \X seen) \cup {<<"request", 0>>} :
          SetPost(i, Handled(posts[i], line)) /\ ClaimFor(line)
    BY <1>5 DEF HearBody
  <2> DEFINE p == Handled(posts[i], line)
  <2>2. HeardLine(posts[i], p) /\ SetPost(i, p)
    BY <2>1, LineIsHeard
  <2>3. wire'.nextId = wire.nextId /\ slot' = slot /\ reader' = reader
    BY <1>5 DEF HearBody
  <2> HIDE DEF p
  <2>4. p \in PostRecs
    BY <1>0, <2>2, HeardTyped
  <2>5. PostSet(i, p)
    BY <2>2, <2>4, SetIsSet
  <2>6. CASE p = posts[i] /\ pending' = pending
    <3>1. PostsHandNoMore
      BY <2>5, <2>6, NobodyHandsMore DEF HandsNoMore
    <3> QED BY <2>3, <2>6, <3>1, ClaimsLeft DEF HandsNoMore
  <2>7. CASE p = [posts[i] EXCEPT !.pc = "refusing"] /\ pending' = pending
    <3>1. p.pc = "refusing"
      BY <1>0, <2>7 DEF PostRecs
    <3> QED BY <1>1, <2>2, <2>3, <2>4, <2>7, <3>1
  <2>8. ASSUME NEW n \in pending, p = [posts[i] EXCEPT !.pc = "handing", !.told = <<n>>], pending' = pending \ {n}
        PROVE  Claims'
    <3> DEFINE t == <<n>>
    <3>1. p = [posts[i] EXCEPT !.pc = "handing", !.told = t]
      BY <2>8
    <3> HIDE DEF t
    <3>2. p.told = t
      BY <1>0, <3>1 DEF PostRecs
    <3>3. p.told = <<n>>
      BY <3>2 DEF t
    <3> QED BY <2>3, <2>5, <2>8, <3>3, PostTakes
  <2> QED BY <2>2, <2>6, <2>7, <2>8 DEF HeardLine
<1>6. CASE PostEnds(i)
  <2> DEFINE p == [posts[i] EXCEPT !.pc = "over"]
  <2>1. p \in PostRecs /\ p.pc = "over"
    BY <1>0 DEF PostRecs, PostPCs
  <2>2. SetPost(i, p) /\ wire' = wire /\ pending' = pending /\ slot' = slot /\ reader' = reader
    BY <1>6 DEF PostEnds
  <2> HIDE DEF p
  <2> QED BY <1>1, <2>1, <2>2
<1>7. CASE PostHands(i)
  BY <1>7, PostHanded
<1>8. CASE PostRefuses(i)
  <2> DEFINE p == [posts[i] EXCEPT !.pc = "body"]  s == [posts EXCEPT ![i] = p]  n == NewPost("refusal", 0)
  <2>1. p \in PostRecs /\ p.pc = "body"
    BY <1>0 DEF PostRecs, PostPCs
  <2>2. wire' = wire /\ pending' = pending /\ slot' = slot /\ reader' = reader
    BY <1>8 DEF PostRefuses
  <2>3. n \in PostRecs /\ n.pc = "queued"
    BY NewIsPost DEF Messages
  <2>4. SetPost(i, p) \/ posts' = Append(s, n)
    BY <1>8 DEF PostRefuses
  <2> HIDE DEF p, n
  <2>5. CASE SetPost(i, p)
    BY <1>1, <2>1, <2>2, <2>5
  <2>6. CASE posts' = Append(s, n)
    <3>1. /\ s \in Seq(PostRecs) /\ Len(s) = Len(posts)
          /\ \A j \in 1..Len(posts) : s[j] = IF j = i THEN p ELSE posts[j]
      BY <1>0, <2>1, ExceptSeq
    <3> HIDE DEF s
    <3>2. /\ Len(posts') = Len(posts) + 1
          /\ posts'[Len(posts) + 1] = n /\ \A j \in 1..Len(posts) : posts'[j] = s[j]
      BY <2>3, <2>6, <3>1, AddIsAdded
    <3>3. PostsHandNoMore
      BY <1>0, <2>1, <2>3, <3>1, <3>2 DEF PostsHandNoMore
    <3> QED BY <2>2, <3>3, ClaimsLeft DEF HandsNoMore
  <2> QED BY <2>4, <2>5, <2>6
<1> QED BY <1>2, <1>3, <1>4, <1>5, <1>6, <1>7, <1>8

LEMMA RestClaims ==
    ASSUME WireRecsOK, Claims,
           \/ NameEndpoint \/ Greet \/ ReadLine \/ ReaderHands \/ ReaderRefuses \/ ReaderEnds
           \/ ServerReads \/ ServerSays \/ ServerGoes \/ CloseConn \/ EndLife \/ ConnClosed
           \/ UNCHANGED wireVars
    PROVE  Claims'
<1>0. wire \in WireRecs /\ reader \in ReadRecs /\ wire.nextId \in Nat
  BY WireSeen DEF WireRecsOK, WireOK, ReadOK
<1>1. CASE \/ NameEndpoint \/ ServerReads \/ ServerSays \/ ServerGoes \/ CloseConn \/ EndLife \/ ConnClosed
           \/ UNCHANGED wireVars
  <2>1. wire'.nextId = wire.nextId
    BY <1>0, <1>1
       DEF NameEndpoint, ServerReads, ServerSays, ServerGoes, CloseConn, EndLife, ConnClosed, Stage, WireRecs, wireVars
  <2>2. posts' = posts /\ slot' = slot /\ reader' = reader /\ pending' \subseteq pending
    BY <1>0, <1>1
       DEF NameEndpoint, ServerReads, ServerSays, ServerGoes, CloseConn, EndLife, ConnClosed, wireVars
  <2>3. PostsHandNoMore
    BY <2>2, NobodyHandsMore
  <2> QED BY <2>1, <2>2, <2>3, ClaimsLeft DEF HandsNoMore
<1>2. CASE Greet
  <2>1. wire'.nextId = wire.nextId
    BY <1>0, <1>2 DEF Greet, Stage, WireRecs
  <2>2. "initialized" \in Messages /\ 0 \in 0..wire.nextId
    BY <1>0 DEF Messages
  <2>3. PostsHandNoMore
    BY <1>2, <2>2, SendClaims DEF Greet
  <2> QED BY <1>2, <2>1, <2>3, ClaimsLeft DEF Greet, HandsNoMore
<1>3. CASE ReadLine
  <2>1. HeardLine(reader, reader')
    BY <1>3, LineIsHeard DEF ReadLine
  <2>2. wire' = wire /\ slot' = slot /\ posts' = posts
    BY <1>3 DEF ReadLine
  <2>3. PostsHandNoMore
    BY <2>2, NobodyHandsMore
  <2>4. CASE reader' = reader /\ pending' = pending
    BY <2>2, <2>3, <2>4, ClaimsLeft DEF HandsNoMore
  <2>5. CASE reader' = [reader EXCEPT !.pc = "refusing"] /\ pending' = pending
    <3>1. reader'.pc # "handing"
      BY <1>0, <2>5 DEF ReadRecs
    <3> QED BY <2>2, <2>3, <2>5, <3>1, ClaimsLeft DEF HandsNoMore
  <2>6. ASSUME NEW n \in pending, reader' = [reader EXCEPT !.pc = "handing", !.told = <<n>>], pending' = pending \ {n}
        PROVE  Claims'
    <3> DEFINE t == <<n>>
    <3>1. reader' = [reader EXCEPT !.pc = "handing", !.told = t]
      BY <2>6
    <3> HIDE DEF t
    <3>2. reader'.told = t
      BY <1>0, <3>1 DEF ReadRecs
    <3>3. reader'.told = <<n>>
      BY <3>2 DEF t
    <3> QED BY <2>2, <2>6, <3>3, ReaderTakes
  <2> QED BY <2>1, <2>4, <2>5, <2>6 DEF HeardLine
<1>4. CASE ReaderHands
  BY <1>4, ReaderHanded
<1>5. CASE ReaderRefuses
  <2>1. "refusal" \in Messages /\ 0 \in 0..wire.nextId
    BY <1>0 DEF Messages
  <2>2. PostsHandNoMore
    BY <1>5, <2>1, SendClaims DEF ReaderRefuses
  <2>3. reader'.pc # "handing" /\ wire' = wire /\ pending' = pending /\ slot' = slot
    BY <1>0, <1>5 DEF ReaderRefuses, ReadRecs
  <2> QED BY <2>2, <2>3, ClaimsLeft DEF HandsNoMore
<1>6. CASE ReaderEnds
  <2>1. reader'.pc # "handing" /\ wire'.nextId = wire.nextId /\ pending' = {} /\ slot' = slot /\ posts' = posts
    BY <1>0, <1>6 DEF ReaderEnds, ReadRecs, WireRecs
  <2>2. PostsHandNoMore
    BY <2>1, NobodyHandsMore
  <2> QED BY <2>1, <2>2, ClaimsLeft DEF HandsNoMore
<1> QED BY <1>1, <1>2, <1>3, <1>4, <1>5, <1>6

\* Where the callers are and what they were told, by what a step does to them.
CallsFit == CallersFit /\ ToldItsOwn

\* Nothing, the word that the child died, or the answer to its own number.
ItsOwnNews(w) == {<<>>, <<0>>, <<caller[w].id>>}

LEMMA CallsFitKept ==
    ASSUME WireRecsOK, CallsFit, wire'.nextId = wire.nextId
    PROVE  /\ caller' = caller => CallsFit'
           /\ \A w, pc, told :
                 (/\ Moved(w, pc, told)
                  /\ pc \in {"writing", "waiting", "cancelling"} => caller[w].id \in 1..wire.nextId
                  /\ pc # "over" => told = <<>>
                  /\ w \in Callers => told \in ItsOwnNews(w)) => CallsFit'
<1>1. caller' = caller => CallsFit'
  BY DEF CallsFit, CallersFit, ToldItsOwn
<1>2. ASSUME NEW w, NEW pc, NEW told, Moved(w, pc, told),
             pc \in {"writing", "waiting", "cancelling"} => caller[w].id \in 1..wire.nextId,
             pc # "over" => told = <<>>,
             w \in Callers => told \in ItsOwnNews(w)
      PROVE  CallsFit'
  <2>1. CallersFit'
    <3>1. ASSUME NEW v \in Callers \cup {"dial"}
          PROVE  /\ caller'[v].pc \in {"writing", "waiting", "cancelling"} => caller'[v].id \in 1..wire'.nextId
                 /\ caller'[v].pc # "over" => caller'[v].told = <<>>
      <4>1. CASE v = w
        BY <1>2, <4>1 DEF Moved
      <4>2. CASE v # w
        BY <1>2, <4>2 DEF Moved, CallsFit, CallersFit
      <4> QED BY <4>1, <4>2
    <3> QED BY <3>1 DEF CallersFit
  <2>2. ToldItsOwn'
    <3>1. ASSUME NEW v \in Callers PROVE caller'[v].told \in {<<>>, <<0>>, <<caller'[v].id>>}
      <4>1. CASE v = w
        BY <1>2, <4>1 DEF Moved, ItsOwnNews
      <4>2. CASE v # w
        BY <1>2, <4>2 DEF Moved, CallsFit, ToldItsOwn
      <4> QED BY <4>1, <4>2
    <3> QED BY <3>1 DEF ToldItsOwn
  <2> QED BY <2>1, <2>2 DEF CallsFit
<1> QED BY <1>1, <1>2

LEMMA CallsTold ==
    ASSUME WireRecsOK, Claims, CallsFit, NEW w \in Callers \cup {"dial"},
           \/ BeginCall(w) \/ WriteCall(w) \/ HearReply(w) \/ HearDeath(w) \/ GiveUp(w) \/ SendCancelled(w)
    PROVE  CallsFit'
<1> USE DEF WaitsAt, ItsOwnNews
<1>0. wire \in WireRecs /\ wire.nextId \in Nat /\ caller[w] \in TalkRecs /\ caller[w].id \in 0..wire.nextId
      /\ caller \in [Callers \cup {"dial"} -> TalkRecs] /\ <<0>> \in Seq(Nat)
  BY WireSeen DEF WireRecsOK, WireOK, TalkOK
<1>1. CASE BeginCall(w)
  <2> DEFINE k == wire.nextId + 1
             r == [Idle EXCEPT !.pc = "writing", !.id = k]
  <2>1. wire'.nextId = k /\ k \in Nat /\ k \in 1..k
    BY <1>0, <1>1 DEF BeginCall, WireRecs
  <2>2. r.pc = "writing" /\ r.id = k /\ r.told = <<>>
    BY DEF Idle
  <2>3. caller' = [caller EXCEPT ![w] = r]
    BY <1>1 DEF BeginCall
  <2> HIDE DEF r, k
  <2>4. caller'[w] = r /\ \A v \in Callers \cup {"dial"} : v # w => caller'[v] = caller[v]
    BY <1>0, <2>3
  <2>5. \A n \in 1..wire.nextId : n \in 1..k
    BY <1>0, <2>1 DEF k
  <2>6. CallersFit'
    <3>1. ASSUME NEW v \in Callers \cup {"dial"}
          PROVE  /\ caller'[v].pc \in {"writing", "waiting", "cancelling"} => caller'[v].id \in 1..wire'.nextId
                 /\ caller'[v].pc # "over" => caller'[v].told = <<>>
      <4>1. CASE v = w
        BY <2>1, <2>2, <2>4, <4>1
      <4>2. CASE v # w
        BY <2>1, <2>4, <2>5, <4>2 DEF CallsFit, CallersFit
      <4> QED BY <4>1, <4>2
    <3> QED BY <3>1 DEF CallersFit
  <2>7. ToldItsOwn'
    BY <2>2, <2>4 DEF CallsFit, ToldItsOwn
  <2> QED BY <2>6, <2>7 DEF CallsFit
<1>2. CASE WriteCall(w)
  <2>1. caller[w].pc = "writing" /\ wire' = wire /\ (Onward(w, "waiting") \/ Rest(w, <<0>>))
    BY <1>2 DEF WriteCall
  <2>2. caller[w].id \in 1..wire.nextId /\ caller[w].told = <<>>
    BY <2>1 DEF CallsFit, CallersFit
  <2>3. Moved(w, "waiting", <<>>) \/ Moved(w, "over", <<0>>)
    BY <1>0, <2>1, <2>2, OnwardMoves, RestMoves DEF TalkPCs
  <2> QED BY <2>1, <2>2, <2>3, CallsFitKept
<1>3. CASE HearReply(w)
  <2> DEFINE n == caller[w].id  told == slot[n][1]
  <2>1. /\ slot[n] # <<>> /\ slot' = [slot EXCEPT ![n] = Tail(@)] /\ caller[w].pc = "waiting"
        /\ \/ Onward(w, "greeting") /\ w = "dial"
           \/ Rest(w, <<told>>)
    BY <1>3 DEF HearReply
  <2>2. n \in 1..wire.nextId /\ n \in Ids /\ caller[w].told = <<>>
    <3>1. n \in 1..wire.nextId /\ wire.nextId \in 0..MaxIds /\ caller[w].told = <<>>
      BY <2>1, WireSeen DEF CallsFit, CallersFit
    <3> QED BY <3>1, WireNumbers DEF Ids
  <2>3. wire'.nextId = wire.nextId
    BY <1>0, <1>3 DEF HearReply, WireRecs
  <2> HIDE DEF n
  <2>4. told \in {0, n}
    BY <2>1, <2>2, TakeFits DEF Claims
  <2>5. <<told>> \in Seq(Nat) /\ <<told>> \in {<<0>>, <<n>>}
    <3>1. told \in Nat
      BY <2>2, <2>4, WireNumbers DEF Ids
    <3> QED BY <2>4, <3>1
  <2> HIDE DEF told
  <2>6. \/ w = "dial" /\ Moved(w, "greeting", <<>>)
        \/ Moved(w, "over", <<told>>)
    BY <2>1, <2>2, <2>5, OnwardMoves, RestMoves DEF TalkPCs
  <2>7. CASE w = "dial" /\ Moved(w, "greeting", <<>>)
    BY <2>3, <2>7, CallsFitKept, WireNumbers
  <2>8. CASE Moved(w, "over", <<told>>)
    BY <2>3, <2>5, <2>8, CallsFitKept DEF n
  <2> QED BY <2>6, <2>7, <2>8
<1>4. CASE HearDeath(w) \/ SendCancelled(w)
  <2>1. wire' = wire /\ Rest(w, <<0>>)
    BY <1>4 DEF HearDeath, SendCancelled
  <2>2. Moved(w, "over", <<0>>)
    BY <1>0, <2>1, RestMoves
  <2> QED BY <2>1, <2>2, CallsFitKept
<1>5. CASE GiveUp(w)
  <2>1. caller[w].pc = "waiting" /\ wire' = wire /\ Onward(w, "cancelling")
    BY <1>5 DEF GiveUp
  <2>2. caller[w].id \in 1..wire.nextId /\ caller[w].told = <<>>
    BY <2>1 DEF CallsFit, CallersFit
  <2>3. Moved(w, "cancelling", <<>>)
    BY <2>1, <2>2, OnwardMoves DEF TalkPCs
  <2> QED BY <2>1, <2>2, <2>3, CallsFitKept
<1> QED BY <1>1, <1>2, <1>3, <1>4, <1>5

LEMMA RestTold ==
    ASSUME WireRecsOK, CallsFit,
           \/ NameEndpoint \/ Greet \/ ReadLine \/ ReaderHands \/ ReaderRefuses \/ ReaderEnds
           \/ ServerReads \/ ServerSays \/ ServerGoes \/ CloseConn \/ EndLife \/ ConnClosed
           \/ UNCHANGED wireVars
           \/ \E i \in 1..Len(posts) : \/ BuildPost(i) \/ PostFails(i) \/ HearHeaders(i) \/ HearBody(i)
                                       \/ PostEnds(i) \/ PostHands(i) \/ PostRefuses(i)
    PROVE  CallsFit'
<1>0. wire \in WireRecs
  BY DEF WireRecsOK, WireOK
<1>1. CASE Greet
  <2>1. wire'.nextId = wire.nextId
    BY <1>0, <1>1 DEF Greet, Stage, WireRecs
  <2>2. Rest("dial", <<1>>) \/ Rest("dial", <<0>>)
    BY <1>1 DEF Greet
  <2>3. <<0>> \in Seq(Nat) /\ <<1>> \in Seq(Nat) /\ "dial" \in Callers \cup {"dial"}
    OBVIOUS
  <2>4. Moved("dial", "over", <<1>>) \/ Moved("dial", "over", <<0>>)
    BY <2>2, <2>3, RestMoves
  <2> QED BY <2>1, <2>4, CallsFitKept, WireNumbers DEF ItsOwnNews
<1>2. CASE \/ NameEndpoint \/ ReadLine \/ ReaderHands \/ ReaderRefuses \/ ReaderEnds
           \/ ServerReads \/ ServerSays \/ ServerGoes \/ CloseConn \/ EndLife \/ ConnClosed
           \/ UNCHANGED wireVars
  <2>1. caller' = caller /\ wire'.nextId = wire.nextId
    BY <1>0, <1>2
       DEF NameEndpoint, ReadLine, ReaderHands, ReaderRefuses, ReaderEnds, ServerReads, ServerSays, ServerGoes,
           CloseConn, EndLife, ConnClosed, Stage, WireRecs, wireVars
  <2> QED BY <2>1, CallsFitKept DEF ItsOwnNews
<1>3. ASSUME NEW i \in 1..Len(posts),
             \/ BuildPost(i) \/ PostFails(i) \/ HearHeaders(i) \/ HearBody(i)
             \/ PostEnds(i) \/ PostHands(i) \/ PostRefuses(i)
      PROVE  CallsFit'
  <2>1. caller' = caller /\ wire'.nextId = wire.nextId
    BY <1>0, <1>3 DEF BuildPost, PostFails, HearHeaders, HearBody, PostEnds, PostHands, PostRefuses, WireRecs
  <2> QED BY <2>1, CallsFitKept DEF ItsOwnNews
<1> QED BY <1>1, <1>2, <1>3

\* What holds of a connection that is being closed, by what a step does to it.
Closing == ClosingFits /\ ClosedIsQuiet
IsClosing == wire.stage \in {"closing", "closed"}

LEMMA ClosingKept ==
    ASSUME WireRecsOK, Closing, wire'.stage = wire.stage
    PROVE  /\ ~IsClosing => Closing'
           /\ (/\ wire'.kind = wire.kind /\ caller' = caller /\ posts' = posts
               /\ wire.closed => wire'.closed
               /\ wire.ended => wire'.ended) => Closing'
<1>1. ASSUME ~IsClosing PROVE Closing'
  BY <1>1 DEF IsClosing, Closing, ClosingFits, ClosedIsQuiet
<1>2. ASSUME wire'.kind = wire.kind, caller' = caller, posts' = posts, wire.closed => wire'.closed,
             wire.ended => wire'.ended
      PROVE  Closing'
  BY <1>2 DEF Closing, ClosingFits, ClosedIsQuiet, Under
<1> QED BY <1>1, <1>2

\* Whoever begins, or is under way, is on a connection that nobody closes.
LEMMA CallsClosing ==
    ASSUME WireRecsOK, Closing, NEW w \in Callers \cup {"dial"},
           \/ BeginCall(w) \/ WriteCall(w) \/ HearReply(w) \/ HearDeath(w) \/ GiveUp(w) \/ SendCancelled(w)
    PROVE  Closing'
<1>0. wire \in WireRecs
  BY DEF WireRecsOK, WireOK
<1>1. wire'.stage = wire.stage
  BY <1>0 DEF BeginCall, WriteCall, HearReply, HearDeath, GiveUp, SendCancelled, WireRecs
<1>2. ~wire.closed \/ Under(w)
  BY DEF BeginCall, WriteCall, HearReply, HearDeath, GiveUp, SendCancelled, WaitsAt, Under
<1>3. ~IsClosing
  BY <1>2 DEF Closing, ClosingFits, IsClosing
<1> QED BY <1>1, <1>3, ClosingKept

LEMMA PostsClosing ==
    ASSUME WireRecsOK, Closing, NEW i \in 1..Len(posts),
           \/ BuildPost(i) \/ PostFails(i) \/ HearHeaders(i) \/ HearBody(i)
           \/ PostEnds(i) \/ PostHands(i) \/ PostRefuses(i)
    PROVE  Closing'
<1>0. wire \in WireRecs /\ i \in DOMAIN posts
  BY WireSeen DEF WireRecsOK, WireOK
<1>1. /\ wire'.stage = wire.stage /\ wire'.kind = wire.kind /\ wire'.closed = wire.closed
      /\ wire'.ended = wire.ended /\ caller' = caller
  BY <1>0 DEF BuildPost, PostFails, HearHeaders, HearBody, PostEnds, PostHands, PostRefuses, WireRecs
<1>2. posts[i].pc # "over"
  BY DEF BuildPost, PostFails, HearHeaders, HearBody, PostEnds, PostHands, PostRefuses
<1>3. ~(wire.stage = "closed" /\ wire.kind = "stream")
  BY <1>0, <1>2 DEF Closing, ClosedIsQuiet
<1>4. ClosingFits'
  BY <1>1 DEF Closing, ClosingFits, Under
<1> QED BY <1>1, <1>3, <1>4 DEF Closing, ClosedIsQuiet

LEMMA RestClosing ==
    ASSUME WireRecsOK, Closing, HandshakeFits,
           \/ NameEndpoint \/ Greet \/ ReadLine \/ ReaderHands \/ ReaderRefuses \/ ReaderEnds
           \/ ServerReads \/ ServerSays \/ ServerGoes \/ CloseConn \/ EndLife \/ ConnClosed
           \/ UNCHANGED wireVars
    PROVE  Closing'
<1>0. wire \in WireRecs /\ DOMAIN caller = Callers \cup {"dial"}
  BY WireSeen DEF WireRecsOK, WireOK
<1>1. CASE NameEndpoint
  <2>1. wire'.stage \in {"dialing", "failed"}
    BY <1>0, <1>1 DEF NameEndpoint, Stage, WireRecs
  <2> QED BY <2>1 DEF Closing, ClosingFits, ClosedIsQuiet
<1>2. CASE Greet
  <2>1. Under("dial")
    BY <1>2 DEF Greet, WaitsAt, Under
  <2>2. ~IsClosing
    BY <2>1 DEF Closing, ClosingFits, IsClosing
  <2>3. wire'.stage \in {"ready", wire.stage}
    BY <1>0, <1>2 DEF Greet, Stage, WireRecs
  <2> QED BY <2>2, <2>3 DEF Closing, ClosingFits, ClosedIsQuiet, IsClosing
<1>3. CASE ReadLine \/ ReaderHands \/ ReaderEnds \/ ServerReads \/ ServerSays \/ ServerGoes \/ UNCHANGED wireVars
  <2>1. /\ wire'.stage = wire.stage /\ wire'.kind = wire.kind /\ caller' = caller /\ posts' = posts
        /\ wire'.closed = wire.closed /\ wire'.ended = wire.ended
    BY <1>0, <1>3 DEF ReadLine, ReaderHands, ReaderEnds, ServerReads, ServerSays, ServerGoes, WireRecs, wireVars
  <2> QED BY <2>1, ClosingKept
<1>4. CASE ReaderRefuses
  <2>1. wire' = wire /\ caller' = caller /\ wire.kind # "stream"
    BY <1>4 DEF ReaderRefuses, HandshakeFits
  <2> QED BY <2>1 DEF Closing, ClosingFits, ClosedIsQuiet, Under
<1>5. CASE CloseConn
  <2>1. wire'.stage = "closing" /\ wire'.closed /\ caller' = caller /\ \A w \in Callers \cup {"dial"} : ~Under(w)
    BY <1>0, <1>5 DEF CloseConn, WireRecs
  <2> QED BY <2>1 DEF Closing, ClosingFits, ClosedIsQuiet, Under
<1>6. CASE EndLife
  <2>1. wire'.stage = "closing" /\ wire.stage = "closing" /\ wire'.closed = wire.closed /\ caller' = caller
    BY <1>0, <1>6 DEF EndLife, WireRecs
  <2> QED BY <2>1 DEF Closing, ClosingFits, ClosedIsQuiet, Under
<1>7. CASE ConnClosed
  <2>1. /\ wire'.stage = "closed" /\ wire.stage = "closing" /\ wire'.closed = wire.closed /\ wire'.ended
        /\ wire'.kind = wire.kind /\ caller' = caller /\ posts' = posts
    BY <1>0, <1>7 DEF ConnClosed, Stage, WireRecs
  <2>2. wire.kind = "stream" => \A i \in DOMAIN posts : posts[i].pc = "over"
    BY <1>7 DEF ConnClosed, Stdio
  <2>3. ClosingFits'
    BY <2>1 DEF Closing, ClosingFits, Under
  <2> QED BY <2>1, <2>2, <2>3 DEF Closing, ClosedIsQuiet
<1> QED BY <1>1, <1>2, <1>3, <1>4, <1>5, <1>6, <1>7

\* The handshake, and the session it gives.
Shake == HandshakeFits /\ UnheardFits /\ SessionIsEchoed

\* Where no session is ever given.
LEMMA ShakeOther ==
    ASSUME WireRecsOK, Shake, wire.kind # "stream",
           wire'.kind = wire.kind, wire'.given = wire.given, wire'.session = wire.session
    PROVE  Shake'
<1>1. ~wire'.given /\ wire'.kind # "stream" /\ wire'.given = wire'.session
  BY DEF Shake, HandshakeFits
<1>2. HandshakeFits'
  BY <1>1 DEF HandshakeFits
<1>3. UnheardFits'
  BY <1>1 DEF UnheardFits
<1>4. SessionIsEchoed'
  BY <1>1 DEF SessionIsEchoed
<1> QED BY <1>2, <1>3, <1>4 DEF Shake

\* What is on its way carries the session, by what becomes of the POSTs.
LEMMA EchoKept ==
    ASSUME WireRecsOK, SessionIsEchoed, wire'.given = wire.given
    PROVE  /\ posts' = posts => SessionIsEchoed'
           /\ \A p : PostAdded(p) /\ p.pc = "queued" => SessionIsEchoed'
           /\ \A i, p : (/\ PostSet(i, p) /\ p.what = posts[i].what /\ p.id = posts[i].id
                         /\ \/ wire.given => p.carried
                            \/ posts[i].pc # "queued" /\ p.carried = posts[i].carried) => SessionIsEchoed'
<1>0. DOMAIN posts = 1..Len(posts) /\ Len(posts) \in Nat
  BY WireSeen
<1>1. posts' = posts => SessionIsEchoed'
  BY DEF SessionIsEchoed
<1>2. ASSUME NEW p, PostAdded(p), p.pc = "queued" PROVE SessionIsEchoed'
  <2>1. DOMAIN posts' = 1..Len(posts) + 1
    BY <1>0, <1>2, LenProperties DEF PostAdded
  <2>2. ASSUME NEW j \in 1..Len(posts) + 1, wire.given /\ posts'[j].pc # "queued",
               posts'[j].what \in {"initialized", "list", "call"} \/ posts'[j].id > 1
        PROVE  posts'[j].carried
    <3>1. j \in 1..Len(posts) /\ posts'[j] = posts[j]
      BY <1>0, <1>2, <2>2 DEF PostAdded
    <3> QED BY <1>0, <2>2, <3>1 DEF SessionIsEchoed
  <2> QED BY <2>1, <2>2 DEF SessionIsEchoed
<1>3. ASSUME NEW i, NEW p, PostSet(i, p), p.what = posts[i].what, p.id = posts[i].id,
             \/ wire.given => p.carried
             \/ posts[i].pc # "queued" /\ p.carried = posts[i].carried
      PROVE  SessionIsEchoed'
  <2>1. DOMAIN posts' = 1..Len(posts)
    BY <1>0, <1>3, LenProperties DEF PostSet
  <2>2. ASSUME NEW j \in 1..Len(posts), wire.given /\ posts'[j].pc # "queued",
               posts'[j].what \in {"initialized", "list", "call"} \/ posts'[j].id > 1
        PROVE  posts'[j].carried
    <3>1. CASE j = i
      <4>1. posts'[j] = p /\ j \in DOMAIN posts
        BY <1>0, <1>3, <3>1 DEF PostSet
      <4> QED BY <1>3, <2>2, <3>1, <4>1 DEF SessionIsEchoed
    <3>2. CASE j # i
      <4>1. posts'[j] = posts[j] /\ j \in DOMAIN posts
        BY <1>0, <1>3, <3>2 DEF PostSet
      <4> QED BY <2>2, <4>1 DEF SessionIsEchoed
    <3> QED BY <3>1, <3>2
  <2> QED BY <2>1, <2>2 DEF SessionIsEchoed
<1> QED BY <1>1, <1>2, <1>3

\* Once the first answer has begun, it has.
LEMMA HeardStays ==
    ASSUME WireRecsOK, ~Unheard
    PROVE  /\ posts' = posts => ~Unheard'
           /\ \A p : PostAdded(p) => ~Unheard'
           /\ \A i, p : PostSet(i, p) /\ (i # 1 \/ p.pc \notin {"queued", "sent"}) => ~Unheard'
<1>0. posts # <<>> /\ posts[1].pc \notin {"queued", "sent"} /\ Len(posts) \in Nat /\ Len(posts) > 0 /\ 1 \in 1..Len(posts)
  <2>1. posts # <<>> /\ posts[1].pc \notin {"queued", "sent"} /\ Len(posts) \in Nat
    BY WireSeen DEF Unheard
  <2>2. Len(posts) > 0
    BY <2>1, EmptySeq DEF WireRecsOK, PostsOK
  <2> QED BY <2>1, <2>2
<1>1. posts' = posts => ~Unheard'
  BY DEF Unheard
<1>2. ASSUME NEW p, PostAdded(p) PROVE ~Unheard'
  <2>1. Len(posts') > 0 /\ posts'[1] = posts[1]
    BY <1>0, <1>2 DEF PostAdded
  <2>2. posts' # <<>>
    BY <2>1
  <2> QED BY <1>0, <2>1, <2>2 DEF Unheard
<1>3. ASSUME NEW i, NEW p, PostSet(i, p), i # 1 \/ p.pc \notin {"queued", "sent"} PROVE ~Unheard'
  <2>1. Len(posts') > 0 /\ posts'[1].pc \notin {"queued", "sent"}
    BY <1>0, <1>3 DEF PostSet
  <2>2. posts' # <<>>
    BY <2>1
  <2> QED BY <2>1, <2>2 DEF Unheard
<1> QED BY <1>1, <1>2, <1>3

\* The handshake, once its first request is on its way.
LEMMA HandshakeOn ==
    ASSUME WireRecsOK, HandshakeFits, wire.kind = "stream", posts # <<>>,
           wire'.kind = wire.kind, wire'.given = wire'.session, reader' = reader, fromServer' = fromServer,
           caller'["dial"].pc \notin {"idle", "writing"},
           \/ posts' = posts
           \/ \E p : PostAdded(p) /\ p.what # "initialize"
           \/ \E i, p : PostSet(i, p) /\ p.what = posts[i].what
    PROVE  HandshakeFits'
<1>0. /\ Len(posts) \in Nat /\ Len(posts) > 0
      /\ \A i \in 1..Len(posts) : posts[i].what = "initialize" <=> i = 1
      /\ reader.pc = "reading" /\ fromServer = <<>>
  <2>1. Len(posts) > 0
    BY EmptySeq DEF WireRecsOK, PostsOK
  <2> QED BY <2>1, WireSeen DEF HandshakeFits
<1>1. posts' # <<>> /\ \A i \in 1..Len(posts') : posts'[i].what = "initialize" <=> i = 1
  <2>1. CASE posts' = posts
    BY <1>0, <2>1
  <2>2. ASSUME NEW p, PostAdded(p), p.what # "initialize"
        PROVE  posts' # <<>> /\ \A i \in 1..Len(posts') : posts'[i].what = "initialize" <=> i = 1
    <3>1. Len(posts') = Len(posts) + 1 /\ posts'[Len(posts) + 1] = p
          /\ \A j \in 1..Len(posts) : posts'[j] = posts[j]
      BY <2>2 DEF PostAdded
    <3>2. posts' # <<>>
      BY <1>0, <3>1
    <3>3. ASSUME NEW i \in 1..Len(posts') PROVE posts'[i].what = "initialize" <=> i = 1
      <4>1. CASE i \in 1..Len(posts)
        BY <1>0, <3>1, <4>1
      <4>2. CASE i = Len(posts) + 1
        BY <1>0, <2>2, <3>1, <4>2
      <4> QED BY <1>0, <3>1, <4>1, <4>2
    <3> QED BY <3>2, <3>3
  <2>3. ASSUME NEW i, NEW p, PostSet(i, p), p.what = posts[i].what
        PROVE  posts' # <<>> /\ \A j \in 1..Len(posts') : posts'[j].what = "initialize" <=> j = 1
    <3>1. Len(posts') = Len(posts) /\ posts'[i] = p /\ i \in 1..Len(posts)
          /\ \A j \in 1..Len(posts) : j # i => posts'[j] = posts[j]
      BY <2>3 DEF PostSet
    <3>2. posts' # <<>>
      BY <1>0, <3>1
    <3> QED BY <1>0, <2>3, <3>1, <3>2
  <2> QED BY <2>1, <2>2, <2>3
<1> QED BY <1>0, <1>1 DEF HandshakeFits, Dial

\* What only a connection has whose first answer has begun.
LEMMA WhoIsHeard ==
    ASSUME WireRecsOK, Shake, wire.kind = "stream"
    PROVE  /\ wire.stage = "ready" => ~Unheard
           /\ \A w \in Callers : caller[w].pc # "idle" => ~Unheard
           /\ Dial.pc = "greeting" => ~Unheard
           /\ \A n \in Ids : slot[n] # <<>> => ~Unheard
           /\ ~Unheard => posts # <<>>
           /\ Dial.pc \notin {"idle", "writing", "over"} => posts # <<>>
           /\ posts # <<>> => Dial.pc \notin {"idle", "writing"}
<1>1. /\ wire.stage = "ready" => ~Unheard
      /\ \A w \in Callers : caller[w].pc # "idle" => ~Unheard
      /\ Dial.pc = "greeting" => ~Unheard
      /\ \A n \in Ids : slot[n] # <<>> => ~Unheard
  BY DEF Shake, UnheardFits
<1>2. ~Unheard => posts # <<>>
  BY DEF Unheard
<1>3. /\ Dial.pc \notin {"idle", "writing", "over"} => posts # <<>>
      /\ posts # <<>> => Dial.pc \notin {"idle", "writing"}
  BY DEF Shake, HandshakeFits
<1> QED BY <1>1, <1>2, <1>3

\* A caller of an open connection.
LEMMA CallShake ==
    ASSUME WireRecsOK, Shake, wire.kind = "stream", NEW w \in Callers,
           \/ BeginCall(w) \/ WriteCall(w) \/ HearReply(w) \/ HearDeath(w) \/ GiveUp(w) \/ SendCancelled(w)
    PROVE  Shake'
<1> USE DEF WaitsAt
<1>0. wire \in WireRecs /\ w # "dial" /\ wire.nextId \in Nat /\ caller[w].id \in 0..wire.nextId
      /\ caller \in [Callers \cup {"dial"} -> TalkRecs]
  BY WireSeen, WireNumbers DEF WireRecsOK, WireOK, TalkOK
<1>1. ~Unheard
  <2>1. caller[w].pc # "idle" \/ wire.stage = "ready"
    BY <1>0 DEF BeginCall, WriteCall, HearReply, HearDeath, GiveUp, SendCancelled, MayCall
  <2> QED BY <2>1, WhoIsHeard
<1>2. posts # <<>> /\ Dial.pc \notin {"idle", "writing"} /\ wire.given = wire.session
  BY <1>1, WhoIsHeard DEF Shake, HandshakeFits
<1>3. /\ wire'.kind = wire.kind /\ wire'.given = wire.given /\ wire'.session = wire.session
      /\ reader' = reader /\ fromServer' = fromServer
  BY <1>0 DEF BeginCall, WriteCall, HearReply, HearDeath, GiveUp, SendCancelled, WireRecs
<1>4. caller'["dial"] = caller["dial"]
  BY <1>0 DEF BeginCall, WriteCall, HearReply, HearDeath, GiveUp, SendCancelled, Onward, Rest
<1>5. posts' = posts \/ \E p : PostAdded(p) /\ p.what # "initialize" /\ p.pc = "queued"
  <2>1. CASE BeginCall(w) \/ HearReply(w) \/ HearDeath(w) \/ GiveUp(w)
    BY <2>1 DEF BeginCall, HearReply, HearDeath, GiveUp
  <2>2. CASE WriteCall(w)
    <3>1. What(w) \in {"list", "call"} /\ What(w) \in Messages
      BY <1>0 DEF What, Messages
    <3>2. posts' = posts \/ PostAdded(NewPost(What(w), caller[w].id))
      BY <1>0, <2>2, <3>1, SendCases DEF WriteCall
    <3>3. NewPost(What(w), caller[w].id).what = What(w) /\ NewPost(What(w), caller[w].id).pc = "queued"
      BY DEF NewPost
    <3> QED BY <3>1, <3>2, <3>3
  <2>3. CASE SendCancelled(w)
    <3>1. "cancelled" \in Messages
      BY DEF Messages
    <3>2. posts' = posts \/ PostAdded(NewPost("cancelled", caller[w].id))
      BY <1>0, <2>3, <3>1, SendCases DEF SendCancelled
    <3>3. NewPost("cancelled", caller[w].id).what = "cancelled" /\ NewPost("cancelled", caller[w].id).pc = "queued"
      BY DEF NewPost
    <3> QED BY <3>2, <3>3
  <2> QED BY <2>1, <2>2, <2>3
<1>6. HandshakeFits'
  BY <1>2, <1>3, <1>4, <1>5, HandshakeOn DEF Shake, Dial
<1>7. UnheardFits'
  <2>1. ~Unheard'
    BY <1>1, <1>5, HeardStays
  <2> QED BY <2>1 DEF UnheardFits
<1>8. SessionIsEchoed'
  BY <1>3, <1>5, EchoKept DEF Shake
<1> QED BY <1>6, <1>7, <1>8 DEF Shake

\* The one that dials.
LEMMA DialShake ==
    ASSUME WireRecsOK, Claims, Shake, CallersFit, wire.kind = "stream",
           \/ BeginCall("dial") \/ WriteCall("dial") \/ HearReply("dial") \/ HearDeath("dial")
           \/ GiveUp("dial") \/ SendCancelled("dial")
    PROVE  Shake'
<1> USE DEF WaitsAt
<1>0. /\ wire \in WireRecs /\ "dial" \notin Callers /\ wire.nextId \in Nat /\ Dial.id \in 0..wire.nextId
      /\ caller \in [Callers \cup {"dial"} -> TalkRecs] /\ pending \subseteq 1..wire.nextId
      /\ posts \in Seq(PostRecs) /\ <<0>> \in Seq(Nat) /\ "dial" \in Callers \cup {"dial"}
  BY WireSeen, WireNumbers DEF WireRecsOK, WireOK, TalkOK, PostsOK, Dial
<1>1. /\ wire'.kind = wire.kind /\ wire'.given = wire.given /\ wire'.session = wire.session
      /\ wire'.stage = wire.stage /\ reader' = reader /\ fromServer' = fromServer
      /\ wire.given = wire.session /\ reader.pc = "reading" /\ fromServer = <<>>
  BY <1>0 DEF BeginCall, WriteCall, HearReply, HearDeath, GiveUp, SendCancelled, WireRecs, Shake, HandshakeFits
<1>2. \A v \in Callers : caller'[v] = caller[v]
  BY <1>0 DEF BeginCall, WriteCall, HearReply, HearDeath, GiveUp, SendCancelled, Onward, Rest
<1>3. Dial.pc # "idle" => Dial.id \in 1..wire.nextId \/ Dial.pc \in {"greeting", "over"}
  BY <1>0 DEF CallersFit, Dial, TalkRecs, TalkPCs
<1> DEFINE Gone(pc) == caller'["dial"].pc = pc
<1>4. ASSUME NEW pc \in TalkPCs, Onward("dial", pc) PROVE Gone(pc)
  BY <1>0, <1>4, OnwardMoves DEF Moved
<1>5. ASSUME NEW told, Rest("dial", told) PROVE Gone("over")
  BY <1>0, <1>5 DEF Rest, Idle
<1>6. CASE BeginCall("dial")
  <2>1. Dial.pc = "idle" /\ posts' = posts /\ slot' = slot
    BY <1>6 DEF BeginCall, Dial
  <2>2. posts = <<>> /\ wire.nextId = 0
    BY <1>1, <2>1 DEF Shake, HandshakeFits
  <2>3. wire'.nextId = 1
    BY <1>0, <1>6, <2>2 DEF BeginCall, WireRecs
  <2>4. caller'["dial"].pc = "writing"
    BY <1>0, <1>6 DEF BeginCall, Idle
  <2>5. HandshakeFits'
    <3>1. Len(posts') = 0 /\ posts' = <<>>
      BY <2>1, <2>2, EmptySeq
    <3>2. \A i \in 1..Len(posts') : posts'[i].what = "initialize" <=> i = 1
      BY <3>1
    <3> QED BY <1>1, <2>3, <2>4, <3>1, <3>2 DEF Shake, HandshakeFits, Dial
  <2>6. UnheardFits'
    <3>1. Unheard
      BY <2>2 DEF Unheard
    <3>2. /\ ~wire.given /\ wire.stage # "ready" /\ \A v \in Callers : caller[v].pc = "idle"
          /\ \A n \in Ids : slot[n] = <<>>
      BY <3>1 DEF Shake, UnheardFits
    <3>3. Len(posts') = 0
      BY <2>1, <2>2, EmptySeq
    <3>4. \A i \in 1..Len(posts') : FALSE
      BY <3>3
    <3> QED BY <1>1, <1>2, <2>1, <2>3, <2>4, <3>2, <3>4 DEF UnheardFits, Dial
  <2>7. SessionIsEchoed'
    BY <1>1, <2>1, EchoKept DEF Shake
  <2> QED BY <2>5, <2>6, <2>7 DEF Shake
<1>7. CASE WriteCall("dial")
  <2>1. Dial.pc = "writing" /\ slot' = slot /\ wire' = wire
    BY <1>7 DEF WriteCall, Dial
  <2>2. posts = <<>> /\ wire.nextId = 1 /\ Unheard
    BY <1>1, <2>1 DEF Shake, HandshakeFits, Unheard
  <2>3. /\ ~wire.given /\ wire.stage # "ready" /\ \A v \in Callers : caller[v].pc = "idle"
        /\ \A n \in Ids : slot[n] = <<>>
    BY <2>2 DEF Shake, UnheardFits
  <2>4. CASE Send("initialize", Dial.id) /\ Onward("dial", "waiting")
    <3> DEFINE n == NewPost("initialize", Dial.id)
    <3>1. posts' = Append(posts, n)
      BY <1>1, <2>4, <2>1 DEF Send, Stdio
    <3>2. n.pc = "queued" /\ n.what = "initialize"
      BY DEF NewPost
    <3>3. caller'["dial"].pc = "waiting"
      BY <1>0, <2>4 DEF Onward, TalkRecs
    <3> HIDE DEF n
    <3>4. posts' = <<n>>
      BY <2>2, <3>1
    <3>5. Len(posts') = 1 /\ posts'[1] = n /\ posts' # <<>>
      BY <3>4
    <3>6. HandshakeFits'
      <4>1. \A i \in 1..Len(posts') : posts'[i].what = "initialize" <=> i = 1
        BY <3>2, <3>5
      <4> QED BY <1>1, <3>3, <3>5, <4>1 DEF Shake, HandshakeFits, Dial
    <3>7. UnheardFits'
      <4>1. \A i \in 1..Len(posts') : i = 1 /\ posts'[i].pc # "handing"
        BY <3>2, <3>5
      <4> QED BY <1>2, <2>1, <2>2, <2>3, <3>3, <4>1 DEF UnheardFits, Dial
    <3>8. SessionIsEchoed'
      BY <1>1, <2>3 DEF SessionIsEchoed
    <3> QED BY <3>6, <3>7, <3>8 DEF Shake
  <2>5. CASE posts' = posts /\ Rest("dial", <<0>>)
    <3>1. caller'["dial"].pc = "over"
      BY <1>0, <2>5, RestMoves DEF Moved
    <3>2. Len(posts') = 0 /\ posts' = <<>>
      BY <2>2, <2>5, EmptySeq
    <3>3. \A i \in 1..Len(posts') : FALSE
      BY <3>2
    <3>4. HandshakeFits'
      BY <1>1, <3>1, <3>2, <3>3 DEF Shake, HandshakeFits, Dial
    <3>5. UnheardFits'
      BY <1>2, <2>1, <2>2, <2>3, <3>1, <3>3 DEF UnheardFits, Dial
    <3>6. SessionIsEchoed'
      BY <1>1, <2>3 DEF SessionIsEchoed
    <3> QED BY <3>4, <3>5, <3>6 DEF Shake
  <2> QED BY <1>7, <2>4, <2>5 DEF WriteCall, CannotSend, What, Dial
<1>8. CASE HearReply("dial")
  <2>1. Dial.pc = "waiting" /\ slot[Dial.id] # <<>> /\ posts' = posts
    BY <1>8 DEF HearReply, Dial
  <2>2. Dial.id \in Ids
    <3>1. Dial.id \in 1..wire.nextId /\ wire.nextId \in 0..MaxIds
      BY <1>3, <2>1, WireSeen
    <3> QED BY <3>1, WireNumbers DEF Ids
  <2>3. ~Unheard /\ posts # <<>>
    BY <2>1, <2>2, WhoIsHeard
  <2>4. caller'["dial"].pc \notin {"idle", "writing"}
    <3>1. Onward("dial", "greeting") \/ \E told : Rest("dial", told)
      BY <1>8 DEF HearReply
    <3> QED BY <1>4, <1>5, <3>1 DEF TalkPCs
  <2>5. HandshakeFits'
    BY <1>1, <2>1, <2>3, <2>4, HandshakeOn DEF Shake
  <2>6. UnheardFits'
    BY <2>1, <2>3, HeardStays DEF UnheardFits
  <2>7. SessionIsEchoed'
    BY <1>1, <2>1, EchoKept DEF Shake
  <2> QED BY <2>5, <2>6, <2>7 DEF Shake
<1>9. CASE HearDeath("dial") \/ GiveUp("dial")
  <2>1. Dial.pc = "waiting" /\ posts' = posts /\ slot' = slot /\ wire' = wire /\ pending' \subseteq pending
    BY <1>9 DEF HearDeath, GiveUp, Dial
  <2>2. posts # <<>>
    BY <2>1, WhoIsHeard
  <2>3. \/ caller'["dial"].pc = "over"
        \/ caller'["dial"].pc = "cancelling" /\ pending' = pending \ {Dial.id}
    BY <1>9, <1>4, <1>5 DEF HearDeath, GiveUp, TalkPCs, Dial
  <2>4. HandshakeFits'
    BY <1>1, <2>1, <2>2, <2>3, HandshakeOn DEF Shake
  <2>5. UnheardFits'
    <3>1. CASE ~Unheard
      BY <2>1, <3>1, HeardStays DEF UnheardFits
    <3>2. CASE Unheard
      <4>1. caller'["dial"].pc = "cancelling" => pending' = {}
        <5>1. wire.nextId <= 1 /\ Dial.id \in 1..wire.nextId
          BY <1>1, <1>3, <2>1, <3>2 DEF Shake, UnheardFits
        <5>2. Dial.id = 1 /\ \A n \in pending : n = 1
          BY <1>0, <5>1
        <5> QED BY <2>3, <5>2
      <4>2. /\ ~wire.given /\ wire.stage # "ready" /\ wire.nextId <= 1
            /\ \A v \in Callers : caller[v].pc = "idle"
            /\ \A n \in Ids : slot[n] = <<>>
            /\ \A i \in 1..Len(posts) : i # 1 => posts[i].what \in {"cancelled", "refusal"} /\ pending = {}
            /\ \A i \in 1..Len(posts) : posts[i].pc # "handing"
        BY <3>2 DEF Shake, UnheardFits
      <4>3. \A i \in 1..Len(posts) : i # 1 => posts[i].what \in {"cancelled", "refusal"} /\ pending' = {}
        BY <2>1, <4>2
      <4> QED BY <1>2, <2>1, <2>3, <4>1, <4>2, <4>3 DEF UnheardFits, Dial
    <3> QED BY <3>1, <3>2
  <2>6. SessionIsEchoed'
    BY <1>1, <2>1, EchoKept DEF Shake
  <2> QED BY <2>4, <2>5, <2>6 DEF Shake
<1>10. CASE SendCancelled("dial")
  <2> DEFINE p == NewPost("cancelled", Dial.id)
  <2>1. Dial.pc = "cancelling" /\ slot' = slot /\ wire' = wire /\ pending' = pending
    BY <1>10 DEF SendCancelled, Dial
  <2>2. posts # <<>>
    BY <2>1, WhoIsHeard
  <2>3. caller'["dial"].pc = "over"
    BY <1>0, <1>10 DEF SendCancelled, Rest, Idle
  <2>4. posts' = posts \/ PostAdded(p)
    <3>1. "cancelled" \in Messages
      BY DEF Messages
    <3> QED BY <1>0, <1>10, <3>1, SendCases DEF SendCancelled, Dial
  <2>5. p.what = "cancelled" /\ p.pc = "queued"
    BY DEF NewPost
  <2> HIDE DEF p
  <2>6. HandshakeFits'
    <3>1. posts' = posts \/ \E q : PostAdded(q) /\ q.what # "initialize"
      BY <2>4, <2>5
    <3> QED BY <1>1, <2>2, <2>3, <3>1, HandshakeOn DEF Shake
  <2>7. UnheardFits'
    <3>1. CASE ~Unheard
      BY <2>4, <3>1, HeardStays DEF UnheardFits
    <3>2. CASE Unheard
      <4>1. /\ ~wire.given /\ wire.stage # "ready" /\ wire.nextId <= 1 /\ pending = {}
            /\ \A v \in Callers : caller[v].pc = "idle"
            /\ \A n \in Ids : slot[n] = <<>>
            /\ \A i \in 1..Len(posts) : i # 1 => posts[i].what \in {"cancelled", "refusal"}
            /\ \A i \in 1..Len(posts) : posts[i].pc # "handing"
        BY <2>1, <3>2 DEF Shake, UnheardFits
      <4>2. ASSUME NEW i \in 1..Len(posts')
            PROVE  /\ i # 1 => posts'[i].what \in {"cancelled", "refusal"} /\ pending' = {}
                   /\ posts'[i].pc # "handing"
        <5>1. CASE i \in 1..Len(posts) /\ posts'[i] = posts[i]
          BY <2>1, <4>1, <5>1
        <5>2. CASE posts'[i] = p
          BY <2>1, <2>5, <4>1, <5>2
        <5>3. Len(posts) \in Nat
          BY WireSeen
        <5> QED BY <2>4, <5>1, <5>2, <5>3 DEF PostAdded
      <4> QED BY <1>2, <2>1, <2>3, <4>1, <4>2 DEF UnheardFits, Dial
    <3> QED BY <3>1, <3>2
  <2>8. SessionIsEchoed'
    BY <1>1, <2>4, <2>5, EchoKept DEF Shake
  <2> QED BY <2>6, <2>7, <2>8 DEF Shake
<1> QED BY <1>6, <1>7, <1>8, <1>9, <1>10

\* A POST that goes on as the same message, and one that is a refusal.
GoesOn(j) ==
    /\ posts'[j].what = posts[j].what /\ posts'[j].id = posts[j].id
    /\ posts'[j].pc \in {"queued", "sent"} => posts[j].pc \in {"queued", "sent"}
    /\ posts'[j].pc # "queued" => \/ wire.given => posts'[j].carried
                                  \/ posts[j].pc # "queued" /\ posts'[j].carried = posts[j].carried
    /\ Unheard /\ posts'[j].pc = "handing" => j = 1
IsRefusal(j) ==
    /\ posts'[j].what = "refusal" /\ posts'[j].pc = "queued"
    /\ Unheard => pending = {}
PostsGoOn ==
    /\ posts' \in Seq(PostRecs) /\ Len(posts') >= Len(posts)
    /\ \A j \in 1..Len(posts) : GoesOn(j)
    /\ \A j \in 1..Len(posts') : j \notin 1..Len(posts) => IsRefusal(j)

\* One POST goes on and the others stay as they are.
LEMMA OneGoesOn ==
    ASSUME WireRecsOK, UnheardFits, wire.kind = "stream", NEW i, NEW p, PostSet(i, p),
           p.what = posts[i].what, p.id = posts[i].id,
           p.pc \in {"queued", "sent"} => posts[i].pc \in {"queued", "sent"},
           \/ wire.given => p.carried
           \/ posts[i].pc # "queued" /\ p.carried = posts[i].carried,
           Unheard /\ p.pc = "handing" => i = 1
    PROVE  PostsGoOn
<1>1. /\ i \in 1..Len(posts) /\ Len(posts') = Len(posts) /\ posts'[i] = p /\ posts' \in Seq(PostRecs)
      /\ \A j \in 1..Len(posts) : j # i => posts'[j] = posts[j]
  BY DEF PostSet
<1>2. GoesOn(i)
  BY <1>1 DEF GoesOn
<1>3. ASSUME NEW j \in 1..Len(posts), j # i PROVE GoesOn(j)
  <2>1. Unheard => posts[j].pc # "handing"
    BY DEF UnheardFits
  <2> QED BY <1>1, <1>3, <2>1 DEF GoesOn
<1>4. Len(posts) \in Nat
  BY WireSeen
<1> QED BY <1>1, <1>2, <1>3, <1>4 DEF PostsGoOn

LEMMA PostsOn ==
    ASSUME WireRecsOK, Shake, wire.kind = "stream", posts # <<>>, PostsGoOn,
           wire'.kind = wire.kind, wire'.stage = wire.stage, wire'.nextId = wire.nextId,
           wire'.given = wire'.session, caller' = caller, reader' = reader, fromServer' = fromServer,
           pending' \subseteq pending, slot' = slot \/ ~Unheard
    PROVE  /\ HandshakeFits'
           /\ wire'.given = wire.given => UnheardFits' /\ SessionIsEchoed'
<1>0. /\ Len(posts) \in Nat /\ Len(posts) > 0 /\ Len(posts') \in Nat /\ Len(posts') > 0 /\ posts' # <<>>
      /\ DOMAIN posts = 1..Len(posts) /\ DOMAIN posts' = 1..Len(posts')
      /\ Dial.pc \notin {"idle", "writing"} /\ reader.pc = "reading" /\ fromServer = <<>>
  <2>1. Len(posts) > 0 /\ posts \in Seq(PostRecs)
    BY EmptySeq DEF WireRecsOK, PostsOK
  <2>2. Len(posts) \in Nat /\ DOMAIN posts = 1..Len(posts)
    BY WireSeen
  <2>3. Len(posts') \in Nat /\ DOMAIN posts' = 1..Len(posts') /\ Len(posts') >= Len(posts)
    BY LenProperties DEF PostsGoOn
  <2>4. Len(posts') > 0
    BY <2>1, <2>2, <2>3
  <2>5. posts' # <<>>
    BY <2>4
  <2>6. Dial.pc \notin {"idle", "writing"} /\ reader.pc = "reading" /\ fromServer = <<>>
    BY DEF Shake, HandshakeFits
  <2> QED BY <2>1, <2>2, <2>3, <2>4, <2>5, <2>6
<1>1. \A j \in 1..Len(posts') : \/ j \in 1..Len(posts) /\ GoesOn(j)
                                \/ j # 1 /\ j \notin 1..Len(posts) /\ IsRefusal(j)
  BY <1>0 DEF PostsGoOn
<1>2. HandshakeFits'
  <2>1. ASSUME NEW j \in 1..Len(posts') PROVE posts'[j].what = "initialize" <=> j = 1
    <3>1. CASE j \in 1..Len(posts) /\ GoesOn(j)
      BY <3>1 DEF GoesOn, Shake, HandshakeFits
    <3>2. CASE j # 1 /\ j \notin 1..Len(posts) /\ IsRefusal(j)
      BY <3>2 DEF IsRefusal
    <3> QED BY <1>1, <3>1, <3>2
  <2> QED BY <1>0, <2>1 DEF HandshakeFits, Dial
<1>3. ASSUME wire'.given = wire.given PROVE UnheardFits'
  <2>1. 1 \in 1..Len(posts) /\ GoesOn(1)
    BY <1>0 DEF PostsGoOn
  <2>2. Unheard' => posts'[1].pc \in {"queued", "sent"}
    BY <1>0 DEF Unheard
  <2>3. Unheard' => Unheard
    BY <2>1, <2>2 DEF GoesOn, Unheard
  <2>4. CASE ~Unheard
    BY <2>3, <2>4 DEF UnheardFits
  <2>5. CASE Unheard /\ Unheard'
    <3>1. /\ ~wire.given /\ wire.stage # "ready" /\ wire.nextId <= 1 /\ Dial.pc # "greeting"
          /\ Dial.pc = "cancelling" => pending = {}
          /\ \A v \in Callers : caller[v].pc = "idle"
          /\ \A n \in Ids : slot[n] = <<>>
          /\ \A j \in 1..Len(posts) : j # 1 => posts[j].what \in {"cancelled", "refusal"} /\ pending = {}
      BY <2>5 DEF Shake, UnheardFits
    <3>2. ASSUME NEW j \in 1..Len(posts')
          PROVE  /\ j # 1 => posts'[j].what \in {"cancelled", "refusal"} /\ pending' = {}
                 /\ posts'[j].pc # "handing"
      <4>1. CASE j \in 1..Len(posts) /\ GoesOn(j)
        <5>1. CASE j = 1
          BY <2>2, <2>5, <5>1
        <5>2. CASE j # 1
          BY <2>5, <3>1, <4>1, <5>2 DEF GoesOn
        <5> QED BY <5>1, <5>2
      <4>2. CASE IsRefusal(j)
        BY <2>5, <4>2 DEF IsRefusal
      <4> QED BY <1>1, <4>1, <4>2
    <3> QED BY <1>3, <2>5, <3>1, <3>2 DEF UnheardFits, Dial
  <2> QED BY <2>3, <2>4, <2>5 DEF UnheardFits
<1>4. ASSUME wire'.given = wire.given PROVE SessionIsEchoed'
  <2>1. ASSUME NEW j \in 1..Len(posts'), wire.given, posts'[j].pc # "queued",
               posts'[j].what \in {"initialized", "list", "call"} \/ posts'[j].id > 1
        PROVE  posts'[j].carried
    <3>1. j \in 1..Len(posts) /\ GoesOn(j)
      BY <1>1, <2>1 DEF IsRefusal
    <3>2. CASE wire.given => posts'[j].carried
      BY <2>1, <3>2
    <3>3. CASE posts[j].pc # "queued" /\ posts'[j].carried = posts[j].carried
      BY <1>0, <2>1, <3>1, <3>3 DEF GoesOn, Shake, SessionIsEchoed
    <3> QED BY <2>1, <3>1, <3>2, <3>3 DEF GoesOn
  <2> QED BY <1>0, <1>4, <2>1 DEF SessionIsEchoed
<1> QED BY <1>2, <1>3, <1>4

LEMMA PostShake ==
    ASSUME WireRecsOK, Shake, wire.kind = "stream", NEW i \in 1..Len(posts),
           \/ BuildPost(i) \/ PostFails(i) \/ HearHeaders(i) \/ HearBody(i)
           \/ PostEnds(i) \/ PostHands(i) \/ PostRefuses(i)
    PROVE  Shake'
<1>0. /\ wire \in WireRecs /\ posts[i] \in PostRecs /\ posts \in Seq(PostRecs) /\ Len(posts) \in Nat
      /\ posts # <<>> /\ wire.given = wire.session /\ UnheardFits /\ posts[i].id \in Nat
  <2>1. posts # <<>>
    BY EmptySeq
  <2> QED BY <2>1, WireSeen DEF WireRecsOK, WireOK, PostsOK, Shake, HandshakeFits, PostRecs
<1> DEFINE Same == /\ wire' = wire /\ caller' = caller /\ reader' = reader /\ fromServer' = fromServer
                   /\ pending' \subseteq pending /\ (slot' = slot \/ ~Unheard)
<1>1. ASSUME Same, PostsGoOn PROVE Shake'
  BY <1>0, <1>1, PostsOn DEF Shake
<1>2. ASSUME Same, NEW p \in PostRecs, SetPost(i, p), p.what = posts[i].what, p.id = posts[i].id,
             p.carried = posts[i].carried, posts[i].pc # "queued", p.pc \notin {"queued", "sent"},
             Unheard /\ p.pc = "handing" => i = 1
      PROVE  Shake'
  <2>1. PostSet(i, p)
    BY <1>2, SetIsSet
  <2>2. PostsGoOn
    BY <1>0, <1>2, <2>1, OneGoesOn
  <2> QED BY <1>1, <1>2, <2>2
<1>3. CASE BuildPost(i)
  <2> DEFINE p == [posts[i] EXCEPT !.pc = "sent", !.carried = wire.session, !.mirrored = Mirrored(posts[i])]
  <2>1. wire.session \in BOOLEAN /\ Mirrored(posts[i]) \in BOOLEAN
    BY <1>0 DEF WireRecs, Mirrored
  <2>2. p \in PostRecs /\ p.pc = "sent" /\ p.what = posts[i].what /\ p.id = posts[i].id /\ p.carried = wire.session
    BY <1>0, <2>1 DEF PostRecs, PostPCs
  <2>3. SetPost(i, p) /\ Same /\ posts[i].pc = "queued"
    BY <1>3 DEF BuildPost
  <2> HIDE DEF p
  <2>4. PostSet(i, p)
    BY <2>2, <2>3, SetIsSet
  <2>5. PostsGoOn
    BY <1>0, <2>2, <2>3, <2>4, OneGoesOn
  <2> QED BY <1>1, <2>3, <2>5
<1>4. CASE PostFails(i)
  <2>0. PICK id \in Nat, asked \in BOOLEAN : FailsAs(i, id, asked)
    BY <1>0, <1>4, FailIs DEF PostRecs
  <2> DEFINE t == IF asked THEN <<id, 0>> ELSE <<>>
             c == IF asked THEN "handing" ELSE "over"
             p == [posts[i] EXCEPT !.pc = c, !.told = t]
  <2>1. t \in Seq(Nat) /\ c \in PostPCs /\ c \in {"handing", "over"}
    <3>1. <<id, 0>> \in Seq(Nat) /\ <<>> \in Seq(Nat)
      BY <1>0, EmptySeq
    <3> QED BY <3>1 DEF PostPCs
  <2>2. SetPost(i, p) /\ Same /\ posts[i].pc # "queued"
    BY <1>4, <2>0 DEF FailsAs, PostFails
  <2>3. p \in PostRecs /\ p.pc = c /\ p.what = posts[i].what /\ p.id = posts[i].id /\ p.carried = posts[i].carried
    <3> HIDE DEF t, c
    <3> QED BY <1>0, <2>1 DEF PostRecs
  <2>4. Unheard /\ c = "handing" => i = 1
    BY <1>0, <2>0 DEF FailsAs, UnheardFits
  <2> HIDE DEF p, c
  <2> QED BY <1>2, <2>1, <2>2, <2>3, <2>4
<1>5. CASE HearHeaders(i)
  <2> DEFINE p == [posts[i] EXCEPT !.pc = "body"]
  <2>1. p \in PostRecs /\ p.pc = "body" /\ p.what = posts[i].what /\ p.id = posts[i].id /\ p.carried = posts[i].carried
    BY <1>0 DEF PostRecs, PostPCs
  <2>2. /\ SetPost(i, p) /\ posts[i].pc = "sent" /\ pending' = pending /\ slot' = slot /\ caller' = caller
        /\ fromServer' = fromServer /\ reader' = reader
    BY <1>5 DEF HearHeaders
  <2>3. PICK gave \in BOOLEAN : /\ wire' = [wire EXCEPT !.session = @ \/ gave, !.given = @ \/ gave]
                                /\ gave => posts[i].what = "initialize"
    BY <1>5 DEF HearHeaders
  <2>4. /\ wire'.kind = wire.kind /\ wire'.stage = wire.stage /\ wire'.nextId = wire.nextId
        /\ wire'.given = (wire.given \/ gave) /\ wire'.session = (wire.session \/ gave)
    BY <1>0, <2>3 DEF WireRecs
  <2>5. wire.given \in BOOLEAN /\ wire.session \in BOOLEAN
    BY <1>0 DEF WireRecs
  <2>6. wire'.given = wire'.session
    BY <1>0, <2>4
  <2> HIDE DEF p
  <2>7. PostSet(i, p)
    BY <2>1, <2>2, SetIsSet
  <2>8. PostsGoOn
    BY <1>0, <2>1, <2>2, <2>7, OneGoesOn
  <2>9. HandshakeFits' /\ (wire'.given = wire.given => UnheardFits' /\ SessionIsEchoed')
    BY <1>0, <2>2, <2>4, <2>6, <2>8, PostsOn
  <2>10. CASE wire'.given = wire.given
    BY <2>9, <2>10 DEF Shake
  <2>11. CASE wire'.given # wire.given
    <3>1. gave /\ i = 1 /\ Unheard
      <4>1. gave
        BY <2>4, <2>5, <2>11
      <4>2. i = 1
        BY <2>3, <4>1 DEF Shake, HandshakeFits
      <4> QED BY <2>2, <4>1, <4>2 DEF Unheard
    <3>2. /\ Len(posts') = Len(posts) /\ posts'[1] = p /\ posts' \in Seq(PostRecs)
          /\ \A j \in 1..Len(posts) : j # 1 => posts'[j] = posts[j]
      BY <2>7, <3>1 DEF PostSet
    <3>3. UnheardFits'
      <4>1. posts' # <<>>
        BY <3>2
      <4>2. ~Unheard'
        BY <2>1, <3>2, <4>1 DEF Unheard
      <4> QED BY <4>2 DEF UnheardFits
    <3>4. ASSUME NEW j \in 1..Len(posts)
          PROVE  posts'[j].what \notin {"initialized", "list", "call"} /\ ~(posts'[j].id > 1)
      <4>1. posts'[j].what = posts[j].what /\ posts'[j].id = posts[j].id
        BY <2>1, <3>1, <3>2
      <4>2. posts[j].what \in {"initialize", "cancelled", "refusal"}
        BY <1>0, <3>1 DEF UnheardFits, Shake, HandshakeFits
      <4>3. posts[j].id \in 0..wire.nextId /\ wire.nextId \in Nat /\ wire.nextId <= 1
        BY <1>0, <3>1, WireSeen DEF UnheardFits
      <4> QED BY <4>1, <4>2, <4>3
    <3>5. DOMAIN posts' = 1..Len(posts)
      BY <3>2, LenProperties
    <3>6. SessionIsEchoed'
      BY <3>4, <3>5 DEF SessionIsEchoed
    <3> QED BY <2>9, <3>3, <3>6 DEF Shake
  <2> QED BY <2>10, <2>11
<1>6. CASE HearBody(i)
  <2>1. PICK line \in ({"answer"} \X seen) \cup {<<"request", 0>>} :
          SetPost(i, Handled(posts[i], line)) /\ ClaimFor(line)
    BY <1>6 DEF HearBody
  <2> DEFINE p == Handled(posts[i], line)
  <2>2. HeardLine(posts[i], p) /\ SetPost(i, p)
    BY <2>1, LineIsHeard
  <2>3. /\ wire' = wire /\ caller' = caller /\ reader' = reader /\ fromServer' = fromServer /\ slot' = slot
        /\ posts[i].pc = "body"
    BY <1>6 DEF HearBody
  <2> HIDE DEF p
  <2>4. p \in PostRecs /\ p.what = posts[i].what /\ p.id = posts[i].id /\ p.carried = posts[i].carried
        /\ pending' \subseteq pending
    BY <1>0, <2>2, HeardTyped
  <2>5. Unheard => pending = {}
    <3>1. Unheard => i # 1
      BY <1>0, <2>3 DEF Unheard
    <3> QED BY <1>0, <3>1 DEF UnheardFits
  <2>6. p.pc \in {"body", "refusing", "handing"} /\ (p.pc = "handing" => pending # {})
    <3>1. CASE p = posts[i]
      BY <2>3, <3>1
    <3>2. CASE p = [posts[i] EXCEPT !.pc = "refusing"]
      BY <1>0, <3>2 DEF PostRecs
    <3>3. ASSUME NEW n \in pending, p = [posts[i] EXCEPT !.pc = "handing", !.told = <<n>>]
          PROVE  p.pc = "handing" /\ pending # {}
      <4> DEFINE t == <<n>>
      <4>1. p = [posts[i] EXCEPT !.pc = "handing", !.told = t]
        BY <3>3
      <4> HIDE DEF t
      <4> QED BY <1>0, <4>1 DEF PostRecs
    <3> QED BY <2>2, <3>1, <3>2, <3>3 DEF HeardLine
  <2> QED BY <1>2, <2>2, <2>3, <2>4, <2>5, <2>6
<1>7. CASE PostEnds(i)
  <2> DEFINE p == [posts[i] EXCEPT !.pc = "over"]
  <2>1. p \in PostRecs /\ p.pc = "over" /\ p.what = posts[i].what /\ p.id = posts[i].id /\ p.carried = posts[i].carried
    BY <1>0 DEF PostRecs, PostPCs
  <2>2. SetPost(i, p) /\ Same /\ posts[i].pc # "queued"
    BY <1>7 DEF PostEnds
  <2> HIDE DEF p
  <2> QED BY <1>2, <2>1, <2>2
<1>8. CASE PostHands(i)
  <2> DEFINE c == IF Len(posts[i].told) = 2 THEN "over" ELSE "body"
             p == [posts[i] EXCEPT !.pc = c, !.told = <<>>]
  <2>1. p \in PostRecs /\ p.pc \in {"over", "body"} /\ p.what = posts[i].what /\ p.id = posts[i].id
        /\ p.carried = posts[i].carried
    <3>1. c \in PostPCs /\ c \in {"over", "body"} /\ <<>> \in Seq(Nat)
      BY EmptySeq DEF PostPCs
    <3> HIDE DEF c
    <3> QED BY <1>0, <3>1 DEF PostRecs
  <2>2. ~Unheard
    BY <1>0, <1>8 DEF PostHands, UnheardFits
  <2>3. SetPost(i, p) /\ Same /\ posts[i].pc # "queued"
    BY <1>8, <2>2 DEF PostHands
  <2> HIDE DEF p
  <2> QED BY <1>2, <2>1, <2>3
<1>9. CASE PostRefuses(i)
  <2> DEFINE p == [posts[i] EXCEPT !.pc = "body"]  s == [posts EXCEPT ![i] = p]  n == NewPost("refusal", 0)
  <2>1. p \in PostRecs /\ p.pc = "body" /\ p.what = posts[i].what /\ p.id = posts[i].id /\ p.carried = posts[i].carried
    BY <1>0 DEF PostRecs, PostPCs
  <2>2. Same /\ posts[i].pc = "refusing"
    BY <1>9 DEF PostRefuses
  <2>3. n \in PostRecs /\ n.pc = "queued" /\ n.what = "refusal"
    BY NewIsPost DEF Messages
  <2>4. SetPost(i, p) \/ posts' = Append(s, n)
    BY <1>9 DEF PostRefuses
  <2> HIDE DEF p, n
  <2>5. CASE SetPost(i, p)
    BY <1>2, <2>1, <2>2, <2>5
  <2>6. CASE posts' = Append(s, n)
    <3>1. /\ s \in Seq(PostRecs) /\ Len(s) = Len(posts)
          /\ \A j \in 1..Len(posts) : s[j] = IF j = i THEN p ELSE posts[j]
      BY <1>0, <2>1, ExceptSeq
    <3> HIDE DEF s
    <3>2. /\ Len(posts') = Len(posts) + 1 /\ posts' \in Seq(PostRecs)
          /\ posts'[Len(posts) + 1] = n /\ \A j \in 1..Len(posts) : posts'[j] = s[j]
      BY <2>3, <2>6, <3>1, AddIsAdded
    <3>3. ASSUME NEW j \in 1..Len(posts) PROVE GoesOn(j)
      <4>1. CASE j = i
        BY <2>1, <2>2, <3>1, <3>2, <4>1 DEF GoesOn
      <4>2. CASE j # i
        BY <1>0, <3>1, <3>2, <4>2 DEF GoesOn, UnheardFits
      <4> QED BY <4>1, <4>2
    <3>4. Unheard => pending = {}
      <4>1. Unheard => i # 1
        BY <1>0, <2>2 DEF Unheard
      <4> QED BY <1>0, <4>1 DEF UnheardFits
    <3>5. PostsGoOn
      BY <1>0, <2>3, <3>2, <3>3, <3>4 DEF PostsGoOn, IsRefusal
    <3> QED BY <1>1, <2>2, <3>5
  <2> QED BY <2>4, <2>5, <2>6
<1> QED BY <1>3, <1>4, <1>5, <1>6, <1>7, <1>8, <1>9

\* The rest of a connection over POSTs.
LEMMA RestShake ==
    ASSUME WireRecsOK, Shake, wire.kind = "stream",
           \/ NameEndpoint \/ Greet \/ ReadLine \/ ReaderHands \/ ReaderRefuses \/ ReaderEnds
           \/ ServerReads \/ ServerSays \/ ServerGoes \/ CloseConn \/ EndLife \/ ConnClosed
           \/ UNCHANGED wireVars
    PROVE  Shake'
<1>0. /\ wire \in WireRecs /\ wire.given = wire.session /\ reader.pc = "reading" /\ fromServer = <<>>
      /\ caller \in [Callers \cup {"dial"} -> TalkRecs] /\ wire.nextId \in Nat
  BY WireSeen DEF WireRecsOK, WireOK, TalkOK, Shake, HandshakeFits
<1>1. CASE Greet
  <2> DEFINE p == NewPost("initialized", 0)
  <2>1. Dial.pc = "greeting" /\ reader' = reader /\ fromServer' = fromServer
    BY <1>1 DEF Greet, WaitsAt, Dial
  <2>2. ~Unheard /\ posts # <<>>
    BY <2>1, WhoIsHeard
  <2>3. wire'.kind = wire.kind /\ wire'.given = wire.given /\ wire'.session = wire.session
    BY <1>0, <1>1 DEF Greet, Stage, WireRecs
  <2>4. caller'["dial"].pc = "over"
    BY <1>0, <1>1 DEF Greet, Rest, Idle
  <2>5. posts' = posts \/ PostAdded(p)
    <3>1. "initialized" \in Messages /\ 0 \in 0..wire.nextId
      BY <1>0 DEF Messages
    <3> QED BY <1>1, <3>1, SendCases DEF Greet
  <2>6. p.what = "initialized" /\ p.pc = "queued"
    BY DEF NewPost
  <2> HIDE DEF p
  <2>7. HandshakeFits'
    <3>1. posts' = posts \/ \E q : PostAdded(q) /\ q.what # "initialize"
      BY <2>5, <2>6
    <3> QED BY <1>0, <2>1, <2>2, <2>3, <2>4, <3>1, HandshakeOn DEF Shake
  <2>8. UnheardFits'
    BY <2>2, <2>5, HeardStays DEF UnheardFits
  <2>9. SessionIsEchoed'
    BY <2>3, <2>5, <2>6, EchoKept DEF Shake
  <2> QED BY <2>7, <2>8, <2>9 DEF Shake
<1>2. CASE ~Greet
  <2>1. NameEndpoint \/ CloseConn \/ EndLife \/ ConnClosed \/ UNCHANGED wireVars
    BY <1>0, <1>2 DEF Greet, ReadLine, ReaderHands, ReaderRefuses, ReaderEnds, ServerReads, ServerSays, ServerGoes, Stdio
  <2>2. /\ wire'.kind = wire.kind /\ wire'.given = wire.given /\ wire'.session = wire.session
        /\ wire'.nextId = wire.nextId /\ wire'.stage \in {wire.stage, "dialing", "failed", "closing", "closed"}
    BY <1>0, <2>1 DEF NameEndpoint, CloseConn, EndLife, ConnClosed, Stage, WireRecs, wireVars
  <2>3. /\ posts' = posts /\ caller' = caller /\ slot' = slot /\ reader' = reader /\ fromServer' = fromServer
        /\ pending' \subseteq pending
    BY <2>1 DEF NameEndpoint, CloseConn, EndLife, ConnClosed, wireVars
  <2>4. HandshakeFits'
    BY <2>2, <2>3 DEF Shake, HandshakeFits, Dial
  <2>5. UnheardFits'
    <3>1. CASE ~Unheard
      BY <2>3, <3>1, HeardStays DEF UnheardFits
    <3>2. CASE Unheard
      <4>1. /\ ~wire.given /\ wire.stage # "ready" /\ wire.nextId <= 1 /\ Dial.pc # "greeting"
            /\ Dial.pc = "cancelling" => pending' = {}
            /\ \A w \in Callers : caller[w].pc = "idle"
            /\ \A n \in Ids : slot[n] = <<>>
            /\ \A i \in 1..Len(posts) : i # 1 => posts[i].what \in {"cancelled", "refusal"} /\ pending' = {}
            /\ \A i \in 1..Len(posts) : posts[i].pc # "handing"
        BY <2>3, <3>2 DEF Shake, UnheardFits
      <4>2. wire'.stage # "ready"
        BY <2>2, <4>1
      <4> QED BY <2>2, <2>3, <4>1, <4>2 DEF UnheardFits, Dial
    <3> QED BY <3>1, <3>2
  <2>6. SessionIsEchoed'
    BY <2>2, <2>3, EchoKept DEF Shake
  <2> QED BY <2>4, <2>5, <2>6 DEF Shake
<1> QED BY <1>1, <1>2

LEMMA WireInvInit ==
    ASSUME NEW kinds \in SUBSET Kinds, NEW uses \in SUBSET {"probe", "pool"}, WireInit(kinds, uses)
    PROVE  WireInv
<1>1. PICK kind \in kinds, use \in uses :
          wire = [kind |-> kind, use |-> use, up |-> TRUE, closed |-> FALSE, ended |-> FALSE, dead |-> FALSE,
                  session |-> FALSE, given |-> FALSE, listed |-> FALSE, nextId |-> 0,
                  stage |-> IF kind = "legacy" THEN "streaming" ELSE "dialing"]
  BY DEF WireInit
<1>2. /\ pending = {} /\ slot = [i \in Ids |-> <<>>] /\ caller = [w \in Callers \cup {"dial"} |-> Idle]
      /\ posts = <<>> /\ toChild = <<>> /\ fromServer = <<>> /\ seen = {} /\ lines = 0
      /\ reader = [pc |-> "reading", id |-> 0, told |-> <<>>]
  BY DEF WireInit
<1>3. kind \in Kinds /\ use \in {"probe", "pool"} /\ MaxPosts[kind] \in Nat
  BY WireNumbers
<1>4. /\ wire \in WireRecs /\ wire.nextId = 0 /\ wire.kind = kind /\ wire.stage \in {"streaming", "dialing"}
      /\ wire.given = FALSE /\ wire.session = FALSE
  <2> DEFINE first == IF kind = "legacy" THEN "streaming" ELSE "dialing"
  <2>1. first \in {"streaming", "dialing"}
    OBVIOUS
  <2> HIDE DEF first
  <2>2. wire = [kind |-> kind, use |-> use, up |-> TRUE, closed |-> FALSE, ended |-> FALSE, dead |-> FALSE,
                session |-> FALSE, given |-> FALSE, listed |-> FALSE, nextId |-> 0, stage |-> first]
    BY <1>1 DEF first
  <2>3. 0 \in 0..MaxIds
    BY WireNumbers
  <2> QED BY <1>3, <2>1, <2>2, <2>3 DEF WireRecs, Stages
<1>5. Idle \in TalkRecs /\ Idle.pc = "idle" /\ Idle.told = <<>> /\ Idle.id = 0
  <2>1. <<>> \in Seq(Nat)
    BY EmptySeq
  <2> QED BY <2>1 DEF Idle, TalkRecs, TalkPCs
<1>6. \A w \in Callers \cup {"dial"} : caller[w] = Idle
  BY <1>2
<1>7. Len(posts) = 0 /\ Len(toChild) = 0 /\ Len(fromServer) = 0 /\ \A i \in 1..0 : FALSE
  BY <1>2, EmptySeq
<1>8. WireRecsOK
  <2>1. WireOK
    BY <1>2, <1>4, WireNumbers DEF WireOK
  <2>2. TalkOK
    BY <1>2, <1>4, <1>5, <1>6 DEF TalkOK
  <2>3. PostsOK
    BY <1>2, <1>3, <1>4, <1>7, EmptySeq DEF PostsOK
  <2>4. PipesOK
    BY <1>2, <1>7, EmptySeq, WireNumbers DEF PipesOK
  <2>5. ReadOK
    <3>1. <<>> \in Seq(Nat)
      BY EmptySeq
    <3> QED BY <1>2, <3>1 DEF ReadOK, ReadRecs
  <2> QED BY <2>1, <2>2, <2>3, <2>4, <2>5 DEF WireRecsOK
<1>9. Claims
  BY <1>2, <1>7 DEF Claims, SlotsFit, ReaderFits, PostsFit, ClaimsApart
<1>10. CallsFit
  BY <1>5, <1>6 DEF CallsFit, CallersFit, ToldItsOwn
<1>11. Closing
  BY <1>4 DEF Closing, ClosingFits, ClosedIsQuiet
<1>12. Shake
  <2>1. Dial.pc = "idle"
    BY <1>5, <1>6 DEF Dial
  <2>2. HandshakeFits
    <3>1. reader.pc = "reading" /\ fromServer = <<>> /\ posts = <<>>
      BY <1>2
    <3>2. \A i \in 1..Len(posts) : FALSE
      BY <1>7
    <3> QED BY <1>4, <2>1, <3>1, <3>2 DEF HandshakeFits
  <2>3. UnheardFits
    BY <1>2, <1>4, <1>5, <1>6, <1>7, <2>1 DEF UnheardFits
  <2>4. SessionIsEchoed
    BY <1>4 DEF SessionIsEchoed
  <2> QED BY <2>2, <2>3, <2>4 DEF Shake
<1> QED BY <1>8, <1>9, <1>10, <1>11, <1>12 DEF WireInv, Claims, CallsFit, Closing, Shake

\* A step leaves alone what kind of connection it is; and no session is given where none is asked.
LEMMA KindIsKept ==
    ASSUME WireRecsOK, [WireNext]_wireVars
    PROVE  /\ wire'.kind = wire.kind
           /\ wire.kind # "stream" => wire'.given = wire.given /\ wire'.session = wire.session
<1>0. wire \in WireRecs /\ DOMAIN caller = Callers \cup {"dial"} /\ DOMAIN posts = 1..Len(posts)
      /\ wire.given \in BOOLEAN /\ wire.session \in BOOLEAN
  BY WireSeen DEF WireRecsOK, WireOK, WireRecs
<1> DEFINE Goal == /\ wire'.kind = wire.kind
                   /\ wire.kind # "stream" => wire'.given = wire.given /\ wire'.session = wire.session
<1>1. ASSUME NEW w \in Callers \cup {"dial"},
             \/ BeginCall(w) \/ WriteCall(w) \/ HearReply(w) \/ HearDeath(w) \/ GiveUp(w) \/ SendCancelled(w)
      PROVE  Goal
  BY <1>0, <1>1 DEF BeginCall, WriteCall, HearReply, HearDeath, GiveUp, SendCancelled, WireRecs
<1>2. ASSUME NEW i \in 1..Len(posts),
             \/ BuildPost(i) \/ PostFails(i) \/ HearBody(i) \/ PostEnds(i) \/ PostHands(i) \/ PostRefuses(i)
      PROVE  Goal
  BY <1>2 DEF BuildPost, PostFails, HearBody, PostEnds, PostHands, PostRefuses
<1>3. ASSUME NEW i \in 1..Len(posts), HearHeaders(i) PROVE Goal
  <2>1. PICK gave \in BOOLEAN : /\ wire' = [wire EXCEPT !.session = @ \/ gave, !.given = @ \/ gave]
                                /\ gave => wire.kind = "stream"
    BY <1>3 DEF HearHeaders
  <2>2. /\ wire'.kind = wire.kind /\ wire'.given = (wire.given \/ gave) /\ wire'.session = (wire.session \/ gave)
    BY <1>0, <2>1 DEF WireRecs
  <2>3. wire.kind # "stream" => ~gave
    BY <2>1
  <2> QED BY <1>0, <2>2, <2>3
<1>4. ASSUME \/ NameEndpoint \/ Greet \/ ReadLine \/ ReaderHands \/ ReaderRefuses \/ ReaderEnds
             \/ ServerReads \/ ServerSays \/ ServerGoes \/ CloseConn \/ EndLife \/ ConnClosed
             \/ UNCHANGED wireVars
      PROVE  Goal
  BY <1>0, <1>4
     DEF NameEndpoint, Greet, ReadLine, ReaderHands, ReaderRefuses, ReaderEnds, ServerReads, ServerSays, ServerGoes,
         CloseConn, EndLife, ConnClosed, Stage, WireRecs, wireVars
<1> QED BY <1>0, <1>1, <1>2, <1>3, <1>4 DEF WireNext

LEMMA WireInvStep == WireInv /\ [WireNext]_wireVars => WireInv'
<1> SUFFICES ASSUME WireInv, [WireNext]_wireVars PROVE WireInv'
  OBVIOUS
<1>0. WireRecsOK /\ Claims /\ CallsFit /\ Closing /\ Shake
  BY DEF WireInv, Claims, CallsFit, Closing, Shake
<1> DEFINE ACall(w) == \/ BeginCall(w) \/ WriteCall(w) \/ HearReply(w) \/ HearDeath(w) \/ GiveUp(w) \/ SendCancelled(w)
           APost(i) == \/ BuildPost(i) \/ PostFails(i) \/ HearHeaders(i) \/ HearBody(i)
                       \/ PostEnds(i) \/ PostHands(i) \/ PostRefuses(i)
           ARest    == \/ NameEndpoint \/ Greet \/ ReadLine \/ ReaderHands \/ ReaderRefuses \/ ReaderEnds
                       \/ ServerReads \/ ServerSays \/ ServerGoes \/ CloseConn \/ EndLife \/ ConnClosed
           Goal     == WireRecsOK' /\ Claims' /\ CallsFit' /\ Closing' /\ Shake'
<1>1. wire.kind # "stream" => Shake'
  BY <1>0, KindIsKept, ShakeOther
<1>2. ASSUME NEW w \in Callers \cup {"dial"}, ACall(w) PROVE Goal
  <2>1. WireRecsOK'
    BY <1>0, <1>2, CallsTyped DEF Claims, CallsFit
  <2>2. Claims'
    BY <1>0, <1>2, CallsClaims DEF CallsFit
  <2>3. CallsFit'
    BY <1>0, <1>2, CallsTold
  <2>4. Closing'
    BY <1>0, <1>2, CallsClosing
  <2>5. Shake'
    BY <1>0, <1>1, <1>2, CallShake, DialShake DEF CallsFit
  <2> QED BY <2>1, <2>2, <2>3, <2>4, <2>5
<1>3. ASSUME NEW i \in 1..Len(posts), APost(i) PROVE Goal
  <2>1. WireRecsOK'
    BY <1>0, <1>3, PostsTyped DEF Claims
  <2>2. Claims'
    BY <1>0, <1>3, PostsClaims
  <2>3. CallsFit'
    BY <1>0, <1>3, RestTold
  <2>4. Closing'
    BY <1>0, <1>3, PostsClosing
  <2>5. Shake'
    BY <1>0, <1>1, <1>3, PostShake
  <2> QED BY <2>1, <2>2, <2>3, <2>4, <2>5
<1>4. ASSUME ARest \/ UNCHANGED wireVars PROVE Goal
  <2>1. WireRecsOK'
    BY <1>0, <1>4, RestTyped, StillTyped DEF Claims
  <2>2. Claims'
    BY <1>0, <1>4, RestClaims
  <2>3. CallsFit'
    BY <1>0, <1>4, RestTold
  <2>4. Closing'
    BY <1>0, <1>4, RestClosing DEF Shake
  <2>5. Shake'
    BY <1>0, <1>1, <1>4, RestShake
  <2> QED BY <2>1, <2>2, <2>3, <2>4, <2>5
<1>5. DOMAIN caller = Callers \cup {"dial"} /\ DOMAIN posts = 1..Len(posts)
  BY <1>0, WireSeen
<1>6. (\E w \in Callers \cup {"dial"} : ACall(w)) \/ (\E i \in 1..Len(posts) : APost(i)) \/ ARest \/ UNCHANGED wireVars
  BY <1>5 DEF WireNext
<1> HIDE DEF ACall, APost, ARest, Goal
<1>7. Goal
  BY <1>2, <1>3, <1>4, <1>6
<1> QED BY <1>7 DEF Goal, WireInv, Claims, CallsFit, Closing, Shake

LEMMA WireInvAlways == WireSpec => []WireInv
<1>1. WireInit(Kinds, {"probe", "pool"}) => WireInv
  BY WireInvInit
<1> QED BY <1>1, WireInvStep, PTL DEF WireSpec

LEMMA WireInvHolds ==
    ASSUME WireInv
    PROVE  WireTypeOK /\ WireIsSound
<1>1. WireTypeOK
  BY DEF WireInv, WireRecsOK, WireOK, PostsOK, PipesOK, WireTypeOK
<1>2. NobodyIsHeldUp
  <2>1. reader.pc = "handing" => Fits(reader.told[1])
    BY DEF WireInv, ReaderFits, Claimed, Fits
  <2>2. \A i \in DOMAIN posts : posts[i].pc = "handing" => Fits(posts[i].told[1])
    BY WireSeen DEF WireInv, PostsFit, PostFits, Claimed, Fits
  <2> QED BY <2>1, <2>2 DEF NobodyIsHeldUp
<1> QED BY <1>1, <1>2 DEF WireInv, WireIsSound

\* The ids, the POSTs and the pipes of a connection stay within their bounds, and nobody
\* waits for an id, nor is asked under one, that was not given out (Conn.Call).
THEOREM WireTyped == WireSpec => []WireTypeOK
<1>1. WireInv => WireTypeOK
  BY WireInvHolds
<1> QED BY <1>1, WireInvAlways, PTL

\* Late or doubled as answers may come, everybody is told its own or an error, whoever
\* handles one is never held up, a session given is echoed, and a closed connection is
\* quiet (Conn.Call, deliver, post, Close).
THEOREM EverybodyToldItsOwn == WireSpec => []WireIsSound
<1>1. WireInv => WireIsSound
  BY WireInvHolds
<1> QED BY <1>1, WireInvAlways, PTL


------------------------------------------------------------------------------
(* What an agent's call to a server passes through, in the instances of    *)
(* MCPlatform.                                                             *)

LEMMA SomePolicies ==
    /\ {<<TRUE, FALSE>>, <<FALSE, TRUE>>} \in SUBSET (BOOLEAN \X BOOLEAN)
    /\ {<<FALSE, FALSE>>} \in SUBSET (BOOLEAN \X BOOLEAN)
<1>1. <<TRUE, FALSE>> \in BOOLEAN \X BOOLEAN
  OBVIOUS
<1>2. <<FALSE, TRUE>> \in BOOLEAN \X BOOLEAN
  OBVIOUS
<1>3. <<FALSE, FALSE>> \in BOOLEAN \X BOOLEAN
  OBVIOUS
<1>4. ASSUME NEW p \in {<<TRUE, FALSE>>, <<FALSE, TRUE>>} PROVE p \in BOOLEAN \X BOOLEAN
  <2>1. CASE p = <<TRUE, FALSE>>
    BY <1>1, <2>1, Zenon
  <2>2. CASE p = <<FALSE, TRUE>>
    BY <1>2, <2>2, Zenon
  <2> QED BY <2>1, <2>2
<1>5. ASSUME NEW p \in {<<FALSE, FALSE>>} PROVE p \in BOOLEAN \X BOOLEAN
  BY <1>3, Zenon
<1> QED BY <1>4, <1>5, Zenon

LEMMA McpInvInit == PlatformInit => SignInInv /\ WireInv
<1> SUFFICES ASSUME PlatformInit PROVE SignInInv /\ WireInv
  OBVIOUS
<1>1. PICK gens \in SUBSET Nat, policies \in SUBSET (BOOLEAN \X BOOLEAN) : SignInInit(gens, policies)
  <2>1. CASE focus = "signIn"
    <3>1. {0, 1} \in SUBSET Nat /\ {<<TRUE, FALSE>>, <<FALSE, TRUE>>} \in SUBSET (BOOLEAN \X BOOLEAN)
      BY SomePolicies
    <3>2. SignInInit({0, 1}, {<<TRUE, FALSE>>, <<FALSE, TRUE>>})
      BY <2>1 DEF PlatformInit
    <3> QED BY <3>1, <3>2
  <2>2. CASE focus # "signIn"
    <3>1. {} \in SUBSET Nat /\ {<<FALSE, FALSE>>} \in SUBSET (BOOLEAN \X BOOLEAN)
      BY SomePolicies
    <3>2. SignInInit({}, {<<FALSE, FALSE>>})
      BY <2>2 DEF PlatformInit
    <3> QED BY <3>1, <3>2
  <2> QED BY <2>1, <2>2
<1>2. PICK kinds \in SUBSET Kinds, uses \in SUBSET {"probe", "pool"} : WireInit(kinds, uses)
  <2>1. CASE focus = "wire"
    <3>1. Kinds \in SUBSET Kinds /\ {"probe", "pool"} \in SUBSET {"probe", "pool"}
      OBVIOUS
    <3>2. WireInit(Kinds, {"probe", "pool"})
      BY <2>1 DEF PlatformInit
    <3> QED BY <3>1, <3>2
  <2>2. CASE focus # "wire"
    <3>1. {"stream"} \in SUBSET Kinds /\ {"pool"} \in SUBSET {"probe", "pool"}
      BY WireRests
    <3>2. WireInit({"stream"}, {"pool"})
      BY <2>2 DEF PlatformInit
    <3> QED BY <3>1, <3>2
  <2> QED BY <2>1, <2>2
<1> QED BY <1>1, <1>2, SignInRecsInit, WireInvInit

LEMMA McpInvStep ==
    ASSUME SignInInv, WireInv,
           [PlatformNext]_<<focus, shelfVars, layerVars, backendVars, warmVars, updateVars, signInVars, wireVars>>
    PROVE  SignInInv' /\ WireInv'
<1>1. [SignInNext]_signInVars
  BY DEF PlatformNext
<1>2. [WireNext]_wireVars
  BY DEF PlatformNext
<1> QED BY <1>1, <1>2, SignInInvStep, WireInvStep

\* In the instances of MCPlatform too a refresh keeps what was granted (mcpoauth), and every
\* caller of a connection is told the answer to what it asked (mcpclient).
THEOREM McpHolds == PlatformSpec => []McpIsSound
<1>1. SignInInv /\ WireInv => McpIsSound
  BY WireInvHolds DEF SignInInv, SignInIsSound, McpIsSound
<1> QED BY <1>1, McpInvInit, McpInvStep, PTL DEF PlatformSpec
===============================================================================
