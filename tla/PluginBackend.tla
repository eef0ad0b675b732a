----------------------------- MODULE PluginBackend -----------------------------
(***************************************************************************)
(* A plugin's backend that runs as a child process (worker/worker.go): the *)
(* calls of pages and of queued tasks (server/plugin_backend.go), one at a *)
(* time down one pipe, the child's start, its hello and its end, and what  *)
(* it asks the host for before it answers (server/plugin_host.go).         *)
(*                                                                         *)
(* A frame is who it answers or what it asks.  The child follows the        *)
(* protocol as far as it lives: it may be slow, say nothing, say what is no *)
(* frame, and die at any point.  The reader a timeout leaves behind reads  *)
(* the worker's fields without its lock; what it does then is chosen.      *)
(***************************************************************************)
EXTENDS Naturals, Sequences, FiniteSets

CONSTANTS
    Calls,        \* calls of one plugin, each made once
    MaxHostCalls, \* host calls of one exchange, after which it is ended
    MaxChildren,  \* bound: children started
    MaxNoises,    \* bound: frames that are none
    MaxVersion    \* bound: versions of the row

ASSUME BackendConstants ==
    {MaxHostCalls, MaxChildren, MaxNoises, MaxVersion} \subseteq Nat

VARIABLES
    call,     \* [Calls -> where it is, how often its exchange was asked, what it was told]
    holder,   \* w.mu: the call that holds the worker
    child,    \* w.cmd: the child there is, and where its program stands
    requests, \* what was written to the child and not read by it
    frames,   \* what the child wrote and nobody read
    resting,  \* nextTry is ahead
    loose,    \* a reader is left of a call that timed out
    children, \* started so far
    alive,    \* children that run
    noises,
    row,      \* the plugin's row in plugin_kv: its version, 0 for no row
    swaps,    \* the versions of this row's life a swap was told true from
    lostSwap  \* whether one was told so twice

backendVars == <<call, holder, child, requests, frames, resting, loose, children, alive, noises,
                 row, swaps, lostSwap>>

NoCall    == "nobody"
NoAnswer  == "none"
CallPCs   == {"idle", "waiting", "greeting", "writing", "reading", "told", "gone"}
ChildAts  == {"none", "greeting", "listening", "working", "asking", "dead"}
AtRest    == [pc |-> "idle", asked |-> 0, told |-> NoAnswer]
NoChild   == [at |-> "none", by |-> NoCall]

\* Whoever calls is somebody.
ASSUME SomebodyCalls == NoCall \notin Calls

HostCalls == {[say |-> how, of |-> v] : how \in {"set", "delete", "swap"}, v \in 0..MaxVersion}
Hello     == [say |-> "hello", of |-> 0]
Noise     == [say |-> "noise", of |-> 0]
AnswerOf(c) == [say |-> "answer", of |-> c]
Hears(c, what) == /\ call[c].pc = "reading" /\ call[c].asked < MaxHostCalls
                  /\ frames # <<>> /\ Head(frames).say \in what

BackendInit ==
    /\ call = [c \in Calls |-> AtRest] /\ holder = NoCall /\ child = NoChild
    /\ requests = <<>> /\ frames = <<>> /\ resting = FALSE /\ loose = FALSE
    /\ children = 0 /\ alive = {} /\ noises = 0
    /\ row = 0 /\ swaps = {} /\ lostSwap = FALSE

Kv    == <<row, swaps, lostSwap>>
Pipes == <<requests, frames>>
Born  == <<children, noises>>

------------------------------------------------------------------------------
(* Call.                                                                   *)

AskPlugin(c) ==
    /\ call[c].pc = "idle" /\ call' = [call EXCEPT ![c].pc = "waiting"]
    /\ UNCHANGED <<holder, child, Pipes, resting, loose, Born, alive, Kv>>

\* The call concludes and lets go of the worker.
Tell(c, what) ==
    /\ call' = [call EXCEPT ![c].pc = "told", ![c].told = what] /\ holder' = NoCall

StopLocked ==
    /\ child' = NoChild /\ requests' = <<>> /\ frames' = <<>> /\ alive' = alive \ {children}

\* ensure: a child that was started is used, dead or not; otherwise one is started,
\* unless the last failure was just now.
UseChild(c) ==
    /\ call[c].pc = "waiting" /\ holder = NoCall /\ child.at # "none"
    /\ holder' = c /\ call' = [call EXCEPT ![c].pc = "writing"]
    /\ UNCHANGED <<child, Pipes, resting, loose, Born, alive, Kv>>

RefuseForNow(c) ==
    /\ call[c].pc = "waiting" /\ holder = NoCall /\ child.at = "none" /\ resting
    /\ Tell(c, "refused")
    /\ UNCHANGED <<child, Pipes, resting, loose, Born, alive, Kv>>

StartChild(c) ==
    /\ call[c].pc = "waiting" /\ holder = NoCall /\ child.at = "none" /\ ~resting
    /\ children < MaxChildren /\ children' = children + 1
    /\ holder' = c /\ call' = [call EXCEPT ![c].pc = "greeting"]
    /\ child' = [at |-> "greeting", by |-> NoCall] /\ alive' = alive \cup {children'}
    /\ UNCHANGED <<Pipes, resting, loose, noises, Kv>>

StartFails(c) ==
    /\ call[c].pc = "waiting" /\ holder = NoCall /\ child.at = "none" /\ ~resting
    /\ Tell(c, "failed") /\ resting' = TRUE
    /\ UNCHANGED <<child, Pipes, loose, Born, alive, Kv>>

HearHello(c) ==
    /\ call[c].pc = "greeting" /\ frames # <<>> /\ Head(frames) = Hello
    /\ frames' = Tail(frames) /\ call' = [call EXCEPT ![c].pc = "writing"] /\ resting' = FALSE
    /\ UNCHANGED <<holder, child, requests, loose, Born, alive, Kv>>

\* No hello: another contract, not a frame, the end of the output, or nothing in time.
NoHello(c) ==
    /\ call[c].pc = "greeting"
    /\ \/ frames # <<>> /\ Head(frames) # Hello /\ UNCHANGED loose
       \/ child.at = "dead" /\ frames = <<>> /\ UNCHANGED loose
       \/ loose' \in {loose, TRUE}
    /\ StopLocked /\ Tell(c, "failed") /\ resting' = TRUE
    /\ UNCHANGED <<Born, Kv>>

WriteRequest(c) ==
    /\ call[c].pc = "writing" /\ child.at # "dead"
    /\ requests' = Append(requests, c) /\ call' = [call EXCEPT ![c].pc = "reading"]
    /\ UNCHANGED <<holder, child, frames, resting, loose, Born, alive, Kv>>

\* The answer, unless it is no envelope of this contract.
HearAnswer(c) ==
    /\ Hears(c, {"answer"}) /\ frames' = Tail(frames)
    /\ \E told \in {Head(frames).of, "failed"} : Tell(c, told)
    /\ UNCHANGED <<child, requests, resting, loose, Born, alive, Kv>>

(* kv: one statement on the row, or for a swap from nothing a second one that inserts
   it; the reply is whether the row is at version 1 then.                  *)
Exists == row > 0

\* Mutant of Swap: the statement does not ask for the version.
SwapAny(v) ==
    IF v = 0 THEN [row |-> IF Exists THEN row ELSE 1, told |-> row \in {0, 1}]
    ELSE [row |-> IF Exists THEN row + 1 ELSE row, told |-> Exists]

Swap(v) ==
    IF v = 0 THEN [row |-> IF Exists THEN row ELSE 1, told |-> row \in {0, 1}]
    ELSE [row |-> IF row = v THEN row + 1 ELSE row, told |-> row = v]

ServeHost(ask) ==
    CASE ask.say = "set"    -> row' = row + 1 /\ UNCHANGED <<swaps, lostSwap>>
      [] ask.say = "delete" -> row' = 0 /\ swaps' = {} /\ UNCHANGED lostSwap
      [] ask.say = "swap"   ->
            LET done == Swap(ask.of)
                won  == IF done.told /\ ask.of > 0 THEN {ask.of} ELSE {}
            IN row' = done.row /\ swaps' = swaps \cup won /\ lostSwap' = (lostSwap \/ won \cap swaps # {})

\* The host is asked, and its reply is written before the next frame is read.
ServeAsk(c) ==
    /\ Hears(c, {"set", "delete", "swap"}) /\ row < MaxVersion
    /\ ServeHost(Head(frames)) /\ frames' = Tail(frames)
    /\ call' = [call EXCEPT ![c].asked = @ + 1]
    /\ child' = IF child.at = "asking" THEN [child EXCEPT !.at = "working"] ELSE child
    /\ UNCHANGED <<holder, requests, resting, loose, Born, alive>>

\* Mutant of ExchangeFails: the child is kept for the next call.
ExchangeFailsKept(c) ==
    /\ call[c].pc \in {"writing", "reading"}
    /\ loose' \in {loose, TRUE} /\ Tell(c, "failed")
    /\ UNCHANGED <<child, Pipes, resting, Born, alive, Kv>>

\* Anything that goes wrong in an exchange, the deadline among it: the child is stopped.
ExchangeFails(c) ==
    /\ call[c].pc \in {"writing", "reading"}
    /\ \/ child.at = "dead" /\ (call[c].pc = "writing" \/ frames = <<>>) /\ UNCHANGED loose
       \/ Hears(c, {"noise"}) /\ UNCHANGED loose
       \/ call[c].asked = MaxHostCalls /\ UNCHANGED loose
       \/ call[c].pc = "reading" /\ loose' \in {loose, TRUE}
    /\ StopLocked /\ Tell(c, "failed")
    /\ UNCHANGED <<resting, Born, Kv>>

\* nextTry passes.
RestEnds ==
    /\ resting /\ resting' = FALSE
    /\ UNCHANGED <<call, holder, child, Pipes, loose, Born, alive, Kv>>

------------------------------------------------------------------------------
(* The reader that was left behind finds no worker's output and takes the process
   down, which comes up with no child; or it reads the next child's.       *)

LoosePanics ==
    /\ loose /\ child.at = "none" /\ loose' = FALSE
    /\ call' = [c \in Calls |-> IF call[c].pc \in {"idle", "told"} THEN call[c]
                                ELSE [call[c] EXCEPT !.pc = "gone"]]
    /\ holder' = NoCall /\ resting' = FALSE
    /\ UNCHANGED <<child, Pipes, Born, alive, Kv>>

LooseReads ==
    /\ loose /\ frames # <<>> /\ loose' = FALSE
    /\ frames' \in {Tail(frames), <<Noise>> \o Tail(frames)}
    /\ UNCHANGED <<call, holder, child, requests, resting, Born, alive, Kv>>

------------------------------------------------------------------------------
(* The child.                                                              *)

Does(at, by) == child' = [at |-> at, by |-> by]
OnlyChild == UNCHANGED <<call, holder, resting, loose, children, Kv>>

SayHello ==
    /\ child.at = "greeting" /\ Does("listening", NoCall) /\ frames' = Append(frames, Hello)
    /\ OnlyChild /\ UNCHANGED <<requests, alive, noises>>

ReadRequest ==
    /\ child.at = "listening" /\ requests # <<>> /\ Does("working", Head(requests))
    /\ requests' = Tail(requests) /\ OnlyChild /\ UNCHANGED <<frames, alive, noises>>

AskHost(ask) ==
    /\ child.at = "working" /\ Does("asking", child.by)
    /\ (ask.say # "swap" => ask.of = 0) /\ frames' = Append(frames, ask)
    /\ OnlyChild /\ UNCHANGED <<requests, alive, noises>>

AnswerCall ==
    /\ child.at = "working" /\ Does("listening", NoCall) /\ frames' = Append(frames, AnswerOf(child.by))
    /\ OnlyChild /\ UNCHANGED <<requests, alive, noises>>

SayNoise ==
    /\ child.at \in {"greeting", "working"} /\ noises < MaxNoises /\ noises' = noises + 1
    /\ Does("listening", NoCall) /\ frames' = Append(frames, Noise)
    /\ OnlyChild /\ UNCHANGED <<requests, alive>>

Die ==
    /\ child.at \notin {"none", "dead"} /\ Does("dead", NoCall) /\ alive' = alive \ {children}
    /\ OnlyChild /\ UNCHANGED <<Pipes, noises>>

BackendNext ==
    \/ \E c \in Calls : \/ AskPlugin(c) \/ UseChild(c) \/ RefuseForNow(c) \/ StartChild(c)
                        \/ StartFails(c) \/ HearHello(c) \/ NoHello(c) \/ WriteRequest(c)
                        \/ HearAnswer(c) \/ ServeAsk(c) \/ ExchangeFails(c)
    \/ \E ask \in HostCalls : AskHost(ask)
    \/ RestEnds \/ LoosePanics \/ LooseReads
    \/ SayHello \/ ReadRequest \/ AnswerCall \/ SayNoise \/ Die

BackendSpec == BackendInit /\ [][BackendNext]_backendVars
------------------------------------------------------------------------------
BackendTypeOK ==
    /\ call \in [Calls -> [pc : CallPCs, asked : 0..MaxHostCalls,
                           told : Calls \cup {NoAnswer, "refused", "failed"}]]
    /\ holder \in Calls \cup {NoCall} /\ child \in [at : ChildAts, by : Calls \cup {NoCall}]
    /\ resting \in BOOLEAN /\ loose \in BOOLEAN /\ lostSwap \in BOOLEAN
    /\ children \in 0..MaxChildren /\ alive \subseteq 1..MaxChildren
    /\ row \in 0..MaxVersion /\ swaps \subseteq 1..MaxVersion

(* An answer is the child's to that very call, however many calls before it were given
   up, and whatever a reader left behind took from the pipe.               *)
AnswersAreTheirs == \A c \in Calls : call[c].told \in {c, NoAnswer, "refused", "failed"}

(* Between calls a child that lives has nothing to read and nothing unread. *)
InStep ==
    (holder = NoCall /\ child.at \notin {"none", "dead"}) =>
        child.at = "listening" /\ requests = <<>> /\ frames = <<>>

(* One child at most, and it is the one the worker has.                    *)
OneChild == alive \subseteq (IF child.at \in {"none", "dead"} THEN {} ELSE {children})

(* Of two swaps of one row from the same version, one is told that it lost. *)
SwapsOnce == ~lostSwap

BackendIsSound == AnswersAreTheirs /\ InStep /\ OneChild /\ SwapsOnce
==============================================================================
