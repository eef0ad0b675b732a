-------------------------------- MODULE WarmPool --------------------------------
(***************************************************************************)
(* The containers gears run in: one per run, made and removed around it    *)
(* (sandbox/docker.go), or one taken from the pool of warm ones            *)
(* (sandbox/pool.go), which idle timers, runs and the shutdown take from   *)
(* at once.                                                                *)
(*                                                                         *)
(* The daemon is external: a container may vanish, and a command about it  *)
(* fails then.  A removal that fails leaves the container with nobody.  A  *)
(* command that fails although the daemon carried it out, and the death of *)
(* the process with containers up, are left out.  One image; runs that may *)
(* not be pooled are those the caller says so of.                          *)
(***************************************************************************)
EXTENDS Naturals, Sequences, SequencesExt, FiniteSets

CONSTANTS
    GearRuns,   \* runs asked of the sandbox
    PoolSize,   \* size
    WarmRuns,   \* warmRuns: runs one container serves
    MaxBoxes,   \* bound: containers made
    MaxBoxFaults, \* bound: containers that vanish, and commands that fail
    MaxTimers   \* bound: idle timers set

ASSUME WarmConstants == {PoolSize, WarmRuns, MaxBoxes, MaxBoxFaults, MaxTimers} \subseteq Nat

VARIABLES
    box,      \* [Boxes -> whether it is up, what it served, its payload, what a run left in
              \*  it, "leaked" when it could not be removed]
    gearRun,  \* [GearRuns -> where it is, its container, how it ended]
    idle,     \* the pool's containers
    timerOf,  \* timer: [Boxes -> the timer the pool remembers, 0 for none]
    armed,    \* timers that have not fired: <<timer, container>>
    firing,   \* containers whose timer fired and waits for the pool
    retiring, \* containers taken out of the pool to be removed
    closing,  \* "no", "draining" or "closed"
    timers, boxFaults

warmVars == <<box, gearRun, idle, timerOf, armed, firing, retiring, closing, timers, boxFaults>>

Boxes  == 1..MaxBoxes
NoBox  == [up |-> FALSE, made |-> FALSE, served |-> 0, payload |-> FALSE, left |-> "nothing"]
NewBox == [NoBox EXCEPT !.up = TRUE, !.made = TRUE]
NoRun  == [pc |-> "idle", box |-> 0, end |-> "none"]
Holding == {"inspecting", "clearing", "copying", "executing", "plain", "finishing", "offering",
            "removing", "replacing"}

WarmInit ==
    /\ box = [b \in Boxes |-> NoBox] /\ gearRun = [r \in GearRuns |-> NoRun]
    /\ idle = <<>> /\ timerOf = [b \in Boxes |-> 0] /\ armed = {} /\ firing = {} /\ retiring = {}
    /\ closing = "no" /\ timers = 0 /\ boxFaults = 0

PoolVars == <<idle, timerOf, armed, firing, retiring, closing, timers>>

At(r, pc) == gearRun[r].pc = pc
To(r, pc) == gearRun' = [gearRun EXCEPT ![r].pc = pc]
Up(r)     == box[gearRun[r].box].up

Fails == boxFaults < MaxBoxFaults /\ boxFaults' = boxFaults + 1

\* remove: when rm fails it is said, and nobody has the container from there.
Removed(b) ==
    \/ box' = [box EXCEPT ![b].up = FALSE] /\ UNCHANGED boxFaults
    \/ box[b].up /\ box' = [box EXCEPT ![b].left = "leaked"] /\ Fails

------------------------------------------------------------------------------
(* A container of one's own.                                               *)

Fresh == CHOOSE b \in Boxes : ~box[b].made /\ \A c \in Boxes : c < b => box[c].made

\* create: made and its payload copied in, or removed again.
CreateBox(r) ==
    /\ At(r, "idle") /\ \E b \in Boxes : ~box[b].made
    /\ box' = [box EXCEPT ![Fresh] = [NewBox EXCEPT !.payload = TRUE]]
    /\ \/ gearRun' = [gearRun EXCEPT ![r] = [pc |-> "plain", box |-> Fresh, end |-> "none"]]
          /\ UNCHANGED boxFaults
       \/ gearRun' = [gearRun EXCEPT ![r] = [pc |-> "removing", box |-> Fresh, end |-> "failed"]]
          /\ Fails
    /\ UNCHANGED PoolVars

\* However it ends, the container is removed.
RunPlain(r) ==
    /\ At(r, "plain")
    /\ \E end \in {"exited", "timedOut", "cancelled"} :
          gearRun' = [gearRun EXCEPT ![r].pc = "removing", ![r].end = end]
    /\ UNCHANGED <<box, PoolVars, boxFaults>>

RemoveBox(r) ==
    /\ At(r, "removing") /\ To(r, "over") /\ Removed(gearRun[r].box)
    /\ UNCHANGED PoolVars

------------------------------------------------------------------------------
(* warmFor.                                                                *)

\* take: the timer is stopped, unless it fired.
TakeWarm(r) ==
    /\ At(r, "idle") /\ idle # <<>>
    /\ LET b == Head(idle)
       IN /\ idle' = Tail(idle) /\ timerOf' = [timerOf EXCEPT ![b] = 0]
          /\ armed' = armed \ {<<timerOf[b], b>>}
          /\ gearRun' = [gearRun EXCEPT ![r] = [pc |-> "inspecting", box |-> b, end |-> "none"]]
    /\ UNCHANGED <<box, firing, retiring, closing, timers, boxFaults>>

TakeNone(r) ==
    /\ At(r, "idle") /\ idle = <<>> /\ To(r, "starting")
    /\ UNCHANGED <<box, PoolVars, boxFaults>>

InspectBox(r) ==
    /\ At(r, "inspecting")
    /\ \/ Up(r) /\ To(r, "clearing") /\ UNCHANGED boxFaults
       \/ ~Up(r) /\ To(r, "replacing") /\ UNCHANGED boxFaults
       \/ Up(r) /\ To(r, "replacing") /\ Fails
    /\ UNCHANGED <<box, PoolVars>>

ReplaceBox(r) ==
    /\ At(r, "replacing") /\ Removed(gearRun[r].box)
    /\ gearRun' = [gearRun EXCEPT ![r] = [pc |-> "starting", box |-> 0, end |-> "none"]]
    /\ UNCHANGED PoolVars

StartWarm(r) ==
    /\ At(r, "starting")
    /\ \/ /\ \E b \in Boxes : ~box[b].made
          /\ box' = [box EXCEPT ![Fresh] = NewBox]
          /\ gearRun' = [gearRun EXCEPT ![r] = [pc |-> "clearing", box |-> Fresh, end |-> "none"]]
          /\ UNCHANGED boxFaults
       \/ To(r, "over") /\ Fails /\ UNCHANGED box
    /\ UNCHANGED PoolVars

------------------------------------------------------------------------------
(* runWarm and warmRun.                                                    *)

\* What the last run left is cleared first; a failure ends the run.
ClearBefore(r) ==
    /\ At(r, "clearing")
    /\ \/ /\ Up(r) /\ box' = [box EXCEPT ![gearRun[r].box].payload = FALSE]
          /\ To(r, "copying") /\ UNCHANGED boxFaults
       \/ /\ IF Up(r) THEN Fails ELSE UNCHANGED boxFaults
          /\ gearRun' = [gearRun EXCEPT ![r].pc = "finishing", ![r].end = "failed"]
          /\ UNCHANGED box
    /\ UNCHANGED PoolVars

\* A copy that fails may have brought a part of the payload.
CopyIn(r) ==
    /\ At(r, "copying")
    /\ box' = [box EXCEPT ![gearRun[r].box].payload = Up(r)]
    /\ \/ Up(r) /\ To(r, "executing") /\ UNCHANGED boxFaults
       \/ /\ IF Up(r) THEN Fails ELSE UNCHANGED boxFaults
          /\ gearRun' = [gearRun EXCEPT ![r].pc = "finishing", ![r].end = "failed"]
    /\ UNCHANGED PoolVars

\* A run that is not waited for to its end, timed out or called off, leaves its process.
Execute(r) ==
    /\ At(r, "executing")
    /\ \E end \in {"exited", "timedOut", "cancelled"} :
          /\ gearRun' = [gearRun EXCEPT ![r].pc = "finishing", ![r].end = end]
          /\ box' = [box EXCEPT ![gearRun[r].box].served = @ + 1,
                                ![gearRun[r].box].left = IF end = "exited" THEN @ ELSE end]
    /\ UNCHANGED <<PoolVars, boxFaults>>

\* Mutant of FinishRun: a run that timed out is cleared after like any other.
FinishAny(r) ==
    /\ At(r, "finishing")
    /\ \/ /\ Up(r) /\ box' = [box EXCEPT ![gearRun[r].box].payload = FALSE]
          /\ To(r, "offering") /\ UNCHANGED boxFaults
       \/ ~Up(r) /\ To(r, "removing") /\ UNCHANGED <<box, boxFaults>>
    /\ UNCHANGED PoolVars

\* A run that timed out does not go back; any other is cleared after.
FinishRun(r) ==
    /\ At(r, "finishing")
    /\ \/ gearRun[r].end = "timedOut" /\ To(r, "removing") /\ UNCHANGED <<box, boxFaults>>
       \/ /\ gearRun[r].end # "timedOut" /\ Up(r)
          /\ box' = [box EXCEPT ![gearRun[r].box].payload = FALSE]
          /\ To(r, "offering") /\ UNCHANGED boxFaults
       \/ /\ gearRun[r].end # "timedOut" /\ To(r, "removing") /\ UNCHANGED box
          /\ IF Up(r) THEN Fails ELSE UNCHANGED boxFaults
    /\ UNCHANGED PoolVars

\* put.
OfferBox(r) ==
    /\ At(r, "offering")
    /\ LET b == gearRun[r].box
       IN IF box[b].served >= WarmRuns \/ Len(idle) >= PoolSize
          THEN To(r, "removing") /\ UNCHANGED <<idle, timerOf, armed, timers>>
          ELSE /\ timers < MaxTimers /\ timers' = timers + 1
               /\ idle' = Append(idle, b) /\ timerOf' = [timerOf EXCEPT ![b] = timers']
               /\ armed' = armed \cup {<<timers', b>>} /\ To(r, "over")
    /\ UNCHANGED <<box, firing, retiring, closing, boxFaults>>

------------------------------------------------------------------------------
(* The idle timer, the shutdown, the daemon.                               *)

Fire ==
    \E t \in armed :
       /\ armed' = armed \ {t} /\ firing' = firing \cup {t[2]}
       /\ UNCHANGED <<box, gearRun, idle, timerOf, retiring, closing, timers, boxFaults>>

\* Mutant of DropIdle: the container is retired whether or not it is still there.
DropAnyway ==
    \E b \in firing :
       /\ firing' = firing \ {b} /\ retiring' = retiring \cup {b}
       /\ idle' = Remove(idle, b) /\ timerOf' = [timerOf EXCEPT ![b] = 0]
       /\ UNCHANGED <<box, gearRun, armed, closing, timers, boxFaults>>

\* drop: only what is still idle.
DropIdle ==
    \E b \in firing :
       /\ firing' = firing \ {b}
       /\ IF b \in ToSet(idle)
          THEN /\ \E i \in 1..Len(idle) : idle[i] = b /\ idle' = RemoveAt(idle, i)
               /\ timerOf' = [timerOf EXCEPT ![b] = 0] /\ retiring' = retiring \cup {b}
          ELSE UNCHANGED <<idle, timerOf, retiring>>
       /\ UNCHANGED <<box, gearRun, armed, closing, timers, boxFaults>>

RetireBox ==
    \E b \in retiring :
       /\ retiring' = retiring \ {b} /\ Removed(b)
       /\ UNCHANGED <<gearRun, idle, timerOf, armed, firing, closing, timers>>

\* Close: drain, and then the containers one by one.
CloseWarm ==
    /\ closing = "no" /\ closing' = "draining"
    /\ armed' = {t \in armed : timerOf[t[2]] # t[1]} /\ timerOf' = [b \in Boxes |-> 0]
    /\ idle' = <<>> /\ retiring' = retiring \cup ToSet(idle)
    /\ UNCHANGED <<box, gearRun, firing, timers, boxFaults>>

CloseDone ==
    /\ closing = "draining" /\ retiring = {} /\ closing' = "closed"
    /\ UNCHANGED <<box, gearRun, idle, timerOf, armed, firing, retiring, timers, boxFaults>>

Vanish ==
    \E b \in Boxes :
       /\ box[b].up /\ box' = [box EXCEPT ![b].up = FALSE] /\ Fails
       /\ UNCHANGED <<gearRun, PoolVars>>

WarmNext ==
    \/ \E r \in GearRuns :
          \/ CreateBox(r) \/ RunPlain(r) \/ RemoveBox(r) \/ TakeWarm(r) \/ TakeNone(r)
          \/ InspectBox(r) \/ ReplaceBox(r) \/ StartWarm(r) \/ ClearBefore(r) \/ CopyIn(r)
          \/ Execute(r) \/ FinishRun(r) \/ OfferBox(r)
    \/ Fire \/ DropIdle \/ RetireBox \/ CloseWarm \/ CloseDone \/ Vanish

WarmSpec == WarmInit /\ [][WarmNext]_warmVars
------------------------------------------------------------------------------
WarmTypeOK ==
    /\ box \in [Boxes -> [up : BOOLEAN, made : BOOLEAN, served : Nat, payload : BOOLEAN,
                          left : {"nothing", "timedOut", "cancelled", "leaked"}]]
    /\ idle \in Seq(Boxes) /\ timerOf \in [Boxes -> 0..MaxTimers]
    /\ firing \subseteq Boxes /\ retiring \subseteq Boxes
    /\ closing \in {"no", "draining", "closed"}

Held(b) == {r \in GearRuns : gearRun[r].box = b /\ gearRun[r].pc \in Holding}

(* A container has one keeper, one run or the pool or whoever removes it, and none that is
   up is without, unless its removal failed.  (The pool keeps what is put back into it
   after Close.)                                                           *)
OneKeeper ==
    \A b \in Boxes :
       LET keepers == Cardinality(Held(b)) + Cardinality({i \in 1..Len(idle) : idle[i] = b})
                      + Cardinality(retiring \cap {b})
       IN keepers <= 1 /\ (box[b].up /\ box[b].left # "leaked" => keepers = 1)

(* What waits in the pool for another gear holds no gear's files and nothing of a run
   that timed out.                                                         *)
IdleIsClean == \A b \in ToSet(idle) : ~box[b].payload /\ box[b].left # "timedOut"

WarmIsSound == OneKeeper /\ IdleIsClean
==============================================================================
