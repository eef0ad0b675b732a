------------------------------- MODULE McpPool -------------------------------
(***************************************************************************)
(* One external MCP server: its row, which an administrator approves and   *)
(* edits (mcpstore/mcpstore.go), the calls agents of several workspaces    *)
(* make to it (engine/mcp.go), and the pool that keeps its connections     *)
(* between calls (engine/mcppool.go).                                      *)
(*                                                                         *)
(* A command stands for everything that is inside the fingerprint.  What a *)
(* connection was opened with besides, the values of the names the server  *)
(* was granted, is the workspace they were resolved in.                    *)
(***************************************************************************)
EXTENDS Naturals, Sequences, FiniteSets

CONSTANTS
    Commands,      \* what the server's row may say
    Spaces,        \* workspaces the server is bound to
    Callers,       \* calls under way at once
    Keepers,       \* administrators' requests
    MaxOpened,     \* bound: connections ever opened
    MaxDecisions,  \* bound: approvals and edits
    MaxTaken,      \* bound: calls
    MaxPoolFaults  \* bound: connections that die, dials that fail

ASSUME PoolConstants ==
    MaxOpened \in Nat /\ MaxDecisions \in Nat /\ MaxTaken \in Nat /\ MaxPoolFaults \in Nat

VARIABLES
    server,    \* its row: the command, the status, the command that was approved
    keeper,    \* [Keepers -> the request in progress]
    vetted,    \* commands an approval was given to
    wire,      \* the connections, in the order they were opened
    pool,      \* [poolKeys -> the connection kept, 0 for none, and whether it is busy]
    closing,   \* connections taken out of the pool whose Close is still to be called
    stop,      \* whether p.stop is closed, and closeAll has emptied the pool
    caller,    \* [Callers -> the call in progress]
    decisions, taken, poolFaults

poolVars == <<server, keeper, vetted, wire, pool, closing, stop, caller, decisions, taken, poolFaults>>

Unset     == "none"
NoKeeping == [pc |-> "idle", status |-> "none", cmd |-> Unset]
NoTaking  == [pc |-> "idle", ws |-> Unset, cmd |-> Unset, conn |-> 0, back |-> "close"]
Vacant    == [conn |-> 0, busy |-> FALSE]

\* Mutant of PoolKey: the server's name alone.
PoolKeyNamed(cmd) == CHOOSE c \in Commands : TRUE

\* poolKey: the name, of which there is one here, and the fingerprint.
PoolKey(cmd) == cmd

PoolInit ==
    /\ server \in [cmd : Commands, status : {"pending"}, fp : {Unset}]
    /\ keeper = [k \in Keepers |-> NoKeeping] /\ vetted = {}
    /\ wire = <<>> /\ pool = [c \in Commands |-> Vacant] /\ closing = {} /\ stop = "open"
    /\ caller = [c \in Callers |-> NoTaking]
    /\ decisions = 0 /\ taken = 0 /\ poolFaults = 0

Alive(n)   == wire[n].state = "alive"
PoolFault      == poolFaults < MaxPoolFaults /\ poolFaults' = poolFaults + 1
Taking(c, t) == caller' = [caller EXCEPT ![c] = t]
TakingAt(c, pc) == caller[c].pc = pc

------------------------------------------------------------------------------
(* The row.                                                                *)

OnlyRow == UNCHANGED <<wire, pool, closing, stop, caller, taken, poolFaults>>

\* SetStatus reads the row; what it is about to stamp is the command it read.
ReadServer(k) ==
    /\ keeper[k].pc = "idle" /\ decisions < MaxDecisions
    /\ \E status \in {"approved", "disabled"} :
          keeper' = [keeper EXCEPT ![k] = [pc |-> "stamping", status |-> status, cmd |-> server.cmd]]
    /\ decisions' = decisions + 1
    /\ UNCHANGED <<server, vetted>> /\ OnlyRow

\* Its UPDATE.
StampServer(k) ==
    /\ keeper[k].pc = "stamping"
    /\ LET yes == keeper[k].status = "approved"
       IN /\ server' = [server EXCEPT !.status = keeper[k].status,
                                      !.fp = IF yes THEN keeper[k].cmd ELSE Unset]
          /\ vetted' = IF yes THEN vetted \cup {keeper[k].cmd} ELSE vetted
    /\ keeper' = [keeper EXCEPT ![k] = NoKeeping]
    /\ UNCHANGED decisions /\ OnlyRow

\* Update: an edit takes the approval with it.
EditServer ==
    /\ decisions < MaxDecisions /\ decisions' = decisions + 1
    /\ \E cmd \in Commands : server' = [cmd |-> cmd, status |-> "pending", fp |-> Unset]
    /\ UNCHANGED <<keeper, vetted>> /\ OnlyRow

------------------------------------------------------------------------------
(* A call: runMCPTool.                                                     *)

OnlyCall == UNCHANGED <<keeper, vetted, stop, decisions>>

\* ToolsForAgent: the grant, re-read.
Grant(c) ==
    /\ TakingAt(c, "idle") /\ taken < MaxTaken /\ taken' = taken + 1
    /\ server.status = "approved"
    /\ \E ws \in Spaces : Taking(c, [NoTaking EXCEPT !.pc = "granted", !.ws = ws])
    /\ UNCHANGED <<server, wire, pool, closing, poolFaults>> /\ OnlyCall

\* Spawnable: approved, and what was approved; the values are resolved next.
Spawnable(c) ==
    /\ TakingAt(c, "granted")
    /\ \/ /\ server.status = "approved" /\ server.fp = server.cmd
          /\ Taking(c, [caller[c] EXCEPT !.pc = "taking", !.cmd = server.cmd])
          /\ UNCHANGED server
       \/ /\ server.status # "approved"
          /\ Taking(c, NoTaking) /\ UNCHANGED server
       \/ /\ server.status = "approved" /\ server.fp # server.cmd
          /\ server' = [server EXCEPT !.status = "pending", !.fp = Unset]
          /\ Taking(c, NoTaking)
    /\ UNCHANGED <<wire, pool, closing, taken, poolFaults>> /\ OnlyCall

\* take, under the lock: what is kept and free is taken if it is alive, and dropped
\* if it is not.
Take(c) ==
    /\ TakingAt(c, "taking")
    /\ LET key  == PoolKey(caller[c].cmd)
           held == pool[key]
           free == held.conn # 0 /\ ~held.busy
       IN \/ /\ free /\ Alive(held.conn)
             /\ pool' = [pool EXCEPT ![key].busy = TRUE]
             /\ Taking(c, [caller[c] EXCEPT !.pc = "calling", !.conn = held.conn, !.back = "put"])
             /\ UNCHANGED closing
          \/ /\ free /\ ~Alive(held.conn)
             /\ pool' = [pool EXCEPT ![key] = Vacant]
             /\ closing' = closing \cup {held.conn}
             /\ Taking(c, [caller[c] EXCEPT !.pc = "dialling"])
          \/ /\ ~free
             /\ Taking(c, [caller[c] EXCEPT !.pc = "dialling"])
             /\ UNCHANGED <<pool, closing>>
    /\ UNCHANGED <<server, wire, taken, poolFaults>> /\ OnlyCall

\* Dial, outside the lock: as long as it takes.
DialServer(c) ==
    /\ TakingAt(c, "dialling")
    /\ \/ /\ Len(wire) < MaxOpened
          /\ wire' = Append(wire, [cmd |-> caller[c].cmd, ws |-> caller[c].ws, state |-> "alive"])
          /\ Taking(c, [caller[c] EXCEPT !.pc = "opened", !.conn = Len(wire) + 1])
          /\ UNCHANGED poolFaults
       \/ PoolFault /\ Taking(c, NoTaking) /\ UNCHANGED wire
    /\ UNCHANGED <<server, pool, closing, taken>> /\ OnlyCall

\* take, under the lock again: kept, unless the pool is shutting down or keeps another.
Enter(c) ==
    /\ TakingAt(c, "opened")
    /\ LET key == PoolKey(caller[c].cmd)
       IN IF stop # "open" \/ pool[key].conn # 0
          THEN /\ Taking(c, [caller[c] EXCEPT !.pc = "calling", !.back = "close"])
               /\ UNCHANGED pool
          ELSE /\ pool' = [pool EXCEPT ![key] = [conn |-> caller[c].conn, busy |-> TRUE]]
               /\ Taking(c, [caller[c] EXCEPT !.pc = "calling", !.back = "put"])
    /\ UNCHANGED <<server, wire, closing, taken, poolFaults>> /\ OnlyCall

\* release: put, by the key, or Close.
Release(c) ==
    /\ TakingAt(c, "calling")
    /\ LET key == PoolKey(caller[c].cmd)
       IN \/ /\ caller[c].back = "close"
             /\ closing' = closing \cup {caller[c].conn} /\ UNCHANGED pool
          \/ /\ caller[c].back = "put" /\ pool[key].conn = 0
             /\ UNCHANGED <<pool, closing>>
          \/ /\ caller[c].back = "put" /\ pool[key].conn # 0
             /\ IF stop = "open"
                THEN pool' = [pool EXCEPT ![key].busy = FALSE] /\ UNCHANGED closing
                ELSE /\ pool' = [pool EXCEPT ![key] = Vacant]
                     /\ closing' = closing \cup {pool[key].conn}
    /\ Taking(c, NoTaking)
    /\ UNCHANGED <<server, wire, taken, poolFaults>> /\ OnlyCall

------------------------------------------------------------------------------
(* The pool's own goroutines, and the far end.                             *)

OnlyPool == UNCHANGED <<server, keeper, vetted, caller, decisions, taken>>

\* The key's connection is not kept any longer.
Removed(keys) ==
    /\ pool' = [k \in Commands |-> IF k \in keys THEN Vacant ELSE pool[k]]
    /\ closing' = closing \cup {pool[k].conn : k \in keys}

\* Mutant of ExpireConns: whatever has not been used for a while.
ExpireBusy ==
    /\ stop = "open"
    /\ \E keys \in SUBSET {k \in Commands : pool[k].conn # 0} :
          /\ keys # {} /\ Removed(keys)
    /\ UNCHANGED <<wire, stop, poolFaults>> /\ OnlyPool

\* expire: of those nobody uses, the dead ones and any that have been idle for long.
ExpireConns ==
    /\ stop = "open"
    /\ LET free == {k \in Commands : pool[k].conn # 0 /\ ~pool[k].busy}
           dead == {k \in free : ~Alive(pool[k].conn)}
       IN \E keys \in SUBSET free : dead \subseteq keys /\ keys # {} /\ Removed(keys)
    /\ UNCHANGED <<wire, stop, poolFaults>> /\ OnlyPool

\* closeAll: first p.stop is closed, once, ...
StopPool ==
    /\ stop = "open" /\ stop' = "closed"
    /\ UNCHANGED <<wire, pool, closing, poolFaults>> /\ OnlyPool

\* ... then everything that is kept is taken out, in use or not.
DrainPool ==
    /\ stop = "closed" /\ stop' = "drained"
    /\ Removed({k \in Commands : pool[k].conn # 0})
    /\ UNCHANGED <<wire, poolFaults>> /\ OnlyPool

\* Close, always outside the lock.
CloseConn(n) ==
    /\ n \in closing
    /\ closing' = closing \ {n}
    /\ wire' = [wire EXCEPT ![n].state = "closed"]
    /\ UNCHANGED <<pool, stop, poolFaults>> /\ OnlyPool

\* The far end goes away.
FarEndDies(n) ==
    /\ Alive(n) /\ PoolFault
    /\ wire' = [wire EXCEPT ![n].state = "dead"]
    /\ UNCHANGED <<pool, closing, stop>> /\ OnlyPool

PoolNext ==
    \/ \E k \in Keepers : ReadServer(k) \/ StampServer(k)
    \/ EditServer
    \/ \E c \in Callers : Grant(c) \/ Spawnable(c) \/ Take(c) \/ DialServer(c) \/ Enter(c) \/ Release(c)
    \/ ExpireConns \/ StopPool \/ DrainPool
    \/ \E n \in DOMAIN wire : CloseConn(n) \/ FarEndDies(n)

PoolSpec == PoolInit /\ [][PoolNext]_poolVars

------------------------------------------------------------------------------
(* Properties.                                                             *)

PoolTypeOK ==
    /\ server.cmd \in Commands /\ server.fp \in Commands \cup {Unset}
    /\ server.status \in {"pending", "approved", "disabled"}
    /\ \A n \in DOMAIN wire : wire[n].state \in {"alive", "dead", "closed"}
    /\ \A k \in Commands : pool[k].conn \in 0..Len(wire)
    /\ closing \subseteq DOMAIN wire

Calling(c) == caller[c].pc = "calling"

\* Whoever holds a connection is alone with it, and it is not closed under them
\* unless the process is going away (take's busy flag, put by key, expire).
YoursWhileYouHoldIt ==
    \A c \in Callers : Calling(c) =>
       /\ \A d \in Callers \ {c} : Calling(d) => caller[d].conn # caller[c].conn
       /\ stop = "open" => wire[caller[c].conn].state # "closed" /\ caller[c].conn \notin closing

\* What answers a call was opened with the very command the call was let through
\* with, and an administrator had that command before them when they approved it
\* (SetStatus, Spawnable, poolKey).
AnsweredByTheApproved ==
    \A c \in Callers : Calling(c) =>
       wire[caller[c].conn].cmd = caller[c].cmd /\ caller[c].cmd \in vetted

\* A connection is kept, held, or on its way to be closed; and when the pool is shut
\* and nobody holds one, none is left (take, put, expire, closeAll).
NoConnIsLost ==
    \A n \in DOMAIN wire : wire[n].state # "closed" =>
       \/ n \in closing
       \/ stop # "drained" /\ \E k \in Commands : pool[k].conn = n
       \/ \E c \in Callers : caller[c].conn = n

\* A connection has one holder, is there while it is held and is not lost afterwards
\* (mcppool.go).
ConnsAreKept == YoursWhileYouHoldIt /\ NoConnIsLost

\* A call is answered on a connection of its own, by the command that was approved
\* (engine/mcppool.go, mcp.go, mcpstore.go).
PoolIsSound == ConnsAreKept /\ AnsweredByTheApproved

------------------------------------------------------------------------------
(* What the code says of itself and does not keep.                         *)

\* "one workspace's credentials must not answer another's turn" (engine/mcp.go).
EachWorkspaceItsValues ==
    \A c \in Callers : Calling(c) => wire[caller[c].conn].ws = caller[c].ws
==============================================================================
