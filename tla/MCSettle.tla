-------------------------------- MODULE MCSettle -------------------------------
(***************************************************************************)
(* Small instances for TLC of what must come to an end: the search that     *)
(* waits for a person, the connections of a gear's run, the shell nobody is *)
(* at, the schedule that is due and the unit that waits.  A behaviour is    *)
(* about one of them, chosen at first; the others rest where nothing that   *)
(* is fair can happen.                                                      *)
(***************************************************************************)
EXTENDS EgressGate, GearGate, TerminalSession, ScheduleClock, WorkQueue, TLC

CONSTANTS a1, a2, ws1, ws2, p1, k1, c1, w1, w2, key, nokey, lane, task

VARIABLE focus

MCHome == [a \in Agents |-> IF a = a1 THEN ws1 ELSE ws2]

\* A pool that was started over an empty table, at the end of its clock.
PoolRests ==
    /\ work = [i \in {} |-> {}] /\ clock = MaxTime /\ proc = "up"
    /\ worker = [w \in Workers |-> IdleWorker] /\ chat = [c \in Chats |-> 0]
    /\ running = {} /\ killing = {} /\ lost = {}

SettleInit ==
    /\ focus \in {"search", "proxy", "shell", "clock", "queue"}
    /\ GateInit /\ ProxyInit /\ TermInit /\ ClockInit
    /\ focus # "search" => grant = [a \in Agents |-> <<0, 0>>]
    /\ IF focus = "queue" THEN Init ELSE PoolRests

SettleNext ==
    /\ UNCHANGED focus
    /\ \/ focus = "search" /\ GateNext /\ UNCHANGED <<proxyVars, termVars, clockVars, vars>>
       \/ focus = "proxy" /\ ProxyNext /\ UNCHANGED <<gateVars, termVars, clockVars, vars>>
       \/ focus = "shell" /\ TermNext /\ UNCHANGED <<gateVars, proxyVars, clockVars, vars>>
       \/ focus = "clock" /\ ClockNext /\ UNCHANGED <<gateVars, proxyVars, termVars, vars>>
       \/ focus = "queue" /\ Next /\ UNCHANGED <<gateVars, proxyVars, termVars, clockVars>>

SettleSpec ==
    /\ SettleInit
    /\ [][SettleNext]_<<focus, gateVars, proxyVars, termVars, clockVars, vars>>
    /\ GateFairness /\ ProxyFairness /\ TermFairness /\ WF_clockVars(TickerStep) /\ Fairness
==============================================================================
