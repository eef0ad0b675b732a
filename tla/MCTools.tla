-------------------------------- MODULE MCTools --------------------------------
(***************************************************************************)
(* Small instances for TLC of what agents work with and operators keep: the *)
(* versions of a workflow, the approval of gears, the gate to the network,  *)
(* the pool of MCP connections, the shells and the clock.  A behaviour is   *)
(* about one of them, chosen at first; the others rest where they begin.    *)
(***************************************************************************)
EXTENDS WorkflowVersions, GearApproval, GearGate, McpPool, TerminalSession, ScheduleClock, TLC

CONSTANTS o1, r1, k1, m1, m2, ws1, peer1, peer2

VARIABLE focus

Rests(part) ==
    CASE part = "versions" -> DOMAIN model = {Orchestrator} /\ rows = {}
      [] part = "pool"     -> server.cmd = m1

ToolsInit ==
    /\ focus \in {"versions", "gears", "proxy", "pool", "shells", "clock"}
    /\ VersionInit /\ GearInit /\ ProxyInit /\ PoolInit /\ TermInit /\ ClockInit
    /\ \A part \in {"versions", "pool"} \ {focus} : Rests(part)

ToolsNext ==
    /\ UNCHANGED focus
    /\ \/ /\ focus = "versions" /\ VersionNext
          /\ UNCHANGED <<gearVars, proxyVars, poolVars, termVars, clockVars>>
       \/ /\ focus = "gears" /\ GearNext
          /\ UNCHANGED <<versionVars, proxyVars, poolVars, termVars, clockVars>>
       \/ /\ focus = "proxy" /\ ProxyNext
          /\ UNCHANGED <<versionVars, gearVars, poolVars, termVars, clockVars>>
       \/ /\ focus = "pool" /\ PoolNext
          /\ UNCHANGED <<versionVars, gearVars, proxyVars, termVars, clockVars>>
       \/ /\ focus = "shells" /\ TermNext
          /\ UNCHANGED <<versionVars, gearVars, proxyVars, poolVars, clockVars>>
       \/ /\ focus = "clock" /\ ClockNext
          /\ UNCHANGED <<versionVars, gearVars, proxyVars, poolVars, termVars>>

ToolsSpec ==
    /\ ToolsInit
    /\ [][ToolsNext]_<<focus, versionVars, gearVars, proxyVars, poolVars, termVars, clockVars>>

\* Whoever comes in twos, administrators, connections, calls or browsers, is one of
\* two that are alike.
MCSymmetry == Permutations({peer1, peer2})

\* Every one of them stays within its types.
ToolsTypeOK ==
    VersionTypeOK /\ GearTypeOK /\ ProxyTypeOK /\ PoolTypeOK /\ TermTypeOK /\ ClockTypeOK
==============================================================================
