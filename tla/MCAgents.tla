------------------------------- MODULE MCAgents -------------------------------
(***************************************************************************)
(* Small instances for TLC of what happens inside a turn: the loop over the *)
(* model, the tree of agents it grows, the plan it follows and the search   *)
(* gate it waits at.  A behaviour is about one of them, chosen at first;    *)
(* the others rest where they begin.                                        *)
(***************************************************************************)
EXTENDS TurnLoop, PlanPosition, EgressGate, TurnTree, TLC

CONSTANTS a1, a2, a3, ws1, ws2, o1, m1, p1

VARIABLE focus

agentsVars == <<turnVars, planVars, gateVars, treeVars>>

MCHome    == [a \in Agents |-> IF a = a1 THEN ws1 ELSE ws2]
MCReading == [a \in Crew |-> Papers]

Rests(part) ==
    CASE part = "turn" -> nameless = FALSE
      [] part = "plan" -> plan.steps = 1 /\ plan.mode = "resume" /\ bound = <<>>
      [] part = "gate" -> grant = [a \in Agents |-> <<0, 0>>]
      [] part = "tree" -> wires = {}

AgentsInit ==
    /\ focus \in {"turn", "plan", "gate", "tree"}
    /\ TurnInit /\ PlanInit /\ GateInit /\ TreeInit
    /\ \A part \in {"turn", "plan", "tree"} \ {focus} : Rests(part)
    /\ Rests("gate")

AgentsNext ==
    /\ \/ focus = "turn" /\ TurnNext /\ UNCHANGED <<planVars, gateVars, treeVars>>
       \/ focus = "plan" /\ PlanNext /\ UNCHANGED <<turnVars, gateVars, treeVars>>
       \/ focus = "gate" /\ GateNext /\ UNCHANGED <<turnVars, planVars, treeVars>>
       \/ focus = "tree" /\ TreeNext /\ UNCHANGED <<turnVars, planVars, gateVars>>
    /\ UNCHANGED focus

AgentsSpec == AgentsInit /\ [][AgentsNext]_<<focus, agentsVars>>

\* An agent of the gate goes with its workspace; those of the tree but the
\* orchestrator are alike.
MCSymmetry ==
    {p \in Permutations({a1, a2, ws1, ws2}) : p[a1] \in {a1, a2} /\ ((p[a1] = a1) <=> (p[ws1] = ws1))
                                              /\ p[ws1] \in {ws1, ws2}}

\* Every component of a turn stays within its types.
AgentsTypeOK == TurnTypeOK /\ PlanTypeOK /\ GateTypeOK /\ TreeTypeOK
==============================================================================
