--------------------------- MODULE MCPipelineParts ---------------------------
(* Three questions about the pipeline that need different surroundings, as    *)
(* one instance.  "rows": two deliveries in a process that stays up.          *)
(* "keys": two deliveries under one key, with crashes.  "callbacks": one      *)
(* delivery that somebody listens for, in a process that stays up, since what *)
(* a boot settles is not announced.                                           *)
EXTENDS MCDeliveryPipeline

CONSTANTS r3, r4, r5

VARIABLE focus

PairedKeys == [r \in Requests |-> IF r \in {r1, r2} THEN key ELSE nokey]

Asking == CASE focus = "keys" -> {r1, r2} [] focus = "callbacks" -> {r3} [] focus = "rows" -> {r4, r5}

PartsInit == PInit /\ focus \in {"rows", "keys", "callbacks"}

PartsNext ==
    /\ PNext
    /\ \A r \in Requests \ Asking : UNCHANGED door[r]
    /\ focus # "keys" /\ proc = "up" => proc' = "up"
    \* whether a caller that waits hangs up is no matter to the rows
    /\ focus = "rows" => \A r \in Requests : AtDoor(r, "answering") /\ answer' = answer => door'[r] = door[r]
    /\ UNCHANGED focus

PartsSpec == PartsInit /\ [][PartsNext]_<<allVars, focus>>

PartsSymmetry == Permutations({w1, w2}) \cup Permutations({r4, r5})

\* In a process that stays up what the ledger says of a delivery that is not over,
\* somebody is doing or about to do (delivery_runner.go, queue_handlers.go,
\* inlet_handlers.go).
RowsAreCarried == focus # "keys" => LedgerIsCarried
==============================================================================
