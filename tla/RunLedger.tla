------------------------------ MODULE RunLedger ------------------------------
(***************************************************************************)
(* The run ledger (src/internal/inlet/runs.go): one row per delivery, moved *)
(* by guarded UPDATEs only.  A row is born accepted, may wait and run, and is *)
(* settled once.  Each operator is one SQL statement; the modules that write  *)
(* rows use them as the whole of their access to the table, and Spec is what  *)
(* any mixture of callers may do to it.                                       *)
(***************************************************************************)
CONSTANT Runs

VARIABLE ledger       \* run -> state of its row, "none" before the INSERT

Terminal == {"completed", "failed", "interrupted", "refused_schema",
             "refused_expectation", "refused_budget", "refused_output_schema"}
LiveRun  == {"accepted", "queued", "running"}

Init == ledger = [r \in Runs |-> "none"]

Move(r, from, to) ==
    /\ ledger[r] \in from
    /\ ledger' = [ledger EXCEPT ![r] = to]

Accept(r) == Move(r, {"none"}, "accepted")

\* The payload is stored and the delivery waits for its workspace.
Queued(r) == Move(r, {"accepted"}, "queued")

\* A worker picks the delivery up; ErrNotFound (no step) if it is not waiting.
StartRun(r) == Move(r, {"queued"}, "running")

\* SettleOrLog: the outcome goes in if the row is live, otherwise the attempt
\* is logged and the row left as it is.
SettleOrLog(r, outcome) ==
    ledger' = IF ledger[r] \in LiveRun THEN [ledger EXCEPT ![r] = outcome] ELSE ledger

\* ReconcileRuns, at boot: accepted and running rows, not queued ones.
ReconcileRuns ==
    ledger' = [r \in Runs |-> IF ledger[r] \in {"accepted", "running"}
                              THEN "interrupted" ELSE ledger[r]]

Next ==
    \/ \E r \in Runs : \/ Accept(r) \/ Queued(r) \/ StartRun(r)
                       \/ \E outcome \in Terminal : SettleOrLog(r, outcome)
    \/ ReconcileRuns

Spec == Init /\ [][Next]_ledger
==============================================================================
