-------------------------- MODULE MCDeliveryPipeline --------------------------
(* Small instances of DeliveryPipeline for TLC: one or two deliveries and a   *)
(* chat turn in one workspace, one or two workers.                            *)
EXTENDS DeliveryPipeline, TLC

CONSTANTS r1, r2, w1, w2, c1, ws, key, nokey

MCLanes     == {ws} \cup Requests
MCKeys      == {key} \cup (Requests \X Tries)
MCJobs      == {ChatJob} \cup {Delivery(r) : r \in Requests}
                \cup {Callback(r, n) : r \in Requests, n \in Tries}
SameKey     == [r \in Requests |-> key]
OneKeyed    == [r \in Requests |-> IF r = r1 THEN key ELSE nokey]
MCSymmetry  == Permutations({w1, w2} \cap Workers)
==============================================================================
