------------------------------ MODULE LaneQueue ------------------------------
(***************************************************************************)
(* What the work queue promises, with everything about how it is kept left *)
(* out: a unit waits, is worked on, is over, and may be forgotten; at most *)
(* one unit of a lane is being worked on; work on a unit starts at most    *)
(* once in its life.  No workers, no process, no crash: those only decide  *)
(* WHEN a step of this specification happens.  WorkQueue implements it.    *)
(***************************************************************************)
EXTENDS Integers

CONSTANTS Lanes,      \* the serialisation domains
          MaxUnits    \* bound on the ids of units

Ids == 1..MaxUnits

VARIABLE unit         \* what the queue knows: id -> [phase, lane]

Phases == {"waiting", "working", "over"}

Init == unit = [i \in {} |-> {}]

Working(l) == {i \in DOMAIN unit : unit[i].phase = "working" /\ unit[i].lane = l}

With(i, u) == [j \in DOMAIN unit \cup {i} |-> IF j = i THEN u ELSE unit[j]]

\* A unit is handed over, to wait for its lane.
Submit(i, l) ==
    /\ i \notin DOMAIN unit
    /\ unit' = With(i, [phase |-> "waiting", lane |-> l])

\* Work that cannot wait takes a free lane at once or not at all.
Seize(i, l) ==
    /\ i \notin DOMAIN unit
    /\ Working(l) = {}
    /\ unit' = With(i, [phase |-> "working", lane |-> l])

\* A waiting unit is started, its lane being free.
Begin(i) ==
    /\ i \in DOMAIN unit
    /\ unit[i].phase = "waiting"
    /\ Working(unit[i].lane) = {}
    /\ unit' = With(i, [phase |-> "working", lane |-> unit[i].lane])

\* Some units are over: finished, stopped, or lost with their process.
Close(S) ==
    /\ \A i \in S : i \in DOMAIN unit /\ unit[i].phase # "over"
    /\ unit' = [i \in DOMAIN unit |->
                  IF i \in S THEN [phase |-> "over", lane |-> unit[i].lane]
                             ELSE unit[i]]

\* Units that are over may be forgotten, and only those.
Forget(S) ==
    /\ \A i \in S : i \in DOMAIN unit /\ unit[i].phase = "over"
    /\ unit' = [i \in DOMAIN unit \ S |-> unit[i]]

Next ==
    \/ \E i \in Ids, l \in Lanes : Submit(i, l) \/ Seize(i, l)
    \/ \E i \in Ids : Begin(i)
    \/ \E S \in SUBSET Ids : Close(S) \/ Forget(S)

Spec == Init /\ [][Next]_unit
==============================================================================
