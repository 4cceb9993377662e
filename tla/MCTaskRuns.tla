------------------------------ MODULE MCTaskRuns ------------------------------
(***************************************************************************)
(* Instances of TaskRuns: a cloudsync task that one automation starts and  *)
(* stops, and a replication that two callers and a schedule start, while   *)
(* two polls of either overlap; and one task of a kind.                    *)
(***************************************************************************)
EXTENDS TaskRuns, TLC

CONSTANTS c1, c2, p1, p2

TwoCallers == ("cloudsync" :> {c1}) @@ ("replication" :> {c1, c2})
BothPolls  == [k \in Tasks |-> {p1, p2}]
Calls      == ("cloudsync" :> {"start", "stop"}) @@ ("replication" :> {"start", "press"})

OneCaller == [k \in Tasks |-> {c1}]
OnePoll   == [k \in Tasks |-> {p1}]
Starts    == [k \in Tasks |-> {"start"}]
=============================================================================
