----------------------------- MODULE DatasetHistory -----------------------------
(***************************************************************************)
(* DatasetLock with a history variable: what happened since a call began   *)
(* its first refresh that may mislead the check at the end of it.  The     *)
(* variable records and restricts nothing.                                 *)
(***************************************************************************)
EXTENDS DatasetLock

VARIABLE doubt  \* doubt[c]: c is in its first refresh, and may be misled by it

\* An answer got before the call, which may be written after its own.
InFlight == \E p \in Procs : refresh[p].pc = "write"

\* The dataset changes, an answer comes back empty, or c's own is lost.
Misleads(c) ==
  \/ locked' # locked
  \/ \E p \in Procs : refresh[p].pc = "query" /\ refresh'[p].pc = "write"
                      /\ refresh'[p].answer = "absent"
  \/ refresh[c].pc = "query" /\ refresh'[c].pc = "notify"

Doubt(c) == pc'[c] = "refresh"
            /\ IF pc[c] = "refresh" THEN doubt[c] \/ Misleads(c) ELSE InFlight

HistoryInit == Init /\ doubt = [c \in Callers |-> FALSE]
HistoryNext == Next /\ doubt' = [c \in Callers |-> Doubt(c)]

HistorySpec     == HistoryInit /\ [][HistoryNext]_<<vars, doubt>>
FairHistorySpec == HistorySpec /\ Fairness

\* A call that returns because nothing is to be done is right ("the locked state is
\* read fresh here", the comment in lock), however many refreshes overlap with its
\* own, if its own query was answered and its entity notified, the dataset kept its
\* state meanwhile, and no refresh had an older answer, or got an empty one, still to
\* write.
AlreadyIsRight ==
  [][\A c \in Callers :
       pc[c] = "refresh" /\ result'[c] = "already" /\ ~doubt[c] /\ data' = row
         => locked = (op[c] = "lock")]_<<vars, doubt>>

\* Why: every answer still to be written is true, and so is the row once the call's
\* own answer is written.
FreshInv ==
  \A c \in Callers : pc[c] = "refresh" /\ ~doubt[c] =>
    /\ \A p \in Procs : refresh[p].pc = "write" => refresh[p].answer = Shown(locked)
    /\ refresh[c].pc = "notify" => row = Shown(locked)
=============================================================================
