------------------------------ MODULE DatasetLock ------------------------------
(***************************************************************************)
(* dataset_lock and dataset_unlock on one encrypted dataset (sensor.py,    *)
(* TrueNASDatasetSensor): refresh, check the state, start a middleware job, *)
(* wait for it, refresh again.                                             *)
(*                                                                         *)
(* A refresh of the coordinator is a query in an executor thread, a write  *)
(* of the group, and the notification of the entities on the event loop.   *)
(* Home Assistant does not serialise async_refresh with the scheduled      *)
(* poll, so refreshes of several processes interleave.                     *)
(*                                                                         *)
(* Abstracted: the other columns of the dataset, the texts of errors, and   *)
(* time: the 30 s limit may strike at any moment of the wait.              *)
(***************************************************************************)
EXTENDS Naturals

CONSTANTS
  Callers,      \* service calls on the dataset, by name
  Ops,          \* Ops[c] \subseteq {"lock", "unlock"}: what c may ask for
  Poller,       \* the coordinator's scheduled refresh
  AnswersLost,  \* may queries come back with None?
  MaxMissing    \* JOB_MAX_MISSING_POLLS

Procs == Callers \cup {Poller}

ASSUME OpsAssumption  == Ops \in [Callers -> SUBSET {"lock", "unlock"}]
ASSUME ProcAssumption == Poller \notin Callers /\ AnswersLost \in BOOLEAN
ASSUME MissAssumption == MaxMissing \in Nat \ {0}

VARIABLES
  locked,    \* server: is the dataset locked?
  job,       \* server: the job of each call's last request
  late,      \* server: what the earlier jobs that still run are to do
  row,       \* ds["dataset"][id]: "locked", "unlocked", or "absent"
  data,      \* the entity's _data, as of its last notification
  refresh,   \* per process: the refresh it is in
  pc,        \* the calls
  op,        \* what each call asks for
  missing,   \* _wait_for_job's counter
  result     \* how each call ended

server == <<locked, job, late>>
vars   == <<server, row, data, refresh, pc, op, missing, result>>
calls  == <<pc, op, missing, result>>

Shown(b) == IF b THEN "locked" ELSE "unlocked"
Rows     == {"locked", "unlocked", "absent"}
Idle     == [pc |-> "idle", answer |-> "absent"]

TypeOK ==
  /\ locked \in BOOLEAN
  /\ job \in [Callers -> {"none", "running", "success", "successFailed", "failed"}]
  /\ late \subseteq {"lock", "unlock"}
  /\ row \in Rows /\ data \in Rows
  /\ refresh \in [Procs -> [pc : {"idle", "query", "write", "notify"}, answer : Rows]]
  /\ pc \in [Callers -> {"idle", "refresh", "request", "wait", "refreshAgain"}]
  /\ op \in [Callers -> {"lock", "unlock"}]
  /\ missing \in [Callers -> 0..(MaxMissing - 1)]
  /\ result \in [Callers -> {"none", "raised", "already", "done"}]

Init ==
  /\ locked \in BOOLEAN
  /\ job = [c \in Callers |-> "none"] /\ late = {}
  /\ row = Shown(locked) /\ data = Shown(locked)
  /\ refresh = [p \in Procs |-> Idle]
  /\ pc = [c \in Callers |-> "idle"]
  /\ op = [c \in Callers |-> "lock"]
  /\ missing = [c \in Callers |-> 0]
  /\ result = [c \in Callers |-> "none"]

Goto(c, l)  == pc' = [pc EXCEPT ![c] = l]
End(c, r)   == Goto(c, "idle") /\ result' = [result EXCEPT ![c] = r]
Begin(p)    == refresh' = [refresh EXCEPT ![p].pc = "query"]

-----------------------------------------------------------------------------
\* A refresh: get_dataset in an executor thread, then the listeners.

Query(p) ==
  /\ refresh[p].pc = "query"
  /\ refresh' = [refresh EXCEPT ![p] = [pc |-> "write", answer |-> Shown(locked)]]
  /\ UNCHANGED <<server, row, data, calls>>

\* No answer, or a refresh that ends before its getters run because there is no
\* connection.
QueryLost(p) ==
  /\ AnswersLost /\ refresh[p].pc = "query"
  /\ \/ refresh' = [refresh EXCEPT ![p] = [pc |-> "write", answer |-> "absent"]]
     \/ refresh' = [refresh EXCEPT ![p].pc = "notify"]
  /\ UNCHANGED <<server, row, data, calls>>

\* Variant of Write: known datasets keep the values they have.
WriteNew(p) ==
  /\ refresh[p].pc = "write"
  /\ row' = IF row = "absent" THEN refresh[p].answer ELSE row
  /\ refresh' = [refresh EXCEPT ![p].pc = "notify"]
  /\ UNCHANGED <<server, data, calls>>

\* The group is rebuilt from nothing (data={}), so no answer empties it.
Write(p) ==
  /\ refresh[p].pc = "write"
  /\ row' = refresh[p].answer
  /\ refresh' = [refresh EXCEPT ![p].pc = "notify"]
  /\ UNCHANGED <<server, data, calls>>

\* The entity reads the group again, if the coordinator notifies it: it does
\* not after a failed refresh that follows another failed one.
Notify(p) ==
  /\ refresh[p].pc = "notify"
  /\ data' = row \/ (AnswersLost /\ UNCHANGED data)
  /\ refresh' = [refresh EXCEPT ![p] = Idle]

PollEnds == Notify(Poller) /\ UNCHANGED <<server, row, calls>>

ScheduledPoll ==
  /\ refresh[Poller].pc = "idle"
  /\ Begin(Poller)
  /\ UNCHANGED <<server, row, data, calls>>

Refreshing(p) == Query(p) \/ QueryLost(p) \/ Write(p)

-----------------------------------------------------------------------------
\* lock() and unlock()

\* _raise_if_not_encrypted (an absent row has no "encrypted"), then refresh.
Call(c) ==
  /\ pc[c] = "idle"
  /\ \E o \in Ops[c] : op' = [op EXCEPT ![c] = o]
  /\ \/ data = "absent" /\ End(c, "raised") /\ UNCHANGED refresh
     \/ data # "absent" /\ Goto(c, "refresh") /\ Begin(c)
        /\ result' = [result EXCEPT ![c] = "none"]
  /\ late' = IF job[c] = "running" THEN late \cup {op[c]} ELSE late
  /\ job' = [job EXCEPT ![c] = "none"]
  /\ UNCHANGED <<locked, row, data, missing>>

\* _data.get("locked", True): a missing row counts as locked.
SeenLocked(d) == d \in {"locked", "absent"}

\* Variant of Check: the state is checked as it was before the refresh.
CheckOld(c) ==
  /\ pc[c] = "refresh" /\ Notify(c)
  /\ IF SeenLocked(data) = (op[c] = "lock")
     THEN End(c, "already")
     ELSE Goto(c, "request") /\ UNCHANGED result
  /\ UNCHANGED <<server, row, op, missing>>

\* The refresh ends and, with no suspension in between, the state is checked.
Check(c) ==
  /\ pc[c] = "refresh" /\ Notify(c)
  /\ IF SeenLocked(data') = (op[c] = "lock")
     THEN End(c, "already")
     ELSE Goto(c, "request") /\ UNCHANGED result
  /\ UNCHANGED <<server, row, op, missing>>

\* The job is started; or the server refuses (it must when the row, and so the
\* id, is missing), or the answer is lost: no job id, whether or not it runs.
Request(c) ==
  /\ pc[c] = "request"
  /\ \/ /\ data # "absent"
        /\ job' = [job EXCEPT ![c] = "running"]
        /\ \/ Goto(c, "wait") /\ UNCHANGED result
           \/ AnswersLost /\ End(c, "raised")
     \/ End(c, "raised") /\ UNCHANGED job
  /\ missing' = [missing EXCEPT ![c] = 0]
  /\ UNCHANGED <<locked, late, row, data, refresh, op>>

\* Server (external): the job ends; a wrong passphrase is a SUCCESS that lists
\* the dataset under "failed".
JobEnds(c) ==
  /\ job[c] = "running"
  /\ \/ job' = [job EXCEPT ![c] = "success"] /\ locked' = (op[c] = "lock")
     \/ op[c] = "unlock" /\ job' = [job EXCEPT ![c] = "successFailed"] /\ UNCHANGED locked
     \/ job' = [job EXCEPT ![c] = "failed"] /\ UNCHANGED locked
  /\ UNCHANGED <<late, row, data, refresh, calls>>

\* A job whose caller gave up on it takes effect, or fails.
LateJobEnds ==
  /\ \E o \in late : /\ late' = late \ {o}
                     /\ locked' = (o = "lock") \/ UNCHANGED locked
  /\ UNCHANGED <<job, row, data, refresh, calls>>

\* Variant of Finished: the job state alone decides.
FinishedByState(c) ==
  /\ job[c] \in {"success", "successFailed"}
  /\ Goto(c, "refreshAgain") /\ Begin(c) /\ UNCHANGED result

\* SUCCESS: the result is checked, and the last refresh begins.
Finished(c) ==
  \/ job[c] = "success" /\ Goto(c, "refreshAgain") /\ Begin(c) /\ UNCHANGED result
  \/ job[c] = "successFailed" /\ End(c, "raised") /\ UNCHANGED refresh

\* Variant of NotFound: one look too many.
NotFoundLate(c) ==
  IF missing[c] >= MaxMissing
  THEN End(c, "raised") /\ UNCHANGED missing
  ELSE missing' = [missing EXCEPT ![c] = @ + 1] /\ UNCHANGED <<pc, result>>

\* An empty answer: MaxMissing of them in a row are an error.
NotFound(c) ==
  IF missing[c] + 1 >= MaxMissing
  THEN End(c, "raised") /\ UNCHANGED missing
  ELSE missing' = [missing EXCEPT ![c] = @ + 1] /\ UNCHANGED <<pc, result>>

\* One look at the job: nothing, finished, failed, or still running.
PollJob(c) ==
  /\ pc[c] = "wait"
  /\ \/ AnswersLost /\ NotFound(c) /\ UNCHANGED refresh
     \/ Finished(c) /\ UNCHANGED missing
     \/ job[c] = "failed" /\ End(c, "raised") /\ UNCHANGED <<missing, refresh>>
     \/ /\ job[c] = "running"
        /\ missing' = [missing EXCEPT ![c] = 0]
        /\ UNCHANGED <<pc, result, refresh>>
  /\ UNCHANGED <<server, row, data, op>>

\* Variant of Timeout: the wait has no limit.
NoTimeout(c) == FALSE /\ UNCHANGED vars

\* asyncio.timeout(JOB_WAIT_TIMEOUT)
Timeout(c) ==
  /\ pc[c] = "wait"
  /\ End(c, "raised")
  /\ UNCHANGED <<server, row, data, refresh, op, missing>>

Return(c) ==
  /\ pc[c] = "refreshAgain" /\ Notify(c)
  /\ End(c, "done")
  /\ UNCHANGED <<server, row, op, missing>>

-----------------------------------------------------------------------------
Resume(c) == Check(c) \/ Request(c) \/ PollJob(c) \/ Return(c)

Next ==
  \/ ScheduledPoll \/ PollEnds \/ LateJobEnds
  \/ \E p \in Procs : Refreshing(p)
  \/ \E c \in Callers : Call(c) \/ Resume(c) \/ Timeout(c) \/ JobEnds(c)

Spec == Init /\ [][Next]_vars

\* Queries return, coroutines are resumed, the poll recurs, the timeout is due.
\* Nothing is assumed of the server's jobs.
Fairness ==
  /\ WF_vars(ScheduledPoll) /\ WF_vars(PollEnds)
  /\ \A p \in Procs : WF_vars(Refreshing(p))
  /\ \A c \in Callers : WF_vars(Resume(c)) /\ WF_vars(Timeout(c))

FairSpec == Spec /\ Fairness

-----------------------------------------------------------------------------
\* A call that ran a job and returned without an error did what it was asked:
\* its own job succeeded and listed nothing as failed, whatever other callers,
\* late jobs and polls did meanwhile.  A lost job or a timeout is an error.
DoneIsDone == \A c \in Callers : result[c] = "done" => job[c] = "success"

\* What makes it inductive: a call waits for a job it started, and begins its last
\* refresh when that job has succeeded; a call under way has no result.
JobInv ==
  \A c \in Callers : /\ pc[c] # "idle" => result[c] = "none"
                     /\ pc[c] = "wait" => job[c] # "none"
                     /\ pc[c] = "refreshAgain" => job[c] = "success"

\* A call that returned because nothing was to be done was right: "the locked
\* state is read fresh here" (the comment in lock).
AlreadyIsFresh ==
  \A c \in Callers : result[c] = "already" => locked = (op[c] = "lock")

\* Every call ends, even if its job never does.
EveryCallEnds == \A c \in Callers : pc[c] # "idle" ~> pc[c] = "idle"

\* A refresh that finds no answer, or an entity that is not notified of one.
RefreshFails == \E p \in Procs : QueryLost(p) \/ (Notify(p) /\ data' # row)

\* However the refreshes interleave, a state that the dataset keeps is the one
\* the entity ends up showing, once refreshes do not fail any more.
ShowsTruth ==
  \A b \in BOOLEAN :
    <>[](locked = b) /\ <>[][~RefreshFails]_vars => <>[](data = Shown(b))
=============================================================================
