------------------------------- MODULE TaskRuns -------------------------------
(***************************************************************************)
(* One on-demand task of TrueNAS (a cloudsync, rsync, replication or       *)
(* periodic snapshot task): the actions and buttons that trigger it, the   *)
(* optimistic RUNNING they show, and the poll that reads its state back.   *)
(*                                                                         *)
(* Coroutines run on the event loop and are suspended at every query; the  *)
(* getter of a poll runs in an executor thread, so its query and its write *)
(* of the row are separate steps.  The row is one dict that entities keep a *)
(* reference to, so they read a write as soon as it is made.  Two polls may *)
(* overlap: Home Assistant does not serialise the async_refresh of a dataset *)
(* action with the scheduled refresh.                                      *)
(*                                                                         *)
(* Abstracted: all columns but the state; the other groups.                *)
(***************************************************************************)
EXTENDS Naturals

CONSTANTS
  Tasks,        \* the kinds of task: which getter and which entity class
  Callers,      \* automations and users: one coroutine each
  Polls,        \* the refreshes that may be under way at the same time
  CallersOf,    \* per kind: which of the callers there are,
  PollsOf,      \*           which of the refreshes,
  OpsOf,        \*           and what is called
  MaxJobs,      \* bound on the jobs the server has queued for the task
  Scheduled,    \* the kinds that the server also starts by itself
  TaskReported  \* replication: does the answer hold the task's own state?

ASSUME KindAssumption ==
  Tasks \subseteq {"cloudsync", "rsynctask", "replication", "snapshottask"}
ASSUME SetupAssumption == /\ CallersOf \in [Tasks -> SUBSET Callers]
                          /\ PollsOf \in [Tasks -> (SUBSET Polls) \ {{}}]
                          /\ OpsOf \in [Tasks -> SUBSET {"start", "stop", "press"}]
ASSUME FlagAssumption ==
  MaxJobs \in Nat /\ Scheduled \subseteq Tasks /\ TaskReported \in BOOLEAN

VARIABLES
  kind,       \* which kind of task this is
  active,     \* server: jobs of the task that are queued or running
  job,        \* server: the state of its last job
  row,        \* ds[kind][id]["state"]
  kept,       \* ds[kind][id]["job_state"], "None" when there is none
  poll,       \* the getters: what each does next, what the server answered, and
              \* whether another dropped what it had written (cut, a history field)
  pc          \* the callers

server == <<kind, active, job>>
vars   == <<server, row, kept, poll, pc>>

Ops == OpsOf[kind]

Live      == {"WAITING", "RUNNING"}
JobStates == Live \cup {"SUCCESS", "FAILED", "ABORTED", "unknown"}

TypeOK ==
  /\ kind \in Tasks
  /\ active \in 0..MaxJobs
  /\ job \in JobStates /\ row \in JobStates
  /\ kept \in JobStates \cup {"None"}
  /\ poll \in [Polls -> [pc : {"query", "write", "fallback", "pop"},
                         answer : JobStates \cup {"None"}, cut : BOOLEAN]]
  /\ pc \in [Callers -> {"idle", "askStart", "askStop", "run", "mark", "abort"}]

Init ==
  /\ kind \in Tasks
  /\ active = 0 /\ job = "unknown" /\ row = "unknown" /\ kept = "None"
  /\ poll = [p \in Polls |-> [pc |-> "query", answer |-> "None", cut |-> FALSE]]
  /\ pc = [c \in Callers |-> "idle"]

Goto(c, l) == pc' = [pc EXCEPT ![c] = l] /\ UNCHANGED kind

-----------------------------------------------------------------------------
\* The server (external).

Accept ==
  /\ active < MaxJobs
  /\ active' = active + 1
  /\ IF active = 0 THEN job' \in Live ELSE UNCHANGED job

Schedule  == kind \in Scheduled /\ Accept /\ UNCHANGED <<kind, row, kept, poll, pc>>
JobBegins == job = "WAITING" /\ job' = "RUNNING" /\ UNCHANGED <<kind, active, row, kept, poll, pc>>
JobEnds ==
  /\ active > 0 /\ job = "RUNNING"
  /\ active' = active - 1
  /\ job' \in IF active = 1 THEN {"SUCCESS", "FAILED"} ELSE {"RUNNING"}
  /\ UNCHANGED <<kind, row, kept, poll, pc>>

-----------------------------------------------------------------------------
\* start(), stop() and the run button.

\* What start() takes for "already running"; a snapshot task is never WAITING.
Busy == IF kind = "snapshottask" THEN {"RUNNING"} ELSE Live

\* Rsync, replication and snapshot tasks: the guard reads the row.
StartGuarded(c) ==
  /\ pc[c] = "idle" /\ "start" \in Ops /\ kind # "cloudsync"
  /\ row \notin Busy
  /\ Goto(c, "run") /\ UNCHANGED <<server, row, kept, poll>>

\* The run button has no guard; cloudsync tasks have no button.
Press(c) ==
  /\ pc[c] = "idle" /\ "press" \in Ops /\ kind # "cloudsync"
  /\ Goto(c, "run") /\ UNCHANGED <<server, row, kept, poll>>

\* Variant of Ask: a cloudsync start that trusts the row.
AskNothing(c) ==
  /\ pc[c] = "idle" /\ kind = "cloudsync" /\ "start" \in Ops
  /\ row \notin Busy
  /\ Goto(c, "run") /\ UNCHANGED <<server, row, kept, poll>>

\* Cloudsync tasks: start and stop ask the server first.
Ask(c) ==
  /\ pc[c] = "idle" /\ kind = "cloudsync"
  /\ \/ "start" \in Ops /\ Goto(c, "askStart")
     \/ "stop" \in Ops /\ Goto(c, "askStop")
  /\ UNCHANGED <<server, row, kept, poll>>

\* The answer decides; no answer, or one without a job, ends the call.
Asked(c) ==
  /\ \/ pc[c] = "askStart" /\ Goto(c, IF job \in Busy THEN "idle" ELSE "run")
     \/ pc[c] = "askStop"  /\ Goto(c, IF job \in Busy THEN "abort" ELSE "idle")
     \/ pc[c] \in {"askStart", "askStop"} /\ Goto(c, "idle")
  /\ UNCHANGED <<server, row, kept, poll>>

\* async_run_task: the server takes the request, or it is refused or lost; the
\* result is not looked at.
Run(c) ==
  /\ pc[c] = "run"
  /\ Accept \/ UNCHANGED <<active, job>>
  /\ Goto(c, "mark") /\ UNCHANGED <<row, kept, poll>>

\* set_optimistic_running, when the coroutine is resumed.
Mark(c) ==
  /\ pc[c] = "mark"
  /\ row' = "RUNNING"
  /\ Goto(c, "idle") /\ UNCHANGED <<server, kept, poll>>

\* cloudsync.abort: the running job is aborted, if there still is one.
Abort(c) ==
  /\ pc[c] = "abort"
  /\ \/ active > 0 /\ active' = 0 /\ job' = "ABORTED"
     \/ UNCHANGED <<active, job>>
  /\ Goto(c, "idle") /\ UNCHANGED <<row, kept, poll>>

-----------------------------------------------------------------------------
\* get_cloudsync, get_rsync, get_replication and get_snapshottask.

PollStep(p, l) == poll' = [poll EXCEPT ![p].pc = l] /\ UNCHANGED <<server, pc>>

PollGets(p, answer) ==
  /\ poll[p].pc = "query"
  /\ poll' = [poll EXCEPT ![p] = [pc |-> "write", answer |-> answer, cut |-> FALSE]]
  /\ UNCHANGED <<server, row, kept, pc>>

PollFails(p)    == PollGets(p, "None")
PollAnswered(p) == PollGets(p, job)

\* A replication whose own state is missing is "unknown" until the fallback has
\* run; the state of the last job is kept for it in the row.
NoTaskState == kind = "replication" /\ ~TaskReported

\* Variant of PollWrite: a task shown as running is left to the optimistic update.
PollWriteKeeps(p) ==
  /\ poll[p].pc = "write"
  /\ row' = IF poll[p].answer = "None" \/ row = "RUNNING" THEN row ELSE poll[p].answer
  /\ PollStep(p, "query") /\ UNCHANGED kept

\* Variant of PollWrite: no answer is written like any other.
PollWriteAny(p) ==
  /\ poll[p].pc = "write"
  /\ row' = poll[p].answer
  /\ PollStep(p, "query") /\ UNCHANGED kept

\* Variant of PollWrite: the state of the last job is not asked for.
PollWriteOnly(p) ==
  /\ poll[p].pc = "write"
  /\ row' = CASE poll[p].answer = "None" -> row
              [] NoTaskState -> "unknown"
              [] OTHER -> poll[p].answer
  /\ PollStep(p, "query") /\ UNCHANGED kept

\* parse_api: no answer leaves the row alone.  A poll that is between its fallback
\* and its drop of job_state will drop the one written here.
PollWrite(p) ==
  /\ poll[p].pc = "write"
  /\ \/ poll[p].answer = "None" /\ UNCHANGED <<row, kept>>
     \/ poll[p].answer # "None" /\ NoTaskState
        /\ row' = "unknown" /\ kept' = poll[p].answer
     \/ poll[p].answer # "None" /\ ~NoTaskState
        /\ row' = poll[p].answer /\ UNCHANGED kept
  /\ poll' = [poll EXCEPT ![p] =
       [pc |-> IF kind = "replication" THEN "fallback" ELSE "query", answer |-> @.answer,
        cut |-> \E q \in PollsOf[kind] \ {p} : poll[q].pc = "pop"]]
  /\ UNCHANGED <<server, pc>>

\* The loop of get_replication: the state of the last job if the row is unknown,
\* then job_state is dropped.
PollFallback(p) ==
  /\ poll[p].pc = "fallback"
  /\ row' = IF row = "unknown" /\ kept # "None" THEN kept ELSE row
  /\ PollStep(p, "pop") /\ UNCHANGED kept

PollPop(p) ==
  /\ poll[p].pc = "pop"
  /\ kept' = "None"
  /\ PollStep(p, "query") /\ UNCHANGED row

Poll(p) == \/ PollFails(p) \/ PollAnswered(p) \/ PollWrite(p)
           \/ PollFallback(p) \/ PollPop(p)

-----------------------------------------------------------------------------
Caller(c) == StartGuarded(c) \/ Press(c) \/ Ask(c)
Resume(c) == Asked(c) \/ Run(c) \/ Mark(c) \/ Abort(c)
Server    == Schedule \/ JobBegins \/ JobEnds

Next ==
  \/ Server
  \/ \E p \in PollsOf[kind] : Poll(p)
  \/ \E c \in CallersOf[kind] : Caller(c) \/ Resume(c)

Spec == Init /\ [][Next]_vars

\* Polls recur and are answered again and again; a query returns, so a
\* suspended coroutine is resumed.
Fairness ==
  /\ \A p \in Polls : WF_vars(p \in PollsOf[kind] /\ Poll(p))
                       /\ SF_vars(p \in PollsOf[kind] /\ PollAnswered(p))
  /\ \A c \in Callers : WF_vars(Resume(c))

FairSpec == Spec /\ Fairness

-----------------------------------------------------------------------------
\* A start never adds a job to a task that has one: what the guard of the
\* *_run actions is for ("guarded against running jobs", CHANGELOG).
GuardHolds == active <= 1

\* It holds of a cloudsync task that nobody else starts: the server is asked
\* before each start, and polls that write older states do not matter.
NoSecondJob == kind = "cloudsync" => GuardHolds

Quiet == active = 0 /\ job \notin Live /\ \A c \in Callers : pc[c] = "idle"

\* The optimistic RUNNING does not outlive the job: once the task rests for
\* good, the row settles on a state that is not running, even if the trigger was
\* refused, lost, or overtaken by a poll that was already under way.
RunningClears == <>[]Quiet => <>[](row \notin Live)

\* Once the polls are through, a replication whose last job is known is not
\* shown as unknown: the fallback "cannot regress the sensor to unknown" (the
\* comment in get_replication).
Known(p) == poll[p].pc = "query" /\ poll[p].answer \notin {"None", "unknown"}
FallbackSuffices == (\A p \in PollsOf[kind] : Known(p)) => row # "unknown"

\* It holds however many polls overlap and in whatever order they write, fall
\* back and drop, but for one: a poll must not write while another is between
\* its fallback and its drop.
KnownAtRest == (\A p \in PollsOf[kind] : ~poll[p].cut) => FallbackSuffices

\* What makes these two inductive.  A caller that has asked and is about to start
\* knows that there is no job, and nobody else starts one.
JobInv ==
  kind = "cloudsync" =>
    /\ active <= 1 /\ (active > 0 => job \in Live)
    /\ \A c \in Callers : pc[c] = "run" => active = 0
    /\ \A c \in Callers : pc[c] # "idle" => c \in CallersOf["cloudsync"]

\* A row that is unknown was left so by a poll without a known state, or one
\* that was cut, or the poll that is going to replace it has not fallen back yet,
\* and nobody is about to drop what it needs.
Unsure(p) == \/ poll[p].pc = "write" \/ poll[p].answer \in {"None", "unknown"}
             \/ poll[p].cut
             \/ /\ poll[p].pc = "fallback" /\ kept = poll[p].answer
                /\ \A q \in PollsOf[kind] : poll[q].pc # "pop"

RowInv ==
  /\ kind # "replication" => \A p \in PollsOf[kind] : poll[p].pc \in {"query", "write"}
  /\ row = "unknown" => \E p \in PollsOf[kind] : Unsure(p)
=============================================================================
