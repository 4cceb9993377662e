------------------------------- MODULE AppUpdate -------------------------------
(***************************************************************************)
(* The update of one app: async_install of its update entity starts an     *)
(* upgrade job and keeps its id in the row of the app; get_app forgets the *)
(* id when the job has ended; the id is what "in progress" means.           *)
(*                                                                         *)
(* async_install runs on the event loop, get_app in an executor thread.     *)
(* An installation ends with a refresh of its own, which Home Assistant    *)
(* does not serialise with the scheduled one.                              *)
(*                                                                         *)
(* Abstracted: the columns of an app other than its state and the id; the  *)
(* other apps; that Home Assistant offers an update only when one is        *)
(* available.                                                              *)
(***************************************************************************)
EXTENDS Naturals

CONSTANTS
  Callers,      \* those who press "install"
  Poller,       \* the scheduled refresh
  MaxJobs,      \* bound on the upgrade jobs started
  AnswersLost   \* may queries come back with None?

Procs == Callers \cup {Poller}
Jobs  == 1..MaxJobs

ASSUME ProcAssumption == Poller \notin Callers
ASSUME JobAssumption  == MaxJobs \in Nat /\ AnswersLost \in BOOLEAN

VARIABLES
  job,       \* server: the upgrade jobs, by id
  running,   \* server: is the app RUNNING?
  row,       \* ds["app"][id]: its state is RUNNING; update_jobid, 0 for none
  refresh,   \* per process: where get_app is, and what it was answered
  pc,        \* the installations
  reply,     \* the job id app.upgrade returned to each, 0 for None
  doubted    \* history: refreshes overlapped, or an answer about a job was lost

server == <<job, running>>
calls  == <<pc, reply>>
vars   == <<server, row, refresh, calls, doubted>>

JobStates == {"none", "WAITING", "RUNNING", "SUCCESS", "FAILED"}
Live      == {"WAITING", "RUNNING"}
Idle      == [pc |-> "idle", app |-> FALSE, state |-> "none"]

\* Where a refresh is, with what it was answered.
RefreshType ==
  [pc : {"idle", "apps", "write", "jobs", "clear"}, app : BOOLEAN, state : JobStates]

TypeOK ==
  /\ job \in [Jobs -> JobStates] /\ running \in BOOLEAN
  /\ row \in [running : BOOLEAN, jobid : 0..MaxJobs]
  /\ refresh \in [Procs -> RefreshType]
  /\ pc \in [Callers -> {"idle", "upgrade", "answered", "refresh"}]
  /\ reply \in [Callers -> 0..MaxJobs]
  /\ doubted \in BOOLEAN

Init ==
  /\ job = [j \in Jobs |-> "none"] /\ running = TRUE
  /\ row = [running |-> TRUE, jobid |-> 0]
  /\ refresh = [p \in Procs |-> Idle]
  /\ pc = [c \in Callers |-> "idle"]
  /\ reply = [c \in Callers |-> 0]
  /\ doubted = FALSE

Goto(c, l)  == pc' = [pc EXCEPT ![c] = l]
PollAt(p, l) == refresh' = [refresh EXCEPT ![p].pc = l]

-----------------------------------------------------------------------------
\* The server (external): jobs get increasing ids; an app stops while it is
\* upgraded and may stop or start by itself.

Begins(j) == job[j] = "WAITING" /\ job' = [job EXCEPT ![j] = "RUNNING"]
Ends(j)   == /\ job[j] = "RUNNING"
             /\ \E s \in {"SUCCESS", "FAILED"} : job' = [job EXCEPT ![j] = s]

Server ==
  /\ \/ \E j \in Jobs : (Begins(j) \/ Ends(j)) /\ UNCHANGED running
     \/ running' = ~running /\ UNCHANGED job
  /\ UNCHANGED <<row, refresh, calls, doubted>>

-----------------------------------------------------------------------------
\* get_app

Begin(p) ==
  /\ PollAt(p, "apps")
  /\ doubted' = (doubted \/ \E q \in Procs : refresh[q].pc # "idle")

ScheduledPoll ==
  /\ refresh[Poller].pc = "idle" /\ Begin(Poller)
  /\ UNCHANGED <<server, row, calls>>

\* app.query: an answer, or none, which leaves the rows as they are.
QueryApps(p) ==
  /\ refresh[p].pc = "apps"
  /\ \/ refresh' = [refresh EXCEPT ![p] = [@ EXCEPT !.pc = "write", !.app = running]]
     \/ AnswersLost /\ PollAt(p, "jobs")
  /\ UNCHANGED <<server, row, calls, doubted>>

WriteApps(p) ==
  /\ refresh[p].pc = "write"
  /\ row' = [row EXCEPT !.running = refresh[p].app]
  /\ PollAt(p, "jobs")
  /\ UNCHANGED <<server, calls, doubted>>

Looked(p, s) == refresh' = [refresh EXCEPT ![p] = [@ EXCEPT !.pc = "clear", !.state = s]]

\* _clear_finished_app_updates: the job of the row, if it has one, is looked up
\* ("none" stands for no answer and for an empty one).
QueryJob(p) ==
  /\ refresh[p].pc = "jobs"
  /\ \/ row.jobid = 0 /\ PollAt(p, "idle") /\ UNCHANGED doubted
     \/ /\ row.jobid # 0
        /\ \/ Looked(p, job[row.jobid]) /\ UNCHANGED doubted
           \/ AnswersLost /\ Looked(p, "none") /\ doubted' = TRUE
  /\ UNCHANGED <<server, row, calls>>

\* Variant of ClearJob: the row is left alone.
ClearNothing(p) ==
  /\ refresh[p].pc = "clear"
  /\ PollAt(p, "idle")
  /\ UNCHANGED <<server, row, calls, doubted>>

\* Variant of ClearJob: the key is removed instead of being set to 0.
ClearPops(p) ==
  /\ refresh[p].pc = "clear"
  /\ row' = IF refresh[p].state \in Live THEN row ELSE [running |-> row.running]
  /\ refresh' = [refresh EXCEPT ![p] = Idle]
  /\ UNCHANGED <<server, calls, doubted>>

\* Variant of ClearJob: what the job was doing is not looked at.
ClearAlways(p) ==
  /\ refresh[p].pc = "clear"
  /\ row' = [row EXCEPT !.jobid = 0]
  /\ refresh' = [refresh EXCEPT ![p] = Idle]
  /\ UNCHANGED <<server, calls, doubted>>

\* Whatever id the row holds by now is reset, unless the job looked up is live.
ClearJob(p) ==
  /\ refresh[p].pc = "clear"
  /\ row' = IF refresh[p].state \in Live THEN row ELSE [row EXCEPT !.jobid = 0]
  /\ refresh' = [refresh EXCEPT ![p] = Idle]
  /\ UNCHANGED <<server, calls, doubted>>

GetApp(p) == QueryApps(p) \/ WriteApps(p) \/ QueryJob(p) \/ ClearJob(p)

-----------------------------------------------------------------------------
\* async_install

\* Home Assistant refuses to install when in_progress (external); the code
\* refuses when the row does not say RUNNING.
Install(c) ==
  /\ pc[c] = "idle" /\ row.jobid = 0 /\ row.running
  /\ Goto(c, "upgrade")
  /\ UNCHANGED <<server, row, refresh, reply, doubted>>

\* app.upgrade: the job is queued and its id returned; or it is refused; or the
\* answer is lost.
Upgrade(c) ==
  /\ pc[c] = "upgrade"
  /\ \/ \E j \in Jobs :
          /\ job[j] = "none" /\ \A i \in 1..(j - 1) : job[i] # "none"
          /\ job' = [job EXCEPT ![j] = "WAITING"]
          /\ \/ reply' = [reply EXCEPT ![c] = j]
             \/ AnswersLost /\ UNCHANGED reply
     \/ UNCHANGED <<job, reply>>
  /\ Goto(c, "answered")
  /\ UNCHANGED <<running, row, refresh, doubted>>

\* The id is kept when the coroutine is resumed, and a refresh begins.
Keep(c) ==
  /\ pc[c] = "answered"
  /\ \/ reply[c] = 0 /\ Goto(c, "idle") /\ UNCHANGED <<row, refresh, doubted>>
     \/ /\ reply[c] # 0
        /\ row' = [row EXCEPT !.jobid = reply[c]]
        /\ Goto(c, "refresh") /\ Begin(c)
  /\ UNCHANGED <<server, reply>>

Done(c) ==
  /\ pc[c] = "refresh" /\ refresh[c].pc = "idle"
  /\ Goto(c, "idle") /\ reply' = [reply EXCEPT ![c] = 0]
  /\ UNCHANGED <<server, row, refresh, doubted>>

-----------------------------------------------------------------------------
Resume(c) == Upgrade(c) \/ Keep(c) \/ Done(c)

Next ==
  \/ Server \/ ScheduledPoll
  \/ \E p \in Procs : GetApp(p)
  \/ \E c \in Callers : Install(c) \/ Resume(c)

Spec == Init /\ [][Next]_vars

\* Queries return, coroutines are resumed and the poll recurs.  Nothing is
\* assumed of the server: a job may stay live for ever.
Fairness ==
  /\ WF_vars(ScheduledPoll)
  /\ \A p \in Procs : WF_vars(GetApp(p))
  /\ \A c \in Callers : WF_vars(Resume(c))

FairSpec == Spec /\ Fairness

-----------------------------------------------------------------------------
\* An update does not stay "in progress": once no upgrade is live, the id is
\* forgotten and the app can be updated again (what _clear_finished_app_updates
\* is for).
ProgressClears ==
  (<>[]\A j \in Jobs : job[j] \notin Live) => <>[](row.jobid = 0)

\* The id is only forgotten "once an app's upgrade job is no longer running"
\* (the docstring of _clear_finished_app_updates).
Forgets == row.jobid # 0 /\ row'.jobid = 0
ForgetsOnlyFinished == [][Forgets => job[row.jobid] \notin Live]_vars

\* And it is, however many installations there are, as long as each refresh ends
\* before the next one begins and each job that is asked for is answered: what is
\* forgotten is the job that was looked up, and it had ended.
ForgetsWhatEnded == [][Forgets /\ ~doubted => job[row.jobid] \notin Live]_vars

\* Why: ids that are kept are ids of jobs, and a refresh that was told that a job
\* has ended was told so of the one in the row.
KnownJob(j) == j # 0 => job[j] # "none"

EndedInv ==
  /\ KnownJob(row.jobid) /\ \A c \in Callers : KnownJob(reply[c])
  /\ ~doubted => \A p, q \in Procs : refresh[p].pc # "idle" /\ refresh[q].pc # "idle" => p = q
  /\ ~doubted => \A p \in Procs : refresh[p].pc = "clear" /\ refresh[p].state \notin Live =>
                    row.jobid # 0 /\ job[row.jobid] \notin Live
=============================================================================
