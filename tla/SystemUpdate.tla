----------------------------- MODULE SystemUpdate -----------------------------
(***************************************************************************)
(* The update of the system: async_install of the update entity, the        *)
(* progress get_systeminfo reads back, and get_updatecheck, which shares    *)
(* the columns update_state and update_available with it.                   *)
(*                                                                         *)
(* A refresh runs get_systeminfo and at times get_updatecheck in executor   *)
(* threads; async_install runs on the event loop and ends with a refresh of *)
(* its own, which Home Assistant does not serialise with the scheduled one. *)
(*                                                                         *)
(* Abstracted: versions are numbers; the percentage, which is shown only    *)
(* while update_state is RUNNING; the 12 hours between two update checks,   *)
(* each refresh may or may not make one; the other columns.                 *)
(***************************************************************************)
EXTENDS Naturals

CONSTANTS
  Callers,      \* those who press "install"
  Poller,       \* the scheduled refresh
  MaxJobs,      \* bound on the update jobs of a boot
  MaxVersion,   \* the newest version that will ever be released
  Statuses,     \* the states update.status may name, "none" for no state
  AnswersLost   \* may the connection drop, and queries come back with None?

Procs    == Callers \cup {Poller}
Jobs     == 1..MaxJobs
Versions == 1..MaxVersion

ASSUME ProcAssumption    == Poller \notin Callers /\ AnswersLost \in BOOLEAN
ASSUME VersionAssumption == MaxJobs \in Nat /\ MaxVersion \in Nat \ {0}

\* update.status speaks of versions, and the progress of an update is that of its
\* job: a status that says RUNNING itself would be shown as progress.
ASSUME StatusAssumption  == Statuses # {} /\ "RUNNING" \notin Statuses

VARIABLES
  installed,   \* server: the version it runs
  offer,       \* server: the newest version released
  job,         \* server: the update jobs since the last boot, by id
  info,        \* ds["system_info"]: the columns about updates
  refresh,     \* per process: where its refresh is, and the last answer
  pc,          \* the installations
  reply,       \* the job id update.update returned to each, 0 for None
  overlapped   \* has a refresh begun while another was under way? (history)

server == <<installed, offer, job>>
calls  == <<pc, reply>>
vars   == <<server, info, refresh, calls, overlapped>>

JobStates == {"none", "WAITING", "RUNNING", "FAILED"}
Live      == {"WAITING", "RUNNING"}

\* What update_state may say.
States    == JobStates \cup {"unknown", "IDLE"} \cup Statuses

\* A version, or 0 for no answer.
Answers == Versions \cup {0}

\* The row, and where a refresh is with its last answer.
RowType ==
  [version : Versions, new : Versions, available : BOOLEAN,
   state : States, jobid : 0..MaxJobs]

RefreshType ==
  [pc : {"idle", "info", "infoWrite", "job", "jobWrite", "check", "checkWrite"},
   version : Answers, state : JobStates \cup Statuses]

TypeOK ==
  /\ installed \in Versions /\ offer \in Versions
  /\ job \in [Jobs -> JobStates]
  /\ info \in RowType /\ refresh \in [Procs -> RefreshType]
  /\ pc \in [Callers -> {"idle", "update", "answered", "kept", "refresh"}]
  /\ reply \in [Callers -> 0..MaxJobs]
  /\ overlapped \in BOOLEAN

Idle == [pc |-> "idle", version |-> 0, state |-> "none"]

\* After the first refresh.
Init ==
  /\ installed = 1 /\ offer = 1
  /\ job = [j \in Jobs |-> "none"]
  /\ info = [version |-> 1, new |-> 1, available |-> FALSE, state |-> "unknown", jobid |-> 0]
  /\ refresh = [p \in Procs |-> Idle]
  /\ pc = [c \in Callers |-> "idle"]
  /\ reply = [c \in Callers |-> 0]
  /\ overlapped = FALSE

Goto(c, l)   == pc' = [pc EXCEPT ![c] = l]
PollAt(p, l) == refresh' = [refresh EXCEPT ![p].pc = l]

-----------------------------------------------------------------------------
\* The server (external).  Jobs are kept in memory: a reboot forgets them.

Release == /\ offer < MaxVersion /\ offer' = offer + 1
           /\ UNCHANGED <<installed, job>>
Begins  == /\ \E j \in Jobs : /\ job[j] = "WAITING"
                              /\ \A i \in Jobs : job[i] # "RUNNING"
                              /\ job' = [job EXCEPT ![j] = "RUNNING"]
           /\ UNCHANGED <<installed, offer>>
Fails   == /\ \E j \in Jobs : job[j] = "RUNNING" /\ job' = [job EXCEPT ![j] = "FAILED"]
           /\ UNCHANGED <<installed, offer>>

\* update.update is called with reboot.
Reboots == /\ \E j \in Jobs : job[j] = "RUNNING"
           /\ installed' = offer /\ job' = [j \in Jobs |-> "none"]
           /\ UNCHANGED offer

Server == (Release \/ Begins \/ Fails \/ Reboots) /\ UNCHANGED <<info, refresh, calls, overlapped>>

-----------------------------------------------------------------------------
\* get_systeminfo

Begin(p) ==
  /\ refresh[p].pc = "idle"
  /\ PollAt(p, "info")
  /\ overlapped' = (overlapped \/ \E q \in Procs : refresh[q].pc # "idle")

ScheduledPoll ==
  /\ Begin(Poller)
  /\ UNCHANGED <<server, info, calls>>

Gets(p, from, to, version, state) ==
  /\ refresh[p].pc = from
  /\ refresh' = [refresh EXCEPT ![p] = [pc |-> to, version |-> version, state |-> state]]
  /\ UNCHANGED <<server, info, calls, overlapped>>

\* None of a dropped connection ends get_systeminfo where it asks connected()
\* next.  If another query of the refresh reconnects, the update check may follow.
Lost(p, from) == AnswersLost /\ Gets(p, from, "check", 0, "none")

InfoLost(p)  == AnswersLost /\ Gets(p, "info", "infoWrite", 0, "none")
CheckLost(p) == AnswersLost /\ Gets(p, "check", "checkWrite", 0, "none")

QueryInfo(p) == \/ Gets(p, "info", "infoWrite", installed, "none")
                \/ InfoLost(p) \/ Lost(p, "info")

\* Variant of WriteInfo: no answer is written like any other.
WriteInfoAny(p) ==
  /\ refresh[p].pc = "infoWrite"
  /\ info' = [info EXCEPT !.version = refresh[p].version]
  /\ PollAt(p, IF info.jobid = 0 THEN "check" ELSE "job")
  /\ UNCHANGED <<server, calls, overlapped>>

\* update_version follows version unless an update is available; without a job
\* the rest of the refresh follows.
WriteInfo(p) ==
  /\ refresh[p].pc = "infoWrite"
  /\ LET v == IF refresh[p].version = 0 THEN info.version ELSE refresh[p].version IN
     info' = [info EXCEPT !.version = v, !.new = IF info.available THEN @ ELSE v]
  /\ PollAt(p, IF info.jobid = 0 THEN "check" ELSE "job")
  /\ UNCHANGED <<server, calls, overlapped>>

\* core.get_jobs for the id the row holds; "none" for no answer or no such job.
QueryJob(p) ==
  \/ /\ info.jobid # 0
     /\ \/ Gets(p, "job", "jobWrite", 0, job[info.jobid])
        \/ AnswersLost /\ Gets(p, "job", "jobWrite", 0, "none")
  \/ info.jobid = 0 /\ Gets(p, "job", "jobWrite", 0, "none")
  \/ Lost(p, "job")

\* Variant of WriteJob: the job is never forgotten.
WriteJobOnly(p) ==
  /\ refresh[p].pc = "jobWrite"
  /\ info' = IF refresh[p].state = "none" THEN info
             ELSE [info EXCEPT !.state = refresh[p].state]
  /\ PollAt(p, "check")
  /\ UNCHANGED <<server, calls, overlapped>>

\* Variant of WriteJob: only the id is forgotten.
WriteJobKeeps(p) ==
  /\ refresh[p].pc = "jobWrite"
  /\ LET s == IF refresh[p].state = "none" THEN info.state ELSE refresh[p].state IN
     info' = IF s = "RUNNING" /\ info.available
             THEN [info EXCEPT !.state = s]
             ELSE [info EXCEPT !.state = s, !.jobid = 0]
  /\ PollAt(p, "check")
  /\ UNCHANGED <<server, calls, overlapped>>

\* An empty answer leaves update_state as it was.  Anything but RUNNING, WAITING
\* too, and any job while no update is available, is forgotten.
WriteJob(p) ==
  /\ refresh[p].pc = "jobWrite"
  /\ LET s == IF refresh[p].state = "none" THEN info.state ELSE refresh[p].state IN
     info' = IF s = "RUNNING" /\ info.available
             THEN [info EXCEPT !.state = s]
             ELSE [info EXCEPT !.state = "unknown", !.jobid = 0]
  /\ PollAt(p, "check")
  /\ UNCHANGED <<server, calls, overlapped>>

-----------------------------------------------------------------------------
\* get_updatecheck, which _async_update_data calls when the last check is 12 h old.

NoCheck(p) ==
  /\ refresh[p].pc = "check"
  /\ refresh' = [refresh EXCEPT ![p] = Idle]
  /\ UNCHANGED <<server, info, calls, overlapped>>

\* The version update.status names, or 1, which is never newer than the installed
\* one, when it names none.
Newer == IF offer > installed THEN offer ELSE 1

QueryCheck(p) ==
  \/ \E s \in Statuses : Gets(p, "check", "checkWrite", Newer, s)
  \/ CheckLost(p)

\* Variant of NoUpdate: the flag stays as it was.
NoUpdateKept == [info EXCEPT !.new = info.version]

\* _reset_update_status
NoUpdate == [info EXCEPT !.available = FALSE, !.new = info.version]

\* A state in the answer becomes update_state.  No answer makes it IDLE.
WriteCheck(p) ==
  /\ refresh[p].pc = "checkWrite"
  /\ LET v == refresh[p].version
         s == IF v = 0 THEN "IDLE"
              ELSE IF refresh[p].state = "none" THEN info.state ELSE refresh[p].state
     IN \/ v > 1  /\ info' = [info EXCEPT !.available = TRUE, !.new = v, !.state = s]
        \/ v <= 1 /\ info' = [NoUpdate EXCEPT !.state = s]
  /\ refresh' = [refresh EXCEPT ![p] = Idle]
  /\ UNCHANGED <<server, calls, overlapped>>

Refresh(p) == \/ QueryInfo(p) \/ WriteInfo(p) \/ QueryJob(p) \/ WriteJob(p)
              \/ NoCheck(p) \/ QueryCheck(p) \/ WriteCheck(p)

-----------------------------------------------------------------------------
\* async_install

InProgress == info.state = "RUNNING"

\* Home Assistant refuses to install while in_progress, and when the version to
\* install is the installed one (external).
Install(c) ==
  /\ pc[c] = "idle" /\ ~InProgress /\ info.new # info.version
  /\ Goto(c, "update")
  /\ UNCHANGED <<server, info, refresh, reply, overlapped>>

\* update.update: the job is queued and its id returned, or the answer is lost,
\* or the call is refused.
Update(c) ==
  /\ pc[c] = "update"
  /\ \/ \E j \in Jobs :
          /\ job[j] = "none" /\ \A i \in 1..(j - 1) : job[i] # "none"
          /\ offer > installed
          /\ job' = [job EXCEPT ![j] = "WAITING"]
          /\ \/ reply' = [reply EXCEPT ![c] = j]
             \/ AnswersLost /\ UNCHANGED reply
     \/ UNCHANGED <<job, reply>>
  /\ Goto(c, "answered")
  /\ UNCHANGED <<installed, offer, info, refresh, overlapped>>

Keep(c) ==
  /\ pc[c] = "answered"
  /\ \/ reply[c] = 0 /\ Goto(c, "idle") /\ UNCHANGED info
     \/ /\ reply[c] # 0
        /\ info' = [info EXCEPT !.jobid = reply[c]]
        /\ Goto(c, "kept")
  /\ UNCHANGED <<server, refresh, reply, overlapped>>

BeginRefresh(c) ==
  /\ pc[c] = "kept" /\ Begin(c)
  /\ Goto(c, "refresh")
  /\ UNCHANGED <<server, info, reply>>

Done(c) ==
  /\ pc[c] = "refresh" /\ refresh[c].pc = "idle"
  /\ Goto(c, "idle") /\ reply' = [reply EXCEPT ![c] = 0]
  /\ UNCHANGED <<server, info, refresh, overlapped>>

-----------------------------------------------------------------------------
Resume(c) == Update(c) \/ Keep(c) \/ BeginRefresh(c) \/ Done(c)

Next ==
  \/ Server \/ ScheduledPoll
  \/ \E p \in Procs : Refresh(p)
  \/ \E c \in Callers : Install(c) \/ Resume(c)

Spec == Init /\ [][Next]_vars

\* Queries return and are answered again and again, coroutines are resumed, the
\* poll recurs and the update check with it.  Nothing is assumed of the server.
Fairness ==
  /\ WF_vars(ScheduledPoll)
  /\ \A p \in Procs :
       /\ WF_vars(Refresh(p))
       /\ SF_vars(Gets(p, "info", "infoWrite", installed, "none"))
       /\ SF_vars(\E s \in Statuses : Gets(p, "check", "checkWrite", Newer, s))
       /\ SF_vars(info.jobid # 0 /\ Gets(p, "job", "jobWrite", 0, job[info.jobid]))
  /\ \A c \in Callers : WF_vars(Resume(c)) /\ SF_vars(BeginRefresh(c))

FairSpec == Spec /\ Fairness

-----------------------------------------------------------------------------
\* The entity does not stay "in progress": once the server runs no update and
\* the newest version is installed, the row stops saying RUNNING and forgets the
\* job, even though a reboot has made the job vanish from the server's list; unless
\* refreshes overlapped.
ProgressClears ==
  <>[](installed = offer /\ ~overlapped /\ \A j \in Jobs : job[j] \notin Live)
    => <>[](~InProgress /\ info.jobid = 0)

\* What update_state shows is the progress of "a running update job, if any" (the
\* docstring of _handle_update_job): without a job id nothing refreshes it again,
\* and it never says RUNNING; unless refreshes overlapped.
ShownIsTracked == InProgress /\ ~overlapped => info.jobid # 0

\* What makes it inductive.  Refreshes that did not overlap came one by one; a
\* refresh that was answered RUNNING asked for a job whose id is still in the row,
\* and an update check never brings that state.
OneRefresh ==
  ~overlapped =>
    \A p, q \in Procs : refresh[p].pc # "idle" /\ refresh[q].pc # "idle" => p = q

AnswerInv ==
  \A p \in Procs :
    /\ refresh[p].pc = "jobWrite" /\ refresh[p].state = "RUNNING" /\ ~overlapped =>
         info.jobid # 0
    /\ refresh[p].pc = "checkWrite" => refresh[p].state # "RUNNING"

TrackInv == OneRefresh /\ AnswerInv /\ ShownIsTracked

\* "Refresh progress/state for a running update job, if any" (the docstring of
\* _handle_update_job): a job whose id is in the row is shown when it runs.
RunningIsShown ==
  \A j \in Jobs :
    [](info.jobid = j /\ job[j] \in Live
         => <>(InProgress \/ job[j] \notin Live \/ ~info.available)
            \/ <>[](job[j] = "WAITING"))

\* A refresh that ends early, or that gets no answer about a version.
RefreshFails ==
  \E p \in Procs : InfoLost(p) \/ CheckLost(p) \/ Lost(p, "info") \/ Lost(p, "job")

\* Whatever a version check and a refresh of the versions do to each other, the
\* entity settles on the versions of a server that rests, once refreshes do not
\* fail any more.
ShowsVersions ==
  \A v, o \in Versions :
    <>[](installed = v /\ offer = o) /\ <>[][~RefreshFails]_vars
      => <>[](info.version = v /\ info.new = o /\ info.available = (o > v))
=============================================================================
