--------------------------- MODULE AppUpdate_proofs ---------------------------
(***************************************************************************)
(* The update of an app keeps the type of its state, for any number of     *)
(* installations and jobs; and until refreshes overlap or an answer about  *)
(* a job is lost, its job is forgotten only when it has ended.             *)
(***************************************************************************)
EXTENDS AppUpdate, TLAPS


LEMMA IdleType == Idle \in RefreshType
  BY DEF Idle, RefreshType, JobStates

LEMMA InitType == Init => TypeOK
<1> SUFFICES ASSUME Init PROVE TypeOK
  OBVIOUS
<1>1. job \in [Jobs -> JobStates]
  BY DEF Init, JobStates
<1>2. row \in [running : BOOLEAN, jobid : 0..MaxJobs] /\ reply \in [Callers -> 0..MaxJobs]
  BY JobAssumption DEF Init
<1>3. refresh \in [Procs -> RefreshType]
  BY IdleType DEF Init
<1> QED
  BY <1>1, <1>2, <1>3 DEF Init, TypeOK

\* A refresh of the apps goes on at a label, or begins.
LEMMA PollAtType ==
  ASSUME TypeOK, NEW p \in Procs,
         NEW l \in {"idle", "apps", "write", "jobs", "clear"}, PollAt(p, l)
  PROVE  refresh' \in [Procs -> RefreshType]
  BY DEF TypeOK, PollAt, RefreshType

LEMMA BeginType ==
  ASSUME TypeOK, NEW p \in Procs, Begin(p)
  PROVE  refresh' \in [Procs -> RefreshType] /\ doubted' \in BOOLEAN
  BY PollAtType DEF TypeOK, Begin

LEMMA GetAppType ==
  ASSUME TypeOK, NEW p \in Procs, GetApp(p)
  PROVE  TypeOK'
<1> USE DEF TypeOK, server, calls
<1>0. refresh[p] \in RefreshType
  OBVIOUS
<1>1. CASE QueryApps(p)
  <2>1. refresh' \in [Procs -> RefreshType]
    <3>1. CASE PollAt(p, "jobs")
      BY <3>1, PollAtType
    <3>2. CASE refresh' = [refresh EXCEPT ![p] = [@ EXCEPT !.pc = "write", !.app = running]]
      <4>1. [refresh[p] EXCEPT !.pc = "write", !.app = running] \in RefreshType
        BY <1>0 DEF RefreshType
      <4> QED
        BY <3>2, <4>1
    <3> QED
      BY <1>1, <3>1, <3>2 DEF QueryApps
  <2> QED
    BY <1>1, <2>1 DEF QueryApps
<1>2. CASE WriteApps(p)
  <2>1. refresh' \in [Procs -> RefreshType]
    BY <1>2, PollAtType DEF WriteApps
  <2>2. row' \in [running : BOOLEAN, jobid : 0..MaxJobs]
    BY <1>0, <1>2 DEF WriteApps, RefreshType
  <2> QED
    BY <1>2, <2>1, <2>2 DEF WriteApps
<1>3. CASE QueryJob(p)
  <2>1. row.jobid # 0 => job[row.jobid] \in JobStates
    BY JobAssumption DEF Jobs
  <2>2. ASSUME NEW s \in JobStates, Looked(p, s)
        PROVE  refresh' \in [Procs -> RefreshType]
    <3>1. [refresh[p] EXCEPT !.pc = "clear", !.state = s] \in RefreshType
      BY <1>0, <2>2 DEF RefreshType
    <3> QED
      BY <2>2, <3>1 DEF Looked
  <2>3. refresh' \in [Procs -> RefreshType] /\ doubted' \in BOOLEAN
    <3>1. "none" \in JobStates
      BY DEF JobStates
    <3> QED
      BY <1>3, <2>1, <2>2, <3>1, PollAtType DEF QueryJob
  <2> QED
    BY <1>3, <2>3 DEF QueryJob
<1>4. CASE ClearJob(p)
  <2>1. refresh' \in [Procs -> RefreshType]
    BY <1>4, IdleType DEF ClearJob
  <2>2. row' \in [running : BOOLEAN, jobid : 0..MaxJobs]
    BY <1>4, JobAssumption DEF ClearJob
  <2> QED
    BY <1>4, <2>1, <2>2 DEF ClearJob
<1> QED
  BY <1>1, <1>2, <1>3, <1>4 DEF GetApp

LEMMA CallerType ==
  ASSUME TypeOK, NEW c \in Callers, Install(c) \/ Resume(c)
  PROVE  TypeOK'
<1> USE DEF TypeOK, server, Goto
<1>1. CASE Install(c)
  BY <1>1 DEF Install
<1>2. CASE Upgrade(c)
  <2>1. job' \in [Jobs -> JobStates]
    BY <1>2 DEF Upgrade, JobStates
  <2>2. reply' \in [Callers -> 0..MaxJobs]
    BY <1>2, JobAssumption DEF Upgrade, Jobs
  <2> QED
    BY <1>2, <2>1, <2>2 DEF Upgrade
<1>3. CASE Keep(c)
  <2>1. CASE reply[c] = 0
    BY <1>3, <2>1 DEF Keep
  <2>2. CASE reply[c] # 0
    <3>1. refresh' \in [Procs -> RefreshType] /\ doubted' \in BOOLEAN
      BY <1>3, <2>2, BeginType DEF Keep, Procs
    <3> QED
      BY <1>3, <2>2, <3>1 DEF Keep
  <2> QED
    BY <2>1, <2>2
<1>4. CASE Done(c)
  BY <1>4, JobAssumption DEF Done
<1> QED
  BY <1>1, <1>2, <1>3, <1>4 DEF Resume

LEMMA NextType == TypeOK /\ [Next]_vars => TypeOK'
<1> SUFFICES ASSUME TypeOK, [Next]_vars PROVE TypeOK'
  OBVIOUS
<1>1. CASE Server
  <2>1. job' \in [Jobs -> JobStates] /\ running' \in BOOLEAN
    BY <1>1 DEF TypeOK, Server, Begins, Ends, JobStates
  <2> QED
    BY <1>1, <2>1 DEF TypeOK, Server, calls
<1>2. CASE ScheduledPoll
  BY <1>2, BeginType DEF TypeOK, ScheduledPoll, Procs, server, calls
<1>3. CASE UNCHANGED vars
  BY <1>3 DEF TypeOK, vars, server, calls
<1> QED
  BY <1>1, <1>2, <1>3, GetAppType, CallerType DEF Next

\* The server, the row of the app, the refreshes and the installations keep their
\* type: a job id that is kept is one app.upgrade can return.
THEOREM TypeCorrect == Spec => []TypeOK
  BY InitType, NextType, PTL DEF Spec

-----------------------------------------------------------------------------
\* Which job is forgotten.

LEMMA InitEnded == Init => EndedInv
  BY DEF Init, Idle, EndedInv, KnownJob

\* Ids of jobs that are kept stay ids of jobs, and of ended jobs when those had
\* ended: jobs are only added and go on.
LEMMA JobsGoOn ==
  ASSUME TypeOK, Server \/ \E c \in Callers : Upgrade(c)
  PROVE  \A j \in Jobs : job[j] # "none" =>
           /\ job'[j] # "none"
           /\ job[j] \notin Live => job'[j] \notin Live
<1> USE DEF TypeOK, Live
<1>1. CASE Server
  BY <1>1 DEF Server, Begins, Ends
<1>2. CASE \E c \in Callers : Upgrade(c)
  BY <1>2 DEF Upgrade
<1> QED
  BY <1>1, <1>2

\* A step of the server or an answer to app.upgrade leaves the row and the
\* refreshes alone.
LEMMA EndedKept ==
  ASSUME TypeOK, EndedInv, UNCHANGED <<row, refresh, doubted>>,
         \A j \in Jobs : job[j] # "none" =>
           /\ job'[j] # "none"
           /\ job[j] \notin Live => job'[j] \notin Live,
         \A c \in Callers : KnownJob(reply[c])' \/ reply'[c] = reply[c]
  PROVE  EndedInv'
<1>1. row.jobid \in Jobs \cup {0} /\ \A c \in Callers : reply[c] \in Jobs \cup {0}
  BY JobAssumption DEF TypeOK, Jobs
<1>2. KnownJob(row.jobid)'
  BY <1>1 DEF EndedInv, KnownJob
<1>3. \A c \in Callers : KnownJob(reply[c])'
  BY <1>1 DEF EndedInv, KnownJob
<1>4. ~doubted' => \A p \in Procs : refresh'[p].pc = "clear" /\ refresh'[p].state \notin Live =>
                     row'.jobid # 0 /\ job'[row'.jobid] \notin Live
  BY <1>1 DEF EndedInv, KnownJob
<1> QED
  BY <1>2, <1>3, <1>4 DEF EndedInv

\* A refresh that begins while none is under way is the only one.
LEMMA BeginEnded ==
  ASSUME TypeOK, EndedInv, NEW p \in Procs, Begin(p), UNCHANGED <<job, reply>>,
         KnownJob(row.jobid)'
  PROVE  EndedInv'
<1>1. refresh'[p].pc = "apps" /\ \A q \in Procs \ {p} : refresh'[q] = refresh[q]
  BY DEF TypeOK, Begin, PollAt, RefreshType
<1>2. ~doubted' => ~doubted /\ \A q \in Procs : refresh[q].pc = "idle"
  BY DEF Begin
<1>3. \A c \in Callers : KnownJob(reply[c])'
  BY DEF EndedInv, KnownJob
<1> QED
  BY <1>1, <1>2, <1>3 DEF EndedInv

\* A step of a refresh that leaves the id in the row, and does not look at a job.
LEMMA StepEnded ==
  ASSUME TypeOK, EndedInv, NEW p \in Procs, NEW r,
         refresh[p].pc # "idle", refresh' = [refresh EXCEPT ![p] = r],
         r.pc = "clear" /\ r.state \notin Live /\ ~doubted' =>
           row.jobid # 0 /\ job[row.jobid] \notin Live,
         UNCHANGED <<job, reply>>, row'.jobid = row.jobid, doubted => doubted'
  PROVE  EndedInv'
<1>1. refresh'[p] = r /\ \A q \in Procs \ {p} : refresh'[q] = refresh[q]
  BY DEF TypeOK
<1>2. KnownJob(row.jobid)' /\ \A c \in Callers : KnownJob(reply[c])'
  BY DEF EndedInv, KnownJob
<1> QED
  BY <1>1, <1>2 DEF EndedInv

\* Where a refresh goes on, as a step of that kind.
LEMMA PollAtStep ==
  ASSUME TypeOK, NEW p \in Procs, NEW l, l # "clear", PollAt(p, l)
  PROVE  \E r : refresh' = [refresh EXCEPT ![p] = r] /\ r.pc # "clear"
<1> DEFINE r == [refresh[p] EXCEPT !.pc = l]
<1>1. refresh[p] \in RefreshType
  BY DEF TypeOK
<1>2. r.pc = l
  BY <1>1 DEF RefreshType
<1>3. refresh' = [refresh EXCEPT ![p] = r]
  BY DEF PollAt
<1> HIDE DEF r
<1> QED
  BY <1>2, <1>3

LEMMA GetAppEnded ==
  ASSUME TypeOK, EndedInv, NEW p \in Procs, GetApp(p)
  PROVE  EndedInv'
<1> USE DEF server, calls
<1>0. refresh[p] \in RefreshType
  BY DEF TypeOK
<1>1. CASE QueryApps(p)
  <2>1. \E r : refresh' = [refresh EXCEPT ![p] = r] /\ r.pc # "clear"
    <3>1. CASE PollAt(p, "jobs")
      BY <3>1, PollAtStep
    <3>2. CASE refresh' = [refresh EXCEPT ![p] = [@ EXCEPT !.pc = "write", !.app = running]]
      <4>1. [refresh[p] EXCEPT !.pc = "write", !.app = running].pc = "write"
        BY <1>0 DEF RefreshType
      <4> QED
        BY <3>2, <4>1
    <3> QED
      BY <1>1, <3>1, <3>2 DEF QueryApps
  <2> QED
    BY <1>1, <2>1, StepEnded DEF QueryApps
<1>2. CASE WriteApps(p)
  <2>1. \E r : refresh' = [refresh EXCEPT ![p] = r] /\ r.pc # "clear"
    BY <1>2, PollAtStep DEF WriteApps
  <2>2. row'.jobid = row.jobid
    BY <1>2 DEF WriteApps, TypeOK
  <2> QED
    BY <1>2, <2>1, <2>2, StepEnded DEF WriteApps
<1>3. CASE QueryJob(p)
  <2>1. refresh[p].pc = "jobs" /\ UNCHANGED <<job, row, reply>>
    BY <1>3 DEF QueryJob
  <2>2. CASE row.jobid = 0 /\ PollAt(p, "idle") /\ UNCHANGED doubted
    <3>1. \E r : refresh' = [refresh EXCEPT ![p] = r] /\ r.pc # "clear"
      BY <2>2, PollAtStep
    <3> QED
      BY <2>1, <2>2, <3>1, StepEnded
  <2>3. CASE row.jobid # 0 /\ Looked(p, job[row.jobid]) /\ UNCHANGED doubted
    <3>1. \E r : /\ refresh' = [refresh EXCEPT ![p] = r]
                 /\ r.state = job[row.jobid]
      <4> DEFINE r == [refresh[p] EXCEPT !.pc = "clear", !.state = job[row.jobid]]
      <4>1. r.state = job[row.jobid]
        BY <1>0 DEF RefreshType
      <4>2. refresh' = [refresh EXCEPT ![p] = r]
        BY <2>3 DEF Looked
      <4> HIDE DEF r
      <4> QED
        BY <4>1, <4>2
    <3> QED
      BY <2>1, <2>3, <3>1, StepEnded
  <2>4. CASE Looked(p, "none") /\ doubted' = TRUE
    <3>1. \E r : refresh' = [refresh EXCEPT ![p] = r]
      BY <2>4 DEF Looked
    <3> QED
      BY <2>1, <2>4, <3>1, StepEnded
  <2> QED
    BY <1>3, <2>2, <2>3, <2>4 DEF QueryJob
<1>4. CASE ClearJob(p)
  <2>1. /\ refresh' = [refresh EXCEPT ![p] = Idle] /\ refresh[p].pc = "clear"
        /\ UNCHANGED <<job, reply, doubted>> /\ Idle.pc = "idle"
    BY <1>4 DEF ClearJob, Idle
  <2>2. CASE row'.jobid = row.jobid
    BY <2>1, <2>2, StepEnded
  <2>3. CASE row'.jobid = 0
    <3>1. ~doubted => \A q \in Procs \ {p} : refresh[q].pc = "idle"
      BY <2>1 DEF EndedInv
    <3>2. refresh'[p].pc = "idle" /\ \A q \in Procs \ {p} : refresh'[q] = refresh[q]
      BY <2>1 DEF TypeOK
    <3>3. KnownJob(row.jobid)' /\ \A c \in Callers : KnownJob(reply[c])'
      BY <2>1, <2>3 DEF EndedInv, KnownJob
    <3> QED
      BY <2>1, <3>1, <3>2, <3>3 DEF EndedInv
  <2> QED
    BY <1>4, <2>2, <2>3 DEF ClearJob, TypeOK
<1> QED
  BY <1>1, <1>2, <1>3, <1>4 DEF GetApp

LEMMA CallerEnded ==
  ASSUME TypeOK, EndedInv, NEW c \in Callers, Install(c) \/ Resume(c)
  PROVE  EndedInv'
<1> USE DEF server
<1>1. CASE Install(c)
  BY <1>1 DEF Install, EndedInv, KnownJob
<1>2. CASE Upgrade(c)
  <2>1. \A d \in Callers : KnownJob(reply[d])' \/ reply'[d] = reply[d]
    BY <1>2 DEF Upgrade, TypeOK, KnownJob
  <2> QED
    BY <1>2, <2>1, JobsGoOn, EndedKept DEF Upgrade
<1>3. CASE Keep(c)
  <2>1. CASE reply[c] = 0
    BY <1>3, <2>1 DEF Keep, EndedInv, KnownJob
  <2>2. CASE reply[c] # 0
    <3>1. row'.jobid = reply[c] /\ Begin(c) /\ UNCHANGED <<job, reply>>
      BY <1>3, <2>2 DEF Keep, TypeOK
    <3>2. KnownJob(row.jobid)'
      BY <3>1 DEF EndedInv, KnownJob
    <3> QED
      BY <3>1, <3>2, BeginEnded DEF Procs
  <2> QED
    BY <2>1, <2>2
<1>4. CASE Done(c)
  <2>1. \A d \in Callers : KnownJob(reply[d])' \/ reply'[d] = reply[d]
    BY <1>4 DEF Done, TypeOK, KnownJob
  <2> QED
    BY <1>4, <2>1, EndedKept DEF Done
<1> QED
  BY <1>1, <1>2, <1>3, <1>4 DEF Resume

LEMMA NextEnded == TypeOK /\ EndedInv /\ [Next]_vars => EndedInv'
<1> SUFFICES ASSUME TypeOK, EndedInv, [Next]_vars PROVE EndedInv'
  OBVIOUS
<1>1. CASE Server
  BY <1>1, JobsGoOn, EndedKept DEF Server, calls
<1>2. CASE ScheduledPoll
  BY <1>2, BeginEnded DEF ScheduledPoll, server, calls, Procs,
                             EndedInv, KnownJob
<1>3. CASE UNCHANGED vars
  BY <1>3 DEF vars, server, calls, EndedInv, KnownJob
<1> QED
  BY <1>1, <1>2, <1>3, GetAppEnded, CallerEnded DEF Next

\* Only the end of a refresh forgets an id, and it was told that the job of that
\* id had ended.
LEMMA ForgottenHadEnded ==
  ASSUME TypeOK, EndedInv, [Next]_vars, Forgets, ~doubted
  PROVE  job[row.jobid] \notin Live
<1> USE DEF Forgets
<1>1. ASSUME NEW p \in Procs, ClearJob(p)
      PROVE  job[row.jobid] \notin Live
  BY <1>1 DEF ClearJob, EndedInv
<1>2. ASSUME NEW p \in Procs, GetApp(p), ~ClearJob(p)
      PROVE  row'.jobid = row.jobid
  BY <1>2 DEF GetApp, QueryApps, WriteApps, QueryJob, TypeOK
<1>3. ASSUME NEW c \in Callers, Install(c) \/ Resume(c)
      PROVE  row'.jobid = row.jobid \/ row'.jobid # 0
  BY <1>3 DEF Install, Resume, Upgrade, Keep, Done, TypeOK, server
<1>4. CASE Server \/ ScheduledPoll \/ UNCHANGED vars
  BY <1>4 DEF Server, ScheduledPoll, vars
<1> QED
  BY <1>1, <1>2, <1>3, <1>4 DEF Next

\* As long as refreshes come one by one and are answered, _clear_finished_app_updates
\* never forgets the job of an update that is still under way, however many
\* installations end with a refresh of their own.
THEOREM ForgetsEnded == Spec => ForgetsWhatEnded
<1>1. TypeOK /\ EndedInv /\ [Next]_vars =>
        [Forgets /\ ~doubted => job[row.jobid] \notin Live]_vars
  BY ForgottenHadEnded
<1> QED
  BY <1>1, InitEnded, NextEnded, TypeCorrect, PTL DEF Spec, ForgetsWhatEnded
=============================================================================
