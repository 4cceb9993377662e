-------------------------- MODULE SystemUpdate_proofs --------------------------
(***************************************************************************)
(* The update of the system keeps the type of its state, for any number of *)
(* installations, jobs and versions.  Unless refreshes overlapped, the     *)
(* progress that is shown is that of a job the integration still knows.    *)
(***************************************************************************)
EXTENDS SystemUpdate, TLAPS

LEMMA OneIsVersion == 1 \in Versions
  BY VersionAssumption DEF Versions

LEMMA IdleType == Idle \in RefreshType
  BY DEF Idle, RefreshType, Answers, JobStates

LEMMA InitType == Init => TypeOK
<1> SUFFICES ASSUME Init PROVE TypeOK
  OBVIOUS
<1>1. info \in RowType
  BY OneIsVersion, VersionAssumption DEF Init, RowType, States
<1>2. refresh \in [Procs -> RefreshType]
  BY IdleType DEF Init
<1>3. job \in [Jobs -> JobStates] /\ reply \in [Callers -> 0..MaxJobs]
  BY VersionAssumption DEF Init, JobStates
<1> QED
  BY <1>1, <1>2, <1>3, OneIsVersion DEF TypeOK, Init

-----------------------------------------------------------------------------
\* Type correctness.

LEMMA ServerType ==
  ASSUME TypeOK, Server
  PROVE  TypeOK'
<1> USE DEF TypeOK
<1>1. UNCHANGED <<info, refresh, calls, overlapped>>
  BY DEF Server
<1>2. installed' \in Versions /\ offer' \in Versions /\ job' \in [Jobs -> JobStates]
  <2>1. CASE Release
    BY <2>1, VersionAssumption DEF Release, Versions
  <2>2. CASE Begins
    BY <2>2 DEF Begins, JobStates
  <2>3. CASE Fails
    BY <2>3 DEF Fails, JobStates
  <2>4. CASE Reboots
    BY <2>4 DEF Reboots, JobStates
  <2> QED
    BY <2>1, <2>2, <2>3, <2>4 DEF Server
<1> QED
  BY <1>1, <1>2 DEF calls

\* A query of a refresh that is answered with a version and a state.
LEMMA GetsType ==
  ASSUME TypeOK, NEW p \in Procs, NEW from, NEW version \in Answers,
         NEW state \in JobStates \cup Statuses,
         NEW to \in {"infoWrite", "jobWrite", "check", "checkWrite"},
         Gets(p, from, to, version, state)
  PROVE  TypeOK'
  BY DEF TypeOK, Gets, RefreshType, server, calls

\* Where a refresh goes on.
LEMMA PollAtType ==
  ASSUME TypeOK, NEW p \in Procs,
         NEW l \in {"idle", "info", "infoWrite", "job", "jobWrite", "check", "checkWrite"},
         PollAt(p, l)
  PROVE  refresh' \in [Procs -> RefreshType]
  BY DEF TypeOK, PollAt, RefreshType

LEMMA NewerVersion ==
  ASSUME TypeOK
  PROVE  Newer \in Versions
  BY OneIsVersion DEF TypeOK, Newer

LEMMA RefreshStepType ==
  ASSUME TypeOK, NEW p \in Procs, Refresh(p)
  PROVE  TypeOK'
<1> USE DEF TypeOK, server, calls
<1>0. refresh[p] \in RefreshType /\ 0 \in Answers /\ Versions \subseteq Answers
  BY DEF Answers
<1>1. CASE QueryInfo(p)
  <2>1. "none" \in JobStates /\ installed \in Answers
    BY <1>0 DEF JobStates
  <2> QED
    BY <1>0, <1>1, <2>1, GetsType DEF QueryInfo, InfoLost, Lost
<1>2. CASE WriteInfo(p)
  <2>1. refresh' \in [Procs -> RefreshType]
    BY <1>2, PollAtType DEF WriteInfo
  <2>2. info' \in RowType
    BY <1>0, <1>2 DEF WriteInfo, RowType, RefreshType, Answers
  <2> QED
    BY <1>2, <2>1, <2>2 DEF WriteInfo
<1>3. CASE QueryJob(p)
  <2>1. "none" \in JobStates
    BY DEF JobStates
  <2>2. info.jobid # 0 => job[info.jobid] \in JobStates
    BY VersionAssumption DEF RowType, Jobs
  <2> QED
    BY <1>0, <1>3, <2>1, <2>2, GetsType DEF QueryJob, Lost
<1>4. CASE WriteJob(p)
  <2>1. refresh' \in [Procs -> RefreshType]
    BY <1>4, PollAtType DEF WriteJob
  <2>2. info' \in RowType
    <3> DEFINE s == IF refresh[p].state = "none" THEN info.state ELSE refresh[p].state
    <3>1. s \in States /\ "unknown" \in States /\ 0 \in 0..MaxJobs
      BY <1>0, VersionAssumption DEF RowType, RefreshType, States
    <3>2. CASE info' = [info EXCEPT !.state = s]
      BY <3>1, <3>2 DEF RowType
    <3>3. CASE info' = [info EXCEPT !.state = "unknown", !.jobid = 0]
      BY <3>1, <3>3 DEF RowType
    <3> QED
      BY <1>4, <3>2, <3>3 DEF WriteJob
  <2> QED
    BY <1>4, <2>1, <2>2 DEF WriteJob
<1>5. CASE NoCheck(p)
  BY <1>5, IdleType DEF NoCheck
<1>6. CASE QueryCheck(p)
  <2>1. "none" \in JobStates
    BY DEF JobStates
  <2> QED
    BY <1>0, <1>6, <2>1, GetsType, NewerVersion DEF QueryCheck, CheckLost
<1>7. CASE WriteCheck(p)
  <2>1. refresh' \in [Procs -> RefreshType] /\ UNCHANGED <<server, calls, overlapped>>
    BY <1>7, IdleType DEF WriteCheck
  <2>2. info' \in RowType
    <3> DEFINE v == refresh[p].version
               s == IF v = 0 THEN "IDLE"
                    ELSE IF refresh[p].state = "none" THEN info.state ELSE refresh[p].state
    <3>1. v = 0 \/ v \in Versions
      BY <1>0 DEF RefreshType, Answers
    <3>2. s \in States
      BY <1>0 DEF RefreshType, RowType, States
    <3> HIDE DEF v, s
    <3>3. CASE v > 1 /\ info' = [info EXCEPT !.available = TRUE, !.new = v, !.state = s]
      <4>1. v \in Versions
        BY <3>1, <3>3
      <4> QED
        BY <3>2, <3>3, <4>1 DEF RowType
    <3>4. CASE info' = [NoUpdate EXCEPT !.state = s]
      BY <3>2, <3>4 DEF RowType, NoUpdate
    <3> QED
      BY <1>7, <3>3, <3>4 DEF WriteCheck, v, s
  <2> QED
    BY <2>1, <2>2
<1> QED
  BY <1>1, <1>2, <1>3, <1>4, <1>5, <1>6, <1>7 DEF Refresh

\* A refresh begins.
LEMMA BeginType ==
  ASSUME TypeOK, NEW p \in Procs, Begin(p)
  PROVE  refresh' \in [Procs -> RefreshType] /\ overlapped' \in BOOLEAN
  BY PollAtType DEF TypeOK, Begin

LEMMA CallerType ==
  ASSUME TypeOK, NEW c \in Callers, Install(c) \/ Resume(c)
  PROVE  TypeOK'
<1> USE DEF TypeOK, server, Goto
<1>1. CASE Install(c)
  BY <1>1 DEF Install
<1>2. CASE Update(c)
  <2>1. job' \in [Jobs -> JobStates] /\ reply' \in [Callers -> 0..MaxJobs]
    BY <1>2, VersionAssumption DEF Update, JobStates, Jobs
  <2> QED
    BY <1>2, <2>1 DEF Update
<1>3. CASE Keep(c)
  BY <1>3 DEF Keep, RowType
<1>4. CASE BeginRefresh(c)
  BY <1>4, BeginType DEF BeginRefresh, Procs
<1>5. CASE Done(c)
  BY <1>5, VersionAssumption DEF Done
<1> QED
  BY <1>1, <1>2, <1>3, <1>4, <1>5 DEF Resume

LEMMA NextType == TypeOK /\ [Next]_vars => TypeOK'
<1> SUFFICES ASSUME TypeOK, [Next]_vars PROVE TypeOK'
  OBVIOUS
<1>1. CASE ScheduledPoll
  BY <1>1, BeginType DEF TypeOK, ScheduledPoll, Procs, server, calls
<1>2. CASE UNCHANGED vars
  BY <1>2 DEF TypeOK, vars, server, calls
<1> QED
  BY <1>1, <1>2, ServerType, RefreshStepType, CallerType DEF Next

\* The server, the row, the refreshes and the installations keep their type.
THEOREM TypeCorrect == Spec => []TypeOK
  BY InitType, NextType, PTL DEF Spec

-----------------------------------------------------------------------------
\* What is shown is tracked.

LEMMA InitTrack == Init => TrackInv
  BY DEF Init, Idle, TrackInv, OneRefresh, AnswerInv, ShownIsTracked, InProgress

\* A refresh that begins while none is under way is the only one.
LEMMA BeginTrack ==
  ASSUME TypeOK, TrackInv, NEW p \in Procs, Begin(p), UNCHANGED info
  PROVE  TrackInv'
<1> USE DEF TypeOK, TrackInv
<1>1. /\ refresh'[p].pc = "info"
      /\ \A q \in Procs \ {p} : refresh'[q] = refresh[q]
  BY DEF Begin, PollAt, RefreshType
<1>2. ~overlapped' => ~overlapped /\ \A q \in Procs : refresh[q].pc = "idle"
  BY DEF Begin
<1> QED
  BY <1>1, <1>2 DEF OneRefresh, AnswerInv, ShownIsTracked, InProgress

\* A step of a refresh from one label to another leaves it the only one; so does
\* its end.
LEMMA OneRefreshStep ==
  ASSUME TypeOK, OneRefresh, NEW p \in Procs, NEW r, refresh[p].pc # "idle",
         refresh' = [refresh EXCEPT ![p] = r], overlapped' = overlapped
  PROVE  OneRefresh' /\ \A q \in Procs \ {p} : refresh'[q] = refresh[q]
<1>1. \A q \in Procs \ {p} : refresh'[q] = refresh[q]
  BY DEF TypeOK
<1> QED
  BY <1>1 DEF OneRefresh

\* A query leaves the row alone; what it was answered is about the row's job.
LEMMA GetsTrack ==
  ASSUME TypeOK, TrackInv, NEW p \in Procs, NEW from, NEW to, NEW version, NEW state,
         Gets(p, from, to, version, state), from # "idle",
         to = "jobWrite" /\ state = "RUNNING" => info.jobid # 0,
         to = "checkWrite" => state # "RUNNING"
  PROVE  TrackInv'
<1> USE DEF TypeOK, TrackInv
<1>1. /\ refresh[p].pc # "idle" /\ UNCHANGED <<info, overlapped>>
      /\ refresh' = [refresh EXCEPT ![p] = [pc |-> to, version |-> version, state |-> state]]
  BY DEF Gets
<1>2. OneRefresh' /\ \A q \in Procs \ {p} : refresh'[q] = refresh[q]
  BY <1>1, OneRefreshStep
<1>3. refresh'[p].pc = to /\ refresh'[p].state = state
  BY <1>1
<1> QED
  BY <1>1, <1>2, <1>3 DEF AnswerInv, ShownIsTracked, InProgress

\* A refresh that ends.
LEMMA EndTrack ==
  ASSUME TypeOK, TrackInv, NEW p \in Procs, refresh[p].pc # "idle",
         refresh' = [refresh EXCEPT ![p] = Idle], UNCHANGED <<info, overlapped>>
  PROVE  TrackInv'
<1> USE DEF TypeOK, TrackInv
<1>1. OneRefresh' /\ \A q \in Procs \ {p} : refresh'[q] = refresh[q]
  BY OneRefreshStep
<1>2. refresh'[p].pc = "idle"
  BY DEF Idle
<1> QED
  BY <1>1, <1>2 DEF AnswerInv, ShownIsTracked, InProgress

\* The refresh of p is the only one, so nobody waits to write an answer it
\* invalidates.
LEMMA OthersIdle ==
  ASSUME OneRefresh, NEW p \in Procs, refresh[p].pc # "idle", ~overlapped
  PROVE  \A q \in Procs \ {p} : refresh[q].pc = "idle"
  BY DEF OneRefresh

LEMMA RefreshTrack ==
  ASSUME TypeOK, TrackInv, NEW p \in Procs, Refresh(p)
  PROVE  TrackInv'
<1> USE DEF TypeOK, TrackInv
<1>1. CASE QueryInfo(p)
  BY <1>1, GetsTrack DEF QueryInfo, InfoLost, Lost
<1>2. CASE WriteInfo(p)
  <2>1. /\ info'.state = info.state /\ info'.jobid = info.jobid
        /\ \E l \in {"check", "job"} : PollAt(p, l)
        /\ refresh[p].pc # "idle" /\ overlapped' = overlapped
    BY <1>2 DEF WriteInfo, RowType
  <2>2. OneRefresh' /\ \A q \in Procs \ {p} : refresh'[q] = refresh[q]
    BY <2>1, OneRefreshStep DEF PollAt
  <2>3. refresh'[p].pc \in {"check", "job"}
    BY <2>1 DEF PollAt, RefreshType
  <2> QED
    BY <2>1, <2>2, <2>3 DEF AnswerInv, ShownIsTracked, InProgress
<1>3. CASE QueryJob(p)
  BY <1>3, GetsTrack DEF QueryJob, Lost
<1>4. CASE WriteJob(p)
  <2>1. /\ refresh[p].pc = "jobWrite" /\ PollAt(p, "check") /\ overlapped' = overlapped
    BY <1>4 DEF WriteJob
  <2>2. OneRefresh' /\ \A q \in Procs \ {p} : refresh'[q] = refresh[q]
    BY <2>1, OneRefreshStep DEF PollAt
  <2>3. refresh'[p].pc = "check"
    BY <2>1 DEF PollAt, RefreshType
  <2>4. AnswerInv'
    BY <2>1, <2>2, <2>3, OthersIdle DEF AnswerInv
  <2>5. ShownIsTracked'
    <3> DEFINE s == IF refresh[p].state = "none" THEN info.state ELSE refresh[p].state
    <3>1. s = "RUNNING" /\ ~overlapped => info.jobid # 0
      BY <2>1 DEF AnswerInv, ShownIsTracked, InProgress
    <3>2. \/ s = "RUNNING" /\ info' = [info EXCEPT !.state = s]
          \/ info' = [info EXCEPT !.state = "unknown", !.jobid = 0]
      BY <1>4 DEF WriteJob
    <3> QED
      BY <2>1, <3>1, <3>2 DEF ShownIsTracked, InProgress, RowType
  <2> QED
    BY <2>2, <2>4, <2>5
<1>5. CASE NoCheck(p)
  BY <1>5, EndTrack DEF NoCheck
<1>6. CASE QueryCheck(p)
  BY <1>6, GetsTrack, StatusAssumption DEF QueryCheck, CheckLost
<1>7. CASE WriteCheck(p)
  <2>1. /\ refresh[p].pc = "checkWrite" /\ overlapped' = overlapped
        /\ refresh' = [refresh EXCEPT ![p] = Idle]
    BY <1>7 DEF WriteCheck
  <2>2. OneRefresh' /\ \A q \in Procs \ {p} : refresh'[q] = refresh[q]
    BY <2>1, OneRefreshStep
  <2>3. refresh'[p].pc = "idle"
    BY <2>1 DEF Idle
  <2>4. info'.jobid = info.jobid /\ (info'.state = info.state \/ info'.state # "RUNNING")
    <3>1. refresh[p].state # "RUNNING"
      BY <2>1 DEF AnswerInv
    <3> QED
      BY <1>7, <3>1 DEF WriteCheck, NoUpdate, RowType
  <2> QED
    BY <2>1, <2>2, <2>3, <2>4 DEF AnswerInv, ShownIsTracked, InProgress
<1> QED
  BY <1>1, <1>2, <1>3, <1>4, <1>5, <1>6, <1>7 DEF Refresh

LEMMA CallerTrack ==
  ASSUME TypeOK, TrackInv, NEW c \in Callers, Install(c) \/ Resume(c)
  PROVE  TrackInv'
<1> USE DEF TypeOK, TrackInv
<1> DEFINE Same == UNCHANGED <<info, refresh, overlapped>>
<1>1. Same => TrackInv'
  BY DEF OneRefresh, AnswerInv, ShownIsTracked, InProgress
<1>2. CASE Install(c)
  BY <1>1, <1>2 DEF Install
<1>3. CASE Update(c)
  BY <1>1, <1>3 DEF Update
<1>4. CASE Keep(c)
  <2>1. CASE reply[c] = 0
    BY <1>1, <1>4, <2>1 DEF Keep
  <2>2. CASE reply[c] # 0
    <3>1. info'.state = info.state /\ info'.jobid # 0 /\ UNCHANGED <<refresh, overlapped>>
      BY <1>4, <2>2 DEF Keep, RowType
    <3> QED
      BY <3>1 DEF OneRefresh, AnswerInv, ShownIsTracked, InProgress
  <2> QED
    BY <2>1, <2>2
<1>5. CASE BeginRefresh(c)
  BY <1>5, BeginTrack DEF BeginRefresh, Procs
<1>6. CASE Done(c)
  BY <1>1, <1>6 DEF Done
<1> QED
  BY <1>2, <1>3, <1>4, <1>5, <1>6 DEF Resume

LEMMA NextTrack == TypeOK /\ TrackInv /\ [Next]_vars => TrackInv'
<1> SUFFICES ASSUME TypeOK, TrackInv, [Next]_vars PROVE TrackInv'
  OBVIOUS
<1> DEFINE Same == UNCHANGED <<info, refresh, overlapped>>
<1>1. Same => TrackInv'
  BY DEF TrackInv, OneRefresh, AnswerInv, ShownIsTracked, InProgress
<1>2. CASE Server
  BY <1>1, <1>2 DEF Server
<1>3. CASE ScheduledPoll
  BY <1>3, BeginTrack DEF ScheduledPoll, Procs
<1>4. CASE UNCHANGED vars
  BY <1>1, <1>4 DEF vars
<1> QED
  BY <1>2, <1>3, <1>4, RefreshTrack, CallerTrack DEF Next

\* As long as refreshes come one by one, the entity is never "in progress" without
\* the id of a job that the next refresh will ask for, however many installations
\* and update checks there are, whatever is lost, and through every reboot.
THEOREM ProgressIsTracked == Spec => []ShownIsTracked
<1>1. TrackInv => ShownIsTracked
  BY DEF TrackInv
<1> QED
  BY <1>1, InitTrack, NextTrack, TypeCorrect, PTL DEF Spec
=============================================================================
