---------------------------- MODULE TaskRuns_proofs ----------------------------
(***************************************************************************)
(* A cloudsync task that one caller starts never gets a second job, and a  *)
(* replication is not left unknown by polls that overlap, unless one wrote *)
(* while another was about to drop the state of the last job.              *)
(***************************************************************************)
EXTENDS TaskRuns, TLAPS

USE KindAssumption, SetupAssumption, FlagAssumption

PollStates == [pc : {"query", "write", "fallback", "pop"}, answer : JobStates \cup {"None"},
               cut : BOOLEAN]
Places     == {"idle", "askStart", "askStop", "run", "mark", "abort"}

LEMMA InitType == Init => TypeOK
  BY DEF Init, TypeOK, JobStates, Live

LEMMA AcceptType ==
  ASSUME TypeOK, Accept
  PROVE  active' \in 0..MaxJobs /\ job' \in JobStates /\ active' = active + 1
<1>1. active' \in 0..MaxJobs /\ active' = active + 1
  BY DEF Accept, TypeOK
<1>2. job' \in JobStates
  BY DEF Accept, TypeOK, JobStates, Live
<1> QED
  BY <1>1, <1>2

LEMMA ServerType ==
  ASSUME TypeOK, Server
  PROVE  TypeOK'
<1> USE DEF TypeOK
<1>1. CASE Schedule
  BY <1>1, AcceptType DEF Schedule
<1>2. CASE JobBegins
  BY <1>2 DEF JobBegins, JobStates, Live
<1>3. CASE JobEnds
  <2>1. active' \in 0..MaxJobs
    BY <1>3 DEF JobEnds
  <2>2. job' \in JobStates
    BY <1>3 DEF JobEnds, JobStates, Live
  <2> QED
    BY <1>3, <2>1, <2>2 DEF JobEnds
<1> QED
  BY <1>1, <1>2, <1>3 DEF Server

LEMMA CallerType ==
  ASSUME TypeOK, NEW c \in Callers, Caller(c) \/ Resume(c)
  PROVE  TypeOK'
<1> USE DEF TypeOK, Goto, server
<1>1. CASE Caller(c)
  BY <1>1 DEF Caller, StartGuarded, Press, Ask
<1>2. CASE Asked(c)
  BY <1>2 DEF Asked
<1>3. CASE Run(c)
  BY <1>3, AcceptType DEF Run
<1>4. CASE Mark(c)
  BY <1>4 DEF Mark, JobStates, Live
<1>5. CASE Abort(c)
  BY <1>5 DEF Abort, JobStates
<1> QED
  BY <1>1, <1>2, <1>3, <1>4, <1>5 DEF Resume

LEMMA PollType ==
  ASSUME TypeOK, NEW p \in Polls, Poll(p)
  PROVE  TypeOK'
<1> USE DEF TypeOK, PollStep, server
<1>1. CASE PollFails(p) \/ PollAnswered(p)
  <2>1. \E a \in JobStates \cup {"None"} : PollGets(p, a)
    BY <1>1 DEF PollFails, PollAnswered
  <2>2. poll' \in [Polls -> PollStates]
    BY <2>1 DEF PollGets, PollStates
  <2> QED
    BY <2>1, <2>2 DEF PollGets, PollStates
<1>2. CASE PollWrite(p)
  <2>1. row' \in JobStates /\ kept' \in JobStates \cup {"None"}
    BY <1>2 DEF PollWrite, JobStates
  <2>2. poll' \in [Polls -> PollStates]
    BY <1>2 DEF PollWrite, PollStates
  <2> QED
    BY <1>2, <2>1, <2>2 DEF PollWrite, PollStates
<1>3. CASE PollFallback(p)
  <2>1. row' \in JobStates
    BY <1>3 DEF PollFallback
  <2>2. poll' \in [Polls -> PollStates]
    BY <1>3 DEF PollFallback, PollStates
  <2> QED
    BY <1>3, <2>1, <2>2 DEF PollFallback, PollStates
<1>4. CASE PollPop(p)
  <2>1. poll' \in [Polls -> PollStates]
    BY <1>4 DEF PollPop, PollStates
  <2> QED
    BY <1>4, <2>1 DEF PollPop, PollStates
<1> QED
  BY <1>1, <1>2, <1>3, <1>4 DEF Poll

LEMMA NextType == TypeOK /\ [Next]_vars => TypeOK'
<1> SUFFICES ASSUME TypeOK, [Next]_vars PROVE TypeOK'
  OBVIOUS
<1>1. CASE UNCHANGED vars
  BY <1>1 DEF vars, server, TypeOK
<1>2. PollsOf[kind] \subseteq Polls /\ CallersOf[kind] \subseteq Callers
  BY DEF TypeOK
<1> QED
  BY <1>1, <1>2, ServerType, CallerType, PollType DEF Next

\* The jobs, the row, the polls and the callers keep their type.
THEOREM TypeCorrect == Spec => []TypeOK
  BY InitType, NextType, PTL DEF Spec

-----------------------------------------------------------------------------
\* A cloudsync task gets no second job.

\* One caller at a time starts the task, and the server does not by itself.
OneStarts == /\ "cloudsync" \notin Scheduled
             /\ \A c, d \in CallersOf["cloudsync"] : c = d

LEMMA InitJob == Init => JobInv
  BY DEF Init, JobInv

LEMMA ServerJob ==
  ASSUME OneStarts, TypeOK, JobInv, Server
  PROVE  JobInv'
<1> USE DEF JobInv
<1>1. CASE Schedule
  BY <1>1 DEF Schedule, OneStarts
<1>2. CASE JobBegins
  BY <1>2 DEF JobBegins, Live
<1>3. CASE JobEnds
  BY <1>3 DEF JobEnds, TypeOK
<1> QED
  BY <1>1, <1>2, <1>3 DEF Server

\* A caller asks, and starts the task only if there is no job; while it does
\* nobody else is between asking and starting.
LEMMA CallerJob ==
  ASSUME OneStarts, TypeOK, JobInv,
         NEW c \in CallersOf[kind], Caller(c) \/ Resume(c)
  PROVE  JobInv'
<1> SUFFICES ASSUME kind = "cloudsync" PROVE JobInv'
  BY DEF JobInv, Caller, Resume, StartGuarded, Press, Ask, Asked, Run, Mark, Abort,
         Goto, server
<1> USE DEF JobInv, Goto, server
<1>0. c \in Callers /\ kind' = kind
  BY DEF TypeOK, Caller, Resume, StartGuarded, Press, Ask, Asked, Run, Mark, Abort
<1>1. CASE Caller(c)
  BY <1>0, <1>1 DEF Caller, StartGuarded, Press, Ask, TypeOK
<1>2. CASE Asked(c)
  <2>1. UNCHANGED <<active, job>>
    BY <1>2 DEF Asked
  <2>2. pc'[c] = "run" => active = 0
    BY <1>0, <1>2 DEF Asked, Busy, TypeOK
  <2>3. \A d \in Callers : d # c => pc'[d] = pc[d]
    BY <1>0, <1>2 DEF Asked, TypeOK
  <2> QED
    BY <1>0, <2>1, <2>2, <2>3
<1>3. CASE Run(c)
  <2>1. active = 0 /\ pc'[c] = "mark"
    BY <1>0, <1>3 DEF Run, TypeOK
  <2>2. \A d \in Callers : d # c => pc'[d] = pc[d] /\ pc'[d] = "idle"
    BY <1>0, <1>3 DEF Run, TypeOK, OneStarts
  <2>3. active' <= 1 /\ (active' > 0 => job' \in Live)
    BY <1>3, <2>1 DEF Run, Accept
  <2> QED
    BY <1>0, <2>1, <2>2, <2>3
<1>4. CASE Mark(c)
  BY <1>0, <1>4 DEF Mark, TypeOK
<1>5. CASE Abort(c)
  BY <1>0, <1>5 DEF Abort, TypeOK
<1> QED
  BY <1>1, <1>2, <1>3, <1>4, <1>5 DEF Resume

LEMMA NextJob ==
  ASSUME OneStarts, TypeOK, JobInv, [Next]_vars
  PROVE  JobInv'
<1>1. ASSUME NEW p \in PollsOf[kind], Poll(p) PROVE JobInv'
  BY <1>1 DEF JobInv, Poll, PollFails, PollAnswered, PollGets, PollWrite, PollFallback,
              PollPop, PollStep, server
<1>2. CASE UNCHANGED vars
  BY <1>2 DEF vars, server, JobInv
<1> QED
  BY <1>1, <1>2, ServerJob, CallerJob DEF Next

\* A start never adds a job to a cloudsync task that has one, whatever polls
\* overlap and whatever is lost, if only one caller starts the task.
THEOREM CloudsyncStartsOnce ==
  ASSUME OneStarts
  PROVE  Spec => []NoSecondJob
<1>1. TypeOK /\ JobInv /\ [Next]_vars => JobInv'
  BY NextJob
<1>2. JobInv => NoSecondJob
  BY DEF JobInv, NoSecondJob, GuardHolds
<1> QED
  BY <1>1, <1>2, InitJob, TypeCorrect, PTL DEF Spec

-----------------------------------------------------------------------------
\* The fallback of a replication.

LEMMA InitRow == Init => RowInv
  BY DEF Init, RowInv, Unsure

\* A poll asks, writes what it was told, and runs the fallback.
LEMMA PollRow ==
  ASSUME TypeOK, RowInv, NEW p \in PollsOf[kind], Poll(p)
  PROVE  RowInv'
<1> USE DEF PollStep, server
<1>0. /\ p \in Polls /\ PollsOf[kind] \subseteq Polls /\ kind' = kind
      /\ \A q \in Polls : q # p => poll'[q] = poll[q]
  BY DEF TypeOK, Poll, PollFails, PollAnswered, PollGets, PollWrite, PollFallback, PollPop
<1>1. CASE PollFails(p) \/ PollAnswered(p)
  <2>1. poll'[p].pc = "write"
    BY <1>0, <1>1 DEF PollFails, PollAnswered, PollGets, TypeOK
  <2> QED
    BY <1>0, <2>1 DEF RowInv, Unsure, TypeOK
<1>2. CASE PollWrite(p)
  <2>1. /\ poll'[p].answer = poll[p].answer
        /\ poll'[p].pc = IF kind = "replication" THEN "fallback" ELSE "query"
        /\ poll'[p].cut = \E q \in PollsOf[kind] \ {p} : poll[q].pc = "pop"
    BY <1>0, <1>2 DEF PollWrite, TypeOK
  \* Nobody drops what it wrote, or it is cut.
  <2>2. row' = "unknown" => Unsure(p)'
    <3>1. poll'[p].cut \/ \A q \in PollsOf[kind] : poll'[q].pc # "pop"
      BY <1>0, <2>1
    <3>2. ASSUME row' = "unknown", poll[p].answer \notin {"None", "unknown"}
          PROVE  kind = "replication" /\ kept' = poll[p].answer
      BY <1>2, <3>2 DEF PollWrite, NoTaskState
    <3> QED
      BY <1>0, <2>1, <3>1, <3>2 DEF Unsure
  <2>3. kind' # "replication" =>
          \A q \in PollsOf[kind'] : poll'[q].pc \in {"query", "write"}
    BY <1>0, <2>1 DEF RowInv
  <2> QED
    BY <1>0, <2>2, <2>3 DEF RowInv
<1>3. CASE PollFallback(p)
  <2>1. kind = "replication" /\ poll[p].pc = "fallback"
    BY <1>3 DEF RowInv, PollFallback
  <2>2. /\ poll'[p].pc = "pop" /\ poll'[p].answer = poll[p].answer
        /\ poll'[p].cut = poll[p].cut /\ kept' = kept
    BY <1>0, <1>3 DEF PollFallback, TypeOK
  \* A state that was kept is shown, so one that is still unknown was not.
  <2>3. row' = "unknown" => row = "unknown" /\ kept \in {"None", "unknown"}
    BY <1>3 DEF PollFallback
  <2>4. ASSUME row' = "unknown", NEW q \in PollsOf[kind], Unsure(q) PROVE Unsure(q)'
    <3>1. \/ poll[q].pc = "write" \/ poll[q].answer \in {"None", "unknown"} \/ poll[q].cut
      BY <2>3, <2>4 DEF Unsure
    <3>2. CASE q = p
      BY <2>1, <2>2, <3>1, <3>2 DEF Unsure
    <3>3. CASE q # p
      BY <1>0, <3>1, <3>3 DEF Unsure
    <3> QED
      BY <3>2, <3>3
  <2> QED
    BY <1>0, <2>1, <2>3, <2>4 DEF RowInv
<1>4. CASE PollPop(p)
  <2>1. kind = "replication" /\ poll[p].pc = "pop" /\ row' = row
    BY <1>4 DEF RowInv, PollPop
  <2>2. poll'[p].answer = poll[p].answer /\ poll'[p].cut = poll[p].cut
    BY <1>0, <1>4 DEF PollPop, TypeOK
  <2>3. ASSUME NEW q \in PollsOf[kind], Unsure(q) PROVE Unsure(q)'
    <3>1. \/ poll[q].pc = "write" \/ poll[q].answer \in {"None", "unknown"} \/ poll[q].cut
      BY <2>1, <2>3 DEF Unsure
    <3>2. CASE q = p
      BY <2>1, <2>2, <3>1, <3>2 DEF Unsure
    <3>3. CASE q # p
      BY <1>0, <3>1, <3>3 DEF Unsure
    <3> QED
      BY <3>2, <3>3
  <2> QED
    BY <1>0, <2>1, <2>3 DEF RowInv
<1> QED
  BY <1>1, <1>2, <1>3, <1>4 DEF Poll

LEMMA NextRow ==
  ASSUME TypeOK, RowInv, [Next]_vars
  PROVE  RowInv'
<1> USE DEF server, Goto
<1>1. CASE Server
  BY <1>1 DEF Server, Schedule, JobBegins, JobEnds, RowInv, Unsure
<1>2. ASSUME NEW c \in CallersOf[kind], Caller(c) \/ Resume(c) PROVE RowInv'
  BY <1>2 DEF Caller, Resume, StartGuarded, Press, Ask, Asked, Run, Mark, Abort, RowInv,
              Unsure
<1>3. CASE UNCHANGED vars
  BY <1>3 DEF vars, RowInv, Unsure
<1> QED
  BY <1>1, <1>2, <1>3, PollRow DEF Next

\* Once the polls are through with a known state, the row is not unknown, of a
\* replication whose own state is missing too: for any number of polls in any order,
\* unless one wrote while another was between its fallback and its drop.
THEOREM KnownStaysKnown == Spec => []KnownAtRest
<1>1. TypeOK /\ RowInv /\ [Next]_vars => RowInv'
  BY NextRow
<1>2. RowInv => KnownAtRest
  BY SetupAssumption DEF RowInv, KnownAtRest, FallbackSuffices, Known, Unsure
<1> QED
  BY <1>1, <1>2, InitRow, TypeCorrect, PTL DEF Spec
=============================================================================
