--------------------------- MODULE DatasetLock_proofs ---------------------------
(***************************************************************************)
(* What a call may rely on, for any number of callers, any limit on missing *)
(* answers and any loss of answers: "done" means that its job succeeded,    *)
(* and "already" is right unless something it could not see misled it.      *)
(***************************************************************************)
EXTENDS DatasetHistory, TLAPS

\* A call waits only for a job it started, and a call that returned "done", or is
\* about to, has a job that succeeded with nothing listed as failed.
IInv == TypeOK /\ JobInv /\ DoneIsDone

\* The initial states.
LEMMA InitInv == Init => IInv
BY MissAssumption, ProcAssumption
   DEF Init, IInv, TypeOK, JobInv, DoneIsDone, Shown, Rows, Idle, Procs

\* A refresh, of the poller or of a caller, touches no call and no job.
LEMMA RefreshStep ==
  ASSUME IInv, NEW p \in Procs, Refreshing(p) \/ ScheduledPoll \/ PollEnds
  PROVE  IInv'
BY ProcAssumption
   DEF IInv, TypeOK, JobInv, DoneIsDone, Refreshing, Query, QueryLost, Write, ScheduledPoll,
       PollEnds, Notify, Begin, Idle, Shown, Rows, calls, server, Procs

\* The end of a job: one that ended stays ended.
LEMMA JobStep ==
  ASSUME IInv, LateJobEnds \/ \E c \in Callers : JobEnds(c)
  PROVE  IInv'
<1>1. CASE LateJobEnds
  BY <1>1 DEF IInv, TypeOK, JobInv, DoneIsDone, LateJobEnds, calls
<1>2. CASE \E c \in Callers : JobEnds(c)
  <2> PICK c \in Callers : JobEnds(c)
    BY <1>2
  <2>1. TypeOK'
    <3>1. job' \in [Callers -> {"none", "running", "success", "successFailed", "failed"}]
      BY DEF IInv, TypeOK, JobEnds
    <3>2. locked' \in BOOLEAN
      BY Zenon DEF IInv, TypeOK, JobEnds
    <3> QED BY <3>1, <3>2 DEF IInv, TypeOK, JobEnds, calls
  <2>2. JobInv' /\ DoneIsDone'
    BY DEF IInv, TypeOK, JobInv, DoneIsDone, JobEnds, calls
  <2> QED BY <2>1, <2>2 DEF IInv
<1> QED BY <1>1, <1>2

\* The types of the parts a step of a call changes.
Refreshes == [Procs -> [pc : {"idle", "query", "write", "notify"}, answer : Rows]]
Places    == [Callers -> {"idle", "refresh", "request", "wait", "refreshAgain"}]
Results   == [Callers -> {"none", "raised", "already", "done"}]
JobTypes  == [Callers -> {"none", "running", "success", "successFailed", "failed"}]

\* A notification ends a refresh and shows a row.
LEMMA NotifyTypes ==
  ASSUME TypeOK, NEW p \in Procs, Notify(p)
  PROVE  data' \in Rows /\ refresh' \in Refreshes
BY DEF TypeOK, Notify, Idle, Rows, Refreshes

\* A new call, which forgets the job of the one before.
LEMMA CallStep == ASSUME IInv, NEW c \in Callers, Call(c) PROVE IInv'
<1>1. TypeOK'
  <2>1. refresh' \in Refreshes
    BY DEF IInv, TypeOK, Call, Begin, Refreshes, Procs
  <2>2. pc' \in Places /\ result' \in Results
    BY DEF IInv, TypeOK, Call, End, Goto, Places, Results
  <2>3. op' \in [Callers -> {"lock", "unlock"}] /\ late' \subseteq {"lock", "unlock"}
    <3>1. PICK o \in Ops[c] : op' = [op EXCEPT ![c] = o]
      BY DEF Call
    <3>2. o \in {"lock", "unlock"} /\ op[c] \in {"lock", "unlock"}
      BY OpsAssumption DEF IInv, TypeOK
    <3>3. late' = IF job[c] = "running" THEN late \cup {op[c]} ELSE late
      BY DEF Call
    <3> QED BY <3>1, <3>2, <3>3 DEF IInv, TypeOK
  <2>4. job' \in JobTypes
    BY DEF IInv, TypeOK, Call, JobTypes
  <2>5. UNCHANGED <<locked, row, data, missing>>
    BY DEF Call
  <2> QED BY <2>1, <2>2, <2>3, <2>4, <2>5
          DEF IInv, TypeOK, Refreshes, Places, Results, JobTypes
<1>2. JobInv' /\ DoneIsDone'
  <2>1. \/ pc'[c] = "idle" /\ result'[c] = "raised"
        \/ pc'[c] = "refresh" /\ result'[c] = "none"
    BY DEF IInv, TypeOK, Call, End, Goto
  <2>2. \A d \in Callers \ {c} : /\ pc'[d] = pc[d] /\ result'[d] = result[d]
                                 /\ job'[d] = job[d]
    BY DEF IInv, TypeOK, Call, End, Goto
  <2> QED BY <2>1, <2>2 DEF IInv, JobInv, DoneIsDone
<1> QED BY <1>1, <1>2 DEF IInv

\* The check: a call that goes on has no result yet.
LEMMA CheckStep == ASSUME IInv, NEW c \in Callers, Check(c) PROVE IInv'
<1>0. /\ pc' \in Places /\ result' \in Results
      /\ \/ pc'[c] = "idle" /\ result'[c] = "already"
         \/ pc'[c] = "request" /\ result'[c] = result[c] /\ pc[c] = "refresh"
  <2>1. CASE End(c, "already")
    BY <2>1 DEF IInv, TypeOK, End, Goto, Places, Results
  <2>2. CASE Goto(c, "request") /\ UNCHANGED result
    BY <2>2 DEF IInv, TypeOK, Goto, Places, Results, Check
  <2> QED BY <2>1, <2>2 DEF Check
<1>1. TypeOK'
  <2>1. data' \in Rows /\ refresh' \in Refreshes
    BY NotifyTypes DEF IInv, Check, Procs
  <2> QED BY <1>0, <2>1 DEF IInv, TypeOK, Check, server, Refreshes, Places, Results
<1>2. JobInv' /\ DoneIsDone'
  <2>1. \A d \in Callers \ {c} : pc'[d] = pc[d] /\ result'[d] = result[d]
    <3>1. CASE End(c, "already")
      BY <3>1 DEF IInv, TypeOK, End, Goto
    <3>2. CASE Goto(c, "request") /\ UNCHANGED result
      BY <3>2 DEF IInv, TypeOK, Goto
    <3> QED BY <3>1, <3>2 DEF Check
  <2>2. job' = job
    BY DEF Check, server
  <2> QED BY <1>0, <2>1, <2>2 DEF IInv, JobInv, DoneIsDone
<1> QED BY <1>1, <1>2 DEF IInv

\* The request: a job is started before the call waits for it.
LEMMA RequestStep == ASSUME IInv, NEW c \in Callers, Request(c) PROVE IInv'
<1>1. TypeOK'
  <2>1. missing' \in [Callers -> 0..(MaxMissing - 1)]
    BY MissAssumption DEF IInv, TypeOK, Request
  <2>2. pc' \in Places /\ result' \in Results /\ job' \in JobTypes
    BY DEF IInv, TypeOK, Request, End, Goto, Places, Results, JobTypes
  <2> QED BY <2>1, <2>2 DEF IInv, TypeOK, Request, Places, Results, JobTypes
<1>2. JobInv' /\ DoneIsDone'
  <2>1. \A d \in Callers \ {c} : /\ pc'[d] = pc[d] /\ result'[d] = result[d]
                                 /\ job'[d] = job[d]
    BY DEF IInv, TypeOK, Request, End, Goto
  <2>2. \/ pc'[c] = "idle" /\ result'[c] = "raised"
        \/ pc'[c] = "wait" /\ job'[c] = "running" /\ result'[c] = "none"
    BY DEF IInv, TypeOK, JobInv, Request, End, Goto
  <2> QED BY <2>1, <2>2 DEF IInv, JobInv, DoneIsDone
<1> QED BY <1>1, <1>2 DEF IInv

\* The wait: it is left for the last refresh by a success only.
LEMMA WaitStep == ASSUME IInv, NEW c \in Callers, PollJob(c) \/ Timeout(c) PROVE IInv'
<1>1. TypeOK'
  <2>1. missing' \in [Callers -> 0..(MaxMissing - 1)]
    BY MissAssumption DEF IInv, TypeOK, PollJob, Timeout, NotFound
  <2>2. pc' \in Places /\ result' \in Results
    BY DEF IInv, TypeOK, PollJob, Timeout, NotFound, Finished, End, Goto, Places, Results
  <2>3. refresh' \in Refreshes
    BY DEF IInv, TypeOK, PollJob, Timeout, Finished, Begin, Procs, Refreshes
  <2>4. /\ locked' = locked /\ job' = job /\ late' = late
        /\ row' = row /\ data' = data /\ op' = op
    BY DEF PollJob, Timeout, server
  <2> QED BY <2>1, <2>2, <2>3, <2>4 DEF IInv, TypeOK, Places, Results, Refreshes
<1>2. JobInv' /\ DoneIsDone'
  BY DEF IInv, TypeOK, JobInv, DoneIsDone, PollJob, Timeout, NotFound, Finished, End,
         Goto, server
<1> QED BY <1>1, <1>2 DEF IInv

\* The return of a call whose job succeeded.
LEMMA ReturnStep == ASSUME IInv, NEW c \in Callers, Return(c) PROVE IInv'
<1>1. TypeOK'
  <2>1. data' \in Rows /\ refresh' \in Refreshes
    BY NotifyTypes DEF IInv, Return, Procs
  <2>2. pc' \in Places /\ result' \in Results
    BY DEF IInv, TypeOK, Return, End, Goto, Places, Results
  <2> QED BY <2>1, <2>2 DEF IInv, TypeOK, Return, server, Refreshes, Places, Results
<1>2. JobInv' /\ DoneIsDone'
  BY DEF IInv, TypeOK, JobInv, DoneIsDone, Return, End, Goto, server
<1> QED BY <1>1, <1>2 DEF IInv

\* Every step preserves the invariant.
LEMMA NextInv == IInv /\ [Next]_vars => IInv'
<1> SUFFICES ASSUME IInv, [Next]_vars PROVE IInv'
  OBVIOUS
<1>1. CASE ScheduledPoll \/ PollEnds
  BY <1>1, RefreshStep DEF Procs
<1>2. CASE LateJobEnds
  BY <1>2, JobStep
<1>3. ASSUME NEW p \in Procs, Refreshing(p) PROVE IInv'
  BY <1>3, RefreshStep
<1>4. ASSUME NEW c \in Callers, Call(c) \/ Resume(c) \/ Timeout(c) \/ JobEnds(c)
      PROVE  IInv'
  BY <1>4, CallStep, CheckStep, RequestStep, WaitStep, ReturnStep, JobStep DEF Resume
<1>5. CASE UNCHANGED vars
  BY <1>5 DEF IInv, TypeOK, JobInv, DoneIsDone, vars, server
<1> QED BY <1>1, <1>2, <1>3, <1>4, <1>5 DEF Next

\* The state keeps its type; in particular the count of missing answers never
\* reaches its limit while a call waits.
THEOREM TypeCorrect == Spec => []TypeOK
<1>1. IInv => TypeOK
  BY DEF IInv
<1> QED BY <1>1, InitInv, NextInv, PTL DEF Spec

\* lock() and unlock() return without an error after a job of their own only if it
\* succeeded and listed nothing as failed, whatever happens around them.
THEOREM DoneMeansSuccess == Spec => []DoneIsDone
<1>1. IInv => DoneIsDone
  BY DEF IInv
<1> QED BY <1>1, InitInv, NextInv, PTL DEF Spec

-----------------------------------------------------------------------------
\* When the check of a call is right.

\* How a step changes a refresh: it begins, its query is answered, comes back empty
\* or not at all, its answer is written, it ends.
Moves(p) ==
  \/ refresh'[p] = refresh[p]
  \/ refresh'[p].pc \in {"query", "idle"}
  \/ refresh[p].pc = "query" /\ refresh'[p] \in {[pc |-> "write", answer |-> Shown(locked)],
                                                 [pc |-> "write", answer |-> "absent"]}
  \/ refresh[p].pc = "query" /\ refresh'[p].pc = "notify"
  \/ refresh[p].pc = "write" /\ refresh'[p].pc = "notify" /\ row' = refresh[p].answer

\* The row changes only when the answer of a refresh is written.
Written == row' = row \/ \E p \in Procs : refresh[p].pc = "write" /\ row' = refresh[p].answer

\* A step of one refresh is one of these moves, and leaves the others alone.
LEMMA OneMoves ==
  ASSUME TypeOK, NEW p \in Procs, Refreshing(p) \/ Notify(p) \/ Begin(p),
         row' = row \/ Write(p)
  PROVE  Written /\ \A q \in Procs : Moves(q)
<1>0. refresh[p] = [pc |-> refresh[p].pc, answer |-> refresh[p].answer]
  BY DEF TypeOK
<1>1. CASE Query(p)
  BY <1>1 DEF Query, Moves, Written, TypeOK
<1>2. CASE QueryLost(p)
  BY <1>2 DEF QueryLost, Moves, Written, TypeOK
<1>3. CASE Write(p)
  BY <1>3 DEF Write, Moves, Written, TypeOK
<1>4. CASE (Notify(p) \/ Begin(p)) /\ row' = row
  BY <1>4 DEF Notify, Begin, Idle, Moves, Written, TypeOK
<1> QED
  BY <1>1, <1>2, <1>3, <1>4 DEF Refreshing, Query, QueryLost

\* So is every step of the system.
LEMMA EveryMove ==
  ASSUME TypeOK, Next
  PROVE  Written /\ \A q \in Procs : Moves(q)
<1>1. CASE ScheduledPoll
  BY <1>1, OneMoves DEF ScheduledPoll, Procs
<1>2. CASE PollEnds
  BY <1>2, OneMoves DEF PollEnds, Procs
<1>3. CASE LateJobEnds
  BY <1>3 DEF LateJobEnds, Moves, Written
<1>4. ASSUME NEW p \in Procs, Refreshing(p) PROVE Written /\ \A q \in Procs : Moves(q)
  <2>1. row' = row \/ Write(p)
    BY <1>4 DEF Refreshing, Query, QueryLost
  <2> QED
    BY <1>4, <2>1, OneMoves
<1>5. ASSUME NEW c \in Callers, Call(c) \/ PollJob(c) PROVE Written /\ \A q \in Procs : Moves(q)
  <2>1. row' = row /\ (refresh' = refresh \/ Begin(c))
    BY <1>5 DEF Call, PollJob, Finished
  <2>2. CASE refresh' = refresh
    BY <2>1, <2>2 DEF Moves, Written
  <2>3. CASE Begin(c)
    BY <2>1, <2>3, OneMoves DEF Procs
  <2> QED
    BY <2>1, <2>2, <2>3
<1>6. ASSUME NEW c \in Callers, Check(c) \/ Return(c) PROVE Written /\ \A q \in Procs : Moves(q)
  BY <1>6, OneMoves DEF Check, Return, Procs
<1>7. ASSUME NEW c \in Callers, Request(c) \/ Timeout(c) \/ JobEnds(c)
      PROVE  Written /\ \A q \in Procs : Moves(q)
  BY <1>7 DEF Request, Timeout, JobEnds, Moves, Written
<1> QED
  BY <1>1, <1>2, <1>3, <1>4, <1>5, <1>6, <1>7 DEF Next, Resume

\* A call gets into its first refresh by beginning it.
LEMMA CallBegins ==
  ASSUME TypeOK, Next, NEW c \in Callers, pc[c] # "refresh", pc'[c] = "refresh"
  PROVE  refresh' = [refresh EXCEPT ![c].pc = "query"] /\ locked' = locked
<1> USE DEF TypeOK, Goto, End
<1>1. ~(ScheduledPoll \/ PollEnds \/ LateJobEnds)
  BY DEF ScheduledPoll, PollEnds, LateJobEnds, calls
<1>2. \A p \in Procs : ~Refreshing(p)
  BY DEF Refreshing, Query, QueryLost, Write, calls
<1>3. \A d \in Callers : ~(Resume(d) \/ Timeout(d) \/ JobEnds(d))
  BY DEF Resume, Check, Request, PollJob, Return, Finished, NotFound, Timeout, JobEnds, calls
<1>4. PICK d \in Callers : Call(d)
  BY <1>1, <1>2, <1>3 DEF Next
<1>5. d = c
  BY <1>4 DEF Call
<1> QED
  BY <1>4, <1>5 DEF Call, Begin

\* The history variable adds no behaviour.
LEMMA HistoryIsLock == HistorySpec => Spec
<1>1. [HistoryNext]_<<vars, doubt>> => [Next]_vars
  BY DEF HistoryNext
<1> QED
  BY <1>1, PTL DEF HistorySpec, HistoryInit, Spec

LEMMA FreshInit == HistoryInit => FreshInv
  BY DEF HistoryInit, Init, FreshInv

LEMMA FreshNext ==
  ASSUME TypeOK, FreshInv, [HistoryNext]_<<vars, doubt>>
  PROVE  FreshInv'
<1>1. CASE UNCHANGED <<vars, doubt>>
  BY <1>1 DEF vars, server, FreshInv
<1>2. CASE HistoryNext
  <2> SUFFICES ASSUME NEW c \in Callers, pc'[c] = "refresh", ~doubt'[c]
               PROVE  /\ \A p \in Procs : refresh'[p].pc = "write" =>
                           refresh'[p].answer = Shown(locked')
                      /\ refresh'[c].pc = "notify" => row' = Shown(locked')
    BY DEF FreshInv
  <2>0. TypeOK /\ Next /\ ~Doubt(c) /\ c \in Procs
    BY <1>2 DEF HistoryNext, Procs
  <2>1. CASE pc[c] = "refresh"
    <3>1. ~doubt[c] /\ ~Misleads(c)
      BY <2>0, <2>1 DEF Doubt
    <3>2. /\ locked' = locked
          /\ \A p \in Procs : refresh[p].pc = "write" => refresh[p].answer = Shown(locked)
          /\ refresh[c].pc = "notify" => row = Shown(locked)
      BY <2>1, <3>1 DEF Misleads, FreshInv
    <3>3. Written /\ \A p \in Procs : Moves(p)
      BY <2>0, EveryMove
    <3>4. \A p \in Procs : refresh'[p].pc = "write" => refresh'[p].answer = Shown(locked)
      BY <3>1, <3>2, <3>3 DEF Moves, Misleads
    <3>5. refresh'[c].pc = "notify" => row' = Shown(locked)
      BY <2>0, <3>1, <3>2, <3>3 DEF Moves, Written, Misleads
    <3> QED
      BY <3>2, <3>4, <3>5
  <2>2. CASE pc[c] # "refresh"
    <3>1. \A p \in Procs : refresh[p].pc # "write"
      BY <2>0, <2>2 DEF Doubt, InFlight
    <3>2. refresh' = [refresh EXCEPT ![c].pc = "query"]
      BY <2>0, <2>2, CallBegins
    <3>3. \A p \in Procs : refresh'[p].pc # "write"
      BY <3>1, <3>2 DEF TypeOK
    <3>4. refresh'[c].pc = "query"
      BY <2>0, <3>2 DEF TypeOK
    <3> QED
      BY <3>3, <3>4
  <2> QED
    BY <2>1, <2>2
<1> QED
  BY <1>1, <1>2

\* The check of a call whose row is as FreshInv says.
LEMMA CheckIsRight ==
  ASSUME TypeOK, FreshInv, Next, NEW c \in Callers, pc[c] = "refresh",
         result'[c] = "already", ~doubt[c], data' = row, result[c] = "none"
  PROVE  locked = (op[c] = "lock")
<1> USE DEF TypeOK, Goto, End
<1>1. ~(ScheduledPoll \/ PollEnds \/ LateJobEnds)
  BY DEF ScheduledPoll, PollEnds, LateJobEnds, calls
<1>2. \A p \in Procs : ~Refreshing(p)
  BY DEF Refreshing, Query, QueryLost, Write, calls
<1>3. \A d \in Callers : ~(Call(d) \/ Request(d) \/ PollJob(d) \/ Return(d) \/ Timeout(d) \/ JobEnds(d))
  BY DEF Call, Request, PollJob, Return, Finished, NotFound, Timeout, JobEnds, calls
<1>4. PICK d \in Callers : Check(d)
  BY <1>1, <1>2, <1>3 DEF Next, Resume
<1>5. d = c
  BY <1>4 DEF Check
<1>6. row = Shown(locked)
  BY <1>4, <1>5 DEF Check, Notify, FreshInv
<1>7. SeenLocked(data') = (op[c] = "lock")
  BY <1>4, <1>5 DEF Check
<1>8. SeenLocked(Shown(locked)) <=> locked
  BY DEF SeenLocked, Shown
<1> QED
  BY <1>6, <1>7, <1>8

\* lock() and unlock() return without a job only if there is nothing to do, as long as
\* nothing that they cannot see comes between their query and their check.
THEOREM AlreadyMeansRight == HistorySpec => AlreadyIsRight
<1>1. Spec => []IInv
  BY InitInv, NextInv, PTL DEF Spec
<1>2. IInv /\ FreshInv /\ [HistoryNext]_<<vars, doubt>> => FreshInv'
  BY FreshNext DEF IInv
<1>3. IInv /\ FreshInv /\ [HistoryNext]_<<vars, doubt>> =>
        [\A c \in Callers :
           pc[c] = "refresh" /\ result'[c] = "already" /\ ~doubt[c] /\ data' = row
             => locked = (op[c] = "lock")]_<<vars, doubt>>
  <2> SUFFICES ASSUME IInv, FreshInv, HistoryNext, NEW c \in Callers, pc[c] = "refresh",
                      result'[c] = "already", ~doubt[c], data' = row
               PROVE  locked = (op[c] = "lock")
    BY Zenon
  <2>1. TypeOK /\ Next /\ result[c] = "none"
    BY DEF IInv, JobInv, HistoryNext
  <2> QED
    BY <2>1, CheckIsRight
<1> QED
  BY <1>1, <1>2, <1>3, HistoryIsLock, FreshInit, PTL DEF HistorySpec, AlreadyIsRight
=============================================================================
