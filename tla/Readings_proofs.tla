----------------------------- MODULE Readings_proofs -----------------------------
(***************************************************************************)
(* What the refreshes of PollCycle and Readings leave behind, for every    *)
(* capacity, parity, unit and use of a pool, every tolerance and every     *)
(* time a graph is left out: values of their types, pools that agree with  *)
(* their root datasets, and, when everything was answered, readings.       *)
(***************************************************************************)
EXTENDS Readings, TLAPS

-----------------------------------------------------------------------------
\* Arithmetic

\* What is less in number is less in raw bytes.
LEMMA TimesLess ==
  ASSUME NEW k \in Nat, NEW m \in Nat, NEW n \in 0..m
  PROVE  k * n \in 0..(k * m)
<1>1. k * m = k * n + k * (m - n)
  OBVIOUS
<1>2. k * n \in Nat /\ k * (m - n) \in Nat
  OBVIOUS
<1> QED
  BY <1>1, <1>2

\* A factor of at least one does not make less.
LEMMA TimesMore ==
  ASSUME NEW k \in Nat \ {0}, NEW m \in Nat
  PROVE  m \in 0..(k * m)
<1>1. k * m = m + (k - 1) * m
  OBVIOUS
<1>2. (k - 1) * m \in Nat
  OBVIOUS
<1> QED
  BY <1>1, <1>2

\* Whole units are divided exactly.
LEMMA DivExact ==
  ASSUME NEW u \in Nat \ {0}, NEW m \in Nat
  PROVE  (u * m) \div u = m /\ (u * m) % u = 0
  OBVIOUS

\* A quotient, and one more if something is left, is not more than what was divided.
LEMMA DivFits ==
  ASSUME NEW u \in Nat \ {0}, NEW m \in Nat
  PROVE  /\ m \div u \in 0..m /\ m % u \in Nat
         /\ m % u # 0 => (m \div u) + 1 \in 0..m
<1> DEFINE q == m \div u
<1> DEFINE r == m % u
<1>1. q \in Nat /\ r \in Nat /\ m = u * q + r
  OBVIOUS
<1> HIDE DEF q, r
<1>2. q \in 0..(u * q) /\ u * q \in Nat
  BY <1>1, TimesMore
<1>3. q \in 0..m /\ (r # 0 => q + 1 \in 0..m)
  BY <1>1, <1>2
<1> QED
  BY <1>1, <1>3 DEF q, r

-----------------------------------------------------------------------------
\* The figures

\* The type invariant of PollCycle and what its proof needs of a pool.
FiguresInv == TypeOK /\ SizeInv

\* What the server reports of a pool is not more than the pool has.
LEMMA ReportedFits ==
  ASSUME NEW v \in Values,
         pool # None => pool \in [Figures -> 0..(Parity * Cap)]
  PROVE  /\ Reported(pool, v) \in [Figures -> 0..(Parity * Cap)]
         /\ Reported(pool, v).size = Parity * Cap
<1>1. v \in 0..Cap /\ Cap - v \in 0..Cap /\ Cap \in Nat /\ Parity \in Nat
  BY SizeAssumption
<1>2. Parity * v \in 0..(Parity * Cap) /\ Parity * (Cap - v) \in 0..(Parity * Cap)
  BY <1>1, TimesLess
<1>3. Parity * Cap \in 0..(Parity * Cap)
  BY <1>1, TimesLess
<1>4. ASSUME NEW f \in {"available", "total"}
      PROVE  (IF pool = None THEN 0 ELSE pool[f]) \in 0..(Parity * Cap)
  BY <1>3 DEF Figures
<1> QED
  BY <1>2, <1>3, <1>4 DEF Reported, Figures

\* Nor is what its root dataset has.
LEMMA FromDatasetFits ==
  ASSUME NEW v \in Values, pool \in [Figures -> 0..(Parity * Cap)]
  PROVE  /\ FromDataset(pool, Root(v)) \in [Figures -> 0..(Parity * Cap)]
         /\ FromDataset(pool, Root(v)).size = Cap
<1>1. v \in 0..Cap /\ Cap - v \in 0..Cap /\ Cap \in Nat /\ Parity \in Nat \ {0}
  BY SizeAssumption
<1>2. Cap \in 0..(Parity * Cap)
  BY <1>1, TimesMore
<1>3. Parity * Cap \in Int /\ 0..Cap \subseteq 0..(Parity * Cap)
  BY <1>1, <1>2
<1>4. Root(v).available = Cap - v /\ Root(v).used = v /\ (Cap - v) + v = Cap
  BY <1>1 DEF Root
<1> QED
  BY <1>1, <1>2, <1>3, <1>4 DEF FromDataset, Figures

\* A pool without a root dataset: if its size is 0, it holds nothing.
LEMMA FromPoolFits ==
  ASSUME pool \in [Figures -> 0..(Parity * Cap)], pool.size \in {Cap, Parity * Cap}
  PROVE  /\ FromPool(pool) \in [Figures -> 0..(Parity * Cap)]
         /\ FromPool(pool).size = pool.size
<1> DEFINE m == Parity * Cap
<1>1. Cap \in Nat /\ Parity \in Nat \ {0} /\ m \in Nat /\ Cap \in 0..m
  BY SizeAssumption, TimesMore
<1>2. pool.size = 0 => m = 0
  BY <1>1
<1>3. /\ pool.size \in 0..m /\ pool.allocated \in 0..m /\ pool.free \in 0..m
  BY DEF Figures
<1> HIDE DEF m
<1>4. (IF pool.size # 0 THEN pool.size ELSE pool.allocated + pool.free) \in 0..m
  BY <1>1, <1>2, <1>3
<1>5. pool \in [Figures -> 0..m]
  BY DEF m
<1>6. FromPool(pool) \in [Figures -> 0..m] /\ FromPool(pool).size = pool.size
  BY <1>3, <1>4, <1>5 DEF FromPool, Figures
<1> QED
  BY <1>6 DEF m

\* A memory as it is reported is converted to units, and one that is converted
\* again never grows.
LEMMA ConvertFits ==
  ASSUME NEW m \in Nat
  PROVE  Convert(Unit * m) = m /\ Convert(m) \in 0..m
<1>1. Unit \in Nat \ {0}
  BY UnitAssumption
<1>2. Convert(Unit * m) = m
  BY <1>1, DivExact DEF Convert
<1>3. Convert(m) \in {m \div Unit, IF m % Unit # 0 THEN (m \div Unit) + 1 ELSE m \div Unit}
  BY <1>1, DivFits DEF Convert
<1> QED
  BY <1>1, <1>2, <1>3, DivFits

\* At first there are no rows.
LEMMA InitFigures == Init => FiguresInv
  BY DEF Init, FiguresInv, TypeOK, SizeInv, Through, Getters

\* A getter's step leaves everything but its own rows well typed.
LEMMA StepFigures ==
  ASSUME TypeOK, NEW g \in Getters, NEW here,
         NEW next \in {"query", "netdata", "fallback", "done"}, NEW answer,
         Step(g, here, next, answer)
  PROVE  /\ now' \in Values /\ source' \in {"netdata", "otherDisks", "none"}
         /\ monitored' \in BOOLEAN /\ connected' \in BOOLEAN /\ good' \in BOOLEAN
         /\ phase' \in {"idle", "connect", "gather", "pool", "capacity", "verdict"}
         /\ at' \in [Getters -> {"query", "netdata", "fallback", "done"}]
  BY DEF Step, Asks, TypeOK, environment

\* What get_vm and get_container leave in a row is a memory or no row.
LEMMA GuestFits ==
  ASSUME TypeOK, NEW answer, GetGuest(answer)
  PROVE  guest' \in 0..Memory(Cap) \cup {None}
<1> DEFINE row == Parsed(guest, answer, Unit * Memory(now))
<1>1. guest' = IF row = None THEN None ELSE Convert(row)
  BY DEF GetGuest
<1>2. row \in {Unit * Memory(now)} \cup 0..Memory(Cap) \cup {None}
  BY DEF TypeOK, Parsed
<1>3. Memory(now) \in 0..Memory(Cap) /\ Memory(Cap) \in Nat
  BY SizeAssumption DEF TypeOK, Memory
<1> HIDE DEF row
<1>4. CASE row = Unit * Memory(now)
  BY <1>1, <1>3, <1>4, ConvertFits
<1>5. CASE row \in 0..Memory(Cap)
  BY <1>1, <1>3, <1>5, ConvertFits
<1>6. CASE row = None
  BY <1>1, <1>6
<1> QED
  BY <1>2, <1>4, <1>5, <1>6

\* A step that leaves the rows and the server alone.
LEMMA RowsKept ==
  ASSUME TypeOK, SizeInv, UNCHANGED <<environment, rows>>,
         connected' \in BOOLEAN, good' \in BOOLEAN,
         phase' \in {"idle", "connect", "gather", "pool", "capacity", "verdict"},
         at' \in [Getters -> {"query", "netdata", "fallback", "done"}]
  PROVE  TypeOK' /\ SizeInv'
<1>1. /\ now' = now /\ source' = source /\ monitored' = monitored
      /\ dataset' = dataset /\ pool' = pool /\ guest' = guest /\ disk' = disk
      /\ graph' = graph
  BY DEF environment, rows
<1>2. /\ dataset' \in {Root(v) : v \in Values} \cup {None}
      /\ pool' # None => pool' \in [Figures -> 0..(Parity * Cap)]
      /\ guest' \in 0..Memory(Cap) \cup {None}
  BY <1>1 DEF TypeOK
<1>3. TypeOK'
  BY <1>1, <1>2, Zenon DEF TypeOK
<1>4. SizeInv'
  BY <1>1 DEF SizeInv
<1> QED
  BY <1>3, <1>4

\* Every step keeps them.
LEMMA NextFigures ==
  ASSUME FiguresInv, [Next]_vars
  PROVE  FiguresInv'
<1> TypeOK /\ SizeInv
  BY DEF FiguresInv
<1> SUFFICES TypeOK' /\ SizeInv'
  BY DEF FiguresInv
<1>1. CASE Change
  BY <1>1 DEF Change, rows, TypeOK, SizeInv
<1>10. CASE Drop
  BY <1>10, RowsKept DEF Drop, TypeOK
<1>11. CASE Reconnect
  BY <1>11, RowsKept DEF Reconnect, TypeOK
<1>2. CASE Wake
  BY <1>2, RowsKept DEF Wake, Goto, First, Getters, TypeOK
<1>12. CASE Connect
  BY <1>12, RowsKept DEF Connect, Goto, First, Getters, TypeOK
<1>13. CASE ConnectFails
  BY <1>13, RowsKept DEF ConnectFails, Goto, TypeOK
<1>14. CASE Gathered
  BY <1>14, RowsKept DEF Gathered, Goto, TypeOK
<1>15. CASE Verdict
  BY <1>15, RowsKept DEF Verdict, Goto, TypeOK
<1>3. ASSUME NEW answer \in BOOLEAN, Capacity(answer) PROVE TypeOK' /\ SizeInv'
  <2>1. (pool' # None => pool' \in [Figures -> 0..(Parity * Cap)]) /\ SizeInv'
    <3>1. CASE pool = None
      BY <1>3, <3>1 DEF Capacity, SizeInv
    <3>2. CASE pool # None /\ dataset = None
      BY <1>3, <3>2, FromPoolFits DEF Capacity, SizeInv, TypeOK
    <3>3. CASE pool # None /\ dataset # None
      <4>1. PICK v \in Values : dataset = Root(v)
        BY <3>3 DEF TypeOK
      <4>2. pool' = FromDataset(pool, Root(v))
        BY <1>3, <3>3, <4>1 DEF Capacity
      <4>3. pool \in [Figures -> 0..(Parity * Cap)]
        BY <3>3 DEF TypeOK
      <4> QED
        BY <4>2, <4>3, FromDatasetFits DEF SizeInv
    <3> QED
      BY <3>1, <3>2, <3>3
  <2> QED
    BY <1>3, <2>1 DEF Capacity, Asks, Goto, TypeOK, environment
<1>4. ASSUME NEW answer \in BOOLEAN, GetPool(answer) PROVE TypeOK' /\ SizeInv'
  <2>1. (pool' # None => pool' \in [Figures -> 0..(Parity * Cap)]) /\ SizeInv'
    <3>1. pool' = IF answer THEN Reported(pool, now) ELSE pool
      BY <1>4 DEF GetPool, Parsed
    <3> QED
      BY <3>1, ReportedFits DEF TypeOK, SizeInv
  <2> QED
    BY <1>4, <2>1 DEF GetPool, Asks, Goto, TypeOK, environment
<1>5. ASSUME NEW answer \in BOOLEAN, GetDataset(answer) PROVE TypeOK' /\ SizeInv'
  BY <1>5, StepFigures DEF GetDataset, Getters, TypeOK, SizeInv
<1>6. ASSUME NEW answer \in BOOLEAN, GetGuest(answer) PROVE TypeOK' /\ SizeInv'
  <2>1. guest' \in 0..Memory(Cap) \cup {None}
    BY <1>6, GuestFits
  <2> QED
    BY <1>6, <2>1, StepFigures DEF GetGuest, Getters, TypeOK, SizeInv
<1>7. ASSUME NEW answer \in BOOLEAN, GetDisk(answer) \/ Fallback(answer)
      PROVE  TypeOK' /\ SizeInv'
  BY <1>7, StepFigures DEF GetDisk, Fallback, Getters, TypeOK, SizeInv
<1>8. ASSUME NEW list \in BOOLEAN, NEW data \in BOOLEAN, Netdata(list, data)
      PROVE  TypeOK' /\ SizeInv'
  BY <1>8, StepFigures DEF Netdata, Discovered, Getters, TypeOK, SizeInv
<1>9. CASE UNCHANGED vars
  BY <1>9 DEF vars, environment, rows, TypeOK, SizeInv
<1> QED
  BY <1>1, <1>2, <1>3, <1>4, <1>5, <1>6, <1>7, <1>8, <1>9, <1>10, <1>11, <1>12,
     <1>13, <1>14, <1>15 DEF Next, Poll, Answered, Failed, Query

\* Every figure a poll keeps is of its type: a pool's are never more than its raw
\* size, and a guest's memory never more than one may be, however often a row that was
\* not read again is converted.
THEOREM FiguresTypeCorrect == Spec => []TypeOK
<1>1. FiguresInv => TypeOK
  BY DEF FiguresInv
<1>2. FiguresInv /\ [Next]_vars => FiguresInv'
  BY NextFigures
<1> QED
  BY <1>1, <1>2, InitFigures, PTL DEF Spec

-----------------------------------------------------------------------------
\* A pool and its root dataset

\* At first there is no pool to agree with anything.
LEMMA InitPool == Init => PoolInv
  BY DEF Init, PoolInv

\* Capacity with a root dataset makes the pool agree with it.
LEMMA FromDatasetAgrees ==
  ASSUME pool' = FromDataset(pool, dataset), dataset' = dataset
  PROVE  Agrees'
  BY DEF FromDataset, Agrees

\* A getter under gather leaves the refresh where it is: not at rest.
LEMMA GatherPool ==
  ASSUME NEW g, NEW here, NEW next, NEW answer, Step(g, here, next, answer)
  PROVE  PoolInv'
  BY DEF Step, PoolInv, Rest

\* No step of Next ends a refresh well with a pool that disagrees.
LEMMA NextPool ==
  ASSUME Others = FALSE, PoolInv, [Next]_vars
  PROVE  PoolInv'
<1> USE DEF PoolInv, Rest, Agrees
<1>1. CASE Change
  BY <1>1 DEF Change, rows
<1>2. CASE Drop
  BY <1>2 DEF Drop, environment, rows
<1>12. CASE Reconnect
  BY <1>12 DEF Reconnect, environment, rows
<1>3. CASE Wake
  BY <1>3 DEF Wake, Goto
<1>4. CASE Connect
  BY <1>4 DEF Connect, Goto
<1>5. CASE ConnectFails
  BY <1>5 DEF ConnectFails, Goto
<1>6. CASE Gathered
  BY <1>6 DEF Gathered, Goto
<1>7. CASE Verdict
  BY <1>7 DEF Verdict, Goto, rows
<1>8. ASSUME NEW answer \in BOOLEAN, Capacity(answer) PROVE PoolInv'
  <2>1. dataset' = dataset /\ phase' = "verdict"
    BY <1>8 DEF Capacity, Goto
  <2>2. CASE pool = None
    BY <1>8, <2>2 DEF Capacity
  <2>3. CASE pool # None /\ dataset # None
    <3>1. pool' = FromDataset(pool, dataset)
      BY <1>8, <2>3 DEF Capacity
    <3> QED
      BY <2>1, <3>1, FromDatasetAgrees
  <2>4. CASE dataset = None
    BY <2>1, <2>4
  <2> QED
    BY <2>2, <2>3, <2>4
<1>9. ASSUME NEW answer \in BOOLEAN, Query(answer) PROVE PoolInv'
  <2>1. CASE GetDataset(answer)
    BY <2>1, GatherPool DEF GetDataset
  <2>2. CASE GetGuest(answer)
    BY <2>2, GatherPool DEF GetGuest
  <2>3. CASE GetDisk(answer)
    BY <2>3, GatherPool DEF GetDisk
  <2>4. CASE Fallback(answer)
    BY <2>4, GatherPool DEF Fallback
  <2>5. CASE GetPool(answer)
    <3>1. phase' = IF connected' THEN "capacity" ELSE "verdict"
      BY <2>5 DEF GetPool, Goto
    <3> QED
      BY <3>1
  <2>6. CASE Capacity(answer)
    BY <2>6, <1>8
  <2> QED
    BY <1>9, <2>1, <2>2, <2>3, <2>4, <2>5, <2>6 DEF Query
<1>10. ASSUME NEW list \in BOOLEAN, NEW data \in BOOLEAN, Netdata(list, data)
       PROVE  PoolInv'
  BY <1>10, GatherPool DEF Netdata
<1>11. CASE UNCHANGED vars
  BY <1>11 DEF vars, environment, rows
<1> QED
  BY <1>1, <1>2, <1>3, <1>4, <1>5, <1>6, <1>7, <1>8, <1>9, <1>10, <1>11, <1>12
     DEF Next, Poll, Answered, Failed

\* After a refresh that succeeded, a pool agrees with its root dataset: no
\* refused query, lost connection or change of the server in the middle of a
\* refresh leaves a mixture of figures on a pool whose dataset is known, as long
\* as no other caller connects while get_pool and the verdict run.
THEOREM PoolAgrees ==
  ASSUME Others = FALSE
  PROVE  Spec => []PoolFollowsDataset
<1>1. PoolInv => PoolFollowsDataset
  BY DEF PoolInv, PoolFollowsDataset
<1>2. PoolInv /\ [Next]_vars => PoolInv'
  BY NextPool
<1> QED
  BY <1>1, <1>2, InitPool, PTL DEF Spec
-----------------------------------------------------------------------------
\* The readings: what is not followed stands still

\* A step of a getter that is followed, as PollCycle sees it.
Quiet ==
  /\ UNCHANGED <<environment, good, rows>>
  /\ connected' \in BOOLEAN /\ at' \in {at, Through} /\ phase' \in {phase, "verdict"}

LEMMA AskedIs ==
  ASSUME NEW answer \in BOOLEAN, Asks(answer)
  PROVE  connected' \in BOOLEAN
  BY DEF Asks

LEMMA RunsIs ==
  ASSUME TypeOK, NEW asked \in BOOLEAN, NEW ok \in BOOLEAN, Runs(asked, ok)
  PROVE  Quiet
  BY AskedIs DEF Runs, Quiet, TypeOK

\* In a behaviour that follows another getter, a step is one of PollCycle's or quiet,
\* and the rows of PollCycle stay empty.
LEMMA FollowedIs ==
  ASSUME TypeOK, ReadingsNext, follow # "figures"
  PROVE  (Next \/ Quiet) /\ UNCHANGED dataset
<1>1. CASE Begin
  BY <1>1 DEF Begin, Wake, rows, Next, Poll
<1>2. CASE SystemInfoLost(TRUE) \/ SystemInfoLost(FALSE)
  BY <1>2 DEF SystemInfoLost, Quiet, rows
<1>3. ASSUME NEW yes \in BOOLEAN, NEW also \in BOOLEAN, SystemInfo(yes, also)
      PROVE  Quiet
  BY <1>3, AskedIs DEF SystemInfo, Quiet
<1>4. ASSUME NEW yes \in BOOLEAN, NEW also \in BOOLEAN,
             \/ GetUps(yes, also) \/ GetAlerts(yes) \/ GetDirectory(yes, also)
             \/ GetService(yes)
      PROVE  Quiet
  BY <1>4, RunsIs DEF GetUps, GetAlerts, GetDirectory, GetService
<1>5. ASSUME NEW outcome, GetSystemStats(outcome) PROVE Quiet
  BY <1>5, RunsIs DEF GetSystemStats, Asked
<1>6. NoReading => Quiet
  BY RunsIs DEF NoReading
<1>7. CASE AllRead
  BY <1>7 DEF AllRead, Goto, Quiet, rows, TypeOK
<1>8. CASE Connect \/ ConnectFails \/ Verdict
  BY <1>8 DEF Connect, ConnectFails, Verdict, rows, Next, Poll, Answered, Failed
<1>9. CASE Reboot
  BY <1>9 DEF Reboot, Quiet, rows
<1>10. CASE Change \/ Drop \/ Reconnect
  BY <1>10 DEF Change, Drop, Reconnect, rows, Next
<1>11. Quiet => UNCHANGED dataset
  BY DEF Quiet, rows
<1> QED
  BY <1>1, <1>2, <1>3, <1>4, <1>5, <1>6, <1>7, <1>8, <1>9, <1>10, <1>11
     DEF ReadingsNext, Refresh, Getter

\* A quiet step keeps the types of the figures.
LEMMA QuietFigures ==
  ASSUME FiguresInv, Quiet
  PROVE  FiguresInv'
<1>1. TypeOK'
  BY DEF FiguresInv, TypeOK, Quiet, environment, rows, Through, Getters
<1>2. SizeInv'
  BY DEF FiguresInv, SizeInv, Quiet, rows
<1> QED
  BY <1>1, <1>2 DEF FiguresInv

\* Every step of Readings does.
LEMMA ReadingsFigures ==
  ASSUME FiguresInv, [ReadingsNext]_all
  PROVE  FiguresInv'
<1>1. CASE follow = "figures" /\ ReadingsNext
  BY <1>1, NextFigures DEF ReadingsNext
<1>2. CASE follow # "figures" /\ ReadingsNext
  BY <1>2, FollowedIs, NextFigures, QuietFigures DEF FiguresInv
<1>3. CASE UNCHANGED all
  BY <1>3, NextFigures DEF all
<1> QED
  BY <1>1, <1>2, <1>3

\* What PoolFollowsDataset needs there: nobody reads a dataset.
FollowInv == FiguresInv /\ PoolInv /\ (follow # "figures" => dataset = None)

LEMMA ReadingsFollow ==
  ASSUME Others = FALSE, FollowInv, [ReadingsNext]_all
  PROVE  FollowInv'
<1>1. FiguresInv'
  BY ReadingsFigures DEF FollowInv
<1>2. CASE follow = "figures" /\ ReadingsNext
  BY <1>1, <1>2, NextPool DEF FollowInv, ReadingsNext, readings, machine
<1>3. CASE follow # "figures" /\ ReadingsNext
  <2>1. dataset' = None
    BY <1>3, FollowedIs DEF FollowInv, FiguresInv
  <2> QED
    BY <1>1, <2>1 DEF FollowInv, PoolInv
<1>4. CASE UNCHANGED all
  <2>1. follow' = follow /\ UNCHANGED vars
    BY <1>4 DEF all, readings, machine
  <2> QED
    BY <1>1, <2>1, NextPool DEF FollowInv, vars, rows
<1> QED
  BY <1>2, <1>3, <1>4

-----------------------------------------------------------------------------
\* The types of the readings

LEMMA InitOwn == ReadingsInit => OwnTypeOK
<1>1. 0 \in -Jump..Far /\ 0 \in 0..CoolDown
  BY ReadingsAssumption
<1> QED
  BY <1>1 DEF ReadingsInit, OwnTypeOK, Follows, Graphs

\* The boot time stays within the bounds.
LEMMA LagFits ==
  ASSUME NEW d \in -Jump..Far
  PROVE  Sooner(d) \in -Jump..Far /\ Older(d) \in -Jump..Far /\ 0 \in -Jump..Far
  BY ReadingsAssumption DEF Sooner, Older

LEMMA MovedFits ==
  ASSUME NEW old \in (-Jump..Far) \cup {None}, NEW new \in -Jump..Far
  PROVE  Moved(old, new) \in (-Jump..Far) \cup {None}
  BY DEF Moved

\* A getter that is followed writes to the reading, the graphs and todo.
LEMMA RunsOwn ==
  ASSUME OwnTypeOK, NEW asked \in BOOLEAN, NEW ok \in BOOLEAN, Runs(asked, ok),
         reading' \in {Served(v) : v \in Values} \cup {0, None},
         cooling' \in 0..CoolDown, upsGraphs' \in {"unknown", "none", "some"}
  PROVE  OwnTypeOK'
  BY DEF Runs, OwnTypeOK, machine, info, uptime

LEMMA NextOwn ==
  ASSUME TypeOK, OwnTypeOK, ReadingsNext, follow # "figures"
  PROVE  OwnTypeOK'
<1>0. now \in Values /\ reading \in {Served(v) : v \in Values} \cup {0, None}
  BY DEF TypeOK, OwnTypeOK
<1>1. CASE Begin
  <2>1. cooling' \in 0..CoolDown
    BY <1>1, ReadingsAssumption DEF Begin, Cooled, OwnTypeOK
  <2>2. lag' \in -Jump..Far
    BY <1>1, LagFits DEF Begin, OwnTypeOK
  <2> QED
    BY <1>1, <2>1, <2>2 DEF Begin, machine, info, OwnTypeOK
<1>2. ASSUME NEW yes \in BOOLEAN, SystemInfoLost(yes) PROVE OwnTypeOK'
  <2>1. lag' \in -Jump..Far
    BY <1>2, LagFits DEF SystemInfoLost, OwnTypeOK
  <2> QED
    BY <1>0, <1>2, <2>1 DEF SystemInfoLost, Ensured, machine, OwnTypeOK
<1>3. ASSUME NEW yes \in BOOLEAN, NEW also \in BOOLEAN, SystemInfo(yes, also)
      PROVE  OwnTypeOK'
  <2>1. lag' \in -Jump..Far
    BY <1>3, LagFits DEF SystemInfo, OwnTypeOK
  <2>2. shown' \in (-Jump..Far) \cup {None}
    BY <1>3, <2>1, MovedFits DEF SystemInfo, OwnTypeOK
  <2> QED
    BY <1>0, <1>3, <2>1, <2>2 DEF SystemInfo, Ensured, machine, OwnTypeOK
<1>4. ASSUME NEW list \in BOOLEAN, NEW data \in BOOLEAN, GetUps(list, data)
      PROVE  OwnTypeOK'
  <2>1. upsGraphs' \in {"unknown", "none", "some"}
    BY <1>4 DEF GetUps, UpsDiscovered, OwnTypeOK
  <2> QED
    BY <1>0, <1>4, <2>1, RunsOwn DEF GetUps, OwnTypeOK
<1>5. ASSUME NEW yes \in BOOLEAN, NEW also \in BOOLEAN,
             GetAlerts(yes) \/ GetDirectory(yes, also) \/ GetService(yes)
      PROVE  OwnTypeOK'
  <2>1. reading' \in {Served(v) : v \in Values} \cup {0, None}
    BY <1>0, <1>5 DEF GetAlerts, GetDirectory, GetService, Parsed
  <2> QED
    BY <1>5, <2>1, RunsOwn DEF GetAlerts, GetDirectory, GetService, OwnTypeOK
<1>6. ASSUME NEW outcome, GetSystemStats(outcome) PROVE OwnTypeOK'
  <2>1. Asked \in BOOLEAN
    BY DEF Asked
  <2>2. cooling' \in 0..CoolDown
    BY <1>6, ReadingsAssumption DEF GetSystemStats, OwnTypeOK
  <2>3. follow \in Graphs /\ Asked => Emptied \in {reading, 0, None}
    BY DEF Asked, Emptied, Graphs
  <2>4. reading' \in {Served(v) : v \in Values} \cup {0, None}
    BY <1>0, <1>6, <2>3 DEF GetSystemStats
  <2> QED
    BY <1>6, <2>1, <2>2, <2>4, RunsOwn DEF GetSystemStats, OwnTypeOK
<1>7. CASE NoReading
  BY <1>7, RunsOwn DEF NoReading, values, OwnTypeOK
<1>8. CASE Reboot
  <2>1. lag' \in -Jump..Far /\ shown' \in (-Jump..Far) \cup {None}
    BY <1>8, LagFits DEF Reboot, OwnTypeOK
  <2> QED
    BY <1>8, <2>1 DEF Reboot, machine, info, values, OwnTypeOK
<1>9. CASE UNCHANGED readings
  BY <1>9 DEF readings, machine, info, uptime, values, OwnTypeOK
<1> QED
  BY <1>1, <1>2, <1>3, <1>4, <1>5, <1>6, <1>7, <1>8, <1>9
     DEF ReadingsNext, Refresh, Getter, AllRead

\* The types of PollCycle and of Readings, and what a pool's need.
ReadingsInv == FiguresInv /\ OwnTypeOK

LEMMA InitReadings == ReadingsInit => ReadingsInv
  BY InitFigures, InitOwn DEF ReadingsInit, ReadingsInv

LEMMA NextReadings ==
  ASSUME ReadingsInv, [ReadingsNext]_all
  PROVE  ReadingsInv'
<1>1. FiguresInv'
  BY ReadingsFigures DEF ReadingsInv
<1>2. CASE follow # "figures" /\ ReadingsNext
  BY <1>1, <1>2, NextOwn DEF ReadingsInv, FiguresInv
<1>3. CASE UNCHANGED readings
  BY <1>1, <1>3 DEF ReadingsInv, OwnTypeOK, readings, machine, info, uptime, values
<1> QED
  BY <1>2, <1>3 DEF ReadingsNext, all

-----------------------------------------------------------------------------
\* What a complete refresh leaves

\* At rest after a success, or on the way there.
Well == Rest \/ phase = "verdict"

LEMMA InitRefresh == ReadingsInit => RefreshInv
  BY DEF ReadingsInit, Init, RefreshInv, Nothing, Absent, Rest

\* It depends on nothing but the readings and on whether the refresh is well.
LEMMA SameRefresh ==
  ASSUME RefreshInv, UNCHANGED readings, Well' => Well
  PROVE  RefreshInv'
  BY DEF RefreshInv, Well, Known, Nothing, Absent, Near, Shows, Served,
         readings, machine, info, uptime, values

\* A getter that is followed keeps what get_systeminfo found out.
LEMMA RunsRefresh ==
  ASSUME RefreshInv, NEW asked \in BOOLEAN, NEW ok \in BOOLEAN, Runs(asked, ok),
         Nothing',
         follow # "uptime" /\ ~Absent /\ answered /\ ok /\ cooling' = 0 =>
            reading' \in {Served(v) : v \in Values}
  PROVE  RefreshInv'
<1>1. /\ follow' = follow /\ virtual' = virtual /\ plugged' = plugged
      /\ known' = known /\ isVirtual' = isVirtual /\ interface' = interface
      /\ shown' = shown /\ todo' = {} /\ todo = {"reading"}
      /\ answered' = (answered /\ ok)
  BY DEF Runs, Turn, machine, info, uptime
<1>2. Absent' = Absent /\ Near' = Near
  BY <1>1 DEF Absent, Near
<1>3. follow # "figures" /\ answered => Known
  BY <1>1 DEF RefreshInv
<1>4. follow # "figures" /\ answered' => Known'
  BY <1>1, <1>3 DEF Known, Near
<1>5. follow # "figures" /\ answered' /\ cooling' = 0 => Shows({Served(v) : v \in Values})'
  BY <1>1, <1>2, <1>3 DEF Known, Shows, Nothing, Served
<1> QED
  BY <1>1, <1>4, <1>5 DEF RefreshInv

\* get_systeminfo, with and without a connection.
LEMMA InfoLostRefresh ==
  ASSUME RefreshInv, NEW system \in BOOLEAN, SystemInfoLost(system)
  PROVE  RefreshInv'
<1>1. /\ follow' = follow /\ virtual' = virtual /\ plugged' = plugged
      /\ isVirtual' = isVirtual /\ upsGraphs' = upsGraphs
      /\ answered' = FALSE /\ todo = {"info", "reading"} /\ todo' = {"reading"}
      /\ ~Well' /\ reading' = Ensured(system /\ follow \in {"load", "cpu"})
  BY DEF SystemInfoLost, RefreshInv, Well, Rest, machine
<1>2. Nothing'
  BY <1>1 DEF RefreshInv, Nothing, Absent, Ensured
<1> QED
  BY <1>1, <1>2 DEF RefreshInv, Well

LEMMA InfoRefresh ==
  ASSUME OwnTypeOK, RefreshInv, NEW system \in BOOLEAN, NEW list \in BOOLEAN,
         SystemInfo(system, list)
  PROVE  RefreshInv'
<1>1. /\ follow' = follow /\ virtual' = virtual /\ plugged' = plugged
      /\ known' = (known \/ system) /\ isVirtual' = (known' /\ virtual)
      /\ interface' = (interface \/ list) /\ upsGraphs' = upsGraphs
      /\ answered' = (answered /\ system /\ list)
      /\ todo = {"info", "reading"} /\ todo' = {"reading"} /\ ~Well'
      /\ reading' = Ensured(\/ system /\ follow \in {"load", "cpu"}
                            \/ list /\ follow = "interface")
  BY DEF SystemInfo, RefreshInv, Well, Rest, machine
<1>2. Nothing'
  BY <1>1 DEF RefreshInv, Nothing, Absent, Ensured
<1>3. ASSUME system, follow = "uptime" PROVE Near'
  <2>1. lag' = 0 /\ shown' = Moved(shown, 0)
    BY <1>3, <1>1 DEF SystemInfo
  <2>2. shown # None => shown \in Int
    BY ReadingsAssumption DEF OwnTypeOK
  <2>3. Tolerance \in Nat
    BY ReadingsAssumption
  <2>7. 0 # None
    BY NoneAssumption
  <2>4. CASE shown # None /\ shown \in -Tolerance..Tolerance
    BY <2>1, <2>2, <2>3, <2>4 DEF Moved, Near
  <2>5. CASE shown # None /\ shown \notin -Tolerance..Tolerance
    <3>1. 0 - shown > Tolerance \/ shown - 0 > Tolerance
      BY <2>2, <2>3, <2>5
    <3>2. shown' = 0
      BY <2>1, <3>1 DEF Moved
    <3> QED
      BY <2>3, <2>7, <3>2 DEF Near
  <2>6. CASE shown = None
    BY <2>1, <2>3, <2>6, <2>7 DEF Moved, Near
  <2> QED
    BY <2>4, <2>5, <2>6
<1>4. answered' => Known'
  <2> SUFFICES ASSUME answered' PROVE Known'
    OBVIOUS
  <2>1. system /\ list
    BY <1>1
  <2>2. known' /\ interface'
    BY <1>1, <2>1
  <2>3. virtual \in BOOLEAN /\ isVirtual' = virtual'
    BY <1>1, <2>2 DEF OwnTypeOK
  <2> QED
    BY <1>1, <1>3, <2>1, <2>2, <2>3 DEF Known
<1> QED
  BY <1>1, <1>2, <1>4 DEF RefreshInv, Well

\* The getters that are followed.
LEMMA StatsRefresh ==
  ASSUME TypeOK, RefreshInv, NEW outcome, GetSystemStats(outcome)
  PROVE  RefreshInv'
<1> DEFINE ok == Asked => outcome = "data"
<1>1. Asked \in BOOLEAN /\ ok \in BOOLEAN /\ Runs(Asked, ok)
  BY DEF GetSystemStats, Asked
<1>2. /\ follow' = follow /\ virtual' = virtual /\ plugged' = plugged
      /\ isVirtual' = isVirtual /\ upsGraphs' = upsGraphs /\ follow \in Graphs
  BY <1>1 DEF Runs, GetSystemStats, machine, info
<1>3. follow = "cputemp" /\ virtual => reading' = reading
  BY DEF GetSystemStats, Graphs
<1>4. Nothing'
  BY <1>2, <1>3 DEF RefreshInv, Nothing, Absent, Graphs
<1>5. ASSUME ~Absent, answered, ok, cooling' = 0
      PROVE  reading' \in {Served(v) : v \in Values}
  <2>1. todo = {"reading"}
    BY <1>1 DEF Runs, Turn
  <2>2. Known
    BY <1>2, <1>5, <2>1 DEF RefreshInv, Graphs
  <2>3. CASE ~Asked
    <3>1. cooling = 0
      BY <1>5, <2>3 DEF GetSystemStats
    <3> QED
      BY <1>2, <1>5, <2>2, <2>3, <3>1 DEF Asked, Known, Absent
  <2>4. CASE Asked
    BY <1>5, <2>4 DEF GetSystemStats, TypeOK
  <2> QED
    BY <2>3, <2>4
<1> HIDE DEF ok
<1> QED
  BY <1>1, <1>4, <1>5, RunsRefresh

LEMMA UpsRefresh ==
  ASSUME TypeOK, OwnTypeOK, RefreshInv, NEW list \in BOOLEAN, NEW data \in BOOLEAN,
         GetUps(list, data)
  PROVE  RefreshInv'
<1> DEFINE asked == upsGraphs # "none"
           ok == (upsGraphs = "unknown" => list) /\ (upsGraphs' = "some" => data)
<1>0. OwnTypeOK
  OBVIOUS
<1>1. asked \in BOOLEAN /\ ok \in BOOLEAN /\ Runs(asked, ok) /\ follow = "ups"
  BY DEF GetUps
<1>2. /\ follow' = follow /\ virtual' = virtual /\ plugged' = plugged
      /\ isVirtual' = isVirtual
  BY <1>1 DEF Runs, machine, info
<1>3. /\ upsGraphs' = "some" => plugged
      /\ upsGraphs' = "none" => ~plugged
  <2>1. CASE upsGraphs = "unknown"
    BY <2>1 DEF GetUps, UpsDiscovered
  <2>2. CASE upsGraphs # "unknown"
    BY <2>2 DEF GetUps, RefreshInv, Nothing
  <2> QED
    BY <2>1, <2>2
<1>4. Nothing'
  <2>1. ~plugged => reading' = reading
    BY <1>3 DEF GetUps
  <2> QED
    BY <1>1, <1>2, <1>3, <2>1 DEF RefreshInv, Nothing, Absent
<1>5. ASSUME ~Absent, ok PROVE reading' \in {Served(v) : v \in Values}
  <2>1. plugged /\ upsGraphs' # "none"
    BY <1>1, <1>3, <1>5 DEF Absent
  <2>2. CASE upsGraphs = "unknown"
    <3>1. upsGraphs' = "some"
      BY <1>5, <2>1, <2>2 DEF GetUps, UpsDiscovered
    <3> QED
      BY <1>5, <3>1 DEF GetUps, TypeOK
  <2>3. CASE upsGraphs # "unknown"
    <3>1. upsGraphs' = upsGraphs
      BY <2>3 DEF GetUps
    <3>2. upsGraphs' = "some"
      BY <1>0, <2>1, <2>3, <3>1 DEF OwnTypeOK
    <3> QED
      BY <1>5, <3>2 DEF GetUps, TypeOK
  <2> QED
    BY <2>2, <2>3
<1> HIDE DEF asked, ok
<1> QED
  BY <1>1, <1>4, <1>5, RunsRefresh

LEMMA OthersRefresh ==
  ASSUME TypeOK, RefreshInv, NEW yes \in BOOLEAN, NEW also \in BOOLEAN,
         GetAlerts(yes) \/ GetDirectory(yes, also) \/ GetService(yes)
  PROVE  RefreshInv'
<1> DEFINE ok == IF follow = "directory" THEN yes /\ also ELSE yes
<1>1. Runs(TRUE, ok) /\ ok \in BOOLEAN /\ follow \notin {"uptime", "cputemp", "ups"}
  BY DEF GetAlerts, GetDirectory, GetService
<1>2. /\ follow' = follow /\ virtual' = virtual /\ plugged' = plugged
      /\ isVirtual' = isVirtual /\ upsGraphs' = upsGraphs
  BY <1>1 DEF Runs, machine, info, GetAlerts, GetDirectory, GetService
<1>3. Nothing'
  BY <1>1, <1>2 DEF RefreshInv, Nothing, Absent
<1>4. ok => reading' \in {Served(v) : v \in Values}
  BY DEF GetAlerts, GetDirectory, GetService, Parsed, TypeOK
<1> HIDE DEF ok
<1> QED
  BY <1>1, <1>3, <1>4, RunsRefresh

\* Every step keeps it.
LEMMA NextRefresh ==
  ASSUME ReadingsInv, RefreshInv, [ReadingsNext]_all
  PROVE  RefreshInv'
<1>0. TypeOK /\ OwnTypeOK
  BY DEF ReadingsInv, FiguresInv
<1>1. CASE UNCHANGED all
  <2>1. UNCHANGED readings /\ phase' = phase /\ good' = good
    BY <1>1 DEF all, vars
  <2> QED
    BY <2>1, SameRefresh DEF Well, Rest
<1>2. CASE follow = "figures" /\ ReadingsNext
  BY <1>2 DEF ReadingsNext, RefreshInv, Nothing, Absent, readings, machine, info,
              uptime, values
<1>3. CASE Begin
  <2>1. follow' = follow /\ answered' = TRUE /\ todo' = {"info", "reading"} /\ ~Well'
    BY <1>3 DEF Begin, Wake, Goto, machine, Well, Rest
  <2>2. Nothing'
    BY <1>3 DEF Begin, RefreshInv, Nothing, Absent, machine, info
  <2> QED
    BY <2>1, <2>2 DEF RefreshInv, Well
<1>4. CASE Reboot
  <2>1. /\ follow' = follow /\ answered' = FALSE /\ todo' = todo /\ Nothing'
        /\ Well' = Well
    BY <1>4 DEF Reboot, machine, info, values, RefreshInv, Nothing, Absent, Well, Rest
  <2> QED
    BY <2>1 DEF RefreshInv, Well
<1>5. CASE AllRead
  <2>1. todo = {} /\ UNCHANGED readings /\ UNCHANGED good
    BY <1>5 DEF AllRead
  <2>2. UNCHANGED <<follow, todo, answered, cooling>> /\ Nothing'
    BY <2>1 DEF RefreshInv, Nothing, Absent, readings, machine, info, values
  <2>3. (Known => Known') /\ (Shows({Served(v) : v \in Values})
                               => Shows({Served(v) : v \in Values})')
    BY <2>1 DEF Known, Near, Shows, Absent, Served, readings, machine, info, uptime, values
  <2> QED
    BY <2>1, <2>2, <2>3 DEF RefreshInv
<1>6. CASE (Connect \/ ConnectFails \/ Verdict) /\ UNCHANGED readings
  BY <1>6, SameRefresh DEF Connect, ConnectFails, Verdict, Goto, Well, Rest
<1>7. CASE (Change \/ Drop \/ Reconnect) /\ UNCHANGED readings
  BY <1>7, SameRefresh DEF Change, Drop, Reconnect, Well, Rest
<1>8. CASE NoReading
  <2>1. Runs(FALSE, TRUE) /\ follow = "uptime" /\ UNCHANGED values
    BY <1>8 DEF NoReading
  <2>2. Nothing'
    BY <2>1 DEF Runs, RefreshInv, Nothing, Absent, machine, info, values
  <2> QED
    BY <2>1, <2>2, RunsRefresh
<1> QED
  BY <1>0, <1>1, <1>2, <1>3, <1>4, <1>5, <1>6, <1>7, <1>8,
     InfoLostRefresh, InfoRefresh, StatsRefresh, UpsRefresh, OthersRefresh
     DEF ReadingsNext, Refresh, Getter

LEMMA RefreshIsComplete == RefreshInv => CompleteRefresh
  BY DEF RefreshInv, CompleteRefresh

-----------------------------------------------------------------------------
\* Every reading is of its type, the boot time shown included: it does not leave
\* the range of what reboots and the time between two polls can make of it.
THEOREM ReadingsTypeCorrect == ReadingsSpec => []ReadingsTypeOK
<1>1. ReadingsInv => ReadingsTypeOK
  BY DEF ReadingsInv, FiguresInv, ReadingsTypeOK
<1>2. ReadingsInv /\ [ReadingsNext]_all => ReadingsInv'
  BY NextReadings
<1> QED
  BY <1>1, <1>2, InitReadings, PTL DEF ReadingsSpec

\* A refresh in which everything was answered and no graph was left out leaves a
\* reading, the first one too: get_systemstats and get_ups only rely on what
\* get_systeminfo or an earlier refresh found out when it was found out.
THEOREM CompleteRefreshShows == ReadingsSpec => []CompleteRefresh
<1>1. ReadingsInit => ReadingsInv /\ RefreshInv
  BY InitReadings, InitRefresh
<1>2. ReadingsInv /\ RefreshInv /\ [ReadingsNext]_all => (ReadingsInv /\ RefreshInv)'
  BY NextReadings, NextRefresh
<1> QED
  BY <1>1, <1>2, RefreshIsComplete, PTL DEF ReadingsSpec

\* PoolAgrees of the whole refresh, get_systeminfo and the other getters included.
THEOREM ReadingsPoolAgrees ==
  ASSUME Others = FALSE
  PROVE  ReadingsSpec => []PoolFollowsDataset
<1>1. ReadingsInit => FollowInv
  BY InitFigures, InitPool DEF ReadingsInit, FollowInv, Init
<1>2. FollowInv /\ [ReadingsNext]_all => FollowInv'
  BY ReadingsFollow
<1>3. FollowInv => PoolFollowsDataset
  BY DEF FollowInv, PoolInv, PoolFollowsDataset
<1> QED
  BY <1>1, <1>2, <1>3, PTL DEF ReadingsSpec
=============================================================================
