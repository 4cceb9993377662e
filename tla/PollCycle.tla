------------------------------- MODULE PollCycle -------------------------------
(***************************************************************************)
(* The scheduled refresh (_async_update_data): reconnect, run the getters, *)
(* then get_pool, then the verdict that makes the entities available.      *)
(* Four groups stand for the ways a getter keeps, converts or combines     *)
(* what it read in earlier polls: datasets are read anew, a pool takes its *)
(* figures from its root dataset, a guest (VM or container) is converted   *)
(* in place, a disk temperature has two sources.                           *)
(*                                                                         *)
(* What the server would report is one value, now; every figure is a       *)
(* function of it.  No answer stands for an error answer, which keeps the  *)
(* connection, and for a query without one, which ends it; a query without *)
(* a connection first tries to make one (query).                           *)
(*                                                                         *)
(* Abstracted: the getters of the other groups (see Readings), exceptions  *)
(* (each getter's are caught), refreshes that overlap (see TaskRuns and    *)
(* SystemUpdate), and all columns but those below.                         *)
(***************************************************************************)
EXTENDS Naturals

CONSTANTS
  Cap,     \* what a pool's root dataset can hold
  Values,  \* what is used of it
  Parity,  \* raw bytes of the pool per usable byte
  Unit,    \* what get_vm and get_container divide memory by
  None,    \* no row
  Unread,  \* a row without a temperature
  Others   \* may somebody else query while get_pool and the verdict run?

ASSUME SizeAssumption == Cap \in Nat /\ Parity \in Nat \ {0} /\ Values \subseteq 0..Cap
ASSUME OthersAssumption == Others \in BOOLEAN
ASSUME UnitAssumption == Unit \in Nat \ {0}

VARIABLES
  now,        \* server: what it would report
  source,     \* server: who reads the disk's temperature besides disk.temperatures
  monitored,  \* options: is the dataset group monitored?
  connected,  \* api.connected()
  good,       \* last_update_success
  phase,      \* where the refresh is
  at,         \* the next step of each getter under gather
  dataset,    \* ds["dataset"]: the pool's root dataset, or None
  pool,       \* ds["pool"]: the pool, or None
  guest,      \* ds["vm"], ds["container"]: the memory of a guest, or None
  disk,       \* ds["disk"]: a disk's temperature, Unread, or None
  graph       \* _disk_temp_graph: "unknown", "absent" or "found"

environment == <<now, source, monitored>>
rows == <<dataset, pool, guest, disk, graph>>
vars == <<environment, connected, good, phase, at, rows>>

Getters == {"dataset", "guest", "disk"}
First   == [dataset |-> "query", guest |-> "query", disk |-> "query"]
Through == [g \in Getters |-> "done"]

Root(v)  == [available |-> Cap - v, used |-> v]
Figures  == {"size", "allocated", "free", "available", "total"}
Memory(v) == v + 1

TypeOK ==
  /\ now \in Values /\ source \in {"netdata", "otherDisks", "none"}
  /\ monitored \in BOOLEAN /\ connected \in BOOLEAN /\ good \in BOOLEAN
  /\ phase \in {"idle", "connect", "gather", "pool", "capacity", "verdict"}
  /\ at \in [Getters -> {"query", "netdata", "fallback", "done"}]
  /\ dataset \in {Root(v) : v \in Values} \cup {None}
  /\ pool # None => pool \in [Figures -> 0..(Parity * Cap)]
  /\ guest \in 0..Memory(Cap) \cup {None}
  /\ disk \in Values \cup {Unread, None}
  /\ graph \in {"unknown", "absent", "found"}

Init ==
  /\ now \in Values /\ source \in {"netdata", "otherDisks", "none"}
  /\ monitored \in BOOLEAN
  /\ connected = FALSE /\ good = FALSE /\ phase = "idle" /\ at = Through
  /\ dataset = None /\ pool = None /\ guest = None /\ disk = None
  /\ graph = "unknown"

-----------------------------------------------------------------------------
\* The environment: the server changes; another caller's query finds the
\* connection broken, or makes a new one.

Change == now' \in Values \ {now}
          /\ UNCHANGED <<source, monitored, connected, good, phase, at, rows>>

Drop == connected /\ connected' = FALSE
        /\ UNCHANGED <<environment, good, phase, at, rows>>

\* Under gather the getters' own queries connect again (Step).
Reconnect == ~connected /\ connected' = TRUE
             /\ (phase = "idle" \/ Others)
             /\ UNCHANGED <<environment, good, phase, at, rows>>

-----------------------------------------------------------------------------
\* _async_update_data

Goto(p) == phase' = p

Wake ==
  /\ phase = "idle"
  /\ IF connected THEN Goto("gather") /\ at' = First
                  ELSE Goto("connect") /\ UNCHANGED at
  /\ UNCHANGED <<environment, connected, good, rows>>

Connect ==
  /\ phase = "connect"
  /\ connected' = TRUE /\ Goto("gather") /\ at' = First
  /\ UNCHANGED <<environment, good, rows>>

\* connect() raises, or returns without a connection: UpdateFailed either way.
ConnectFails ==
  /\ phase = "connect"
  /\ good' = FALSE /\ Goto("idle")
  /\ UNCHANGED <<environment, connected, at, rows>>

\* get_pool relies on dataset data, so it runs after gather completes.
Gathered ==
  /\ phase = "gather" /\ at = Through
  /\ Goto(IF connected THEN "pool" ELSE "verdict")
  /\ UNCHANGED <<environment, connected, good, at, rows>>

Verdict ==
  /\ phase = "verdict"
  /\ good' = connected /\ Goto("idle")
  /\ UNCHANGED <<environment, connected, at, rows>>

-----------------------------------------------------------------------------
\* api.query: an answer shows that there is a connection, no answer nothing.
Asks(answer) == connected' \in IF answer THEN {TRUE} ELSE BOOLEAN

\* The getters under gather: each in an executor thread, one step per query.

Step(g, here, next, answer) ==
  /\ phase = "gather" /\ at[g] = here
  /\ Asks(answer)
  /\ at' = [at EXCEPT ![g] = next]
  /\ UNCHANGED <<environment, good, phase>>

\* get_dataset: rebuilt from nothing; None when nothing answers or the group is
\* not monitored.
GetDataset(answer) ==
  /\ Step("dataset", "query", "done", answer)
  /\ dataset' = IF monitored /\ answer THEN Root(now) ELSE None
  /\ UNCHANGED <<pool, guest, disk, graph>>

\* Variant of Parsed: rows that are known keep their values.
ParsedNew(row, answer, reported) == IF answer /\ row = None THEN reported ELSE row

\* parse_api with a key: no answer leaves the rows as they are.
Parsed(row, answer, reported) == IF answer THEN reported ELSE row

\* Variant of Convert: the memory is left as it was reported.
ConvertNot(m) == m

\* round(memory / Unit): to the nearest, and a half to the even one.
Convert(m) ==
  LET q == m \div Unit
      r == m % Unit
  IN IF 2 * r > Unit \/ (2 * r = Unit /\ q % 2 = 1) THEN q + 1 ELSE q

\* get_vm, get_container: every row is converted, whether or not it was read again.
GetGuest(answer) ==
  /\ Step("guest", "query", "done", answer)
  /\ LET row == Parsed(guest, answer, Unit * Memory(now))
     IN guest' = IF row = None THEN None ELSE Convert(row)
  /\ UNCHANGED <<dataset, pool, disk, graph>>

\* get_disk: a new row has no temperature yet.
GetDisk(answer) ==
  /\ Step("disk", "query", "netdata", answer)
  /\ disk' = IF disk = None /\ answer THEN Unread ELSE disk
  /\ UNCHANGED <<dataset, pool, guest, graph>>

\* _discover_disk_temp_graph: asked once; a failure counts as no graph.
Discovered(answer) ==
  IF graph # "unknown" THEN graph
  ELSE IF answer /\ source # "none" THEN "found" ELSE "absent"

\* _disk_temps_from_netdata, _apply_netdata_disk_temps
Netdata(list, data) ==
  /\ Step("disk", "netdata", "fallback", list \/ data)
  /\ graph' = Discovered(list)
  /\ disk' = IF graph' = "found" /\ data /\ source = "netdata" /\ disk # None
             THEN now ELSE disk
  /\ UNCHANGED <<dataset, pool, guest>>

\* _fallback_disk_temperatures: for the disks that have no temperature.
Fallback(answer) ==
  /\ Step("disk", "fallback", "done", answer)
  /\ disk' = IF disk = Unread /\ answer THEN now ELSE disk
  /\ UNCHANGED <<dataset, pool, guest, graph>>

-----------------------------------------------------------------------------
\* get_pool

\* The columns of pool.query; available and total are only ensured to be there.
Reported(p, v) ==
  [size |-> Parity * Cap, allocated |-> Parity * v, free |-> Parity * (Cap - v),
   available |-> IF p = None THEN 0 ELSE p.available,
   total |-> IF p = None THEN 0 ELSE p.total]

\* Variant of GetPool: nothing is done for a pool that was not read again.
GetPoolStops(answer) ==
  /\ phase = "pool" /\ Asks(answer)
  /\ pool' = Parsed(pool, answer, Reported(pool, now))
  /\ Goto(IF answer THEN "capacity" ELSE "verdict")
  /\ UNCHANGED <<environment, good, at, dataset, guest, disk, graph>>

\* pool.query; without a connection get_pool leaves it at that.
GetPool(answer) ==
  /\ phase = "pool" /\ Asks(answer)
  /\ pool' = Parsed(pool, answer, Reported(pool, now))
  /\ Goto(IF connected' THEN "capacity" ELSE "verdict")
  /\ UNCHANGED <<environment, good, at, dataset, guest, disk, graph>>

\* _apply_pool_capacity with a root dataset: its figures replace the pool's own.
FromDataset(p, d) ==
  LET total == d.available + d.used
  IN [size |-> total, allocated |-> d.used, free |-> p.free,
      available |-> d.available, total |-> total]

\* Without: the pool's own free and size.
FromPool(p) ==
  [p EXCEPT !.available = p.free,
            !.total = IF p.size # 0 THEN p.size ELSE p.allocated + p.free]

\* boot.get_state, asked for the boot pool (which, like a pool without a dataset,
\* shows its own figures), then _apply_pool_capacity.
Capacity(answer) ==
  /\ phase = "capacity" /\ Asks(answer)
  /\ pool' = IF pool = None THEN None
             ELSE IF dataset = None THEN FromPool(pool) ELSE FromDataset(pool, dataset)
  /\ Goto("verdict")
  /\ UNCHANGED <<environment, good, at, dataset, guest, disk, graph>>

-----------------------------------------------------------------------------
Query(answer) == GetDataset(answer) \/ GetGuest(answer) \/ GetDisk(answer)
                 \/ Fallback(answer) \/ GetPool(answer) \/ Capacity(answer)

Answered == Query(TRUE) \/ Netdata(TRUE, TRUE) \/ Connect
Failed   == \/ Query(FALSE) \/ ConnectFails
            \/ Netdata(FALSE, TRUE) \/ Netdata(TRUE, FALSE) \/ Netdata(FALSE, FALSE)

Poll == Wake \/ Answered \/ Failed \/ Gathered \/ Verdict

Next == Change \/ Drop \/ Reconnect \/ Poll

Spec == Init /\ [][Next]_vars

\* The poll recurs and every query of it returns, if only after its timeout.
Fairness == WF_vars(Poll)
FairSpec == Spec /\ Fairness

-----------------------------------------------------------------------------
Rest == phase = "idle" /\ good

\* The pool shows the figures of its root dataset, and no mixture with its raw ones.
Agrees == /\ pool.available = dataset.available /\ pool.allocated = dataset.used
          /\ pool.total = dataset.available + dataset.used /\ pool.size = pool.total

\* After a refresh that succeeded, whatever failed in it, a pool whose root dataset
\* is known agrees with it ("matching the figures shown in the TrueNAS UI",
\* _apply_pool_capacity).  Nobody else connects again between get_pool and the
\* verdict: the refresh would count as successful although it left get_pool early.
PoolFollowsDataset == Rest /\ pool # None /\ dataset # None => Agrees

\* What makes it inductive: it holds from Capacity on, as long as the refresh may
\* still succeed; a connection that pool.query lost is not made again (Others).
PoolInv ==
  \/ pool = None \/ dataset = None \/ Agrees
  \/ ~Rest /\ ~(phase = "verdict" /\ connected)

\* The size of a pool is that of its dataset or its own: none but an empty one is 0.
SizeInv == pool # None => pool.size \in {Cap, Parity * Cap}

\* A pool never has more available than there is in total: what the usage in
\* percent is computed from.
AvailableFits == Rest /\ pool # None => pool.available <= pool.total

\* The server rests, and everything is answered (or the answer is not used).
Calm == ~Change /\ ~Drop /\ (Failed => Answered)

PoolShows ==
  pool # None /\ IF monitored
                 THEN pool.available = Root(now).available /\ pool.total = Cap
                 ELSE pool.available = Parity * (Cap - now) /\ pool.total = Parity * Cap

\* Once nothing fails or changes, the rows show the server again, whatever mixture
\* of old, lost and converted values the failures before left in them; a disk does
\* not stay without a temperature that disk.temperatures would give.
Settles ==
  <>[][Calm]_vars =>
    <>[](Rest => /\ PoolShows
                 /\ guest = Memory(now)
                 /\ disk # Unread
                 /\ graph = "found" /\ source = "netdata" => disk = now)

\* Once nothing fails or changes, the temperature shown is the disk's: "update disk
\* temperatures from netdata and fallback to API" (_update_disk_temperatures).
TemperatureCurrent == <>[][Calm]_vars => <>[](Rest => disk = now)
=============================================================================
