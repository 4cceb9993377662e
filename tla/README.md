# TLA+ verification of the TrueNAS integration for Home Assistant

Models, model checks and proofs of `custom_components/truenas`, the Home Assistant
integration that polls a TrueNAS server over one WebSocket, shows what it finds as
entities, and starts jobs on the server. Paths below are relative to
`src/custom_components/truenas/`; line numbers are those of the commit the project
is kept beside. `PROJECT.json` maps every definition that models code to its lines.

    tlasany M.tla                             parse a module
    tlc -workers 2 -config X.cfg M            check one configuration
    tlapm M_proofs.tla                        check the proofs of a module

## 1. The system

| Component | State | Operations | Talks to |
|---|---|---|---|
| WebSocket client, `api.py` | `_ws`, `_connected`, `_error`, `_closed`, two re-entrant locks | `connect`, `query`, `disconnect`, `reconnect`, `connection_test`, `close` | called from executor threads by everything below |
| Coordinator, poll cycle, `coordinator.py:408` | `ds`, one dict per group; caches of graph names | `_async_update_data`: reconnect, `get_systeminfo`, the gathered getters, `get_pool`, update check, statistics | the client; Home Assistant's scheduler; entities are notified of each result |
| Getters, `coordinator.py` | one group of `ds` each | parse an answer into rows, convert and combine columns | client, `apiparser.py` |
| Answer parser, `apiparser.py` | none; edits the rows it is given | `parse_api` | the getters |
| Dataset services, `sensor.py:160` | the entity's row, a job on the server | `lock`, `unlock`: refresh, check, start a job, wait, refresh | client, coordinator |
| Task actions and buttons, `sensor.py:346`, `button.py` | the optimistic RUNNING in the row | `start`, `stop`, press | client, coordinator |
| System update, `update.py`, `coordinator.py:613, 754-850` | `update_*` columns of `ds["system_info"]` | install, progress of the job, check | client; the job reboots the server |
| App update, `update.py`, `coordinator.py:2020-2110` | `update_jobid` of an app's row | install, forget finished jobs | client |
| Orphaned statistics, `coordinator.py:476`, `repairs.py` | `orphaned_statistics`, a Repairs issue, an option | detect at each poll, clear, ignore | recorder, entity registry, options form |
| Entities, `entity.py` and platforms | copy of a row | discovery at each refresh, actions | coordinator, registry |
| Set-up and clean-up, `__init__.py` | registry entries | set up, unload, reload, remove orphans | coordinator, registry |
| Config and options flow, `config_flow.py` | entry data and options | user, reconfigure, options | client |

What makes it hard:

* **Threads.** The event loop runs entities, services and the coordinator; every
  query runs in an executor thread. One client is used by up to 17 threads at once.
* **Overlap.** Home Assistant debounces its own refresh requests, but services call
  `async_refresh` directly, so two refreshes can read and write the same rows.
* **Failure.** A query answers `None` for an error answer, a timeout or no
  connection. Some getters keep the old rows then, some empty the group, some zero
  it; conversions run on kept rows again.
* **Jobs.** Locks, updates and tasks are jobs on the server that outlive the call
  that started them, that a reboot forgets, and that other users start too.
* **Stale reads.** Guards ("is it already running?") read the row of the last poll.

What makes each part correct: a call reads its own answer and leaves no connection
behind (client); `done` means the job succeeded (dataset); one job at a time and no
RUNNING that stays (tasks); progress that is shown is tracked and clears (updates);
what is deleted is an orphan and ignored means quiet (statistics); rows recover from
any failure and never mix two sources (poll). `PROJECT.json` lists the hazards line
by line with the properties that would catch them.

## 2. The modules

| Module | Models | State and steps against the code |
|---|---|---|
| `TrueNASAPI` | `api.py` | A thread has a `pc`; a section under `_lock` is one step, `_io_lock` is `ioOwner`. Each `recv`, `send`, handshake and lock is a step of its own, so are the three outcomes of a wait (answer, timeout, exception). `disconnect` is called from every error path and returns to `after`. |
| `RpcChannel` | what the client promises (abstract) | One line that is down, free or owes an answer; a caller is idle, calling, in an exchange, waiting or answered. `TrueNASAPI` maps `ws`, `pending` and the `pc`s onto it (`LineOf`, `PhaseOf`). |
| `MCTrueNASAPI`, `MCClient` | instances | which thread calls what; `MCClient` puts three uses of a client (config flow, two polls, poll and unload) into one run |
| `TrueNASAPI_proofs` | theorems | the client of any number of threads, undisturbed or not, of one thread, and the refinement |
| `DatasetLock` | `sensor.py:160-344`, `get_dataset`, the notification of entities | A refresh is query, write, notify; a call is refresh, check, request, wait, refresh. Server jobs end at any time, in any way. |
| `DatasetHistory` | the same, with a history variable | `doubt` records what may mislead the check of a call: an answer that was in flight when it began, a change of the dataset, an empty answer, the loss of its own. It is set in each step to what the step says, and restricts none. |
| `MCDatasetLock`, `DatasetLock_proofs` | instances, theorems | of `DatasetLock` and of `DatasetHistory` |
| `TaskRuns` | `*_run`/`*_stop` actions, run buttons, `async_run_task`, `set_optimistic_running`, four getters | One task; a coroutine is suspended at each query; `get_replication`'s loop is three steps of its thread. `cut` (history) says whether a poll wrote while another was about to drop `job_state`. |
| `MCTaskRuns`, `TaskRuns_proofs` | instances, theorems | |
| `AppUpdate` | `update.py:115-174`, `get_app`, `_clear_finished_app_updates` | Jobs by id on the server; the row keeps one id. `doubted` (history) says whether refreshes overlapped or an answer about a job was lost. |
| `SystemUpdate` | `update.py`, `get_systeminfo`'s job progress, `get_updatecheck` | Versions are numbers; a finished job reboots the server, which forgets its jobs. |
| `AppUpdate_proofs`, `SystemUpdate_proofs` | theorems | |
| `Statistics` | `coordinator.py:476-612`, `repairs.py`, the options form's save | A detection is suspended while the recorder lists; a deletion is queued. Its names begin with `Stat` where `ConfigFlow` has the same, because one module proves about both. |
| `PollCycle` | `_async_update_data`, `get_dataset`, `get_pool`, `get_vm`, `get_container`, `get_disk`, `parse_api` per row | One poll at a time, one step per getter, but one per query for a disk (three) and for the pools (`pool.query`; `boot.get_state` with the capacities). A query of a dropped client connects again, as `query` does, and `Others` says whether calls outside the poll may do so too. |
| `Readings` | `get_systeminfo` before the gather, `_update_uptime`, `get_systemstats` with its cool-down, `get_ups`, `get_alerts`, `get_smb`, `get_directoryservices`, `get_service` | Extends `PollCycle`: the same refresh, with the getters that share nothing with its rows. A behaviour follows one of them (`follow`), or `PollCycle`'s. |
| `Readings_proofs` | theorems | `PollCycle` alone, and the whole refresh |
| `Entities` | `__init__.py` set-up, clean-up, reload and unload; discovery in `entity.py` and the platforms | One description (`kind`) and its objects. A set-up is first refresh, sweep, platform, loaded; a discovery waits for the lock, collects, adds. |
| `Entities_proofs` | theorems | |
| `ConfigFlow` | `config_flow.py`: the user and reconfigure steps | A flow is at its form or testing; the test runs in a thread while other flows go on. |
| `MCConfigFlow`, `Flows_proofs` | instances, theorems | the forms a user fills in: `ConfigFlow`, and the Repairs flow of `Statistics` |

The modules share the server and the client only through the answers: a query is
answered, answered with an error, or lost. That a call gets its own answer or none
is what `TrueNASAPI` shows by implementing `RpcChannel`, and what lets the other
modules treat a query as a step.

"Variant" operators in the modules are altered forms of the operator after them
(a dropped guard, a missing reset). They are not used by a specification:
`PROJECT.json` pairs each with a property that TLC finds violated when it is put in
the operator's place, which shows that the property depends on that code.

## 3. The runs

| Run | Instance | Properties | States |
|---|---|---|---|
| `api_client` | the config flow's thread with every method and 3 sockets; two polling threads; a polling thread and the unload; 2 sockets each | `TypeOK`, `RequestSocketIsCurrent`, `NoStaleAnswer`, `ImplementsChannel`, `UndisturbedIsSafe`, `EveryCallReturns`; of the config flow `FlowTestVerdict` | 138 k |
| `api_close_race` | one polling thread and `close` | `ClosedForGood` is violated | |
| `dataset_lock` | one caller that locks and unlocks, the poll, lost answers, limit of 2 missing answers | `TypeOK`, `DoneIsDone`, `AlreadyIsRight`, `EveryCallEnds`, `ShowsTruth` | 44 k |
| `task_runs` | a cloudsync with one caller and two polls; a replication with two callers, a schedule and two polls; 2 jobs | `TypeOK`, `NoSecondJob`, `KnownAtRest`, `RunningClears` | 396 k |
| `app_live` | one caller, the poll, 3 jobs, lost answers | `TypeOK`, `ProgressClears`, `ForgetsWhatEnded` | 151 k |
| `sys_updates` | one caller, the poll, 2 versions, 2 jobs, reboots, lost answers | `TypeOK`, `ShownIsTracked`, `ProgressClears`, `ShowsVersions` | 52 k |
| `stat_orphans` | 2 ids, 2 overlapping detections | `StatTypeOK`, `IgnoredIsQuiet`, `ShowsOrphans` | 57 k |
| `stat_ignore` | 1 id, 1 detection | `DoNotNotifyAgain` is violated | |
| `poll_cycle` | `Readings`: 2 values; the rows of `PollCycle` with 3 kinds of temperature source and the dataset group monitored or not; or one of the other getters, with reboots | `ReadingsTypeOK`, `PoolFollowsDataset`, `CompleteRefresh`, `FiguresSettle`, `ReadingsSettle` | 380 k |
| `poll_temperature` | `PollCycle` alone | `TemperatureCurrent` is violated | |
| `entities_life` | 2 objects, 2 overlapping discoveries, 4 kinds of description; restarts, reloads, lost answers, user changes of the registry | `TypeOK`, `NeverReAdded`, `DisabledGroupIsGone`, `CleanUpKeepsTheLiving`, `OrphansGo`, `EveryObjectShown` | 78 k |
| `config_flow` | 2 flows, 2 entries, 2 names, 2 hosts, 2 keys and the blank one | `TypeOK`, `SavedWasTested`, `NamesDiffer` | 196 k |

**What they show.** Whatever the interleaving of polling threads and an unload, a
request keeps the socket it was sent on and its answer cannot be taken for another's:
the client is a channel on which each call meets its own answer or the end of the
line, and no call hangs. As long as nobody reconnects, disconnects or closes while a
thread reconnects, the client never leaks a connection, is connected only with a
socket, queries only after a login and stays closed; and used by one thread,
`connection_test` never says yes without a login. A dataset call that returns done
ran a job that succeeded, it returns even if its job never ends, and one that returns
"already" is right about the dataset unless one of four things happened during its
refresh. A cloudsync
start never queues a second job while nobody else starts the task; RUNNING is not
shown for ever after a refused trigger or an overtaken poll. Update progress clears
after a reboot has made the job vanish; an app's upgrade is only forgotten when it has
ended, while refreshes come one by one and are answered. An ignored statistics issue stays away
however detections overlap. A pool never mixes its dataset's figures with raw ones;
after any series of refused queries the rows recover, graphs that failed are asked
for again, the boot time follows a reboot, and a first refresh that loses nothing
leaves no reading at its default. The clean-up at set-up keeps what is there and
takes what is gone, whatever query was lost; discoveries that overlap add nothing
twice, and every object comes to be shown. What a flow saves was tested.

**Bounds.** Two threads are enough for every pairwise race on the two locks;
`MCAPI_threads.cfg` (624 k states) has two polls and the unload at once. Two sockets
let one replace the other; the third of the config flow lets a call fail, fail again
and succeed. A dataset call that gives up
leaves its job running into the next call, so one caller already has several jobs
in flight; `Dataset_two_callers.cfg` (1.35 M states) checks the
invariants, `FreshInv` among them, and `AlreadyIsRight` with two, and the proofs cover
any number. `MaxMissing` is 5 in the code; 2 has the first, a
reset and the last of a series. Two task jobs are one more than `NoSecondJob`
allows. Two versions and two jobs have an update, its reboot and a second try. The
`Statuses` that `update.status` reports itself are two without RUNNING, of which the
guards of the code tell no other apart. Two
ids have an orphan and a live entity, and a rename between them. In `PollCycle` two
values distinguish old from current; `Parity` 2 distinguishes raw from usable; `Unit`
8 is more than twice every converted value, so that a second division shows (it
yields 0, as it does in the code up to 512 units; the proofs take any `Unit`). In
`Readings` a cool-down of 2 polls has one in which the graph is left out and one in
which it is asked for again; a `Tolerance` of 1 has a drift that is ignored and one
that is not, `Jump` 3 exceeds both, and `Far` 4 is beyond all that the tolerance
tells apart (`ReadingsAssumption`). In `Entities` two objects have one that is there
and one that is gone, and two discoveries one that adds and one that waits for the
lock. In `ConfigFlow` two flows, entries and values of each kind have every pair that
collides and every pair that does not; they are symmetric. A key left blank is a text
like any other to the user step, and one TrueNAS logs nobody in with (`Accepted`).

**Fairness.** `TrueNASAPI`: a running thread goes on (every wait of the code has a
timeout), and a thread that waits for `_io_lock` gets it if it is free again and
again (strong fairness; CPython's locks give no order but do not starve a waiter for
ever in practice). Elsewhere: queries return (by the client's timeouts, which
`EveryCallReturns` shows), suspended coroutines are resumed, the poll recurs.
Progress properties of tasks, updates and statistics also need queries that are
*answered* again and again (SF on the answering step): a server that never answers
again can clear nothing. `Entities` assumes the same of the first refresh and of later
ones, and that a waiting discovery gets its lock (asyncio hands it over in order, and
refreshes are seconds apart). Nothing is assumed of the server's jobs.
`FiguresSettle`, `ReadingsSettle`, `ShowsTruth` and `ShowsVersions` put it in the
formula instead: they speak of behaviours in which, from some moment on, nothing fails.

**Premises.** They mark where the code's guarantee ends, and what happens beyond is in
section 5.

| Property | Premise |
|---|---|
| `UndisturbedIsSafe` | while a thread is between its handshake and `_connected = True` no other thread reconnects, disconnects or marks the client failed or closed (`Undisturbed`). Nothing in the code enforces it: `connect` takes its lock for single assignments. Beyond it are the hazards of `MCAPI_leak`, `MCAPI_zombie`, `MCAPI_login`, `MCAPI_close_race` |
| `FlowTestVerdict` | one thread uses the client, as in the config flow |
| `AlreadyIsRight` | `~doubt`, and the entity has been notified of the row (`data' = row`). Every part is needed: without any one of them TLC finds a wrong "already" |
| `NoSecondJob` | a cloudsync task, which one caller starts, and no schedule |
| `KnownAtRest` | no poll wrote its answer while another was between its fallback and its drop of `job_state` (`cut`, a history field of the poll, forgotten with its next query); in every other order polls may overlap |
| `ShownIsTracked`, `ProgressClears` of `SystemUpdate` | no overlapping refreshes (`overlapped`, a history variable); `update.status` itself never says RUNNING (`StatusAssumption`): `get_updatecheck` writes whatever status it is told into `update_state` (`coordinator.py:787`), which would show progress without a job; the latter also no still newer version |
| `ForgetsWhatEnded` | no overlapping refreshes, and no lost answer about a job (`doubted`, a history variable) |
| `ShowsOrphans` | the options form is not saved |
| `PoolFollowsDataset` | nobody else connects between `get_pool` and the verdict (`Others = FALSE`) |
| `NamesDiffer` | two flows do not test the same name at once (`raced`, a history variable) |
| `SavedWasTested`, `NamesDiffer` | a form is not submitted again while its test runs (`Resubmits = FALSE`) |
| `DisabledGroupIsGone` | `Rare = {}`: the options do not change during a set-up, the entry is unloaded only when no discovery waits or is adding (`async_unload_entry` does not look), and no refresh comes while it closes; `NeverReAdded` needs only the last two (`busyWhileClosing`) |
| `OrphansGo` | the group has a row or is disabled, and its descriptions are among `_ALL_DESCRIPTIONS` |

`CHECK_DEADLOCK` is never turned off.

## 4. What is proved

For every set of threads, sockets, callers, objects, flows, and every limit (no bound
but the named `ASSUME`s of the modules: the shape of the constants, `None` outside the
others). A premise of the table above that is a constant is the theorem's `ASSUME`.

* `TrueNASAPI_proofs`: `TypeCorrect`, `RequestsKeepTheirSocket`, `AnswersAreOwn`,
  `ClosedStartsNothing`. Neither safety property is inductive: that a request's
  socket is current needs to know which socket a connecting or disconnecting thread
  holds. `IInv` adds `OwnInv` (a socket is current, or in one thread's hands to be
  installed or closed, never two of these, and not closed yet), `LockInv` (a thread
  between its check and its answer owns `_io_lock` and holds the current socket) and
  `PendingInv` (a live current socket owes an answer only to the owner of the lock, or
  to one that is about to abandon it). One lemma per group of actions shows that
  `IInv` is kept; the two properties follow from it. `ClosedStartsNothing` is an
  action property that follows from `EnterConnect`'s early return and the fact that
  the flag is never cleared.
  `ClientImplementsChannel` is the refinement: each action of the client maps to one
  of the channel or to a stutter; `IInv` gives which socket is current, and
  `ExchangeInv` that a thread inside an exchange owns the lock, so that there is at
  most one. `LockIsInUse` turns that round: who owns `_io_lock` is in an exchange or on
  its way out, so no path out of a call keeps the lock.
* `TrueNASAPI_proofs`, any number of threads that do not disturb each other:
  `CalmIsSafe` proves `UndisturbedIsSafe`, the four properties section 5 shows to fail
  when they do (`NoLeak`, `ConnectedHasSocket`, `QueryAfterLogin`, `ClosedForGood`).
  `CalmInv` is inductive over steps that begin and end in an undisturbed state
  (`CalmNext`), together with `IInv`. It says that whoever reconnects finds nothing and
  leaves either nothing or a connection that is logged in, and that whoever disconnects
  leaves nothing (`SocketInv`, `ThreadInv`), and what is left after `close`
  (`CloseInv`). The premise is used for two things only: no other thread installs a
  socket over that of the one which reconnects or takes it down (`NobodyElse`), and
  none reconnects while a thread disconnects (`NobodyReconnects`). `CalmQuiet` disposes
  of the many steps that only move a thread.
* `TrueNASAPI_proofs`, one thread: `OneThreadIsSafe` proves the same four, and
  `TestVerdict`, for a client whose other threads have no calls; `FlowVerdict` is its
  consequence for the config flow of `MCClient`.
  The invariant is `OneInv(p)`: with nobody else about, the `pc` of p determines
  whether there is a current socket, whether it is logged in on and whether
  `_connected` is set (`StateOf`), every open socket is current or in p's hands
  (`LiveOf`), and after `close` nothing is installed (`ClosedOf`). Each of these breaks
  in the run of a second thread.
* `DatasetLock_proofs`: `TypeCorrect`, `DoneMeansSuccess`, `AlreadyMeansRight`.
  `DoneIsDone` rests on `JobInv`: a call waits for a job of its own and begins its last
  refresh when that succeeded; no other caller or late job writes its job.
  `AlreadyIsRight`, an action property of `DatasetHistory`, rests on `FreshInv`: unless
  there is doubt, every answer that some refresh has still to write is true, and so is
  the row once the call's own answer is written. Each refresh moves alone
  (`EveryMove`), and what it writes is an answer that was in flight (`Written`);
  `CheckIsRight` is the step from the row, by the notification, to the verdict.
  `HistoryIsLock` makes the theorems about `DatasetLock` theorems about it.
* `Readings_proofs`, the rows of `PollCycle`: `FiguresTypeCorrect` and `PoolAgrees`.
  The type of a pool's figures is not inductive: the fallback takes its size from the
  row, which `SizeInv` says is the raw or the usable one. `PoolInv` extends `PoolAgrees`
  from the rest after a good refresh back to `Capacity`: until the verdict the
  connection can only be lost, and then the refresh fails. This is where
  `Others = FALSE` is needed.
* `Readings_proofs`, the whole refresh: `ReadingsTypeCorrect`, `CompleteRefreshShows`,
  `ReadingsPoolAgrees`. `RefreshInv` is what `CompleteRefresh` rests on: when every
  query so far was answered, what `get_systeminfo` finds out is known from its step to
  the verdict (`Known`), and a graph or device that is not there was never read
  (`Nothing`). `ReadingsPoolAgrees` is `PoolAgrees` again: a step of `Readings` is a
  step of `PollCycle`, or leaves its rows alone.
* `SystemUpdate_proofs`: `TypeCorrect` and `ProgressIsTracked`. `TrackInv`: unless
  refreshes overlapped there is one (`OneRefresh`), and when it was answered RUNNING the
  id it asked for is still in the row (`AnswerInv`), because only an installation writes
  another one, never 0.
* `AppUpdate_proofs`: `TypeCorrect` and `ForgetsEnded`, an action property that follows
  from `EndedInv`: a refresh that was told of an ended job was told of the job in the
  row, since a new id comes with a refresh of its own, and ended jobs stay ended.
* `TaskRuns_proofs`: `TypeCorrect`, `CloudsyncStartsOnce` (by `JobInv`: a caller that
  was told there is no job is the only one that can make one) and `KnownStaysKnown`
  (by `RowInv`: an unknown row is the doing of a poll that had no state, of one that
  was cut, or of one that will fall back on what it kept, which nobody is about to
  drop). Any number of polls overlap in both.
* `Flows_proofs`, `ConfigFlow`: `TypeCorrect`, also with forms that are submitted twice
  (an entry is always a complete connection, because a flow under test is: `TypeInv`);
  `SavedAreTested`, `NamesAreDifferent`, for any number of overlapping flows. `FlowInv`
  says that the connection under test is the one that will be saved, `NewNames` that
  the names under test are new.
* `Flows_proofs`, `Statistics`: `StatTypeCorrect`, `IgnoredStaysQuiet`, which is
  inductive: the issue is only made in the step that reads the option, and the option
  and the issue change together when it is ignored.
* `Entities_proofs`: `TypeCorrect`; `NothingIsReAdded` by `DiscoveryInv` (one discovery
  holds entities to add, and none outlives its platform); `TheLivingAreKept` and
  `TheGoneAreTaken`, action properties, by `FirstRowsInv` (the first refresh saw
  nothing, or all that has not changed since set-up began); `DisabledIsGone` by
  `DisabledInv` (a disabled group is empty from the first refresh on).

TLC checked each of these invariants on the instances above before it was proved.

Only model-checked: all liveness (fairness and `ENABLED` are outside TLAPS's reach);
that is `EveryCallReturns`, the properties whose names end in Clears, Settle or Ends,
`EveryObjectShown`, `ShowsTruth`, `ShowsVersions` and `ShowsOrphans`. Every other
property of the passing runs, type invariants included, is a theorem.

## 5. What the models found

Findings with a run (a statement of the repository that the code does not keep):

* **close is not final** (`api_close_race`). `connect` tests `_closed` when it begins
  (`api.py:782`) but not when it installs the socket and sets `_connected`
  (805-820). A poll that was in its handshake when the entry was unloaded leaves an
  open, logged-in connection and a client that says it is connected.
* **Ignored issues return** (`stat_ignore`). The options form replaces all options
  (`config_flow.py:418`) and has no field for the flag that Ignore stores there.
* **Frozen disk temperatures** (`poll_temperature`). `disk.temperatures` is asked only
  for rows whose temperature is `None`, which happens once. A disk that netdata does
  not report, or any disk after one failed graph discovery, shows its first reading
  until the integration is reloaded.

Further divergences, each with a configuration that lets TLC print the behaviour.
They are not among the runs, which are kept to the distinct questions above:

| Configuration (module) | Property | What happens |
|---|---|---|
| `MCAPI_leak.cfg` (`MCTrueNASAPI`) | `NoLeak` | two threads reconnect at once; the second overwrites `_ws`, the first socket stays open ("fixed leaked connections", CHANGELOG) |
| `MCAPI_zombie.cfg` (`MCTrueNASAPI`) | `ConnectedHasSocket` | a failing connect disconnects the socket of one that succeeds, whose `_connected = True` comes last: connected without a socket, and nothing reconnects |
| `MCAPI_login.cfg` (`MCTrueNASAPI`) | `QueryAfterLogin` | a query is sent on the socket that another thread has installed and not logged in on yet; the server refuses it |
| `Task_overlap.cfg` (`MCTaskRuns`) | `FallbackSuffices` | a refresh writes while another is between its fallback and its drop of `job_state`: the row stays `unknown`, which `get_replication`'s comment excludes |
| `Task_guard_race.cfg` (`MCTaskRuns`) | `GuardHolds` | a start reads a row from before the previous start's job ("guarded against running jobs", CHANGELOG) |
| `Dataset_empty.cfg`, `Dataset_stale.cfg` (`MCDatasetLock`) | `AlreadyIsFresh` | lock or unlock returns "already" on an emptied or overtaken row ("the locked state is read fresh here") |
| `App_stale.cfg` (`AppUpdate`) | `ForgetsOnlyFinished` | a row that changed after its job was asked for drops the id of a running upgrade; with `AnswersLost = TRUE` so does a lost answer, in fewer steps |
| `Sys_waiting.cfg` (`SystemUpdate`) | `RunningIsShown` | an update job that is still WAITING at the first look is forgotten and its progress never shown |
| `Stat_clear.cfg` (`Statistics`) | `ClearsOnlyOrphans` | the list that is deleted is up to a poll old |
| `Poll_figures.cfg` (`PollCycle`) | `AvailableFits` | datasets and pools are both refused in one poll: the fallback pairs the raw free space with the usable size kept in the row, available exceeds total, usage is negative |
| `Poll_reconnect.cfg` (`PollCycle`) | `PoolFollowsDataset` | `pool.query` loses the connection and `get_pool` returns early; a service call reconnects before the verdict, and the refresh counts as good although the pool still has its raw or older figures beside the new ones of its dataset |
| `Readings_empty.cfg` (`Readings`) | `EmptyIsZero` | `_store_stat_defaults` zeroes columns that load, memory and arcsize do not use, so they keep the last reading ("Store zeroed defaults") |
| `Entities_buttons.cfg` (`Entities`) | `EveryOrphanGoes` | `_ALL_DESCRIPTIONS` (`__init__.py:38`, "All entity descriptions across platforms") has no buttons: the run button of a deleted task stays in the registry |
| `Entities_stray.cfg` (`Entities`) | `NoStray` | a discovery under way when the platforms are unloaded, or a refresh while the client is closed after that: its signal still has listeners, and entities are added to an unloaded platform |
| `Entities_early.cfg` (`Entities`) | `DisabledGroupIsGone` | options saved during a set-up, before the listener is there: no reload follows, and the group that was disabled keeps its entities |
| `Flow_resubmit.cfg` (`MCConfigFlow`) | `SavedWasTested` | a form submitted again while its test runs: the second input is saved with the verdict on the first |
| `Flow_overlap.cfg` (`MCConfigFlow`) | `NamesAlwaysDiffer` | two flows check one name before either has saved it |
| `Flow_slugs.cfg` (`MCConfigFlow`) | `SlugsDiffer` | names that differ in case only pass the check and share their unique ids |

Without a property of their own: `GetGuest` shows a converted row being converted
again when a poll gets no answer (the memory of a VM or container drops to 0 until
the next answer; `FiguresSettle` shows that it recovers). A UPS that is plugged in
after the list of graphs was read once is not discovered until a reload (`plugged`
therefore never changes in `Readings`). While `system.info` is refused the boot time
wanders with the clock, beyond the tolerance, and comes back with the next answer
(`ReadingsSettle`).

## 6. What is not modelled

* The start and stop actions of services, VMs and apps, and the reboot and shutdown
  of the system: one query of the state, one command and one refresh in a coroutine
  that keeps nothing. There is no state of the integration for a property to be about;
  that a second caller may come between the query and the command is the same race
  as `Task_guard_race.cfg`.
* The filters, `key_search` and value conversions of `parse_api`, and the parsing of
  topology errors: sequential and pure. What `parse_api` does with an answer and with
  none, per row and per group, is in the modules that read rows.
* Display units, device and entity names and the icons and attributes of entities.
* Diagnostics, description tables, constants, translations and packaging have no state.
* The SSL context and the subprotocol negotiation (one handshake that succeeds or
  fails), payloads, texts and logging.

Data races inside a single Python bytecode do not exist; races between
statements of two threads are modelled where two threads write the same row, and each
module's header names the steps. The getters of one poll that write *different* groups
run one after the other in `PollCycle` and `Readings`: they share nothing but the
client.

## 7. What could follow

1. Two polls that overlap in `PollCycle` and `Readings`, as they do in `TaskRuns` and
   `SystemUpdate`: a forced refresh writes pools and datasets while the timer's does.
2. `ParseApi` as functions over keyed groups with filters and `key_search`, against a
   reference definition over bounded inputs.
3. One module that puts `Entities` over `ConfigFlow`'s entries, with two entries that
   share unique ids (`Flow_slugs.cfg`).
