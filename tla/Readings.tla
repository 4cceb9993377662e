-------------------------------- MODULE Readings --------------------------------
(***************************************************************************)
(* The rest of a refresh: get_systeminfo, which runs before the gather     *)
(* because get_systemstats reads what it finds out, and the getters that   *)
(* share nothing with those of PollCycle.  None of them reads what another *)
(* one wrote, so a behaviour follows one of them, or the four of PollCycle *)
(* ("figures").  A reading is a value that the server reports, above zero; *)
(* 0 is the default of a column, and None no row or no value.              *)
(*                                                                         *)
(* Abstracted: the columns of a group but one, the other netdata graphs    *)
(* (arcsize and memory are read as load is), the groups that are read as   *)
(* service is (cron jobs), and the monitored groups (see Entities).        *)
(***************************************************************************)
EXTENDS PollCycle, Integers

CONSTANTS
  CoolDown,  \* polls until a graph that failed is asked for again
  Tolerance, \* UPTIME_EPOCH_TOLERANCE_SECONDS, in polls
  Jump,      \* how much later the server is up after a reboot, in polls
  Far        \* bound: uptimes are followed for so many polls

ASSUME ReadingsAssumption ==
  /\ CoolDown \in Nat \ {0} /\ {Tolerance, Jump, Far} \subseteq Nat
  /\ Far > 2 * Tolerance
ASSUME NoneAssumption == None \notin Int

VARIABLES
  follow,    \* which getter this behaviour follows
  virtual,   \* server: does it run on a hypervisor, without CPU temperatures?
  plugged,   \* server: does it have a UPS?
  todo,      \* what this refresh has not run yet
  known,     \* ds["system_info"] has the columns of system.info
  isVirtual, \* _is_virtual
  interface, \* ds["interface"] has the interface
  reading,   \* the row or column followed, or None
  cooling,   \* _systemstats_errored: polls until the graph is asked for again
  upsGraphs, \* _ups_graphs: "unknown" (None), "none" (empty) or "some"
  lag,       \* boot time by the uptime in system_info, minus the true one
  shown,     \* uptimeEpoch minus the true boot time, or None
  answered   \* history: all that this refresh asked was answered with data

machine  == <<follow, virtual, plugged>>
info     == <<known, isVirtual, interface>>
uptime   == <<lag, shown>>
values   == <<reading, cooling, upsGraphs>>
readings == <<machine, todo, info, uptime, values, answered>>
all      == <<vars, readings>>

Graphs  == {"load", "cpu", "cputemp", "interface"}
Follows == Graphs \cup {"figures", "uptime", "ups", "alerts", "directory", "service"}

Served(v) == v + 1   \* what the server reports of the thing followed

OwnTypeOK ==
  /\ follow \in Follows /\ virtual \in BOOLEAN /\ plugged \in BOOLEAN
  /\ todo \subseteq {"info", "reading"}
  /\ known \in BOOLEAN /\ isVirtual \in BOOLEAN /\ interface \in BOOLEAN
  /\ reading \in {Served(v) : v \in Values} \cup {0, None}
  /\ cooling \in 0..CoolDown /\ upsGraphs \in {"unknown", "none", "some"}
  /\ lag \in -Jump..Far /\ shown \in (-Jump..Far) \cup {None}
  /\ answered \in BOOLEAN

ReadingsTypeOK == TypeOK /\ OwnTypeOK

ReadingsInit ==
  /\ Init
  /\ follow \in Follows
  /\ virtual \in BOOLEAN /\ (virtual => follow = "cputemp")  \* unused else
  /\ plugged \in BOOLEAN /\ (plugged => follow = "ups")
  /\ monitored \/ source = "none"                             \* read by different getters
  /\ follow = "figures" \/ (monitored /\ source = "none")
  /\ todo = {} /\ known = FALSE /\ isVirtual = FALSE /\ interface = FALSE
  /\ reading = None /\ cooling = 0 /\ upsGraphs = "unknown"
  /\ lag = 0 /\ shown = None /\ answered = FALSE

-----------------------------------------------------------------------------
\* The server reboots: it has been up since later than what was read says.

Sooner(d) == IF d - Jump < -Jump THEN -Jump ELSE d - Jump

Reboot ==
  /\ follow = "uptime"
  /\ connected' = FALSE /\ answered' = FALSE
  /\ lag' = Sooner(lag)
  /\ shown' = IF shown = None THEN None ELSE Sooner(shown)
  /\ UNCHANGED <<environment, good, phase, at, rows, machine, todo, info, values>>

-----------------------------------------------------------------------------
\* The refresh begins; time has passed since the last one.

\* Variant of Cooled: what is in _systemstats_errored stays there.
CooledNever(c) == c

\* _systemstats_errored only keeps graphs that failed less than ten minutes ago.
Cooled(c) == IF c = 0 THEN 0 ELSE c - 1

Older(d) == IF d = Far THEN Far ELSE d + 1

Begin ==
  /\ Wake
  /\ todo' = {"info", "reading"} /\ answered' = TRUE
  /\ cooling' = Cooled(cooling)
  /\ lag' = IF follow = "uptime" THEN Older(lag) ELSE lag
  /\ UNCHANGED <<machine, info, shown, reading, upsGraphs>>

-----------------------------------------------------------------------------
\* get_systeminfo

\* _update_uptime: the boot time shown moves only by more than the tolerance.
Moved(old, new) ==
  IF old = None \/ new - old > Tolerance \/ old - new > Tolerance THEN new ELSE old

\* What ensure_vals adds to a row that is new.
Ensured(isNew) == IF isNew /\ reading = None THEN 0 ELSE reading

\* system.info answers or not; without a connection that is all.  (_handle_update_job,
\* in SystemUpdate, may lose it too.)
SystemInfoLost(system) ==
  /\ phase = "gather" /\ "info" \in todo
  /\ connected' = FALSE
  /\ known' = (known \/ system)
  /\ lag' = IF system THEN 0 ELSE lag
  /\ reading' = Ensured(system /\ follow \in {"load", "cpu"})
  /\ todo' = todo \ {"info"} /\ answered' = FALSE
  /\ UNCHANGED <<environment, good, phase, at, rows, machine, isVirtual, interface,
                 shown, cooling, upsGraphs>>

\* Else it is used, new or old, and interface.query answers or not.
SystemInfo(system, list) ==
  /\ phase = "gather" /\ "info" \in todo
  /\ Asks(list)
  /\ known' = (known \/ system)
  /\ isVirtual' = (known' /\ virtual)
  /\ lag' = IF system THEN 0 ELSE lag
  /\ shown' = IF known' /\ follow = "uptime" THEN Moved(shown, lag') ELSE shown
  /\ interface' = (interface \/ list)
  /\ reading' = Ensured(\/ system /\ follow \in {"load", "cpu"}
                        \/ list /\ follow = "interface")
  /\ todo' = todo \ {"info"} /\ answered' = (answered /\ system /\ list)
  /\ UNCHANGED <<environment, good, phase, at, rows, machine, cooling, upsGraphs>>

-----------------------------------------------------------------------------
\* The getters under gather.

\* Variant of Turn: get_systeminfo runs with the others.
TurnAnyTime == phase = "gather" /\ "reading" \in todo

\* get_systeminfo has run.
Turn == phase = "gather" /\ todo = {"reading"}

\* A getter that is followed runs to its end; ok tells whether all it asked for
\* was answered, asked whether it made a query.
Runs(asked, ok) ==
  /\ Turn
  /\ IF asked THEN Asks(ok) ELSE UNCHANGED connected
  /\ todo' = {} /\ answered' = (answered /\ ok)
  /\ UNCHANGED <<environment, good, phase, at, rows, machine, info, uptime>>

\* _select_stat_graph_names
Asked == /\ follow \in Graphs
         /\ follow = "interface" => interface
         /\ follow = "cputemp" => ~isVirtual
         /\ cooling = 0

\* A graph without aggregations: zero, but load (and arcsize and memory) is kept,
\* since _store_stat_defaults writes to other columns.
Emptied == CASE follow \in {"cpu", "interface"} -> 0
             [] follow = "cputemp" -> None
             [] follow = "load" -> reading

\* get_systemstats: the graph has data, none, or it fails, as the CPU temperatures
\* of a hypervisor's guest always do.
GetSystemStats(outcome) ==
  /\ follow \in Graphs
  /\ Asked /\ follow = "cputemp" /\ virtual => outcome = "failed"
  /\ Runs(Asked, Asked => outcome = "data")
  /\ cooling' = IF Asked /\ outcome = "failed" THEN CoolDown ELSE cooling
  /\ reading' = IF ~Asked \/ outcome = "failed" THEN reading
                ELSE IF outcome = "data" THEN Served(now) ELSE Emptied
  /\ UNCHANGED upsGraphs

\* Variant of UpsDiscovered: a failure counts as no UPS.
UpsDiscoveredOnce(list) == IF list /\ plugged THEN "some" ELSE "none"

\* _discover_ups_graphs, with the list of graphs or without it.
UpsDiscovered(list) == CASE ~list -> "unknown"
                         [] list /\ plugged -> "some"
                         [] list /\ ~plugged -> "none"

\* get_ups: discovered until the list was read once; what has no value has no column.
GetUps(list, data) ==
  /\ follow = "ups"
  /\ upsGraphs' = IF upsGraphs = "unknown" THEN UpsDiscovered(list) ELSE upsGraphs
  /\ Runs(upsGraphs # "none",
          (upsGraphs = "unknown" => list) /\ (upsGraphs' = "some" => data))
  /\ reading' = IF upsGraphs' # "some" THEN reading
                ELSE IF data THEN Served(now) ELSE None
  /\ UNCHANGED cooling

\* get_alerts, get_smb: counted anew, and none without an answer.
GetAlerts(answer) ==
  /\ follow = "alerts" /\ Runs(TRUE, answer)
  /\ reading' = IF answer THEN Served(now) ELSE 0
  /\ UNCHANGED <<cooling, upsGraphs>>

\* get_directoryservices: no row without its configuration; "unknown" (0) without
\* its status.
GetDirectory(config, status) ==
  /\ follow = "directory" /\ Runs(TRUE, config /\ status)
  /\ reading' = CASE ~config -> None
                  [] config /\ ~status -> 0
                  [] config /\ status -> Served(now)
  /\ UNCHANGED <<cooling, upsGraphs>>

\* get_service: running is computed again from the state, which is read or kept.
GetService(answer) ==
  /\ follow = "service" /\ Runs(TRUE, answer)
  /\ reading' = Parsed(reading, answer, Served(now))
  /\ UNCHANGED <<cooling, upsGraphs>>

\* Nothing but get_systeminfo is followed of the boot time.
NoReading ==
  /\ follow = "uptime" /\ Runs(FALSE, TRUE)
  /\ UNCHANGED values

\* The end of the gather; get_pool is followed with the figures.
AllRead ==
  /\ phase = "gather" /\ todo = {}
  /\ at' = Through /\ Goto("verdict")
  /\ UNCHANGED <<environment, connected, good, rows, readings>>

-----------------------------------------------------------------------------
Getter ==
  \/ \E yes, also \in BOOLEAN :
       \/ SystemInfoLost(yes) \/ SystemInfo(yes, also) \/ GetUps(yes, also)
       \/ GetAlerts(yes) \/ GetDirectory(yes, also) \/ GetService(yes)
  \/ \E outcome \in {"data", "empty", "failed"} : GetSystemStats(outcome)
  \/ NoReading

Refresh ==
  \/ Begin \/ Getter \/ AllRead
  \/ (Connect \/ ConnectFails \/ Verdict) /\ UNCHANGED readings

ReadingsNext ==
  \/ /\ follow = "figures" /\ Next /\ UNCHANGED readings
  \/ /\ follow # "figures"
     /\ Refresh \/ Reboot \/ ((Change \/ Drop \/ Reconnect) /\ UNCHANGED readings)

Polls == \/ follow = "figures" /\ Poll /\ UNCHANGED readings
         \/ follow # "figures" /\ Refresh

ReadingsSpec == ReadingsInit /\ [][ReadingsNext]_all /\ WF_all(Polls)

-----------------------------------------------------------------------------
Near == shown # None /\ shown \in -Tolerance..Tolerance

\* There is nothing to read.
Absent == (follow = "cputemp" /\ virtual) \/ (follow = "ups" /\ ~plugged)

\* There is something to show, and it is shown.
Shows(served) == IF follow = "uptime" THEN Near
                 ELSE IF Absent THEN reading = None ELSE reading \in served

\* A refresh in which everything was answered and no graph was left out leaves
\* every reading known, the first one too ("so the first cycle does not skip the
\* interface graph, which would leave RX/TX at 0 until the next poll").
CompleteRefresh ==
  follow # "figures" /\ Rest /\ answered /\ cooling = 0
    => Shows({Served(v) : v \in Values})

\* Why: get_systeminfo is first; what it found out, and what was then read, stays as
\* long as the refresh can end well; what is not there was never read.
Known == known /\ isVirtual = virtual /\ interface /\ (follow = "uptime" => Near)

Nothing ==
  /\ isVirtual => virtual
  /\ (upsGraphs = "none" => ~plugged) /\ (upsGraphs = "some" => plugged)
  /\ Absent => reading = None

RefreshInv ==
  /\ todo \in {{}, {"reading"}, {"info", "reading"}}
  /\ follow # "figures" /\ (Rest \/ phase = "verdict") => todo = {}
  /\ follow # "figures" /\ answered /\ "info" \notin todo => Known
  /\ follow # "figures" /\ answered /\ todo = {} /\ cooling = 0 =>
        Shows({Served(v) : v \in Values})
  /\ Nothing

\* Once everything is answered and the server rests, every reading comes to be
\* what the server reports: failed graphs are asked for again, a UPS is found, the
\* boot time comes back, alerts and directory services too.
ReadingsSettle ==
  follow # "figures" /\ <>[]answered /\ <>[][now' = now]_all
    => <>[](Rest => Shows({Served(now)}))

\* A graph without aggregations counts as zero ("Store zeroed defaults when a
\* statistic graph has no aggregations", _store_stat_defaults).
EmptyIsZero ==
  [][follow = "load" /\ Asked /\ GetSystemStats("empty") => reading' = 0]_all

\* The same of PollCycle's rows, in the behaviours that follow its getters.
FiguresSettle == follow = "figures" => Settles
=============================================================================
