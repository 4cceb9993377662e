------------------------------- MODULE Entities -------------------------------
(***************************************************************************)
(* The life of a config entry and of the entities of one description:      *)
(* set-up with its first refresh, the clean-up of the entity registry, the *)
(* discovery of new objects at each refresh, options, unload and restart   *)
(* (__init__.py, entity.py and the platforms' async_setup_entry).          *)
(*                                                                         *)
(* An object is named by its row's uid, which is also the reference in the *)
(* entity's unique_id (the two agree in every description table), so an    *)
(* entity of this description is named by its object.  A behaviour is      *)
(* about one description, kind: the descriptions do not affect each other  *)
(* but through the locks of their platforms, and each platform has its own.*)
(*                                                                         *)
(* Abstracted: rows beyond their presence and the link of an interface,    *)
(* display units, devices, names, and the platforms' other descriptions.   *)
(* Home Assistant (external) keeps the registry and calls the entry.       *)
(***************************************************************************)
CONSTANTS
  Objects,    \* ids of objects on the server
  Handlers,   \* discoveries that may overlap: refreshes come without waiting
  Setup,      \* the discovery that sets the platform up
  Rare        \* which rare interleavings the behaviours include: options saved
              \* during a set-up; an unload that does not wait for the discoveries
              \* under way, and refreshes until the listeners are removed

ASSUME SetupAssumption == Setup \in Handlers
ASSUME RareAssumption  == Rare \subseteq {"saveDuringSetUp", "busyWhileClosing"}

VARIABLES
  kind,       \* the description: dataset or task sensors, a task's run button,
              \* or an interface's traffic sensors
  server,     \* what the server has: absent, up, or down (an interface's link)
  since,      \* history: the same since set-up began, or changed (or no set-up)
  monitored,  \* options: is the group of this description monitored?
  hide,       \* options: BEHAVIOR_REMOVE_INACTIVE_NIC
  reload,     \* the options listener has been called
  entry,      \* the state of the config entry
  rows,       \* coordinator.data: none, up or down
  registry,   \* entity registry: the objects with an entry of this description
  disabled,   \* those whose entry the user disabled
  loaded,     \* platform.entities
  at, batch,  \* per discovery: where it is, and the entities it is adding
  stray       \* history: entities added to a platform that had been unloaded

options == <<monitored, hide>>
world   == <<kind, server, since>>
known   == <<registry, disabled>>
tasks   == <<at, batch>>
vars    == <<world, options, reload, entry, rows, known, loaded, tasks, stray>>

Kinds    == {"dataset", "task", "button", "traffic"}
Optional == {"dataset", "task", "button"}  \* in GROUP_DATA_PATHS
Rebuilt  == {"dataset"}                    \* rows are read into an empty group
Swept    == {"dataset", "task", "traffic"} \* in _ALL_DESCRIPTIONS
Links    == {"up", "down"}

Nothing == [o \in Objects |-> "none"]
Idle    == [h \in Handlers |-> "idle"]
Changed == [o \in Objects |-> "changed"]
Empty   == [h \in Handlers |-> {}]

TypeOK ==
  /\ kind \in Kinds
  /\ server \in [Objects -> {"absent"} \cup Links]
  /\ since \in [Objects -> {"absent", "changed"} \cup Links]
  /\ monitored \in BOOLEAN /\ hide \in BOOLEAN /\ reload \in BOOLEAN
  /\ entry \in {"off", "refreshing", "sweeping", "discovering", "loaded", "closing"}
  /\ rows \in [Objects -> {"none"} \cup Links]
  /\ registry \subseteq Objects /\ disabled \subseteq registry
  /\ loaded \subseteq registry \ disabled
  /\ at \in [Handlers -> {"idle", "waiting", "adding"}]
  /\ batch \in [Handlers -> SUBSET Objects]
  /\ stray \subseteq Objects

Init ==
  /\ kind \in Kinds
  /\ server \in [Objects -> IF kind = "traffic" THEN {"absent"} \cup Links ELSE {"absent", "up"}]
  /\ since = Changed
  /\ monitored \in (IF kind \in Optional THEN BOOLEAN ELSE {TRUE})
  /\ hide \in (IF kind = "traffic" THEN BOOLEAN ELSE {FALSE})
  /\ reload = FALSE /\ entry = "off" /\ rows = Nothing
  /\ registry = {} /\ disabled = {} /\ loaded = {}
  /\ at = Idle /\ batch = Empty /\ stray = {}

-----------------------------------------------------------------------------
\* The world: objects come and go, a link goes up and down.

ServerChanges(o) ==
  /\ \E s \in {"absent"} \cup Links :
       /\ s # server[o] /\ (s = "down" => kind = "traffic")
       /\ server' = [server EXCEPT ![o] = s]
  /\ since' = [since EXCEPT ![o] = "changed"]
  /\ UNCHANGED <<kind, options, reload, entry, rows, known, loaded, tasks, stray>>

\* The user removes the registry entry of an entity, or disables it: the
\* platform drops it.
Forget(o) ==
  /\ o \in registry
  /\ registry' = registry \ {o} /\ disabled' = disabled \ {o}
  /\ loaded' = loaded \ {o}
  /\ UNCHANGED <<world, options, reload, entry, rows, tasks, stray>>

Disable(o) ==
  /\ o \in registry \ disabled
  /\ disabled' = disabled \cup {o} /\ loaded' = loaded \ {o}
  /\ UNCHANGED <<world, options, reload, entry, rows, registry, tasks, stray>>

\* Enabling one makes Home Assistant reload the entry.
Enable(o) ==
  /\ o \in disabled /\ entry = "loaded"
  /\ disabled' = disabled \ {o} /\ reload' = TRUE
  /\ UNCHANGED <<world, options, entry, rows, registry, loaded, tasks, stray>>

\* The options form is saved; the listener asks for a reload.  While the entry
\* is being set up there is no listener yet.
SaveOptions ==
  /\ entry = "loaded" \/ (entry # "off" /\ "saveDuringSetUp" \in Rare)
  /\ \/ kind \in Optional /\ monitored' = ~monitored /\ UNCHANGED hide
     \/ kind = "traffic" /\ hide' = ~hide /\ UNCHANGED monitored
  /\ reload' = (reload \/ entry = "loaded")
  /\ UNCHANGED <<world, entry, rows, known, loaded, tasks, stray>>

\* Home Assistant stops at any moment; the registry and the options are kept.
Restart ==
  /\ entry # "off"
  /\ entry' = "off" /\ reload' = FALSE /\ rows' = Nothing /\ loaded' = {}
  /\ at' = Idle /\ batch' = Empty /\ stray' = {} /\ since' = Changed
  /\ UNCHANGED <<kind, server, options, known>>

-----------------------------------------------------------------------------
\* A refresh of the group.

Answer == [o \in Objects |-> IF server[o] = "absent" THEN "none" ELSE server[o]]

\* parse_api gains and updates the rows of what the answer lists.
Merge(old) == [o \in Objects |-> IF server[o] = "absent" THEN old[o] ELSE server[o]]

\* The group after its getter: not monitored, read anew, merged, or, without
\* an answer, emptied or kept.
Getter(answered) ==
  IF kind \in Optional /\ ~monitored THEN Nothing
  ELSE IF kind \in Rebuilt THEN (IF answered THEN Answer ELSE Nothing)
  ELSE IF answered THEN Merge(rows) ELSE rows

-----------------------------------------------------------------------------
\* async_setup_entry

\* Variant of SetUp: the groups of the last coordinator live on.
SetUpAgain ==
  /\ entry = "off"
  /\ entry' = "refreshing" /\ since' = server
  /\ UNCHANGED <<kind, server, options, reload, rows, known, loaded, tasks, stray>>

\* A new coordinator, with empty groups.
SetUp ==
  /\ entry = "off"
  /\ entry' = "refreshing" /\ rows' = Nothing /\ since' = server
  /\ UNCHANGED <<kind, server, options, reload, known, loaded, tasks, stray>>

\* async_config_entry_first_refresh: a refresh that fails ends the set-up, and
\* Home Assistant tries again.
FirstRefresh(answered) ==
  /\ entry = "refreshing"
  /\ rows' = Getter(answered) /\ entry' = "sweeping"
  /\ UNCHANGED <<world, options, reload, known, loaded, tasks, stray>>

FirstRefreshFails ==
  /\ entry = "refreshing"
  /\ entry' = "off" /\ since' = Changed
  /\ UNCHANGED <<kind, server, options, reload, rows, known, loaded, tasks, stray>>

Off == kind \in Optional /\ ~monitored   \* is_disabled_group
Excluded(o) == rows[o] = "down"          \* _is_uid_excluded
Present == {o \in Objects : rows[o] # "none"}

\* _referenced_unique_ids
Active == {o \in Present : ~Off /\ ~(hide /\ Excluded(o))}

\* Is the description's base among live_bases: does its group hold data, or is
\* it disabled?  Variants: an empty group counts; a disabled group does not.
LiveAlways  == kind \in Swept
LiveIfData  == kind \in Swept /\ Present # {}
Live == kind \in Swept /\ (Off \/ Present # {})

\* _cleanup_orphaned_entities; then the platform is set up.
Sweep ==
  /\ entry = "sweeping"
  /\ registry' = IF Live THEN registry \cap Active ELSE registry
  /\ disabled' = disabled \cap registry'
  /\ at' = [at EXCEPT ![Setup] = "waiting"] /\ entry' = "discovering"
  /\ since' = Changed
  /\ UNCHANGED <<kind, server, options, reload, rows, loaded, batch, stray>>

-----------------------------------------------------------------------------
\* Discovery (entity.async_add_entities): one handler at a time under add_lock.

Unlocked == TRUE                                    \* variant of Free
Free == \A h \in Handlers : at[h] # "adding"

\* The discovery of the set-up is over: the platform and the entry are loaded.
\* Other handlers only run then.
SetUpDone(h) == entry' = IF entry = "discovering" /\ h = Setup THEN "loaded" ELSE entry

\* What is there already.  Variant: what is in the registry.
SeenInRegistry == registry
Seen == loaded

\* _collect_new_entities
New == {o \in Present : ~(hide /\ Excluded(o))} \ Seen

\* With the lock: find what is new; nothing, or a batch for the platform.
Collect(h) ==
  /\ at[h] = "waiting" /\ Free
  /\ IF New = {}
     THEN at' = [at EXCEPT ![h] = "idle"] /\ SetUpDone(h) /\ UNCHANGED batch
     ELSE /\ at' = [at EXCEPT ![h] = "adding"]
          /\ batch' = [batch EXCEPT ![h] = New] /\ UNCHANGED entry
  /\ UNCHANGED <<world, options, reload, rows, known, loaded, stray>>

\* The platform has added the batch: all but the entities that are disabled.
\* One that is added after its platform was unloaded belongs to nobody.
Add(h) ==
  /\ at[h] = "adding"
  /\ at' = [at EXCEPT ![h] = "idle"] /\ batch' = [batch EXCEPT ![h] = {}]
  /\ SetUpDone(h)
  /\ registry' = registry \cup batch[h]
  /\ IF entry \in {"discovering", "loaded"}
     THEN loaded' = loaded \cup (batch[h] \ disabled) /\ UNCHANGED stray
     ELSE stray' = stray \cup (batch[h] \ disabled) /\ UNCHANGED loaded
  /\ UNCHANGED <<world, options, reload, rows, disabled>>

-----------------------------------------------------------------------------
\* The loaded entry.

\* Every refresh notifies the listener, which sends the signal to the handlers;
\* one that fails leaves the rows alone.  When all handlers of the model are
\* busy, one of them waits already.
Notify ==
  \/ \E h \in Handlers : at[h] = "idle" /\ at' = [at EXCEPT ![h] = "waiting"]
  \/ (\A h \in Handlers : at[h] # "idle") /\ UNCHANGED at

Refresh(answered) ==
  /\ \/ entry = "loaded" /\ Notify
     \/ entry = "discovering" /\ UNCHANGED at
     \/ entry = "closing" /\ "busyWhileClosing" \in Rare /\ Notify
  /\ rows' = Getter(answered)
  /\ UNCHANGED <<world, options, reload, entry, known, loaded, batch, stray>>

RefreshFails ==
  /\ entry = "loaded" /\ Notify
  /\ UNCHANGED <<world, options, reload, entry, rows, known, loaded, batch, stray>>

\* Variant of Unload: the entities stay.
UnloadOnly ==
  /\ entry = "loaded"
  /\ at = Idle \/ "busyWhileClosing" \in Rare
  /\ entry' = "closing"
  /\ UNCHANGED <<world, options, reload, rows, known, loaded, tasks, stray>>

\* async_unload_entry: the platforms are unloaded, then the client is closed in
\* an executor thread.  Only after that the listeners are removed.  It may begin
\* at any time (busyWhileClosing).
Unload ==
  /\ entry = "loaded"
  /\ at = Idle \/ "busyWhileClosing" \in Rare
  /\ entry' = "closing" /\ loaded' = {}
  /\ UNCHANGED <<world, options, reload, rows, known, tasks, stray>>

Closed ==
  /\ entry = "closing"
  /\ entry' = "off" /\ reload' = FALSE
  /\ UNCHANGED <<world, options, rows, known, loaded, tasks, stray>>

SettingUp == SetUp \/ Sweep \/ FirstRefreshFails \/ \E a \in BOOLEAN : FirstRefresh(a)
Discovery(h) == Collect(h) \/ Add(h)
Running   == RefreshFails \/ Unload \/ Closed \/ \E a \in BOOLEAN : Refresh(a)
World     == \E o \in Objects : ServerChanges(o) \/ Forget(o) \/ Disable(o) \/ Enable(o)

Next ==
  \/ World \/ SaveOptions \/ Restart
  \/ SettingUp \/ Running
  \/ \E h \in Handlers : Discovery(h)

Spec == Init /\ [][Next]_vars

UpToDate == \A o \in Objects : server[o] # "absent" => rows[o] # "none"

\* Set-ups and discoveries go on, the timer recurs, and the server answers
\* again and again.  A lock of asyncio is handed over in order; a discovery runs
\* at once, so it is not for ever overtaken by the next refresh, which comes
\* seconds later.
FairWhen(P) ==
  /\ WF_vars(P /\ SetUp) /\ SF_vars(P /\ FirstRefresh(TRUE)) /\ WF_vars(P /\ Sweep)
  /\ SF_vars(P /\ Refresh(TRUE))
  /\ \A h \in Handlers : /\ WF_vars(P /\ Collect(h)) /\ SF_vars(P /\ Collect(h) /\ UpToDate)
                         /\ WF_vars(P /\ Add(h))

FairSpec == Spec /\ FairWhen(TRUE)

-----------------------------------------------------------------------------
\* Is o to have an entity, with what the server says and the options?
Wanted(o, link) ==
  /\ link = "up" \/ (link = "down" /\ ~hide)
  /\ kind \in Optional => monitored

CleaningUp == entry = "sweeping" /\ entry' = "discovering"

\* The clean-up never removes the entity of an object that was on the server,
\* and wanted, all through the set-up, whether its query was answered or lost
\* ("A transient empty fetch of a whole domain never wipes the corresponding
\* group", _cleanup_orphaned_entities): with it go its name, area and history.
CleanUpKeepsTheLiving ==
  [][CleaningUp =>
       \A o \in registry \ registry' : ~Wanted(o, since[o])]_vars

\* After the clean-up nothing is left of what the server did not have, or the
\* options exclude, all through the set-up ("Remove registry entries the
\* integration would no longer create", "that no longer exist are cleaned up
\* automatically on startup", README): provided the group has a row, or is
\* disabled, and the description is one of _ALL_DESCRIPTIONS.
OrphansGo ==
  [][CleaningUp /\ kind \in Swept /\ (Off \/ Present # {}) =>
       \A o \in registry' : Wanted(o, since[o]) \/ since[o] = "changed"]_vars

\* The same for every description.
EveryOrphanGoes ==
  [][CleaningUp /\ (Off \/ Present # {}) =>
       \A o \in registry' : Wanted(o, since[o]) \/ since[o] = "changed"]_vars

\* A discovery never adds an entity that is loaded or that another discovery is
\* adding, however refreshes and user actions interleave ("existing entities
\* are never re-added", "an in-flight add is never duplicated").
NeverReAdded ==
  \A h \in Handlers : /\ batch[h] \cap loaded = {}
                      /\ \A g \in Handlers \ {h} : batch[h] \cap batch[g] = {}

\* A group that is disabled has no entities, once its reload is over, neither
\* loaded nor in the registry, where they would stay unavailable.
DisabledGroupIsGone ==
  entry = "loaded" /\ ~reload /\ Off =>
    loaded = {} /\ (kind \in Swept => registry = {})

\* What makes these inductive.  A platform that is not set up has no entities.
UnloadedInv == entry \notin {"discovering", "loaded"} => loaded = {}

\* Discoveries only run while the platform is set up
\* (not with busyWhileClosing), and one at a time holds entities to add.
DiscoveryInv ==
  /\ entry \notin {"discovering", "loaded"} => at = Idle
  /\ \A h \in Handlers : at[h] # "adding" => batch[h] = {}
  /\ \A g, h \in Handlers : at[g] = "adding" /\ at[h] = "adding" => g = h
  /\ \A h \in Handlers : batch[h] \cap loaded = {}

\* The first refresh saw nothing, or all that has not changed since set-up began.
FirstRowsInv ==
  /\ entry = "refreshing" =>
       rows = Nothing /\ \A o \in Objects : since[o] \in {"changed", server[o]}
  /\ entry = "sweeping" /\ rows # Nothing =>
       \A o \in Objects : since[o] \in Links => rows[o] = since[o]
  /\ entry = "sweeping" =>
       \A o \in Objects : since[o] = "absent" => rows[o] = "none"

\* From the first refresh on a group that is disabled is empty, and from the
\* clean-up on it has no entities (not with saveDuringSetUp).
DisabledInv ==
  /\ reload => entry \in {"loaded", "closing"}
  /\ Off /\ ~reload /\ entry \in {"sweeping", "discovering", "loaded"} => rows = Nothing
  /\ Off /\ ~reload /\ entry \in {"discovering", "loaded"} =>
       loaded = {} /\ batch = Empty /\ (kind \in Swept => registry = {})

\* Nothing is added to a platform that has been unloaded.
NoStray == stray = {}

\* An object that stays on the server and is wanted is shown, again and again
\* if the user removes its entity, after any restarts, failed set-ups, lost
\* answers and reloads: the three cases of async_add_entities' docstring.
EveryObjectShown ==
  \A o \in Objects :
    <>[](entry = "loaded" /\ server[o] = "up" /\ (kind \in Optional => monitored) /\ o \notin disabled)
      => []<>(o \in loaded)
=============================================================================
