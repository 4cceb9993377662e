---------------------------- MODULE Entities_proofs ----------------------------
(***************************************************************************)
(* What the discoveries and the clean-up of Entities do for any number of  *)
(* objects and of overlapping discoveries.                                 *)
(***************************************************************************)
EXTENDS Entities, TLAPS

USE SetupAssumption, RareAssumption

-----------------------------------------------------------------------------
\* The state keeps its type.

\* A row of the group is none or what a link says, however it was read.
LEMMA GetterType ==
  ASSUME TypeOK, NEW answered \in BOOLEAN
  PROVE  Getter(answered) \in [Objects -> {"none"} \cup Links]
  BY DEF TypeOK, Getter, Nothing, Answer, Merge, Links

\* A platform that is not set up has no entities: with that the type is inductive.
TypeInv == TypeOK /\ UnloadedInv

LEMMA InitType == Init => TypeInv
<1> SUFFICES ASSUME Init PROVE TypeInv
  OBVIOUS
<1>1. monitored \in BOOLEAN /\ hide \in BOOLEAN
  BY DEF Init
<1>2. server \in [Objects -> {"absent"} \cup Links]
  BY DEF Init, Links
<1> QED
  BY <1>1, <1>2
     DEF Init, TypeInv, TypeOK, UnloadedInv, Changed, Nothing, Idle, Empty

\* The actions of the world and of the user.
LEMMA WorldType ==
  ASSUME TypeInv, World \/ SaveOptions \/ Restart
  PROVE  TypeInv'
<1> USE DEF TypeInv, TypeOK, UnloadedInv, options, world, known, tasks
<1>1. ASSUME NEW o \in Objects, ServerChanges(o) PROVE TypeInv'
  BY <1>1 DEF ServerChanges, Links
<1>2. ASSUME NEW o \in Objects, Forget(o) PROVE TypeInv'
  BY <1>2 DEF Forget
<1>3. ASSUME NEW o \in Objects, Disable(o) PROVE TypeInv'
  BY <1>3 DEF Disable
<1>4. ASSUME NEW o \in Objects, Enable(o) PROVE TypeInv'
  BY <1>4 DEF Enable
<1>5. CASE SaveOptions
  BY <1>5 DEF SaveOptions
<1>6. CASE Restart
  BY <1>6 DEF Restart, Nothing, Idle, Empty, Changed
<1> QED
  BY <1>1, <1>2, <1>3, <1>4, <1>5, <1>6 DEF World

\* Set-up, refreshes and unload.
LEMMA EntryType ==
  ASSUME TypeInv, SettingUp \/ Running
  PROVE  TypeInv'
<1> USE DEF TypeInv, TypeOK, UnloadedInv, options, world, known, tasks
<1>1. CASE SetUp
  BY <1>1 DEF SetUp, Nothing, Links
<1>2. ASSUME NEW a \in BOOLEAN, FirstRefresh(a) PROVE TypeInv'
  BY <1>2, GetterType DEF FirstRefresh
<1>3. CASE FirstRefreshFails
  BY <1>3 DEF FirstRefreshFails, Changed
<1>4. CASE Sweep
  <2>1. registry' \subseteq registry
    BY <1>4 DEF Sweep
  <2> QED
    BY <1>4, <2>1 DEF Sweep, Changed
<1>5. ASSUME NEW a \in BOOLEAN, Refresh(a) PROVE TypeInv'
  BY <1>5, GetterType DEF Refresh, Notify
<1>6. CASE RefreshFails
  BY <1>6 DEF RefreshFails, Notify
<1>7. CASE Unload
  BY <1>7 DEF Unload
<1>8. CASE Closed
  BY <1>8 DEF Closed
<1> QED
  BY <1>1, <1>2, <1>3, <1>4, <1>5, <1>6, <1>7, <1>8 DEF SettingUp, Running

LEMMA NewObjects == New \subseteq Present /\ Present \subseteq Objects
  BY DEF New, Present

LEMMA DiscoveryType ==
  ASSUME TypeInv, NEW h \in Handlers, Discovery(h)
  PROVE  TypeInv'
<1> USE DEF TypeInv, TypeOK, UnloadedInv, options, world, known, tasks
<1>1. CASE Collect(h)
  BY <1>1, NewObjects DEF Collect, SetUpDone
<1>2. CASE Add(h)
  BY <1>2 DEF Add, SetUpDone
<1> QED
  BY <1>1, <1>2 DEF Discovery

LEMMA NextType == TypeInv /\ [Next]_vars => TypeInv'
<1> SUFFICES ASSUME TypeInv, [Next]_vars PROVE TypeInv'
  OBVIOUS
<1>1. CASE UNCHANGED vars
  BY <1>1 DEF vars, TypeInv, TypeOK, UnloadedInv, options, world, known, tasks
<1> QED
  BY <1>1, WorldType, EntryType, DiscoveryType DEF Next

\* The state of an entry and of its entities keeps its type.
THEOREM TypeCorrect == Spec => []TypeOK
<1>1. TypeInv => TypeOK
  BY DEF TypeInv
<1> QED
  BY <1>1, InitType, NextType, PTL DEF Spec

-----------------------------------------------------------------------------
\* Discoveries do not add an entity twice.

LEMMA InitDiscovery == Init => DiscoveryInv
  BY DEF Init, DiscoveryInv, Idle, Empty

\* Steps of the world only take entities away, or stop everything.
LEMMA WorldDiscovery ==
  ASSUME TypeOK, DiscoveryInv, World \/ SaveOptions \/ Restart
  PROVE  DiscoveryInv'
<1> USE DEF DiscoveryInv, options, world, known, tasks
<1>1. ASSUME NEW o \in Objects, ServerChanges(o) PROVE DiscoveryInv'
  BY <1>1 DEF ServerChanges
<1>2. ASSUME NEW o \in Objects, Forget(o) PROVE DiscoveryInv'
  BY <1>2 DEF Forget
<1>3. ASSUME NEW o \in Objects, Disable(o) PROVE DiscoveryInv'
  BY <1>3 DEF Disable
<1>4. ASSUME NEW o \in Objects, Enable(o) PROVE DiscoveryInv'
  BY <1>4 DEF Enable
<1>5. CASE SaveOptions
  BY <1>5 DEF SaveOptions
<1>6. CASE Restart
  BY <1>6 DEF Restart, Idle, Empty
<1> QED
  BY <1>1, <1>2, <1>3, <1>4, <1>5, <1>6 DEF World

\* Set-up and unload leave the discoveries at rest.
LEMMA EntryDiscovery ==
  ASSUME "busyWhileClosing" \notin Rare, TypeOK, DiscoveryInv, SettingUp \/ Running
  PROVE  DiscoveryInv'
<1> USE DEF DiscoveryInv, options, world, known, tasks
<1>1. CASE SetUp
  BY <1>1 DEF SetUp
<1>2. ASSUME NEW a \in BOOLEAN, FirstRefresh(a) PROVE DiscoveryInv'
  BY <1>2 DEF FirstRefresh
<1>3. CASE FirstRefreshFails
  BY <1>3 DEF FirstRefreshFails
<1>4. CASE Sweep
  BY <1>4 DEF Sweep, Idle, TypeOK
<1>5. ASSUME NEW a \in BOOLEAN, Refresh(a) PROVE DiscoveryInv'
  BY <1>5 DEF Refresh, Notify, TypeOK
<1>6. CASE RefreshFails
  BY <1>6 DEF RefreshFails, Notify, TypeOK
<1>7. CASE Unload
  BY <1>7 DEF Unload
<1>8. CASE Closed
  BY <1>8 DEF Closed
<1> QED
  BY <1>1, <1>2, <1>3, <1>4, <1>5, <1>6, <1>7, <1>8 DEF SettingUp, Running

\* A discovery takes the lock before it looks at what is loaded, and what it
\* adds is in nobody else's batch.
LEMMA DiscoveryDiscovery ==
  ASSUME TypeOK, DiscoveryInv, NEW h \in Handlers, Discovery(h)
  PROVE  DiscoveryInv'
<1> USE DEF DiscoveryInv, options, world, known, tasks
<1>0. entry \in {"discovering", "loaded"} /\ entry' \in {"discovering", "loaded"}
  BY DEF Discovery, Collect, Add, SetUpDone, Idle
<1>1. CASE Collect(h)
  <2>1. CASE New = {}
    BY <1>0, <1>1, <2>1 DEF Collect, TypeOK
  <2>2. CASE New # {}
    <3>1. New \cap loaded = {}
      BY DEF New, Seen
    <3> QED
      BY <1>0, <1>1, <2>2, <3>1 DEF Collect, TypeOK, Free
  <2> QED
    BY <2>1, <2>2
<1>2. CASE Add(h)
  <2>1. \A g \in Handlers : g # h => batch[g] = {}
    BY <1>2 DEF Add
  <2>2. \A g \in Handlers : batch'[g] = {}
    BY <1>2, <2>1 DEF Add, TypeOK
  <2>3. \A g \in Handlers : at'[g] = "adding" => g # h /\ at[g] = "adding"
    BY <1>2 DEF Add, TypeOK
  <2> QED
    BY <1>0, <2>2, <2>3
<1> QED
  BY <1>1, <1>2 DEF Discovery

LEMMA NextDiscovery ==
  ASSUME "busyWhileClosing" \notin Rare, TypeOK, DiscoveryInv, [Next]_vars
  PROVE  DiscoveryInv'
<1>1. CASE UNCHANGED vars
  BY <1>1 DEF vars, DiscoveryInv, options, world, known, tasks
<1> QED
  BY <1>1, WorldDiscovery, EntryDiscovery, DiscoveryDiscovery DEF Next

\* No discovery ever adds an entity that is loaded or that another one is adding,
\* for any number of objects and of discoveries that overlap, if no refresh comes
\* while the entry is being unloaded.
THEOREM NothingIsReAdded ==
  ASSUME "busyWhileClosing" \notin Rare
  PROVE  Spec => []NeverReAdded
<1>1. TypeOK /\ DiscoveryInv /\ [Next]_vars => DiscoveryInv'
  BY NextDiscovery
<1>2. DiscoveryInv => NeverReAdded
  BY DEF DiscoveryInv, NeverReAdded
<1> QED
  BY <1>1, <1>2, InitDiscovery, TypeCorrect, PTL DEF Spec

-----------------------------------------------------------------------------
\* What the clean-up takes and what it leaves.

LEMMA InitFirstRows == Init => FirstRowsInv
  BY DEF Init, FirstRowsInv

\* The first refresh sees nothing, or just what the server has.
LEMMA FirstRows ==
  ASSUME NEW answered \in BOOLEAN, rows = Nothing
  PROVE  Getter(answered) \in {Nothing, Answer}
<1>1. Merge(rows) = Answer
  BY DEF Merge, Answer, Nothing
<1> QED
  BY <1>1 DEF Getter

LEMMA NextFirstRows ==
  ASSUME TypeOK, FirstRowsInv, [Next]_vars
  PROVE  FirstRowsInv'
<1> USE DEF FirstRowsInv, options, world, known, tasks
<1>1. ASSUME NEW o \in Objects, ServerChanges(o) PROVE FirstRowsInv'
  BY <1>1 DEF ServerChanges, TypeOK, Links
<1>2. ASSUME NEW o \in Objects, Forget(o) \/ Disable(o) \/ Enable(o) PROVE FirstRowsInv'
  BY <1>2 DEF Forget, Disable, Enable
<1>3. CASE SaveOptions \/ Restart
  BY <1>3 DEF SaveOptions, Restart
<1>4. CASE SetUp
  BY <1>4 DEF SetUp
<1>5. ASSUME NEW a \in BOOLEAN, FirstRefresh(a) PROVE FirstRowsInv'
  <2>1. rows = Nothing /\ \A o \in Objects : since[o] \in {"changed", server[o]}
    BY <1>5 DEF FirstRefresh
  <2>2. rows' \in {Nothing, Answer}
    BY <1>5, <2>1, FirstRows DEF FirstRefresh
  <2>3. since' = since /\ entry' = "sweeping"
    BY <1>5 DEF FirstRefresh
  <2>4. \A o \in Objects : since[o] = "absent" => rows'[o] = "none"
    BY <2>1, <2>2 DEF Nothing, Answer
  <2>5. rows' # Nothing => \A o \in Objects : since[o] \in Links => rows'[o] = since[o]
    BY <2>1, <2>2 DEF Answer, Links
  <2> QED
    BY <2>3, <2>4, <2>5 DEF Nothing
<1>6. CASE FirstRefreshFails \/ Sweep
  BY <1>6 DEF FirstRefreshFails, Sweep
<1>7. ASSUME NEW a \in BOOLEAN, Refresh(a) PROVE FirstRowsInv'
  BY <1>7 DEF Refresh
<1>8. CASE RefreshFails \/ Unload \/ Closed
  BY <1>8 DEF RefreshFails, Unload, Closed
<1>9. ASSUME NEW h \in Handlers, Discovery(h) PROVE FirstRowsInv'
  BY <1>9 DEF Discovery, Collect, Add, SetUpDone
<1>10. CASE UNCHANGED vars
  BY <1>10 DEF vars
<1> QED
  BY <1>1, <1>2, <1>3, <1>4, <1>5, <1>6, <1>7, <1>8, <1>9, <1>10
     DEF Next, World, SettingUp, Running

\* Only the clean-up itself goes from sweeping to discovering.
LEMMA OnlySweep ==
  ASSUME TypeOK, [Next]_vars, CleaningUp
  PROVE  Sweep
<1> USE DEF CleaningUp, options, world, known, tasks
<1>1. CASE World \/ SaveOptions \/ Restart
  BY <1>1 DEF World, ServerChanges, Forget, Disable, Enable, SaveOptions, Restart
<1>2. CASE SettingUp
  BY <1>2 DEF SettingUp, SetUp, FirstRefresh, FirstRefreshFails
<1>3. CASE Running
  BY <1>3 DEF Running, Refresh, RefreshFails, Unload, Closed
<1>4. ASSUME NEW h \in Handlers, Discovery(h) PROVE FALSE
  BY <1>4 DEF Discovery, Collect, Add, SetUpDone
<1>5. CASE UNCHANGED vars
  BY <1>5 DEF vars
<1> QED
  BY <1>1, <1>2, <1>3, <1>4, <1>5 DEF Next

\* Once there is any row, an object that has not changed is active just if it is
\* wanted.
LEMMA ActiveIsWanted ==
  ASSUME TypeOK, FirstRowsInv, entry = "sweeping", NEW o \in Objects,
         since[o] # "changed", rows # Nothing
  PROVE  o \in Active <=> Wanted(o, since[o])
<1>1. CASE since[o] \in Links
  <2>1. rows[o] = since[o] /\ o \in Present
    BY <1>1 DEF FirstRowsInv, Present, Links
  <2> QED
    BY <1>1, <2>1 DEF Active, Wanted, Off, Excluded, Links
<1>2. CASE since[o] = "absent"
  BY <1>2 DEF FirstRowsInv, Active, Present, Wanted
<1> QED
  BY <1>1, <1>2 DEF TypeOK, Links

LEMMA SomeRow ==
  ASSUME TypeOK, Present # {}
  PROVE  rows # Nothing
  BY DEF Present, Nothing, TypeOK

\* What the clean-up takes and what it leaves, about since and the options.
LEMMA CleanUpIsRight == Spec => CleanUpKeepsTheLiving /\ OrphansGo
<1>1. TypeOK /\ FirstRowsInv /\ [Next]_vars => FirstRowsInv'
  BY NextFirstRows
<1>2. ASSUME TypeOK, FirstRowsInv, [Next]_vars, CleaningUp
      PROVE  /\ \A o \in registry \ registry' : ~Wanted(o, since[o])
             /\ kind \in Swept /\ (Off \/ Present # {}) =>
                  \A o \in registry' : Wanted(o, since[o]) \/ since[o] = "changed"
  <2>1. /\ entry = "sweeping"
        /\ registry' = IF Live THEN registry \cap Active ELSE registry
    BY <1>2, OnlySweep DEF Sweep
  <2>2. ASSUME NEW o \in registry \ registry' PROVE ~Wanted(o, since[o])
    <3>1. Live /\ o \notin Active /\ o \in Objects
      BY <1>2, <2>1, <2>2 DEF TypeOK
    <3>2. CASE Off
      BY <3>2 DEF Off, Wanted
    <3>3. CASE Present # {} /\ since[o] # "changed"
      BY <1>2, <2>1, <3>1, <3>3, SomeRow, ActiveIsWanted
    <3>4. CASE since[o] = "changed"
      BY <3>4 DEF Wanted
    <3> QED
      BY <3>1, <3>2, <3>3, <3>4 DEF Live
  <2>3. ASSUME kind \in Swept, Off \/ Present # {}, NEW o \in registry'
        PROVE  Wanted(o, since[o]) \/ since[o] = "changed"
    <3>1. o \in Active /\ o \in Objects
      BY <1>2, <2>1, <2>3 DEF Live, TypeOK
    <3>2. Present # {}
      BY <3>1 DEF Active
    <3> QED
      BY <1>2, <2>1, <3>1, <3>2, SomeRow, ActiveIsWanted
  <2> QED
    BY <2>2, <2>3
<1>3. TypeOK /\ FirstRowsInv /\ [Next]_vars =>
        [CleaningUp => \A o \in registry \ registry' : ~Wanted(o, since[o])]_vars
  BY <1>2
<1>4. TypeOK /\ FirstRowsInv /\ [Next]_vars =>
        [CleaningUp /\ kind \in Swept /\ (Off \/ Present # {}) =>
           \A o \in registry' : Wanted(o, since[o]) \/ since[o] = "changed"]_vars
  BY <1>2
<1> QED
  BY <1>1, <1>3, <1>4, InitFirstRows, TypeCorrect, PTL
     DEF Spec, CleanUpKeepsTheLiving, OrphansGo

\* The clean-up keeps the entity of every object that was there and wanted all
\* through the set-up, for any number of objects, whatever was lost and whatever
\* the user did meanwhile.
THEOREM TheLivingAreKept == Spec => CleanUpKeepsTheLiving
  BY CleanUpIsRight

\* It takes the entity of every object that was gone or excluded all through the
\* set-up, if the group has a row or is disabled.
THEOREM TheGoneAreTaken == Spec => OrphansGo
  BY CleanUpIsRight

-----------------------------------------------------------------------------
\* A group that is disabled.

LEMMA InitDisabled == Init => DisabledInv
  BY DEF Init, DisabledInv

LEMMA OffRows ==
  ASSUME Off, NEW answered \in BOOLEAN
  PROVE  Getter(answered) = Nothing
  BY DEF Off, Getter

LEMMA NothingNew ==
  ASSUME rows = Nothing
  PROVE  Present = {} /\ Active = {} /\ New = {}
  BY DEF Nothing, Present, Active, New

\* The user changes the options of an entry that is loaded, which is then reloaded.
LEMMA WorldDisabled ==
  ASSUME Rare = {}, TypeOK, DisabledInv, World \/ SaveOptions \/ Restart
  PROVE  DisabledInv'
<1> USE DEF DisabledInv, Off, options, world, known, tasks
<1>1. ASSUME NEW o \in Objects, ServerChanges(o) PROVE DisabledInv'
  BY <1>1 DEF ServerChanges
<1>2. ASSUME NEW o \in Objects, Forget(o) \/ Disable(o) PROVE DisabledInv'
  BY <1>2 DEF Forget, Disable
<1>3. ASSUME NEW o \in Objects, Enable(o) PROVE DisabledInv'
  BY <1>3 DEF Enable
<1>4. CASE SaveOptions
  BY <1>4 DEF SaveOptions
<1>5. CASE Restart
  BY <1>5 DEF Restart
<1> QED
  BY <1>1, <1>2, <1>3, <1>4, <1>5 DEF World

\* The first refresh leaves the group empty, and the clean-up takes its entities.
LEMMA EntryDisabled ==
  ASSUME Rare = {}, TypeInv, DiscoveryInv, DisabledInv, SettingUp \/ Running
  PROVE  DisabledInv'
<1> USE DEF DisabledInv, options, world, known, tasks
<1>1. CASE SetUp
  BY <1>1 DEF SetUp, Off
<1>2. ASSUME NEW a \in BOOLEAN, FirstRefresh(a) PROVE DisabledInv'
  <2>1. Off' = Off /\ (Off => rows' = Nothing)
    BY <1>2, OffRows DEF FirstRefresh, Off
  <2> QED
    BY <1>2, <2>1 DEF FirstRefresh
<1>3. CASE FirstRefreshFails
  BY <1>3 DEF FirstRefreshFails, Off
<1>4. CASE Sweep
  <2>1. loaded = {} /\ batch = Empty
    BY <1>4 DEF Sweep, TypeInv, TypeOK, UnloadedInv, DiscoveryInv, Idle, Empty
  <2>2. Off /\ kind \in Swept => registry' = {}
    BY <1>4 DEF Sweep, Live, Active
  <2> QED
    BY <1>4, <2>1, <2>2 DEF Sweep, Off
<1>5. ASSUME NEW a \in BOOLEAN, Refresh(a) PROVE DisabledInv'
  <2>1. Off' = Off /\ (Off => rows' = Nothing)
    BY <1>5, OffRows DEF Refresh, Off
  <2> QED
    BY <1>5, <2>1 DEF Refresh
<1>6. CASE RefreshFails
  BY <1>6 DEF RefreshFails, Off
<1>7. CASE Unload
  BY <1>7 DEF Unload
<1>8. CASE Closed
  BY <1>8 DEF Closed
<1> QED
  BY <1>1, <1>2, <1>3, <1>4, <1>5, <1>6, <1>7, <1>8 DEF SettingUp, Running

\* A discovery finds nothing in an empty group.
LEMMA DiscoveryDisabled ==
  ASSUME TypeInv, DiscoveryInv, DisabledInv, NEW h \in Handlers, Discovery(h)
  PROVE  DisabledInv'
<1> USE DEF DisabledInv, options, world, known, tasks
<1>1. entry \in {"discovering", "loaded"} /\ entry' \in {"discovering", "loaded"}
  BY DEF Discovery, Collect, Add, SetUpDone, DiscoveryInv, Idle
<1>2. Off' = Off /\ reload' = reload /\ rows' = rows /\ kind' = kind
  BY DEF Discovery, Collect, Add, Off
<1>3. ~reload' \/ entry' \in {"loaded", "closing"}
  BY <1>2 DEF Discovery, Collect, Add, SetUpDone
<1>4. ASSUME Off, ~reload
      PROVE  loaded' = {} /\ batch' = Empty /\ (kind \in Swept => registry' = {})
  <2>1. New = {} /\ loaded = {} /\ batch = Empty /\ (kind \in Swept => registry = {})
    BY <1>1, <1>4, NothingNew
  <2>2. CASE Collect(h)
    BY <2>1, <2>2 DEF Collect
  <2>3. CASE Add(h)
    <3>1. batch[h] = {} /\ batch' = Empty
      BY <2>1, <2>3 DEF Add, Empty
    <3> QED
      BY <2>1, <2>3, <3>1 DEF Add
  <2> QED
    BY <2>2, <2>3 DEF Discovery
<1> QED
  BY <1>1, <1>2, <1>3, <1>4

LEMMA NextDisabled ==
  ASSUME Rare = {}, TypeInv, DiscoveryInv, DisabledInv, [Next]_vars
  PROVE  DisabledInv'
<1>1. CASE UNCHANGED vars
  BY <1>1 DEF vars, DisabledInv, Off, options, world, known, tasks
<1>2. CASE World \/ SaveOptions \/ Restart
  BY <1>2, WorldDisabled DEF TypeInv
<1> QED
  BY <1>1, <1>2, EntryDisabled, DiscoveryDisabled DEF Next

\* Once the reload that follows a change of the options is over, a group that is
\* disabled has no entities, for any number of objects, whatever is lost, unless
\* the options change during a set-up or a refresh comes while the entry closes.
THEOREM DisabledIsGone ==
  ASSUME Rare = {}
  PROVE  Spec => []DisabledGroupIsGone
<1>1. TypeInv /\ DiscoveryInv /\ [Next]_vars => DiscoveryInv'
  BY NextDiscovery DEF TypeInv
<1>2. TypeInv /\ DiscoveryInv /\ DisabledInv /\ [Next]_vars => DisabledInv'
  BY NextDisabled
<1>3. DisabledInv => DisabledGroupIsGone
  BY DEF DisabledInv, DisabledGroupIsGone
<1> QED
  BY <1>1, <1>2, <1>3, InitType, NextType, InitDiscovery, InitDisabled, PTL DEF Spec
=============================================================================
