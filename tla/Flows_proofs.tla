----------------------------- MODULE Flows_proofs -----------------------------
(***************************************************************************)
(* The forms a user fills in, and what they may save.  For any number of   *)
(* flows, entries, names and connections: what is saved was tested, and    *)
(* names differ, if no form is submitted during its test; what is tested   *)
(* or saved is complete, whenever forms are submitted.  For any number of  *)
(* statistics and of detections that overlap: a Repairs issue about         *)
(* orphaned statistics that was ignored stays away.                        *)
(***************************************************************************)
EXTENDS ConfigFlow, Statistics, TLAPS

IInv == TypeOK /\ FlowInv /\ NewNames /\ SavedWasTested /\ NamesDiffer

\* An entry that is there has a name, a host and a key, and no entry has none.
LEMMA PresentConfig ==
  ASSUME TypeOK, NEW e \in Present PROVE entries[e] \in Configs
  BY DEF TypeOK, Present

LEMMA ConfigIsEntry ==
  ASSUME NEW c \in Configs PROVE c # NoEntry
  BY NoneAssumption DEF Configs, NoEntry, Unset

LEMMA ConnOfConfig ==
  ASSUME NEW c \in Configs PROVE Conn(c) \in Conns
  BY DEF Configs, Conn, Conns

\* Saving c for e makes e present with c and leaves the others alone.
LEMMA SaveEffect ==
  ASSUME TypeOK, NEW e \in Entries, NEW c \in Configs, Save(e, c)
  PROVE  /\ entries' \in [Entries -> Configs \cup {NoEntry}]
         /\ entries'[e] = c
         /\ \A d \in Entries \ {e} : entries'[d] = entries[d]
         /\ Present' = Present \cup {e}
<1>1. /\ entries' \in [Entries -> Configs \cup {NoEntry}]
      /\ entries'[e] = c
      /\ \A d \in Entries \ {e} : entries'[d] = entries[d]
  BY DEF TypeOK, Save
<1>2. c # NoEntry
  BY ConfigIsEntry
<1> QED
  BY <1>1, <1>2 DEF Present

\* Ending flows leaves the others as they are.
LEMMA EndEffect ==
  ASSUME TypeOK, NEW F, End(F)
  PROVE  /\ \A f \in Flows \cap F : step'[f] = "off" /\ about'[f] = None
         /\ \A f \in Flows \ F : /\ step'[f] = step[f] /\ about'[f] = about[f]
                                 /\ config'[f] = config[f] /\ api'[f] = api[f]
         /\ step' \in [Flows -> {"off", "form", "testing"}]
         /\ about' \in [Flows -> Entries \cup {None}]
         /\ config' \in [Flows -> [name : Names \cup {None}, host : Hosts \cup {None},
                                   key : Keys \cup {None}]]
         /\ api' \in [Flows -> Conns \cup {NoConn}]
  BY DEF TypeOK, End, Without, Unset

LEMMA InitInv == Init => IInv
<1> SUFFICES ASSUME Init PROVE IInv
  OBVIOUS
<1>1. TypeOK
  BY DEF Init, TypeOK, Unset
<1>2. Present = {}
  BY DEF Init, Present
<1>3. FlowInv /\ NewNames
  BY DEF Init, FlowInv, NewNames, Adding
<1>4. SavedWasTested /\ NamesDiffer
  BY <1>2 DEF SavedWasTested, NamesDiffer
<1> QED
  BY <1>1, <1>3, <1>4 DEF IInv

\* While no entry changes, and nothing is forgotten, the entries stay tested and
\* their names different.
LEMMA EntriesStay ==
  ASSUME IInv, entries' = entries, tested' = tested, raced \in BOOLEAN, raced' \in {raced, TRUE}
  PROVE  SavedWasTested' /\ NamesDiffer' /\ Present' = Present
                         /\ ConfiguredInstances' = ConfiguredInstances
<1>1. Present' = Present
  BY DEF Present
<1> QED
  BY <1>1 DEF IInv, SavedWasTested, NamesDiffer, ConfiguredInstances

LEMMA OpenInv ==
  ASSUME IInv, NEW f \in Flows, Open(f) PROVE IInv'
<1> USE DEF IInv
<1>1. SavedWasTested' /\ NamesDiffer' /\ Present' = Present
      /\ ConfiguredInstances' = ConfiguredInstances
  BY EntriesStay DEF Open, TypeOK
<1>2. /\ step' = [step EXCEPT ![f] = "form"] /\ step[f] = "off"
      /\ UNCHANGED <<entries, api, tested, raced>>
  BY DEF Open
<1>3. CASE about' = [about EXCEPT ![f] = None] /\ config' = [config EXCEPT ![f] = Unset]
  <2>1. TypeOK'
    BY <1>2, <1>3 DEF TypeOK, Unset
  <2>2. FlowInv'
    BY <1>1, <1>2, <1>3 DEF TypeOK, FlowInv
  <2>3. NewNames'
    BY <1>1, <1>2, <1>3 DEF TypeOK, NewNames, Adding
  <2> QED
    BY <1>1, <2>1, <2>2, <2>3
<1>4. ASSUME NEW e \in Present, about' = [about EXCEPT ![f] = e],
             config' = [config EXCEPT ![f] = entries[e]]
      PROVE  IInv'
  <2>1. entries[e] \in Configs /\ e \in Entries
    BY PresentConfig DEF Present
  <2>2. TypeOK'
    BY <1>2, <1>4, <2>1 DEF TypeOK, Configs
  <2>3. FlowInv'
    BY <1>1, <1>2, <1>4, <2>1 DEF TypeOK, FlowInv
  <2>4. NewNames'
    BY <1>1, <1>2, <1>4 DEF TypeOK, NewNames, Adding
  <2> QED
    BY <1>1, <2>2, <2>3, <2>4
<1> QED
  BY <1>3, <1>4 DEF Open

\* Flows that end, with the entries they leave behind.
LEMMA EndInv ==
  ASSUME IInv, NEW F, End(F), UNCHANGED <<entries, tested, raced>> PROVE IInv'
<1> USE DEF IInv
<1>1. SavedWasTested' /\ NamesDiffer' /\ Present' = Present
      /\ ConfiguredInstances' = ConfiguredInstances
  BY EntriesStay DEF TypeOK
<1>2. TypeOK'
  BY EndEffect DEF TypeOK
<1>3. FlowInv'
  BY <1>1, EndEffect DEF FlowInv
<1>4. \A f \in Flows : Adding(f)' => Adding(f) /\ config'[f] = config[f]
  BY EndEffect DEF Adding
<1>5. NewNames'
  BY <1>1, <1>4 DEF NewNames
<1> QED
  BY <1>1, <1>2, <1>3, <1>5

LEMMA TestFailsInv ==
  ASSUME IInv, NEW f \in Flows, TestFails(f) PROVE IInv'
<1> USE DEF IInv, TestFails
<1>1. SavedWasTested' /\ NamesDiffer' /\ Present' = Present
      /\ ConfiguredInstances' = ConfiguredInstances
  BY EntriesStay DEF TypeOK
<1>2. TypeOK' /\ FlowInv' /\ NewNames'
  BY <1>1 DEF TypeOK, FlowInv, NewNames, Adding
<1> QED
  BY <1>1, <1>2

\* A new entry is only tested under a name that no entry has and, unless two
\* flows race, no other flow tests.
LEMMA SubmitUserInv ==
  ASSUME IInv, Resubmits = FALSE, NEW f \in Flows, NEW n \in Names, NEW h \in Hosts,
         NEW k \in Keys, SubmitUser(f, n, h, k)
  PROVE  IInv'
<1> USE DEF IInv
<1> DEFINE c == Typed(n, h, k)
<1>1. c \in Configs /\ c.name = n
  BY DEF SubmitUser, Typed, Configs
<1>2. /\ step[f] = "form" /\ about[f] = None /\ config' = [config EXCEPT ![f] = c]
      /\ UNCHANGED <<entries, about, tested>>
  BY DEF SubmitUser, Submittable
<1>3. c \in [name : Names \cup {None}, host : Hosts \cup {None}, key : Keys \cup {None}]
  BY <1>1 DEF Configs
<1> HIDE DEF c
<1>4. CASE n \in ConfiguredInstances
  <2>1. UNCHANGED <<step, api, raced>>
    BY <1>4 DEF SubmitUser
  <2>2. SavedWasTested' /\ NamesDiffer' /\ Present' = Present
        /\ ConfiguredInstances' = ConfiguredInstances
    BY <1>2, <2>1, EntriesStay DEF TypeOK
  <2>3. TypeOK'
    BY <1>2, <1>3, <2>1 DEF TypeOK
  <2>4. FlowInv'
    BY <1>2, <2>1, <2>2 DEF TypeOK, FlowInv
  <2>5. NewNames'
    BY <1>2, <2>1, <2>2 DEF TypeOK, NewNames, Adding
  <2> QED
    BY <2>2, <2>3, <2>4, <2>5
<1>5. CASE n \notin ConfiguredInstances
  <2>1. /\ step' = [step EXCEPT ![f] = "testing"] /\ api' = [api EXCEPT ![f] = Conn(c)]
        /\ raced' = (raced \/ Racing(f, n))
    BY <1>5 DEF SubmitUser, Test, c
  <2>2. raced' \in {raced, TRUE}
    BY <2>1 DEF TypeOK
  <2>3. SavedWasTested' /\ NamesDiffer' /\ Present' = Present
        /\ ConfiguredInstances' = ConfiguredInstances
    BY <1>2, <2>2, EntriesStay DEF TypeOK
  <2>4. TypeOK'
    BY <1>1, <1>2, <1>3, <2>1, <2>2, ConnOfConfig DEF TypeOK
  <2>5. FlowInv'
    BY <1>1, <1>2, <2>1, <2>3 DEF TypeOK, FlowInv
  <2>6. NewNames'
    BY <1>1, <1>2, <1>5, <2>1, <2>3 DEF TypeOK, NewNames, Adding, Racing
  <2> QED
    BY <2>3, <2>4, <2>5, <2>6
<1> QED
  BY <1>4, <1>5

\* An entry that is saved keeps its name, or is new with a name that is new: if
\* its connection was tested all entries' are, and names stay different.
LEMMA SavedInv ==
  ASSUME IInv, NEW f \in Flows, NEW e \in Entries, NEW c \in Configs,
         Save(e, c), End({f}), tested \subseteq tested', tested' \subseteq Conns, raced' = raced,
         Conn(c) \in tested',
         \/ about[f] = e /\ e \in Present /\ c.name = entries[e].name
         \/ Adding(f) /\ e \notin Present /\ c = config[f]
  PROVE  IInv'
<1> USE DEF IInv
<1>1. /\ entries' \in [Entries -> Configs \cup {NoEntry}]
      /\ entries'[e] = c
      /\ \A d \in Entries \ {e} : entries'[d] = entries[d]
      /\ Present' = Present \cup {e}
  BY SaveEffect
<1>2. Present \subseteq Entries
  BY DEF Present
<1>3. TypeOK'
  BY <1>1, EndEffect DEF TypeOK
<1>4. SavedWasTested'
  BY <1>1, <1>2 DEF SavedWasTested
<1>5. \A d \in Present : entries'[d].name = entries[d].name
  BY <1>1, <1>2
<1>6. FlowInv'
  BY <1>1, <1>2, <1>5, EndEffect, SMTT(20) DEF FlowInv
<1>7. ASSUME ~raced PROVE NamesDiffer' /\ NewNames'
  <2>1. CASE e \in Present
    <3>1. Present' = Present /\ ConfiguredInstances' = ConfiguredInstances
      BY <1>1, <1>5, <2>1 DEF ConfiguredInstances
    <3>2. NamesDiffer'
      BY <1>5, <1>7, <3>1 DEF NamesDiffer
    <3>3. \A g \in Flows : Adding(g)' => Adding(g) /\ config'[g] = config[g]
      BY EndEffect DEF Adding
    <3>4. NewNames'
      BY <1>7, <3>1, <3>3 DEF NewNames
    <3> QED
      BY <3>2, <3>4
  <2>2. CASE e \notin Present
    <3>1. Adding(f) /\ c = config[f]
      BY <2>2
    <3>2. c.name \notin ConfiguredInstances
      BY <1>7, <3>1 DEF NewNames
    <3>3. ConfiguredInstances' = ConfiguredInstances \cup {c.name}
      BY <1>1, <1>2, <1>5, <2>2 DEF ConfiguredInstances
    <3>4. NamesDiffer'
      BY <1>1, <1>2, <1>5, <1>7, <2>2, <3>2 DEF NamesDiffer, ConfiguredInstances
    <3>5. NewNames'
      <4>1. SUFFICES ASSUME NEW g \in Flows, Adding(g)', ~raced'
                     PROVE  /\ config'[g].name \notin ConfiguredInstances'
                            /\ \A h \in Flows \ {g} : Adding(h)' => config'[h].name # config'[g].name
        BY DEF NewNames
      <4>2. \A h \in Flows : Adding(h)' => h # f /\ Adding(h) /\ config'[h] = config[h]
        BY EndEffect DEF Adding
      <4>3. config[g].name # c.name /\ config[g].name \notin ConfiguredInstances
        BY <1>7, <3>1, <4>1, <4>2 DEF NewNames
      <4> QED
        BY <1>7, <3>3, <4>1, <4>2, <4>3 DEF NewNames
    <3> QED
      BY <3>4, <3>5
  <2> QED
    BY <2>1, <2>2
<1> QED
  BY <1>3, <1>4, <1>6, <1>7 DEF NamesDiffer, NewNames

\* A connection that did not change is one of an entry, which was tested.
LEMMA SubmitReconfigureInv ==
  ASSUME IInv, Resubmits = FALSE, NEW f \in Flows, NEW h \in Hosts, NEW k \in Keys,
         SubmitReconfigure(f, h, k)
  PROVE  IInv'
<1> USE DEF IInv
<1> DEFINE c == Updated(f, h, k)
<1> DEFINE e == about[f]
<1>1. step[f] = "form" /\ e \in Present /\ UNCHANGED <<tested, raced>>
  BY DEF SubmitReconfigure, Submittable
<1>2. e \in Entries /\ e # None
  BY <1>1, NoneAssumption DEF Present
<1>3. config[f] \in Configs /\ config[f].name = entries[e].name
  BY <1>2 DEF FlowInv
<1>4. c \in Configs /\ c.name = entries[e].name
  BY <1>3 DEF Updated, Typed, Configs
<1>5. c \in [name : Names \cup {None}, host : Hosts \cup {None}, key : Keys \cup {None}]
  BY <1>4 DEF Configs
<1>6. CASE ConnectionChanged(c, e)
  <2>1. /\ config' = [config EXCEPT ![f] = c] /\ step' = [step EXCEPT ![f] = "testing"]
        /\ api' = [api EXCEPT ![f] = Conn(c)] /\ UNCHANGED <<entries, about>>
    BY <1>6 DEF SubmitReconfigure, Test
  <2> HIDE DEF c
  <2>2. SavedWasTested' /\ NamesDiffer' /\ Present' = Present
        /\ ConfiguredInstances' = ConfiguredInstances
    BY <1>1, <2>1, EntriesStay DEF TypeOK
  <2>3. TypeOK'
    BY <1>1, <1>4, <1>5, <2>1, ConnOfConfig DEF TypeOK
  <2>4. FlowInv'
    BY <1>1, <1>4, <2>1, <2>2 DEF TypeOK, FlowInv
  <2>5. NewNames'
    BY <1>1, <1>2, <2>1, <2>2 DEF TypeOK, NewNames, Adding
  <2> QED
    BY <2>2, <2>3, <2>4, <2>5
<1>7. CASE ~ConnectionChanged(c, e)
  <2>1. Save(e, c) /\ End({f})
    BY <1>7 DEF SubmitReconfigure
  <2>2. Conn(c) \in tested
    BY <1>1, <1>7 DEF ConnectionChanged, SavedWasTested
  <2>3. tested \subseteq Conns
    BY DEF TypeOK
  <2> QED
    BY <1>1, <1>2, <1>4, <2>1, <2>2, <2>3, SavedInv
<1> QED
  BY <1>6, <1>7

\* The connection that passed is the one that is saved.
LEMMA TestPassesInv ==
  ASSUME IInv, NEW f \in Flows, TestPasses(f) PROVE IInv'
<1> USE DEF IInv
<1>1. /\ step[f] = "testing" /\ tested' = tested \cup {api[f]} /\ End({f}) /\ raced' = raced
  BY DEF TestPasses
<1>2. config[f] \in Configs /\ api[f] = Conn(config[f])
  BY <1>1 DEF FlowInv
<1>3. Conn(config[f]) \in tested' /\ tested \subseteq tested' /\ tested' \subseteq Conns
  BY <1>1, <1>2, ConnOfConfig DEF TypeOK
<1>4. ASSUME about[f] = None, NEW e \in Entries \ Present, Save(e, config[f]) PROVE IInv'
  BY <1>1, <1>2, <1>3, <1>4, SavedInv DEF Adding
<1>5. CASE about[f] \in Present /\ Save(about[f], config[f])
  <2>1. about[f] \in Entries /\ about[f] # None
    BY <1>5, NoneAssumption DEF Present
  <2>2. config[f].name = entries[about[f]].name
    BY <2>1 DEF FlowInv
  <2> QED
    BY <1>1, <1>2, <1>3, <1>5, <2>1, <2>2, SavedInv
<1> QED
  BY <1>4, <1>5 DEF TestPasses

LEMMA RemoveInv ==
  ASSUME IInv, NEW e \in Entries, Remove(e) PROVE IInv'
<1> USE DEF IInv
<1> DEFINE F == {f \in Flows : about[f] = e}
<1>1. e \in Present /\ Save(e, NoEntry) /\ End(F) /\ UNCHANGED <<tested, raced>>
  BY DEF Remove
<1>2. /\ entries' \in [Entries -> Configs \cup {NoEntry}]
      /\ entries'[e] = NoEntry /\ \A d \in Entries \ {e} : entries'[d] = entries[d]
  BY <1>1 DEF Save, TypeOK
<1>3. Present' = Present \ {e} /\ \A d \in Present' : entries'[d] = entries[d]
  BY <1>2 DEF Present
<1>4. ConfiguredInstances' \subseteq ConfiguredInstances
  BY <1>3 DEF ConfiguredInstances
<1> HIDE DEF F
<1>5. TypeOK'
  BY <1>1, <1>2, EndEffect DEF TypeOK
<1>6. FlowInv'
  <2>1. \A f \in Flows : step'[f] = "testing" \/ about'[f] # None =>
          f \notin F /\ step'[f] = step[f] /\ about'[f] = about[f]
          /\ config'[f] = config[f] /\ api'[f] = api[f]
    BY <1>1, EndEffect
  <2>2. \A f \in Flows \ F : about[f] # e
    BY DEF F
  <2> QED
    BY <1>3, <2>1, <2>2 DEF FlowInv
<1>7. NewNames'
  <2>1. \A f \in Flows : Adding(f)' => Adding(f) /\ config'[f] = config[f]
    BY <1>1, EndEffect DEF Adding
  <2> QED
    BY <1>1, <1>4, <2>1 DEF NewNames
<1>8. SavedWasTested' /\ NamesDiffer'
  BY <1>1, <1>3 DEF SavedWasTested, NamesDiffer
<1> QED
  BY <1>5, <1>6, <1>7, <1>8

LEMMA NextInv ==
  ASSUME Resubmits = FALSE PROVE IInv /\ [Next]_vars => IInv'
<1> SUFFICES ASSUME IInv, [Next]_vars PROVE IInv'
  OBVIOUS
<1>1. ASSUME NEW f \in Flows, FlowStep(f) PROVE IInv'
  <2>1. CASE Open(f)
    BY <2>1, OpenInv
  <2>2. CASE Close(f)
    BY <2>2, EndInv DEF Close
  <2>3. CASE TestFails(f)
    BY <2>3, TestFailsInv
  <2>4. CASE TestPasses(f)
    BY <2>4, TestPassesInv
  <2>5. ASSUME NEW h \in Hosts, NEW k \in Keys, SubmitReconfigure(f, h, k)
        PROVE  IInv'
    BY <2>5, SubmitReconfigureInv
  <2>6. ASSUME NEW h \in Hosts, NEW k \in Keys, NEW n \in Names,
               SubmitUser(f, n, h, k)
        PROVE  IInv'
    BY <2>6, SubmitUserInv
  <2> QED
    BY <1>1, <2>1, <2>2, <2>3, <2>4, <2>5, <2>6 DEF FlowStep
<1>2. ASSUME NEW e \in Entries, Remove(e) PROVE IInv'
  BY <1>2, RemoveInv
<1>3. CASE UNCHANGED vars
  BY <1>3 DEF vars, flow, IInv, TypeOK, FlowInv, NewNames, SavedWasTested, NamesDiffer,
              Present, Adding, ConfiguredInstances
<1> QED
  BY <1>1, <1>2, <1>3 DEF Next

-----------------------------------------------------------------------------
\* If no form is submitted while its test runs, every entry has a connection
\* that passed a test, whatever flows, edits and removals overlap.
THEOREM SavedAreTested ==
  ASSUME Resubmits = FALSE PROVE Spec => []SavedWasTested
<1>1. IInv => SavedWasTested
  BY DEF IInv
<1> QED
  BY <1>1, InitInv, NextInv, PTL DEF Spec

\* And no two entries have one name, unless two flows tested it at once.
THEOREM NamesAreDifferent ==
  ASSUME Resubmits = FALSE PROVE Spec => []NamesDiffer
<1>1. IInv => NamesDiffer
  BY DEF IInv
<1> QED
  BY <1>1, InitInv, NextInv, PTL DEF Spec

-----------------------------------------------------------------------------
\* Types, also when a form is submitted again while its test runs: what is tested
\* or saved is complete.

Filled(f) == config[f] \in Configs

TypeInv ==
  /\ TypeOK
  /\ \A f \in Flows : step[f] = "testing" => Filled(f) /\ api[f] \in Conns
  /\ \A f \in Flows : about[f] # None => Filled(f)

\* A form that was submitted, tested or not, about the same entry as before.
LEMMA FormType ==
  ASSUME TypeInv, NEW f \in Flows, NEW c \in Configs, config' = [config EXCEPT ![f] = c],
         \/ UNCHANGED <<step, api>>
         \/ Test(f, c),
         UNCHANGED <<entries, about, tested>>, raced' \in BOOLEAN
  PROVE  TypeInv'
<1>1. c \in [name : Names \cup {None}, host : Hosts \cup {None}, key : Keys \cup {None}]
  BY DEF Configs
<1>2. Conn(c) \in Conns
  BY ConnOfConfig
<1>3. TypeOK'
  BY <1>1, <1>2, SMTT(20) DEF TypeInv, TypeOK, Test
<1>4. \A g \in Flows : config'[g] = IF g = f THEN c ELSE config[g]
  BY DEF TypeInv, TypeOK
<1>5. \A g \in Flows : step'[g] = "testing" /\ g # f => step[g] = "testing" /\ api'[g] = api[g]
  BY DEF Test, TypeInv, TypeOK
<1>6. step'[f] = "testing" => api'[f] \in Conns
  BY <1>2 DEF Test, TypeInv, TypeOK
<1> QED
  BY <1>3, <1>4, <1>5, <1>6 DEF TypeInv, Filled

\* Flows that end, with entries of their type.
LEMMA EndType ==
  ASSUME TypeInv, NEW F, End(F), entries' \in [Entries -> Configs \cup {NoEntry}],
         tested' \subseteq Conns, raced' = raced
  PROVE  TypeInv'
<1>1. TypeOK
  BY DEF TypeInv
<1>2. TypeOK'
  BY <1>1, EndEffect DEF TypeOK
<1>3. \A f \in Flows : step'[f] = "testing" \/ about'[f] # None =>
        step'[f] = step[f] /\ about'[f] = about[f] /\ config'[f] = config[f] /\ api'[f] = api[f]
  BY <1>1, EndEffect
<1> QED
  BY <1>2, <1>3 DEF TypeInv, Filled

LEMMA NextType == TypeInv /\ [Next]_vars => TypeInv'
<1> SUFFICES ASSUME TypeInv, [Next]_vars PROVE TypeInv'
  OBVIOUS
<1>0. TypeOK
  BY DEF TypeInv
<1>1. ASSUME NEW f \in Flows, Open(f) PROVE TypeInv'
  <2>1. CASE about' = [about EXCEPT ![f] = None] /\ config' = [config EXCEPT ![f] = Unset]
    BY <1>1, <2>1 DEF Open, TypeInv, TypeOK, Filled, Unset
  <2>2. ASSUME NEW e \in Present, about' = [about EXCEPT ![f] = e],
               config' = [config EXCEPT ![f] = entries[e]]
        PROVE  TypeInv'
    <3>1. entries[e] \in Configs /\ e \in Entries
      BY <1>0, PresentConfig DEF Present
    <3>2. TypeOK'
      BY <1>0, <1>1, <2>2, <3>1 DEF Open, TypeOK, Configs
    <3> QED
      BY <1>1, <2>2, <3>1, <3>2 DEF Open, TypeInv, TypeOK, Filled
  <2> QED
    BY <1>1, <2>1, <2>2 DEF Open
<1>2. ASSUME NEW f \in Flows, Close(f) PROVE TypeInv'
  BY <1>0, <1>2, EndType DEF Close, TypeOK
<1>3. ASSUME NEW f \in Flows, TestFails(f) PROVE TypeInv'
  BY <1>3 DEF TestFails, TypeInv, TypeOK, Filled
<1>4. ASSUME NEW f \in Flows, TestPasses(f) PROVE TypeInv'
  <2>1. config[f] \in Configs /\ api[f] \in Conns
    BY <1>4 DEF TestPasses, TypeInv, Filled
  <2>2. entries' \in [Entries -> Configs \cup {NoEntry}]
    BY <1>0, <1>4, <2>1, SaveEffect DEF TestPasses, Present
  <2> QED
    BY <1>0, <1>4, <2>1, <2>2, EndType DEF TestPasses, TypeOK
<1>5. ASSUME NEW f \in Flows, NEW h \in Hosts, NEW k \in Keys,
             SubmitReconfigure(f, h, k)
      PROVE  TypeInv'
  <2> DEFINE c == Updated(f, h, k)
  <2>1. about[f] \in Present /\ about[f] \in Entries /\ about[f] # None
    BY <1>5, NoneAssumption DEF SubmitReconfigure, Present
  <2>2. c \in Configs
    BY <2>1 DEF TypeInv, Filled, Updated, Typed, Configs
  <2> HIDE DEF c
  <2>3. CASE ConnectionChanged(c, about[f])
    BY <1>0, <1>5, <2>2, <2>3, FormType DEF SubmitReconfigure, c, TypeOK
  <2>4. CASE ~ConnectionChanged(c, about[f])
    <3>1. Save(about[f], c) /\ End({f}) /\ UNCHANGED <<tested, raced>>
      BY <1>5, <2>4 DEF SubmitReconfigure, c
    <3> QED
      BY <1>0, <2>1, <2>2, <3>1, SaveEffect, EndType DEF TypeOK
  <2> QED
    BY <2>3, <2>4
<1>6. ASSUME NEW f \in Flows, NEW h \in Hosts, NEW k \in Keys, NEW n \in Names,
             SubmitUser(f, n, h, k)
      PROVE  TypeInv'
  <2> DEFINE c == Typed(n, h, k)
  <2>1. c \in Configs /\ config' = [config EXCEPT ![f] = c]
    BY <1>6 DEF SubmitUser, Typed, Configs
  <2>2. (UNCHANGED <<step, api>> \/ Test(f, c)) /\ raced' \in BOOLEAN
    BY <1>0, <1>6 DEF SubmitUser, TypeOK
  <2> HIDE DEF c
  <2> QED
    BY <1>6, <2>1, <2>2, FormType DEF SubmitUser
<1>7. ASSUME NEW e \in Entries, Remove(e) PROVE TypeInv'
  BY <1>0, <1>7, EndType DEF Remove, Save, TypeOK
<1>8. CASE UNCHANGED vars
  BY <1>8 DEF vars, flow, TypeInv, TypeOK, Filled
<1> QED
  BY <1>1, <1>2, <1>3, <1>4, <1>5, <1>6, <1>7, <1>8 DEF Next, FlowStep

\* Forms, clients and entries are of their types: no flow saves an entry, or gives a
\* client to a test, that lacks a name, a host or a key, even when its form is
\* submitted again while its test runs.
THEOREM TypeCorrect == Spec => []TypeOK
<1>1. Init => TypeInv
  BY InitInv DEF Init, IInv, TypeInv
<1>2. TypeInv => TypeOK
  BY DEF TypeInv
<1> QED
  BY <1>1, <1>2, NextType, PTL DEF Spec

-----------------------------------------------------------------------------
(***************************************************************************)
(* The Repairs flow of orphaned statistics.                                *)
(***************************************************************************)

\* The type of one detection.
LEMMA IdleStatType == Idle \in [pc : {"idle", "list", "listed"}, ids : SUBSET Ids, old : BOOLEAN]
  BY DEF Idle

LEMMA StatInitType == StatInit => StatTypeOK
<1> SUFFICES ASSUME StatInit PROVE StatTypeOK
  OBVIOUS
<1>1. {recorded, doomed, registry, orphans} \subseteq SUBSET Ids /\ {issue, ignored} \subseteq BOOLEAN
  BY DEF StatInit
<1>2. detect \in [Polls -> [pc : {"idle", "list", "listed"}, ids : SUBSET Ids, old : BOOLEAN]]
  BY IdleStatType DEF StatInit
<1> QED
  BY <1>1, <1>2 DEF StatTypeOK

\* A detection of a poll, at each of its steps.
LEMMA DetectionType ==
  ASSUME StatTypeOK, NEW p \in Polls, Detection(p)
  PROVE  StatTypeOK'
<1> USE DEF StatTypeOK, recorder, shown
<1>1. CASE Begin(p)
  BY <1>1 DEF Begin
<1>2. CASE List(p)
  BY <1>2 DEF List
<1>3. CASE ListFails(p)
  BY <1>3, IdleStatType DEF ListFails
<1>4. CASE Compare(p)
  <2>1. detect'\in [Polls -> [pc : {"idle", "list", "listed"}, ids : SUBSET Ids, old : BOOLEAN]]
    BY <1>4, IdleStatType DEF Compare
  <2>2. detect[p].ids \ registry \subseteq Ids
    OBVIOUS
  <2> QED
    BY <1>4, <2>1, <2>2 DEF Compare, UpdateIssue
<1> QED
  BY <1>1, <1>2, <1>3, <1>4 DEF Detection

\* A reload marks the detections that are under way.
LEMMA ReloadType ==
  ASSUME StatTypeOK, Reload
  PROVE  /\ orphans' \subseteq Ids
         /\ detect' \in [Polls -> [pc : {"idle", "list", "listed"}, ids : SUBSET Ids,
                                   old : BOOLEAN]]
  BY DEF Reload, StatTypeOK

LEMMA UserType ==
  ASSUME StatTypeOK, User
  PROVE  StatTypeOK'
<1> USE DEF StatTypeOK, recorder, shown
<1>1. CASE Clear
  BY <1>1 DEF Clear
<1>2. CASE FixNothing
  BY <1>2 DEF FixNothing
<1>3. CASE Ignore
  BY <1>3, ReloadType DEF Ignore
<1>4. CASE SaveOptions
  BY <1>4, ReloadType DEF SaveOptions
<1> QED
  BY <1>1, <1>2, <1>3, <1>4 DEF User

LEMMA StatNextType == StatTypeOK /\ [StatNext]_statVars => StatTypeOK'
<1> SUFFICES ASSUME StatTypeOK, [StatNext]_statVars PROVE StatTypeOK'
  OBVIOUS
<1> USE DEF recorder, shown
<1>1. CASE RegistryChanges
  BY <1>1 DEF RegistryChanges, Register, Unregister, Rename, StatTypeOK
<1>2. CASE Compile \/ Delete
  BY <1>2 DEF Compile, Delete, StatTypeOK
<1>3. CASE UNCHANGED statVars
  BY <1>3 DEF statVars, StatTypeOK
<1> QED
  BY <1>1, <1>2, <1>3, UserType, DetectionType DEF StatNext

\* The recorder, the detections and the issue keep their type.
THEOREM StatTypeCorrect == StatSpec => []StatTypeOK
  BY StatInitType, StatNextType, PTL DEF StatSpec

-----------------------------------------------------------------------------
\* Whoever makes the issue asks for the option in the same step, and whoever sets
\* the option removes the issue.
LEMMA StatNextQuiet == IgnoredIsQuiet /\ [StatNext]_statVars => IgnoredIsQuiet'
<1> SUFFICES ASSUME IgnoredIsQuiet, [StatNext]_statVars PROVE IgnoredIsQuiet'
  OBVIOUS
<1> USE DEF IgnoredIsQuiet, recorder, shown
<1>1. CASE RegistryChanges \/ Compile \/ Delete
  BY <1>1 DEF RegistryChanges, Compile, Delete
<1>2. CASE User
  BY <1>2 DEF User, Clear, FixNothing, Ignore, SaveOptions
<1>3. ASSUME NEW p \in Polls, Detection(p) PROVE IgnoredIsQuiet'
  BY <1>3 DEF Detection, Begin, List, ListFails, Compare, UpdateIssue
<1>4. CASE UNCHANGED statVars
  BY <1>4 DEF statVars
<1> QED
  BY <1>1, <1>2, <1>3, <1>4 DEF StatNext

\* An ignored issue does not come back, however many detections were under way
\* when it was ignored and whatever reload they outlived.
THEOREM IgnoredStaysQuiet == StatSpec => []IgnoredIsQuiet
<1>1. StatInit => IgnoredIsQuiet
  BY DEF StatInit, IgnoredIsQuiet
<1> QED
  BY <1>1, StatNextQuiet, PTL DEF StatSpec
=============================================================================
