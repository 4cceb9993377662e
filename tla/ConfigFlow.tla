------------------------------ MODULE ConfigFlow ------------------------------
(***************************************************************************)
(* The configuration flows (config_flow.py): a user adds a server, or      *)
(* reconfigures the connection of one.  A flow keeps what was typed in     *)
(* truenas_config from one form to the next, tests the connection in an    *)
(* executor thread, and saves.  Other flows run meanwhile.                 *)
(*                                                                         *)
(* Abstracted: verify_ssl is part of the host, and a host that cannot be   *)
(* used (ValueError) is one whose test fails; error texts; the settings of *)
(* a form that are not about the connection.  What connection_test does is *)
(* TrueNASAPI's; here it passes or fails.  The options form is SaveOptions *)
(* of Entities and Statistics.                                             *)
(***************************************************************************)
CONSTANTS
  Flows,     \* forms that may be open at once
  Entries,   \* config entries there may be
  Names,     \* names a user may type
  SameSlug,  \* pairs of names that differ in case only: one slug in unique ids
  Hosts, Keys,
  Blank,     \* the key field left empty: a text like any other to the user step
  None,
  Resubmits  \* may a form be submitted again while its test runs?

ASSUME NoneAssumption == None \notin Names \cup Hosts \cup Keys \cup Entries
ASSUME BlankAssumption == Blank \in Keys

VARIABLES
  entries,   \* config entries: name, host and key, or None
  step,      \* where each flow is
  about,     \* the entry it reconfigures, or None for a new one
  config,    \* its truenas_config
  api,       \* the connection its test was given
  tested,    \* history: connections that passed a test
  raced      \* history: two flows tested a new entry of the same name at once

flow == <<step, about, config, api>>
vars == <<entries, flow, tested, raced>>

Conn(c) == <<c.host, c.key>>
Conns   == Hosts \X Keys
Configs == [name : Names, host : Hosts, key : Keys]
NoConn  == <<None, None>>
Unset   == [name |-> None, host |-> None, key |-> None]
NoEntry == Unset
Present == {e \in Entries : entries[e] # NoEntry}

TypeOK ==
  /\ entries \in [Entries -> Configs \cup {NoEntry}]
  /\ step \in [Flows -> {"off", "form", "testing"}]
  /\ about \in [Flows -> Entries \cup {None}]
  /\ config \in [Flows -> [name : Names \cup {None}, host : Hosts \cup {None},
                           key : Keys \cup {None}]]
  /\ api \in [Flows -> Conns \cup {NoConn}]
  /\ tested \subseteq Conns /\ raced \in BOOLEAN

Init ==
  /\ entries = [e \in Entries |-> NoEntry]
  /\ step = [f \in Flows |-> "off"] /\ about = [f \in Flows |-> None]
  /\ config = [f \in Flows |-> Unset] /\ api = [f \in Flows |-> NoConn]
  /\ tested = {} /\ raced = FALSE

\* A flow starts: for a new entry, or with the data of the entry it is about.
Open(f) ==
  /\ step[f] = "off"
  /\ \/ about' = [about EXCEPT ![f] = None] /\ config' = [config EXCEPT ![f] = Unset]
     \/ \E e \in Present : /\ about' = [about EXCEPT ![f] = e]
                           /\ config' = [config EXCEPT ![f] = entries[e]]
  /\ step' = [step EXCEPT ![f] = "form"]
  /\ UNCHANGED <<entries, api, tested, raced>>

\* Flows end, with all they kept.
Without(s, F, none) == [f \in Flows |-> IF f \in F THEN none ELSE s[f]]
End(F) ==
  /\ step' = Without(step, F, "off") /\ about' = Without(about, F, None)
  /\ config' = Without(config, F, Unset) /\ api' = Without(api, F, NoConn)

\* The user closes the dialog.
Close(f) == step[f] = "form" /\ End({f}) /\ UNCHANGED <<entries, tested, raced>>

\* truenas_config.update(user_input): all that a form asks for is in the input ...
Typed(n, h, k) == [name |-> n, host |-> h, key |-> k]

\* Variant of Updated: the input takes the place of what there was.
UpdatedAnew(f, h, k) == Typed(config[f].name, h, IF k = Blank THEN None ELSE k)

\* ... but for a key left blank in a reconfiguration, which keeps the one there is.
Updated(f, h, k) ==
  Typed(config[f].name, h, IF k = Blank THEN config[f].key ELSE k)

\* A client is made of what is in truenas_config now, and its test begins.
Test(f, c) == step' = [step EXCEPT ![f] = "testing"] /\ api' = [api EXCEPT ![f] = Conn(c)]

Submittable(f) == step[f] = "form" \/ (Resubmits /\ step[f] = "testing")

\* configured_instances.  Variant: the check is forgotten.
NoNames == {}
ConfiguredInstances == {entries[e].name : e \in Present}

Racing(f, n) ==
  \E g \in Flows \ {f} : step[g] = "testing" /\ about[g] = None /\ config[g].name = n

\* async_step_user: the name must be new, then the connection is tested.
SubmitUser(f, n, h, k) ==
  /\ Submittable(f) /\ about[f] = None
  /\ config' = [config EXCEPT ![f] = Typed(n, h, k)]
  /\ IF n \in ConfiguredInstances
     THEN UNCHANGED <<step, api, raced>>
     ELSE Test(f, Typed(n, h, k)) /\ raced' = (raced \/ Racing(f, n))
  /\ UNCHANGED <<entries, about, tested>>

\* Have the settings of the connection changed?  Variant: only the host counts.
HostChanged(c, e) == c.host # entries[e].host
ConnectionChanged(c, e) == Conn(c) # Conn(entries[e])

Save(e, c) == entries' = [entries EXCEPT ![e] = c]

\* async_step_reconfigure: a connection that did not change is not tested.
SubmitReconfigure(f, h, k) ==
  /\ Submittable(f) /\ about[f] \in Present
  /\ LET c == Updated(f, h, k) IN
       IF ConnectionChanged(c, about[f])
       THEN /\ config' = [config EXCEPT ![f] = c] /\ Test(f, c)
            /\ UNCHANGED <<entries, about>>
       ELSE Save(about[f], c) /\ End({f})
  /\ UNCHANGED <<tested, raced>>

\* TrueNAS logs nobody in with a blank key.
Accepted(f) == api[f] \in Hosts \X (Keys \ {Blank})

\* The test is over: the error is shown and the form stays, or what is in
\* truenas_config now is saved.
TestFails(f) ==
  /\ step[f] = "testing"
  /\ step' = [step EXCEPT ![f] = "form"]
  /\ UNCHANGED <<entries, about, config, api, tested, raced>>

TestPasses(f) ==
  /\ step[f] = "testing" /\ Accepted(f)
  /\ tested' = tested \cup {api[f]}
  /\ \/ about[f] = None /\ \E e \in Entries \ Present : Save(e, config[f])
     \/ about[f] \in Present /\ Save(about[f], config[f])
  /\ End({f})
  /\ UNCHANGED raced

\* The user removes an entry; Home Assistant aborts the flows about it.
Remove(e) ==
  /\ e \in Present
  /\ Save(e, NoEntry) /\ End({f \in Flows : about[f] = e})
  /\ UNCHANGED <<tested, raced>>

FlowStep(f) ==
  \/ Open(f) \/ Close(f) \/ TestFails(f) \/ TestPasses(f)
  \/ \E h \in Hosts, k \in Keys :
       SubmitReconfigure(f, h, k) \/ \E n \in Names : SubmitUser(f, n, h, k)

Next == (\E f \in Flows : FlowStep(f)) \/ (\E e \in Entries : Remove(e))

Spec == Init /\ [][Next]_vars
-----------------------------------------------------------------------------
\* The connection of an entry passed a test, as it was saved or before: whatever
\* was typed before in this flow, and however other flows changed the entry
\* while the form was open or its test ran.
SavedWasTested == \A e \in Present : Conn(entries[e]) \in tested

\* No two entries have one name ("Check if instance with this name already
\* exists"): they would share unique ids.  The check comes before the test, so
\* behaviours in which two flows test the same name at once are left out.
NamesDiffer == raced \/ \A d, e \in Present : d # e => entries[d].name # entries[e].name

\* What makes these two inductive, when a form is not submitted while its test
\* runs: the connection under test is the one that will be saved, a flow knows
\* the name of its entry, and the names under test are new.
Adding(f) == step[f] = "testing" /\ about[f] = None

FlowInv ==
  /\ \A f \in Flows : step[f] = "testing" => config[f] \in Configs /\ api[f] = Conn(config[f])
  /\ \A f \in Flows : about[f] # None =>
       /\ about[f] \in Present /\ config[f] \in Configs
       /\ config[f].name = entries[about[f]].name

NewNames ==
  raced \/ \A f \in Flows : Adding(f) =>
    /\ config[f].name \notin ConfiguredInstances
    /\ \A g \in Flows \ {f} : Adding(g) => config[g].name # config[f].name

\* No two entries share their unique ids, which contain the name in lower case.
SlugsDiffer ==
  raced \/ \A d, e \in Present : d # e => <<entries[d].name, entries[e].name>> \notin SameSlug

\* The name check holds for flows that overlap.
NamesAlwaysDiffer == \A d, e \in Present : d # e => entries[d].name # entries[e].name
=============================================================================
