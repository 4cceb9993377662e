------------------------------ MODULE Statistics ------------------------------
(***************************************************************************)
(* Orphaned long-term statistics: each poll lists the statistics of the    *)
(* recorder and compares them with the entity registry; a button and a      *)
(* Repairs issue offer to delete those without an entity, or to ignore them. *)
(*                                                                         *)
(* Everything but the recorder runs on the event loop, where a detection is *)
(* suspended while the recorder lists its statistics.  Refreshes overlap, so *)
(* detections do.  A deletion is queued in the recorder.                    *)
(*                                                                         *)
(* Abstracted: the statistics of other integrations; the count in the text  *)
(* of the issue; a second config entry.                                    *)
(***************************************************************************)
EXTENDS Naturals

CONSTANTS
  Ids,     \* sensor entity ids with this integration's prefix
  Polls    \* the refreshes that may be under way at the same time

VARIABLES
  recorded,   \* recorder: the ids that have statistics
  doomed,     \* recorder: the ids whose statistics are queued for deletion
  registry,   \* the ids that are entities
  detect,     \* per poll: where its detection is, the listed ids, and whether it
              \* is one of the coordinator that a reload has replaced
  orphans,    \* coordinator.orphaned_statistics
  issue,      \* does the Repairs issue exist?
  ignored     \* the option CONF_STATISTICS_CLEANUP_IGNORED

recorder == <<recorded, doomed>>
shown    == <<orphans, issue>>
statVars == <<recorder, registry, detect, shown, ignored>>

StatTypeOK ==
  /\ {recorded, doomed, registry, orphans} \subseteq SUBSET Ids
  /\ detect \in [Polls -> [pc : {"idle", "list", "listed"}, ids : SUBSET Ids,
                        old : BOOLEAN]]
  /\ {issue, ignored} \subseteq BOOLEAN

Idle == [pc |-> "idle", ids |-> {}, old |-> FALSE]

StatInit ==
  /\ recorded \in SUBSET Ids /\ registry \in SUBSET Ids /\ doomed = {}
  /\ detect = [p \in Polls |-> Idle]
  /\ orphans = {} /\ issue = FALSE /\ ignored = FALSE

-----------------------------------------------------------------------------
\* Outside the coordinator: entities come (discovery), go (cleanup, the user)
\* and are renamed; the recorder compiles statistics and works off its queue.

Register(i)   == registry' = registry \cup {i}
Unregister(i) == registry' = registry \ {i}
Rename(i, j)  == i \in registry /\ j \notin registry
                 /\ registry' = (registry \ {i}) \cup {j}

RegistryChanges ==
  /\ \E i \in Ids : Register(i) \/ Unregister(i) \/ \E j \in Ids : Rename(i, j)
  /\ UNCHANGED <<recorder, detect, shown, ignored>>

Compile ==
  /\ \E i \in registry : recorded' = recorded \cup {i}
  /\ UNCHANGED <<doomed, registry, detect, shown, ignored>>

Delete ==
  /\ doomed # {}
  /\ recorded' = recorded \ doomed /\ doomed' = {}
  /\ UNCHANGED <<registry, detect, shown, ignored>>

-----------------------------------------------------------------------------
\* async_detect_orphaned_statistics, at the end of a refresh that succeeded

Begin(p) ==
  /\ detect[p].pc = "idle"
  /\ detect' = [detect EXCEPT ![p].pc = "list"]
  /\ UNCHANGED <<recorder, registry, shown, ignored>>

\* The recorder answers, or raises, which ends the detection.
List(p) ==
  /\ detect[p].pc = "list"
  /\ detect' = [detect EXCEPT ![p] = [@ EXCEPT !.pc = "listed", !.ids = recorded]]
  /\ UNCHANGED <<recorder, registry, shown, ignored>>

ListFails(p) ==
  /\ detect[p].pc = "list"
  /\ detect' = [detect EXCEPT ![p] = Idle]
  /\ UNCHANGED <<recorder, registry, shown, ignored>>

\* Variant of UpdateIssue: the option is not asked for.
UpdateIssueAny(found) == issue' = (found # {})

\* _update_statistics_issue
UpdateIssue(found) == issue' = (found # {} /\ ~ignored)

\* Variant of Compare: what was found before stays.
CompareAdds(p) ==
  /\ detect[p].pc = "listed"
  /\ LET found == orphans \cup (detect[p].ids \ registry)
     IN orphans' = found /\ UpdateIssue(found)
  /\ detect' = [detect EXCEPT ![p] = Idle]
  /\ UNCHANGED <<recorder, registry, ignored>>

\* Variant of Compare: the ids are kept with what the registry says of them.
CompareRaw(p) ==
  /\ detect[p].pc = "listed"
  /\ LET found == detect[p].ids \X {FALSE}
     IN orphans' = found /\ UpdateIssue(found)
  /\ detect' = [detect EXCEPT ![p] = Idle]
  /\ UNCHANGED <<recorder, registry, ignored>>

\* When the coroutine is resumed: the listed ids against the registry of now.
Compare(p) ==
  /\ detect[p].pc = "listed"
  /\ LET found == detect[p].ids \ registry
     IN /\ orphans' = IF detect[p].old THEN orphans ELSE found
        /\ UpdateIssue(found)
  /\ detect' = [detect EXCEPT ![p] = Idle]
  /\ UNCHANGED <<recorder, registry, ignored>>

Detection(p) == Begin(p) \/ List(p) \/ ListFails(p) \/ Compare(p)

-----------------------------------------------------------------------------
\* async_clear_orphaned_statistics, by the button or by the fix of the issue.
Clear ==
  /\ orphans # {}
  /\ doomed' = doomed \cup orphans
  /\ orphans' = {} /\ issue' = FALSE
  /\ UNCHANGED <<recorded, registry, detect, ignored>>

\* The fix of an issue that a reload has left without orphans deletes nothing; Home
\* Assistant (external) closes a fixed issue.
FixNothing ==
  /\ issue /\ orphans = {}
  /\ issue' = FALSE
  /\ UNCHANGED <<recorder, registry, detect, orphans, ignored>>

\* The options are saved, which reloads the entry: the coordinator of the new setup
\* knows of no orphans; a detection of the old one goes on and may still create or
\* delete the issue.
Reload ==
  /\ orphans' = {}
  /\ detect' = [p \in Polls |-> [detect[p] EXCEPT !.old = detect[p].pc # "idle"]]

\* async_step_ignore
Ignore ==
  /\ issue
  /\ ignored' = TRUE /\ issue' = FALSE /\ Reload
  /\ UNCHANGED <<recorder, registry>>

\* The options form replaces all options, and has no field for this one.
SaveOptions ==
  /\ ignored' = FALSE /\ Reload
  /\ UNCHANGED <<recorder, registry, issue>>

-----------------------------------------------------------------------------
User == Clear \/ FixNothing \/ Ignore \/ SaveOptions

StatNext ==
  \/ RegistryChanges \/ Compile \/ Delete \/ User
  \/ \E p \in Polls : Detection(p)

StatSpec == StatInit /\ [][StatNext]_statVars

\* The poll recurs, a suspended detection is resumed, the recorder answers again
\* and again and works off its queue.
StatFairness ==
  /\ WF_statVars(Delete)
  /\ \A p \in Polls : /\ WF_statVars(Begin(p)) /\ SF_statVars(List(p))
                      /\ WF_statVars(Compare(p))

FairStatSpec == StatSpec /\ StatFairness

-----------------------------------------------------------------------------
\* An ignored issue does not come back, not even by a detection that was already
\* under way when it was ignored.
IgnoredIsQuiet == ignored => ~issue

\* When entities, recorder and options rest, the orphans offered for deletion are
\* those there are, and the issue exists if there are any and nobody ignored them,
\* whatever overlapping detections and reloads did before.
ShowsOrphans ==
  \A r, g \in SUBSET Ids, i \in BOOLEAN :
    <>[](recorded = r /\ registry = g /\ ignored = i) /\ <>[][~SaveOptions]_statVars
      => <>[](orphans = r \ g /\ (issue <=> r \ g # {} /\ ~i))

\* "Ignore (don't notify again)" (the menu of the issue, translations/en.json).
DoNotNotifyAgain == [](ignored => []~issue)

\* Only statistics of entities that "no longer exist" are deleted (the text of
\* the issue, translations/en.json).
ClearsOnlyOrphans == [][(doomed' \ doomed) \cap registry = {}]_statVars
=============================================================================
