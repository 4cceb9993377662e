----------------------------- MODULE MCConfigFlow -----------------------------
(***************************************************************************)
(* Instances of ConfigFlow: two overlapping flows, two entries.            *)
(***************************************************************************)
EXTENDS ConfigFlow, TLC

\* Flows, entries, hosts, names and keys, but for the blank one, are
\* interchangeable (SameSlug is empty or all pairs of different names).
Symmetry == Permutations(Flows) \cup Permutations(Entries) \cup Permutations(Hosts)
              \cup Permutations(Keys \ {Blank}) \cup Permutations(Names)

AllSame == {p \in Names \X Names : p[1] # p[2]}
=============================================================================
