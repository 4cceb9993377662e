------------------------------- MODULE MCClient -------------------------------
(***************************************************************************)
(* Three uses of one client: the config flow, one thread that calls every  *)
(* method; two threads of a poll; a poll and the thread that unloads the   *)
(* entry and closes the client.  A behaviour is one of them; use says which.*)
(***************************************************************************)
EXTENDS MCTrueNASAPI

CONSTANT spare  \* the third connection, which only the config flow opens

ASSUME FlowAssumption == p1 \in Threads  \* the thread of the config flow

VARIABLE use

AnyCalls == (p1 :> CallKinds) @@ PollAndClose

\* Which thread makes which calls in each use.
Uses == [configFlow |-> [t \in {p1} |-> CallKinds],
         twoPolls   |-> PollTwice,
         unloading  |-> PollOnceAndClose]

ClientInit == Init /\ use \in DOMAIN Uses

ClientNext ==
  /\ Next
  /\ \A t \in Threads : At(t, "idle") /\ pc'[t] # "idle" =>
       t \in DOMAIN Uses[use] /\ call'[t] \in Uses[use][t]
  /\ use # "configFlow" => sock'[spare] = "unused"
  /\ UNCHANGED use

ClientSpec == ClientInit /\ [][ClientNext]_<<vars, use>> /\ Fairness

-----------------------------------------------------------------------------
\* A property that one thread's calls keep and polling threads do not.

\* connection_test says what is true (TestVerdict).
FlowTestVerdict == use = "configFlow" => TestVerdict

\* Why: one thread is alone.
FlowInv == use = "configFlow" => OneInv(p1)
=============================================================================
