------------------------------ MODULE RpcChannel ------------------------------
(***************************************************************************)
(* What the client promises its callers: one line to the server, shared by *)
(* exchanging one request and its answer at a time.                        *)
(*                                                                         *)
(* A caller is idle, calling, in an exchange with nothing sent, or waiting *)
(* for the answer to what it sent; it is left answered when its query      *)
(* returned a result.  The line is down, free, or owes an answer.  An      *)
(* exchange ends with its answer or with the line down, so nobody ever     *)
(* meets an answer to somebody else's request.                             *)
(***************************************************************************)
CONSTANT Callers

VARIABLES line, phase

Lines  == {"down", "free", "owing"}
Phases == {"idle", "calling", "exchange", "waiting", "answered"}

ChannelTypeOK == line \in Lines /\ phase \in [Callers -> Phases]

ChannelInit == line = "down" /\ phase = [c \in Callers |-> "idle"]

Moves(c, from, to) ==
  /\ phase[c] \in from
  /\ \E p \in to : phase' = [phase EXCEPT ![c] = p]

Busy == \E c \in Callers : phase[c] \in {"exchange", "waiting"}

Call(c)  == Moves(c, {"idle", "answered"}, {"calling"}) /\ UNCHANGED line
Fail(c)  == Moves(c, {"calling"}, {"idle"}) /\ UNCHANGED line

\* An exchange begins when there is no other, and so with nothing owed.
Begin(c) == Moves(c, {"calling"}, {"exchange"}) /\ ~Busy /\ line # "owing"
            /\ UNCHANGED line

\* A request may also be written to a line that has just gone down.
Send(c) ==
  /\ Moves(c, {"exchange"}, {"waiting"})
  /\ \/ line = "free" /\ line' = "owing"
     \/ line = "down" /\ UNCHANGED line

\* The answer arrives; it may have arrived just before the line went down.  A
\* login goes on with its next request, another call goes on or returns.
Reply(c) ==
  /\ Moves(c, {"waiting"}, {"exchange", "calling", "idle", "answered"})
  /\ \/ line = "owing" /\ line' = "free"
     \/ line = "down" /\ UNCHANGED line

\* A caller stops waiting, but stays in its exchange.
TimeOut(c) == Moves(c, {"waiting"}, {"exchange"}) /\ UNCHANGED line

\* Without its answer a caller leaves only when the line is down.
GiveUp(c) == Moves(c, {"exchange", "waiting"}, {"calling", "idle"})
             /\ line = "down" /\ UNCHANGED line

\* The peer drops the line at any time, or a caller takes it down; a new one
\* is installed only outside of exchanges.
GoDown == line' = "down" /\ UNCHANGED phase
GoUp   == ~Busy /\ line # "owing" /\ line' = "free" /\ UNCHANGED phase

ChannelNext ==
  \/ \E c \in Callers : \/ Call(c) \/ Fail(c) \/ Begin(c) \/ Send(c)
                        \/ Reply(c) \/ TimeOut(c) \/ GiveUp(c)
  \/ GoDown \/ GoUp

ChannelSpec == ChannelInit /\ [][ChannelNext]_<<line, phase>>
=============================================================================
