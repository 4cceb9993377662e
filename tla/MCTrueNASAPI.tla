----------------------------- MODULE MCTrueNASAPI -----------------------------
(***************************************************************************)
(* Instances of TrueNASAPI: a coordinator (two polling threads, and the    *)
(* unload that closes the client), two polling threads alone, and a poll   *)
(* with an unload.                                                         *)
(***************************************************************************)
EXTENDS TrueNASAPI, TLC

CONSTANTS p1, p2, unload

PollAndClose == (p1 :> {"query", "connect"}) @@ (p2 :> {"query"})
                @@ (unload :> {"close"})
PollTwice == (p1 :> {"query"}) @@ (p2 :> {"query"})
PollOnceAndClose == (p1 :> {"query"}) @@ (unload :> {"close"})

SocketSymmetry == Permutations(Sockets)
=============================================================================
