-------------------------- MODULE TrueNASAPI_proofs --------------------------
(***************************************************************************)
(* Theorems about the client: for any number of threads and sockets and    *)
(* any assignment of calls to threads, its invariants and that it is the   *)
(* channel of RpcChannel; as long as nobody disturbs a reconnection, that  *)
(* nothing is left open and that the flags say what is; for a client that  *)
(* one thread uses, that connection_test tells the truth.                  *)
(***************************************************************************)
EXTENDS MCClient, TLAPS

\* The ways a section of the code ends other than by going to its next label.
Leaves(t) ==
  \/ \E r \in {"ok", "failed"} : Finish(t, r)
  \/ ConnectSucceeds(t) \/ QuerySucceeds(t) \/ QueryFails(t) \/ ConnectFails(t)
  \/ ToVerdict(t)
  \/ \E l \in Returns : CallDisconnect(t, l)

\* Whichever way it ends, the thread is at one of five labels, at none of which
\* it has a request under way, and the per-thread state keeps its type.
LEMMA LeavesMoves ==
  ASSUME TypeOK, NEW t \in Threads, Leaves(t)
  PROVE  /\ \E l \in {"idle", "beginQuery", "checkConnected", "readVerdict", "takeSocket"} :
              pc' = [pc EXCEPT ![t] = l]
         /\ \E h \in Sockets \cup {None} : held' = [held EXCEPT ![t] = h]
         /\ call' \in [Threads -> CallKinds \cup {"testQuery"}]
         /\ after' \in [Threads -> Returns]
         /\ res' \in [Threads -> {"ok", "failed"}]
<1> DEFINE Out == {"idle", "beginQuery", "checkConnected", "readVerdict", "takeSocket"}
           Goal == /\ \E l \in Out : pc' = [pc EXCEPT ![t] = l]
                   /\ \E h \in Sockets \cup {None} : held' = [held EXCEPT ![t] = h]
                   /\ call' \in [Threads -> CallKinds \cup {"testQuery"}]
                   /\ after' \in [Threads -> Returns]
                   /\ res' \in [Threads -> {"ok", "failed"}]
<1>0. held[t] \in Sockets \cup {None} /\ held = [held EXCEPT ![t] = held[t]]
  BY DEF TypeOK
<1>1. ASSUME NEW r \in {"ok", "failed"}, Finish(t, r) PROVE Goal
  BY <1>1 DEF TypeOK, Finish, Goto
<1>2. ASSUME NEW l \in Returns, CallDisconnect(t, l) PROVE Goal
  BY <1>0, <1>2 DEF TypeOK, CallDisconnect, Goto
<1>3. CASE ConnectSucceeds(t)
  BY <1>0, <1>1, <1>3 DEF TypeOK, ConnectSucceeds, Goto
<1>4. ASSUME QueryFails(t) PROVE Goal
  BY <1>1, <1>2, <1>4 DEF QueryFails, Returns
<1>5. ASSUME ToVerdict(t) PROVE Goal
  BY <1>5 DEF TypeOK, ToVerdict, Goto
<1>6. CASE ConnectFails(t)
  BY <1>1, <1>4, <1>5, <1>6 DEF ConnectFails
<1>7. CASE QuerySucceeds(t)
  BY <1>1, <1>5, <1>7 DEF QuerySucceeds
<1>. QED
  BY <1>1, <1>2, <1>3, <1>4, <1>5, <1>6, <1>7 DEF Leaves

-----------------------------------------------------------------------------
\* The inductive invariant holds initially.

LEMMA InitInv == Init => IInv
<1> SUFFICES ASSUME Init PROVE IInv
  OBVIOUS
<1>1. TypeOK
  BY DEF Init, TypeOK, Pcs, CallKinds, Errors, Returns
<1>2. OwnInv
  BY DEF Init, OwnInv, Holder, At
<1>3. LockInv
  BY DEF Init, LockInv, Requesting, QueryPcs, LoginPcs
<1>4. PendingInv
  BY DEF Init, PendingInv, At
<1>. QED BY <1>1, <1>2, <1>3, <1>4 DEF IInv

\* Labels at which a thread has no request under way and no socket to install
\* or to close.
QuietPcs == Pcs \ (LoginPcs \cup QueryPcs \cup {"setSocket", "closeSocket"})

\* A step that only takes t to such a label, leaving the sockets alone, keeps
\* the invariant, as long as it does not walk away from an answer that is owed
\* on a live socket.
LEMMA QuietStep ==
  ASSUME TypeOK, OwnInv, LockInv, PendingInv, NEW t \in Threads,
         NEW l \in QuietPcs, pc' = [pc EXCEPT ![t] = l],
         NEW h \in Sockets \cup {None}, held' = [held EXCEPT ![t] = h],
         l \in {"lockLogin", "lockQuery"} => h # None,
         ioOwner' = ioOwner \/ (ioOwner = t /\ ioOwner' = None),
         pc[t] \in AwaitPcs \cup {"takeSocket"} =>
           \/ l = "takeSocket" /\ ioOwner' = ioOwner
           \/ ws # None => ws \notin pending' \/ sock[ws] # "open",
         ws' = ws, sock' = sock, pending' \in SUBSET pending
  PROVE  OwnInv' /\ LockInv' /\ PendingInv'
<1>0. /\ pc'[t] = l /\ held'[t] = h
      /\ \A u \in Threads \ {t} : pc'[u] = pc[u] /\ held'[u] = held[u]
  BY DEF TypeOK
<1>1. ~Holder(t)' /\ ~Requesting(t)' /\ pc'[t] # "setSocket"
  BY <1>0 DEF QuietPcs, Holder, Requesting
<1>2. OwnInv'
  BY <1>0, <1>1 DEF OwnInv, Holder, At
<1>3. LockInv'
  BY <1>0, <1>1 DEF LockInv, Requesting
<1>4. ASSUME ws # None, ws \in pending', sock[ws] = "open"
      PROVE  ioOwner' # None /\ pc'[ioOwner'] \in AwaitPcs \cup {"takeSocket"}
  <2>1. ioOwner \in Threads /\ pc[ioOwner] \in AwaitPcs \cup {"takeSocket"}
    BY <1>4 DEF PendingInv, TypeOK
  <2>2. CASE ioOwner = t
    BY <1>0, <1>4, <2>1, <2>2, NoneAssumption
  <2>3. CASE ioOwner # t
    BY <1>0, <2>1, <2>3, NoneAssumption
  <2>. QED BY <2>2, <2>3
<1>5. PendingInv'
  BY <1>0, <1>1, <1>4 DEF PendingInv, At
<1>. QED BY <1>2, <1>3, <1>5

\* The same for a section that ends by leaving its method.
LEMMA LeavesStep ==
  ASSUME TypeOK, OwnInv, LockInv, PendingInv, NEW t \in Threads, Leaves(t),
         ioOwner' = ioOwner \/ (ioOwner = t /\ ioOwner' = None),
         pc[t] \in AwaitPcs \cup {"takeSocket"} =>
           \/ CallDisconnect(t, after'[t]) /\ ioOwner' = ioOwner
           \/ ws # None => ws \notin pending' \/ sock[ws] # "open",
         ws' = ws, sock' = sock, pending' \in SUBSET pending
  PROVE  OwnInv' /\ LockInv' /\ PendingInv'
<1>1. PICK l \in {"idle", "beginQuery", "checkConnected", "readVerdict", "takeSocket"} :
        pc' = [pc EXCEPT ![t] = l]
  BY LeavesMoves
<1>2. PICK h \in Sockets \cup {None} : held' = [held EXCEPT ![t] = h]
  BY LeavesMoves
<1>3. l \in QuietPcs
  BY DEF QuietPcs, Pcs, LoginPcs, QueryPcs, ConnectPcs, DisconnectPcs
<1>4. CallDisconnect(t, after'[t]) => l = "takeSocket"
  BY <1>1 DEF CallDisconnect, Goto, TypeOK
<1>. QED BY <1>1, <1>2, <1>3, <1>4, QuietStep

-----------------------------------------------------------------------------
\* Every action preserves the types.

LEMMA LeavesTypes ==
  ASSUME TypeOK, NEW t \in Threads, Leaves(t)
  PROVE  /\ pc' \in [Threads -> Pcs]
         /\ held' \in [Threads -> Sockets \cup {None}]
         /\ call' \in [Threads -> CallKinds \cup {"testQuery"}]
         /\ after' \in [Threads -> Returns]
         /\ res' \in [Threads -> {"ok", "failed"}]
  BY LeavesMoves DEF TypeOK, Pcs, ConnectPcs, DisconnectPcs

LEMMA ConnectingTypes ==
  ASSUME TypeOK, NEW t \in Threads, Connecting(t)
  PROVE  TypeOK'
<1>1. CASE EnterConnect(t)
  BY <1>1, LeavesTypes DEF EnterConnect, Leaves, Goto, TypeOK, net, Errors, Pcs, ConnectPcs, HandshakePcs
<1>2. CASE Handshake(t)
  <2>1. ASSUME NEW s \in Sockets, Opens(s), held' = [held EXCEPT ![t] = s],
               Goto(t, "setSocket"), UNCHANGED <<error, call, after, res>>
        PROVE  TypeOK'
    BY <1>2, <2>1 DEF Handshake, Goto, Opens, TypeOK, Pcs, ConnectPcs
  <2>2. CASE Goto(t, "retryHandshake") /\ UNCHANGED <<error, sock, call, held, after, res>>
    BY <1>2, <2>2 DEF Handshake, Goto, TypeOK, Pcs, ConnectPcs, HandshakePcs
  <2>3. CASE error' = "ERR_CONNECTION" /\ ConnectFails(t) /\ UNCHANGED sock
    BY <1>2, <2>3, LeavesTypes DEF Handshake, Leaves, TypeOK, Errors
  <2>. QED BY <1>2, <2>1, <2>2, <2>3 DEF Handshake
<1>3. CASE SetSocket(t)
  BY <1>3 DEF SetSocket, Goto, TypeOK, net, flags, Pcs, ConnectPcs
<1>4. CASE ReadSocket(t)
  BY <1>4, LeavesTypes DEF ReadSocket, Leaves, Goto, TypeOK, net, Errors, Pcs, ConnectPcs, Returns
<1>5. CASE LockLogin(t)
  BY <1>5, LeavesTypes DEF LockLogin, Leaves, Goto, TypeOK, net, Errors, Pcs, ConnectPcs, LoginPcs, Returns
<1>6. CASE SendLogin(t)
  BY <1>6, LeavesTypes DEF SendLogin, Leaves, Sends, Goto, TypeOK, flags, Pcs, ConnectPcs, LoginPcs, Returns
<1>7. CASE LoginAnswered(t)
  BY <1>7, LeavesTypes DEF LoginAnswered, Leaves, Answered, Release, Goto, TypeOK, Errors, Pcs, ConnectPcs, LoginPcs, Returns
<1>8. CASE LoginTimeout(t) \/ LoginRaises(t) \/ AbortLogin(t) \/ ConnectFailed(t)
  BY <1>8, LeavesTypes DEF LoginTimeout, LoginRaises, AbortLogin, ConnectFailed, Leaves, Release, TypeOK, flags, net, Returns
<1>9. CASE SetConnected(t)
  BY <1>9, LeavesTypes DEF SetConnected, Leaves, TypeOK, net
<1>. QED BY <1>1, <1>2, <1>3, <1>4, <1>5, <1>6, <1>7, <1>8, <1>9 DEF Connecting
LEMMA DisconnectingTypes ==
  ASSUME TypeOK, NEW t \in Threads, Disconnecting(t)
  PROVE  TypeOK'
<1>1. CASE TakeSocket(t)
  BY <1>1 DEF TakeSocket, Goto, TypeOK, net, Pcs, DisconnectPcs
<1>2. CASE CloseSocket(t)
  <2>1. after[t] \in Pcs
    BY DEF TypeOK, Returns, Pcs, ConnectPcs
  <2>. QED BY <1>2, <2>1 DEF CloseSocket, Goto, TypeOK, flags
<1>3. CASE MarkClosed(t) \/ Returned(t)
  BY <1>3, LeavesTypes DEF MarkClosed, Returned, Leaves, TypeOK, flags, net, Returns
<1>. QED BY <1>1, <1>2, <1>3 DEF Disconnecting

LEMMA QueryingTypes ==
  ASSUME TypeOK, NEW t \in Threads, Querying(t)
  PROVE  TypeOK'
<1>1. CASE CheckConnected(t)
  <2>1. pc' \in [Threads -> Pcs]
    BY <1>1 DEF CheckConnected, Goto, TypeOK, Pcs, ConnectPcs
  <2> QED
    BY <1>1, <2>1 DEF CheckConnected, TypeOK, flags, net
<1>2. CASE BeginQuery(t)
  <2>1. /\ UNCHANGED <<connected, closed, ws, ioOwner, net>> /\ error' \in Errors
    BY <1>2 DEF BeginQuery, Errors
  <2>2. CASE Leaves(t)
    BY <2>1, <2>2, LeavesTypes DEF TypeOK, net
  <2>3. CASE ws # None /\ held' = [held EXCEPT ![t] = ws] /\ Goto(t, "lockQuery")
             /\ UNCHANGED <<call, after, res>>
    BY <2>1, <2>3 DEF Goto, TypeOK, net, Pcs, QueryPcs
  <2> QED
    BY <1>2, <2>2, <2>3 DEF BeginQuery, Leaves
<1>3. CASE LockQuery(t)
  BY <1>3, LeavesTypes DEF LockQuery, Leaves, Goto, TypeOK, net, Errors, Pcs, QueryPcs
<1>4. CASE SendQuery(t)
  BY <1>4, LeavesTypes DEF SendQuery, Leaves, Sends, Release, Goto, TypeOK, flags, Pcs, QueryPcs, Returns
<1>5. CASE QueryAnswered(t)
  BY <1>5, LeavesTypes DEF QueryAnswered, Leaves, Answered, Release, TypeOK, Errors
<1>6. CASE QueryTimeout(t) \/ QueryRaises(t) \/ AbortQuery(t) \/ FailQuery(t) \/ MarkFailed(t)
  BY <1>6, LeavesTypes DEF QueryTimeout, QueryRaises, AbortQuery, FailQuery, MarkFailed,
     Leaves, Release, TypeOK, flags, net, Errors, Returns
<1>7. CASE ReadVerdict(t)
  BY <1>7 DEF ReadVerdict, Goto, TypeOK, flags, net, Pcs, CallKinds
<1>. QED BY <1>1, <1>2, <1>3, <1>4, <1>5, <1>6, <1>7 DEF Querying

LEMMA StartTypes ==
  ASSUME TypeOK, NEW t \in Threads, Start(t)
  PROVE  TypeOK'
<1>1. PICK k \in Calls[t] :
        /\ Goto(t, Entry(k)) /\ call' = [call EXCEPT ![t] = k]
        /\ after' = [after EXCEPT ![t] = IF k = "reconnect" THEN "enterConnect" ELSE "returned"]
  BY DEF Start
<1>2. k \in CallKinds
  BY CallsAssumption
<1>3. Entry(k) \in Pcs
  BY <1>2 DEF Entry, CallKinds, Pcs, ConnectPcs, DisconnectPcs
<1>. QED BY <1>1, <1>2, <1>3 DEF Start, Goto, TypeOK, flags, net, Returns

LEMMA DropTypes ==
  ASSUME TypeOK, NEW s \in Sockets, Drop(s)
  PROVE  TypeOK'
  BY DEF Drop, TypeOK, flags

LEMMA NextTypes == TypeOK /\ [Next]_vars => TypeOK'
<1> SUFFICES ASSUME TypeOK, [Next]_vars PROVE TypeOK'
  OBVIOUS
<1>1. ASSUME NEW t \in Threads, Start(t) \/ Step(t) PROVE TypeOK'
  BY <1>1, StartTypes, ConnectingTypes, DisconnectingTypes, QueryingTypes DEF Step
<1>2. ASSUME NEW s \in Sockets, Drop(s) PROVE TypeOK'
  BY <1>2, DropTypes
<1>3. CASE UNCHANGED vars
  BY <1>3 DEF vars, TypeOK
<1>. QED BY <1>1, <1>2, <1>3 DEF Next

\* The state of the client always has its type.
THEOREM TypeCorrect == Spec => []TypeOK
<1>1. Init => TypeOK
  BY InitInv DEF IInv
<1>. QED BY <1>1, NextTypes, PTL DEF Spec

-----------------------------------------------------------------------------
\* Every action preserves the rest of the inductive invariant.

Safe == OwnInv /\ LockInv /\ PendingInv

\* QuietStep for a plain Goto.
LEMMA QuietGoto ==
  ASSUME TypeOK, Safe, NEW t \in Threads, NEW l \in QuietPcs, Goto(t, l),
         pc[t] \notin AwaitPcs \cup {"takeSocket"}, l \notin {"lockLogin", "lockQuery"},
         UNCHANGED <<ioOwner, held, ws, sock, pending>>
  PROVE  Safe'
<1>1. held[t] \in Sockets \cup {None} /\ held' = [held EXCEPT ![t] = held[t]]
  BY DEF TypeOK
<1>. QED BY <1>1, QuietStep DEF Safe, Goto

\* A step of a thread that checked the socket and owns _io_lock, or acquires it.
LEMMA RequestStep ==
  ASSUME TypeOK, Safe, NEW t \in Threads,
         NEW l \in LoginPcs \cup QueryPcs, Goto(t, l),
         ioOwner \in {None, t}, ioOwner' = t, ws = held[t], ws # None,
         UNCHANGED <<held, ws, sock>>, pending' \in SUBSET (pending \cup {ws}),
         ws \in pending' /\ sock[ws] = "open" => l \in AwaitPcs
  PROVE  Safe'
<1>0. /\ pc'[t] = l
      /\ \A u \in Threads \ {t} : pc'[u] = pc[u] /\ ~Requesting(u)
      /\ pc'[t] \notin {"setSocket", "closeSocket", "lockLogin", "lockQuery"}
  BY NoneAssumption DEF Goto, TypeOK, Safe, LockInv, LoginPcs, QueryPcs
<1>1. OwnInv'
  BY <1>0 DEF Safe, OwnInv, Holder, At
<1>2. LockInv'
  BY <1>0 DEF LockInv, Requesting
<1>3. PendingInv'
  BY <1>0, NoneAssumption DEF Safe, PendingInv, OwnInv, Holder, At, TypeOK
<1>. QED BY <1>1, <1>2, <1>3 DEF Safe

LEMMA ConnectingSafe ==
  ASSUME TypeOK, Safe, NEW t \in Threads, Connecting(t)
  PROVE  Safe'
<1> USE DEF At
<1>0. {"handshake", "retryHandshake", "readSocket", "lockLogin", "setConnected"} \subseteq QuietPcs
  BY DEF QuietPcs, Pcs, ConnectPcs, HandshakePcs, LoginPcs, QueryPcs
<1>1. CASE EnterConnect(t)
  <2>1. CASE Leaves(t)
    BY <1>1, <2>1, LeavesStep DEF EnterConnect, Safe, net, AwaitPcs
  <2>2. CASE Goto(t, "handshake") /\ UNCHANGED held
    BY <1>0, <1>1, <2>2, QuietGoto DEF EnterConnect, net, AwaitPcs
  <2>. QED BY <1>1, <2>1, <2>2 DEF EnterConnect, Leaves
<1>2. CASE Handshake(t)
  <2>1. ASSUME NEW s \in Sockets, Opens(s), held' = [held EXCEPT ![t] = s],
               Goto(t, "setSocket")
        PROVE  Safe'
    <3>0. /\ sock[s] = "unused" /\ sock' = [sock EXCEPT ![s] = "open"]
          /\ pc' = [pc EXCEPT ![t] = "setSocket"]
          /\ ws' = ws /\ ioOwner' = ioOwner /\ pending' = pending
          /\ pc[t] \in HandshakePcs
      BY <1>2, <2>1 DEF Handshake, Opens, Goto
    <3>1. s # ws /\ s \notin pending
      BY <3>0, NoneAssumption DEF Safe, OwnInv, PendingInv, TypeOK
    <3>2. \A u \in Threads : Holder(u) /\ held[u] # None => held[u] # s
      BY <3>0 DEF Safe, OwnInv
    <3>3. pc'[t] = "setSocket" /\ held'[t] = s
          /\ \A u \in Threads \ {t} : pc'[u] = pc[u] /\ held'[u] = held[u]
      BY <2>1, <3>0 DEF TypeOK
    <3>4. \A u \in Sockets : sock'[u] = IF u = s THEN "open" ELSE sock[u]
      BY <3>0 DEF TypeOK
    <3>5. OwnInv'
      BY <3>0, <3>1, <3>2, <3>3, <3>4, NoneAssumption DEF Safe, OwnInv, Holder, TypeOK
    <3>6. LockInv'
      BY <3>0, <3>3 DEF Safe, LockInv, Requesting, LoginPcs, QueryPcs
    <3>7. PendingInv'
      <4>1. ASSUME ws # None, ws \in pending, sock[ws] = "open"
            PROVE  ioOwner # None /\ pc'[ioOwner] \in AwaitPcs \cup {"takeSocket"}
        <5>1. ioOwner \in Threads /\ ioOwner # t
          BY <4>1, <3>0 DEF Safe, PendingInv, TypeOK, AwaitPcs, HandshakePcs
        <5>. QED BY <4>1, <5>1, <3>3 DEF Safe, PendingInv
      <4>. QED BY <4>1, <3>0, <3>1, <3>3, <3>4 DEF Safe, PendingInv, TypeOK
    <3>. QED BY <3>5, <3>6, <3>7 DEF Safe
  <2>2. CASE Goto(t, "retryHandshake") /\ UNCHANGED <<sock, held>>
    BY <1>0, <1>2, <2>2, QuietGoto DEF Handshake, HandshakePcs, AwaitPcs
  <2>3. CASE ConnectFails(t) /\ UNCHANGED sock
    BY <1>2, <2>3, LeavesStep DEF Handshake, Leaves, Safe, HandshakePcs, AwaitPcs
  <2>. QED BY <1>2, <2>1, <2>2, <2>3 DEF Handshake
<1>3. CASE SetSocket(t)
  <2>0. /\ pc[t] = "setSocket" /\ ioOwner \in {None, t}
        /\ ws' = held[t] /\ sock' = sock /\ pending' = pending /\ ioOwner' = ioOwner
        /\ pc'[t] = "readSocket" /\ held'[t] = None
        /\ \A u \in Threads \ {t} : pc'[u] = pc[u] /\ held'[u] = held[u]
    BY <1>3 DEF SetSocket, CanTakeIo, Goto, TypeOK, net
  <2>1. Holder(t) /\ held[t] # None /\ held[t] \notin pending /\ ~Holder(t)'
    BY <2>0 DEF Safe, OwnInv, PendingInv, Holder
  <2>2. OwnInv'
    BY <2>0, <2>1 DEF Safe, OwnInv, Holder
  <2>3. \A u \in Threads : ~Requesting(u)'
    BY <2>0, NoneAssumption DEF Safe, LockInv, Requesting, LoginPcs, QueryPcs
  <2>4. LockInv'
    BY <2>3 DEF LockInv
  <2>5. PendingInv'
    BY <2>0, <2>1 DEF Safe, PendingInv
  <2>. QED BY <2>2, <2>4, <2>5 DEF Safe
<1>4. CASE ReadSocket(t)
  <2>1. CASE CallDisconnect(t, "connectFailed")
    BY <1>4, <2>1, LeavesStep DEF ReadSocket, Leaves, Safe, net, AwaitPcs, Returns
  <2>2. CASE ws # None /\ held' = [held EXCEPT ![t] = ws] /\ Goto(t, "lockLogin")
    BY <1>0, <1>4, <2>2, QuietStep DEF ReadSocket, Safe, Goto, net, AwaitPcs, TypeOK
  <2>. QED BY <1>4, <2>1, <2>2 DEF ReadSocket
<1>5. CASE LockLogin(t)
  <2>1. CASE CallDisconnect(t, "connectFailed") /\ UNCHANGED ioOwner
    BY <1>5, <2>1, LeavesStep DEF LockLogin, Leaves, Safe, net, AwaitPcs, Returns
  <2>2. CASE ws = held[t] /\ ioOwner' = t /\ Goto(t, "sendConnect") /\ UNCHANGED held
    <3>1. held[t] # None /\ ~(ws \in pending /\ sock[ws] = "open")
      BY <1>5, <2>2 DEF LockLogin, CanTakeIo, Safe, OwnInv, PendingInv, AwaitPcs
    <3>. QED BY <1>5, <2>2, <3>1, RequestStep DEF LockLogin, CanTakeIo, LoginPcs, net, TypeOK
  <2>. QED BY <1>5, <2>1, <2>2 DEF LockLogin
<1>6. CASE SendLogin(t)
  <2>1. ioOwner = t /\ ws = held[t] /\ ws # None /\ pc[t] \in {"sendConnect", "sendLogin"}
        /\ ~(ws \in pending /\ sock[ws] = "open")
    BY <1>6, NoneAssumption DEF SendLogin, Safe, LockInv, PendingInv, Requesting, LoginPcs, AwaitPcs
  <2>2. CASE Sends /\ (Goto(t, "awaitConnected") \/ Goto(t, "awaitLogin")) /\ UNCHANGED held
    BY <1>6, <2>1, <2>2, RequestStep DEF SendLogin, Sends, LoginPcs, AwaitPcs, flags, TypeOK
  <2>3. CASE CallDisconnect(t, "abortLogin") /\ UNCHANGED pending
    BY <1>6, <2>1, <2>3, LeavesStep DEF SendLogin, Leaves, Safe, AwaitPcs, Returns, flags
  <2>. QED BY <1>6, <2>2, <2>3 DEF SendLogin
<1>7. CASE LoginAnswered(t)
  <2>1. ioOwner = t /\ ws = held[t] /\ ws # None /\ ws \notin pending'
        /\ pending' \in SUBSET pending /\ ws' = ws /\ sock' = sock
    BY <1>7 DEF LoginAnswered, Answered, Safe, LockInv, Requesting, LoginPcs
  <2>2. CASE Goto(t, "sendLogin") /\ UNCHANGED <<held, ioOwner>>
    BY <2>1, <2>2, RequestStep DEF LoginPcs
  <2>3. CASE Release(t) /\ Goto(t, "setConnected") /\ UNCHANGED held
    <3>1. held[t] \in Sockets \cup {None} /\ held' = [held EXCEPT ![t] = held[t]]
      BY <2>3 DEF TypeOK
    <3>. QED BY <1>0, <2>1, <2>3, <3>1, QuietStep DEF Safe, Goto, Release
  <2>4. CASE Release(t) /\ CallDisconnect(t, "abortLogin")
    BY <2>1, <2>4, LeavesStep DEF Leaves, Safe, Release, Returns
  <2>. QED BY <1>7, <2>2, <2>3, <2>4 DEF LoginAnswered
<1>8. CASE LoginTimeout(t)
  <2>1. after'[t] = "abortLogin"
    BY <1>8 DEF LoginTimeout, CallDisconnect, TypeOK
  <2>. QED BY <1>8, <2>1, LeavesStep DEF LoginTimeout, Leaves, Safe, net, Returns
<1>9. CASE LoginRaises(t)
  BY <1>9, LeavesStep DEF LoginRaises, Raises, Leaves, Release, Safe, net, Returns
<1>10. CASE AbortLogin(t)
  BY <1>10, LeavesStep DEF AbortLogin, Leaves, Release, Safe, net, Returns, AwaitPcs
<1>11. CASE ConnectFailed(t)
  BY <1>11, LeavesStep DEF ConnectFailed, Leaves, Safe, net, AwaitPcs
<1>12. CASE SetConnected(t)
  BY <1>12, LeavesStep DEF SetConnected, Leaves, Safe, net, AwaitPcs
<1>. QED
  BY <1>1, <1>2, <1>3, <1>4, <1>5, <1>6, <1>7, <1>8, <1>9, <1>10, <1>11, <1>12 DEF Connecting

LEMMA DisconnectingSafe ==
  ASSUME TypeOK, Safe, NEW t \in Threads, Disconnecting(t)
  PROVE  Safe'
<1> USE DEF At
<1>1. CASE TakeSocket(t)
  <2>0. /\ pc[t] = "takeSocket" /\ ioOwner \in {None, t} /\ ioOwner' = ioOwner
        /\ ws' = None /\ sock' = sock /\ pending' = pending
        /\ pc'[t] = "closeSocket" /\ held'[t] = ws
        /\ \A u \in Threads \ {t} : pc'[u] = pc[u] /\ held'[u] = held[u]
    BY <1>1 DEF TakeSocket, CanTakeIo, Goto, TypeOK, net
  <2>1. OwnInv'
    BY <2>0 DEF Safe, OwnInv, Holder
  <2>2. LockInv'
    BY <2>0, NoneAssumption DEF Safe, LockInv, Requesting, LoginPcs, QueryPcs
  <2>3. PendingInv'
    BY <2>0 DEF Safe, PendingInv
  <2>. QED BY <2>1, <2>2, <2>3 DEF Safe
<1>2. CASE CloseSocket(t)
  <2>0. /\ pc[t] = "closeSocket" /\ ioOwner' = ioOwner /\ ws' = ws /\ pending' = pending
        /\ pc'[t] = after[t] /\ held'[t] = None
        /\ \A u \in Threads \ {t} : pc'[u] = pc[u] /\ held'[u] = held[u]
        /\ \A s \in Sockets : sock'[s] = IF s = held[t] THEN "closed" ELSE sock[s]
    BY <1>2 DEF CloseSocket, Goto, TypeOK, flags
  <2>1. /\ pc'[t] \notin LoginPcs \cup QueryPcs
        /\ pc'[t] \notin {"setSocket", "closeSocket", "lockLogin", "lockQuery", "takeSocket"}
    BY <2>0 DEF TypeOK, Returns, LoginPcs, QueryPcs
  <2>2. OwnInv'
    BY <2>0, <2>1, NoneAssumption DEF Safe, OwnInv, Holder, TypeOK
  <2>3. LockInv'
    BY <2>0, <2>1 DEF Safe, LockInv, Requesting
  <2>4. PendingInv'
    <3>1. ASSUME ws # None, ws \in pending, sock'[ws] = "open"
          PROVE  ioOwner # None /\ pc'[ioOwner] \in AwaitPcs \cup {"takeSocket"}
      <4>1. sock[ws] = "open"
        BY <2>0, <3>1 DEF TypeOK
      <4>2. ioOwner # None /\ ioOwner \in Threads \ {t} /\ pc[ioOwner] \in AwaitPcs \cup {"takeSocket"}
        BY <2>0, <3>1, <4>1 DEF Safe, PendingInv, TypeOK, AwaitPcs
      <4>. QED BY <2>0, <4>2
    <3>. QED BY <2>0, <2>1, <3>1 DEF Safe, PendingInv, TypeOK
  <2>. QED BY <2>2, <2>3, <2>4 DEF Safe
<1>3. CASE MarkClosed(t)
  BY <1>3, LeavesStep DEF MarkClosed, Leaves, Safe, net, AwaitPcs, Returns
<1>4. CASE Returned(t)
  BY <1>4, LeavesStep DEF Returned, Leaves, Safe, net, AwaitPcs
<1>. QED BY <1>1, <1>2, <1>3, <1>4 DEF Disconnecting

LEMMA QueryingSafe ==
  ASSUME TypeOK, Safe, NEW t \in Threads, Querying(t)
  PROVE  Safe'
<1> USE DEF At
<1>0. {"beginQuery", "enterConnect", "lockQuery", "idle"} \subseteq QuietPcs
  BY DEF QuietPcs, Pcs, ConnectPcs, LoginPcs, QueryPcs
<1>1. CASE CheckConnected(t)
  BY <1>0, <1>1, QuietGoto DEF CheckConnected, net, AwaitPcs
<1>2. CASE BeginQuery(t)
  <2>1. CASE ws # None /\ held' = [held EXCEPT ![t] = ws] /\ Goto(t, "lockQuery")
    BY <1>0, <1>2, <2>1, QuietStep DEF BeginQuery, Safe, Goto, net, AwaitPcs, TypeOK
  <2>2. CASE QueryFails(t)
    BY <1>2, <2>2, LeavesStep DEF BeginQuery, Leaves, Safe, net, AwaitPcs
  <2>. QED BY <1>2, <2>1, <2>2 DEF BeginQuery
<1>3. CASE LockQuery(t)
  <2>1. CASE QueryFails(t) /\ UNCHANGED ioOwner
    BY <1>3, <2>1, LeavesStep DEF LockQuery, Leaves, Safe, net, AwaitPcs
  <2>2. CASE ws = held[t] /\ ioOwner' = t /\ Goto(t, "sendQuery") /\ UNCHANGED held
    <3>1. held[t] # None /\ ~(ws \in pending /\ sock[ws] = "open")
      BY <1>3, <2>2 DEF LockQuery, CanTakeIo, Safe, OwnInv, PendingInv, AwaitPcs
    <3>. QED BY <1>3, <2>2, <3>1, RequestStep DEF LockQuery, CanTakeIo, QueryPcs, net, TypeOK
  <2>. QED BY <1>3, <2>1, <2>2 DEF LockQuery
<1>4. CASE SendQuery(t)
  <2>1. ioOwner = t /\ ws = held[t] /\ ws # None /\ pc[t] = "sendQuery"
        /\ ~(ws \in pending /\ sock[ws] = "open")
    BY <1>4, NoneAssumption DEF SendQuery, Safe, LockInv, PendingInv, Requesting, QueryPcs, AwaitPcs
  <2>2. CASE Sends /\ Goto(t, "awaitAnswer") /\ UNCHANGED <<held, ioOwner>>
    BY <1>4, <2>1, <2>2, RequestStep DEF SendQuery, Sends, QueryPcs, AwaitPcs, flags, TypeOK
  <2>3. CASE Release(t) /\ CallDisconnect(t, "failQuery") /\ UNCHANGED pending
    BY <1>4, <2>1, <2>3, LeavesStep DEF SendQuery, Leaves, Release, Safe, AwaitPcs, Returns, flags
  <2>. QED BY <1>4, <2>2, <2>3 DEF SendQuery
<1>5. CASE QueryAnswered(t)
  <2>1. ws \notin pending' /\ pending' \in SUBSET pending
    BY <1>5 DEF QueryAnswered, Answered
  <2>. QED BY <1>5, <2>1, LeavesStep DEF QueryAnswered, Leaves, Release, Safe
<1>6. CASE QueryTimeout(t)
  <2>1. after'[t] = "abortQuery"
    BY <1>6 DEF QueryTimeout, CallDisconnect, TypeOK
  <2>. QED BY <1>6, <2>1, LeavesStep DEF QueryTimeout, Leaves, Safe, net, Returns
<1>7. CASE QueryRaises(t)
  BY <1>7, LeavesStep DEF QueryRaises, Raises, Leaves, Release, Safe, net, Returns
<1>8. CASE AbortQuery(t)
  BY <1>8, LeavesStep DEF AbortQuery, Leaves, Release, Safe, net, AwaitPcs
<1>9. CASE FailQuery(t) \/ MarkFailed(t)
  BY <1>9, LeavesStep DEF FailQuery, MarkFailed, Leaves, Safe, net, AwaitPcs
<1>10. CASE ReadVerdict(t)
  BY <1>0, <1>10, QuietGoto DEF ReadVerdict, net, AwaitPcs
<1>. QED
  BY <1>1, <1>2, <1>3, <1>4, <1>5, <1>6, <1>7, <1>8, <1>9, <1>10 DEF Querying

LEMMA StartSafe ==
  ASSUME TypeOK, Safe, NEW t \in Threads, Start(t)
  PROVE  Safe'
<1>1. PICK k \in CallKinds : Goto(t, Entry(k))
  BY CallsAssumption DEF Start
<1>2. Entry(k) \in QuietPcs \ {"lockLogin", "lockQuery"}
  BY DEF Entry, CallKinds, QuietPcs, Pcs, ConnectPcs, DisconnectPcs, LoginPcs, QueryPcs
<1>. QED BY <1>1, <1>2, QuietGoto DEF Start, At, net, AwaitPcs

LEMMA DropSafe ==
  ASSUME TypeOK, Safe, NEW s \in Sockets, Drop(s)
  PROVE  Safe'
<1>1. \A u \in Sockets : sock'[u] = IF u = s THEN "lost" ELSE sock[u]
  BY DEF Drop, TypeOK
<1>2. OwnInv'
  BY <1>1 DEF Drop, Safe, OwnInv, Holder, At, TypeOK
<1>3. LockInv'
  BY DEF Drop, Safe, LockInv, Requesting
<1>4. PendingInv'
  BY <1>1 DEF Drop, Safe, PendingInv, At, TypeOK
<1>. QED BY <1>2, <1>3, <1>4 DEF Safe

LEMMA NextInv == IInv /\ [Next]_vars => IInv'
<1> SUFFICES ASSUME TypeOK, Safe, [Next]_vars PROVE Safe'
  BY NextTypes DEF IInv, Safe
<1>1. ASSUME NEW t \in Threads, Start(t) \/ Step(t) PROVE Safe'
  BY <1>1, StartSafe, ConnectingSafe, DisconnectingSafe, QueryingSafe DEF Step
<1>2. ASSUME NEW s \in Sockets, Drop(s) PROVE Safe'
  BY <1>2, DropSafe
<1>3. CASE UNCHANGED vars
  BY <1>3 DEF vars, Safe, OwnInv, LockInv, PendingInv, Holder, Requesting, At
<1>. QED BY <1>1, <1>2, <1>3 DEF Next

-----------------------------------------------------------------------------
\* A request under way keeps the current socket: no other thread can replace or
\* close it between the check of the socket and the answer.
THEOREM RequestsKeepTheirSocket == Spec => []RequestSocketIsCurrent
<1>1. IInv => RequestSocketIsCurrent
  BY DEF IInv, OwnInv, LockInv, RequestSocketIsCurrent
<1>. QED BY <1>1, InitInv, NextInv, PTL DEF Spec

\* No request goes out on a live socket that owes the answer to an older one,
\* so the answer a call reads is the answer to its own request.
THEOREM AnswersAreOwn == Spec => []NoStaleAnswer
<1>1. IInv => NoStaleAnswer
  BY DEF IInv, LockInv, PendingInv, NoStaleAnswer, Requesting, SendPcs, AwaitPcs, LoginPcs, QueryPcs
<1>. QED BY <1>1, InitInv, NextInv, PTL DEF Spec
-----------------------------------------------------------------------------
\* After close() no thread starts a handshake, whatever call it is given.

LEMMA NotByLeaving ==
  ASSUME TypeOK, NEW t \in Threads, Leaves(t)
  PROVE  pc'[t] \notin HandshakePcs /\ \A u \in Threads \ {t} : pc'[u] = pc[u]
  BY LeavesMoves DEF TypeOK, HandshakePcs

LEMMA NoHandshakeStep ==
  ASSUME TypeOK, closed, NEW t \in Threads, Start(t) \/ Step(t)
  PROVE  \A u \in Threads : pc'[u] \in HandshakePcs => pc[u] \in HandshakePcs
<1>0. ASSUME NEW l, Goto(t, l), l \notin HandshakePcs \/ pc[t] \in HandshakePcs
      PROVE  \A u \in Threads : pc'[u] \in HandshakePcs => pc[u] \in HandshakePcs
  BY <1>0 DEF Goto, TypeOK
<1>1. CASE Leaves(t)
  BY <1>1, NotByLeaving
<1>2. CASE Start(t)
  <2>1. PICK k \in CallKinds : Goto(t, Entry(k))
    BY <1>2, CallsAssumption DEF Start
  <2>2. Entry(k) \notin HandshakePcs
    BY DEF Entry, CallKinds, HandshakePcs
  <2>. QED BY <1>0, <2>1, <2>2
<1>3. CASE Connecting(t)
  BY <1>0, <1>1, <1>3 DEF Connecting, EnterConnect, Handshake, SetSocket, ReadSocket,
     LockLogin, SendLogin, LoginAnswered, LoginTimeout, LoginRaises, AbortLogin,
     ConnectFailed, SetConnected, Leaves, Returns, HandshakePcs
<1>4. CASE Disconnecting(t)
  <2>1. after[t] \notin HandshakePcs
    BY DEF TypeOK, Returns, HandshakePcs
  <2>. QED BY <1>0, <1>1, <1>4, <2>1 DEF Disconnecting, TakeSocket, CloseSocket,
           MarkClosed, Returned, Leaves, Returns, HandshakePcs
<1>5. CASE Querying(t)
  BY <1>0, <1>1, <1>5 DEF Querying, CheckConnected, BeginQuery, LockQuery, SendQuery,
     QueryAnswered, QueryTimeout, QueryRaises, AbortQuery, FailQuery, MarkFailed,
     ReadVerdict, Leaves, Returns, HandshakePcs
<1>. QED BY <1>2, <1>3, <1>4, <1>5 DEF Step

\* close() is final for every call that begins after it.
THEOREM ClosedStartsNothing == Spec => NoNewHandshakeAfterClose
<1>1. TypeOK /\ [Next]_vars =>
        [closed => \A t \in Threads :
           pc'[t] \in HandshakePcs => pc[t] \in HandshakePcs]_vars
  BY NoHandshakeStep DEF Next, Drop
<1>. QED BY <1>1, TypeCorrect, PTL DEF Spec, NoNewHandshakeAfterClose

-----------------------------------------------------------------------------
\* The channel: ExchangeInv, then the refinement of RpcChannel.

\* Only t moves in a step of t.
LEMMA OnlyMine ==
  ASSUME TypeOK, NEW t \in Threads, Start(t) \/ Step(t)
  PROVE  \A u \in Threads \ {t} :
           /\ pc'[u] = pc[u] /\ call'[u] = call[u] /\ res'[u] = res[u] /\ after'[u] = after[u]
           /\ ioOwner' = u <=> ioOwner = u
<1> DEFINE Mine == \A u \in Threads \ {t} :
             pc'[u] = pc[u] /\ call'[u] = call[u] /\ res'[u] = res[u] /\ after'[u] = after[u]
           Lock == ioOwner' = ioOwner \/ (ioOwner = t /\ ioOwner' = None)
                   \/ (CanTakeIo(t) /\ ioOwner' = t)
<1> USE DEF TypeOK, Goto
<1>1. ASSUME NEW r, Finish(t, r) PROVE Mine
  BY <1>1 DEF Finish
<1>2. ASSUME NEW l, CallDisconnect(t, l) PROVE Mine
  BY <1>2 DEF CallDisconnect
<1>3. ASSUME ConnectSucceeds(t) PROVE Mine
  BY <1>1, <1>3 DEF ConnectSucceeds
<1>4. ASSUME QueryFails(t) PROVE Mine
  BY <1>1, <1>2, <1>4 DEF QueryFails
<1>11. ASSUME ToVerdict(t) PROVE Mine
  BY <1>11 DEF ToVerdict
<1>12. ASSUME QuerySucceeds(t) PROVE Mine
  BY <1>1, <1>11, <1>12 DEF QuerySucceeds
<1>5. ASSUME ConnectFails(t) PROVE Mine
  BY <1>1, <1>4, <1>5, <1>11 DEF ConnectFails
<1>6. Release(t) => Lock
  BY DEF Release
<1>7. CASE Start(t)
  BY <1>7, NoneAssumption DEF Start
<1>8. CASE Connecting(t)
  <2>1. Mine
    BY <1>1, <1>2, <1>3, <1>4, <1>5, <1>8 DEF Connecting, EnterConnect, Handshake, SetSocket,
       ReadSocket, LockLogin, SendLogin, LoginAnswered, LoginTimeout, LoginRaises, AbortLogin,
       ConnectFailed, SetConnected
  <2>2. Lock
    BY <1>6, <1>8 DEF Connecting, EnterConnect, Handshake, SetSocket, ReadSocket, LockLogin,
       SendLogin, LoginAnswered, LoginTimeout, LoginRaises, AbortLogin, ConnectFailed, SetConnected
  <2>. QED BY <2>1, <2>2, NoneAssumption DEF CanTakeIo
<1>9. CASE Disconnecting(t)
  BY <1>1, <1>2, <1>5, <1>9 DEF Disconnecting, TakeSocket, CloseSocket, MarkClosed, Returned
<1>10. CASE Querying(t)
  <2>1. Mine
    BY <1>2, <1>4, <1>10, <1>11, <1>12 DEF Querying, CheckConnected, BeginQuery, LockQuery,
       SendQuery, QueryAnswered, QueryTimeout, QueryRaises, AbortQuery, FailQuery, MarkFailed,
       ReadVerdict
  <2>2. Lock
    BY <1>6, <1>10 DEF Querying, CheckConnected, BeginQuery, LockQuery, SendQuery,
       QueryAnswered, QueryTimeout, QueryRaises, AbortQuery, FailQuery, MarkFailed, ReadVerdict
  <2>. QED BY <2>1, <2>2, NoneAssumption DEF CanTakeIo
<1>. QED BY <1>7, <1>8, <1>9, <1>10 DEF Step

-----------------------------------------------------------------------------
\* ExchangeInv: who owns _io_lock, and that the line stays down under him.

LEMMA ExchangeInit == Init => ExchangeInv
<1> SUFFICES ASSUME Init, NEW t \in Threads, ioOwner = t PROVE FALSE
  BY DEF ExchangeInv
<1>. QED BY NoneAssumption DEF Init

\* It is enough to look at the thread that moves, if no socket is installed
\* while another thread owns the lock.
LEMMA MyExchange ==
  ASSUME TypeOK, ExchangeInv, NEW t \in Threads, Start(t) \/ Step(t),
         ws' = ws \/ ws' = None \/ CanTakeIo(t),
         ioOwner' = t =>
           \/ pc'[t] \in LoginPcs \cup QueryPcs
           \/ pc'[t] = "takeSocket" /\ after'[t] \in Aborts
           \/ ws' = None /\ (pc'[t] \in Aborts \/ (pc'[t] = "closeSocket" /\ after'[t] \in Aborts))
  PROVE  ExchangeInv'
<1> SUFFICES ASSUME NEW u \in Threads, ioOwner' = u
             PROVE  \/ pc'[u] \in LoginPcs \cup QueryPcs
                    \/ pc'[u] = "takeSocket" /\ after'[u] \in Aborts
                    \/ ws' = None /\ (pc'[u] \in Aborts \/ (pc'[u] = "closeSocket" /\ after'[u] \in Aborts))
  BY DEF ExchangeInv, Requesting, At
<1>1. CASE u = t
  BY <1>1
<1>2. CASE u # t
  <2>1. ioOwner = u /\ pc'[u] = pc[u] /\ after'[u] = after[u]
    BY <1>2, OnlyMine
  <2>2. ws = None => ws' = None
    BY <1>2, <2>1, NoneAssumption DEF CanTakeIo
  <2>. QED BY <2>1, <2>2 DEF ExchangeInv, Requesting, At
<1>. QED BY <1>1, <1>2

\* Where the owner of the lock may be when it takes a step.
OwnerPcs == LoginPcs \cup QueryPcs \cup Aborts \cup DisconnectPcs

LEMMA OwnerAt ==
  ASSUME TypeOK, ExchangeInv, NEW t \in Threads, pc[t] \notin OwnerPcs
  PROVE  ioOwner # t
  BY DEF ExchangeInv, OwnerPcs, Requesting, At, DisconnectPcs

LEMMA ExchangeStep ==
  ASSUME TypeOK, ExchangeInv, NEW t \in Threads, Start(t) \/ Step(t)
  PROVE  ExchangeInv'
<1> DEFINE Mine == ioOwner' = t =>
       \/ pc'[t] \in LoginPcs \cup QueryPcs
       \/ pc'[t] = "takeSocket" /\ after'[t] \in Aborts
       \/ ws' = None /\ (pc'[t] \in Aborts \/ (pc'[t] = "closeSocket" /\ after'[t] \in Aborts))
     Sock == ws' = ws \/ ws' = None \/ CanTakeIo(t)
<1> USE DEF TypeOK, Goto, At
<1>0. Release(t) => ioOwner' # t
  BY NoneAssumption DEF Release
<1>1. ASSUME pc[t] \notin OwnerPcs, ioOwner' = ioOwner PROVE Mine
  BY <1>1, OwnerAt
<1>2. ASSUME NEW l \in Aborts, CallDisconnect(t, l) PROVE Mine
  BY <1>2 DEF CallDisconnect
<1>3. CASE Start(t)
  BY <1>1, <1>3, MyExchange DEF Start, OwnerPcs, LoginPcs, QueryPcs, Aborts, DisconnectPcs
<1>4. ASSUME \/ EnterConnect(t) \/ Handshake(t) \/ SetSocket(t) \/ ReadSocket(t)
             \/ ConnectFailed(t) \/ SetConnected(t) \/ MarkClosed(t) \/ Returned(t)
             \/ CheckConnected(t) \/ BeginQuery(t) \/ FailQuery(t) \/ MarkFailed(t)
             \/ ReadVerdict(t)
      PROVE  Mine /\ Sock
  <2>1. pc[t] \notin OwnerPcs
    BY <1>4 DEF EnterConnect, Handshake, SetSocket, ReadSocket, ConnectFailed, SetConnected,
       MarkClosed, Returned, CheckConnected, BeginQuery, FailQuery, MarkFailed, ReadVerdict,
       OwnerPcs, LoginPcs, QueryPcs, Aborts, DisconnectPcs, HandshakePcs
  <2>2. ioOwner' = ioOwner /\ Sock
    BY <1>4 DEF EnterConnect, Handshake, SetSocket, ReadSocket, ConnectFailed, SetConnected,
       MarkClosed, Returned, CheckConnected, BeginQuery, FailQuery, MarkFailed, ReadVerdict
  <2>. QED BY <1>1, <2>1, <2>2
<1>5. ASSUME LockLogin(t) \/ LockQuery(t) PROVE Mine /\ Sock
  <2>1. pc[t] \notin OwnerPcs /\ Sock
    BY <1>5 DEF LockLogin, LockQuery, OwnerPcs, LoginPcs, QueryPcs, Aborts, DisconnectPcs
  <2>2. ioOwner' = ioOwner \/ pc'[t] \in LoginPcs \cup QueryPcs
    BY <1>5 DEF LockLogin, LockQuery, LoginPcs, QueryPcs
  <2>. QED BY <1>1, <2>1, <2>2
<1>6. ASSUME SendLogin(t) \/ LoginTimeout(t) \/ QueryTimeout(t) PROVE Mine /\ Sock
  BY <1>2, <1>6 DEF SendLogin, LoginTimeout, QueryTimeout, LoginPcs, Aborts
<1>7. ASSUME LoginRaises(t) \/ AbortLogin(t) \/ QueryRaises(t) \/ AbortQuery(t) \/ QueryAnswered(t)
      PROVE  Mine /\ Sock
  BY <1>0, <1>7 DEF LoginRaises, AbortLogin, QueryRaises, AbortQuery, QueryAnswered
<1>8. ASSUME LoginAnswered(t) \/ SendQuery(t) PROVE Mine /\ Sock
  BY <1>0, <1>8 DEF LoginAnswered, SendQuery, LoginPcs, QueryPcs, flags
<1>9. ASSUME TakeSocket(t) \/ CloseSocket(t) PROVE Mine /\ Sock
  <2>1. ioOwner' = ioOwner /\ after' = after /\ pc[t] \in DisconnectPcs /\ Sock
    BY <1>9 DEF TakeSocket, CloseSocket, DisconnectPcs
  <2>2. ioOwner = t => after[t] \in Aborts /\ (pc[t] = "closeSocket" => ws = None)
    BY <2>1 DEF ExchangeInv, Requesting, LoginPcs, QueryPcs, DisconnectPcs, Aborts
  <2>. QED BY <1>9, <2>1, <2>2 DEF TakeSocket, CloseSocket
<1>. QED
  BY <1>3, <1>4, <1>5, <1>6, <1>7, <1>8, <1>9, MyExchange DEF Step, Connecting, Disconnecting, Querying

-----------------------------------------------------------------------------
\* The mapping: what a step of t does to the phases and to the line.

ChannelStep == [Channel!ChannelNext]_<<LineOf, Phases>>

\* The phases of the other threads stay as they are.
LEMMA PhasesStep ==
  ASSUME TypeOK, NEW t \in Threads, Start(t) \/ Step(t)
  PROVE  Phases[t] = PhaseOf(t) /\ Phases' = [Phases EXCEPT ![t] = PhaseOf(t)']
<1>1. ASSUME NEW u \in Threads \ {t} PROVE PhaseOf(u)' = PhaseOf(u)
  BY OnlyMine DEF PhaseOf, At
<1>. QED BY <1>1 DEF Phases

\* Where a thread is decides its phase, but for a call that has returned.
LEMMA PhaseAt ==
  ASSUME NEW t \in Threads
  PROVE  /\ pc[t] \in AwaitPcs => PhaseOf(t) = "waiting"
         /\ pc[t] \notin AwaitPcs /\ ioOwner = t => PhaseOf(t) = "exchange"
         /\ pc[t] \notin AwaitPcs \cup {"idle"} /\ ioOwner # t => PhaseOf(t) = "calling"
         /\ pc[t] = "idle" /\ ioOwner # t => PhaseOf(t) \in {"idle", "answered"}
         /\ pc[t] = "idle" /\ ioOwner # t /\ (res[t] = "failed" \/ call[t] # "query")
              => PhaseOf(t) = "idle"
  BY DEF PhaseOf, At, AwaitPcs

\* A thread that leaves a section without the lock is calling, or idle without
\* an answer, unless it returns the answer of a query.
LEMMA LeavesPhase ==
  ASSUME TypeOK, NEW t \in Threads, ioOwner' # t,
         \/ ConnectSucceeds(t) \/ QueryFails(t) \/ ConnectFails(t)
         \/ ToVerdict(t)
         \/ \E l \in Returns : CallDisconnect(t, l)
  PROVE  PhaseOf(t)' \in {"calling", "idle"}
<1> USE DEF TypeOK, Goto
<1> DEFINE Out == \/ pc'[t] \in {"beginQuery", "checkConnected", "readVerdict", "takeSocket"}
                  \/ pc'[t] = "idle" /\ (res'[t] = "failed" \/ call'[t] # "query")
<1>1. Finish(t, "failed") => Out
  BY DEF Finish
<1>2. ASSUME NEW l \in Returns, CallDisconnect(t, l) PROVE Out
  BY <1>2 DEF CallDisconnect
<1>3. ConnectSucceeds(t) => Out
  BY DEF ConnectSucceeds, Finish
<1>4. QueryFails(t) => Out
  BY <1>1, <1>2 DEF QueryFails, Returns
<1>5. ToVerdict(t) => Out
  BY DEF ToVerdict
<1>7. ConnectFails(t) => Out
  BY <1>1, <1>4, <1>5 DEF ConnectFails
<1>6. Out
  BY <1>2, <1>3, <1>4, <1>5, <1>7
<1>. QED BY <1>6 DEF PhaseOf, At, AwaitPcs

\* A calling thread goes on or fails, and the line stays as it is.
LEMMA CallingStep ==
  ASSUME TypeOK, NEW t \in Threads, Start(t) \/ Step(t),
         PhaseOf(t) = "calling", PhaseOf(t)' \in {"calling", "idle"}, UNCHANGED LineOf
  PROVE  ChannelStep
<1>1. PhaseOf(t)' = "calling" => UNCHANGED Phases
  BY PhasesStep DEF Phases
<1>2. PhaseOf(t)' = "idle" => Channel!Fail(t)
  BY PhasesStep DEF Channel!Fail, Channel!Moves
<1>. QED BY <1>1, <1>2 DEF ChannelStep, Channel!ChannelNext

\* A thread gives its exchange up, with the line down.
LEMMA GiveUpStep ==
  ASSUME TypeOK, NEW t \in Threads, Start(t) \/ Step(t),
         PhaseOf(t) \in {"exchange", "waiting"}, PhaseOf(t)' \in {"calling", "idle"},
         UNCHANGED LineOf, LineOf = "down"
  PROVE  ChannelStep
<1>1. Channel!GiveUp(t)
  BY PhasesStep DEF Channel!GiveUp, Channel!Moves
<1>. QED BY <1>1 DEF ChannelStep, Channel!ChannelNext

-----------------------------------------------------------------------------
\* The steps of the client, by what they are to the channel.

LEMMA LineSame == UNCHANGED <<ws, sock, pending>> => UNCHANGED LineOf
  BY DEF LineOf

\* Nobody is in an exchange, and nothing is owed, while the lock is free.
LEMMA NotBusy ==
  ASSUME IInv, ioOwner = None
  PROVE  ~Channel!Busy /\ LineOf # "owing"
<1>1. ASSUME NEW t \in Threads PROVE Phases[t] \notin {"exchange", "waiting"}
  <2>1. ioOwner # t
    BY NoneAssumption
  <2>2. pc[t] \notin AwaitPcs
    BY <2>1 DEF IInv, LockInv, Requesting, AwaitPcs, LoginPcs, QueryPcs
  <2>. QED BY <2>1, <2>2 DEF Phases, PhaseOf
<1>2. LineOf # "owing"
  BY DEF IInv, PendingInv, LineOf
<1>. QED BY <1>1, <1>2 DEF Channel!Busy

\* A call begins.
LEMMA StartChannel ==
  ASSUME IInv, ExchangeInv, NEW t \in Threads, Start(t)
  PROVE  ChannelStep
<1>1. PICK k \in CallKinds : Goto(t, Entry(k))
  BY CallsAssumption DEF Start
<1>2. pc'[t] \notin AwaitPcs \cup {"idle"} /\ ioOwner' = ioOwner /\ pc[t] = "idle"
  BY <1>1 DEF Start, At, Goto, Entry, CallKinds, AwaitPcs, IInv, TypeOK
<1>3. ioOwner # t
  BY <1>2, OwnerAt DEF IInv, OwnerPcs, LoginPcs, QueryPcs, Aborts, DisconnectPcs
<1>4. PhaseOf(t) \in {"idle", "answered"} /\ PhaseOf(t)' = "calling"
  BY <1>2, <1>3 DEF PhaseOf, At, AwaitPcs
<1>5. UNCHANGED LineOf
  BY LineSame DEF Start, net
<1>6. Channel!Call(t)
  BY <1>4, <1>5, PhasesStep DEF Channel!Call, Channel!Moves, IInv
<1>. QED BY <1>6 DEF ChannelStep, Channel!ChannelNext

\* Sections of a call outside of its exchange.
LEMMA CallingChannel ==
  ASSUME IInv, ExchangeInv, NEW t \in Threads, ioOwner' = ioOwner, UNCHANGED LineOf,
         \/ EnterConnect(t) \/ Handshake(t) \/ ReadSocket(t) \/ LockLogin(t) \/ ConnectFailed(t)
         \/ SetConnected(t) \/ MarkClosed(t) \/ Returned(t)
         \/ CheckConnected(t) \/ BeginQuery(t) \/ LockQuery(t) \/ FailQuery(t) \/ MarkFailed(t)
         \/ ReadVerdict(t)
  PROVE  ChannelStep
<1>0. TypeOK
  BY DEF IInv
<1>1. pc[t] \notin OwnerPcs \cup {"idle"}
  BY DEF EnterConnect, Handshake, ReadSocket, LockLogin, ConnectFailed, SetConnected, MarkClosed,
     Returned, CheckConnected, BeginQuery, LockQuery, FailQuery, MarkFailed, ReadVerdict, At,
     OwnerPcs, LoginPcs, QueryPcs, Aborts, DisconnectPcs, HandshakePcs
<1>2. ioOwner # t
  BY <1>0, <1>1, OwnerAt
<1>3. PhaseOf(t) = "calling"
  BY <1>1, <1>2 DEF PhaseOf, At, AwaitPcs, OwnerPcs, LoginPcs, QueryPcs
<1>4. ASSUME NEW l \in QuietPcs \ {"idle"}, Goto(t, l) PROVE PhaseOf(t)' \in {"calling", "idle"}
  BY <1>0, <1>2, <1>4 DEF TypeOK, Goto, PhaseOf, At, AwaitPcs, QuietPcs, LoginPcs, QueryPcs
<1>5. ASSUME Goto(t, "setSocket") PROVE PhaseOf(t)' \in {"calling", "idle"}
  BY <1>0, <1>2, <1>5 DEF TypeOK, Goto, PhaseOf, At, AwaitPcs
<1>6. {"handshake", "retryHandshake", "lockLogin", "beginQuery", "enterConnect", "lockQuery"}
        \subseteq QuietPcs \ {"idle"}
  BY DEF QuietPcs, Pcs, ConnectPcs, HandshakePcs, LoginPcs, QueryPcs
<1>7. ASSUME call[t] \in {"disconnect", "close"}, Finish(t, "ok")
      PROVE  PhaseOf(t)' \in {"calling", "idle"}
  BY <1>0, <1>2, <1>7 DEF TypeOK, Finish, Goto, PhaseOf, At, AwaitPcs
<1>8. ASSUME \/ ConnectSucceeds(t) \/ QueryFails(t) \/ ConnectFails(t) \/ ToVerdict(t)
             \/ \E l \in Returns : CallDisconnect(t, l)
      PROVE  PhaseOf(t)' \in {"calling", "idle"}
  BY <1>0, <1>2, <1>8, LeavesPhase
<1>9. CASE EnterConnect(t) \/ Handshake(t) \/ ReadSocket(t) \/ ConnectFailed(t) \/ SetConnected(t)
  <2>1. PhaseOf(t)' \in {"calling", "idle"}
    BY <1>4, <1>5, <1>6, <1>8, <1>9 DEF EnterConnect, Handshake, ReadSocket, ConnectFailed, SetConnected, Returns
  <2>. QED BY <1>0, <1>3, <1>9, <2>1, CallingStep DEF Step, Connecting
<1>10. CASE MarkClosed(t) \/ Returned(t)
  <2>1. PhaseOf(t)' \in {"calling", "idle"}
    BY <1>7, <1>8, <1>10 DEF MarkClosed, Returned, Returns
  <2>. QED BY <1>0, <1>3, <1>10, <2>1, CallingStep DEF Step, Disconnecting
<1>11. CASE CheckConnected(t) \/ BeginQuery(t) \/ FailQuery(t) \/ MarkFailed(t)
  <2>1. PhaseOf(t)' \in {"calling", "idle"}
    BY <1>4, <1>6, <1>8, <1>11 DEF CheckConnected, BeginQuery, FailQuery, MarkFailed
  <2>. QED BY <1>0, <1>3, <1>11, <2>1, CallingStep DEF Step, Querying
<1>12. CASE LockLogin(t) \/ LockQuery(t)
  <2>1. PhaseOf(t)' \in {"calling", "idle"}
    BY <1>2, <1>8, <1>12 DEF LockLogin, LockQuery, Returns
  <2>. QED BY <1>0, <1>3, <1>12, <2>1, CallingStep DEF Step, Connecting, Querying
\* The call that is over is connection_test, not a query.
<1>13. CASE ReadVerdict(t)
  <2>1. PhaseOf(t)' \in {"calling", "idle"}
    BY <1>0, <1>2, <1>13 DEF ReadVerdict, TypeOK, Goto, PhaseOf, At, AwaitPcs
  <2>. QED BY <1>0, <1>3, <1>13, <2>1, CallingStep DEF Step, Querying
<1>. QED BY <1>9, <1>10, <1>11, <1>12, <1>13

\* A handshake opens a connection that is not the current one.
LEMMA HandshakeLine ==
  ASSUME IInv, NEW t \in Threads, Handshake(t)
  PROVE  UNCHANGED LineOf
<1>1. CASE UNCHANGED sock
  BY <1>1, LineSame DEF Handshake
<1>2. ASSUME NEW s \in Sockets, Opens(s) PROVE UNCHANGED LineOf
  <2>1. ws # None => s # ws /\ sock'[ws] = sock[ws]
    BY <1>2 DEF Opens, IInv, TypeOK, OwnInv
  <2>. QED BY <2>1 DEF Handshake, LineOf
<1>. QED BY <1>1, <1>2 DEF Handshake

\* The lock is taken for a request: an exchange begins.
LEMMA BeginChannel ==
  ASSUME IInv, ExchangeInv, NEW t \in Threads, LockLogin(t) \/ LockQuery(t)
  PROVE  ChannelStep
<1>0. TypeOK
  BY DEF IInv
<1>1. pc[t] \notin OwnerPcs \cup {"idle"} /\ ioOwner \in {None, t} /\ UNCHANGED LineOf
  BY LineSame DEF LockLogin, LockQuery, At, CanTakeIo, net, OwnerPcs, LoginPcs, QueryPcs, Aborts, DisconnectPcs
<1>2. ioOwner = None
  BY <1>0, <1>1, OwnerAt
<1>3. CASE ioOwner' = ioOwner
  BY <1>1, <1>3, CallingChannel
<1>4. CASE ioOwner' = t /\ (Goto(t, "sendConnect") \/ Goto(t, "sendQuery"))
  <2>1. PhaseOf(t) = "calling"
    BY <1>1, <1>2, NoneAssumption DEF PhaseOf, At, AwaitPcs, OwnerPcs, LoginPcs, QueryPcs
  <2>2. PhaseOf(t)' = "exchange"
    BY <1>0, <1>4 DEF TypeOK, PhaseOf, At, AwaitPcs, Goto
  <2>3. Phases[t] = "calling" /\ Phases' = [Phases EXCEPT ![t] = "exchange"]
    BY <1>0, <2>1, <2>2, PhasesStep DEF Step, Connecting, Querying
  <2>4. Channel!Begin(t)
    BY <1>1, <1>2, <2>3, NotBusy DEF Channel!Begin, Channel!Moves
  <2>. QED BY <2>4 DEF ChannelStep, Channel!ChannelNext
<1>. QED BY <1>3, <1>4 DEF LockLogin, LockQuery

\* A request is sent; or send raises, in a login still under the lock.
LEMMA SendChannel ==
  ASSUME IInv, ExchangeInv, NEW t \in Threads, SendLogin(t) \/ SendQuery(t)
  PROVE  ChannelStep
<1> USE DEF IInv
<1>1. ioOwner = t /\ pc[t] \in SendPcs /\ ws # None /\ ws \in Sockets
  BY DEF SendLogin, SendQuery, At, SendPcs, LockInv, Requesting, LoginPcs, QueryPcs, TypeOK
<1>2. PhaseOf(t) = "exchange" /\ LineOf # "owing"
  BY <1>1, NoneAssumption DEF PhaseOf, AwaitPcs, SendPcs, LineOf, PendingInv
<1>3. /\ Start(t) \/ Step(t)
      /\ Phases' = [Phases EXCEPT ![t] = PhaseOf(t)'] /\ Phases[t] = "exchange"
  BY <1>2, PhasesStep DEF Step, Connecting, Querying
<1>4. CASE Sends /\ \E l \in AwaitPcs : Goto(t, l)
  <2>1. PhaseOf(t)' = "waiting"
    BY <1>4 DEF TypeOK, Goto, PhaseOf, AwaitPcs
  <2>2. LineOf' = IF LineOf = "free" THEN "owing" ELSE LineOf
    BY <1>1, <1>2, <1>4 DEF LineOf, Sends, SendLogin, SendQuery, flags
  <2>3. LineOf \in {"free", "down"}
    BY <1>2 DEF LineOf
  <2>4. Channel!Send(t)
    BY <1>3, <2>1, <2>2, <2>3 DEF Channel!Send, Channel!Moves
  <2>. QED BY <2>4 DEF ChannelStep, Channel!ChannelNext
<1>5. CASE /\ Raises /\ UNCHANGED pending
           /\ \/ SendLogin(t) /\ CallDisconnect(t, "abortLogin")
              \/ SendQuery(t) /\ Release(t) /\ CallDisconnect(t, "failQuery")
  <2>1. UNCHANGED LineOf /\ LineOf = "down"
    BY <1>1, <1>5, LineSame DEF SendLogin, SendQuery, flags, Raises, LineOf
  <2>2. CASE SendLogin(t) /\ CallDisconnect(t, "abortLogin")
    <3>1. PhaseOf(t)' = "exchange"
      BY <1>1, <2>2 DEF SendLogin, CallDisconnect, Goto, TypeOK, PhaseOf, AwaitPcs, At
    <3>2. UNCHANGED Phases
      BY <1>3, <3>1 DEF Phases
    <3>. QED BY <2>1, <3>2 DEF ChannelStep
  <2>3. CASE SendQuery(t) /\ Release(t) /\ CallDisconnect(t, "failQuery")
    <3>1. PhaseOf(t)' \in {"calling", "idle"}
      BY <1>1, <2>3, LeavesPhase, NoneAssumption DEF Release, Returns
    <3>. QED BY <1>2, <1>3, <2>1, <3>1, GiveUpStep
  <2>. QED BY <1>5, <2>2, <2>3
<1>. QED BY <1>4, <1>5 DEF SendLogin, SendQuery, AwaitPcs

\* The answer arrives.
LEMMA ReplyChannel ==
  ASSUME IInv, ExchangeInv, NEW t \in Threads, LoginAnswered(t) \/ QueryAnswered(t)
  PROVE  ChannelStep
<1> USE DEF IInv
<1>1. pc[t] \in AwaitPcs /\ ioOwner = t
  BY DEF LoginAnswered, QueryAnswered, At, AwaitPcs, LockInv, Requesting, LoginPcs, QueryPcs
<1>2. PhaseOf(t) = "waiting"
  BY <1>1 DEF PhaseOf
<1>3. /\ Start(t) \/ Step(t)
      /\ Phases' = [Phases EXCEPT ![t] = PhaseOf(t)'] /\ Phases[t] = "waiting"
  BY <1>2, PhasesStep DEF Step, Connecting, Querying
<1>4. PhaseOf(t)' \in {"exchange", "calling", "idle", "answered"}
  <2>1. pc'[t] \notin AwaitPcs
    <3>1. \/ \E l \in {"sendLogin", "setConnected"} : Goto(t, l)
          \/ Leaves(t)
      BY DEF LoginAnswered, QueryAnswered, Leaves, Returns
    <3>2. Leaves(t) => \E l \in Pcs \ AwaitPcs : Goto(t, l)
      BY LeavesMoves DEF Goto, Pcs, ConnectPcs, DisconnectPcs, AwaitPcs
    <3>. QED BY <3>1, <3>2 DEF TypeOK, Goto, AwaitPcs
  <2>. QED BY <2>1 DEF PhaseOf
<1>5. \/ LineOf = "owing" /\ LineOf' = "free"
      \/ LineOf = "down" /\ LineOf' = "down"
  BY DEF LoginAnswered, QueryAnswered, Answered, LineOf
<1>6. Channel!Reply(t)
  BY <1>3, <1>4, <1>5 DEF Channel!Reply, Channel!Moves
<1>. QED BY <1>6 DEF ChannelStep, Channel!ChannelNext

\* A wait times out: the thread keeps the lock to disconnect.
LEMMA TimeOutChannel ==
  ASSUME IInv, ExchangeInv, NEW t \in Threads, LoginTimeout(t) \/ QueryTimeout(t)
  PROVE  ChannelStep
<1> USE DEF IInv
<1>1. pc[t] \in AwaitPcs /\ ioOwner = t /\ ioOwner' = t /\ UNCHANGED LineOf
  BY LineSame DEF LoginTimeout, QueryTimeout, At, AwaitPcs, LockInv, Requesting, LoginPcs, QueryPcs, net
<1>2. PhaseOf(t) = "waiting" /\ PhaseOf(t)' = "exchange"
  BY <1>1 DEF PhaseOf, LoginTimeout, QueryTimeout, CallDisconnect, Goto, TypeOK, AwaitPcs
<1>3. Phases' = [Phases EXCEPT ![t] = "exchange"] /\ Phases[t] = "waiting"
  BY <1>2, PhasesStep DEF Step, Connecting, Querying
<1>4. Channel!TimeOut(t)
  BY <1>1, <1>3 DEF Channel!TimeOut, Channel!Moves
<1>. QED BY <1>4 DEF ChannelStep, Channel!ChannelNext

\* recv raises, or the owner of the lock has disconnected: it lets go.
LEMMA GiveUpChannel ==
  ASSUME IInv, ExchangeInv, NEW t \in Threads,
         LoginRaises(t) \/ AbortLogin(t) \/ QueryRaises(t) \/ AbortQuery(t)
  PROVE  ChannelStep
<1> USE DEF IInv
<1>1. Start(t) \/ Step(t)
  BY DEF Step, Connecting, Querying
<1>2. UNCHANGED LineOf /\ ioOwner' # t
  BY LineSame, NoneAssumption DEF LoginRaises, AbortLogin, QueryRaises, AbortQuery, net, Release
<1>3. PhaseOf(t)' \in {"calling", "idle"}
  BY <1>2, LeavesPhase DEF LoginRaises, AbortLogin, QueryRaises, AbortQuery, Returns
<1>4. CASE LoginRaises(t) \/ QueryRaises(t)
  <2>1. PhaseOf(t) = "waiting" /\ LineOf = "down"
    BY <1>4 DEF LoginRaises, QueryRaises, At, AwaitPcs, PhaseOf, Raises, LineOf
  <2>. QED BY <1>1, <1>2, <1>3, <2>1, GiveUpStep
<1>5. CASE AbortLogin(t) \/ AbortQuery(t)
  <2>1. pc[t] \in Aborts /\ pc[t] \notin AwaitPcs
    BY <1>5 DEF AbortLogin, AbortQuery, At, Aborts, AwaitPcs
  <2>2. CASE ioOwner = t
    <3>1. PhaseOf(t) = "exchange" /\ LineOf = "down"
      BY <2>1, <2>2 DEF PhaseOf, ExchangeInv, Requesting, LoginPcs, QueryPcs, Aborts, At, LineOf
    <3>. QED BY <1>1, <1>2, <1>3, <3>1, GiveUpStep
  <2>3. CASE ioOwner # t
    <3>1. PhaseOf(t) = "calling"
      BY <2>1, <2>3 DEF PhaseOf, At, Aborts
    <3>. QED BY <1>1, <1>2, <1>3, <3>1, CallingStep
  <2>. QED BY <2>2, <2>3
<1>. QED BY <1>4, <1>5

\* disconnect takes the line down, and only that.
LEMMA DownChannel ==
  ASSUME IInv, ExchangeInv, NEW t \in Threads, TakeSocket(t) \/ CloseSocket(t)
  PROVE  ChannelStep
<1> USE DEF IInv
<1>1. /\ Start(t) \/ Step(t)
      /\ ioOwner' = ioOwner /\ pc[t] \in DisconnectPcs
      /\ pc'[t] \in {"closeSocket"} \cup Returns
  BY DEF Step, Disconnecting, TakeSocket, CloseSocket, At, DisconnectPcs, Goto, TypeOK
<1>2. PhaseOf(t)' = PhaseOf(t)
  BY <1>1 DEF PhaseOf, At, AwaitPcs, DisconnectPcs, Returns
<1>3. UNCHANGED Phases
  BY <1>1, <1>2, PhasesStep DEF Phases
<1>4. CASE TakeSocket(t)
  <2>1. LineOf' = "down"
    BY <1>4 DEF TakeSocket, LineOf
  <2>2. Channel!GoDown
    BY <1>3, <2>1 DEF Channel!GoDown
  <2>. QED BY <2>2 DEF ChannelStep, Channel!ChannelNext
<1>5. CASE CloseSocket(t)
  <2>1. ws # None => held[t] # ws
    BY <1>5 DEF CloseSocket, At, OwnInv, Holder
  <2>2. ws # None => sock'[ws] = sock[ws]
    BY <1>5, <2>1 DEF CloseSocket, TypeOK
  <2>3. UNCHANGED LineOf
    BY <1>5, <2>2 DEF CloseSocket, LineOf
  <2>. QED BY <1>3, <2>3 DEF ChannelStep
<1>. QED BY <1>4, <1>5

\* A new connection becomes the line, outside of exchanges.
LEMMA UpChannel ==
  ASSUME IInv, ExchangeInv, NEW t \in Threads, SetSocket(t)
  PROVE  ChannelStep
<1> USE DEF IInv
<1>1. /\ Start(t) \/ Step(t)
      /\ ioOwner' = ioOwner /\ pc[t] = "setSocket" /\ pc'[t] = "readSocket"
  BY DEF Step, Connecting, SetSocket, At, Goto, TypeOK
<1>2. ioOwner = None
  BY <1>1, OwnerAt DEF SetSocket, CanTakeIo, OwnerPcs, LoginPcs, QueryPcs, Aborts, DisconnectPcs
<1>3. UNCHANGED Phases
  <2>1. PhaseOf(t)' = PhaseOf(t)
    BY <1>1 DEF PhaseOf, At, AwaitPcs
  <2>. QED BY <1>1, <2>1, PhasesStep DEF Phases
<1>4. LineOf' \in {"free", "down"}
  BY <1>1 DEF SetSocket, PendingInv, At, net, LineOf
<1>5. ~Channel!Busy /\ LineOf # "owing"
  BY <1>2, NotBusy
<1>6. Channel!GoUp \/ Channel!GoDown
  BY <1>3, <1>4, <1>5 DEF Channel!GoUp, Channel!GoDown
<1>. QED BY <1>6 DEF ChannelStep, Channel!ChannelNext

\* The peer drops a connection, which may be the current one.
LEMMA DropChannel ==
  ASSUME IInv, NEW s \in Sockets, Drop(s)
  PROVE  ChannelStep
<1> USE DEF IInv
<1>1. UNCHANGED Phases
  BY DEF Drop, Phases, PhaseOf, At
<1>2. LineOf' = LineOf \/ LineOf' = "down"
  BY DEF Drop, LineOf, TypeOK
<1>3. Channel!GoDown \/ UNCHANGED <<LineOf, Phases>>
  BY <1>1, <1>2 DEF Channel!GoDown
<1>. QED BY <1>3 DEF ChannelStep, Channel!ChannelNext

-----------------------------------------------------------------------------
\* Every step of the client is a step of the channel, or none.
LEMMA NextChannel == IInv /\ ExchangeInv /\ [Next]_vars => ChannelStep
<1> SUFFICES ASSUME IInv, ExchangeInv, [Next]_vars PROVE ChannelStep
  OBVIOUS
<1>1. ASSUME NEW t \in Threads, Start(t) PROVE ChannelStep
  BY <1>1, StartChannel
<1>2. ASSUME NEW t \in Threads, Connecting(t) PROVE ChannelStep
  <2>1. CASE LockLogin(t) \/ SendLogin(t) \/ LoginAnswered(t) \/ LoginTimeout(t)
             \/ LoginRaises(t) \/ AbortLogin(t) \/ SetSocket(t)
    BY <2>1, BeginChannel, SendChannel, ReplyChannel, TimeOutChannel, GiveUpChannel, UpChannel
  <2>2. CASE Handshake(t)
    BY <2>2, HandshakeLine, CallingChannel DEF Handshake
  <2>3. CASE EnterConnect(t) \/ ReadSocket(t) \/ ConnectFailed(t) \/ SetConnected(t)
    <3>1. UNCHANGED <<ws, sock, pending, ioOwner>>
      BY <2>3 DEF EnterConnect, ReadSocket, ConnectFailed, SetConnected, net
    <3>. QED BY <2>3, <3>1, LineSame, CallingChannel
  <2>. QED BY <1>2, <2>1, <2>2, <2>3 DEF Connecting
<1>3. ASSUME NEW t \in Threads, Disconnecting(t) PROVE ChannelStep
  <2>1. CASE TakeSocket(t) \/ CloseSocket(t)
    BY <2>1, DownChannel
  <2>2. CASE MarkClosed(t) \/ Returned(t)
    <3>1. UNCHANGED <<ws, sock, pending, ioOwner>>
      BY <2>2 DEF MarkClosed, Returned, net
    <3>. QED BY <2>2, <3>1, LineSame, CallingChannel
  <2>. QED BY <1>3, <2>1, <2>2 DEF Disconnecting
<1>4. ASSUME NEW t \in Threads, Querying(t) PROVE ChannelStep
  <2>1. CASE LockQuery(t) \/ SendQuery(t) \/ QueryAnswered(t) \/ QueryTimeout(t)
             \/ QueryRaises(t) \/ AbortQuery(t)
    BY <2>1, BeginChannel, SendChannel, ReplyChannel, TimeOutChannel, GiveUpChannel
  <2>2. CASE CheckConnected(t) \/ BeginQuery(t) \/ FailQuery(t) \/ MarkFailed(t)
             \/ ReadVerdict(t)
    <3>1. UNCHANGED <<ws, sock, pending, ioOwner>>
      BY <2>2 DEF CheckConnected, BeginQuery, FailQuery, MarkFailed, ReadVerdict, net
    <3>. QED BY <2>2, <3>1, LineSame, CallingChannel
  <2>. QED BY <1>4, <2>1, <2>2 DEF Querying
<1>5. ASSUME NEW s \in Sockets, Drop(s) PROVE ChannelStep
  BY <1>5, DropChannel
<1>6. CASE UNCHANGED vars
  BY <1>6 DEF vars, ChannelStep, LineOf, Phases, PhaseOf, At
<1>. QED BY <1>1, <1>2, <1>3, <1>4, <1>5, <1>6 DEF Next, Step

LEMMA ExchangeNext == IInv /\ ExchangeInv /\ [Next]_vars => ExchangeInv'
<1> SUFFICES ASSUME IInv, ExchangeInv, [Next]_vars PROVE ExchangeInv'
  OBVIOUS
<1>1. ASSUME NEW t \in Threads, Start(t) \/ Step(t) PROVE ExchangeInv'
  BY <1>1, ExchangeStep DEF IInv
<1>2. ASSUME NEW s \in Sockets, Drop(s) PROVE ExchangeInv'
  BY <1>2 DEF Drop, ExchangeInv, Requesting, At
<1>3. CASE UNCHANGED vars
  BY <1>3 DEF vars, ExchangeInv, Requesting, At
<1>. QED BY <1>1, <1>2, <1>3 DEF Next

LEMMA InitChannel == Init => Channel!ChannelInit
<1> SUFFICES ASSUME Init PROVE Channel!ChannelInit
  OBVIOUS
<1>1. LineOf = "down"
  BY DEF Init, LineOf
<1>2. ASSUME NEW t \in Threads PROVE PhaseOf(t) = "idle"
  BY NoneAssumption DEF Init, PhaseOf, At, AwaitPcs
<1>. QED BY <1>1, <1>2 DEF Channel!ChannelInit, Phases

\* For any threads, sockets and calls, the client is a channel on which one
\* request at a time meets its own answer, or the end of the line.
THEOREM ClientImplementsChannel == Spec => ImplementsChannel
<1>1. Init => IInv /\ ExchangeInv
  BY InitInv, ExchangeInit
<1>2. IInv /\ ExchangeInv /\ [Next]_vars => (IInv /\ ExchangeInv)'
  BY NextInv, ExchangeNext
<1>3. IInv /\ ExchangeInv /\ [Next]_vars => [Channel!ChannelNext]_<<LineOf, Phases>>
  BY NextChannel DEF ChannelStep
<1>4. Init => Channel!ChannelInit
  BY InitChannel
<1>. QED BY <1>1, <1>2, <1>3, <1>4, PTL DEF Spec, ImplementsChannel, Channel!ChannelSpec

\* _io_lock is never left behind by a call that has returned: whoever waits for it
\* waits for a thread that goes on (what EveryCallReturns rests on).
THEOREM LockIsInUse == Spec => []OwnerRuns
<1>1. ExchangeInv => OwnerRuns
  BY DEF ExchangeInv, OwnerRuns, Requesting, Aborts, At, LoginPcs, QueryPcs
<1>2. Init => IInv /\ ExchangeInv
  BY InitInv, ExchangeInit
<1>3. IInv /\ ExchangeInv /\ [Next]_vars => (IInv /\ ExchangeInv)'
  BY NextInv, ExchangeNext
<1> QED
  BY <1>1, <1>2, <1>3, PTL DEF Spec

-----------------------------------------------------------------------------
\* The ways a section ends, for the thread that takes it.
LEMMA FinishIs ==
  ASSUME TypeOK, NEW p \in Threads, NEW r, Finish(p, r)
  PROVE  pc'[p] = "idle" /\ call'[p] = call[p] /\ res'[p] = r
  BY DEF Finish, Goto, TypeOK

LEMMA CallDisconnectIs ==
  ASSUME TypeOK, NEW p \in Threads, NEW l, CallDisconnect(p, l)
  PROVE  pc'[p] = "takeSocket" /\ call'[p] = call[p]
  BY DEF CallDisconnect, Goto, TypeOK

LEMMA ToVerdictIs ==
  ASSUME TypeOK, NEW p \in Threads, ToVerdict(p)
  PROVE  pc'[p] = "readVerdict" /\ call'[p] = call[p]
  BY DEF ToVerdict, Goto, TypeOK

LEMMA QueryFailsIs ==
  ASSUME TypeOK, NEW p \in Threads, QueryFails(p)
  PROVE  /\ call'[p] = call[p]
         /\ pc'[p] = "takeSocket" \/ (call[p] = "query" /\ pc'[p] = "idle")
  BY FinishIs, CallDisconnectIs DEF QueryFails

LEMMA ConnectFailsIs ==
  ASSUME TypeOK, NEW p \in Threads, ConnectFails(p)
  PROVE  /\ call'[p] = call[p]
         /\ pc'[p] \in {"takeSocket", "readVerdict"} \/ (pc'[p] = "idle" /\ res'[p] = "failed")
            \/ (call[p] = "query" /\ pc'[p] = "idle")
  BY FinishIs, ToVerdictIs, QueryFailsIs DEF ConnectFails

LEMMA ConnectSucceedsIs ==
  ASSUME TypeOK, NEW p \in Threads, ConnectSucceeds(p)
  PROVE  \/ pc'[p] \in {"beginQuery", "checkConnected"}
         \/ pc'[p] = "idle" /\ call'[p] \in {"connect", "reconnect"}
  BY FinishIs DEF ConnectSucceeds, Goto, TypeOK

-----------------------------------------------------------------------------
\* A client whose reconnections nobody disturbs.

LEMMA CalmInit == Init => CalmInv
<1> SUFFICES ASSUME Init PROVE CalmInv
  OBVIOUS
<1>1. SocketInv
  BY DEF Init, SocketInv
<1>2. ThreadInv
  BY DEF Init, ThreadInv, HandshakePcs, LoggingPcs, LoginPcs, At
<1>3. CloseInv
  BY DEF Init, CloseInv, At
<1> QED
  BY <1>1, <1>2, <1>3 DEF CalmInv

\* Where t goes from here is right for the connection it leaves, and nothing but
\* where t is and what it holds has changed.
Fits(t) ==
  /\ pc'[t] \in HandshakePcs \cup {"setSocket", "closeSocket", "markFailed"} => Down
  /\ pc'[t] \in LoggingPcs => ~connected /\ ws # None
  /\ pc'[t] = "setConnected" => ws \in authed
  /\ pc'[t] \in {"lockQuery", "sendQuery"} => held'[t] \in authed
  /\ pc[t] \in LoggingPcs => pc'[t] \in LoggingPcs \cup {"takeSocket"}
  /\ pc'[t] = "markClosed" => call'[t] = "close"
  /\ closed => ~Reconnects(t)'

Others(t) ==
  \A u \in Threads \ {t} : pc'[u] = pc[u] /\ held'[u] = held[u] /\ call'[u] = call[u]

LEMMA CalmQuiet ==
  ASSUME CalmInv, NEW t \in Threads, Others(t), Fits(t), ~Holder(t), pc[t] # "takeSocket",
         UNCHANGED <<connected, closed, ws, sock, authed>>
  PROVE  CalmInv'
<1>1. SocketInv'
  BY DEF CalmInv, SocketInv, Others, Fits, Holder
<1>2. ThreadInv'
  BY DEF CalmInv, ThreadInv, Others, Fits, Down, At
<1>3. CloseInv'
  BY DEF CalmInv, CloseInv, Others, Fits, Down, Reconnects, At
<1> QED
  BY <1>1, <1>2, <1>3 DEF CalmInv

\* So it is if t leaves its method; in a login it leaves it to disconnect.
LEMMA CalmLeaves ==
  ASSUME TypeOK, CalmInv, NEW t \in Threads, Start(t) \/ Step(t), Leaves(t), ~Holder(t),
         pc[t] # "takeSocket", pc[t] \in LoggingPcs => pc'[t] = "takeSocket",
         UNCHANGED <<connected, closed, ws, sock, authed>>
  PROVE  CalmInv'
<1>1. pc'[t] \in {"idle", "beginQuery", "checkConnected", "readVerdict", "takeSocket"}
      /\ \A u \in Threads \ {t} : held'[u] = held[u]
  BY LeavesMoves DEF TypeOK
<1>2. Others(t)
  BY <1>1, OnlyMine DEF Others
<1>3. Fits(t)
  BY <1>1 DEF Fits, HandshakePcs, LoggingPcs, LoginPcs, Reconnects
<1> QED
  BY <1>2, <1>3, CalmQuiet

\* The thread that reconnects is the only one that does, and none takes the
\* connection down.
LEMMA NobodyElse ==
  ASSUME Undisturbed, NEW t \in Threads, Reconnects(t)
  PROVE  \A u \in Threads \ {t} :
           pc[u] \notin HandshakePcs \cup LoggingPcs
                        \cup {"setSocket", "takeSocket", "closeSocket", "markFailed"}
  BY DEF Undisturbed, Reconnects, Disrupts, DisconnectPcs

LEMMA NobodyReconnects ==
  ASSUME Undisturbed, NEW t \in Threads, Disrupts(t)
  PROVE  \A u \in Threads \ {t} : ~Reconnects(u)
  BY DEF Undisturbed

LEMMA ConnectingCalm ==
  ASSUME IInv, CalmInv, Undisturbed, Undisturbed', NEW t \in Threads, Connecting(t)
  PROVE  CalmInv'
<1> USE DEF At
<1>0. TypeOK /\ OwnInv /\ LockInv /\ Step(t) /\ SocketInv /\ ThreadInv /\ CloseInv
  BY DEF IInv, Step, CalmInv
\* A Goto that leaves the connection alone.
<1>a. ASSUME NEW l, Goto(t, l), Fits(t), ~Holder(t),
             held' = held \/ \E h \in Sockets \cup {None} : held' = [held EXCEPT ![t] = h],
             pc[t] # "takeSocket", UNCHANGED <<connected, closed, ws, sock, authed>>
      PROVE  CalmInv'
  <2>1. Others(t)
    BY <1>0, <1>a, OnlyMine DEF Others, TypeOK
  <2> QED
    BY <1>a, <2>1, CalmQuiet
\* One that goes from label to label of a login.
<1>b. ASSUME NEW l \in LoggingPcs \ {"setConnected"}, Goto(t, l), pc[t] \in LoggingPcs,
             held' = held \/ \E h \in Sockets \cup {None} : held' = [held EXCEPT ![t] = h],
             UNCHANGED <<connected, closed, ws, sock, authed>>
      PROVE  CalmInv'
  <2>1. pc'[t] = l /\ ~closed /\ ~connected /\ ws # None
    BY <1>0, <1>b DEF Goto, TypeOK, CloseInv, ThreadInv, Reconnects
  <2>2. Fits(t)
    BY <1>b, <2>1 DEF Fits, LoggingPcs, LoginPcs, HandshakePcs
  <2> QED
    BY <1>a, <1>b, <2>2 DEF Holder, LoggingPcs, LoginPcs
\* And one that fails in a login.
<1>c. ASSUME NEW l \in Returns, CallDisconnect(t, l), ~Holder(t), pc[t] # "takeSocket",
             UNCHANGED <<connected, closed, ws, sock, authed>>
      PROVE  CalmInv'
  BY <1>0, <1>c, CallDisconnectIs, CalmLeaves DEF Leaves
<1>1. CASE EnterConnect(t)
  <2>0. pc[t] = "enterConnect" /\ UNCHANGED <<connected, closed, ws, sock, authed>> /\ ~Holder(t)
        /\ pc[t] \notin LoggingPcs
    BY <1>1 DEF EnterConnect, net, Holder, LoggingPcs, LoginPcs
  <2>1. CASE Leaves(t)
    BY <1>0, <2>0, <2>1, CalmLeaves
  <2>2. CASE ~connected /\ ~closed /\ Goto(t, "handshake") /\ UNCHANGED <<call, held, after, res>>
    <3>1. pc'[t] = "handshake"
      BY <1>0, <2>2 DEF Goto, TypeOK
    <3>2. \A u \in Threads \ {t} : pc[u] \notin LoggingPcs \cup {"takeSocket"}
      BY <1>0, <3>1, OnlyMine, NobodyElse DEF Undisturbed, Reconnects, Disrupts, HandshakePcs, DisconnectPcs
    <3>3. Down
      BY <1>0, <2>0, <2>2, <3>2 DEF SocketInv, Down
    <3>4. Fits(t)
      BY <2>0, <2>2, <3>1, <3>3 DEF Fits, HandshakePcs, LoggingPcs, LoginPcs
    <3> QED
      BY <1>a, <2>0, <2>2, <3>4
  <2> QED
    BY <1>1, <2>1, <2>2 DEF EnterConnect, Leaves
<1>2. CASE Handshake(t)
  <2>0. pc[t] \in HandshakePcs /\ UNCHANGED <<connected, closed, ws, authed>> /\ Down /\ ~closed
        /\ ~Holder(t) /\ pc[t] \notin LoggingPcs \cup {"takeSocket"}
    BY <1>0, <1>2 DEF Handshake, ThreadInv, CloseInv, Reconnects, Holder, HandshakePcs, LoggingPcs, LoginPcs
  <2>1. ASSUME NEW s \in Sockets, Opens(s), held' = [held EXCEPT ![t] = s], Goto(t, "setSocket")
        PROVE  CalmInv'
    <3>1. /\ pc'[t] = "setSocket" /\ held'[t] = s /\ Others(t)
          /\ \A r \in Sockets : sock'[r] = IF r = s THEN "open" ELSE sock[r]
      BY <1>0, <2>1, OnlyMine DEF Goto, TypeOK, Opens, Others
    <3>2. SocketInv'
      BY <1>0, <2>0, <3>1 DEF SocketInv, Down, Others, Holder
    <3>3. ThreadInv'
      BY <1>0, <2>0, <3>1 DEF ThreadInv, Down, Others, LoggingPcs, LoginPcs
    <3>4. CloseInv'
      BY <1>0, <2>0, <3>1 DEF CloseInv, Others
    <3> QED
      BY <3>2, <3>3, <3>4 DEF CalmInv
  <2>2. CASE Goto(t, "retryHandshake") /\ UNCHANGED <<sock, held>>
    <3>1. pc'[t] = "retryHandshake"
      BY <1>0, <2>2 DEF Goto, TypeOK
    <3>2. Fits(t)
      BY <2>0, <3>1 DEF Fits, LoggingPcs, LoginPcs
    <3> QED
      BY <1>a, <2>0, <2>2, <3>2
  <2>3. CASE ConnectFails(t) /\ UNCHANGED sock
    BY <1>0, <2>0, <2>3, CalmLeaves DEF Leaves
  <2> QED
    BY <1>2, <2>1, <2>2, <2>3 DEF Handshake
<1>3. CASE SetSocket(t)
  <2>0. /\ pc[t] = "setSocket" /\ pc'[t] = "readSocket" /\ ws' = held[t] /\ held'[t] = None
        /\ Others(t) /\ UNCHANGED <<connected, closed, sock, authed>>
    BY <1>0, <1>3, OnlyMine DEF SetSocket, Goto, TypeOK, Others, flags, net
  <2>1. Down /\ ws' # None /\ ~closed
    BY <1>0, <2>0 DEF ThreadInv, OwnInv, CloseInv, Reconnects
  <2>2. \A u \in Threads \ {t} :
          pc[u] \notin HandshakePcs \cup LoggingPcs \cup {"setSocket", "closeSocket", "markFailed"}
    BY <2>0, NobodyElse DEF Reconnects
  <2>3. SocketInv'
    BY <1>0, <2>0, <2>1, NoneAssumption DEF SocketInv, Down, Others, Holder, LoggingPcs
  <2>4. ThreadInv'
    BY <1>0, <2>0, <2>1, <2>2 DEF ThreadInv, Down, Others, HandshakePcs, LoggingPcs
  <2>5. CloseInv'
    BY <1>0, <2>0, <2>1 DEF CloseInv, Others
  <2> QED
    BY <2>3, <2>4, <2>5 DEF CalmInv
<1>4. CASE ReadSocket(t)
  <2>1. pc[t] = "readSocket" /\ UNCHANGED <<connected, closed, ws, sock, authed>>
    BY <1>4 DEF ReadSocket, net
  <2>2. CASE CallDisconnect(t, "connectFailed")
    BY <1>c, <2>1, <2>2 DEF Holder, Returns
  <2>3. CASE held' = [held EXCEPT ![t] = ws] /\ Goto(t, "lockLogin")
    BY <1>0, <1>b, <2>1, <2>3 DEF TypeOK, LoggingPcs, LoginPcs
  <2> QED
    BY <1>4, <2>2, <2>3 DEF ReadSocket
<1>5. CASE LockLogin(t)
  <2>1. pc[t] = "lockLogin" /\ UNCHANGED <<connected, closed, ws, sock, authed>>
    BY <1>5 DEF LockLogin, net
  <2>2. CASE CallDisconnect(t, "connectFailed")
    BY <1>c, <2>1, <2>2 DEF Holder, Returns
  <2>3. CASE Goto(t, "sendConnect") /\ held' = held
    BY <1>b, <2>1, <2>3 DEF LoggingPcs, LoginPcs
  <2> QED
    BY <1>5, <2>2, <2>3 DEF LockLogin
<1>6. CASE SendLogin(t)
  <2>1. pc[t] \in {"sendConnect", "sendLogin"} /\ UNCHANGED <<connected, closed, ws, sock, authed>>
    BY <1>6 DEF SendLogin, flags
  <2>2. CASE CallDisconnect(t, "abortLogin")
    BY <1>c, <2>1, <2>2 DEF Holder, Returns
  <2>3. ASSUME NEW l \in {"awaitConnected", "awaitLogin"}, Goto(t, l), held' = held
        PROVE  CalmInv'
    BY <1>b, <2>1, <2>3 DEF LoggingPcs, LoginPcs
  <2> QED
    BY <1>6, <2>2, <2>3 DEF SendLogin
<1>7. CASE LoginAnswered(t)
  <2>1. pc[t] \in {"awaitConnected", "awaitLogin"} /\ UNCHANGED <<connected, closed, ws, sock>>
    BY <1>7 DEF LoginAnswered
  <2>2. CASE Goto(t, "sendLogin") /\ UNCHANGED <<authed, held>>
    BY <1>b, <2>1, <2>2 DEF LoggingPcs, LoginPcs
  <2>3. CASE authed' = authed \cup {ws} /\ Goto(t, "setConnected") /\ held' = held
    <3>1. pc'[t] = "setConnected" /\ Others(t)
      BY <1>0, <2>3, OnlyMine DEF Goto, TypeOK, Others
    <3>2. ~connected /\ ws # None /\ ~closed
      BY <1>0, <2>1 DEF ThreadInv, CloseInv, Reconnects, LoggingPcs, LoginPcs
    <3>3. SocketInv'
      BY <1>0, <2>1, <2>3, <3>1, <3>2 DEF SocketInv, Others, Holder, LoggingPcs
    <3>4. ThreadInv'
      BY <1>0, <2>1, <2>3, <3>1, <3>2 DEF ThreadInv, Down, Others, HandshakePcs
    <3>5. CloseInv'
      BY <1>0, <2>1, <3>1, <3>2 DEF CloseInv, Others
    <3> QED
      BY <3>3, <3>4, <3>5 DEF CalmInv
  <2>4. CASE CallDisconnect(t, "abortLogin") /\ UNCHANGED authed
    BY <1>c, <2>1, <2>4 DEF Holder, Returns
  <2> QED
    BY <1>7, <2>2, <2>3, <2>4 DEF LoginAnswered
<1>8. CASE LoginTimeout(t) \/ LoginRaises(t)
  <2>1. pc[t] \in {"awaitConnected", "awaitLogin"} /\ UNCHANGED <<connected, closed, ws, sock, authed>>
        /\ \E l \in Returns : CallDisconnect(t, l)
    BY <1>8 DEF LoginTimeout, LoginRaises, flags, net, Returns
  <2> QED
    BY <1>c, <2>1 DEF Holder
<1>9. CASE AbortLogin(t)
  BY <1>c, <1>9 DEF AbortLogin, flags, net, Returns, Holder
<1>10. CASE ConnectFailed(t)
  BY <1>0, <1>10, CalmLeaves DEF ConnectFailed, Leaves, flags, net, Holder, LoggingPcs, LoginPcs
<1>11. CASE SetConnected(t)
  <2>0. pc[t] = "setConnected" /\ connected' /\ UNCHANGED <<closed, ws, sock, authed>>
    BY <1>11 DEF SetConnected, net
  <2>1. ws # None /\ ws \in authed /\ ~closed
    BY <1>0, <2>0 DEF ThreadInv, CloseInv, Reconnects, LoggingPcs
  <2>2. pc'[t] \in {"idle", "beginQuery", "checkConnected"} /\ Others(t)
    <3>1. Leaves(t)
      BY <1>11 DEF SetConnected, Leaves
    <3>2. \A u \in Threads \ {t} : held'[u] = held[u]
      BY <1>0, <3>1, LeavesMoves DEF TypeOK
    <3> QED
      BY <1>0, <1>11, <3>2, OnlyMine, ConnectSucceedsIs DEF SetConnected, Others
  <2>3. \A u \in Threads \ {t} :
          pc[u] \notin HandshakePcs \cup LoggingPcs \cup {"setSocket", "closeSocket", "markFailed"}
    BY <2>0, NobodyElse DEF Reconnects, LoggingPcs
  <2>4. SocketInv'
    BY <1>0, <2>0, <2>1, <2>2 DEF SocketInv, Others, Holder
  <2>5. ThreadInv'
    BY <1>0, <2>0, <2>1, <2>2, <2>3 DEF ThreadInv, Others, HandshakePcs, LoggingPcs, LoginPcs
  <2>6. CloseInv'
    BY <1>0, <2>0, <2>1, <2>2 DEF CloseInv, Others
  <2> QED
    BY <2>4, <2>5, <2>6 DEF CalmInv
<1> QED
  BY <1>1, <1>2, <1>3, <1>4, <1>5, <1>6, <1>7, <1>8, <1>9, <1>10, <1>11 DEF Connecting

LEMMA DisconnectingCalm ==
  ASSUME IInv, CalmInv, Undisturbed, Undisturbed', NEW t \in Threads, Disconnecting(t)
  PROVE  CalmInv'
<1> USE DEF At
<1>0. TypeOK /\ OwnInv /\ Step(t) /\ SocketInv /\ ThreadInv /\ CloseInv
  BY DEF IInv, Step, CalmInv
<1>1. CASE TakeSocket(t)
  <2>0. /\ pc[t] = "takeSocket" /\ pc'[t] = "closeSocket" /\ held'[t] = ws
        /\ ~connected' /\ ws' = None
        /\ Others(t) /\ UNCHANGED <<closed, sock, authed>>
    BY <1>0, <1>1, OnlyMine DEF TakeSocket, Goto, TypeOK, Others, net
  <2>1. \A u \in Threads : ~Reconnects(u) /\ ~Reconnects(u)'
    <3>1. \A u \in Threads \ {t} : ~Reconnects(u)
      BY <2>0, NobodyReconnects DEF Disrupts, DisconnectPcs
    <3> QED
      BY <2>0, <3>1 DEF Reconnects, Others, HandshakePcs, LoggingPcs, LoginPcs
  <2>2. SocketInv'
    BY <1>0, <2>0 DEF SocketInv, Others, Holder
  <2>3. ThreadInv'
    BY <1>0, <2>0, <2>1 DEF ThreadInv, Down, Others, Reconnects, LoggingPcs
  <2>4. CloseInv'
    BY <1>0, <2>0, <2>1 DEF CloseInv, Down, Others
  <2> QED
    BY <2>2, <2>3, <2>4 DEF CalmInv
<1>2. CASE CloseSocket(t)
  <2>0. /\ pc[t] = "closeSocket" /\ pc'[t] = after[t] /\ held'[t] = None
        /\ \A s \in Sockets : sock'[s] = IF s = held[t] THEN "closed" ELSE sock[s]
        /\ Others(t) /\ UNCHANGED <<connected, closed, ws, authed>>
    BY <1>0, <1>2, OnlyMine DEF CloseSocket, Goto, TypeOK, Others, flags
  <2>1. Down /\ after[t] \in Returns
    BY <1>0, <2>0 DEF ThreadInv, TypeOK
  <2>2. pc'[t] \notin HandshakePcs \cup LoggingPcs
                      \cup {"setSocket", "lockQuery", "sendQuery", "markClosed"}
    BY <2>0, <2>1 DEF Returns, HandshakePcs, LoggingPcs, LoginPcs
  <2>3. SocketInv'
    BY <1>0, <2>0, <2>1 DEF SocketInv, Down, Others, Holder
  <2>4. ThreadInv'
    BY <1>0, <2>0, <2>1, <2>2 DEF ThreadInv, Down, Others, LoggingPcs
  <2>5. CloseInv'
    BY <1>0, <2>0, <2>1, <2>2 DEF CloseInv, Down, Others, Reconnects
  <2> QED
    BY <2>3, <2>4, <2>5 DEF CalmInv
<1>3. CASE MarkClosed(t)
  <2>0. /\ pc[t] = "markClosed" /\ pc'[t] = "takeSocket" /\ call'[t] = call[t] /\ closed'
        /\ Others(t) /\ UNCHANGED <<connected, ws, sock, authed>>
    BY <1>0, <1>3, OnlyMine, CallDisconnectIs DEF MarkClosed, CallDisconnect, Others, net
  <2>1. call'[t] = "close"
    BY <1>0, <2>0 DEF CloseInv
  <2>2. \A u \in Threads : ~Reconnects(u)'
    BY <2>0 DEF Undisturbed, Disrupts, DisconnectPcs, Reconnects, HandshakePcs, LoggingPcs, LoginPcs
  <2>3. SocketInv'
    BY <1>0, <2>0 DEF SocketInv, Others, Holder
  <2>4. ThreadInv'
    BY <1>0, <2>0 DEF ThreadInv, Down, Others, HandshakePcs, LoggingPcs, LoginPcs
  <2>5. CloseInv'
    BY <1>0, <2>0, <2>1, <2>2 DEF CloseInv, Others
  <2> QED
    BY <2>3, <2>4, <2>5 DEF CalmInv
<1>4. CASE Returned(t)
  BY <1>0, <1>4, CalmLeaves DEF Returned, Leaves, flags, net, Holder, LoggingPcs, LoginPcs
<1> QED
  BY <1>1, <1>2, <1>3, <1>4 DEF Disconnecting

LEMMA QueryingCalm ==
  ASSUME IInv, CalmInv, NEW t \in Threads, Querying(t)
  PROVE  CalmInv'
<1> USE DEF At
<1>0. TypeOK /\ LockInv /\ Step(t) /\ SocketInv /\ ThreadInv /\ CloseInv
  BY DEF IInv, Step, CalmInv
<1>a. ASSUME Leaves(t), pc[t] \notin LoggingPcs \cup {"setSocket", "takeSocket", "closeSocket"},
             UNCHANGED <<connected, closed, ws, sock, authed>>
      PROVE  CalmInv'
  BY <1>0, <1>a, CalmLeaves DEF Holder
<1>b. ASSUME NEW l \in {"idle", "beginQuery", "enterConnect", "lockQuery", "sendQuery",
                        "awaitAnswer"},
             pc[t] \notin LoggingPcs \cup {"setSocket", "takeSocket", "closeSocket"},
             Goto(t, l), \A u \in Threads \ {t} : held'[u] = held[u],
             l \in {"lockQuery", "sendQuery"} => held'[t] \in authed,
             UNCHANGED <<connected, closed, ws, sock, authed>>
      PROVE  CalmInv'
  <2>1. pc'[t] = l /\ Others(t)
    BY <1>0, <1>b, OnlyMine DEF Goto, TypeOK, Others
  <2>2. Fits(t)
    BY <1>b, <2>1 DEF Fits, Reconnects, HandshakePcs, LoggingPcs, LoginPcs
  <2> QED
    BY <1>b, <2>1, <2>2, CalmQuiet DEF Holder
<1> USE DEF LoggingPcs, LoginPcs
<1>1. CASE CheckConnected(t)
  BY <1>b, <1>1 DEF CheckConnected, flags, net
<1>2. CASE BeginQuery(t)
  <2>0. pc[t] = "beginQuery" /\ UNCHANGED <<connected, closed, ws, sock, authed>>
    BY <1>2 DEF BeginQuery, net
  <2>1. CASE connected /\ held' = [held EXCEPT ![t] = ws] /\ Goto(t, "lockQuery")
    <3>1. held'[t] \in authed /\ \A u \in Threads \ {t} : held'[u] = held[u]
      BY <1>0, <2>1 DEF SocketInv, TypeOK
    <3> QED
      BY <1>b, <2>0, <2>1, <3>1
  <2>2. CASE QueryFails(t)
    BY <1>a, <2>0, <2>2 DEF Leaves
  <2> QED
    BY <1>2, <2>1, <2>2 DEF BeginQuery
<1>3. CASE LockQuery(t)
  <2>0. pc[t] = "lockQuery" /\ UNCHANGED <<connected, closed, ws, sock, authed>>
    BY <1>3 DEF LockQuery, net
  <2>1. CASE Goto(t, "sendQuery") /\ held' = held
    BY <1>0, <1>b, <2>0, <2>1 DEF ThreadInv
  <2>2. CASE QueryFails(t)
    BY <1>a, <2>0, <2>2 DEF Leaves
  <2> QED
    BY <1>3, <2>1, <2>2 DEF LockQuery
<1>4. CASE SendQuery(t)
  <2>0. pc[t] = "sendQuery" /\ UNCHANGED <<connected, closed, ws, sock, authed>>
    BY <1>4 DEF SendQuery, flags
  <2>1. CASE Goto(t, "awaitAnswer") /\ held' = held
    BY <1>b, <2>0, <2>1
  <2>2. CASE CallDisconnect(t, "failQuery")
    BY <1>a, <2>0, <2>2 DEF Leaves, Returns
  <2> QED
    BY <1>4, <2>1, <2>2 DEF SendQuery
<1>5. CASE QueryAnswered(t)
  BY <1>a, <1>5 DEF QueryAnswered, Leaves
<1>6. CASE QueryTimeout(t) \/ QueryRaises(t)
  BY <1>a, <1>6 DEF QueryTimeout, QueryRaises, Leaves, Returns, flags, net
<1>7. CASE AbortQuery(t) \/ FailQuery(t)
  BY <1>a, <1>7 DEF AbortQuery, FailQuery, Leaves, flags, net
<1>8. CASE MarkFailed(t)
  <2>1. ~connected
    BY <1>0, <1>8 DEF MarkFailed, ThreadInv, Down
  <2>2. UNCHANGED <<connected, closed, ws, sock, authed>>
    BY <1>0, <1>8, <2>1 DEF MarkFailed, net, TypeOK
  <2> QED
    BY <1>a, <1>8, <2>2 DEF MarkFailed, Leaves
<1>9. CASE ReadVerdict(t)
  BY <1>b, <1>9 DEF ReadVerdict, flags, net
<1> QED
  BY <1>1, <1>2, <1>3, <1>4, <1>5, <1>6, <1>7, <1>8, <1>9 DEF Querying

LEMMA StartCalm ==
  ASSUME IInv, CalmInv, NEW t \in Threads, Start(t)
  PROVE  CalmInv'
<1> USE DEF At
<1>1. TypeOK
  BY DEF IInv
<1>2. PICK k \in CallKinds : Goto(t, Entry(k)) /\ call' = [call EXCEPT ![t] = k]
  BY CallsAssumption DEF Start
<1>3. pc'[t] = Entry(k) /\ call'[t] = k /\ Others(t)
  BY <1>1, <1>2, OnlyMine DEF Start, Goto, TypeOK, Others
<1>4. pc'[t] \in {"checkConnected", "enterConnect", "takeSocket", "markClosed"}
      /\ (pc'[t] = "markClosed" => call'[t] = "close")
  BY <1>3 DEF Entry, CallKinds
<1>5. Fits(t)
  BY <1>4 DEF Fits, Start, Reconnects, HandshakePcs, LoggingPcs, LoginPcs
<1> QED
  BY <1>3, <1>5, CalmQuiet DEF Start, Holder, flags, net

LEMMA DropCalm ==
  ASSUME IInv, CalmInv, NEW s \in Sockets, Drop(s)
  PROVE  CalmInv'
<1>1. \A r \in Sockets : sock'[r] \in {"open", "lost"} => sock[r] \in {"open", "lost"}
  BY DEF Drop, IInv, TypeOK
<1>2. SocketInv'
  BY <1>1 DEF Drop, flags, CalmInv, SocketInv, Holder
<1>3. ThreadInv' /\ CloseInv'
  BY DEF Drop, flags, CalmInv, ThreadInv, CloseInv, Reconnects, Down, At
<1> QED
  BY <1>2, <1>3 DEF CalmInv

LEMMA CalmNext ==
  IInv /\ CalmInv /\ Undisturbed /\ Undisturbed' /\ [Next]_vars => CalmInv'
<1> SUFFICES ASSUME IInv, CalmInv, Undisturbed, Undisturbed', [Next]_vars PROVE CalmInv'
  OBVIOUS
<1>1. ASSUME NEW t \in Threads, Start(t) \/ Step(t) PROVE CalmInv'
  BY <1>1, StartCalm, ConnectingCalm, DisconnectingCalm, QueryingCalm DEF Step
<1>2. ASSUME NEW s \in Sockets, Drop(s) PROVE CalmInv'
  BY <1>2, DropCalm
<1>3. CASE UNCHANGED vars
  BY <1>3 DEF vars, CalmInv, SocketInv, ThreadInv, CloseInv, Holder, Reconnects, Down, At
<1> QED
  BY <1>1, <1>2, <1>3 DEF Next

\* As long as no thread reconnects while another reconnects or disconnects, however
\* many threads call the client and whatever they call: no connection leaks, the
\* client is connected to a socket or not at all, no query goes out before its
\* login, and a close() leaves nothing behind.
THEOREM CalmIsSafe == Spec => UndisturbedIsSafe
<1> DEFINE Good == NoLeak /\ ConnectedHasSocket /\ QueryAfterLogin /\ ClosedForGood
<1>1. IInv /\ CalmInv => Good
  <2> SUFFICES ASSUME IInv, CalmInv PROVE Good
    OBVIOUS
  <2>1. NoLeak
    BY DEF CalmInv, SocketInv, NoLeak
  <2>2. ConnectedHasSocket
    BY DEF CalmInv, SocketInv, ConnectedHasSocket
  <2>3. QueryAfterLogin
    BY DEF IInv, LockInv, Requesting, QueryPcs, CalmInv, ThreadInv, QueryAfterLogin, At
  <2>4. ClosedForGood
    BY DEF CalmInv, CloseInv, Down, ClosedForGood, At
  <2> QED
    BY <2>1, <2>2, <2>3, <2>4
<1>2. Init => IInv /\ CalmInv
  BY InitInv, CalmInit
<1>3. IInv /\ CalmInv /\ Undisturbed /\ Undisturbed' /\ [Next]_vars => (IInv /\ CalmInv)'
  BY NextInv, CalmNext
<1> HIDE DEF Good
<1>4. Spec => ([]Undisturbed => []Good)
  BY <1>1, <1>2, <1>3, PTL DEF Spec
<1> QED
  BY <1>4 DEF UndisturbedIsSafe, Good

-----------------------------------------------------------------------------
\* A client that only p uses.

LEMMA OneInit == ASSUME NEW p \in Threads, Init PROVE OneInv(p)
  BY DEF Init, OneInv, Alone, StateOf, Down, DownPcs, LoggingPcs, LoginPcs, QueryPcs,
         HandshakePcs, Returns, ClosedOf, VerdictOf, LiveOf, Holder, At

\* In a client that is Down, a section may end anywhere but where a connection is
\* needed.
LEMMA DownStep ==
  ASSUME TypeOK, NEW p \in Threads, OneInv(p), Down, Down', UNCHANGED <<closed, sock>>,
         ~Holder(p), call'[p] = call[p],
         \/ pc'[p] \in {"takeSocket", "readVerdict"} \/ (pc'[p] = "idle" /\ res'[p] = "failed")
         \/ call[p] = "query" /\ pc'[p] = "idle"
  PROVE  StateOf(p)' /\ ClosedOf(p)' /\ VerdictOf(p)' /\ LiveOf(p)'
<1>1. StateOf(p)'
  BY DEF StateOf, Down, DownPcs, LoggingPcs, LoginPcs, QueryPcs, HandshakePcs, Returns, At
<1>2. ClosedOf(p)'
  BY DEF ClosedOf, Down, HandshakePcs, At
<1>3. VerdictOf(p)'
  BY DEF VerdictOf, Down, At
<1>4. LiveOf(p)'
  BY DEF OneInv, LiveOf, Down
<1> QED
  BY <1>1, <1>2, <1>3, <1>4

\* Giving up on a connection, with disconnect().
LEMMA AbandonStep ==
  ASSUME TypeOK, NEW p \in Threads, OneInv(p),
         UNCHANGED <<connected, ws, sock, authed>>, closed' = closed, ~Holder(p),
         ~At(p, "takeSocket"), call'[p] = call[p], pc'[p] = "takeSocket"
  PROVE  StateOf(p)' /\ ClosedOf(p)' /\ VerdictOf(p)' /\ LiveOf(p)'
<1>1. StateOf(p)'
  BY DEF OneInv, StateOf, Down, DownPcs, LoggingPcs, LoginPcs, QueryPcs, HandshakePcs,
         Returns, At
<1>2. ClosedOf(p)'
  BY DEF OneInv, ClosedOf, Down, HandshakePcs, At
<1>3. VerdictOf(p)'
  BY DEF VerdictOf, At
<1>4. LiveOf(p)'
  BY DEF OneInv, LiveOf, Holder
<1> QED
  BY <1>1, <1>2, <1>3, <1>4

\* What p's own part of the invariant is.
OwnOf(p) == StateOf(p) /\ ClosedOf(p) /\ VerdictOf(p) /\ LiveOf(p)

LEMMA ConnectingOne ==
  ASSUME TypeOK, OwnInv, NEW p \in Threads, OneInv(p), Connecting(p)
  PROVE  OwnOf(p)'
<1> USE DEF At, OwnOf
<1>0. StateOf(p) /\ ClosedOf(p) /\ VerdictOf(p) /\ LiveOf(p)
  BY DEF OneInv
<1>1. CASE EnterConnect(p)
  <2>0. pc[p] = "enterConnect" /\ UNCHANGED <<connected, closed, ws, sock, authed>>
    BY <1>1 DEF EnterConnect, net
  <2>1. (connected /\ ws # None) \/ Down
    BY <1>0, <2>0 DEF StateOf, Down, LoggingPcs, LoginPcs
  <2>2. CASE connected /\ ConnectSucceeds(p)
    <3>1. StateOf(p)'
      BY <1>0, <2>0, <2>2, ConnectSucceedsIs DEF StateOf, Down, DownPcs, LoggingPcs, LoginPcs,
         QueryPcs, HandshakePcs, Returns
    <3>2. ClosedOf(p)'
      BY <1>0, <2>0, <2>1, <2>2, ConnectSucceedsIs DEF ClosedOf, Down, HandshakePcs
    <3>3. VerdictOf(p)'
      BY <2>0, <2>2, ConnectSucceedsIs DEF VerdictOf
    <3>4. LiveOf(p)'
      BY <1>0, <2>0 DEF LiveOf, Holder
    <3> QED
      BY <3>1, <3>2, <3>3, <3>4
  <2>3. CASE ~connected /\ closed /\ ConnectFails(p)
    BY <2>0, <2>1, <2>3, ConnectFailsIs, DownStep DEF Down, Holder
  <2>4. CASE ~connected /\ ~closed /\ Goto(p, "handshake")
    <3>1. pc'[p] = "handshake" /\ Down /\ Down'
      BY <2>0, <2>1, <2>4 DEF Goto, TypeOK, Down
    <3>2. StateOf(p)'
      BY <3>1 DEF StateOf, Down, DownPcs, LoggingPcs, LoginPcs, QueryPcs, HandshakePcs
    <3>3. ClosedOf(p)' /\ VerdictOf(p)'
      BY <2>0, <2>4, <3>1 DEF ClosedOf, VerdictOf
    <3>4. LiveOf(p)'
      BY <1>0, <2>0 DEF LiveOf, Holder
    <3> QED
      BY <3>2, <3>3, <3>4
  <2> QED
    BY <1>1, <2>2, <2>3, <2>4 DEF EnterConnect
<1>2. CASE Handshake(p)
  <2>0. /\ pc[p] \in HandshakePcs /\ UNCHANGED <<connected, closed, ws, authed>>
        /\ Down /\ Down' /\ ~closed
    BY <1>0, <1>2 DEF Handshake, StateOf, ClosedOf, DownPcs, Down
  <2>1. ASSUME NEW s \in Sockets, Opens(s), held' = [held EXCEPT ![p] = s],
               Goto(p, "setSocket")
        PROVE  OwnOf(p)'
    <3>1. pc'[p] = "setSocket" /\ held'[p] = s
      BY <2>1 DEF Goto, TypeOK
    <3>2. StateOf(p)'
      BY <2>0, <3>1 DEF StateOf, Down, DownPcs, LoggingPcs, LoginPcs, QueryPcs, HandshakePcs
    <3>3. ClosedOf(p)' /\ VerdictOf(p)'
      BY <2>0, <3>1 DEF ClosedOf, VerdictOf
    <3>4. \A r \in Sockets : sock[r] \in {"open", "lost"} => FALSE
      BY <1>0, <2>0, NoneAssumption DEF LiveOf, Holder, Down, HandshakePcs
    <3>5. LiveOf(p)'
      BY <2>1, <3>1, <3>4 DEF LiveOf, Holder, Opens, TypeOK
    <3> QED
      BY <3>2, <3>3, <3>5
  <2>2. CASE Goto(p, "retryHandshake") /\ UNCHANGED <<sock, call, held>>
    <3>1. pc'[p] = "retryHandshake"
      BY <2>2 DEF Goto, TypeOK
    <3>2. StateOf(p)'
      BY <2>0, <3>1 DEF StateOf, Down, DownPcs, LoggingPcs, LoginPcs, QueryPcs, HandshakePcs
    <3>3. ClosedOf(p)' /\ VerdictOf(p)'
      BY <2>0, <3>1 DEF ClosedOf, VerdictOf
    <3>4. LiveOf(p)'
      BY <1>0, <2>0, <2>2 DEF LiveOf, Holder, HandshakePcs
    <3> QED
      BY <3>2, <3>3, <3>4
  <2>3. CASE ConnectFails(p) /\ UNCHANGED sock
    BY <2>0, <2>3, ConnectFailsIs, DownStep DEF Holder, HandshakePcs
  <2> QED
    BY <1>2, <2>1, <2>2, <2>3 DEF Handshake
<1>3. CASE SetSocket(p)
  <2>0. /\ pc[p] = "setSocket" /\ pc'[p] = "readSocket" /\ held[p] # None
        /\ ws' = held[p] /\ UNCHANGED <<connected, closed, sock, authed>>
        /\ Down /\ ~closed
    BY <1>0, <1>3 DEF SetSocket, Goto, TypeOK, flags, net, OwnInv, StateOf, DownPcs, ClosedOf
  <2>1. StateOf(p)'
    BY <2>0 DEF StateOf, Down, DownPcs, LoggingPcs, LoginPcs, QueryPcs, HandshakePcs, Returns
  <2>2. ClosedOf(p)' /\ VerdictOf(p)'
    BY <2>0 DEF ClosedOf, VerdictOf
  <2>3. LiveOf(p)'
    BY <1>0, <2>0, NoneAssumption DEF LiveOf, Holder, Down
  <2> QED
    BY <2>1, <2>2, <2>3
<1>4. CASE ReadSocket(p) \/ LockLogin(p) \/ SendLogin(p)
  <2>0. /\ pc[p] \in LoggingPcs \ {"setConnected", "awaitConnected", "awaitLogin"}
        /\ UNCHANGED <<connected, closed, ws, sock, authed>>
    BY <1>4 DEF ReadSocket, LockLogin, SendLogin, LoggingPcs, LoginPcs, flags, net
  <2>1. CASE \E l : CallDisconnect(p, l)
    BY <2>0, <2>1, CallDisconnectIs, AbandonStep DEF Holder, LoggingPcs, LoginPcs
  <2>2. CASE \E l \in LoggingPcs \ {"setConnected"} : Goto(p, l) /\ call' = call
    <3>1. pc'[p] \in LoggingPcs \ {"setConnected"} /\ call' = call
      BY <2>2 DEF Goto, TypeOK
    <3>2. StateOf(p)'
      BY <1>0, <2>0, <3>1 DEF StateOf, Down, DownPcs, LoggingPcs, LoginPcs, QueryPcs,
         HandshakePcs, Returns
    <3>3. ClosedOf(p)' /\ VerdictOf(p)'
      BY <1>0, <2>0, <3>1 DEF ClosedOf, VerdictOf, StateOf, Down, LoggingPcs, LoginPcs, HandshakePcs
    <3>4. LiveOf(p)'
      BY <1>0, <2>0 DEF LiveOf, Holder, LoggingPcs, LoginPcs
    <3> QED
      BY <3>2, <3>3, <3>4
  <2> QED
    BY <1>4, <2>1, <2>2 DEF ReadSocket, LockLogin, SendLogin, LoggingPcs, LoginPcs
<1>5. CASE LoginAnswered(p)
  <2>0. /\ pc[p] \in {"awaitConnected", "awaitLogin"}
        /\ UNCHANGED <<connected, closed, ws, sock>>
    BY <1>5 DEF LoginAnswered
  <2>1. CASE \E l : CallDisconnect(p, l) /\ UNCHANGED authed
    BY <2>0, <2>1, CallDisconnectIs, AbandonStep DEF Holder
  <2>2. CASE \/ Goto(p, "sendLogin") /\ UNCHANGED <<authed, call>>
             \/ Goto(p, "setConnected") /\ authed' = authed \cup {ws} /\ UNCHANGED call
    <3>1. /\ pc'[p] \in {"sendLogin", "setConnected"} /\ authed \subseteq authed'
          /\ pc'[p] = "setConnected" => ws \in authed'
          /\ call' = call
      BY <2>2 DEF Goto, TypeOK
    <3>2. StateOf(p)'
      BY <1>0, <2>0, <3>1 DEF StateOf, Down, DownPcs, LoggingPcs, LoginPcs, QueryPcs,
         HandshakePcs, Returns
    <3>3. ClosedOf(p)' /\ VerdictOf(p)'
      BY <1>0, <2>0, <3>1 DEF ClosedOf, VerdictOf, StateOf, Down, LoggingPcs, LoginPcs, HandshakePcs
    <3>4. LiveOf(p)'
      BY <1>0, <2>0 DEF LiveOf, Holder
    <3> QED
      BY <3>2, <3>3, <3>4
  <2> QED
    BY <1>5, <2>1, <2>2 DEF LoginAnswered
<1>6. CASE LoginTimeout(p) \/ LoginRaises(p)
  BY <1>6, CallDisconnectIs, AbandonStep DEF LoginTimeout, LoginRaises, Holder, flags, net
<1>7. CASE AbortLogin(p)
  BY <1>7, CallDisconnectIs, AbandonStep DEF AbortLogin, Holder, flags, net
<1>8. CASE ConnectFailed(p)
  <2>1. Down /\ Down' /\ ~Holder(p) /\ UNCHANGED <<closed, sock>> /\ ConnectFails(p)
    BY <1>0, <1>8 DEF ConnectFailed, flags, net, Holder, StateOf, DownPcs, Returns, Down
  <2> QED
    BY <2>1, ConnectFailsIs, DownStep
<1>9. CASE SetConnected(p)
  <2>0. /\ pc[p] = "setConnected" /\ UNCHANGED <<closed, ws, sock, authed>>
        /\ connected' = TRUE /\ ws # None /\ ws \in authed /\ ~closed
    BY <1>0, <1>9 DEF SetConnected, net, StateOf, ClosedOf, Down, LoggingPcs
  <2>1. /\ StateOf(p)'
    BY <1>9, <2>0, ConnectSucceedsIs DEF SetConnected, StateOf, Down, DownPcs, LoggingPcs,
       LoginPcs, QueryPcs, HandshakePcs, Returns
  <2>2. ClosedOf(p)' /\ VerdictOf(p)'
    BY <1>9, <2>0, ConnectSucceedsIs DEF SetConnected, ClosedOf, VerdictOf
  <2>3. LiveOf(p)'
    BY <1>0, <2>0 DEF LiveOf, Holder
  <2> QED
    BY <2>1, <2>2, <2>3
<1> QED
  BY <1>1, <1>2, <1>3, <1>4, <1>5, <1>6, <1>7, <1>8, <1>9 DEF Connecting

LEMMA DisconnectingOne ==
  ASSUME TypeOK, NEW p \in Threads, OneInv(p), Disconnecting(p)
  PROVE  OwnOf(p)'
<1> USE DEF At, OwnOf
<1>0. StateOf(p) /\ ClosedOf(p) /\ VerdictOf(p) /\ LiveOf(p)
  BY DEF OneInv
<1>1. CASE TakeSocket(p)
  <2>0. /\ pc[p] = "takeSocket" /\ pc'[p] = "closeSocket" /\ held'[p] = ws
        /\ Down' /\ UNCHANGED <<closed, sock>>
    BY <1>1 DEF TakeSocket, Goto, TypeOK, net, Down
  <2>1. StateOf(p)'
    BY <2>0 DEF StateOf, Down, DownPcs, LoggingPcs, LoginPcs, QueryPcs, HandshakePcs, Returns
  <2>2. ClosedOf(p)' /\ VerdictOf(p)'
    BY <2>0 DEF ClosedOf, VerdictOf, HandshakePcs
  <2>3. LiveOf(p)'
    BY <1>0, <2>0 DEF LiveOf, Holder
  <2> QED
    BY <2>1, <2>2, <2>3
<1>2. CASE CloseSocket(p)
  <2>0. /\ pc[p] = "closeSocket" /\ pc'[p] \in Returns
        /\ \A s \in Sockets : sock'[s] = IF s = held[p] THEN "closed" ELSE sock[s]
        /\ Down /\ Down' /\ UNCHANGED <<closed, ws>>
    BY <1>0, <1>2 DEF CloseSocket, Goto, TypeOK, flags, StateOf, DownPcs, Down
  <2>1. StateOf(p)'
    BY <2>0 DEF StateOf, Down, DownPcs, LoggingPcs, LoginPcs, QueryPcs, HandshakePcs, Returns
  <2>2. ClosedOf(p)' /\ VerdictOf(p)'
    BY <2>0 DEF ClosedOf, VerdictOf, HandshakePcs, Returns
  <2>3. LiveOf(p)'
    BY <1>0, <2>0, NoneAssumption DEF LiveOf, Holder, Down
  <2> QED
    BY <2>1, <2>2, <2>3
<1>3. CASE MarkClosed(p)
  <2>0. /\ pc[p] = "markClosed" /\ pc'[p] = "takeSocket" /\ call[p] = "close"
        /\ call'[p] = "close" /\ UNCHANGED <<connected, ws, sock, authed>>
    BY <1>0, <1>3, CallDisconnectIs DEF MarkClosed, ClosedOf, net
  <2>1. StateOf(p)'
    BY <1>0, <2>0 DEF StateOf, Down, DownPcs, LoggingPcs, LoginPcs, QueryPcs, HandshakePcs, Returns
  <2>2. ClosedOf(p)' /\ VerdictOf(p)'
    BY <2>0 DEF ClosedOf, VerdictOf, HandshakePcs
  <2>3. LiveOf(p)'
    BY <1>0, <2>0 DEF LiveOf, Holder
  <2> QED
    BY <2>1, <2>2, <2>3
<1>4. CASE Returned(p)
  <2>0. Down /\ Down' /\ UNCHANGED <<closed, sock>> /\ ~Holder(p)
    BY <1>0, <1>4 DEF Returned, flags, net, StateOf, DownPcs, Returns, Down, Holder
  <2>1. CASE ConnectFails(p)
    BY <2>0, <2>1, ConnectFailsIs, DownStep
  <2>2. CASE call[p] \in {"disconnect", "close"} /\ Finish(p, "ok")
    <3>1. pc'[p] = "idle" /\ call'[p] = call[p]
      BY <2>2, FinishIs
    <3>2. StateOf(p)'
      BY <2>0, <3>1 DEF StateOf, Down, DownPcs, LoggingPcs, LoginPcs, QueryPcs, HandshakePcs, Returns
    <3>3. ClosedOf(p)' /\ VerdictOf(p)'
      BY <2>0, <2>2, <3>1 DEF ClosedOf, VerdictOf, HandshakePcs
    <3>4. LiveOf(p)'
      BY <1>0, <2>0 DEF LiveOf, Down
    <3> QED
      BY <3>2, <3>3, <3>4
  <2> QED
    BY <1>4, <2>1, <2>2 DEF Returned
<1> QED
  BY <1>1, <1>2, <1>3, <1>4 DEF Disconnecting

LEMMA QueryingOne ==
  ASSUME TypeOK, NEW p \in Threads, OneInv(p), Querying(p)
  PROVE  OwnOf(p)'
<1> USE DEF At, OwnOf
<1>0. StateOf(p) /\ ClosedOf(p) /\ VerdictOf(p) /\ LiveOf(p)
  BY DEF OneInv
\* A query goes on while there is a connection, and so nothing is closed.
<1> DEFINE UpPcs == QueryPcs \cup {"beginQuery", "lockQuery"}
<1>a. ASSUME pc[p] \in UpPcs \cup {"checkConnected", "readVerdict"}, connected,
             UNCHANGED <<connected, closed, ws, sock, authed>>,
             \/ pc'[p] \in UpPcs \cup {"readVerdict"}
             \/ pc'[p] = "idle" /\ (call'[p] \in {"test", "testQuery"} => res'[p] = "ok")
      PROVE  OwnOf(p)'
  <2>1. StateOf(p)'
    BY <1>0, <1>a DEF StateOf, Down, DownPcs, LoggingPcs, LoginPcs, QueryPcs, HandshakePcs, Returns
  <2>2. ClosedOf(p)' /\ VerdictOf(p)'
    BY <1>0, <1>a DEF ClosedOf, VerdictOf, Down, QueryPcs, HandshakePcs
  <2>3. LiveOf(p)'
    BY <1>0, <1>a DEF LiveOf, Holder, QueryPcs
  <2> QED
    BY <2>1, <2>2, <2>3
<1>b. ASSUME pc[p] \in UpPcs, UNCHANGED <<connected, closed, ws, sock, authed>>,
             QueryFails(p)
      PROVE  OwnOf(p)'
  <2>1. connected
    BY <1>0, <1>b DEF StateOf
  <2>2. CASE pc'[p] = "takeSocket"
    BY <1>b, <2>2, QueryFailsIs, AbandonStep DEF Holder, QueryPcs
  <2>3. CASE call[p] = "query" /\ pc'[p] = "idle"
    BY <1>a, <1>b, <2>1, <2>3, QueryFailsIs
  <2> QED
    BY <1>b, <2>2, <2>3, QueryFailsIs
<1>1. CASE CheckConnected(p)
  <2>0. /\ pc[p] = "checkConnected"
        /\ pc'[p] = IF connected THEN "beginQuery" ELSE "enterConnect"
        /\ UNCHANGED <<connected, closed, ws, sock, authed, call>>
    BY <1>1 DEF CheckConnected, Goto, TypeOK, flags, net
  <2>1. CASE connected
    BY <1>a, <2>0, <2>1
  <2>2. CASE ~connected
    <3>1. Down
      BY <1>0, <2>0, <2>2 DEF StateOf, Down, LoggingPcs, LoginPcs
    <3>2. StateOf(p)'
      BY <2>0, <2>2, <3>1 DEF StateOf, Down, DownPcs, LoggingPcs, LoginPcs, QueryPcs, HandshakePcs, Returns
    <3>3. ClosedOf(p)' /\ VerdictOf(p)'
      BY <2>0, <2>2, <3>1 DEF ClosedOf, VerdictOf, Down, HandshakePcs
    <3>4. LiveOf(p)'
      BY <1>0, <2>0 DEF LiveOf, Holder
    <3> QED
      BY <3>2, <3>3, <3>4
  <2> QED
    BY <2>1, <2>2
<1>2. CASE BeginQuery(p)
  <2>0. pc[p] = "beginQuery" /\ UNCHANGED <<connected, closed, ws, sock, authed>> /\ connected
    BY <1>0, <1>2 DEF BeginQuery, net, StateOf
  <2>1. CASE Goto(p, "lockQuery")
    BY <1>a, <2>0, <2>1 DEF Goto, TypeOK
  <2>2. CASE QueryFails(p)
    BY <1>b, <2>0, <2>2
  <2> QED
    BY <1>2, <2>1, <2>2 DEF BeginQuery
<1>3. CASE LockQuery(p)
  <2>0. pc[p] = "lockQuery" /\ UNCHANGED <<connected, closed, ws, sock, authed>> /\ connected
    BY <1>0, <1>3 DEF LockQuery, net, StateOf
  <2>1. CASE Goto(p, "sendQuery")
    BY <1>a, <2>0, <2>1 DEF Goto, TypeOK, QueryPcs
  <2>2. CASE QueryFails(p)
    BY <1>b, <2>0, <2>2
  <2> QED
    BY <1>3, <2>1, <2>2 DEF LockQuery
<1>4. CASE SendQuery(p)
  <2>0. pc[p] = "sendQuery" /\ UNCHANGED <<connected, closed, ws, sock, authed>> /\ connected
    BY <1>0, <1>4 DEF SendQuery, flags, StateOf, QueryPcs
  <2>1. CASE Goto(p, "awaitAnswer")
    BY <1>a, <2>0, <2>1 DEF Goto, TypeOK, QueryPcs
  <2>2. CASE CallDisconnect(p, "failQuery")
    BY <2>0, <2>2, CallDisconnectIs, AbandonStep DEF Holder
  <2> QED
    BY <1>4, <2>1, <2>2 DEF SendQuery
<1>5. CASE QueryAnswered(p)
  <2>0. pc[p] = "awaitAnswer" /\ UNCHANGED <<connected, closed, ws, sock, authed>> /\ connected
    BY <1>0, <1>5 DEF QueryAnswered, StateOf, QueryPcs
  <2>1. CASE QuerySucceeds(p)
    BY <1>a, <2>0, <2>1, FinishIs, ToVerdictIs DEF QuerySucceeds, QueryPcs
  <2>2. CASE QueryFails(p)
    BY <1>b, <2>0, <2>2 DEF QueryPcs
  <2> QED
    BY <1>5, <2>1, <2>2 DEF QueryAnswered
<1>6. CASE QueryTimeout(p) \/ QueryRaises(p)
  BY <1>6, CallDisconnectIs, AbandonStep DEF QueryTimeout, QueryRaises, Holder, flags, net
<1>7. CASE AbortQuery(p) \/ FailQuery(p)
  <2>1. Down /\ Down' /\ UNCHANGED <<closed, sock>> /\ ~Holder(p) /\ QueryFails(p)
    BY <1>0, <1>7 DEF AbortQuery, FailQuery, flags, net, StateOf, DownPcs, Returns, Down, Holder
  <2> QED
    BY <2>1, QueryFailsIs, DownStep
<1>8. CASE MarkFailed(p)
  <2>1. Down /\ Down' /\ UNCHANGED <<closed, sock>> /\ ~Holder(p) /\ ToVerdict(p)
    BY <1>0, <1>8 DEF MarkFailed, net, StateOf, DownPcs, Returns, Down, Holder
  <2> QED
    BY <2>1, ToVerdictIs, DownStep
<1>9. CASE ReadVerdict(p)
  <2>0. /\ pc[p] = "readVerdict" /\ pc'[p] = "idle"
        /\ res'[p] = IF connected THEN "ok" ELSE "failed"
        /\ UNCHANGED <<connected, closed, ws, sock, authed>>
    BY <1>9 DEF ReadVerdict, Goto, TypeOK, flags, net
  <2>1. CASE connected
    BY <1>a, <2>0, <2>1
  <2>2. CASE ~connected
    <3>1. Down
      BY <1>0, <2>0, <2>2 DEF StateOf, Down, LoggingPcs, LoginPcs
    <3>2. StateOf(p)'
      BY <2>0, <3>1 DEF StateOf, Down, DownPcs, LoggingPcs, LoginPcs, QueryPcs, HandshakePcs, Returns
    <3>3. ClosedOf(p)' /\ VerdictOf(p)'
      BY <2>0, <3>1 DEF ClosedOf, VerdictOf, Down, HandshakePcs
    <3>4. LiveOf(p)'
      BY <1>0, <2>0 DEF LiveOf, Holder
    <3> QED
      BY <3>2, <3>3, <3>4
  <2> QED
    BY <2>1, <2>2
<1> HIDE DEF UpPcs
<1> QED
  BY <1>1, <1>2, <1>3, <1>4, <1>5, <1>6, <1>7, <1>8, <1>9 DEF Querying

LEMMA StartOne ==
  ASSUME TypeOK, NEW p \in Threads, OneInv(p), Start(p)
  PROVE  OwnOf(p)'
<1> USE DEF At, OwnOf
<1>0. StateOf(p) /\ ClosedOf(p) /\ VerdictOf(p) /\ LiveOf(p)
  BY DEF OneInv
<1>8. PICK k \in Calls[p] : /\ Goto(p, Entry(k)) /\ call' = [call EXCEPT ![p] = k]
                            /\ k = "close" => ~closed
  BY DEF Start
<1>1. k \in CallKinds /\ pc'[p] = Entry(k) /\ call'[p] = k /\ (k = "close" => ~closed)
  BY <1>8, CallsAssumption DEF Goto, TypeOK
<1>2. pc'[p] \in {"checkConnected", "enterConnect", "takeSocket", "markClosed"}
      /\ (pc'[p] = "markClosed" => k = "close") /\ (pc'[p] = "takeSocket" => k # "close")
  BY <1>1 DEF Entry, CallKinds
<1>3. pc[p] = "idle" /\ UNCHANGED <<connected, closed, ws, sock, authed>>
  BY DEF Start, flags, net
<1>4. connected \/ Down
  BY <1>0, <1>3 DEF StateOf, Down, LoggingPcs, LoginPcs
<1>5. StateOf(p)'
  BY <1>0, <1>2, <1>3, <1>4 DEF StateOf, Down, DownPcs, LoggingPcs, LoginPcs, QueryPcs,
     HandshakePcs, Returns
<1>6. ClosedOf(p)' /\ VerdictOf(p)'
  BY <1>0, <1>1, <1>2, <1>3 DEF ClosedOf, VerdictOf, Down, HandshakePcs
<1>7. LiveOf(p)'
  BY <1>0, <1>3 DEF LiveOf, Holder
<1> QED
  BY <1>5, <1>6, <1>7

LEMMA DropOne ==
  ASSUME TypeOK, NEW p \in Threads, OneInv(p), NEW s \in Sockets, Drop(s)
  PROVE  OneInv(p)'
<1>1. LiveOf(p)'
  BY DEF Drop, TypeOK, OneInv, LiveOf, Holder
<1>2. StateOf(p)' /\ ClosedOf(p)' /\ VerdictOf(p)' /\ Alone(p)'
  BY DEF Drop, flags, OneInv, StateOf, ClosedOf, VerdictOf, Alone, At, Down
<1> QED
  BY <1>1, <1>2 DEF OneInv

\* A thread that is idle does nothing but start a call.
LEMMA IdleSteps ==
  ASSUME NEW t \in Threads, Step(t)
  PROVE  pc[t] # "idle"
<1> USE DEF At
<1>1. Connecting(t) => pc[t] # "idle"
  BY DEF Connecting, EnterConnect, Handshake, SetSocket, ReadSocket, LockLogin, SendLogin,
     LoginAnswered, LoginTimeout, LoginRaises, AbortLogin, ConnectFailed, SetConnected, HandshakePcs
<1>2. Disconnecting(t) => pc[t] # "idle"
  BY DEF Disconnecting, TakeSocket, CloseSocket, MarkClosed, Returned
<1>3. Querying(t) => pc[t] # "idle"
  BY DEF Querying, CheckConnected, BeginQuery, LockQuery, SendQuery, QueryAnswered,
     QueryTimeout, QueryRaises, AbortQuery, FailQuery, MarkFailed, ReadVerdict
<1> QED
  BY <1>1, <1>2, <1>3 DEF Step

LEMMA StartMoves ==
  ASSUME TypeOK, NEW t \in Threads, Start(t)
  PROVE  pc'[t] # "idle" /\ Calls[t] # {}
<1>1. PICK k \in Calls[t] : Goto(t, Entry(k))
  BY DEF Start
<1>2. k \in CallKinds /\ pc'[t] = Entry(k)
  BY <1>1, CallsAssumption DEF Goto, TypeOK
<1> QED
  BY <1>2 DEF Entry, CallKinds

LEMMA OneSame ==
  ASSUME NEW p \in Threads, OneInv(p), UNCHANGED vars
  PROVE  OneInv(p)'
  BY DEF vars, OneInv, Alone, StateOf, ClosedOf, VerdictOf, LiveOf, Holder, Down, At

\* As long as no other thread is given a call, p stays alone and finds the client
\* as its calls left it.
LEMMA OneNext ==
  ASSUME IInv, NEW p \in Threads, OneInv(p), [Next]_vars,
         \A t \in Threads \ {p} : Start(t) => FALSE
  PROVE  OneInv(p)'
<1>0. TypeOK /\ OwnInv
  BY DEF IInv
<1>1. ASSUME NEW t \in Threads, Start(t) \/ Step(t) PROVE OneInv(p)'
  <2>1. t = p
    BY <1>1, IdleSteps DEF OneInv, Alone, At
  <2>2. OwnOf(p)'
    BY <1>0, <1>1, <2>1, StartOne, ConnectingOne, DisconnectingOne, QueryingOne DEF Step
  <2>3. Alone(p)'
    BY <1>0, <1>1, <2>1, OnlyMine DEF OneInv, Alone, At
  <2> QED
    BY <2>2, <2>3 DEF OneInv, OwnOf
<1>2. ASSUME NEW s \in Sockets, Drop(s) PROVE OneInv(p)'
  BY <1>0, <1>2, DropOne
<1>3. CASE UNCHANGED vars
  BY <1>3, OneSame
<1> QED
  BY <1>1, <1>2, <1>3 DEF Next

LEMMA OneIsGood ==
  ASSUME NEW p \in Threads, OneInv(p)
  PROVE  NoLeak /\ ConnectedHasSocket /\ QueryAfterLogin /\ ClosedForGood /\ TestVerdict
<1> USE DEF At
<1>1. NoLeak
  BY DEF OneInv, LiveOf, NoLeak
<1>2. ConnectedHasSocket
  BY DEF OneInv, StateOf, ConnectedHasSocket
<1>3. QueryAfterLogin
  BY DEF OneInv, StateOf, Alone, QueryPcs, QueryAfterLogin
<1>4. ClosedForGood
  BY DEF OneInv, ClosedOf, Down, ClosedForGood
<1>5. TestVerdict
  <2> SUFFICES ASSUME At(p, "idle"), call[p] \in {"test", "testQuery"}
               PROVE  IF res[p] = "ok" THEN connected /\ ws \in authed
                      ELSE ~connected /\ ws = None
                           /\ \A s \in Sockets : sock[s] \notin {"open", "lost"}
    BY DEF OneInv, Alone, TestVerdict
  <2>1. res[p] = "ok" <=> connected
    BY DEF OneInv, VerdictOf
  <2>2. connected => ws \in authed
    BY DEF OneInv, StateOf
  <2>3. ~connected => ws = None
    BY DEF OneInv, StateOf, LoggingPcs, LoginPcs
  <2>4. ~connected => \A s \in Sockets : sock[s] \notin {"open", "lost"}
    BY <2>3, NoneAssumption DEF OneInv, LiveOf, Holder
  <2> QED
    BY <2>1, <2>2, <2>3, <2>4
<1> QED
  BY <1>1, <1>2, <1>3, <1>4, <1>5

\* A client that one thread uses, whatever methods it calls in whatever order and
\* however they fail, leaves no connection open that is not its current one; it is
\* connected to a socket or not at all; it sends no query before its login; and a
\* close() leaves nothing behind.  (The last three fail with more threads.)
THEOREM OneThreadIsSafe ==
  ASSUME NEW p \in Threads, \A t \in Threads \ {p} : Calls[t] = {}
  PROVE  Spec => [](NoLeak /\ ConnectedHasSocket /\ QueryAfterLogin /\ ClosedForGood
                   /\ TestVerdict)
<1> DEFINE Good == NoLeak /\ ConnectedHasSocket /\ QueryAfterLogin /\ ClosedForGood
                   /\ TestVerdict
<1>1. Init => IInv /\ OneInv(p)
  BY InitInv, OneInit
<1>2. IInv /\ OneInv(p) /\ [Next]_vars => (IInv /\ OneInv(p))'
  <2> SUFFICES ASSUME IInv, OneInv(p), [Next]_vars PROVE (IInv /\ OneInv(p))'
    OBVIOUS
  <2>1. \A t \in Threads \ {p} : Start(t) => FALSE
    BY StartMoves DEF IInv
  <2> QED
    BY <2>1, NextInv, OneNext
<1>3. OneInv(p) => Good
  BY OneIsGood
<1> QED
  BY <1>1, <1>2, <1>3, PTL DEF Spec

-----------------------------------------------------------------------------
\* The config flow is one thread.

LEMMA FlowIsOne ==
  ASSUME IInv, FlowInv, ClientNext
  PROVE  FlowInv'
<1> SUFFICES ASSUME use = "configFlow" PROVE OneInv(p1)'
  BY DEF FlowInv, ClientNext
<1>1. OneInv(p1) /\ Next
  BY DEF FlowInv, ClientNext
<1>2. ASSUME NEW t \in Threads \ {p1}, Start(t) PROVE FALSE
  <2>1. pc[t] = "idle" /\ pc'[t] # "idle"
    BY <1>2, StartMoves DEF Start, At, IInv
  <2>2. t \in DOMAIN Uses[use]
    BY <2>1 DEF ClientNext, At
  <2>3. Uses[use] = [u \in {p1} |-> CallKinds]
    BY DEF Uses
  <2> QED
    BY <1>2, <2>2, <2>3
<1> QED
  BY <1>1, <1>2, OneNext, FlowAssumption

LEMMA FlowStep ==
  ASSUME IInv, FlowInv, [ClientNext]_<<vars, use>>
  PROVE  IInv' /\ FlowInv'
<1>1. CASE ClientNext
  BY <1>1, FlowIsOne, NextInv DEF ClientNext
<1>2. CASE UNCHANGED <<vars, use>>
  <2>1. IInv'
    BY <1>2, NextInv
  <2>2. use = "configFlow" => OneInv(p1)'
    BY <1>2, OneSame, FlowAssumption DEF FlowInv
  <2> QED
    BY <1>2, <2>1, <2>2 DEF FlowInv
<1> QED
  BY <1>1, <1>2

LEMMA FlowInit == ClientInit => IInv /\ FlowInv
  BY InitInv, OneInit, FlowAssumption DEF ClientInit, FlowInv

LEMMA FlowAlways == ClientSpec => [](IInv /\ FlowInv)
  BY FlowInit, FlowStep, PTL DEF ClientSpec

\* What connection_test tells the config flow is true: True only with a logged-in
\* connection, False only with nothing left behind.
THEOREM FlowVerdict == ClientSpec => []FlowTestVerdict
<1>1. FlowInv => FlowTestVerdict
  BY OneIsGood, FlowAssumption DEF FlowInv, FlowTestVerdict
<1> QED
  BY <1>1, FlowAlways, PTL
=============================================================================
