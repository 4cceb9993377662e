------------------------------ MODULE TrueNASAPI ------------------------------
(***************************************************************************)
(* The WebSocket client of the integration (api.py, class TrueNASAPI).     *)
(*                                                                         *)
(* Executor threads call query, connect, connection_test, disconnect,      *)
(* reconnect and close on one client.  The client has two re-entrant locks. *)
(* _lock protects the flags: it is never held across a blocking call, so a *)
(* section under it is one step here.  _io_lock is held from the moment a  *)
(* request is sent until its answer is read, so it is the variable ioOwner *)
(* and acquiring it is a guard.  A thread that holds it may enter it again *)
(* (RLock), as disconnect does from inside a login or a query.             *)
(*                                                                         *)
(* Abstracted: payloads, logging, the SSL context, the subprotocol dance   *)
(* (three attempts that end as one handshake that succeeds or fails), the  *)
(* text of errors (one value per class), and RPC ids: an id is unique by   *)
(* construction, and NoStaleAnswer shows that a request never shares its   *)
(* socket with an older unanswered one, so an id could not be confused.    *)
(***************************************************************************)
CONSTANTS
  Threads,   \* executor threads that call the client
  Sockets,   \* connections the client may open; the bound of every run
  Calls,     \* Calls[t] is the set of methods that thread t calls
  None       \* Python's None

CallKinds == {"query", "connect", "test", "disconnect", "reconnect", "close"}

ASSUME CallsAssumption == Calls \in [Threads -> SUBSET CallKinds]
ASSUME NoneAssumption  == None \notin Threads /\ None \notin Sockets

VARIABLES
  connected, error, closed, ws, \* _connected, _error, _closed, _ws
  ioOwner,                      \* the thread that holds _io_lock, or None
  sock,                         \* what became of each connection
  authed,                       \* connections the server accepted a login on
  pending,                      \* connections with a request not answered yet
  pc, call, held, after, res    \* per thread: see TypeOK

flags  == <<connected, error, closed>>
net    == <<sock, authed, pending>>
stack  == <<call, res>>
vars   == <<connected, error, closed, ws, ioOwner, sock, authed, pending,
            pc, call, held, after, res>>

Errors == {"", "ERR_CONNECTION", "ERR_UNKNOWN", "ERR_LOST_LOGIN",
           "ERR_LOST_QUERY", "ERR_INVALID_KEY", "ERR_TIMEOUT",
           "ERR_MALFORMED_RESULT", "server error"}

\* Where a thread is: in query, in connect, in the login (the four labels in
\* LoginPcs hold _io_lock), in disconnect, in close or in connection_test.
QueryPcs   == {"sendQuery", "awaitAnswer"}
LoginPcs   == {"sendConnect", "awaitConnected", "sendLogin", "awaitLogin"}
AwaitPcs   == {"awaitConnected", "awaitLogin", "awaitAnswer"}
SendPcs    == {"sendConnect", "sendLogin", "sendQuery"}
HandshakePcs == {"handshake", "retryHandshake"}
LoggingPcs == LoginPcs \cup {"readSocket", "lockLogin", "setConnected"}
DisconnectPcs == {"takeSocket", "closeSocket"}
ConnectPcs == HandshakePcs \cup LoginPcs \cup
              {"enterConnect", "setSocket", "readSocket", "lockLogin",
               "abortLogin", "connectFailed", "setConnected"}
Pcs == {"idle", "checkConnected", "beginQuery", "lockQuery", "abortQuery",
        "failQuery", "markClosed", "markFailed", "readVerdict", "returned"}
       \cup QueryPcs \cup ConnectPcs \cup DisconnectPcs

\* Where disconnect() may have been called from.
Returns == {"abortLogin", "connectFailed", "abortQuery", "failQuery",
            "enterConnect", "markFailed", "returned"}

TypeOK ==
  /\ connected \in BOOLEAN /\ closed \in BOOLEAN /\ error \in Errors
  /\ ws \in Sockets \cup {None}
  /\ ioOwner \in Threads \cup {None}
  /\ sock \in [Sockets -> {"unused", "open", "lost", "closed"}]
  /\ authed \in SUBSET Sockets /\ pending \in SUBSET Sockets
  /\ pc \in [Threads -> Pcs]
  /\ call \in [Threads -> CallKinds \cup {"testQuery"}]  \* the method running
  /\ held \in [Threads -> Sockets \cup {None}]  \* its local variable ws
  /\ after \in [Threads -> Returns]             \* where disconnect returns to
  /\ res \in [Threads -> {"ok", "failed"}]      \* what the last call returned

Init ==
  /\ connected = FALSE /\ closed = FALSE /\ error = ""
  /\ ws = None /\ ioOwner = None
  /\ sock = [s \in Sockets |-> "unused"] /\ authed = {} /\ pending = {}
  /\ pc = [t \in Threads |-> "idle"]
  /\ call = [t \in Threads |-> "query"]
  /\ held = [t \in Threads |-> None]
  /\ after = [t \in Threads |-> "returned"]
  /\ res = [t \in Threads |-> "failed"]

-----------------------------------------------------------------------------
\* Control flow and the locks.

At(t, l)    == pc[t] = l
Goto(t, l)  == pc' = [pc EXCEPT ![t] = l]
NoLock(t)   == TRUE                     \* variant: the lock is not taken
CanTakeIo(t) == ioOwner \in {None, t}
Keep(t)     == UNCHANGED ioOwner        \* variant: the lock is never released
ReleaseFlag(t) == ioOwner' = FALSE      \* variant: a flag instead of the owner
Release(t)  == ioOwner' = IF ioOwner = t THEN None ELSE ioOwner

\* The call of t returns to its caller; what it held is out of scope.
Finish(t, r) ==
  /\ Goto(t, "idle")
  /\ res' = [res EXCEPT ![t] = r]
  /\ held' = [held EXCEPT ![t] = None]
  /\ UNCHANGED <<call, after>>

\* connection_test has done what it does and comes to its last section.
ToVerdict(t) ==
  /\ Goto(t, "readVerdict")
  /\ held' = [held EXCEPT ![t] = None]
  /\ UNCHANGED <<call, after, res>>

\* t calls disconnect(), which goes on at l when it returns.
CallDisconnect(t, l) ==
  /\ Goto(t, "takeSocket")
  /\ after' = [after EXCEPT ![t] = l]
  /\ UNCHANGED <<call, res, held>>

\* connect() returns True: to query's first section, to connection_test,
\* which goes on with its query, or out.
ConnectSucceeds(t) ==
  \/ /\ call[t] \in {"query", "testQuery"}
     /\ Goto(t, "beginQuery") /\ UNCHANGED <<call, held, after, res>>
  \/ /\ call[t] = "test"
     /\ Goto(t, "checkConnected") /\ call' = [call EXCEPT ![t] = "testQuery"]
     /\ UNCHANGED <<held, after, res>>
  \/ /\ call[t] \in {"connect", "reconnect"}
     /\ Finish(t, "ok")

\* query() returns a result.
QuerySucceeds(t) ==
  \/ /\ call[t] = "testQuery" /\ ToVerdict(t)
  \/ /\ call[t] = "query" /\ Finish(t, "ok")

\* Variant of QueryFails: connection_test returns False with the connection open.
QueryFailsOnly(t) == Finish(t, "failed")

\* query() returns None; inside connection_test that means a disconnect.
QueryFails(t) ==
  \/ /\ call[t] = "testQuery" /\ CallDisconnect(t, "markFailed")
  \/ /\ call[t] = "query" /\ Finish(t, "failed")

\* connect() returns False.
ConnectFails(t) ==
  \/ /\ call[t] \in {"query", "testQuery"} /\ QueryFails(t)
  \/ /\ call[t] = "test" /\ ToVerdict(t)
  \/ /\ call[t] \in {"connect", "reconnect"} /\ Finish(t, "failed")

Entry(k) == CASE k = "query" -> "checkConnected"
              [] k \in {"connect", "test"} -> "enterConnect"
              [] k \in {"disconnect", "reconnect"} -> "takeSocket"
              [] k = "close" -> "markClosed"

\* A thread is given a call.  close is called once, when the entry is unloaded.
Start(t) ==
  /\ At(t, "idle")
  /\ \E k \in Calls[t] :
       /\ k = "close" => ~closed
       /\ Goto(t, Entry(k))
       /\ call' = [call EXCEPT ![t] = k]
       /\ after' = [after EXCEPT ![t] =
                      IF k = "reconnect" THEN "enterConnect" ELSE "returned"]
  /\ res' = [res EXCEPT ![t] = "ok"]
  /\ UNCHANGED <<flags, ws, ioOwner, net, held>>

-----------------------------------------------------------------------------
\* The server and the network (external), seen through the websocket library.

\* The peer drops a connection: recv and send will raise on it.
Drop(s) ==
  /\ sock[s] = "open"
  /\ sock' = [sock EXCEPT ![s] = "lost"]
  /\ UNCHANGED <<flags, ws, ioOwner, authed, pending, pc, call, held, after, res>>

\* A handshake the server accepted: a connection never used before.
Opens(s) == sock[s] = "unused" /\ sock' = [sock EXCEPT ![s] = "open"]

\* ws.send() on the socket _ws refers to; it is sure to raise once closed.
Sends  == ws # None /\ sock[ws] \in {"open", "lost"} /\ pending' = pending \cup {ws}
Raises == ws = None \/ sock[ws] \in {"lost", "closed"}

\* ws.recv() returns the answer waited for; what had arrived before a drop is
\* still delivered, other messages are skipped by the receive loops.
Answered == ws # None /\ ws \in pending /\ pending' = pending \ {ws}
            /\ sock[ws] \in {"open", "lost"}

-----------------------------------------------------------------------------
\* connect()

\* Already connected: True; closed: False; else the error is reset.
EnterConnect(t) ==
  /\ At(t, "enterConnect")
  /\ \/ /\ connected /\ ConnectSucceeds(t) /\ UNCHANGED error
     \/ /\ ~connected /\ closed /\ ConnectFails(t) /\ UNCHANGED error
     \/ /\ ~connected /\ ~closed /\ error' = ""
        /\ Goto(t, "handshake") /\ UNCHANGED <<call, held, after, res>>
  /\ UNCHANGED <<connected, closed, ws, ioOwner, net>>

\* The handshake: done, timed out once (one retry after five seconds), or failed.
Handshake(t) ==
  /\ pc[t] \in HandshakePcs
  /\ \/ /\ \E s \in Sockets : Opens(s) /\ held' = [held EXCEPT ![t] = s]
        /\ Goto(t, "setSocket") /\ UNCHANGED <<error, call, after, res>>
     \/ /\ At(t, "handshake") /\ Goto(t, "retryHandshake")
        /\ UNCHANGED <<error, sock, call, held, after, res>>
     \/ /\ error' = "ERR_CONNECTION" /\ ConnectFails(t) /\ UNCHANGED sock
  /\ UNCHANGED <<connected, closed, ws, ioOwner, authed, pending>>

\* Variant of SetSocket: _io_lock is not waited for.
SetSocketAtOnce(t) ==
  /\ At(t, "setSocket")
  /\ ws' = held[t]
  /\ Goto(t, "readSocket")
  /\ held' = [held EXCEPT ![t] = None]
  /\ UNCHANGED <<flags, ioOwner, net, call, after, res>>

\* The new socket becomes current, whatever was current before.
SetSocket(t) ==
  /\ At(t, "setSocket") /\ CanTakeIo(t)
  /\ ws' = held[t]
  /\ Goto(t, "readSocket")
  /\ held' = [held EXCEPT ![t] = None]
  /\ UNCHANGED <<flags, ioOwner, net, call, after, res>>

\* The login reads the current socket again, without _io_lock.
ReadSocket(t) ==
  /\ At(t, "readSocket")
  /\ IF ws = None
     THEN /\ error' = "ERR_UNKNOWN"
          /\ CallDisconnect(t, "connectFailed")
     ELSE /\ held' = [held EXCEPT ![t] = ws]
          /\ Goto(t, "lockLogin") /\ UNCHANGED <<error, call, after, res>>
  /\ UNCHANGED <<connected, closed, ws, ioOwner, net>>

\* It takes _io_lock for the whole login, unless the socket changed meanwhile.
LockLogin(t) ==
  /\ At(t, "lockLogin") /\ CanTakeIo(t)
  /\ IF ws # held[t]
     THEN /\ error' = "ERR_LOST_LOGIN" /\ UNCHANGED ioOwner
          /\ CallDisconnect(t, "connectFailed")
     ELSE /\ ioOwner' = t
          /\ Goto(t, "sendConnect") /\ UNCHANGED <<error, call, held, after, res>>
  /\ UNCHANGED <<connected, closed, ws, net>>

\* A message of the login is sent, or send raises and _fail_connection
\* disconnects before _io_lock is released.
SendLogin(t) ==
  /\ \/ /\ Sends
        /\ \/ At(t, "sendConnect") /\ Goto(t, "awaitConnected")
           \/ At(t, "sendLogin") /\ Goto(t, "awaitLogin")
        /\ UNCHANGED <<call, held, after, res>>
     \/ /\ pc[t] \in {"sendConnect", "sendLogin"}
        /\ Raises /\ CallDisconnect(t, "abortLogin") /\ UNCHANGED pending
  /\ UNCHANGED <<flags, ws, ioOwner, sock, authed>>

\* The answers of the login: connected, the key accepted, the key refused.
\* A refusal is handled by disconnecting twice: in the login, which holds the
\* lock no more, and in connect.
LoginAnswered(t) ==
  /\ Answered
  /\ \/ /\ At(t, "awaitConnected") /\ Goto(t, "sendLogin")
        /\ UNCHANGED <<error, ioOwner, authed, call, held, after, res>>
     \/ /\ At(t, "awaitLogin") /\ Release(t)
        /\ authed' = authed \cup {ws}
        /\ Goto(t, "setConnected") /\ UNCHANGED <<error, call, held, after, res>>
     \/ /\ At(t, "awaitLogin") /\ Release(t)
        /\ error' = "ERR_INVALID_KEY"
        /\ CallDisconnect(t, "abortLogin") /\ UNCHANGED authed
  /\ UNCHANGED <<connected, closed, ws, sock>>

\* No answer in 30 seconds: disconnect under the lock.
LoginTimeout(t) ==
  /\ pc[t] \in {"awaitConnected", "awaitLogin"}
  /\ CallDisconnect(t, "abortLogin")
  /\ UNCHANGED <<flags, ws, ioOwner, net>>

\* recv raises: the exception leaves the lock, connect disconnects and fails.
LoginRaises(t) ==
  /\ pc[t] \in {"awaitConnected", "awaitLogin"}
  /\ Raises /\ Release(t)
  /\ CallDisconnect(t, "returned")
  /\ UNCHANGED <<flags, ws, net>>

\* The login has disconnected, under the lock unless its key was refused, and
\* returns False: connect disconnects again.
AbortLogin(t) ==
  /\ At(t, "abortLogin")
  /\ Release(t)
  /\ CallDisconnect(t, "connectFailed")
  /\ UNCHANGED <<flags, ws, net>>

ConnectFailed(t) ==
  /\ At(t, "connectFailed")
  /\ ConnectFails(t)
  /\ UNCHANGED <<flags, ws, ioOwner, net>>

\* The last section of connect, apart from the login it follows.
SetConnected(t) ==
  /\ At(t, "setConnected")
  /\ connected' = TRUE
  /\ ConnectSucceeds(t)
  /\ UNCHANGED <<error, closed, ws, ioOwner, net>>

-----------------------------------------------------------------------------
\* disconnect() and close()

\* The socket and the flag are cleared under both locks.
TakeSocket(t) ==
  /\ At(t, "takeSocket") /\ CanTakeIo(t)
  /\ ws' = None /\ connected' = FALSE
  /\ held' = [held EXCEPT ![t] = ws]
  /\ Goto(t, "closeSocket")
  /\ UNCHANGED <<error, closed, ioOwner, net, call, after, res>>

\* Variant of CloseSocket: the reference is dropped, the socket stays open.
ForgetSocket(t) ==
  /\ At(t, "closeSocket")
  /\ held' = [held EXCEPT ![t] = None]
  /\ Goto(t, after[t])
  /\ UNCHANGED <<flags, ws, ioOwner, net, call, after, res>>

\* The socket is closed outside the section, and disconnect returns.
CloseSocket(t) ==
  /\ At(t, "closeSocket")
  /\ sock' = [s \in Sockets |-> IF s = held[t] THEN "closed" ELSE sock[s]]
  /\ held' = [held EXCEPT ![t] = None]
  /\ Goto(t, after[t])
  /\ UNCHANGED <<flags, ws, ioOwner, authed, pending, call, after, res>>

MarkClosed(t) ==
  /\ At(t, "markClosed")
  /\ closed' = TRUE
  /\ CallDisconnect(t, "returned")
  /\ UNCHANGED <<connected, error, ws, ioOwner, net>>

\* The caller of disconnect returns after it: disconnect and close themselves,
\* and connect when its login raised.
Returned(t) ==
  /\ At(t, "returned")
  /\ \/ call[t] \in {"disconnect", "close"} /\ Finish(t, "ok")
     \/ call[t] \notin {"disconnect", "close"} /\ ConnectFails(t)
  /\ UNCHANGED <<flags, ws, ioOwner, net>>

-----------------------------------------------------------------------------
\* query() and connection_test()

CheckConnected(t) ==
  /\ At(t, "checkConnected")
  /\ Goto(t, IF connected THEN "beginQuery" ELSE "enterConnect")
  /\ UNCHANGED <<flags, ws, ioOwner, net, call, held, after, res>>

\* Under both locks: reset the error, read the socket, give up without one.
BeginQuery(t) ==
  /\ At(t, "beginQuery") /\ CanTakeIo(t)
  /\ error' = ""
  /\ \/ /\ connected /\ ws # None
        /\ held' = [held EXCEPT ![t] = ws]
        /\ Goto(t, "lockQuery") /\ UNCHANGED <<call, after, res>>
     \/ /\ ~connected \/ ws = None
        /\ QueryFails(t)
  /\ UNCHANGED <<connected, closed, ws, ioOwner, net>>

\* _io_lock again, for the request and its answer, if the socket is the same.
LockQuery(t) ==
  /\ At(t, "lockQuery") /\ CanTakeIo(t)
  /\ \/ /\ ws # held[t] /\ error' = "ERR_LOST_QUERY"
        /\ QueryFails(t) /\ UNCHANGED ioOwner
     \/ /\ ws = held[t] /\ ioOwner' = t
        /\ Goto(t, "sendQuery") /\ UNCHANGED <<error, call, held, after, res>>
  /\ UNCHANGED <<connected, closed, ws, net>>

SendQuery(t) ==
  /\ At(t, "sendQuery")
  /\ \/ /\ Sends /\ Goto(t, "awaitAnswer")
        /\ UNCHANGED <<ioOwner, call, held, after, res>>
     \/ /\ Raises /\ Release(t)
        /\ CallDisconnect(t, "failQuery") /\ UNCHANGED pending
  /\ UNCHANGED <<flags, ws, sock, authed>>

\* The answer: a result (only on a connection that is logged in), a result
\* that is missing or null, or an error.
QueryAnswered(t) ==
  /\ At(t, "awaitAnswer")
  /\ Answered /\ Release(t)
  /\ \/ ws \in authed /\ QuerySucceeds(t) /\ UNCHANGED error
     \/ QueryFails(t) /\ UNCHANGED error
     \/ QueryFails(t) /\ error' = "server error"
  /\ UNCHANGED <<connected, closed, ws, sock, authed>>

\* Variant of QueryTimeout: the connection is kept for the next query.
QueryTimeoutKeeps(t) ==
  /\ At(t, "awaitAnswer")
  /\ error' = "ERR_TIMEOUT" /\ Release(t)
  /\ QueryFails(t)
  /\ UNCHANGED <<connected, closed, ws, net>>

\* No answer in QUERY_TIMEOUT: disconnect under the lock.
QueryTimeout(t) ==
  /\ At(t, "awaitAnswer")
  /\ error' = "ERR_TIMEOUT"
  /\ CallDisconnect(t, "abortQuery")
  /\ UNCHANGED <<connected, closed, ws, ioOwner, net>>

\* recv raises: the exception leaves the lock, then query disconnects.
QueryRaises(t) ==
  /\ At(t, "awaitAnswer")
  /\ Raises /\ Release(t)
  /\ CallDisconnect(t, "failQuery")
  /\ UNCHANGED <<flags, ws, net>>

AbortQuery(t) ==
  /\ At(t, "abortQuery")
  /\ Release(t) /\ QueryFails(t)
  /\ UNCHANGED <<flags, ws, net>>

FailQuery(t) ==
  /\ At(t, "failQuery")
  /\ error' = "ERR_CONNECTION" /\ QueryFails(t)
  /\ UNCHANGED <<connected, closed, ws, ioOwner, net>>

\* connection_test after a query without result.
MarkFailed(t) ==
  /\ At(t, "markFailed")
  /\ connected' = FALSE
  /\ error' = IF error = "" THEN "ERR_MALFORMED_RESULT" ELSE error
  /\ ToVerdict(t)
  /\ UNCHANGED <<closed, ws, ioOwner, net>>

\* It returns what the flag says by then; the call that is over is "test" again.
ReadVerdict(t) ==
  /\ At(t, "readVerdict") /\ Goto(t, "idle")
  /\ res' = [res EXCEPT ![t] = IF connected THEN "ok" ELSE "failed"]
  /\ call' = [call EXCEPT ![t] = "test"]
  /\ UNCHANGED <<flags, ws, ioOwner, net, held, after>>

-----------------------------------------------------------------------------
Connecting(t) ==
  \/ EnterConnect(t) \/ Handshake(t) \/ SetSocket(t) \/ ReadSocket(t)
  \/ LockLogin(t) \/ SendLogin(t) \/ LoginAnswered(t) \/ LoginTimeout(t)
  \/ LoginRaises(t) \/ AbortLogin(t) \/ ConnectFailed(t) \/ SetConnected(t)

Disconnecting(t) == TakeSocket(t) \/ CloseSocket(t) \/ MarkClosed(t) \/ Returned(t)

Querying(t) ==
  \/ CheckConnected(t) \/ BeginQuery(t) \/ LockQuery(t) \/ SendQuery(t)
  \/ QueryAnswered(t) \/ QueryTimeout(t) \/ QueryRaises(t)
  \/ AbortQuery(t) \/ FailQuery(t) \/ MarkFailed(t) \/ ReadVerdict(t)

Step(t) == Connecting(t) \/ Disconnecting(t) \/ Querying(t)

Next ==
  \/ \E t \in Threads : Start(t) \/ Step(t)
  \/ \E s \in Sockets : Drop(s)

Spec == Init /\ [][Next]_vars

\* A thread that runs goes on: every wait of the code has a timeout.  A thread
\* that waits for _io_lock gets it if the lock is free again and again.
Fairness == \A t \in Threads : WF_vars(Step(t)) /\ SF_vars(Step(t))
FairSpec == Spec /\ Fairness
-----------------------------------------------------------------------------
\* Properties that hold however many threads call the client.

Requesting(t) == pc[t] \in LoginPcs \cup QueryPcs

\* From the moment a request may be sent until its answer is read, the thread
\* owns _io_lock and the socket it checked is still the current one and not
\* closed under it: no disconnect, close or connect of another thread replaces
\* a socket in use ("the caller holds _io_lock, ensuring no concurrent RPCs
\* are in flight", _wait_for_message).
RequestSocketIsCurrent ==
  \A t \in Threads : Requesting(t) =>
    ioOwner = t /\ ws = held[t] /\ ws # None /\ sock[ws] # "closed"

\* A request never goes out on a live socket that still owes the answer of an
\* older request: a call that gives up on an answer abandons the socket too.
NoStaleAnswer ==
  \A t \in Threads : pc[t] \in SendPcs /\ sock[ws] = "open" => ws \notin pending

\* Once close() has marked the client, no thread starts a new handshake;
\* those under way are all that is left (connect's early return).
NoNewHandshakeAfterClose ==
  [][closed => \A t \in Threads :
       pc'[t] \in HandshakePcs => pc[t] \in HandshakePcs]_vars

\* Every call returns: no thread waits for ever on _io_lock or on an answer.
EveryCallReturns == \A t \in Threads : pc[t] # "idle" ~> pc[t] = "idle"

-----------------------------------------------------------------------------
\* The inductive invariant behind the first two: who may touch a socket.

Holder(t) == pc[t] \in {"setSocket", "closeSocket"}

\* A socket that is current, about to become current, or about to be closed is
\* not closed yet, and is only one of these, for one thread.
OwnInv ==
  /\ ws # None => sock[ws] \in {"open", "lost"}
  /\ \A t \in Threads : Holder(t) /\ held[t] # None =>
       sock[held[t]] \in {"open", "lost"} /\ held[t] # ws
  /\ \A t, u \in Threads : t # u /\ Holder(t) /\ Holder(u) /\ held[t] # None =>
       held[t] # held[u]
  /\ \A t \in Threads : pc[t] \in {"setSocket", "lockLogin", "lockQuery"} => held[t] # None

\* A thread between its check of the socket and its answer owns _io_lock.
LockInv ==
  \A t \in Threads : Requesting(t) => ioOwner = t /\ ws = held[t] /\ ws # None

\* A live current socket owes an answer only while the owner of _io_lock is
\* waiting for it, or has given up and is about to abandon the socket.
PendingInv ==
  /\ \A s \in pending : sock[s] # "unused"
  /\ \A t \in Threads : At(t, "setSocket") => held[t] \notin pending
  /\ ws # None /\ ws \in pending /\ sock[ws] = "open" =>
       ioOwner # None /\ pc[ioOwner] \in AwaitPcs \cup {"takeSocket"}

IInv == TypeOK /\ OwnInv /\ LockInv /\ PendingInv

\* The owner of _io_lock has a request under way or gives one up, and when it
\* has taken the socket away nobody installs another before it lets go.
Aborts == {"abortLogin", "abortQuery"}

ExchangeInv ==
  \A t \in Threads : ioOwner = t =>
    \/ Requesting(t)
    \/ At(t, "takeSocket") /\ after[t] \in Aborts
    \/ ws = None /\ (pc[t] \in Aborts \/ (At(t, "closeSocket") /\ after[t] \in Aborts))

\* So whoever holds _io_lock is in a call.
OwnerRuns == \A t \in Threads : ioOwner = t => ~At(t, "idle")

-----------------------------------------------------------------------------
\* The channel that the client is to its callers.

\* The current socket, as long as it is live.
LineOf ==
  IF ws = None \/ sock[ws] # "open" THEN "down"
  ELSE IF ws \in pending THEN "owing" ELSE "free"

\* A caller is in an exchange while it owns _io_lock for a request, waits while
\* it is in recv(), and has its answer when query returned a result; the query of
\* connection_test returns it to connection_test, which is still in its call.
PhaseOf(t) ==
  IF pc[t] \in AwaitPcs THEN "waiting"
  ELSE IF ioOwner = t THEN "exchange"
  ELSE IF ~At(t, "idle") THEN "calling"
  ELSE IF call[t] = "query" /\ res[t] = "ok" THEN "answered"
  ELSE "idle"

Phases == [t \in Threads |-> PhaseOf(t)]

Channel == INSTANCE RpcChannel WITH Callers <- Threads, line <- LineOf, phase <- Phases

\* Whatever the threads do, the client is such a channel: a query that returns
\* a result got it as the answer to its own request, and a call that gives up
\* takes the connection down before another thread may send on it (query,
\* _fail_connection and disconnect under _io_lock).
ImplementsChannel == Channel!ChannelSpec

-----------------------------------------------------------------------------
\* Properties of a client that one thread uses (the config flow), which the
\* polling threads of a coordinator can break when they reconnect together.

\* Every connection that was opened and not closed is the current socket or in
\* the hands of a call that is running ("fixed leaked connections", CHANGELOG).
NoLeak ==
  \A s \in Sockets : sock[s] \in {"open", "lost"} =>
    s = ws \/ \E t \in Threads : held[t] = s

\* A client that says connected has a socket: otherwise query() returns None
\* and connect() returns True for ever, and nothing reconnects.
ConnectedHasSocket == connected => ws # None

\* No query is sent on a connection before the server accepted its login.
QueryAfterLogin == \A t \in Threads : At(t, "sendQuery") => ws \in authed

\* After close() has returned the client is not connected and holds no socket
\* ("Permanently close the API and prevent reconnection", close).
ClosedForGood ==
  closed /\ (\A t \in Threads : call[t] = "close" => At(t, "idle"))
    => ~connected /\ ws = None

\* What connection_test says: True only with a logged-in connection, False only
\* with nothing left behind, whatever way the login or the query failed.
TestVerdict ==
  \A t \in Threads : At(t, "idle") /\ call[t] \in {"test", "testQuery"} =>
    IF res[t] = "ok" THEN connected /\ ws \in authed
    ELSE ~connected /\ ws = None /\ \A s \in Sockets : sock[s] \notin {"open", "lost"}

-----------------------------------------------------------------------------
\* All of them but the last hold of any number of threads, as long as none
\* reconnects while another does or takes the connection down.

\* From the handshake to the flag connected; from disconnect() until the caller
\* has drawn its conclusion.
Reconnects(t) == pc[t] \in HandshakePcs \cup LoggingPcs \cup {"setSocket"}
Disrupts(t)   == pc[t] \in DisconnectPcs \cup {"markFailed"}

Undisturbed ==
  \A t, u \in Threads : t # u /\ Reconnects(t) => ~Reconnects(u) /\ ~Disrupts(u)

\* connect() takes no lock for the whole of a reconnection: this is what the
\* locks that it does take leave to its callers to keep apart.
UndisturbedIsSafe ==
  []Undisturbed => [](NoLeak /\ ConnectedHasSocket /\ QueryAfterLogin /\ ClosedForGood)

\* Why: whoever reconnects finds nothing and leaves either nothing or a connection
\* that is logged in, and whoever disconnects leaves nothing.
Down == ~connected /\ ws = None

SocketInv ==
  /\ connected => ws # None /\ ws \in authed
  /\ ~connected /\ ws # None => \E t \in Threads : pc[t] \in LoggingPcs \cup {"takeSocket"}
  /\ \A s \in Sockets : sock[s] \in {"open", "lost"} =>
       s = ws \/ \E t \in Threads : Holder(t) /\ s = held[t]

ThreadInv ==
  \A t \in Threads :
    /\ pc[t] \in HandshakePcs \cup {"setSocket", "closeSocket", "markFailed"} => Down
    /\ pc[t] \in LoggingPcs => ~connected /\ ws # None
    /\ At(t, "setConnected") => ws \in authed
    /\ pc[t] \in {"lockQuery", "sendQuery"} => held[t] \in authed

CloseInv ==
  /\ \A t \in Threads : At(t, "markClosed") => call[t] = "close"
  /\ closed => /\ \A t \in Threads : ~Reconnects(t)
               /\ Down \/ \E t \in Threads : call[t] = "close" /\ At(t, "takeSocket")

CalmInv == SocketInv /\ ThreadInv /\ CloseInv

-----------------------------------------------------------------------------
\* Why they hold of a client that only p uses: where p is says what is connected.

Alone(p) == \A t \in Threads \ {p} : At(t, "idle") /\ call[t] = "query"

DownPcs == HandshakePcs \cup (Returns \ {"enterConnect"}) \cup {"setSocket", "closeSocket"}

\* A connection comes to be current in a login or, once it is logged in, for good;
\* p has disconnected before it says that anything failed.
StateOf(p) ==
  /\ connected => ws # None /\ ws \in authed
  /\ ~connected /\ ws # None => pc[p] \in LoggingPcs \cup {"takeSocket"}
  /\ pc[p] \in DownPcs => Down
  /\ pc[p] \in LoggingPcs => ~connected /\ ws # None
  /\ At(p, "setConnected") => ws \in authed
  /\ pc[p] \in QueryPcs \cup {"beginQuery", "lockQuery"} => connected

\* A closed client has nothing, unless p is in close().
ClosedOf(p) ==
  /\ At(p, "markClosed") => call[p] = "close"
  /\ closed => /\ Down \/ (call[p] = "close" /\ At(p, "takeSocket"))
               /\ pc[p] \notin HandshakePcs \cup {"setSocket"}

VerdictOf(p) ==
  At(p, "idle") /\ call[p] \in {"test", "testQuery"} => (res[p] = "ok" <=> connected)

\* A connection that is open is current, or p is about to make it so or close it.
LiveOf(p) ==
  \A s \in Sockets : sock[s] \in {"open", "lost"} => s = ws \/ (Holder(p) /\ s = held[p])

OneInv(p) == Alone(p) /\ StateOf(p) /\ ClosedOf(p) /\ VerdictOf(p) /\ LiveOf(p)
=============================================================================
