----------------------------- MODULE WiFiServer -----------------------------
(***************************************************************************)
(* class WiFiServer (libraries/WiFi/src/WiFiServer.cpp): the vector of     *)
(* connected clients, filled and searched by the callbacks of the network  *)
(* task, scanned by available() and emptied by end() in the sketch's task. *)
(* A WiFiClient shares its Socket object with its copies, so a client is   *)
(* the Socket object it points to.                                         *)
(*                                                                         *)
(* Methods and callbacks are atomic here; what matters is their order.     *)
(* stop() leaves the deleted handle in the object (SecSocket.cpp:50-60)    *)
(* and its entry in the vector, and the library may give the handle out    *)
(* again: the callbacks, which search the vector by handle, then meet the  *)
(* old entry first.                                                        *)
(***************************************************************************)
EXTENDS Integers, Sequences, Functions

CONSTANTS Objs,      \* Socket objects of clients
          Handles,   \* cy_socket_t values the library can hand out
          NULL,      \* no object, no handle
          MaxConns   \* bound: connections made by peers

ASSUME WiFiServerAssumption ==
  NULL \notin Handles /\ NULL \notin Objs /\ MaxConns \in Nat

VARIABLES srvHandle, srvStatus,   \* WiFiServer::socket
          listening, \* the library: sockets of the server that listen
          handle, status,         \* the clients' Socket objects
          rx,        \* the connections whose unread bytes are in rx_buf
          clients,   \* connected_clients
          last,      \* last_available_client
          app,       \* the client the sketch got from available()
          live,      \* the library: open handles
          conn,      \* the library: the connection open on a handle
          conns,     \* connections made so far
          owner,     \* history: the connection an object was accepted for
          stuck,     \* history: handles left open by a stop() that failed
          stopped,   \* history: handles of clients the sketch has stopped itself
          reused     \* history: those given out again, before or after that

vars == <<srvHandle, srvStatus, listening, handle, status, rx, clients, last, app, live,
          conn, conns, owner, stuck, stopped, reused>>

server == <<srvHandle, srvStatus, listening>>
history == <<conn, conns, owner, stopped, reused>>

Status == {"UNINITED", "CREATED", "DELETED", "CONNECTED", "LISTENING", "ERROR"}

Init ==
  /\ srvHandle = NULL /\ srvStatus = "UNINITED" /\ listening = {}
  /\ handle = [o \in Objs |-> NULL]
  /\ status = [o \in Objs |-> "UNINITED"]
  /\ rx = [o \in Objs |-> {}]
  /\ clients = <<>> /\ last = 0 /\ app = NULL
  /\ live = {}
  /\ conn = [h \in Handles |-> 0] /\ conns = 0
  /\ owner = [o \in Objs |-> 0]
  /\ stuck = {} /\ stopped = {} /\ reused = {}

Entries == Range(clients)

\* The handles that Socket::end closes on the objects of S, in any order, and
\* those it closes besides.  Done is the set of objects whose handle was open
\* and was deleted; the others report an error.
Close(S, Done, others) ==
  /\ Done \subseteq {o \in S : handle[o] \in live}
  /\ \A o, p \in Done : handle[o] = handle[p] => o = p
  /\ live' = live \ ({handle[o] : o \in Done} \cup others)
  /\ stuck' = (stuck \cup {handle[o] : o \in S}) \cap live'
  /\ listening' = listening \cap live'

\* Mutant of Stop: the status after cy_socket_delete is not recorded.
StopDisconnected(S, others) ==
  \E Done \in SUBSET S :
    /\ Close(S, Done, others)
    /\ status' = [o \in Objs |-> IF o \in Done THEN "DISCONNECTED"
                                 ELSE IF o \in S THEN "ERROR" ELSE status[o]]

\* Mutant of Stop: no status is recorded at all.
StopSilent(S, others) ==
  \E Done \in SUBSET S : Close(S, Done, others) /\ UNCHANGED status

Stop(S, others) ==
  \E Done \in SUBSET S :
    /\ Close(S, Done, others)
    /\ status' = [o \in Objs |-> IF o \in Done THEN "DELETED"
                                 ELSE IF o \in S THEN "ERROR" ELSE status[o]]

\* Mutant of Find: isThisClient is not asked.
FindAny(h) == IF clients = <<>> THEN 0 ELSE 1

\* The first client whose isThisClient(h) holds; 0 if none does.
Find(h) ==
  LET hits == {i \in DOMAIN clients : handle[clients[i]] = h}
  IN  IF hits = {} THEN 0 ELSE CHOOSE i \in hits : \A j \in hits : i <= j

Without(i) == [j \in 1 .. Len(clients) - 1 |-> clients[IF j < i THEN j ELSE j + 1]]
-----------------------------------------------------------------------------
(* The sketch's task *)

\* A handle is given out: on one that the sketch has stopped the old entry may
\* still be in the vector.
GivenOut(h) ==
  /\ live' = live \cup {h}
  /\ reused' = reused \cup ({h} \cap stopped)

\* listen() on a socket; its status is the one begin() leaves.
Listen(h) ==
  \/ h \in live' /\ listening' = listening \cup {h} /\ srvStatus' = "LISTENING"
  \/ srvStatus' = "ERROR" /\ UNCHANGED listening

\* begin(): a failed create() or bind() does not end it, and a socket of an
\* earlier begin() stays open: then bind() and listen() run on that one, or
\* it is left behind and still reports connections.
Begin ==
  /\ \/ \E h \in Handles \ live :
          /\ GivenOut(h)
          /\ srvHandle' = h
          /\ conn' = [conn EXCEPT ![h] = 0]
     \/ UNCHANGED <<live, reused, srvHandle, conn>>
  /\ Listen(srvHandle')
  /\ UNCHANGED <<handle, status, rx, clients, last, app, conns, owner, stuck, stopped>>

\* operator bool: connected, with bytes to read.
Ready(o) == status[o] = "CONNECTED" /\ rx[o] # {}

\* available(): scan from the client returned last to the end of the vector.
\* With no client the % divides by zero (0 on this CPU: last is unchanged).
Available ==
  LET from == IF clients = <<>> THEN last ELSE last % Len(clients)
      hits == {i \in from + 1 .. Len(clients) : Ready(clients[i])}
  IN  /\ IF hits = {}
           THEN app' = NULL /\ last' = from
           ELSE LET i == CHOOSE i \in hits : \A j \in hits : i <= j
                IN  app' = clients[i] /\ last' = i - 1
      /\ UNCHANGED <<server, handle, status, rx, clients, live, history, stuck>>

\* The sketch reads all that its client has.
Read ==
  /\ app # NULL
  /\ rx' = [rx EXCEPT ![app] = {}]
  /\ UNCHANGED <<server, handle, status, clients, last, app, live, history, stuck>>

\* WiFiClient::stop() on the sketch's copy: the entry stays in the vector.
\* The server may have stopped the client before and its handle may be
\* another's by now, which is then closed.
ClientStop ==
  /\ app # NULL
  /\ Stop({app}, {})
  /\ stopped' = stopped \cup {handle[app]}
  /\ reused' = reused \cup {h \in {handle[app]} : conn[h] # owner[app]}
  /\ UNCHANGED <<srvHandle, srvStatus, handle, rx, clients, last, app, conn, conns, owner>>

\* send() on every object of S: an error for a handle that is not open.
Send(S) ==
  /\ \E Bad \in SUBSET S :
       /\ {o \in S : handle[o] \notin live} \subseteq Bad
       /\ status' = [o \in Objs |-> IF o \in Bad THEN "ERROR" ELSE status[o]]
  /\ UNCHANGED <<server, handle, rx, clients, last, app, live, history, stuck>>

Write == Send(Entries)
ClientWrite == app # NULL /\ Send({app})

\* Mutant of End: the vector is cleared after the loop.
EndClears ==
  LET odd == {i \in DOMAIN clients : i % 2 = 1}
  IN  /\ Stop({clients[i] : i \in odd}, {})
      /\ srvStatus' = "ERROR"
      /\ clients' = <<>>
      /\ UNCHANGED <<srvHandle, handle, rx, last, app, history>>

\* end(): the index moves on although erase() has moved the next client to
\* it, so that every second client is stopped and the others stay.
End ==
  LET odd == {i \in DOMAIN clients : i % 2 = 1}
      S == {clients[i] : i \in odd}
  IN  /\ \/ /\ srvHandle \in live
            /\ Stop(S, {srvHandle})
            /\ \A o \in S : handle[o] = srvHandle => status'[o] = "ERROR"
            /\ srvStatus' = "DELETED"
         \/ Stop(S, {}) /\ srvStatus' = "ERROR"
      /\ clients' = [i \in 1 .. Len(clients) \div 2 |-> clients[2 * i]]
      /\ UNCHANGED <<srvHandle, handle, rx, last, app, history>>
-----------------------------------------------------------------------------
(* The network task *)

\* connectionCallback: a fresh client is appended, and taken back if the
\* accept fails, which marks the listening socket itself as failed.  The
\* connection may be to a socket left behind by an earlier begin(), on which
\* accept() is not called.
Connection ==
  /\ listening # {} /\ conns < MaxConns
  /\ conns' = conns + 1
  /\ \/ \E h \in Handles \ live, o \in Objs \ (Entries \cup {app}) :
          /\ srvHandle \in listening
          /\ GivenOut(h)
          /\ conn' = [conn EXCEPT ![h] = conns + 1]
          /\ owner' = [owner EXCEPT ![o] = conns + 1]
          /\ handle' = [handle EXCEPT ![o] = h]
          /\ status' = [status EXCEPT ![o] = "CONNECTED"]
          /\ rx' = [rx EXCEPT ![o] = {}]
          /\ clients' = Append(clients, o)
          /\ UNCHANGED srvStatus
     \/ /\ srvStatus' = "ERROR"
        /\ UNCHANGED <<live, reused, conn, owner, handle, status, rx, clients>>
  /\ UNCHANGED <<srvHandle, listening, last, app, stuck, stopped>>

\* receiveCallback(h): the first client found receives the bytes, or the
\* error of cy_socket_recv.
Receive(h) ==
  /\ h \in live /\ conn[h] # 0
  /\ Find(h) # 0
  /\ \/ rx' = [rx EXCEPT ![clients[Find(h)]] = @ \cup {conn[h]}] /\ UNCHANGED status
     \/ status' = [status EXCEPT ![clients[Find(h)]] = "ERROR"] /\ UNCHANGED rx
  /\ UNCHANGED <<server, handle, clients, last, app, live, history, stuck>>

\* disconnectionCallback(h): the first client found is stopped and erased.
Disconnection(h) ==
  /\ h \in live /\ conn[h] # 0
  /\ Find(h) # 0
  /\ Stop({clients[Find(h)]}, {})
  /\ clients' = Without(Find(h))
  /\ UNCHANGED <<srvHandle, srvStatus, handle, rx, last, app, history>>

Next ==
  \/ Begin \/ Available \/ Read \/ ClientStop \/ Write \/ ClientWrite \/ End
  \/ Connection
  \/ \E h \in Handles : Receive(h) \/ Disconnection(h)

Spec == Init /\ [][Next]_vars
-----------------------------------------------------------------------------
TypeOK ==
  /\ srvHandle \in Handles \cup {NULL} /\ srvStatus \in Status
  /\ listening \subseteq live
  /\ handle \in [Objs -> Handles \cup {NULL}]
  /\ status \in [Objs -> Status]
  /\ rx \in [Objs -> SUBSET (1 .. MaxConns)]
  /\ clients \in Seq(Objs) /\ IsInjective(clients)
  /\ last \in Nat /\ app \in Objs \cup {NULL}
  /\ live \subseteq Handles /\ stuck \subseteq live
  /\ conn \in [Handles -> 0 .. MaxConns] /\ conns \in 0 .. MaxConns
  /\ owner \in [Objs -> 0 .. MaxConns]
  /\ stopped \subseteq Handles \cup {NULL} /\ reused \subseteq stopped

(* A connection is forgotten by the server while it is still open only if  *)
(* closing it failed: for every other open connection some entry of the    *)
(* vector has its handle.  WiFiServer.cpp:88-95, 109-161.                  *)
ConnectionsHeld ==
  \A h \in live \ stuck : conn[h] # 0 => \E o \in Entries : handle[o] = h

(* What a client reads was sent on its own connection: the comment at      *)
(* WiFiServer.cpp:130-133, "Find the client which has triggered the        *)
(* callback and receive the data from the client."  The exception are the  *)
(* clients on a handle that the sketch stopped itself and the library has  *)
(* given out again: one client.stop() damages no other handle, through     *)
(* disconnections, repeated begin()s and the clients end() skips.          *)
(* WiFiServer.cpp:88-95, 127-161.                                          *)
OwnData ==
  \A o \in Entries \cup ({app} \ {NULL}) :
    handle[o] \notin reused => rx[o] \subseteq {owner[o]}

(* With the same exception a client that says it is connected, the         *)
(* sketch's copy included, has its own connection open: the sketch's       *)
(* while (client.connected()) ends.  A client that the sketch stopped is   *)
(* not connected even before its handle is given out again.                *)
(* WiFiServer.cpp:88-95, 144-161, WiFiClient.cpp:75-95.                    *)
ConnectedIsOpen ==
  \A o \in Entries \cup ({app} \ {NULL}) :
    handle[o] \notin reused /\ status[o] = "CONNECTED" =>
      handle[o] \in live /\ conn[handle[o]] = owner[o]
=============================================================================
