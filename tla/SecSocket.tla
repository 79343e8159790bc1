----------------------------- MODULE SecSocket -----------------------------
(***************************************************************************)
(* class Socket (libraries/WiFi/src/SecSocket.cpp) with the two statics    *)
(* all its instances share: global_socket_initialized and                  *)
(* global_socket_count, which decide when the secure-sockets library is    *)
(* initialised and deinitialised.                                          *)
(*                                                                         *)
(* begin, end and accept run one access to a shared variable (or one call  *)
(* of the library) per step: nothing guards the statics, and               *)
(* global_socket_count++ is a load and a store.  The sketch's task and the *)
(* network task that runs the library's callbacks both make these calls,   *)
(* under a preemptive scheduler.  Overlap says whether a call of one task  *)
(* may start before a call of another has returned.                        *)
(***************************************************************************)
EXTENDS Integers, FiniteSets

CONSTANTS Sockets,    \* the Socket objects
          Handles,    \* cy_socket_t values the library can hand out
          NULL,       \* nullptr
          AppTasks,   \* tasks that run sketch code
          NetTasks,   \* tasks that run the library's callbacks
          Overlap,    \* TRUE: calls of different tasks may interleave
          Wrap,       \* global_socket_count is a uint32_t: 2^32
          MaxFailed   \* bound: failed cy_socket_create calls explored

Tasks == AppTasks \cup NetTasks

ASSUME SecSocketAssumption ==
  /\ NULL \notin Handles
  /\ IsFiniteSet(Handles)
  /\ AppTasks # {} /\ AppTasks \cap NetTasks = {}
  /\ Overlap \in BOOLEAN
  /\ Wrap \in Nat /\ MaxFailed \in Nat
  /\ Cardinality(Handles) + MaxFailed + 1 < Wrap

VARIABLES handle,    \* Socket::socket
          status,    \* Socket::_status
          inited,    \* Socket::global_socket_initialized
          count,     \* Socket::global_socket_count
          live,      \* the library: open handles
          libUp,     \* the library: initialised
          failed,    \* history: begin() calls whose cy_socket_create failed
          pc, self, reg   \* per task: next step, the object, the loaded count

vars == <<handle, status, inited, count, live, libUp, failed, pc, self, reg>>

Status == {"UNINITED", "CREATED", "DELETED", "DISCONNECTED", "CONNECTED",
           "BOUND", "LISTENING", "ERROR"}

Labels == {"idle", "begin", "libInit", "setInited", "load", "store", "create",
           "disconnect", "delete", "endLoad", "endStore", "endTest",
           "libDeinit", "clearInited", "acceptLoad", "acceptStore"}

Init ==
  /\ handle = [s \in Sockets |-> NULL]
  /\ status = [s \in Sockets |-> "UNINITED"]
  /\ inited = FALSE
  /\ count = 0
  /\ live = {}
  /\ libUp = FALSE
  /\ failed = 0
  /\ pc = [t \in Tasks |-> "idle"]
  /\ self \in [Tasks -> Sockets]
  /\ reg = [t \in Tasks |-> 0]

objects == <<handle, status>>
statics == <<inited, count>>
library == <<live, libUp, failed>>

CanCall(t) ==
  /\ pc[t] = "idle"
  /\ Overlap \/ \A u \in Tasks : pc[u] = "idle"

Goto(t, label) == pc' = [pc EXCEPT ![t] = label]

\* A method is entered on object s.
Enter(t, s, label) ==
  /\ CanCall(t)
  /\ self' = [self EXCEPT ![t] = s]
  /\ Goto(t, label)
  /\ UNCHANGED <<objects, statics, library, reg>>

At(t, label) == pc[t] = label /\ UNCHANGED self

\* socket_assert: the error goes to _status and the method returns.
Fail(t) ==
  /\ status' = [status EXCEPT ![self[t]] = "ERROR"]
  /\ Goto(t, "idle")
  /\ UNCHANGED handle
-----------------------------------------------------------------------------
(* Socket::begin and global_sockets_init *)

BeginCall(t, s) == Enter(t, s, "begin")

\* if (!global_socket_initialized)
TestInited(t) ==
  /\ At(t, "begin")
  /\ Goto(t, IF inited THEN "load" ELSE "libInit")
  /\ UNCHANGED <<objects, statics, library, reg>>

LibInit(t) ==
  /\ At(t, "libInit")
  /\ \/ libUp' = TRUE /\ Goto(t, "setInited") /\ UNCHANGED objects
     \/ Fail(t) /\ UNCHANGED libUp
  /\ UNCHANGED <<statics, live, failed, reg>>

SetInited(t) ==
  /\ At(t, "setInited")
  /\ inited' = TRUE
  /\ Goto(t, "load")
  /\ UNCHANGED <<objects, count, library, reg>>

\* A read-modify-write of global_socket_count: the load ...
Load(t, from, to) ==
  /\ At(t, from)
  /\ reg' = [reg EXCEPT ![t] = count]
  /\ Goto(t, to)
  /\ UNCHANGED <<objects, statics, library>>

\* ... and the store of the loaded value plus d.
StoreStep(t, from, d, to) ==
  /\ At(t, from)
  /\ count' = (reg[t] + d) % Wrap
  /\ Goto(t, to)
  /\ UNCHANGED <<inited, library, reg>>

Store(t) == StoreStep(t, "store", 1, "create") /\ UNCHANGED objects

\* cy_socket_create: a handle, or an error with the count already raised.
Create(t) ==
  /\ At(t, "create")
  /\ \/ \E h \in Handles \ live :
          /\ libUp
          /\ live' = live \cup {h}
          /\ handle' = [handle EXCEPT ![self[t]] = h]
          /\ status' = [status EXCEPT ![self[t]] = "CREATED"]
          /\ Goto(t, "idle")
          /\ UNCHANGED failed
     \/ /\ failed < MaxFailed
        /\ failed' = failed + 1
        /\ Fail(t)
        /\ UNCHANGED live
  /\ UNCHANGED <<statics, libUp, reg>>
-----------------------------------------------------------------------------
(* Socket::end and global_sockets_deinit *)

EndCall(t, s) == Enter(t, s, "disconnect")

\* cy_socket_disconnect fails on a handle that is not open, and may fail on
\* one that is: the handle then stays open.
Disconnect(t) ==
  /\ At(t, "disconnect")
  /\ \/ /\ handle[self[t]] \in live
        /\ status' = [status EXCEPT ![self[t]] = "DISCONNECTED"]
        /\ Goto(t, "delete")
        /\ UNCHANGED handle
     \/ Fail(t)
  /\ UNCHANGED <<statics, library, reg>>

\* Mutant of Delete: socket_assert is missing, so a failed delete still gives
\* the unit of the count back.
DeleteUnchecked(t) ==
  /\ At(t, "delete")
  /\ \/ handle[self[t]] \in live /\ live' = live \ {handle[self[t]]}
     \/ UNCHANGED live
  /\ status' = [status EXCEPT ![self[t]] = "DELETED"]
  /\ Goto(t, "endLoad")
  /\ UNCHANGED <<handle, statics, libUp, failed, reg>>

\* cy_socket_delete; Socket::socket keeps the deleted handle.
Delete(t) ==
  /\ At(t, "delete")
  /\ \/ /\ handle[self[t]] \in live
        /\ live' = live \ {handle[self[t]]}
        /\ status' = [status EXCEPT ![self[t]] = "DELETED"]
        /\ Goto(t, "endLoad")
        /\ UNCHANGED handle
     \/ Fail(t) /\ UNCHANGED live
  /\ UNCHANGED <<statics, libUp, failed, reg>>

EndStore(t) == StoreStep(t, "endStore", -1, "endTest") /\ UNCHANGED objects

\* Mutant of EndTest: off by one.
EndTestOffByOne(t) ==
  /\ At(t, "endTest")
  /\ Goto(t, IF count <= 1 THEN "libDeinit" ELSE "idle")
  /\ UNCHANGED <<objects, statics, library, reg>>

\* if (global_socket_count == 0)
EndTest(t) ==
  /\ At(t, "endTest")
  /\ Goto(t, IF count = 0 THEN "libDeinit" ELSE "idle")
  /\ UNCHANGED <<objects, statics, library, reg>>

LibDeinit(t) ==
  /\ At(t, "libDeinit")
  /\ \/ libUp' = FALSE /\ Goto(t, "clearInited")
     \/ Goto(t, "idle") /\ UNCHANGED libUp
  /\ UNCHANGED <<objects, statics, live, failed, reg>>

ClearInited(t) ==
  /\ At(t, "clearInited")
  /\ inited' = FALSE
  /\ Goto(t, "idle")
  /\ UNCHANGED <<objects, count, library, reg>>
-----------------------------------------------------------------------------
(* Socket::accept(client), run on the listening socket's object l *)

\* cy_socket_accept writes the new handle into the client before the count.
\* The status of l is not looked at.
Accept(t, l, c) ==
  /\ CanCall(t)
  /\ handle[l] \in live
  /\ status[c] = "UNINITED"
  /\ \/ \E h \in Handles \ live :
          /\ live' = live \cup {h}
          /\ handle' = [handle EXCEPT ![c] = h]
          /\ self' = [self EXCEPT ![t] = c]
          /\ Goto(t, "acceptLoad")
          /\ UNCHANGED status
     \/ /\ status' = [status EXCEPT ![l] = "ERROR"]
        /\ UNCHANGED <<handle, live, self, pc>>
  /\ UNCHANGED <<statics, libUp, failed, reg>>

\* Mutant of AcceptStore: the increment of SecSocket.cpp:174 is missing.
AcceptStoreUncounted(t) ==
  /\ At(t, "acceptStore")
  /\ status' = [status EXCEPT ![self[t]] = "CONNECTED"]
  /\ Goto(t, "idle")
  /\ UNCHANGED <<handle, statics, library, reg>>

AcceptStore(t) ==
  /\ StoreStep(t, "acceptStore", 1, "idle")
  /\ status' = [status EXCEPT ![self[t]] = "CONNECTED"]
  /\ UNCHANGED handle
-----------------------------------------------------------------------------
(* The methods that touch no static: one step each.  None of them tests    *)
(* _status first; the library refuses a handle that is not open.           *)

Method(t, s, onSuccess) ==
  /\ CanCall(t)
  /\ \/ handle[s] \in live /\ status' = [status EXCEPT ![s] = onSuccess]
     \/ status' = [status EXCEPT ![s] = "ERROR"]
  /\ UNCHANGED <<handle, statics, library, pc, self, reg>>

Bind(t, s)    == Method(t, s, "BOUND")
Listen(t, s)  == Method(t, s, "LISTENING")
Connect(t, s) == Method(t, s, "CONNECTED")
\* setTimeout, setOptCallback, joinMulticastGroup and send set only an error.
Option(t, s)  == Method(t, s, status[s])

\* The object goes away and another is constructed in its place: there is no
\* destructor, so an open handle stays open.
Construct(t, s) ==
  /\ CanCall(t)
  /\ \A u \in Tasks : pc[u] # "idle" => self[u] # s
  /\ handle' = [handle EXCEPT ![s] = NULL]
  /\ status' = [status EXCEPT ![s] = "UNINITED"]
  /\ UNCHANGED <<statics, library, pc, self, reg>>
-----------------------------------------------------------------------------
BeginStep(t) ==
  TestInited(t) \/ LibInit(t) \/ SetInited(t) \/ Load(t, "load", "store")
    \/ Store(t) \/ Create(t)

EndStep(t) ==
  Disconnect(t) \/ Delete(t) \/ Load(t, "endLoad", "endStore") \/ EndStore(t)
    \/ EndTest(t) \/ LibDeinit(t) \/ ClearInited(t)

AcceptStep(t) == Load(t, "acceptLoad", "acceptStore") \/ AcceptStore(t)

AppCall(t, s) ==
  BeginCall(t, s) \/ Bind(t, s) \/ Listen(t, s) \/ Connect(t, s)
    \/ Option(t, s) \/ Construct(t, s)

Next ==
  \/ \E t \in Tasks : BeginStep(t) \/ EndStep(t) \/ AcceptStep(t)
  \/ \E t \in Tasks, s \in Sockets : EndCall(t, s)
  \/ \E t \in AppTasks, s \in Sockets : AppCall(t, s)
  \/ \E t \in NetTasks, l, c \in Sockets : l # c /\ Accept(t, l, c)

Spec == Init /\ [][Next]_vars
-----------------------------------------------------------------------------
TypeOK ==
  /\ handle \in [Sockets -> Handles \cup {NULL}]
  /\ status \in [Sockets -> Status]
  /\ inited \in BOOLEAN /\ libUp \in BOOLEAN
  /\ count \in 0 .. Wrap - 1
  /\ live \subseteq Handles
  /\ failed \in 0 .. MaxFailed
  /\ pc \in [Tasks -> Labels]
  /\ self \in [Tasks -> Sockets]
  /\ reg \in [Tasks -> 0 .. Wrap - 1]

Quiescent == \A t \in Tasks : pc[t] = "idle"

(* Between calls, global_socket_count is the number of open handles plus   *)
(* the begin() calls that raised it and then failed to create a socket     *)
(* (they never give their unit back).  It survives re-begun, dropped,      *)
(* doubly ended and failing sockets.  SecSocket.cpp:22-60, 160-183.        *)
CountExact == Quiescent => count = Cardinality(live) + failed

(* The weaker half of CountExact that the comment at SecSocket.cpp:170-173 *)
(* asks for: an accepted socket is counted as one that begin() opened.     *)
OpenSocketsCounted == Quiescent => count >= Cardinality(live)

(* The library is never taken down under an open socket, and between calls *)
(* the flag tells whether it is up.  SecSocket.cpp:326-349.                *)
LibraryUp ==
  /\ live # {} => libUp
  /\ Quiescent => inited = libUp

(* Every call of the library respects its contract (module SocketLibrary). *)
Library == INSTANCE SocketLibrary WITH Handles <- Handles, live <- live, libUp <- libUp
LibraryContract == Library!Spec
=============================================================================
