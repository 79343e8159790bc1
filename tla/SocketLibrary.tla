--------------------------- MODULE SocketLibrary ---------------------------
(***************************************************************************)
(* What the secure-sockets library asks of its callers: handles are opened *)
(* and closed only while it is up, and it is taken down only when no       *)
(* handle is left open.  (A cy_socket_init of a library that is up is a    *)
(* stuttering step.)  SecSocket is shown to keep this contract; the        *)
(* refinement mapping is the identity on live and libUp.                   *)
(***************************************************************************)
CONSTANT Handles

VARIABLES live,    \* handles created or accepted and not yet deleted
          libUp    \* between cy_socket_init and cy_socket_deinit

vars == <<live, libUp>>

Init == live = {} /\ libUp = FALSE

LibInit == ~libUp /\ libUp' = TRUE /\ UNCHANGED live

LibDeinit == libUp /\ live = {} /\ libUp' = FALSE /\ UNCHANGED live

Open(h) == libUp /\ h \notin live /\ live' = live \cup {h} /\ UNCHANGED libUp

Close(h) == libUp /\ h \in live /\ live' = live \ {h} /\ UNCHANGED libUp

Next == LibInit \/ LibDeinit \/ \E h \in Handles : Open(h) \/ Close(h)

Spec == Init /\ [][Next]_vars
=============================================================================
