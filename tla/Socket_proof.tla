---------------------------- MODULE Socket_proof ----------------------------
(***************************************************************************)
(* Proofs about the two sides of class Socket, SecSocket (life cycle and   *)
(* static state) and SocketRx (receive path).                              *)
(*                                                                         *)
(* SecSocket, when calls do not overlap (~Overlap): the count of open      *)
(* sockets is exact, the library is up while a socket is open, and its     *)
(* contract is kept.  With overlapping calls TLC refutes all three.  The   *)
(* inductive invariant says what count, the loaded value and the flag are  *)
(* at every point inside the one call that is under way.                   *)
(*                                                                         *)
(* SocketRx, for every buffer size and every interleaving: no byte is lost *)
(* between the library and the reader, the reader never copies from an     *)
(* empty buffer, and SocketRx implements ByteStream.                       *)
(***************************************************************************)
EXTENDS SecSocket, SocketRx, FiniteSetTheorems, SequenceTheorems, TLAPS

Open == Cardinality(live) + failed

\* How far the count is from Open where a call has changed one of them only.
Lead(label) ==
  IF label \in {"create", "endLoad", "endStore"} THEN 1
  ELSE IF label \in {"acceptLoad", "acceptStore"} THEN -1 ELSE 0

\* What the flag and the library are at each label.
FlagAt(label) ==
  /\ label \in {"load", "store", "create", "delete", "endLoad", "endStore",
                "endTest", "libDeinit"} => inited = TRUE /\ libUp = TRUE
  /\ label = "libInit" => inited = FALSE /\ libUp = FALSE
  /\ label = "setInited" => inited = FALSE /\ libUp = TRUE
  /\ label = "clearInited" => inited = TRUE /\ libUp = FALSE
  /\ label \in {"idle", "begin", "disconnect", "acceptLoad", "acceptStore"} =>
       inited = libUp

\* Every task but t is between calls; where t is decides the rest.
Running(t) ==
  /\ \A u \in Tasks : u # t => pc[u] = "idle"
  /\ count = Open + Lead(pc[t])
  /\ pc[t] \in {"store", "endStore", "acceptStore"} => reg[t] = count
  /\ pc[t] = "libDeinit" => count = 0
  /\ FlagAt(pc[t])
  /\ live # {} => libUp = TRUE

IInv == TypeOK /\ \E t \in Tasks : Running(t)
-----------------------------------------------------------------------------
(* uint32_t arithmetic that does not wrap. *)
LEMMA ModRange ==
  ASSUME NEW x \in Int
  PROVE  /\ x % Wrap \in 0 .. Wrap - 1
         /\ x \in 0 .. Wrap - 1 => x % Wrap = x
  <1>1. Wrap \in Nat /\ Wrap > 0
    <2>1. Cardinality(Handles) \in Nat
      BY FS_CardinalityType, SecSocketAssumption
    <2> QED BY <2>1, SecSocketAssumption
  <1> QED BY <1>1, SMTT(30)

(* Open is a number, and the count that goes with it fits a uint32_t. *)
LEMMA OpenBound ==
  ASSUME TypeOK
  PROVE  /\ IsFiniteSet(live) /\ Cardinality(live) \in Nat /\ Open \in Nat
         /\ Wrap \in Nat /\ Open + 1 < Wrap
  <1>1. IsFiniteSet(live) /\ Cardinality(live) \in Nat
        /\ Cardinality(Handles) \in Nat
        /\ Cardinality(live) <= Cardinality(Handles)
    BY FS_Subset, FS_CardinalityType, SecSocketAssumption DEF TypeOK
  <1> QED BY <1>1, SecSocketAssumption DEF TypeOK, Open

LEMMA TypeCorrect == Spec => []TypeOK
  <1>1. Init => TypeOK
    <2>1. 0 \in 0 .. Wrap - 1 /\ 0 \in 0 .. MaxFailed
      BY FS_CardinalityType, SecSocketAssumption
    <2>2. Init => live \subseteq Handles
      BY DEF Init
    <2> QED BY <2>1, <2>2 DEF Init, TypeOK, Status, Labels
  <1>2. TypeOK /\ [Next]_vars => TypeOK'
    <2> SUFFICES ASSUME TypeOK, [Next]_vars PROVE TypeOK'
      OBVIOUS
    <2> USE DEF TypeOK, objects, statics, library, Goto, At
    <2>1. ASSUME NEW t \in Tasks, BeginStep(t) PROVE TypeOK'
      <3>1. CASE TestInited(t) BY <3>1 DEF TestInited, Labels
      <3>2. CASE LibInit(t)
        BY <3>2 DEF LibInit, Fail, Labels, Status
      <3>3. CASE SetInited(t) BY <3>3 DEF SetInited, Labels
      <3>4. CASE Load(t, "load", "store") BY <3>4 DEF Load, Labels
      <3>5. CASE Store(t)
        BY <3>5, ModRange DEF Store, StoreStep, Labels
      <3>6. CASE Create(t)
        BY <3>6, SecSocketAssumption DEF Create, Fail, Labels, Status
      <3> QED BY <2>1, <3>1, <3>2, <3>3, <3>4, <3>5, <3>6 DEF BeginStep
    <2>2. ASSUME NEW t \in Tasks, EndStep(t) PROVE TypeOK'
      <3>1. CASE Disconnect(t) BY <3>1 DEF Disconnect, Fail, Labels, Status
      <3>2. CASE Delete(t) BY <3>2 DEF Delete, Fail, Labels, Status
      <3>3. CASE Load(t, "endLoad", "endStore") BY <3>3 DEF Load, Labels
      <3>4. CASE EndStore(t)
        BY <3>4, ModRange DEF EndStore, StoreStep, Labels
      <3>5. CASE EndTest(t) BY <3>5 DEF EndTest, Labels
      <3>6. CASE LibDeinit(t) BY <3>6 DEF LibDeinit, Labels
      <3>7. CASE ClearInited(t) BY <3>7 DEF ClearInited, Labels
      <3> QED
        BY <2>2, <3>1, <3>2, <3>3, <3>4, <3>5, <3>6, <3>7 DEF EndStep
    <2>3. ASSUME NEW t \in Tasks, AcceptStep(t) PROVE TypeOK'
      <3>1. CASE Load(t, "acceptLoad", "acceptStore")
        BY <3>1 DEF Load, Labels
      <3>2. CASE AcceptStore(t)
        BY <3>2, ModRange DEF AcceptStore, StoreStep, Labels, Status
      <3> QED BY <2>3, <3>1, <3>2 DEF AcceptStep
    <2>4. ASSUME NEW t \in Tasks, NEW s \in Sockets, EndCall(t, s)
          PROVE  TypeOK'
      BY <2>4 DEF EndCall, Enter, Labels
    <2>5. ASSUME NEW t \in AppTasks, NEW s \in Sockets, AppCall(t, s)
          PROVE  TypeOK'
      <3>1. CASE BeginCall(t, s) BY <3>1 DEF BeginCall, Enter, Labels
      <3>2. CASE Construct(t, s) BY <3>2 DEF Construct, Status
      <3>3. CASE Bind(t, s) \/ Listen(t, s) \/ Connect(t, s) \/ Option(t, s)
        BY <3>3 DEF Bind, Listen, Connect, Option, Method, Status
      <3> QED BY <2>5, <3>1, <3>2, <3>3 DEF AppCall
    <2>6. ASSUME NEW t \in NetTasks, NEW l \in Sockets, NEW c \in Sockets,
                 Accept(t, l, c)
          PROVE  TypeOK'
      BY <2>6 DEF Accept, Labels, Status
    <2>7. CASE UNCHANGED vars
      BY <2>7 DEF vars
    <2> QED BY <2>1, <2>2, <2>3, <2>4, <2>5, <2>6, <2>7 DEF Next
  <1> QED BY <1>1, <1>2, PTL DEF Spec
-----------------------------------------------------------------------------
(* A task inside a call is the one IInv speaks of; between calls any is.   *)
LEMMA InsideRunning ==
  ASSUME IInv, NEW t \in Tasks, pc[t] # "idle"
  PROVE  Running(t)
  BY DEF IInv, Running

LEMMA BetweenRunning ==
  ASSUME IInv, ~Overlap, NEW t \in Tasks, CanCall(t)
  PROVE  Running(t) /\ pc[t] = "idle"
  BY DEF IInv, Running, CanCall

(* Opening and closing a handle, or failing to open one, moves Open by one. *)
LEMMA OpenMoves ==
  ASSUME TypeOK
  PROVE  /\ \A h \in Handles \ live :
              live' = live \cup {h} /\ failed' = failed => Open' = Open + 1
         /\ \A h \in live :
              live' = live \ {h} /\ failed' = failed => Open' = Open - 1
         /\ live' = live /\ failed' = failed + 1 => Open' = Open + 1
         /\ live' = live /\ failed' = failed => Open' = Open
         /\ Open = 0 => live = {}
  <1>1. IsFiniteSet(live) /\ Cardinality(live) \in Nat /\ failed \in Nat
    BY OpenBound DEF TypeOK
  <1>2. ASSUME NEW h \in Handles \ live, live' = live \cup {h}, failed' = failed
        PROVE  Open' = Open + 1
    <2>1. Cardinality(live \cup {h}) = Cardinality(live) + 1
      BY <1>1, <1>2, FS_AddElement
    <2>2. Open' = (Cardinality(live) + 1) + failed
      BY <1>2, <2>1 DEF Open
    <2> QED BY <1>1, <2>2 DEF Open
  <1>3. ASSUME NEW h \in live, live' = live \ {h}, failed' = failed
        PROVE  Open' = Open - 1
    <2>1. Cardinality(live \ {h}) = Cardinality(live) - 1
      BY <1>1, <1>3, FS_RemoveElement
    <2>2. Open' = (Cardinality(live) - 1) + failed
      BY <1>3, <2>1 DEF Open
    <2> QED BY <1>1, <2>2 DEF Open
  <1>4. Open = 0 => live = {}
    BY <1>1, FS_EmptySet DEF Open
  <1>5. /\ live' = live /\ failed' = failed + 1 => Open' = Open + 1
        /\ live' = live /\ failed' = failed => Open' = Open
    BY <1>1 DEF Open
  <1> QED BY <1>2, <1>3, <1>4, <1>5

LEMMA BeginRunning ==
  ASSUME TypeOK, NEW t \in Tasks, Running(t), BeginStep(t)
  PROVE  Running(t)'
  <1> USE DEF At, Goto, objects, statics, library, Running, Lead, FlagAt, TypeOK
  <1>0. Open \in Nat /\ Wrap \in Nat /\ Open + 1 < Wrap
    BY OpenBound
  <1>1. CASE TestInited(t)
    BY <1>0, <1>1, OpenMoves DEF TestInited
  <1>2. CASE LibInit(t)
    BY <1>0, <1>2, OpenMoves DEF LibInit, Fail
  <1>3. CASE SetInited(t)
    BY <1>0, <1>3, OpenMoves DEF SetInited
  <1>4. CASE Load(t, "load", "store")
    BY <1>0, <1>4, OpenMoves DEF Load
  <1>5. CASE Store(t)
    <2>1. count' = Open + 1
      <3>1. reg[t] = Open /\ count' = (reg[t] + 1) % Wrap
        BY <1>0, <1>5 DEF Store, StoreStep
      <3>2. reg[t] + 1 = Open + 1 /\ Open + 1 \in 0 .. Wrap - 1
        BY <1>0, <3>1
      <3> QED BY <3>1, <3>2, ModRange
    <2>2. /\ UNCHANGED <<inited, live, libUp, failed>> /\ Open' = Open
          /\ inited = TRUE /\ libUp = TRUE
      BY <1>5, OpenMoves DEF Store, StoreStep
    <2>3. pc'[t] = "create" /\ \A u \in Tasks : u # t => pc'[u] = "idle"
      BY <1>5 DEF Store, StoreStep
    <2> QED BY <1>0, <2>1, <2>2, <2>3
  <1>6. CASE Create(t)
    BY <1>0, <1>6, OpenMoves DEF Create, Fail
  <1> QED BY <1>1, <1>2, <1>3, <1>4, <1>5, <1>6 DEF BeginStep

LEMMA EndRunning ==
  ASSUME TypeOK, NEW t \in Tasks, Running(t), EndStep(t)
  PROVE  Running(t)'
  <1> USE DEF At, Goto, objects, statics, library, Running, Lead, FlagAt, TypeOK
  <1>0. Open \in Nat /\ Wrap \in Nat /\ Open + 1 < Wrap
    BY OpenBound
  <1>1. CASE Disconnect(t)
    BY <1>0, <1>1, OpenMoves DEF Disconnect, Fail
  <1>2. CASE Delete(t)
    BY <1>0, <1>2, OpenMoves DEF Delete, Fail
  <1>3. CASE Load(t, "endLoad", "endStore")
    BY <1>0, <1>3, OpenMoves DEF Load
  <1>4. CASE EndStore(t)
    <2>1. count' = Open
      <3>1. reg[t] = Open + 1 /\ count' = (reg[t] + -1) % Wrap
        BY <1>4 DEF EndStore, StoreStep
      <3>2. reg[t] + -1 = Open /\ Open \in 0 .. Wrap - 1
        BY <1>0, <3>1
      <3> QED BY <3>1, <3>2, ModRange
    <2>2. /\ UNCHANGED <<inited, live, libUp, failed>> /\ Open' = Open
          /\ inited = TRUE /\ libUp = TRUE
      BY <1>4, OpenMoves DEF EndStore, StoreStep
    <2>3. pc'[t] = "endTest" /\ \A u \in Tasks : u # t => pc'[u] = "idle"
      BY <1>4 DEF EndStore, StoreStep
    <2> QED BY <1>0, <2>1, <2>2, <2>3
  <1>5. CASE EndTest(t)
    BY <1>0, <1>5, OpenMoves DEF EndTest
  <1>6. CASE LibDeinit(t)
    <2>1. /\ UNCHANGED <<inited, count, live, failed>> /\ Open' = Open
          /\ inited = TRUE /\ libUp = TRUE /\ count = 0 /\ Open = 0
      BY <1>0, <1>6, OpenMoves DEF LibDeinit
    <2>2. live = {}
      BY <1>0, <1>6, <2>1, OpenMoves DEF LibDeinit
    <2>3. \A u \in Tasks : u # t => pc'[u] = "idle"
      BY <1>6 DEF LibDeinit
    <2>4. CASE libUp' = FALSE /\ pc'[t] = "clearInited"
      BY <1>0, <1>6, <2>1, <2>2, <2>3, <2>4
    <2>5. CASE libUp' = libUp /\ pc'[t] = "idle"
      BY <1>0, <1>6, <2>1, <2>2, <2>3, <2>5
    <2> QED BY <1>6, <2>4, <2>5 DEF LibDeinit
  <1>7. CASE ClearInited(t)
    BY <1>0, <1>7, OpenMoves DEF ClearInited
  <1> QED BY <1>1, <1>2, <1>3, <1>4, <1>5, <1>6, <1>7 DEF EndStep

LEMMA AcceptRunning ==
  ASSUME TypeOK, NEW t \in Tasks, Running(t), AcceptStep(t)
  PROVE  Running(t)'
  <1> USE DEF At, Goto, objects, statics, library, Running, Lead, FlagAt, TypeOK
  <1>0. Open \in Nat /\ Wrap \in Nat /\ Open + 1 < Wrap
    BY OpenBound
  <1>1. CASE Load(t, "acceptLoad", "acceptStore")
    BY <1>0, <1>1, OpenMoves DEF Load
  <1>2. CASE AcceptStore(t)
    <2>1. count' = Open
      <3>1. reg[t] = Open - 1 /\ count' = (reg[t] + 1) % Wrap
        BY <1>2 DEF AcceptStore, StoreStep
      <3>2. reg[t] + 1 = Open /\ Open \in 0 .. Wrap - 1
        BY <1>0, <3>1
      <3> QED BY <3>1, <3>2, ModRange
    <2>2. UNCHANGED <<inited, live, libUp, failed>> /\ Open' = Open
          /\ inited = libUp
      BY <1>2, OpenMoves DEF AcceptStore, StoreStep
    <2>3. pc'[t] = "idle" /\ \A u \in Tasks : u # t => pc'[u] = "idle"
      BY <1>2 DEF AcceptStore, StoreStep
    <2> QED BY <1>0, <2>1, <2>2, <2>3
  <1> QED BY <1>1, <1>2 DEF AcceptStep

(* A call that starts, or one that is a single step, finds all tasks idle. *)
LEMMA CallRunning ==
  ASSUME TypeOK, NEW t \in Tasks, Running(t), pc[t] = "idle"
  PROVE  /\ \A s \in Sockets : EndCall(t, s) \/ AppCall(t, s) => Running(t)'
         /\ \A l, c \in Sockets : Accept(t, l, c) => Running(t)'
  <1> USE DEF Goto, objects, statics, library, Running, Lead, FlagAt, TypeOK
  <1>0. Open \in Nat
    BY OpenBound
  <1>1. ASSUME NEW s \in Sockets, EndCall(t, s) \/ BeginCall(t, s)
        PROVE  Running(t)'
    BY <1>0, <1>1, OpenMoves DEF EndCall, BeginCall, Enter
  <1>2. ASSUME NEW s \in Sockets,
               Bind(t, s) \/ Listen(t, s) \/ Connect(t, s) \/ Option(t, s)
                 \/ Construct(t, s)
        PROVE  Running(t)'
    <2>1. UNCHANGED <<statics, library, pc, self, reg>>
      BY <1>2 DEF Bind, Listen, Connect, Option, Method, Construct
    <2> QED BY <1>0, <2>1, OpenMoves
  <1>3. ASSUME NEW l \in Sockets, NEW c \in Sockets, Accept(t, l, c)
        PROVE  Running(t)'
    BY <1>0, <1>3, OpenMoves DEF Accept
  <1> QED BY <1>1, <1>2, <1>3 DEF AppCall
-----------------------------------------------------------------------------
LEMMA Inductive ==
  ASSUME ~Overlap
  PROVE  Spec => []IInv
  <1>1. Init /\ TypeOK => IInv
    <2> SUFFICES ASSUME Init, TypeOK PROVE IInv
      OBVIOUS
    <2>1. PICK t \in Tasks : TRUE
      BY SecSocketAssumption DEF Tasks
    <2>2. Open = 0
      BY FS_EmptySet DEF Init, Open
    <2>3. pc[t] = "idle" /\ \A u \in Tasks : pc[u] = "idle"
      BY <2>1 DEF Init
    <2>4. count = 0 /\ inited = FALSE /\ libUp = FALSE /\ live = {}
      BY DEF Init
    <2>5. FlagAt(pc[t])
      BY <2>3, <2>4 DEF FlagAt
    <2>6. Running(t)
      BY <2>2, <2>3, <2>4, <2>5 DEF Running, Lead
    <2> QED BY <2>6 DEF IInv
  <1>2. IInv /\ TypeOK' /\ [Next]_vars => IInv'
    <2> SUFFICES ASSUME IInv, TypeOK', [Next]_vars PROVE IInv'
      OBVIOUS
    <2>0. TypeOK
      BY DEF IInv
    <2>1. ASSUME NEW t \in Tasks, BeginStep(t) \/ EndStep(t) \/ AcceptStep(t)
          PROVE  IInv'
      <3>1. pc[t] # "idle"
        BY <2>1 DEF BeginStep, TestInited, LibInit, SetInited, Load, Store,
                    StoreStep, Create, EndStep, Disconnect, Delete, EndStore,
                    EndTest, LibDeinit, ClearInited, AcceptStep, AcceptStore, At
      <3>2. Running(t)'
        BY <2>0, <2>1, <3>1, InsideRunning, BeginRunning, EndRunning,
           AcceptRunning
      <3> QED BY <3>2 DEF IInv
    <2>2. ASSUME NEW t \in Tasks, NEW s \in Sockets,
                 EndCall(t, s) \/ AppCall(t, s)
          PROVE  IInv'
      <3>1. CanCall(t)
        BY <2>2 DEF EndCall, AppCall, BeginCall, Enter, Bind, Listen, Connect,
                    Option, Method, Construct
      <3>2. Running(t)'
        BY <2>0, <2>2, <3>1, BetweenRunning, CallRunning
      <3> QED BY <3>2 DEF IInv
    <2>3. ASSUME NEW t \in Tasks, NEW l \in Sockets, NEW c \in Sockets,
                 Accept(t, l, c)
          PROVE  IInv'
      <3>1. CanCall(t)
        BY <2>3 DEF Accept
      <3>2. Running(t)'
        BY <2>0, <2>3, <3>1, BetweenRunning, CallRunning
      <3> QED BY <3>2 DEF IInv
    <2>4. CASE UNCHANGED vars
      BY <2>4 DEF IInv, TypeOK, Running, FlagAt, Open, vars
    <2> QED BY <2>1, <2>2, <2>3, <2>4 DEF Next, Tasks
  <1> QED BY <1>1, <1>2, TypeCorrect, PTL DEF Spec

(* Between calls that do not overlap the count is exact: every open handle  *)
(* is counted once, and so is every begin() that failed to create one.      *)
(* SecSocket.cpp:22-60, 160-183, 329-349.                                   *)
THEOREM CountIsExact ==
  ASSUME ~Overlap
  PROVE  Spec => []CountExact
  <1>1. IInv => CountExact
    <2> SUFFICES ASSUME IInv, Quiescent PROVE count = Open
      BY DEF CountExact, Open
    <2>1. PICK t \in Tasks : Running(t)
      BY DEF IInv
    <2>2. pc[t] = "idle" /\ Open \in Nat
      BY OpenBound DEF IInv, Quiescent
    <2> QED BY <2>1, <2>2 DEF Running, Lead
  <1> QED BY <1>1, Inductive, PTL

(* The library is up whenever a socket is open, and the flag says so        *)
(* between calls.  SecSocket.cpp:326-349.                                   *)
THEOREM LibraryStaysUp ==
  ASSUME ~Overlap
  PROVE  Spec => []LibraryUp
  <1>1. IInv => LibraryUp
    <2> SUFFICES ASSUME IInv PROVE LibraryUp
      OBVIOUS
    <2>1. PICK t \in Tasks : Running(t)
      BY DEF IInv
    <2> QED BY <2>1 DEF Running, LibraryUp, Quiescent, FlagAt
  <1> QED BY <1>1, Inductive, PTL

(* Socket keeps the library's contract: it opens and closes sockets only    *)
(* while the library is up and takes it down only when every socket is      *)
(* closed.  SecSocket.cpp:22-60, 160-183, 329-349.                          *)
THEOREM ContractKept ==
  ASSUME ~Overlap
  PROVE  Spec => LibraryContract
  <1>1. Init => Library!Init
    BY DEF Init, Library!Init
  <1>2. IInv /\ [Next]_vars => [Library!Next]_<<live, libUp>>
    <2> SUFFICES ASSUME IInv, [Next]_vars
                 PROVE  Library!Next \/ UNCHANGED <<live, libUp>>
      OBVIOUS
    <2> USE DEF Library!Next, At, library
    <2>0. TypeOK /\ (live # {} => libUp = TRUE)
      BY DEF IInv, Running
    <2>1. ASSUME NEW t \in Tasks, BeginStep(t)
          PROVE  Library!Next \/ UNCHANGED <<live, libUp>>
      <3>1. CASE LibInit(t)
        <4>1. Running(t)
          BY <3>1, InsideRunning DEF LibInit
        <4> QED BY <3>1, <4>1 DEF LibInit, Running, FlagAt, Library!LibInit
      <3>2. CASE Create(t)
        BY <3>2 DEF Create, Library!Open
      <3> QED
        BY <2>1, <3>1, <3>2 DEF BeginStep, TestInited, SetInited, Load, Store,
                                StoreStep
    <2>2. ASSUME NEW t \in Tasks, EndStep(t)
          PROVE  Library!Next \/ UNCHANGED <<live, libUp>>
      <3>1. CASE Delete(t)
        BY <2>0, <3>1 DEF Delete, Library!Close, TypeOK
      <3>2. CASE LibDeinit(t)
        <4>1. Running(t)
          BY <3>2, InsideRunning DEF LibDeinit
        <4>2. libUp = TRUE /\ live = {}
          BY <2>0, <3>2, <4>1, OpenBound, OpenMoves
             DEF LibDeinit, Running, FlagAt, Lead
        <4> QED BY <3>2, <4>2 DEF LibDeinit, Library!LibDeinit
      <3> QED
        BY <2>2, <3>1, <3>2 DEF EndStep, Disconnect, Load, EndStore, StoreStep,
                                EndTest, ClearInited
    <2>3. ASSUME NEW t \in Tasks, AcceptStep(t)
          PROVE  UNCHANGED <<live, libUp>>
      BY <2>3 DEF AcceptStep, Load, AcceptStore, StoreStep
    <2>4. ASSUME NEW t \in Tasks, NEW s \in Sockets,
                 EndCall(t, s) \/ AppCall(t, s)
          PROVE  UNCHANGED <<live, libUp>>
      BY <2>4 DEF EndCall, AppCall, BeginCall, Enter, Bind, Listen, Connect,
                  Option, Method, Construct
    <2>5. ASSUME NEW t \in Tasks, NEW l \in Sockets, NEW c \in Sockets,
                 Accept(t, l, c)
          PROVE  Library!Next \/ UNCHANGED <<live, libUp>>
      BY <2>0, <2>5 DEF Accept, Library!Open
    <2>6. CASE UNCHANGED vars
      BY <2>6 DEF vars
    <2> QED BY <2>1, <2>2, <2>3, <2>4, <2>5, <2>6 DEF Next, Tasks
  <1> QED
    BY <1>1, <1>2, Inductive, PTL
       DEF Spec, LibraryContract, Library!Spec, Library!vars
-----------------------------------------------------------------------------
(* SocketRx *)

\* The bytes of rx_buf, then of temp, are those after the last one taken.
Contiguous ==
  /\ recvd = taken + Len(rx_buf) + Len(temp)
  /\ \A i \in 1 .. Len(rx_buf) : rx_buf[i] = taken + i
  /\ \A i \in 1 .. Len(temp) : temp[i] = taken + Len(rx_buf) + i

\* The room measured is still there: only the callback fills rx_buf.
RoomKept ==
  /\ cb = "idle" => temp = <<>>
  /\ cb = "recv" => temp = <<>> /\ room <= Cap - Len(rx_buf)
  /\ cb = "store" => Len(temp) >= 1 /\ Len(temp) <= Cap - Len(rx_buf)

RxInv == RxTypeOK /\ Contiguous /\ RoomKept /\ CopiesRealBytes

LEMMA RxInitInv == RxInit => RxInv
  BY SocketRxAssumption DEF RxInit, RxInv, RxTypeOK, Contiguous, RoomKept,
     CopiesRealBytes

LEMMA NetInv ==
  ASSUME RxInv, NetStep
  PROVE  RxInv'
  <1> USE DEF RxInv, RxTypeOK, Contiguous, RoomKept, CopiesRealBytes, reader
  <1>0. Cap \in Nat \ {0} /\ MaxLen \in Nat /\ MaxBytes \in Nat
    BY SocketRxAssumption
  <1>1. CASE Arrive
    BY <1>0, <1>1 DEF Arrive
  <1>2. CASE Look
    BY <1>0, <1>2 DEF Look
  <1>3. CASE Recv
    <2>1. ASSUME NEW k \in 1 .. room, k <= arrived - recvd, cb' = "store",
                 temp' = [i \in 1 .. k |-> recvd + i], recvd' = recvd + k
          PROVE  RxInv'
      <3>1. Len(temp) = 0 /\ recvd = taken + Len(rx_buf)
        BY <1>3 DEF Recv
      <3>2. temp' \in Seq(Nat) /\ Len(temp') = k
        BY <1>0, <2>1
      <3> QED BY <1>0, <1>3, <2>1, <3>1, <3>2 DEF Recv
    <2>2. CASE cb' = "idle" /\ UNCHANGED <<recvd, temp>>
      BY <1>0, <1>3, <2>2 DEF Recv
    <2> QED BY <1>3, <2>1, <2>2 DEF Recv
  <1>4. CASE StoreRound
    <2>1. temp # <<>> /\ Len(temp) >= 1 /\ Len(rx_buf) < Cap
      BY <1>0, <1>4 DEF StoreRound
    <2>2. rx_buf' = Append(rx_buf, Head(temp)) /\ temp' = Tail(temp)
      BY <1>4, <2>1 DEF StoreRound, store_char
    <2>3. /\ rx_buf' \in Seq(Nat) /\ Len(rx_buf') = Len(rx_buf) + 1
          /\ temp' \in Seq(Nat) /\ Len(temp') = Len(temp) - 1
      BY <2>1, <2>2
    <2>4. \A i \in 1 .. Len(rx_buf') : rx_buf'[i] = taken + i
      <3>1. Head(temp) = taken + Len(rx_buf) + 1
        BY <2>1
      <3>2. ASSUME NEW i \in 1 .. Len(rx_buf') PROVE rx_buf'[i] = taken + i
        <4>1. CASE i = Len(rx_buf) + 1
          BY <2>2, <3>1, <4>1
        <4>2. CASE i # Len(rx_buf) + 1
          <5>1. i \in 1 .. Len(rx_buf)
            BY <2>3, <4>2
          <5>2. rx_buf'[i] = rx_buf[i]
            BY <2>2, <5>1
          <5> QED BY <5>1, <5>2
        <4> QED BY <4>1, <4>2
      <3> QED BY <3>2
    <2>5. \A i \in 1 .. Len(temp') : temp'[i] = taken + Len(rx_buf') + i
      BY <2>1, <2>2, <2>3
    <2>6. cb' = "idle" => temp' = <<>>
      <3>1. cb' = "idle" => Len(temp') = 0
        BY <1>4, <2>1, <2>3 DEF StoreRound
      <3> QED BY <2>3, <3>1, EmptySeq
    <2>7. UNCHANGED <<arrived, recvd, events, room, rd, len, n, taken, last>>
      BY <1>4 DEF StoreRound
    <2>8. cb' \in {"idle", "store"} /\ (cb' = "store" => Len(temp') >= 1)
      <3>1. cb' = IF Len(temp) = 1 THEN "idle" ELSE "store"
        BY <1>4 DEF StoreRound
      <3>0. Len(temp) \in Nat
        OBVIOUS
      <3> HIDE DEF RxInv, RxTypeOK, Contiguous, RoomKept, CopiesRealBytes
      <3>2. Len(temp) # 1 => Len(temp') >= 1
        BY <2>1, <2>3, <3>0
      <3>3. CASE Len(temp) = 1
        BY <3>1, <3>3
      <3>4. CASE Len(temp) # 1
        BY <3>1, <3>2, <3>4
      <3> QED BY <3>3, <3>4
    <2>9. RxTypeOK'
      BY <1>0, <1>4, <2>1, <2>3, <2>7 DEF StoreRound
    <2>10. Contiguous'
      BY <2>1, <2>3, <2>4, <2>5, <2>7
    <2>11. RoomKept' /\ CopiesRealBytes'
      <3>1. Len(temp') <= Cap - Len(rx_buf')
        BY <1>0, <1>4, <2>1, <2>3 DEF StoreRound
      <3>2. RoomKept'
        BY <2>6, <2>8, <3>1
      <3>3. CopiesRealBytes'
        BY <2>3, <2>7
      <3> QED BY <3>2, <3>3
    <2> QED BY <2>9, <2>10, <2>11
  <1> QED BY <1>1, <1>2, <1>3, <1>4 DEF NetStep

LEMMA AppInv ==
  ASSUME RxInv, AppStep
  PROVE  RxInv'
  <1> USE DEF RxInv, RxTypeOK, Contiguous, RoomKept, CopiesRealBytes, callback
  <1>0. Cap \in Nat \ {0} /\ MaxLen \in Nat /\ MaxBytes \in Nat
    BY SocketRxAssumption
  <1>1. ASSUME NEW l \in 1 .. MaxLen, Receive(l) PROVE RxInv'
    BY <1>0, <1>1 DEF Receive
  <1>2. CASE FirstAvailable
    BY <1>0, <1>2, SMTT(20) DEF FirstAvailable
  <1>3. CASE SecondAvailable
    BY <1>0, <1>3, SMTT(20) DEF SecondAvailable
  <1>4. CASE Copy
    <2>1. rx_buf # <<>> /\ Len(rx_buf) >= 1 /\ Head(rx_buf) = taken + 1
      <3>1. rx_buf \in Seq(Nat) /\ Len(rx_buf) \in Nat /\ Len(rx_buf) >= 1
            /\ \A i \in 1 .. Len(rx_buf) : rx_buf[i] = taken + i
        BY <1>4, SMTT(20) DEF Copy
      <3> HIDE DEF RxInv, RxTypeOK, Contiguous, RoomKept, CopiesRealBytes
      <3>2. rx_buf # <<>>
        BY <3>1
      <3>3. rx_buf[1] = taken + 1
        BY <3>1
      <3>4. Head(rx_buf) = rx_buf[1]
        BY <3>1, <3>2
      <3> QED BY <3>1, <3>2, <3>3, <3>4
    <2>2. rx_buf' = Tail(rx_buf) /\ last' = taken + 1 /\ taken' = taken + 1
      BY <1>4, <2>1 DEF Copy
    <2>3. rx_buf' \in Seq(Nat) /\ Len(rx_buf') = Len(rx_buf) - 1
      BY <2>1, <2>2
    <2>4. \A i \in 1 .. Len(rx_buf') : rx_buf'[i] = taken' + i
      BY <2>1, <2>2, <2>3
    <2> QED BY <1>0, <1>4, <2>1, <2>2, <2>3, <2>4 DEF Copy
  <1>5. CASE Return
    BY <1>0, <1>5 DEF Return
  <1>6. CASE Flush
    BY <1>0, <1>6 DEF Flush
  <1> QED BY <1>1, <1>2, <1>3, <1>4, <1>5, <1>6 DEF AppStep

LEMMA RxInductive == RxSpec => []RxInv
  <1>1. RxInv /\ [RxNext]_rxVars => RxInv'
    <2>1. CASE UNCHANGED rxVars
      BY <2>1 DEF rxVars, RxInv, RxTypeOK, Contiguous, RoomKept, CopiesRealBytes
    <2> QED BY <2>1, NetInv, AppInv DEF RxNext
  <1> QED BY <1>1, RxInitInv, PTL DEF RxSpec

THEOREM RxTypeCorrect == RxSpec => []RxTypeOK
  <1>1. RxInv => RxTypeOK
    BY DEF RxInv
  <1> QED BY <1>1, RxInductive, PTL

(* No byte is lost, doubled or reordered on its way through rx_buf, for    *)
(* every buffer size and every interleaving.  SecSocket.cpp:229-241,       *)
(* 287-312.                                                                *)
THEOREM NothingIsLost == RxSpec => []NothingLost
  <1>1. RxInv => NothingLost
    <2> SUFFICES ASSUME RxInv PROVE NothingLost
      OBVIOUS
    <2> DEFINE s == rx_buf \o temp
    <2>1. /\ rx_buf \in Seq(Nat) /\ temp \in Seq(Nat) /\ taken \in Nat
          /\ recvd - taken = Len(rx_buf) + Len(temp)
      BY DEF RxInv, RxTypeOK, Contiguous
    <2>2. s \in Seq(Nat) /\ Len(s) = recvd - taken
      BY <2>1
    <2>3. \A i \in 1 .. recvd - taken : s[i] = taken + i
      BY <2>1 DEF RxInv, Contiguous
    <2>4. s = [i \in 1 .. recvd - taken |-> taken + i]
      <3>1. s = [i \in 1 .. Len(s) |-> s[i]]
        BY <2>2, LenProperties
      <3>2. [i \in 1 .. recvd - taken |-> s[i]]
              = [i \in 1 .. recvd - taken |-> taken + i]
        BY <2>3
      <3> QED BY <2>2, <3>1, <3>2
    <2> QED BY <2>4 DEF NothingLost
  <1> QED BY <1>1, RxInductive, PTL

(* The copying loop of receive never reads an empty buffer.                *)
(* SecSocket.cpp:230-234.                                                  *)
THEOREM CopiesAreReal == RxSpec => []CopiesRealBytes
  <1>1. RxInv => CopiesRealBytes
    BY DEF RxInv
  <1> QED BY <1>1, RxInductive, PTL

(* The reader is given the stream in order: SocketRx implements ByteStream. *)
THEOREM StreamIsKept == RxSpec => StreamKept
  <1>1. RxInit => Stream!Init
    BY DEF RxInit, Stream!Init
  <1>2. RxInv /\ [RxNext]_rxVars => [Stream!Next]_<<arrived, taken, last>>
    <2> SUFFICES ASSUME RxInv, [RxNext]_rxVars
                 PROVE  Stream!Next \/ UNCHANGED <<arrived, taken, last>>
      OBVIOUS
    <2> USE DEF Stream!Next
    <2>1. CASE Arrive
      BY <2>1 DEF Arrive, reader, Stream!Arrive
    <2>2. CASE Look \/ Recv \/ StoreRound
      BY <2>2 DEF Look, Recv, StoreRound, reader
    <2>3. CASE Copy
      <3>1. rx_buf # <<>> /\ Head(rx_buf) = taken + 1 /\ taken < arrived
        BY <2>3 DEF Copy, RxInv, RxTypeOK, Contiguous, CopiesRealBytes
      <3> QED BY <2>3, <3>1 DEF Copy, Stream!Give
    <2>4. CASE Flush
      <3>1. taken' = taken + Len(rx_buf) /\ UNCHANGED <<arrived, last>>
        BY <2>4 DEF Flush
      <3>2. taken' \in taken .. arrived
        BY <3>1 DEF RxInv, RxTypeOK, Contiguous
      <3> QED BY <3>1, <3>2 DEF Stream!Discard
    <2>5. CASE FirstAvailable \/ SecondAvailable \/ Return
                 \/ \E l \in 1 .. MaxLen : Receive(l)
      BY <2>5 DEF FirstAvailable, SecondAvailable, Return, Receive
    <2>6. CASE UNCHANGED rxVars
      BY <2>6 DEF rxVars
    <2> QED
      BY <2>1, <2>2, <2>3, <2>4, <2>5, <2>6 DEF RxNext, NetStep, AppStep
  <1> QED
    BY <1>1, <1>2, RxInductive, PTL DEF RxSpec, StreamKept, Stream!Spec, Stream!vars
=============================================================================
