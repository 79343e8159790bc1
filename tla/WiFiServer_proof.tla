-------------------------- MODULE WiFiServer_proof --------------------------
(***************************************************************************)
(* Proofs about WiFiServer, for any number of clients, handles and         *)
(* connections.  That open connections are held is inductive with the      *)
(* types alone.  What a client reads and says needs Tidy: an entry of the  *)
(* vector whose handle the sketch has left alone has that handle for       *)
(* itself, open for the connection it was accepted for; only with a handle *)
(* stopped by the sketch can the library's next connection meet the old    *)
(* entry.                                                                  *)
(***************************************************************************)
EXTENDS WiFiServer, SequenceTheorems, WellFoundedInduction, TLAPS

\* A connection has one object.
OwnersDistinct ==
  /\ \A o \in Objs : owner[o] <= conns
  /\ \A o, p \in Objs : owner[o] = owner[p] /\ owner[o] # 0 => o = p

Tidy ==
  /\ \A o \in Entries : handle[o] \notin stopped => handle[o] \in live
  /\ \A o \in Entries : handle[o] \notin reused =>
       /\ conn[handle[o]] = owner[o] /\ owner[o] # 0
       /\ rx[o] \subseteq {owner[o]}
       /\ handle[o] \in stopped => status[o] # "CONNECTED"
       /\ \A p \in Entries : handle[o] = handle[p] => o = p
  /\ srvHandle \in live => conn[srvHandle] = 0
  /\ app \notin Entries \cup {NULL} =>
       /\ status[app] # "CONNECTED"
       /\ handle[app] \notin reused => rx[app] \subseteq {owner[app]}

IInv == TypeOK /\ ConnectionsHeld /\ OwnersDistinct /\ Tidy
-----------------------------------------------------------------------------
(* Searching the vector *)

Smaller == {ss \in Nat \X Nat : ss[1] < ss[2]}

(* A set of positions that is not empty has a first one. *)
LEMMA LeastExists ==
  ASSUME NEW S \in SUBSET Nat, S # {}
  PROVE  \E i \in S : \A j \in S : i <= j
  <1>1. IsWellFoundedOn(Smaller, Nat)
    BY NatLessThanWellFounded DEF OpToRel, Smaller
  <1>2. PICK i \in S : \A j \in S : <<j, i>> \notin Smaller
    BY <1>1, WFMin
  <1>3. ASSUME NEW j \in S PROVE i <= j
    <2>1. i \in Nat /\ j \in Nat
      OBVIOUS
    <2>2. ~ j < i
      BY <1>2, <2>1 DEF Smaller
    <2> QED BY <2>1, <2>2
  <1> QED BY <1>3

(* The entries are the objects at the positions of the vector. *)
LEMMA EntriesAre ==
  ASSUME clients \in Seq(Objs)
  PROVE  /\ DOMAIN clients = 1 .. Len(clients) /\ Len(clients) \in Nat
         /\ \A i \in 1 .. Len(clients) : clients[i] \in Objs /\ clients[i] \in Entries
         /\ \A o \in Entries : \E i \in 1 .. Len(clients) : o = clients[i]
         /\ Entries \subseteq Objs
BY DEF Entries, Range

(* Find returns 0, or the position of a client with the handle. *)
LEMMA FindHits ==
  ASSUME clients \in Seq(Objs), NEW h, Find(h) # 0
  PROVE  Find(h) \in 1 .. Len(clients) /\ handle[clients[Find(h)]] = h
<1> DEFINE hits == {i \in DOMAIN clients : handle[clients[i]] = h}
<1>1. hits \in SUBSET Nat /\ hits # {}
  BY EntriesAre DEF Find
<1>2. PICK i \in hits : \A j \in hits : i <= j
  BY <1>1, LeastExists
<1>3. Find(h) \in hits
  BY <1>1, <1>2 DEF Find
<1> QED BY <1>3, EntriesAre

(* What is left of the vector without its i-th entry. *)
LEMMA WithoutEntry ==
  ASSUME clients \in Seq(Objs), IsInjective(clients),
         NEW i \in 1 .. Len(clients), clients' = Without(i)
  PROVE  /\ clients' \in Seq(Objs) /\ IsInjective(clients')
         /\ Entries' = Entries \ {clients[i]}
<1> DEFINE at(j) == IF j < i THEN j ELSE j + 1
<1>1. Len(clients) \in Nat /\ DOMAIN clients = 1 .. Len(clients)
  BY EntriesAre
<1>2. \A j \in 1 .. Len(clients) - 1 : at(j) \in 1 .. Len(clients) \ {i}
  BY <1>1
<1>3. clients' = [j \in 1 .. Len(clients) - 1 |-> clients[at(j)]]
  BY DEF Without
<1>4. clients' \in Seq(Objs) /\ DOMAIN clients' = 1 .. Len(clients) - 1
  BY <1>1, <1>2, <1>3, EntriesAre
<1>5. IsInjective(clients')
  <2>1. ASSUME NEW a \in 1 .. Len(clients) - 1, NEW b \in 1 .. Len(clients) - 1,
               clients'[a] = clients'[b]
        PROVE  a = b
    <3>1. clients[at(a)] = clients[at(b)]
      BY <1>3, <2>1
    <3>2. at(a) = at(b)
      <4> HIDE DEF at
      <4> QED BY <1>1, <1>2, <3>1 DEF IsInjective
    <3> QED BY <1>1, <3>2
  <2> QED BY <1>4, <2>1 DEF IsInjective
<1>6. \A k \in 1 .. Len(clients) \ {i} :
        \E j \in 1 .. Len(clients) - 1 : k = at(j)
  <2> TAKE k \in 1 .. Len(clients) \ {i}
  <2>1. CASE k < i
    BY <1>1, <2>1
  <2>2. CASE k > i
    <3>1. k - 1 \in 1 .. Len(clients) - 1 /\ k = at(k - 1)
      BY <1>1, <2>2
    <3> QED BY <3>1
  <2> QED BY <1>1, <2>1, <2>2
<1>7. \A o : o \in Entries' <=> o \in Entries \ {clients[i]}
  <2>1. ASSUME NEW o \in Entries' PROVE o \in Entries \ {clients[i]}
    <3>1. PICK j \in 1 .. Len(clients) - 1 : o = clients[at(j)]
      BY <1>3, <1>4 DEF Entries, Range
    <3>2. at(j) \in 1 .. Len(clients) /\ at(j) # i
      BY <1>2
    <3> QED BY <1>1, <3>1, <3>2, EntriesAre DEF IsInjective
  <2>2. ASSUME NEW o \in Entries, o # clients[i] PROVE o \in Entries'
    <3>1. PICK k \in 1 .. Len(clients) : o = clients[k]
      BY EntriesAre
    <3>2. PICK j \in 1 .. Len(clients) - 1 : k = at(j)
      BY <1>6, <2>2, <3>1
    <3> QED BY <1>3, <1>4, <3>1, <3>2 DEF Entries, Range
  <2> QED BY <2>1, <2>2
<1> QED BY <1>4, <1>5, <1>7

(* What end() leaves: the entries at even positions. *)
LEMMA EvenEntries ==
  ASSUME clients \in Seq(Objs), IsInjective(clients),
         clients' = [i \in 1 .. Len(clients) \div 2 |-> clients[2 * i]]
  PROVE  /\ clients' \in Seq(Objs) /\ IsInjective(clients')
         /\ Entries' = Entries \ {clients[i] : i \in {j \in DOMAIN clients : j % 2 = 1}}
<1> DEFINE odd == {j \in DOMAIN clients : j % 2 = 1}
           half == Len(clients) \div 2
<1>1. Len(clients) \in Nat /\ DOMAIN clients = 1 .. Len(clients) /\ half \in Nat
  BY EntriesAre
<1>2. \A j \in 1 .. half : 2 * j \in 1 .. Len(clients) \ odd
  BY <1>1
<1>3. clients' \in Seq(Objs) /\ DOMAIN clients' = 1 .. half
  BY <1>1, <1>2, EntriesAre
<1>4. IsInjective(clients')
  BY <1>1, <1>2, <1>3 DEF IsInjective
<1>5. \A k \in 1 .. Len(clients) \ odd : \E j \in 1 .. half : k = 2 * j
  <2> TAKE k \in 1 .. Len(clients) \ odd
  <2>1. k % 2 = 0
    BY <1>1
  <2>2. k = 2 * (k \div 2) /\ k \div 2 \in 1 .. half
    BY <1>1, <2>1
  <2> QED BY <2>2
<1>6. \A o : o \in Entries' <=> o \in Entries \ {clients[i] : i \in odd}
  <2>1. ASSUME NEW o \in Entries' PROVE o \in Entries \ {clients[i] : i \in odd}
    <3>1. PICK j \in 1 .. half : o = clients[2 * j]
      BY <1>3 DEF Entries, Range
    <3>2. 2 * j \in 1 .. Len(clients) /\ 2 * j \notin odd
      BY <1>2
    <3> QED BY <1>1, <3>1, <3>2, EntriesAre DEF IsInjective
  <2>2. ASSUME NEW o \in Entries, o \notin {clients[i] : i \in odd}
        PROVE  o \in Entries'
    <3>1. PICK k \in 1 .. Len(clients) : o = clients[k]
      BY EntriesAre
    <3>2. PICK j \in 1 .. half : k = 2 * j
      BY <1>5, <2>2, <3>1
    <3> QED BY <1>3, <3>1, <3>2 DEF Entries, Range
  <2> QED BY <2>1, <2>2
<1> QED BY <1>3, <1>4, <1>6
-----------------------------------------------------------------------------
(* Stopping clients *)

(* Socket::end on the objects of S: none of them is connected afterwards,  *)
(* their handles are closed or stuck, and no handle but theirs and the     *)
(* others is closed.                                                       *)
LEMMA StopEffect ==
  ASSUME TypeOK, NEW S \in SUBSET Objs, NEW others, Stop(S, others)
  PROVE  /\ live' \subseteq live /\ stuck' \subseteq live'
         /\ stuck \cap live' \subseteq stuck'
         /\ listening' \subseteq live'
         /\ status' \in [Objs -> Status]
         /\ \A o \in S : status'[o] # "CONNECTED" /\ handle[o] \notin live' \ stuck'
         /\ \A o \in Objs \ S : status'[o] = status[o]
         /\ \A h \in live \ live' : h \in others \/ \E o \in S : h = handle[o]
<1>1. PICK Done \in SUBSET S :
        /\ Done \subseteq {o \in S : handle[o] \in live}
        /\ live' = live \ ({handle[o] : o \in Done} \cup others)
        /\ stuck' = (stuck \cup {handle[o] : o \in S}) \cap live'
        /\ listening' = listening \cap live'
        /\ status' = [o \in Objs |-> IF o \in Done THEN "DELETED"
                                     ELSE IF o \in S THEN "ERROR" ELSE status[o]]
  BY DEF Stop, Close
<1>2. status' \in [Objs -> Status]
  BY <1>1 DEF TypeOK, Status
<1> QED BY <1>1, <1>2

(* A step that stops the clients of S, and the server's socket if it is    *)
(* among the others, and takes the same clients out of the vector.         *)
LEMMA Removal ==
  ASSUME IInv, NEW S \in SUBSET Entries, NEW others \in SUBSET {srvHandle},
         Stop(S, others),
         clients' \in Seq(Objs), IsInjective(clients'), Entries' = Entries \ S,
         srvStatus' \in Status,
         UNCHANGED <<srvHandle, handle, rx, last, app, history>>
  PROVE  IInv'
<1> USE DEF history
<1>1. TypeOK /\ ConnectionsHeld /\ OwnersDistinct /\ Tidy /\ Entries \subseteq Objs
  BY EntriesAre DEF IInv, TypeOK
<1>2. /\ live' \subseteq live /\ stuck' \subseteq live'
      /\ stuck \cap live' \subseteq stuck'
      /\ listening' \subseteq live'
      /\ status' \in [Objs -> Status]
      /\ \A o \in S : status'[o] # "CONNECTED" /\ handle[o] \notin live' \ stuck'
      /\ \A o \in Objs \ S : status'[o] = status[o]
      /\ \A h \in live \ live' : h \in others \/ \E o \in S : h = handle[o]
  <2>1. S \in SUBSET Objs
    BY <1>1
  <2> QED BY <1>1, <2>1, StopEffect
<1>3. TypeOK'
  BY <1>1, <1>2 DEF TypeOK
<1>4. ConnectionsHeld'
  <2> SUFFICES ASSUME NEW h \in live' \ stuck', conn[h] # 0
               PROVE  \E o \in Entries' : handle[o] = h
    BY DEF ConnectionsHeld
  <2>1. h \in live \ stuck
    BY <1>2
  <2>2. PICK o \in Entries : handle[o] = h
    BY <1>1, <2>1 DEF ConnectionsHeld
  <2>3. o \notin S
    BY <1>2, <2>2
  <2> QED BY <2>2, <2>3
<1>5. OwnersDistinct'
  BY <1>1 DEF OwnersDistinct
<1>6. Tidy'
  <2>1. ASSUME NEW o \in Entries', handle[o] \notin stopped
        PROVE  handle[o] \in live'
    <3>1. o \in Entries /\ o \notin S /\ handle[o] \notin reused
      BY <1>1, <2>1 DEF TypeOK
    <3>2. handle[o] \in live /\ conn[handle[o]] = owner[o] /\ owner[o] # 0
      BY <1>1, <2>1, <3>1 DEF Tidy
    <3>3. handle[o] # srvHandle
      BY <1>1, <3>2 DEF Tidy
    <3>4. \A p \in S : handle[o] # handle[p]
      BY <1>1, <3>1 DEF Tidy
    <3> QED BY <1>2, <3>2, <3>3, <3>4
  <2>2. ASSUME NEW o \in Entries', handle[o] \notin reused
        PROVE  /\ conn[handle[o]] = owner[o] /\ owner[o] # 0
               /\ rx[o] \subseteq {owner[o]}
               /\ handle[o] \in stopped => status'[o] # "CONNECTED"
               /\ \A p \in Entries' : handle[o] = handle[p] => o = p
    <3>1. o \in Entries /\ o \in Objs \ S
      BY <1>1
    <3> QED BY <1>1, <1>2, <2>2, <3>1 DEF Tidy
  <2>3. srvHandle \in live' => conn[srvHandle] = 0
    BY <1>1, <1>2 DEF Tidy
  <2>4. ASSUME app \notin Entries' \cup {NULL}
        PROVE  /\ status'[app] # "CONNECTED"
               /\ handle[app] \notin reused => rx[app] \subseteq {owner[app]}
    <3>1. app \in Objs
      BY <1>1, <2>4 DEF TypeOK
    <3>2. CASE app \in Entries
      <4>1. app \in S
        BY <2>4, <3>2
      <4> QED BY <1>1, <1>2, <3>2, <4>1 DEF Tidy
    <3>3. CASE app \notin Entries
      <4>1. status'[app] = status[app]
        BY <1>2, <3>1, <3>3
      <4> QED BY <1>1, <2>4, <3>3, <4>1 DEF Tidy
    <3> QED BY <3>2, <3>3
  <2> QED BY <2>1, <2>2, <2>3, <2>4 DEF Tidy
<1> QED BY <1>3, <1>4, <1>5, <1>6 DEF IInv
-----------------------------------------------------------------------------
(* The steps *)

LEMMA InitInv == Init => IInv
<1> SUFFICES ASSUME Init PROVE IInv
  OBVIOUS
<1>1. clients = <<>> /\ Entries = {} /\ IsInjective(clients)
  BY DEF Init, Entries, Range, IsInjective
<1>2. TypeOK
  <2>1. 0 \in 0 .. MaxConns /\ 0 \in Nat
    BY WiFiServerAssumption
  <2>2. /\ handle \in [Objs -> Handles \cup {NULL}] /\ status \in [Objs -> Status]
        /\ rx \in [Objs -> SUBSET (1 .. MaxConns)]
    BY DEF Init, Status
  <2>3. conn \in [Handles -> 0 .. MaxConns] /\ owner \in [Objs -> 0 .. MaxConns]
    BY <2>1 DEF Init
  <2>4. /\ srvStatus \in Status /\ clients \in Seq(Objs)
        /\ live \subseteq Handles /\ stuck \subseteq live /\ listening \subseteq live
        /\ stopped \subseteq Handles \cup {NULL} /\ reused \subseteq stopped
    BY DEF Init, Status
  <2> QED BY <1>1, <2>1, <2>2, <2>3, <2>4 DEF Init, TypeOK
<1>3. ConnectionsHeld /\ OwnersDistinct /\ Tidy
  BY <1>1, WiFiServerAssumption DEF Init, ConnectionsHeld, OwnersDistinct, Tidy
<1> QED BY <1>2, <1>3 DEF IInv

LEMMA BeginStep == IInv /\ Begin => IInv'
<1> SUFFICES ASSUME IInv, Begin PROVE IInv'
  OBVIOUS
<1> USE DEF IInv
<1>1. /\ UNCHANGED <<handle, status, rx, clients, last, app, conns, owner, stuck, stopped>>
      /\ Entries' = Entries /\ OwnersDistinct'
  BY DEF Begin, Entries, OwnersDistinct
<1>2. live \subseteq live' => srvStatus' \in Status /\ listening' \subseteq live'
  BY DEF Begin, Listen, TypeOK, Status
<1>3. CASE UNCHANGED <<live, reused, srvHandle, conn>>
  BY <1>1, <1>2, <1>3 DEF TypeOK, ConnectionsHeld, Tidy
<1>4. ASSUME NEW h \in Handles \ live, GivenOut(h), srvHandle' = h,
             conn' = [conn EXCEPT ![h] = 0]
      PROVE  IInv'
  <2>1. live' = live \cup {h} /\ reused' = reused \cup ({h} \cap stopped)
    BY <1>4 DEF GivenOut
  <2>2. TypeOK'
    <3>1. conn' \in [Handles -> 0 .. MaxConns]
      BY <1>4, WiFiServerAssumption DEF TypeOK
    <3>2. live' \subseteq Handles /\ stuck' \subseteq live' /\ reused' \subseteq stopped'
      BY <1>1, <2>1 DEF TypeOK
    <3> QED BY <1>1, <1>2, <1>4, <2>1, <3>1, <3>2 DEF TypeOK
  <2>3. conn'[h] = 0 /\ \A g : g # h => conn'[g] = conn[g]
    BY <1>4 DEF TypeOK
  <2>4. ConnectionsHeld'
    BY <1>1, <2>1, <2>3 DEF ConnectionsHeld
  <2>5. \A o \in Entries : handle[o] \notin reused' => handle[o] # h
    BY <1>4, <2>1 DEF Tidy
  <2>6. Tidy'
    BY <1>1, <1>4, <2>1, <2>3, <2>5 DEF Tidy
  <2> QED BY <1>1, <2>2, <2>4, <2>6
<1> QED BY <1>3, <1>4 DEF Begin

LEMMA AvailableStep == IInv /\ Available => IInv'
<1> SUFFICES ASSUME IInv, Available PROVE IInv'
  OBVIOUS
<1> DEFINE from == IF clients = <<>> THEN last ELSE last % Len(clients)
           hits == {i \in from + 1 .. Len(clients) : Ready(clients[i])}
<1>1. Entries' = Entries /\ clients \in Seq(Objs) /\ Len(clients) \in Nat
  BY DEF Available, Entries, IInv, TypeOK
<1>2. from \in Nat
  <2>1. clients # <<>> => Len(clients) > 0
    BY <1>1
  <2> QED BY <1>1, <2>1 DEF IInv, TypeOK
<1>3. app' \in Entries \cup {NULL} /\ last' \in Nat
  <2>1. CASE hits = {}
    BY <1>2, <2>1 DEF Available
  <2>2. CASE hits # {}
    <3>1. hits \in SUBSET Nat
      BY <1>1, <1>2
    <3>2. PICK i \in hits : \A j \in hits : i <= j
      BY <2>2, <3>1, LeastExists
    <3>3. \E k \in hits : app' = clients[k] /\ last' = k - 1
      <4> HIDE DEF hits
      <4>1. (CHOOSE k \in hits : \A j \in hits : k <= j) \in hits
        BY <3>2
      <4> USE DEF hits
      <4> QED BY <2>2, <4>1 DEF Available
    <3>4. PICK k \in hits : app' = clients[k] /\ last' = k - 1
      BY <3>3
    <3>5. k \in 1 .. Len(clients)
      BY <1>1, <1>2
    <3> QED BY <1>1, <3>4, <3>5, EntriesAre
  <2> QED BY <2>1, <2>2
<1>4. UNCHANGED <<server, handle, status, rx, clients, live, history, stuck>>
  BY DEF Available
<1> HIDE DEF from, hits
<1> USE DEF IInv, server, history
<1>5. TypeOK'
  BY <1>1, <1>3, <1>4, EntriesAre DEF TypeOK
<1>6. ConnectionsHeld' /\ OwnersDistinct' /\ Tidy'
  BY <1>1, <1>3, <1>4 DEF ConnectionsHeld, OwnersDistinct, Tidy
<1> QED BY <1>5, <1>6

LEMMA ReadStep == IInv /\ Read => IInv'
<1> SUFFICES ASSUME IInv, Read PROVE IInv'
  OBVIOUS
<1> USE DEF IInv, Read, server, history
<1>1. Entries' = Entries /\ app \in Objs
  BY DEF Entries, TypeOK
<1>2. rx' \in [Objs -> SUBSET (1 .. MaxConns)] /\ \A o \in Objs : rx'[o] \subseteq rx[o]
  BY <1>1 DEF TypeOK
<1>3. TypeOK' /\ ConnectionsHeld' /\ OwnersDistinct'
  BY <1>1, <1>2 DEF TypeOK, ConnectionsHeld, OwnersDistinct
<1>4. Tidy'
  BY <1>1, <1>2, EntriesAre DEF Tidy, TypeOK
<1> QED BY <1>3, <1>4

LEMMA ClientStopStep == IInv /\ ClientStop => IInv'
<1> SUFFICES ASSUME IInv, ClientStop PROVE IInv'
  OBVIOUS
<1> USE DEF IInv
<1>1. /\ Entries' = Entries /\ app \in Objs /\ Entries \subseteq Objs
      /\ UNCHANGED <<srvHandle, srvStatus, handle, rx, clients, last, app, conn, conns, owner>>
      /\ stopped' = stopped \cup {handle[app]}
      /\ reused' = reused \cup {h \in {handle[app]} : conn[h] # owner[app]}
  BY EntriesAre DEF ClientStop, Entries, TypeOK
<1>2. /\ live' \subseteq live /\ stuck' \subseteq live'
      /\ stuck \cap live' \subseteq stuck'
      /\ listening' \subseteq live'
      /\ status' \in [Objs -> Status]
      /\ status'[app] # "CONNECTED"
      /\ \A o \in Objs \ {app} : status'[o] = status[o]
      /\ \A h \in live \ live' : h = handle[app]
  <2>1. Stop({app}, {}) /\ {app} \in SUBSET Objs
    BY <1>1 DEF ClientStop
  <2> DEFINE S == {app}
             none == {}
  <2>2. TypeOK /\ S \in SUBSET Objs /\ Stop(S, none)
    BY <2>1
  <2> HIDE DEF S, none
  <2>3. /\ live' \subseteq live /\ stuck' \subseteq live'
        /\ stuck \cap live' \subseteq stuck'
        /\ listening' \subseteq live'
        /\ status' \in [Objs -> Status]
        /\ \A o \in S : status'[o] # "CONNECTED"
        /\ \A o \in Objs \ S : status'[o] = status[o]
        /\ \A h \in live \ live' : h \in none \/ \E o \in S : h = handle[o]
    BY <2>2, StopEffect
  <2> USE DEF S, none
  <2> QED BY <2>3
<1>3. TypeOK' /\ ConnectionsHeld' /\ OwnersDistinct'
  <2>1. stopped' \subseteq Handles \cup {NULL} /\ reused' \subseteq stopped'
    BY <1>1 DEF TypeOK
  <2> QED BY <1>1, <1>2, <2>1 DEF TypeOK, ConnectionsHeld, OwnersDistinct
<1>4. \A o \in Entries : handle[o] \notin stopped' => handle[o] \in live'
  BY <1>1, <1>2 DEF Tidy
<1>5. ASSUME NEW o \in Entries, handle[o] \notin reused', handle[o] \in stopped'
      PROVE  status'[o] # "CONNECTED"
  <2>1. conn[handle[o]] = owner[o] /\ owner[o] # 0
        /\ (handle[o] \in stopped => status[o] # "CONNECTED")
    BY <1>1, <1>5 DEF Tidy
  <2>2. CASE o = app
    BY <1>2, <2>2
  <2>3. CASE o # app /\ handle[o] = handle[app]
    <3>1. conn[handle[app]] = owner[app]
      BY <1>1, <1>5, <2>3
    <3> QED BY <1>1, <2>1, <2>3, <3>1 DEF OwnersDistinct
  <2>4. CASE o # app /\ handle[o] # handle[app]
    BY <1>1, <1>2, <1>5, <2>1, <2>4
  <2> QED BY <2>2, <2>3, <2>4
<1>6. Tidy'
  BY <1>1, <1>2, <1>4, <1>5 DEF Tidy
<1> QED BY <1>3, <1>6

LEMMA SendStep ==
  ASSUME IInv, NEW S \in SUBSET Objs, Send(S)
  PROVE  IInv'
<1> USE DEF IInv, Send, server, history
<1>1. Entries' = Entries
  BY DEF Entries
<1>2. /\ status' \in [Objs -> Status]
      /\ \A o \in Objs : status'[o] = "CONNECTED" => status[o] = "CONNECTED"
  BY DEF TypeOK, Status
<1>3. TypeOK' /\ ConnectionsHeld' /\ OwnersDistinct'
  BY <1>1, <1>2 DEF TypeOK, ConnectionsHeld, OwnersDistinct
<1>4. Entries \subseteq Objs /\ (app \notin Entries \cup {NULL} => app \in Objs)
  BY EntriesAre DEF TypeOK
<1>5. Tidy'
  BY <1>1, <1>2, <1>4 DEF Tidy
<1> QED BY <1>3, <1>5

LEMMA EndStep == IInv /\ End => IInv'
<1> SUFFICES ASSUME IInv, End PROVE IInv'
  OBVIOUS
<1> DEFINE odd == {i \in DOMAIN clients : i % 2 = 1}
           S == {clients[i] : i \in odd}
<1>1. clients \in Seq(Objs) /\ IsInjective(clients)
  BY DEF IInv, TypeOK
<1>2. /\ clients' \in Seq(Objs) /\ IsInjective(clients')
      /\ Entries' = Entries \ S
  BY <1>1, EvenEntries DEF End
<1>3. S \in SUBSET Entries
  BY <1>1, EntriesAre
<1>4. /\ UNCHANGED <<srvHandle, handle, rx, last, app, history>>
      /\ srvStatus' \in Status
  BY DEF End, Status
<1>5. PICK others \in SUBSET {srvHandle} : Stop(S, others)
  <2>1. Stop(S, {srvHandle}) \/ Stop(S, {})
    BY DEF End
  <2> HIDE DEF S
  <2> QED BY <2>1
<1> HIDE DEF S
<1> QED BY <1>2, <1>3, <1>4, <1>5, Removal

LEMMA DisconnectionStep ==
  ASSUME IInv, NEW h \in Handles, Disconnection(h)
  PROVE  IInv'
<1> DEFINE o == clients[Find(h)]
<1>1. clients \in Seq(Objs) /\ IsInjective(clients) /\ srvStatus \in Status
  BY DEF IInv, TypeOK
<1>2. Find(h) \in 1 .. Len(clients)
  BY <1>1, FindHits DEF Disconnection
<1>3. /\ clients' \in Seq(Objs) /\ IsInjective(clients')
      /\ Entries' = Entries \ {o} /\ {o} \in SUBSET Entries
  BY <1>1, <1>2, WithoutEntry, EntriesAre DEF Disconnection
<1>4. UNCHANGED <<srvHandle, handle, rx, last, app, history>>
      /\ srvStatus' = srvStatus /\ Stop({o}, {})
  BY DEF Disconnection
<1> HIDE DEF o
<1> QED BY <1>1, <1>3, <1>4, Removal

LEMMA ReceiveStep ==
  ASSUME IInv, NEW h \in Handles, Receive(h)
  PROVE  IInv'
<1> DEFINE o == clients[Find(h)]
<1> USE DEF IInv, server, history
<1>1. Entries' = Entries /\ clients \in Seq(Objs)
  BY DEF Entries, TypeOK, Receive
<1>2. o \in Entries /\ o \in Objs /\ handle[o] = h
  BY <1>1, FindHits, EntriesAre DEF Receive
<1>3. h \in live /\ conn[h] \in 1 .. MaxConns
      /\ UNCHANGED <<server, handle, clients, last, app, live, history, stuck>>
  BY DEF Receive, TypeOK
<1>4. CASE rx' = [rx EXCEPT ![o] = @ \cup {conn[h]}] /\ UNCHANGED status
  <2> HIDE DEF o
  <2>1. /\ rx' \in [Objs -> SUBSET (1 .. MaxConns)]
        /\ \A p \in Objs : p # o => rx'[p] = rx[p]
        /\ rx'[o] = rx[o] \cup {conn[h]}
    BY <1>2, <1>3, <1>4 DEF TypeOK
  <2>2. TypeOK' /\ ConnectionsHeld' /\ OwnersDistinct'
    BY <1>1, <1>3, <1>4, <2>1 DEF TypeOK, ConnectionsHeld, OwnersDistinct
  <2>3. handle[o] \notin reused => rx'[o] \subseteq {owner[o]}
    BY <1>2, <2>1 DEF Tidy
  <2>4. /\ Entries \subseteq Objs
        /\ app \notin Entries \cup {NULL} => app \in Objs /\ app # o
    BY <1>1, <1>2, EntriesAre DEF TypeOK
  <2>5. \A p \in Entries : handle[p] \notin reused => rx'[p] \subseteq {owner[p]}
    BY <2>1, <2>3, <2>4 DEF Tidy
  <2>6. Tidy'
    <3>1. /\ UNCHANGED <<srvHandle, handle, status, app, live, conn, owner, stopped, reused>>
          /\ Entries' = Entries
      BY <1>1, <1>3, <1>4
    <3>2. app \notin Entries \cup {NULL} => rx'[app] = rx[app]
      BY <2>1, <2>4
    <3> QED BY <2>5, <3>1, <3>2 DEF Tidy
  <2> QED BY <2>2, <2>6
<1>5. CASE status' = [status EXCEPT ![o] = "ERROR"] /\ UNCHANGED rx
  <2> HIDE DEF o
  <2>1. /\ status' \in [Objs -> Status]
        /\ \A p \in Objs : status'[p] = "CONNECTED" => status[p] = "CONNECTED"
    BY <1>2, <1>5 DEF TypeOK, Status
  <2>2. TypeOK' /\ ConnectionsHeld' /\ OwnersDistinct'
    BY <1>1, <1>3, <1>5, <2>1 DEF TypeOK, ConnectionsHeld, OwnersDistinct
  <2>3. Entries \subseteq Objs /\ (app \notin Entries \cup {NULL} => app \in Objs)
    BY <1>1, EntriesAre DEF TypeOK
  <2>4. Tidy'
    BY <1>1, <1>3, <1>5, <2>1, <2>3 DEF Tidy
  <2> QED BY <2>2, <2>4
<1> QED BY <1>4, <1>5 DEF Receive

LEMMA ConnectionStep == IInv /\ Connection => IInv'
<1> SUFFICES ASSUME IInv, Connection PROVE IInv'
  OBVIOUS
<1> USE DEF IInv
<1>0. /\ UNCHANGED <<srvHandle, listening, last, app, stuck, stopped>>
      /\ conns' = conns + 1 /\ conns' \in 1 .. MaxConns
      /\ MaxConns \in Nat /\ conns \in Nat
  BY WiFiServerAssumption DEF Connection, TypeOK
<1>1. CASE /\ srvStatus' = "ERROR"
           /\ UNCHANGED <<live, reused, conn, owner, handle, status, rx, clients>>
  <2>1. Entries' = Entries
    BY <1>1 DEF Entries
  <2>2. TypeOK'
    BY <1>0, <1>1, <2>1 DEF TypeOK, Status
  <2>3. OwnersDistinct'
    BY <1>0, <1>1 DEF OwnersDistinct, TypeOK
  <2> QED BY <1>0, <1>1, <2>1, <2>2, <2>3 DEF ConnectionsHeld, Tidy
<1>2. ASSUME NEW h \in Handles \ live, NEW o \in Objs \ (Entries \cup {app}),
             srvHandle \in listening, GivenOut(h), conn' = [conn EXCEPT ![h] = conns + 1],
             owner' = [owner EXCEPT ![o] = conns + 1],
             handle' = [handle EXCEPT ![o] = h],
             status' = [status EXCEPT ![o] = "CONNECTED"],
             rx' = [rx EXCEPT ![o] = {}], clients' = Append(clients, o),
             UNCHANGED srvStatus
      PROVE  IInv'
  <2>1. clients \in Seq(Objs) /\ IsInjective(clients) /\ Len(clients) \in Nat
    BY DEF TypeOK
  <2>2. /\ clients' \in Seq(Objs) /\ DOMAIN clients' = 1 .. Len(clients) + 1
        /\ \A i \in 1 .. Len(clients) : clients'[i] = clients[i]
        /\ clients'[Len(clients) + 1] = o
    BY <1>2, <2>1
  <2>3. Entries' = Entries \cup {o}
    <3>1. \A i \in 1 .. Len(clients) + 1 : i \in 1 .. Len(clients) \/ i = Len(clients) + 1
      BY <2>1
    <3>2. ASSUME NEW p \in Entries' PROVE p \in Entries \cup {o}
      <4>1. PICK i \in 1 .. Len(clients) + 1 : p = clients'[i]
        BY <2>2 DEF Entries, Range
      <4> QED BY <2>1, <2>2, <3>1, <4>1, EntriesAre
    <3>3. ASSUME NEW p \in Entries \cup {o} PROVE p \in Entries'
      <4>1. \E i \in 1 .. Len(clients) + 1 : p = clients'[i]
        <5>1. CASE p = o
          BY <2>1, <2>2, <5>1
        <5>2. CASE p \in Entries
          <6>1. PICK i \in 1 .. Len(clients) : p = clients[i]
            BY <2>1, <5>2, EntriesAre
          <6> QED BY <2>1, <2>2, <6>1
        <5> QED BY <5>1, <5>2
      <4> QED BY <2>2, <4>1 DEF Entries, Range
    <3> QED BY <3>2, <3>3
  <2>4. IsInjective(clients')
    <3>1. ASSUME NEW i \in 1 .. Len(clients) + 1, NEW j \in 1 .. Len(clients) + 1,
                 clients'[i] = clients'[j]
          PROVE  i = j
      <4>1. \A k \in 1 .. Len(clients) : clients'[k] \in Entries /\ clients'[k] # o
        BY <2>1, <2>2, EntriesAre
      <4>2. CASE i \in 1 .. Len(clients) /\ j \in 1 .. Len(clients)
        BY <2>1, <2>2, <3>1, <4>2 DEF IsInjective
      <4>3. CASE i = Len(clients) + 1
        BY <2>1, <2>2, <3>1, <4>1, <4>3
      <4>4. CASE j = Len(clients) + 1
        BY <2>1, <2>2, <3>1, <4>1, <4>4
      <4> QED BY <2>1, <4>2, <4>3, <4>4
    <3> QED BY <2>2, <3>1 DEF IsInjective
  <2>10. live' = live \cup {h} /\ reused' = reused \cup ({h} \cap stopped)
    BY <1>2 DEF GivenOut
  <2>5. TypeOK'
    BY <1>0, <1>2, <2>2, <2>4, <2>10 DEF TypeOK, Status
  <2>6. /\ \A p \in Objs \ {o} : /\ owner'[p] = owner[p] /\ handle'[p] = handle[p]
                                 /\ status'[p] = status[p] /\ rx'[p] = rx[p]
        /\ owner'[o] = conns + 1 /\ handle'[o] = h /\ rx'[o] = {}
        /\ \A g : g # h => conn'[g] = conn[g]
        /\ conn'[h] = conns + 1 /\ conns + 1 # 0
    BY <1>0, <1>2 DEF TypeOK
  <2>7. Entries \subseteq Objs \ {o} /\ app # o
    BY <2>1, EntriesAre
  <2>8. ConnectionsHeld'
    BY <1>0, <1>2, <2>3, <2>6, <2>7, <2>10 DEF ConnectionsHeld
  <2>9. OwnersDistinct'
    <3>1. \A p \in Objs : owner[p] \in Nat /\ owner[p] <= conns
      BY <1>0 DEF OwnersDistinct, TypeOK
    <3> QED BY <1>0, <2>6, <3>1 DEF OwnersDistinct
  <2>11. Tidy'
    <3>1. \A p \in Entries : handle[p] \notin reused' => handle[p] # h
      BY <1>2, <2>10 DEF Tidy
    <3>2. \A p \in Entries' : handle'[p] \notin stopped' => handle'[p] \in live'
      BY <1>0, <2>3, <2>6, <2>7, <2>10 DEF Tidy
    <3>3. ASSUME NEW p \in Entries', handle'[p] \notin reused'
          PROVE  /\ conn'[handle'[p]] = owner'[p] /\ owner'[p] # 0
                 /\ rx'[p] \subseteq {owner'[p]}
                 /\ handle'[p] \in stopped' => status'[p] # "CONNECTED"
                 /\ \A q \in Entries' : handle'[p] = handle'[q] => p = q
      <4>1. CASE p = o
        BY <1>0, <2>3, <2>6, <2>7, <2>10, <3>1, <3>3, <4>1
      <4>2. CASE p \in Entries
        <5>1. handle[p] \notin reused /\ handle[p] # h /\ p \in Objs \ {o}
          BY <2>6, <2>7, <2>10, <3>1, <3>3, <4>2
        <5> QED BY <1>0, <2>3, <2>6, <2>7, <4>2, <5>1 DEF Tidy
      <4> QED BY <2>3, <4>1, <4>2
    <3>4. srvHandle' \in live' => conn'[srvHandle'] = 0
      <4>1. srvHandle \in live => srvHandle # h
        BY <1>2
      <4>2. h = srvHandle => srvHandle \in live
        <5>1. CASE srvHandle \in listening
          BY <5>1 DEF TypeOK
        <5> QED BY <1>2, <5>1
      <4> QED BY <1>0, <2>6, <2>10, <4>1, <4>2 DEF Tidy
    <3>5. app' \notin Entries' \cup {NULL} =>
            /\ status'[app'] # "CONNECTED"
            /\ handle'[app'] \notin reused' => rx'[app'] \subseteq {owner'[app']}
      BY <1>0, <2>3, <2>6, <2>7, <2>10 DEF Tidy, TypeOK
    <3> QED BY <3>2, <3>3, <3>4, <3>5 DEF Tidy
  <2> QED BY <2>5, <2>8, <2>9, <2>11
<1> QED BY <1>1, <1>2 DEF Connection

LEMMA Inductive == Spec => []IInv
<1>1. IInv /\ [Next]_vars => IInv'
  <2> SUFFICES ASSUME IInv, [Next]_vars PROVE IInv'
    OBVIOUS
  <2>1. CASE Write
    <3>1. Entries \in SUBSET Objs
      BY EntriesAre DEF IInv, TypeOK
    <3> QED BY <2>1, <3>1, SendStep DEF Write
  <2>2. CASE ClientWrite
    <3>1. {app} \in SUBSET Objs
      BY <2>2 DEF ClientWrite, IInv, TypeOK
    <3> QED BY <2>2, <3>1, SendStep DEF ClientWrite
  <2>3. CASE \E h \in Handles : Receive(h) \/ Disconnection(h)
    BY <2>3, ReceiveStep, DisconnectionStep
  <2>4. CASE UNCHANGED vars
    BY <2>4 DEF vars, IInv, TypeOK, ConnectionsHeld, OwnersDistinct, Tidy, Entries
  <2> QED BY <2>1, <2>2, <2>3, <2>4, BeginStep, AvailableStep, ReadStep,
             ClientStopStep, EndStep, ConnectionStep DEF Next
<1> QED BY <1>1, InitInv, PTL DEF Spec
-----------------------------------------------------------------------------
(* The types of the server's state; the vector holds no client twice.      *)
THEOREM TypeCorrect == Spec => []TypeOK
<1>1. IInv => TypeOK
  BY DEF IInv
<1> QED BY <1>1, Inductive, PTL

(* An open connection the server has forgotten is one that it failed to    *)
(* close, whatever the sketch stops.  WiFiServer.cpp:88-95, 109-161.       *)
THEOREM ConnectionsAreHeld == Spec => []ConnectionsHeld
<1>1. IInv => ConnectionsHeld
  BY DEF IInv
<1> QED BY <1>1, Inductive, PTL

(* No client is given bytes of another's connection, unless it is on a     *)
(* handle that the sketch has stopped itself and that was given out again: *)
(* the damage of a client.stop() stays there.  WiFiServer.cpp:127-142.     *)
THEOREM DataIsOwn == Spec => []OwnData
<1>1. IInv => OwnData
  BY DEF IInv, Tidy, OwnData
<1> QED BY <1>1, Inductive, PTL

(* A client that says it is connected has its own connection open, on all  *)
(* handles but those, the copy kept by the sketch and the clients it has   *)
(* stopped included.  WiFiServer.cpp:88-95, 144-161.                       *)
THEOREM ConnectedIsTrue == Spec => []ConnectedIsOpen
<1>1. IInv => ConnectedIsOpen
  BY DEF IInv, TypeOK, Tidy, ConnectedIsOpen
<1> QED BY <1>1, Inductive, PTL
=============================================================================
