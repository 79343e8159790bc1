----------------------------- MODULE WiFi_proof -----------------------------
(***************************************************************************)
(* Proofs about WiFiClass and WiFiUdp.                                     *)
(*                                                                         *)
(* WiFiClass: the instance is always in one of three states (Off, Station, *)
(* AccessPoint), and the four statuses that share the value zero are       *)
(* exactly those of Off: wcm_init may change the mode there and nowhere    *)
(* else, and begin waits for its connection there.  The types are taken in *)
(* three parts: the counters and the settings, which need arithmetic, and  *)
(* the rest.                                                               *)
(*                                                                         *)
(* WiFiUdp, for all buffer sizes and any number of datagrams: a datagram   *)
(* is in the library, then in one packet of the queue, then in the current *)
(* packet, always in the order of arrival; and until endPacket the         *)
(* transmit buffer is what write() took.                                   *)
(***************************************************************************)
EXTENDS WiFiClass, WiFiUdp, SequenceTheorems, TLAPS

Counters ==
  /\ count \in 0 .. MaxResults + 1
  /\ timer \in 0 .. Wrap - 1
  /\ reports \in 0 .. MaxReports

\* What the settings hold.  While the access point runs nothing sets ap_conf.
Parameters ==
  /\ timeoutMs \in Timeouts /\ ipSettings \in Addresses \cup {NONE}
  /\ apConf \in (Names \cup {NONE}) \X (Addresses \cup {NONE})
  /\ served \in (Names \cup {NONE}) \X (Addresses \cup {NONE})
  /\ pc = "connect" => elapsed \in 0 .. timeoutMs

Values ==
  /\ status \in {UNINITED, STA_CONNECTED, AP_CONNECTED}
  /\ mode \in {"UNKNOWN", "STA", "AP", "AP_STA"}
  /\ error \in Error
  /\ scanStatus \in {"INCOMPLETE", "COMPLETE"}
  /\ pc \in {"idle", "connect", "scan"} /\ uninited \in BOOLEAN
  /\ wcmUp \in BOOLEAN /\ joined \in BOOLEAN /\ serving \in BOOLEAN
  /\ scanning \in BOOLEAN

Off == status = UNINITED /\ joined = FALSE /\ serving = FALSE

Station ==
  /\ status = STA_CONNECTED /\ joined = TRUE /\ serving = FALSE
  /\ mode = "STA" /\ wcmUp = TRUE

AccessPoint ==
  /\ status = AP_CONNECTED /\ joined = FALSE /\ serving = TRUE
  /\ mode = "AP" /\ wcmUp = TRUE /\ served = apConf

\* begin is in its loop: nothing is connected yet.
Connecting == Off /\ mode = "STA" /\ wcmUp = TRUE

Radio ==
  /\ Values
  /\ Off \/ Station \/ AccessPoint
  /\ pc = "connect" => Connecting
  /\ pc = "scan" /\ uninited = TRUE => Off

LEMMA Distinct ==
  /\ UNINITED # STA_CONNECTED
  /\ UNINITED # AP_CONNECTED
  /\ STA_CONNECTED # AP_CONNECTED
BY DEF UNINITED, STA_CONNECTED, AP_CONNECTED

LEMMA Initially == Init => Counters /\ Parameters /\ Radio
<1>1. Init => Counters
  BY WiFiClassAssumption DEF Init, Counters
<1>2. Init => Parameters
  BY DEF Init, Parameters
<1>3. Init => Radio
  BY DEF Init, Radio, Values, Off, Error
<1>4. QED BY <1>1, <1>2, <1>3

(* Only the rounds and the reports of a scan count anything.               *)
LEMMA CountersStep == Counters /\ [Next]_vars => Counters'
<1> SUFFICES ASSUME Counters, [Next]_vars PROVE Counters'
  OBVIOUS
<1> USE WiFiClassAssumption DEF Counters
<1>1. CASE ScanStart
  <2>1. UNCHANGED <<count, reports>> /\ timer' \in {0, timer}
    BY <1>1 DEF ScanStart, scan, loopVars
  <2>2. QED BY <2>1
<1>2. CASE ScanRound
  BY <1>2 DEF ScanRound, scan
<1>3. CASE ScanReturn
  BY <1>3 DEF ScanReturn
<1>4. CASE \E st \in {"INCOMPLETE", "COMPLETE"} : ScanReport(st)
  BY <1>4 DEF ScanReport, loopVars
<1>5. CASE UNCHANGED <<count, timer, reports>>
  BY <1>5
<1>6. QED
  BY <1>1, <1>2, <1>3, <1>4, <1>5
  DEF Next, vars, SetTimeout, Config, BeginSTA, ConnectTry, ConnectGiveUp,
      BeginAP, DisconnectSTA, DisconnectAP, End, MacAddress, IPSettings,
      SSID, BSSID, RSSI, EncryptionType, Ping, QueryFails, Idle, scan

(* The settings: the time of the loop of begin runs within its timeout,    *)
(* which nothing changes meanwhile, and beginAP fills ap_conf.             *)
LEMMA ParametersStep == Parameters /\ [Next]_vars => Parameters'
<1> SUFFICES ASSUME Parameters, [Next]_vars PROVE Parameters'
  OBVIOUS
<1> USE WiFiClassAssumption DEF Parameters
<1>1. CASE SetTimeout \/ Config
  BY <1>1 DEF SetTimeout, Config, Idle
<1>2. CASE BeginSTA
  <2>1. UNCHANGED <<timeoutMs, ipSettings, apConf, served>>
    BY <1>2 DEF BeginSTA, settings
  <2>2. pc' = "connect" => elapsed' = 0
    BY <1>2 DEF BeginSTA, settings, Idle, InitFails, Fails
  <2>3. QED BY <2>1, <2>2
<1>3. CASE ConnectTry
  BY <1>3 DEF ConnectTry
<1>4. ASSUME NEW n \in Names, BeginAP(n) PROVE Parameters'
  <2>1. UNCHANGED <<timeoutMs, ipSettings, elapsed>> /\ pc' = "idle"
    BY <1>4 DEF BeginAP, settings, Idle, InitFails, Fails
  <2>2. apConf' \in {apConf, <<n, ipSettings>>} /\ served' \in {served, apConf'}
    BY <1>4 DEF BeginAP, settings
  <2>3. QED BY <2>1, <2>2
<1>5. CASE UNCHANGED settings /\ pc' \in {pc, "idle", "scan"}
  BY <1>5 DEF settings
<1>6. CASE ConnectGiveUp \/ DisconnectSTA \/ DisconnectAP \/ End
  BY <1>5, <1>6 DEF ConnectGiveUp, DisconnectSTA, DisconnectAP, End, Fails
<1>7. CASE \/ MacAddress \/ IPSettings \/ SSID \/ BSSID \/ RSSI
           \/ EncryptionType \/ Ping
  BY <1>5, <1>7 DEF MacAddress, IPSettings, SSID, BSSID, RSSI, EncryptionType,
      Ping, QueryFails, Fails
<1>8. CASE \/ ScanStart \/ ScanRound \/ ScanReturn
           \/ \E st \in {"INCOMPLETE", "COMPLETE"} : ScanReport(st)
  BY <1>5, <1>8 DEF ScanStart, ScanRound, ScanReturn, ScanReport, InitFails,
      Fails, loopVars
<1>9. CASE UNCHANGED vars
  BY <1>5, <1>9 DEF vars, settings
<1>10. QED
  BY <1>1, <1>2, <1>3, <1>4, <1>6, <1>7, <1>8, <1>9 DEF Next

(* Taking the radio.  begin and beginAP may change the mode only with the  *)
(* status at zero, when the radio does nothing for us.                     *)
LEMMA AssignStep ==
  ASSUME Radio, BeginSTA \/ \E n \in Names : BeginAP(n)
  PROVE  Radio'
<1> USE Distinct DEF Radio, Values, Off, Station, AccessPoint, Connecting, Idle,
      Fails, scan, Error
<1>1. CASE BeginSTA
  <2>1. CASE InitFails
    BY <1>1, <2>1 DEF BeginSTA, InitFails, settings
  <2>2. CASE InitSucceeds("STA") /\ error' = "NONE" /\ mode' = "STA"
    BY <1>1, <2>2 DEF BeginSTA, InitSucceeds, InitFails, settings
  <2>3. CASE InitSucceeds("STA") /\ Fails("STA_AP_MODE_INCOMPATIBLE")
    BY <1>1, <2>3 DEF BeginSTA, InitSucceeds, settings
  <2>4. QED BY <1>1, <2>1, <2>2, <2>3 DEF BeginSTA
<1>2. ASSUME NEW n \in Names, BeginAP(n) PROVE Radio'
  <2>1. CASE InitFails
    BY <1>2, <2>1 DEF BeginAP, InitFails, settings
  <2>2. CASE InitSucceeds("AP") /\ status = UNINITED
    BY <1>2, <2>2 DEF BeginAP, InitSucceeds, InitFails
  <2>3. CASE InitSucceeds("AP") /\ status # UNINITED
    BY <1>2, <2>3 DEF BeginAP, InitSucceeds, InitFails
  <2>4. QED BY <1>2, <2>1, <2>2, <2>3 DEF BeginAP
<1>3. QED BY <1>1, <1>2

(* The loop of begin, which ends connected or as it began.                 *)
LEMMA ConnectStep ==
  ASSUME Radio, SetTimeout \/ Config \/ ConnectTry \/ ConnectGiveUp
  PROVE  Radio'
<1> USE Distinct DEF Radio, Values, Off, Station, AccessPoint, Connecting, Idle,
      scan, Error
<1>1. CASE SetTimeout \/ Config
  BY <1>1 DEF SetTimeout, Config, radio
<1>2. CASE ConnectTry
  BY <1>2 DEF ConnectTry
<1>3. CASE ConnectGiveUp
  BY <1>3 DEF ConnectGiveUp, radio, settings
<1>4. QED BY <1>1, <1>2, <1>3

(* Giving it up, or failing to.                                            *)
LEMMA ReleaseStep ==
  ASSUME Radio, DisconnectSTA \/ DisconnectAP \/ End
  PROVE  Radio'
<1> USE Distinct DEF Radio, Values, Off, Station, AccessPoint, Connecting, Idle,
      Fails, scan, settings, Error
<1>1. CASE DisconnectSTA
  BY <1>1 DEF DisconnectSTA
<1>2. CASE DisconnectAP
  BY <1>2 DEF DisconnectAP
<1>3. CASE End
  BY <1>3 DEF End, Deinit
<1>4. QED BY <1>1, <1>2, <1>3

(* A query disturbs nothing but the error.                                 *)
LEMMA QueryStep ==
  ASSUME Radio, NEW e \in Error, QueryFails(e)
  PROVE  Radio'
BY DEF Radio, Values, Off, Station, AccessPoint, Connecting, QueryFails, Idle,
  Fails, scan, settings

LEMMA QueriesStep ==
  ASSUME Radio,
         \/ MacAddress \/ IPSettings \/ SSID \/ BSSID \/ RSSI
         \/ EncryptionType \/ Ping
  PROVE  Radio'
<1>1. \E e \in Error : QueryFails(e)
  BY DEF MacAddress, IPSettings, SSID, BSSID, RSSI, EncryptionType, Ping, Error
<1>2. QED BY <1>1, QueryStep

(* A scan, which may initialise and deinitialise, and its callbacks.       *)
LEMMA ScanStep ==
  ASSUME Radio,
         \/ ScanStart \/ ScanRound \/ ScanReturn
         \/ \E st \in {"INCOMPLETE", "COMPLETE"} : ScanReport(st)
  PROVE  Radio'
<1> USE Distinct DEF Radio, Values, Off, Station, AccessPoint, Connecting, scan,
      loopVars, radio, settings, Error
<1>1. CASE ScanStart
  <2>1. CASE InitFails
    BY <1>1, <2>1 DEF ScanStart, InitFails, Fails
  <2>2. CASE InitSucceeds("AP_STA") /\ Fails("SCAN_FAILED")
    BY <1>1, <2>2 DEF ScanStart, InitSucceeds, InitFails, Fails
  <2>3. CASE InitSucceeds("AP_STA") /\ pc' = "scan"
    BY <1>1, <2>3 DEF ScanStart, InitSucceeds, InitFails, Fails
  <2>4. QED BY <1>1, <2>1, <2>2, <2>3 DEF ScanStart
<1>2. CASE ScanRound
  BY <1>2 DEF ScanRound
<1>3. CASE ScanReturn
  BY <1>3 DEF ScanReturn, Deinit
<1>4. CASE \E st \in {"INCOMPLETE", "COMPLETE"} : ScanReport(st)
  BY <1>4 DEF ScanReport
<1>5. QED BY <1>1, <1>2, <1>3, <1>4

LEMMA Invariance == Spec => [](Counters /\ Parameters /\ Radio)
<1>1. Radio /\ [Next]_vars => Radio'
  <2>1. ASSUME Radio, Next PROVE Radio'
    BY <2>1, AssignStep, ConnectStep, ReleaseStep, QueriesStep, ScanStep DEF Next
  <2>2. ASSUME Radio, UNCHANGED vars PROVE Radio'
    BY <2>2 DEF vars, Radio, Values, Off, Station, AccessPoint, Connecting
  <2>3. QED BY <2>1, <2>2
<1>2. QED BY Initially, CountersStep, ParametersStep, <1>1, PTL DEF Spec

(* Every variable keeps its type, the number of results among them, which  *)
(* may be one more than the array has.  WiFi.cpp:603-613.                  *)
THEOREM TypeCorrect == Spec => []TypeOK
<1>1. Counters /\ Parameters /\ Radio => TypeOK
  BY DEF Counters, Parameters, Radio, Values, TypeOK
<1>2. QED BY <1>1, Invariance, PTL

(* The status and the mode tell the truth about the radio, whatever calls  *)
(* fail and whenever a scan reports, for every size of the array, timeout  *)
(* and number of reports.  WiFi.cpp:45-131, 297-327, 429-469.              *)
THEOREM StatusIsTrue == Spec => []StatusTrue
<1>1. Radio => StatusTrue
  BY Distinct DEF Radio, Off, Station, AccessPoint, StatusTrue
<1>2. QED BY <1>1, Invariance, PTL

(* While an access point runs ap_conf describes it.  WiFi.cpp:110-131,     *)
(* 486-519, 534-536.                                                       *)
THEOREM ConfIsServed == Spec => []ServedIsTold
<1>1. Radio => ServedIsTold
  BY Distinct DEF Radio, Off, Station, AccessPoint, ServedIsTold
<1>2. QED BY <1>1, Invariance, PTL

(* A scan takes down neither a station nor an access point: where it       *)
(* deinitialises, the radio was doing nothing when it started, and has not *)
(* been given to anyone since.  WiFi.cpp:297-327, 429-447.                 *)
THEOREM ScanIsHarmless == Spec => ScanKeeps
<1> DEFINE Keeps == pc = "scan" \/ pc' = "scan" => UNCHANGED <<joined, serving>>
<1>1. ASSUME Radio, [Next]_vars, pc = "scan" \/ pc' = "scan"
      PROVE  UNCHANGED <<joined, serving>>
  <2>1. CASE ScanStart
    BY <2>1 DEF ScanStart, InitFails, Fails
  <2>2. CASE ScanRound
    BY <2>2 DEF ScanRound, radio
  <2>3. CASE ScanReturn
    <3>1. CASE uninited = TRUE
      BY <1>1, <2>3, <3>1 DEF ScanReturn, Deinit, Radio, Off
    <3>2. CASE uninited = FALSE
      BY <2>3, <3>2 DEF ScanReturn
    <3> QED BY <1>1, <3>1, <3>2 DEF Radio, Values
  <2>4. CASE \E st \in {"INCOMPLETE", "COMPLETE"} : ScanReport(st)
    BY <2>4 DEF ScanReport, radio
  <2>5. CASE UNCHANGED vars
    BY <2>5 DEF vars
  <2>6. CASE ConnectTry \/ ConnectGiveUp
    BY <1>1, <2>6 DEF ConnectTry, ConnectGiveUp
  <2>7. CASE SetTimeout \/ Config \/ End \/ DisconnectSTA \/ DisconnectAP
    BY <1>1, <2>7 DEF SetTimeout, Config, End, DisconnectSTA, DisconnectAP, Idle, Fails
  <2>8. CASE BeginSTA \/ \E n \in Names : BeginAP(n)
    BY <1>1, <2>8 DEF BeginSTA, BeginAP, InitFails, Idle, Fails
  <2>9. CASE \/ MacAddress \/ IPSettings \/ SSID \/ BSSID \/ RSSI
             \/ EncryptionType \/ Ping
    BY <1>1, <2>9 DEF MacAddress, IPSettings, SSID, BSSID, RSSI, EncryptionType,
        Ping, QueryFails, Idle, Fails
  <2> QED BY <1>1, <2>1, <2>2, <2>3, <2>4, <2>5, <2>6, <2>7, <2>8, <2>9 DEF Next
<1>2. Radio /\ [Next]_vars => [Keeps]_vars
  BY <1>1
<1> QED BY <1>2, Invariance, PTL DEF Spec, ScanKeeps
-----------------------------------------------------------------------------
(* WiFiUdp *)

Datagram == [d : 1 .. MaxDatagrams, len : 0 .. MaxLen]

\* Datagram d is not in the library any more; nor in the queue of packets.
Past(d) == d <= arrived /\ \A m \in 1 .. Len(inbox) : d < inbox[m].d

Passed(d) ==
  /\ Past(d)
  /\ \A i \in 1 .. Len(rx_packets) :
       rx_packets[i].bytes # <<>> => d < rx_packets[i].from

\* rx_buf is a place of passage; the library and the queue of packets hold
\* datagrams in the order of their numbers, each in one place.
RecvInv ==
  /\ open \in BOOLEAN
  /\ inbox \in Seq(Datagram) /\ arrived \in 0 .. MaxDatagrams
  /\ events \in 0 .. arrived
  /\ \A m \in 1 .. Len(inbox) : inbox[m].d <= arrived
  /\ \A l, m \in 1 .. Len(inbox) : l < m => inbox[l].d < inbox[m].d
  /\ rx_buf = <<>>
  /\ rx_packets \in Seq(Packet)
  /\ \A i \in 1 .. Len(rx_packets) :
       /\ Len(rx_packets[i].bytes) <= Cap
       /\ \A k \in 1 .. Len(rx_packets[i].bytes) :
            rx_packets[i].bytes[k] = <<rx_packets[i].from, k>>
       /\ rx_packets[i].bytes # <<>> => Past(rx_packets[i].from)
  /\ \A i, j \in 1 .. Len(rx_packets) :
       i < j /\ rx_packets[i].bytes # <<>> /\ rx_packets[j].bytes # <<>> =>
         rx_packets[i].from < rx_packets[j].from

\* What is left of the current packet is later than what was read and earlier
\* than what is queued or has yet to come.
ReadInv ==
  /\ current_packet \in Packet /\ Len(current_packet.bytes) <= Cap
  /\ lastRead \in Byte \cup {<<0, 0>>}
  /\ \A k \in 1 .. Len(current_packet.bytes) :
       /\ current_packet.bytes[k][1] = current_packet.from
       /\ Before(lastRead, current_packet.bytes[k])
  /\ \A k, l \in 1 .. Len(current_packet.bytes) :
       k < l => current_packet.bytes[k][2] < current_packet.bytes[l][2]
  /\ current_packet.bytes # <<>> => Passed(current_packet.from)
  /\ Passed(lastRead[1])

\* Until endPacket the transmit buffer is what write() took.
SendInv ==
  /\ remote_ip \in Hosts \cup {0}
  /\ txBuffer \in Seq(Nat) /\ Len(txBuffer) <= Cap /\ accepted \in Seq(Nat)
  /\ begun \in {0, 1} /\ ended \in 0 .. 2 /\ result \in {0, 1}
  /\ sent \in (Hosts \cup {0}) \X Seq(Nat)
  /\ ended = 0 => txBuffer = accepted
  /\ OneMeansSent

UdpInv == RecvInv /\ ReadInv /\ SendInv
-----------------------------------------------------------------------------
LEMMA Bounds ==
  /\ Cap \in Nat \ {0} /\ RxCap \in Nat \ {0} /\ Cap <= RxCap
  /\ MaxLen \in Nat /\ MaxDatagrams \in Nat /\ MaxWrite \in Nat
  /\ <<>> \in Seq(Byte)
BY WiFiUdpAssumption

(* The parts of the packets and of the datagrams. *)
LEMMA PacketParts ==
  ASSUME NEW p \in Packet
  PROVE  p.bytes \in Seq(Byte) /\ p.from \in Nat
BY Bounds DEF Packet

LEMMA DatagramParts ==
  ASSUME NEW g \in Datagram
  PROVE  g.d \in 1 .. MaxDatagrams /\ g.len \in 0 .. MaxLen /\ g.d \in Nat
BY Bounds DEF Datagram

LEMMA QueueParts ==
  ASSUME RecvInv
  PROVE  /\ \A i \in 1 .. Len(rx_packets) :
              rx_packets[i] \in Packet /\ rx_packets[i].from \in Nat
         /\ \A m \in 1 .. Len(inbox) :
              inbox[m] \in Datagram /\ inbox[m].d \in Nat
<1>1. \A i \in 1 .. Len(rx_packets) : rx_packets[i] \in Packet
  BY DEF RecvInv
<1>2. \A m \in 1 .. Len(inbox) : inbox[m] \in Datagram
  BY DEF RecvInv
<1> QED BY <1>1, <1>2, PacketParts, DatagramParts

LEMMA UdpInitInv == UdpInit => UdpInv
<1> SUFFICES ASSUME UdpInit PROVE UdpInv
  OBVIOUS
<1> USE Bounds DEF UdpInit
<1>1. RecvInv
  <2>1. /\ inbox = <<>> /\ rx_packets = <<>> /\ 1 .. Len(<<>>) = {}
        /\ inbox \in Seq(Datagram) /\ rx_packets \in Seq(Packet)
    OBVIOUS
  <2>2. arrived \in 0 .. MaxDatagrams /\ events \in 0 .. arrived
    OBVIOUS
  <2> QED BY <2>1, <2>2 DEF RecvInv
<1>2. ReadInv
  <2>1. current_packet \in Packet
    BY DEF Packet, None
  <2> QED BY <2>1 DEF ReadInv, None, Passed, Past
<1>3. SendInv
  <2>1. Len(txBuffer) = 0 /\ <<>> \in Seq(Nat)
    OBVIOUS
  <2>2. Nothing \in (Hosts \cup {0}) \X Seq(Nat)
    <3>1. 0 \in Hosts \cup {0}
      OBVIOUS
    <3>2. PICK e \in Seq(Nat) : e = <<>>
      BY <2>1
    <3> QED BY <3>1, <3>2 DEF Nothing
  <2> QED BY <2>1, <2>2 DEF SendInv, OneMeansSent
<1> QED BY <1>1, <1>2, <1>3 DEF UdpInv
-----------------------------------------------------------------------------
(* The network task and the socket *)

LEMMA RecvKept ==
  ASSUME RecvInv, open' \in BOOLEAN, UNCHANGED receiving
  PROVE  RecvInv' /\ \A d : Passed(d) => Passed(d)'
BY DEF RecvInv, Passed, Past, receiving

\* Begin empties what the library holds, Arrive adds to its end.
LEMMA BeginRecv == RecvInv /\ Begin => RecvInv' /\ \A d : Passed(d) => Passed(d)'
<1> SUFFICES ASSUME RecvInv, Begin PROVE RecvInv' /\ \A d : Passed(d) => Passed(d)'
  OBVIOUS
<1>1. inbox' = <<>> /\ Len(inbox') = 0 /\ events' = 0 /\ open' \in BOOLEAN
      /\ UNCHANGED <<arrived, rx_buf, rx_packets>>
  BY DEF Begin
<1>2. \A d : Past(d) => Past(d)'
  BY <1>1 DEF Past
<1>3. RecvInv'
  BY <1>1, <1>2, SMTT(20) DEF RecvInv
<1> QED BY <1>1, <1>2, <1>3 DEF Passed

LEMMA ArriveRecv == RecvInv /\ Arrive => RecvInv' /\ \A d \in Nat : Passed(d) => Passed(d)'
<1> SUFFICES ASSUME RecvInv, Arrive
             PROVE  RecvInv' /\ \A d \in Nat : Passed(d) => Passed(d)'
  OBVIOUS
<1>0. inbox \in Seq(Datagram) /\ Len(inbox) \in Nat
      /\ arrived \in 0 .. MaxDatagrams /\ MaxDatagrams \in Nat
  BY Bounds DEF RecvInv
<1>1. PICK len \in 0 .. MaxLen : inbox' = Append(inbox, [d |-> arrived + 1, len |-> len])
  BY DEF Arrive
<1> DEFINE g == [d |-> arrived + 1, len |-> len]
<1>2. g \in Datagram /\ g.d = arrived + 1
  BY <1>0, Bounds DEF Arrive, Datagram
<1> HIDE DEF g
<1>3. arrived' = arrived + 1 /\ events' = events + 1
      /\ UNCHANGED <<open, rx_buf, rx_packets>> /\ arrived' \in 0 .. MaxDatagrams
  BY <1>0 DEF Arrive
<1>4. /\ inbox' \in Seq(Datagram) /\ Len(inbox') = Len(inbox) + 1
      /\ \A m \in 1 .. Len(inbox) : inbox'[m] = inbox[m]
      /\ inbox'[Len(inbox) + 1] = g
  BY <1>0, <1>1, <1>2 DEF g
<1>5. \A m \in 1 .. Len(inbox') : m \in 1 .. Len(inbox) \/ m = Len(inbox) + 1
  BY <1>0, <1>4
<1>6. \A m \in 1 .. Len(inbox) : inbox[m].d \in Nat /\ inbox[m].d <= arrived
  BY <1>0, QueueParts DEF RecvInv
<1>7. \A d \in Nat : Past(d) => Past(d)'
  BY <1>0, <1>2, <1>3, <1>4, <1>5 DEF Past
<1>8. \A m \in 1 .. Len(inbox') : inbox'[m].d <= arrived'
  BY <1>0, <1>2, <1>3, <1>4, <1>5, <1>6
<1>9. ASSUME NEW l \in 1 .. Len(inbox'), NEW m \in 1 .. Len(inbox'), l < m
      PROVE  inbox'[l].d < inbox'[m].d
  <2>1. l \in 1 .. Len(inbox)
    BY <1>0, <1>4, <1>9
  <2>2. CASE m \in 1 .. Len(inbox)
    BY <1>4, <1>9, <2>1, <2>2 DEF RecvInv
  <2>3. CASE m = Len(inbox) + 1
    BY <1>0, <1>2, <1>4, <1>6, <2>1, <2>3
  <2> QED BY <1>5, <2>2, <2>3
<1>10. \A i \in 1 .. Len(rx_packets) :
         rx_packets[i].bytes # <<>> => Past(rx_packets[i].from)'
  <2>1. \A i \in 1 .. Len(rx_packets) : rx_packets[i].from \in Nat
    BY QueueParts
  <2> QED BY <1>3, <1>7, <2>1 DEF RecvInv
<1>11. events' \in 0 .. arrived'
  BY <1>0, <1>3 DEF RecvInv
<1>12. RecvInv'
  BY <1>3, <1>4, <1>8, <1>9, <1>10, <1>11 DEF RecvInv
<1> QED BY <1>3, <1>7, <1>12 DEF Passed

(* A packet is queued that is empty or of a later datagram than those      *)
(* before it.                                                              *)
LEMMA QueueRecv ==
  ASSUME RecvInv, NEW p \in Packet, rx_packets' = Append(rx_packets, p),
         Len(p.bytes) <= Cap,
         \A k \in 1 .. Len(p.bytes) : p.bytes[k] = <<p.from, k>>,
         p.bytes # <<>> =>
           /\ Past(p.from)'
           /\ \A d \in Nat : Past(d) => d < p.from,
         \A d \in Nat : Past(d) => Past(d)',
         inbox' \in Seq(Datagram), events' \in 0 .. arrived',
         \A m \in 1 .. Len(inbox') : inbox'[m].d <= arrived',
         \A l, m \in 1 .. Len(inbox') : l < m => inbox'[l].d < inbox'[m].d,
         rx_buf' = <<>>, UNCHANGED <<open, arrived>>
  PROVE  RecvInv' /\ \A d \in Nat : Passed(d) => Passed(d)'
<1>0. rx_packets \in Seq(Packet) /\ Len(rx_packets) \in Nat
  BY DEF RecvInv
<1>1. /\ rx_packets' \in Seq(Packet) /\ Len(rx_packets') = Len(rx_packets) + 1
      /\ \A i \in 1 .. Len(rx_packets) : rx_packets'[i] = rx_packets[i]
      /\ rx_packets'[Len(rx_packets) + 1] = p
  BY <1>0
<1>2. \A i \in 1 .. Len(rx_packets') : i \in 1 .. Len(rx_packets) \/ i = Len(rx_packets) + 1
  BY <1>0, <1>1
<1>3. ASSUME NEW i \in 1 .. Len(rx_packets')
      PROVE  /\ Len(rx_packets'[i].bytes) <= Cap
             /\ \A k \in 1 .. Len(rx_packets'[i].bytes) :
                  rx_packets'[i].bytes[k] = <<rx_packets'[i].from, k>>
             /\ rx_packets'[i].bytes # <<>> => Past(rx_packets[i].from)'
  <2>1. CASE i = Len(rx_packets) + 1
    <3>1. rx_packets'[i] = p
      BY <1>1, <2>1
    <3> QED BY <3>1
  <2>2. CASE i \in 1 .. Len(rx_packets)
    <3>1. PICK q \in Packet : q = rx_packets[i] /\ q.from \in Nat
      BY <2>2, QueueParts
    <3>2. /\ Len(q.bytes) <= Cap
          /\ \A k \in 1 .. Len(q.bytes) : q.bytes[k] = <<q.from, k>>
          /\ q.bytes # <<>> => Past(q.from)
      BY <2>2, <3>1 DEF RecvInv
    <3>3. rx_packets'[i] = q
      BY <1>1, <2>2, <3>1
    <3> QED BY <3>1, <3>2, <3>3
  <2> QED BY <1>2, <2>1, <2>2
<1>4. ASSUME NEW i \in 1 .. Len(rx_packets'), NEW j \in 1 .. Len(rx_packets'),
             i < j, rx_packets'[i].bytes # <<>>, rx_packets'[j].bytes # <<>>
      PROVE  rx_packets'[i].from < rx_packets'[j].from
  <2>1. i \in 1 .. Len(rx_packets)
    BY <1>0, <1>1, <1>4
  <2>2. CASE j \in 1 .. Len(rx_packets)
    BY <1>1, <1>4, <2>1, <2>2 DEF RecvInv
  <2>3. CASE j = Len(rx_packets) + 1
    <3>1. rx_packets[i].from \in Nat /\ Past(rx_packets[i].from)
      BY <1>1, <1>4, <2>1, QueueParts DEF RecvInv
    <3> QED BY <1>1, <1>4, <2>1, <2>3, <3>1
  <2> QED BY <1>2, <2>2, <2>3
<1>5. open' \in BOOLEAN /\ arrived' \in 0 .. MaxDatagrams
  BY DEF RecvInv
<1>6. RecvInv'
  BY <1>1, <1>3, <1>4, <1>5 DEF RecvInv
<1>7. \A d \in Nat : Passed(d) => Passed(d)'
  BY <1>1, <1>2 DEF Passed
<1> QED BY <1>6, <1>7

(* What the socket hands over becomes one packet. *)
LEMMA CallbackRecv ==
  RecvInv /\ ReceiveCallback => RecvInv' /\ \A d \in Nat : Passed(d) => Passed(d)'
<1> SUFFICES ASSUME RecvInv, ReceiveCallback
             PROVE  RecvInv' /\ \A d \in Nat : Passed(d) => Passed(d)'
  OBVIOUS
<1>0. /\ rx_buf = <<>> /\ inbox \in Seq(Datagram) /\ Len(inbox) \in Nat
      /\ arrived \in Nat /\ arrived <= MaxDatagrams /\ MaxDatagrams \in Nat
      /\ events' \in 0 .. arrived' /\ UNCHANGED <<open, arrived>>
  BY Bounds DEF RecvInv, ReceiveCallback
<1>1. CASE /\ \E from \in 0 .. arrived : Push(<<>>, from)
           /\ UNCHANGED inbox
  <2>1. PICK from \in 0 .. arrived : Push(<<>>, from)
    BY <1>1
  <2>2. SubSeq(<<>>, 1, Least(Len(<<>>), Cap)) = <<>>
    BY Bounds DEF Least
  <2>3. PICK p \in Packet : p = [bytes |-> <<>>, from |-> from] /\ p.bytes = <<>>
    <3>1. from \in 0 .. MaxDatagrams /\ <<>> \in Seq(Byte)
      BY <1>0, Bounds
    <3>2. [bytes |-> <<>>, from |-> from] \in Packet
      BY <3>1 DEF Packet
    <3> QED BY <3>2
  <2>4. rx_packets' = Append(rx_packets, p) /\ rx_buf' = <<>>
    BY <2>1, <2>2, <2>3 DEF Push
  <2>5. \A d \in Nat : Past(d) => Past(d)'
    BY <1>0, <1>1 DEF Past
  <2>6. /\ \A m \in 1 .. Len(inbox') : inbox'[m].d <= arrived'
        /\ \A l, m \in 1 .. Len(inbox') : l < m => inbox'[l].d < inbox'[m].d
        /\ inbox' \in Seq(Datagram)
    BY <1>0, <1>1 DEF RecvInv
  <2>7. /\ Len(p.bytes) <= Cap
        /\ \A k \in 1 .. Len(p.bytes) : p.bytes[k] = <<p.from, k>>
    BY <2>3, Bounds
  <2> QED BY <1>0, <2>3, <2>4, <2>5, <2>6, <2>7, QueueRecv
<1>2. CASE /\ inbox # <<>>
           /\ LET g == Head(inbox)
                  k == Least(g.len, RxCap - Len(<<>>))
              IN  Push(<<>> \o [i \in 1 .. k |-> <<g.d, i>>], g.d)
           /\ inbox' = Tail(inbox)
  <2>1. Len(inbox) >= 1 /\ Head(inbox) = inbox[1]
    BY <1>0, <1>2
  <2>2. PICK g \in Datagram : g = Head(inbox) /\ g = inbox[1]
    BY <2>1, QueueParts
  <2>3. g.d \in 1 .. MaxDatagrams /\ g.len \in 0 .. MaxLen /\ g.d <= arrived
    BY <1>0, <2>1, <2>2, DatagramParts DEF RecvInv
  <2>4. PICK k \in Nat : k = Least(g.len, RxCap - Len(<<>>)) /\ k <= g.len
    BY <2>3, Bounds DEF Least
  <2>5. PICK b \in Seq(Byte) : /\ b = [i \in 1 .. k |-> <<g.d, i>>]
                              /\ Len(b) = k /\ \A i \in 1 .. k : b[i] = <<g.d, i>>
    <3> DEFINE c == [i \in 1 .. k |-> <<g.d, i>>]
    <3>1. \A i \in 1 .. k : <<g.d, i>> \in Byte
      BY <2>3, <2>4, Bounds DEF Byte
    <3>2. c \in Seq(Byte) /\ Len(c) = k /\ \A i \in 1 .. k : c[i] = <<g.d, i>>
      BY <3>1
    <3> QED BY <3>2
  <2>6. PICK n \in 0 .. Len(b) : n = Least(Len(b), Cap) /\ n <= Cap
    <3>1. Len(b) \in Nat
      OBVIOUS
    <3>2. Least(Len(b), Cap) \in 0 .. Len(b) /\ Least(Len(b), Cap) <= Cap
      BY <3>1, Bounds DEF Least
    <3> QED BY <3>2
  <2>7. /\ SubSeq(b, 1, n) \in Seq(Byte) /\ Len(SubSeq(b, 1, n)) = n
        /\ \A i \in 1 .. n : SubSeq(b, 1, n)[i] = <<g.d, i>>
    <3>1. /\ SubSeq(b, 1, n) \in Seq(Byte) /\ Len(SubSeq(b, 1, n)) = n
          /\ \A i \in 1 .. n : SubSeq(b, 1, n)[i] = b[i]
      OBVIOUS
    <3>2. \A i \in 1 .. n : b[i] = <<g.d, i>>
      <4>1. 1 .. n \subseteq 1 .. k
        BY <2>4, <2>5
      <4> QED BY <2>5, <4>1
    <3> QED BY <3>1, <3>2
  <2>8. PICK p : p = [bytes |-> SubSeq(b, 1, n), from |-> g.d]
    OBVIOUS
  <2>9. /\ p \in Packet /\ Len(p.bytes) <= Cap /\ p.from = g.d
        /\ \A i \in 1 .. Len(p.bytes) : p.bytes[i] = <<p.from, i>>
    BY <2>3, <2>6, <2>7, <2>8, Bounds DEF Packet
  <2>10. rx_packets' = Append(rx_packets, p) /\ rx_buf' = <<>>
    <3>1. Push(<<>> \o [i \in 1 .. k |-> <<g.d, i>>], g.d)
      BY <1>2, <2>2, <2>4
    <3>2. <<>> \o b = b
      BY <2>5
    <3>3. Push(b, g.d)
      BY <2>5, <3>1, <3>2
    <3> QED BY <2>6, <2>8, <3>3 DEF Push
  <2>11. /\ inbox' \in Seq(Datagram) /\ Len(inbox') = Len(inbox) - 1
         /\ \A m \in 1 .. Len(inbox') : m + 1 \in 1 .. Len(inbox) /\ inbox'[m] = inbox[m + 1]
    BY <1>0, <1>2, <2>1
  <2>12. \A d \in Nat : Past(d) => Past(d)' /\ d < p.from
    BY <1>0, <2>1, <2>2, <2>9, <2>11 DEF Past
  <2>13. \A l, m \in 1 .. Len(inbox) : l < m => inbox[l].d < inbox[m].d
    BY DEF RecvInv
  <2>14. Past(p.from)'
    <3>1. \A m \in 1 .. Len(inbox') : g.d < inbox'[m].d
      BY <1>0, <2>1, <2>2, <2>11, <2>13
    <3> QED BY <1>0, <2>3, <2>9, <3>1 DEF Past
  <2>15. \A m \in 1 .. Len(inbox') : inbox'[m].d <= arrived'
    BY <1>0, <2>11 DEF RecvInv
  <2>16. ASSUME NEW l \in 1 .. Len(inbox'), NEW m \in 1 .. Len(inbox'), l < m
         PROVE  inbox'[l].d < inbox'[m].d
    <3>1. l + 1 < m + 1
      BY <1>0, <2>11, <2>16
    <3> QED BY <2>11, <2>13, <3>1
  <2> QED BY <1>0, <2>9, <2>10, <2>11, <2>12, <2>14, <2>15, <2>16, QueueRecv
<1> QED BY <1>0, <1>1, <1>2 DEF ReceiveCallback-----------------------------------------------------------------------------
(* The sketch: reading *)

LEMMA LastReadType ==
  ASSUME ReadInv
  PROVE  lastRead[1] \in Nat /\ lastRead[2] \in Nat
BY Bounds DEF ReadInv, Byte

(* A byte of the current packet, and what makes it later than the one read *)
(* last.                                                                   *)
LEMMA CurrentParts ==
  ASSUME ReadInv
  PROVE  /\ current_packet.bytes \in Seq(Byte) /\ current_packet.from \in Nat
         /\ Len(current_packet.bytes) \in Nat
         /\ \A k \in 1 .. Len(current_packet.bytes) :
              /\ current_packet.bytes[k] \in Byte
              /\ current_packet.bytes[k][1] \in Nat /\ current_packet.bytes[k][2] \in Nat
<1>1. current_packet.bytes \in Seq(Byte) /\ current_packet.from \in Nat
  BY PacketParts DEF ReadInv
<1>2. \A c \in Byte : c[1] \in Nat /\ c[2] \in Nat
  BY Bounds DEF Byte
<1> QED BY <1>1, <1>2

(* Packets that come to the queue are later than what was taken from it.   *)
LEMMA ReadKept ==
  ASSUME ReadInv, UNCHANGED reading, \A d \in Nat : Passed(d) => Passed(d)'
  PROVE  ReadInv'
<1>1. current_packet.from \in Nat /\ lastRead[1] \in Nat
  BY CurrentParts, LastReadType
<1>2. UNCHANGED <<current_packet, lastRead>>
  BY DEF reading
<1> QED BY <1>1, <1>2 DEF ReadInv, Before

LEMMA NoneCurrent ==
  ASSUME ReadInv, current_packet' \in Packet, current_packet'.bytes = <<>>,
         UNCHANGED lastRead, Passed(lastRead[1]) => Passed(lastRead[1])'
  PROVE  ReadInv'
<1>1. Len(<<>>) = 0 /\ 1 .. Len(<<>>) = {} /\ 0 <= Cap
  BY Bounds
<1> QED BY <1>1 DEF ReadInv

LEMMA ParsePacketRead == RecvInv /\ ReadInv /\ ParsePacket => RecvInv' /\ ReadInv'
<1> SUFFICES ASSUME RecvInv, ReadInv, ParsePacket PROVE RecvInv' /\ ReadInv'
  OBVIOUS
<1>0. /\ UNCHANGED <<open, inbox, events, arrived, rx_buf, lastRead>>
      /\ rx_packets \in Seq(Packet) /\ Len(rx_packets) \in Nat
  BY DEF ParsePacket, RecvInv
<1>1. \A d : Past(d) <=> Past(d)'
  BY <1>0 DEF Past
<1>2. CASE rx_packets = <<>>
  <2>1. current_packet' = None /\ UNCHANGED rx_packets
    BY <1>2 DEF ParsePacket
  <2>2. RecvInv' /\ \A d : Passed(d) <=> Passed(d)'
    BY <1>0, <1>1, <2>1 DEF RecvInv, Passed
  <2>3. None \in Packet /\ None.bytes = <<>>
    BY Bounds DEF None, Packet
  <2> QED BY <1>0, <2>1, <2>2, <2>3, NoneCurrent
<1>3. CASE rx_packets # <<>>
  <2>1. current_packet' = Head(rx_packets) /\ rx_packets' = Tail(rx_packets)
    BY <1>3 DEF ParsePacket
  <2>2. /\ Len(rx_packets) >= 1 /\ current_packet' = rx_packets[1]
        /\ rx_packets' \in Seq(Packet) /\ Len(rx_packets') = Len(rx_packets) - 1
        /\ \A i \in 1 .. Len(rx_packets') :
             i + 1 \in 1 .. Len(rx_packets) /\ rx_packets'[i] = rx_packets[i + 1]
    BY <1>0, <1>3, <2>1
  <2>3. RecvInv'
    <3>1. ASSUME NEW i \in 1 .. Len(rx_packets')
          PROVE  /\ Len(rx_packets'[i].bytes) <= Cap
                 /\ \A k \in 1 .. Len(rx_packets'[i].bytes) :
                      rx_packets'[i].bytes[k] = <<rx_packets'[i].from, k>>
                 /\ rx_packets'[i].bytes # <<>> => Past(rx_packets[i].from)'
      <4>1. PICK j \in 1 .. Len(rx_packets) : j = i + 1
        BY <2>2
      <4>2. PICK q \in Packet : q = rx_packets[j] /\ q = rx_packets'[i]
        BY <2>2, <4>1, QueueParts
      <4>3. /\ Len(q.bytes) <= Cap
            /\ \A k \in 1 .. Len(q.bytes) : q.bytes[k] = <<q.from, k>>
            /\ q.bytes # <<>> => Past(q.from)
        BY <4>2 DEF RecvInv
      <4> QED BY <1>1, <4>2, <4>3
    <3>2. \A i, j \in 1 .. Len(rx_packets') :
            i < j /\ rx_packets'[i].bytes # <<>> /\ rx_packets'[j].bytes # <<>> =>
              rx_packets'[i].from < rx_packets'[j].from
      <4> TAKE i, j \in 1 .. Len(rx_packets')
      <4>1. i < j => i + 1 < j + 1
        BY <1>0, <2>2
      <4> QED BY <2>2, <4>1 DEF RecvInv
    <3> QED BY <1>0, <2>2, <3>1, <3>2 DEF RecvInv
  <2>4. \A d : Passed(d) => Passed(d)'
    <3> SUFFICES ASSUME NEW d, Passed(d) PROVE Passed(d)'
      OBVIOUS
    <3>1. \A i \in 1 .. Len(rx_packets') : rx_packets'[i].bytes # <<>> => d < rx_packets'[i].from
      BY <2>2 DEF Passed
    <3> QED BY <1>0, <3>1 DEF Passed, Past
  <2>5. PICK p \in Packet : p = rx_packets[1] /\ p.from \in Nat /\ current_packet' = p
    BY <1>0, <2>2, QueueParts
  <2>6. /\ Len(p.bytes) <= Cap
        /\ \A k \in 1 .. Len(p.bytes) : p.bytes[k] = <<p.from, k>>
        /\ p.bytes # <<>> => Past(p.from) /\ lastRead[1] < p.from
    <3>1. 1 \in 1 .. Len(rx_packets)
      BY <1>0, <2>2
    <3>2. p.bytes # <<>> => lastRead[1] < p.from
      BY <2>5, <3>1 DEF ReadInv, Passed
    <3> QED BY <2>5, <3>1, <3>2 DEF RecvInv
  <2>7. p.bytes # <<>> => Passed(p.from)'
    <3> SUFFICES ASSUME p.bytes # <<>> PROVE Passed(p.from)'
      OBVIOUS
    <3>1. ASSUME NEW i \in 1 .. Len(rx_packets'), rx_packets'[i].bytes # <<>>
          PROVE  p.from < rx_packets'[i].from
      <4>1. 1 < i + 1 /\ i + 1 \in 1 .. Len(rx_packets) /\ 1 \in 1 .. Len(rx_packets)
        BY <1>0, <2>2
      <4> QED BY <2>2, <2>5, <3>1, <4>1 DEF RecvInv
    <3>2. Past(p.from)
      BY <2>6
    <3> QED BY <1>0, <3>1, <3>2 DEF Passed, Past
  <2>8. \A k \in 1 .. Len(p.bytes) : p.bytes # <<>>
    <3> SUFFICES ASSUME p.bytes = <<>> PROVE 1 .. Len(p.bytes) = {}
      OBVIOUS
    <3> QED OBVIOUS
  <2>9. \A k \in 1 .. Len(p.bytes) : p.bytes[k][1] = p.from /\ Before(lastRead, p.bytes[k])
    BY <2>6, <2>8 DEF Before
  <2>10. \A k, l \in 1 .. Len(p.bytes) : k < l => p.bytes[k][2] < p.bytes[l][2]
    BY <2>6
  <2>11. lastRead' \in Byte \cup {<<0, 0>>} /\ Passed(lastRead[1])'
    BY <1>0, <2>4 DEF ReadInv
  <2>12. ReadInv'
    BY <1>0, <2>5, <2>6, <2>7, <2>9, <2>10, <2>11 DEF ReadInv, Before
  <2> QED BY <2>3, <2>12
<1> QED BY <1>2, <1>3
(* The first byte of the current packet becomes the one read last. *)
LEMMA ReadRead == ReadInv /\ Read => ReadInv'
<1> SUFFICES ASSUME ReadInv, Read PROVE ReadInv'
  OBVIOUS
<1> DEFINE b == current_packet.bytes
           c == current_packet'.bytes
<1>1. UNCHANGED <<arrived, inbox, rx_packets>>
  BY DEF Read, receiving
<1>2. \A d : Passed(d) <=> Passed(d)'
  BY <1>1 DEF Passed, Past
<1>3. /\ b \in Seq(Byte) /\ Len(b) \in Nat /\ b # <<>> /\ current_packet \in Packet
  BY CurrentParts DEF Read, ReadInv
<1>4. current_packet' = [current_packet EXCEPT !.bytes = Tail(b)] /\ lastRead' = Head(b)
  BY DEF Read
<1>5. c = Tail(b) /\ current_packet'.from = current_packet.from
      /\ current_packet' \in Packet
  <2>1. Tail(b) \in Seq(Byte)
    BY <1>3
  <2> HIDE DEF b
  <2> QED BY <1>3, <1>4, <2>1 DEF Packet
<1>6. /\ Len(b) >= 1 /\ Head(b) = b[1] /\ Tail(b) \in Seq(Byte) /\ Len(Tail(b)) = Len(b) - 1
      /\ \A k \in 1 .. Len(Tail(b)) :
           /\ k + 1 \in 1 .. Len(b) /\ 1 \in 1 .. Len(b) /\ 1 < k + 1
           /\ Tail(b)[k] = b[k + 1]
  BY <1>3
<1>7. /\ \A k \in 1 .. Len(b) : b[k][1] = current_packet.from
      /\ \A k, l \in 1 .. Len(b) : k < l => b[k][2] < b[l][2]
      /\ Passed(current_packet.from) /\ Len(b) <= Cap
  BY <1>3 DEF ReadInv
<1>8. ASSUME NEW k \in 1 .. Len(c)
      PROVE  c[k][1] = current_packet'.from /\ Before(lastRead', c[k])
  <2>1. c[k] = b[k + 1] /\ lastRead' = b[1]
    BY <1>4, <1>5, <1>6
  <2>2. 1 \in 1 .. Len(b) /\ k + 1 \in 1 .. Len(b) /\ 1 < k + 1
    BY <1>5, <1>6
  <2>3. b[1][1] = b[k + 1][1] /\ b[1][2] < b[k + 1][2] /\ b[k + 1][1] = current_packet.from
    BY <1>7, <2>2
  <2> QED BY <1>5, <2>1, <2>3 DEF Before
<1>9. \A k, l \in 1 .. Len(c) : k < l => c[k][2] < c[l][2]
  <2> TAKE k, l \in 1 .. Len(c)
  <2>1. k < l => k + 1 < l + 1
    BY <1>3, <1>5, <1>6
  <2> QED BY <1>5, <1>6, <1>7, <2>1
<1>10. lastRead' \in Byte \cup {<<0, 0>>} /\ Passed(lastRead[1])'
  <2>1. b[1] \in Byte /\ b[1][1] = current_packet.from
    BY <1>3, <1>6, <1>7
  <2> QED BY <1>1, <1>4, <1>6, <1>7, <2>1 DEF Passed, Past
<1>11. current_packet'.bytes # <<>> => Passed(current_packet.from)'
  BY <1>1, <1>5, <1>7 DEF Passed, Past
<1>12. Len(c) <= Cap
  BY <1>3, <1>5, <1>6, <1>7, Bounds
<1> HIDE DEF b
<1>13. current_packet' \in Packet
  BY <1>5
<1> QED BY <1>8, <1>9, <1>10, <1>11, <1>12, <1>13 DEF ReadInv, Before

LEMMA FlushRead == ReadInv /\ Flush => ReadInv'
<1> SUFFICES ASSUME ReadInv, Flush PROVE ReadInv'
  OBVIOUS
<1>1. UNCHANGED <<arrived, inbox, rx_packets, lastRead>>
  BY DEF Flush, receiving
<1>2. current_packet' \in Packet /\ current_packet'.bytes = <<>>
  BY Bounds DEF Flush, ReadInv, Packet
<1>3. Passed(lastRead[1]) => Passed(lastRead[1])'
  BY <1>1 DEF Passed, Past
<1> QED BY <1>1, <1>2, <1>3, NoneCurrent
-----------------------------------------------------------------------------
(* The sketch: sending *)

LEMMA BeginSend ==
  ASSUME SendInv, NEW ip \in Hosts \cup {0}, BeginPacket(ip)
  PROVE  SendInv'
<1>1. Nothing \in (Hosts \cup {0}) \X Seq(Nat)
  <2>1. <<>> \in Seq(Nat)
    OBVIOUS
  <2>2. PICK e \in Seq(Nat) : e = <<>>
    BY <2>1
  <2> QED BY <2>2 DEF Nothing
<1>2. <<>> \in Seq(Nat) /\ Len(<<>>) <= Cap
  BY Bounds
<1> QED BY <1>1, <1>2 DEF BeginPacket, SendInv, OneMeansSent

LEMMA WriteSend ==
  ASSUME SendInv, NEW n \in 1 .. MaxWrite, Write(n)
  PROVE  SendInv'
<1>0. txBuffer \in Seq(Nat) /\ accepted \in Seq(Nat) /\ txBuffer = accepted
      /\ Len(txBuffer) \in Nat /\ Len(txBuffer) <= Cap /\ n \in Nat
  BY Bounds DEF SendInv, Write
<1>1. PICK k \in Nat : k = Least(n, Cap - Len(txBuffer)) /\ Len(txBuffer) + k <= Cap
  <2>1. /\ Least(n, Cap - Len(txBuffer)) \in Nat
        /\ Len(txBuffer) + Least(n, Cap - Len(txBuffer)) <= Cap
    BY <1>0, Bounds DEF Least
  <2> QED BY <2>1
<1>2. PICK new \in Seq(Nat) : new = [i \in 1 .. k |-> Len(accepted) + i] /\ Len(new) = k
  <2> DEFINE c == [i \in 1 .. k |-> Len(accepted) + i]
  <2>1. c \in Seq(Nat) /\ Len(c) = k
    BY <1>0
  <2> QED BY <2>1
<1>3. txBuffer' = txBuffer \o new /\ accepted' = accepted \o new
  BY <1>1, <1>2 DEF Write
<1>4. txBuffer' \in Seq(Nat) /\ Len(txBuffer') <= Cap /\ accepted' = txBuffer'
  BY <1>0, <1>1, <1>2, <1>3
<1>5. UNCHANGED <<remote_ip, begun, ended, result, sent>> /\ ended = 0
  BY DEF Write
<1> QED BY <1>4, <1>5 DEF SendInv, OneMeansSent

LEMMA EndSend == SendInv /\ EndPacket => SendInv'
<1> SUFFICES ASSUME SendInv, EndPacket PROVE SendInv'
  OBVIOUS
<1>1. txBuffer' = <<>> /\ <<>> \in Seq(Nat) /\ Len(<<>>) <= Cap
      /\ ended' \in 1 .. 2 /\ UNCHANGED <<remote_ip, begun, accepted>>
      /\ (ended' = 1 => txBuffer = accepted)
  BY Bounds DEF EndPacket, SendInv
<1>2. /\ result' \in {0, 1} /\ sent' \in (Hosts \cup {0}) \X Seq(Nat)
      /\ result' = 1 /\ txBuffer # <<>> => sent' = <<remote_ip, txBuffer>>
  BY DEF EndPacket, SendInv
<1>3. OneMeansSent'
  BY <1>1, <1>2 DEF OneMeansSent
<1> QED BY <1>1, <1>2, <1>3 DEF SendInv

LEMMA SendKept == SendInv /\ UNCHANGED sending => SendInv'
BY DEF SendInv, sending, OneMeansSent
-----------------------------------------------------------------------------
LEMMA UdpInductive == UdpSpec => []UdpInv
<1>1. UdpInv /\ [UdpNext]_udpVars => UdpInv'
  <2> SUFFICES ASSUME RecvInv, ReadInv, SendInv, [UdpNext]_udpVars PROVE UdpInv'
    BY DEF UdpInv
  <2> USE DEF UdpInv
  <2>1. CASE Begin
    BY <2>1, BeginRecv, ReadKept, SendKept DEF Begin
  <2>2. CASE Stop
    <3>1. open' \in BOOLEAN /\ UNCHANGED receiving
      BY <2>2 DEF Stop
    <3>2. RecvInv' /\ \A d : Passed(d) => Passed(d)'
      BY <3>1, RecvKept
    <3> QED BY <2>2, <3>2, ReadKept, SendKept DEF Stop
  <2>3. CASE Arrive
    BY <2>3, ArriveRecv, ReadKept, SendKept DEF Arrive
  <2>4. CASE ReceiveCallback
    BY <2>4, CallbackRecv, ReadKept, SendKept DEF ReceiveCallback
  <2>5. CASE ParsePacket
    BY <2>5, ParsePacketRead, SendKept DEF ParsePacket
  <2>0. open \in BOOLEAN
    BY DEF RecvInv
  <2>6. CASE Read \/ Flush
    BY <2>0, <2>6, RecvKept, ReadRead, FlushRead, SendKept DEF Read, Flush
  <2>7. CASE \E h \in Hosts : BeginPacket(h) \/ BeginPacketHost(h)
    <3>1. PICK ip \in Hosts \cup {0} : BeginPacket(ip)
      BY <2>7 DEF BeginPacketHost
    <3> QED BY <2>0, <3>1, RecvKept, BeginSend, ReadKept DEF BeginPacket
  <2>8. CASE \E n \in 1 .. MaxWrite : Write(n)
    BY <2>0, <2>8, RecvKept, WriteSend, ReadKept DEF Write
  <2>9. CASE EndPacket
    BY <2>0, <2>9, RecvKept, EndSend, ReadKept DEF EndPacket
  <2>10. CASE UNCHANGED udpVars
    BY <2>0, <2>10, RecvKept, ReadKept, SendKept DEF udpVars, receiving, reading, sending
  <2> QED BY <2>1, <2>2, <2>3, <2>4, <2>5, <2>6, <2>7, <2>8, <2>9, <2>10 DEF UdpNext
<1> QED BY <1>1, UdpInitInv, PTL DEF UdpSpec, UdpInv-----------------------------------------------------------------------------
(* The types of WiFiUDP's state; no packet is longer than its buffer. *)
THEOREM UdpTypeCorrect == UdpSpec => []UdpTypeOK
<1>1. UdpInv => UdpTypeOK
  <2> SUFFICES ASSUME RecvInv, ReadInv, SendInv PROVE UdpTypeOK
    BY DEF UdpInv
  <2>1. rx_packets \in Seq(Packet) /\ DOMAIN rx_packets = 1 .. Len(rx_packets)
    BY DEF RecvInv
  <2>2. \A p \in Range(rx_packets) \cup {current_packet} : Len(p.bytes) <= Cap
    BY <2>1 DEF Range, RecvInv, ReadInv
  <2>3. events \in 0 .. MaxDatagrams
    BY Bounds DEF RecvInv
  <2>4. rx_buf \in Seq(Byte)
    BY Bounds DEF RecvInv
  <2> QED
    BY <2>1, <2>2, <2>3, <2>4 DEF UdpTypeOK, RecvInv, ReadInv, SendInv, Datagram
<1> QED BY <1>1, UdpInductive, PTL

(* A packet holds the beginning of one datagram and names its sender,      *)
(* whatever the lengths and the failures of recvfrom.  WiFiUdp.cpp:166-183. *)
THEOREM PacketsAreDatagrams == UdpSpec => []PacketIsDatagram
<1>1. UdpInv => PacketIsDatagram
  <2> SUFFICES ASSUME RecvInv PROVE PacketIsDatagram
    BY DEF UdpInv
  <2> SUFFICES ASSUME NEW p \in Range(rx_packets), NEW k \in DOMAIN p.bytes
               PROVE  p.bytes[k] = <<p.from, k>>
    BY DEF PacketIsDatagram
  <2>1. PICK i \in 1 .. Len(rx_packets) : p = rx_packets[i]
    BY DEF Range, RecvInv
  <2>2. k \in 1 .. Len(p.bytes)
    <3>1. p.bytes \in Seq(Byte)
      BY <2>1, QueueParts, PacketParts
    <3> QED BY <3>1
  <2>3. \A m \in 1 .. Len(rx_packets[i].bytes) :
          rx_packets[i].bytes[m] = <<rx_packets[i].from, m>>
    BY DEF RecvInv
  <2> QED BY <2>1, <2>2, <2>3
<1> QED BY <1>1, UdpInductive, PTL

(* The sketch reads bytes in the order they were sent to it, none twice.   *)
(* WiFiUdp.cpp:107-155.                                                    *)
THEOREM ReadsAreInOrder == UdpSpec => []ReadInOrder
<1>1. UdpInv => ReadInOrder
  <2> SUFFICES ASSUME RecvInv, ReadInv PROVE ReadInOrder
    BY DEF UdpInv
  <2> DEFINE unread == <<current_packet>> \o rx_packets
  <2>1. rx_packets \in Seq(Packet) /\ Len(rx_packets) \in Nat /\ current_packet \in Packet
    BY DEF RecvInv, ReadInv
  <2>2. /\ DOMAIN unread = 1 .. Len(rx_packets) + 1 /\ unread[1] = current_packet
        /\ \A i \in 2 .. Len(rx_packets) + 1 :
             i - 1 \in 1 .. Len(rx_packets) /\ unread[i] = rx_packets[i - 1]
    BY <2>1
  <2> HIDE DEF unread
  <2>3. \A i \in DOMAIN unread : i = 1 \/ i \in 2 .. Len(rx_packets) + 1
    BY <2>1, <2>2
  <2>4. ASSUME NEW i \in DOMAIN unread
        PROVE  /\ unread[i].bytes \in Seq(Byte)
               /\ \A k \in 1 .. Len(unread[i].bytes) :
                    /\ unread[i].bytes[k][1] = unread[i].from
                    /\ Before(lastRead, unread[i].bytes[k])
               /\ \A k, l \in 1 .. Len(unread[i].bytes) :
                    k < l => unread[i].bytes[k][2] < unread[i].bytes[l][2]
    <3>1. CASE i = 1
      BY <2>2, <3>1, CurrentParts DEF ReadInv
    <3>2. CASE i # 1
      <4>1. PICK m \in 1 .. Len(rx_packets) : unread[i] = rx_packets[m]
        BY <2>2, <2>3, <3>2
      <4>2. PICK q \in Packet : q = rx_packets[m] /\ q.bytes \in Seq(Byte) /\ q.from \in Nat
        BY QueueParts, PacketParts
      <4>3. \A k \in 1 .. Len(q.bytes) : q.bytes[k] = <<q.from, k>> /\ lastRead[1] < q.from
        <5>1. q.bytes # <<>> => lastRead[1] < q.from
          BY <4>2 DEF ReadInv, Passed
        <5>2. q.bytes = <<>> => 1 .. Len(q.bytes) = {}
          OBVIOUS
        <5> QED BY <4>2, <5>1, <5>2 DEF RecvInv
      <4> QED BY <4>1, <4>2, <4>3 DEF Before
    <3> QED BY <3>1, <3>2
  <2>5. ASSUME NEW i \in DOMAIN unread, NEW j \in DOMAIN unread, i < j,
               unread[i].bytes # <<>>, unread[j].bytes # <<>>
        PROVE  unread[i].from < unread[j].from
    <3>1. PICK n \in 1 .. Len(rx_packets) : n = j - 1 /\ unread[j] = rx_packets[n]
      BY <2>1, <2>2, <2>3, <2>5
    <3>2. CASE i = 1
      BY <2>2, <2>5, <3>1, <3>2 DEF ReadInv, Passed
    <3>3. CASE i # 1
      <4>1. PICK m \in 1 .. Len(rx_packets) : m = i - 1 /\ unread[i] = rx_packets[m]
        BY <2>2, <2>3, <3>3
      <4>2. m < n
        BY <2>1, <2>2, <2>5, <3>1, <4>1
      <4> QED BY <2>5, <3>1, <4>1, <4>2 DEF RecvInv
    <3> QED BY <3>2, <3>3
  <2>6. ASSUME NEW i \in DOMAIN unread, NEW j \in DOMAIN unread,
               NEW k \in DOMAIN unread[i].bytes, NEW l \in DOMAIN unread[j].bytes
        PROVE  /\ Before(lastRead, unread[i].bytes[k])
               /\ Before(<<i, k>>, <<j, l>>) =>
                    Before(unread[i].bytes[k], unread[j].bytes[l])
    <3>1. /\ k \in 1 .. Len(unread[i].bytes) /\ unread[i].bytes # <<>>
          /\ l \in 1 .. Len(unread[j].bytes) /\ unread[j].bytes # <<>>
      BY <2>4
    <3>2. CASE i < j
      BY <2>4, <2>5, <3>1, <3>2 DEF Before
    <3>3. CASE i = j /\ k < l
      BY <2>4, <3>1, <3>3 DEF Before
    <3> QED BY <2>4, <3>1, <3>2, <3>3 DEF Before
  <2> QED BY <2>6 DEF ReadInOrder, unread
<1> QED BY <1>1, UdpInductive, PTL

(* The first endPacket() of a packet that returns 1 has sent what write()  *)
(* took to where beginPacket said.  WiFiUdp.cpp:57-105.                    *)
THEOREM OneIsSent == UdpSpec => []OneMeansSent
<1>1. UdpInv => OneMeansSent
  BY DEF UdpInv, SendInv
<1> QED BY <1>1, UdpInductive, PTL
=============================================================================
