----------------------------- MODULE WiFiClass -----------------------------
(***************************************************************************)
(* class WiFiClass (libraries/WiFi/src/WiFi.cpp): the station and access   *)
(* point state machine over the WiFi connection manager (WCM), and the     *)
(* network scan, whose results arrive in callbacks of the WCM's task.      *)
(*                                                                         *)
(* The status is its integer value: the enumeration gives UNINITED,        *)
(* INITED, STA_DISCONNECTED and AP_DISCONNECTED the same one, which the    *)
(* code tests for all of them (WiFi.h:32-39).                              *)
(***************************************************************************)
EXTENDS Integers

CONSTANTS MaxResults,   \* CY_MAX_SCAN_RESULTS
          Timeout,      \* 1000 rounds of 10 ms in scanNetworks
          Wrap,         \* 2^16: the range of the timer of scanNetworks
          MaxReports,   \* bound: networks the WCM reports, all scans together
          Timeouts,     \* milliseconds: the default, and what setTimeout is given
          Names,        \* names of access points
          Addresses,    \* addresses given to config
          NONE          \* no name or address yet

ASSUME WiFiClassAssumption ==
  /\ MaxResults \in Nat /\ Timeout \in Nat /\ MaxReports \in Nat
  /\ Wrap \in Nat /\ Timeout < Wrap
  /\ Timeouts \subseteq Nat /\ Timeouts # {}

VARIABLES status,      \* _status
          mode,        \* _mode
          error,       \* _last_error
          scanStatus,  \* scan_results.status
          count,       \* scan_results.result_count
          timeoutMs,   \* timeout_ms
          ipSettings,  \* ip_settings, NONE while user_static_ip_settings is false
          apConf,      \* ap_conf: the name and the address in it
          pc,          \* "connect", "scan": in the loop of begin, scanNetworks
          elapsed,     \* millis() - start_time in begin
          uninited,    \* scanNetworks' local variable
          timer,       \* scanNetworks' local variable
          wcmUp,       \* the WCM: initialised
          joined,      \* the WCM: station connected by us to an access point
          serving,     \* the WCM: access point started by us
          served,      \* the WCM: what it was asked to serve
          scanning,    \* the WCM: reporting to wcm_scan_cb
          reports      \* networks reported so far

vars == <<status, mode, error, scanStatus, count, timeoutMs, ipSettings, apConf,
          pc, elapsed, uninited, timer, wcmUp, joined, serving, served,
          scanning, reports>>

scan == <<scanStatus, count, scanning, reports>>
loopVars == <<pc, uninited, timer>>
settings == <<timeoutMs, ipSettings, apConf, served, elapsed>>
radio == <<wcmUp, joined, serving>>

UNINITED == 0          \* = INITED = STA_DISCONNECTED = AP_DISCONNECTED
STA_CONNECTED == 3
AP_CONNECTED == 7

Error == {"NONE", "INIT_FAILED", "SCAN_FAILED", "STA_CONNECT_FAILED",
          "AP_LISTENING_FAILED", "STA_DISCONNECT_FAILED",
          "AP_DISCONNECT_FAILED", "STA_AP_MODE_INCOMPATIBLE",
          "STATUS_INVALID", "DEINIT_FAILED", "READ_WRITE_CONFIG_FAILED",
          "PING_FAILED"}

Init ==
  /\ status = UNINITED /\ mode = "UNKNOWN" /\ error = "NONE"
  /\ scanStatus = "INCOMPLETE" /\ count = 0
  /\ timeoutMs \in Timeouts /\ ipSettings = NONE /\ apConf = <<NONE, NONE>>
  /\ pc = "idle" /\ elapsed = 0 /\ uninited = FALSE /\ timer = 0
  /\ wcmUp = FALSE /\ joined = FALSE /\ serving = FALSE
  /\ served = apConf /\ scanning = FALSE /\ reports = 0

Idle == pc = "idle" /\ UNCHANGED <<uninited, timer>>

\* setTimeout and config, which the sketch may call at any time of its own.
SetTimeout ==
  /\ Idle /\ timeoutMs' \in Timeouts
  /\ UNCHANGED <<ipSettings, apConf, served, elapsed, pc, status, mode, error, radio, scan>>

Config ==
  /\ Idle /\ ipSettings' \in Addresses
  /\ UNCHANGED <<timeoutMs, apConf, served, elapsed, pc, status, mode, error, radio, scan>>

\* A call that fails with e: nothing changes but the error.
Fails(e) ==
  /\ error' = e
  /\ UNCHANGED <<status, pc, joined, serving>>

\* wcm_init(m): with the status at zero cy_wcm_init is called, whether the
\* WCM is up or not (the WCM may accept or refuse a second call).
InitSucceeds(m) ==
  IF status = UNINITED THEN wcmUp' = TRUE /\ mode' = m
                       ELSE UNCHANGED <<wcmUp, mode>>
InitFails ==
  status = UNINITED /\ Fails("INIT_FAILED") /\ UNCHANGED <<wcmUp, mode>>
-----------------------------------------------------------------------------
(* begin(ssid, ...): initialise, check the mode, and unless connected try  *)
(* to connect until it succeeds or the time is over.                       *)
BeginSTA ==
  /\ Idle
  /\ \/ InitFails /\ UNCHANGED settings
     \/ /\ InitSucceeds("STA")
        /\ \/ /\ mode' # "STA" /\ Fails("STA_AP_MODE_INCOMPATIBLE")
              /\ UNCHANGED settings
           \/ /\ mode' = "STA" /\ error' = "NONE"
              /\ IF status = UNINITED
                   THEN /\ pc' = "connect" /\ elapsed' = 0
                        /\ UNCHANGED <<timeoutMs, ipSettings, apConf, served>>
                   ELSE UNCHANGED <<pc, settings>>
              /\ UNCHANGED <<status, joined, serving>>
  /\ UNCHANGED scan

\* Mutant of ConnectTry: the start time is read again in every round.
ConnectTryRestarts ==
  /\ pc = "connect" /\ elapsed < timeoutMs
  /\ \/ elapsed' = (IF elapsed = 0 THEN 1 ELSE 0) /\ UNCHANGED <<pc, status, joined>>
     \/ pc' = "idle" /\ status' = STA_CONNECTED /\ joined' = TRUE /\ UNCHANGED elapsed
  /\ UNCHANGED <<timeoutMs, ipSettings, apConf, served, error, mode, uninited,
                 timer, wcmUp, serving, scan>>

\* One round: an attempt that fails takes time, beyond the timeout also when
\* millis() wraps meanwhile; one that succeeds ends the loop.
ConnectTry ==
  /\ pc = "connect" /\ elapsed < timeoutMs
  /\ \/ elapsed' \in elapsed + 1 .. timeoutMs /\ UNCHANGED <<pc, status, joined>>
     \/ pc' = "idle" /\ status' = STA_CONNECTED /\ joined' = TRUE /\ UNCHANGED elapsed
  /\ UNCHANGED <<timeoutMs, ipSettings, apConf, served, error, mode, uninited,
                 timer, wcmUp, serving, scan>>

ConnectGiveUp ==
  /\ pc = "connect" /\ elapsed >= timeoutMs
  /\ pc' = "idle" /\ error' = "STA_CONNECT_FAILED"
  /\ UNCHANGED <<status, mode, uninited, timer, radio, scan, settings>>

\* Mutant of BeginAP: the parameters are set before the status is looked at.
BeginAPSetsFirst(n) ==
  /\ Idle
  /\ \/ InitFails /\ UNCHANGED settings
     \/ /\ InitSucceeds("AP")
        /\ apConf' = <<n, ipSettings>>
        /\ mode' = "AP" /\ error' = "NONE"
        /\ status' = AP_CONNECTED /\ serving' = TRUE
        /\ served' = IF status = UNINITED THEN apConf' ELSE served
        /\ UNCHANGED <<pc, joined, timeoutMs, ipSettings, elapsed>>
  /\ UNCHANGED scan

(* beginAP(ssid, ...), with the default address unless config was called.  *)
BeginAP(n) ==
  /\ Idle
  /\ \/ InitFails /\ UNCHANGED settings
     \/ /\ InitSucceeds("AP")
        /\ UNCHANGED <<timeoutMs, ipSettings, elapsed>>
        /\ \/ /\ mode' # "AP" /\ Fails("STA_AP_MODE_INCOMPATIBLE")
              /\ UNCHANGED <<apConf, served>>
           \/ /\ mode' = "AP" /\ status = UNINITED
              /\ apConf' = <<n, ipSettings>>
              /\ \/ Fails("AP_LISTENING_FAILED") /\ UNCHANGED served
                 \/ /\ served' = apConf' /\ serving' = TRUE
                    /\ status' = AP_CONNECTED /\ error' = "NONE"
                    /\ UNCHANGED <<pc, joined>>
           \/ /\ mode' = "AP" /\ status # UNINITED /\ error' = "NONE"
              /\ UNCHANGED <<status, pc, joined, serving, apConf, served>>
  /\ UNCHANGED scan

\* Mutant of DisconnectSTA: the status is set before the result is checked.
DisconnectSTAEarly ==
  /\ Idle /\ mode = "STA"
  /\ status = STA_CONNECTED
  /\ status' = UNINITED
  /\ joined' \in {FALSE, joined}
  /\ error' = IF joined' THEN "STA_DISCONNECT_FAILED" ELSE error
  /\ UNCHANGED <<pc, serving, wcmUp, mode, scan, settings>>

(* disconnect() dispatches on the mode; in any other state it only returns *)
(* an error, without recording it.                                         *)
DisconnectSTA ==
  /\ Idle /\ mode = "STA"
  /\ status = STA_CONNECTED
  /\ \/ Fails("STA_DISCONNECT_FAILED")
     \/ /\ joined' = FALSE /\ status' = UNINITED
        /\ UNCHANGED <<error, pc, serving>>
  /\ UNCHANGED <<wcmUp, mode, scan, settings>>

DisconnectAP ==
  /\ Idle /\ mode = "AP"
  /\ status = AP_CONNECTED
  /\ \/ Fails("AP_DISCONNECT_FAILED")
     \/ /\ serving' = FALSE /\ status' = UNINITED
        /\ UNCHANGED <<error, pc, joined>>
  /\ UNCHANGED <<wcmUp, mode, scan, settings>>

\* cy_wcm_deinit takes every connection down; _mode is left as it is.
Deinit ==
  \/ /\ wcmUp' = FALSE /\ joined' = FALSE /\ serving' = FALSE
     /\ scanning' = FALSE
     /\ status' = UNINITED
     /\ UNCHANGED error
  \/ /\ error' = "DEINIT_FAILED"
     /\ UNCHANGED <<wcmUp, joined, serving, scanning, status>>

End ==
  /\ Idle
  /\ Deinit
  /\ UNCHANGED <<mode, pc, scanStatus, count, reports, settings>>

\* The queries change nothing unless they fail, and then only the error.
QueryFails(e) ==
  Idle /\ Fails(e) /\ UNCHANGED <<mode, wcmUp, scan, settings>>

(* macAddress asks the WCM in any state; localIP, subnetMask and gatewayIP *)
(* refuse on the status.                                                   *)
MacAddress == QueryFails("READ_WRITE_CONFIG_FAILED")

IPSettings ==
  QueryFails(IF status = UNINITED THEN "STATUS_INVALID"
                                  ELSE "READ_WRITE_CONFIG_FAILED")

(* The queries about the network dispatch on the mode.  In access point    *)
(* mode SSID and encryptionType cannot fail and RSSI does not apply.       *)
SSID ==
  /\ mode # "AP"
  /\ QueryFails(IF mode = "STA" THEN "READ_WRITE_CONFIG_FAILED"
                                ELSE "STATUS_INVALID")

BSSID ==
  QueryFails(IF mode \in {"STA", "AP"} THEN "READ_WRITE_CONFIG_FAILED"
                                       ELSE "STA_AP_MODE_INCOMPATIBLE")

RSSI ==
  QueryFails(CASE mode = "STA" -> "READ_WRITE_CONFIG_FAILED"
               [] mode = "AP"  -> "STA_AP_MODE_INCOMPATIBLE"
               [] OTHER        -> "STATUS_INVALID")

EncryptionType ==
  /\ mode # "AP"
  /\ QueryFails(IF mode = "STA" THEN "READ_WRITE_CONFIG_FAILED"
                                ELSE "STA_AP_MODE_INCOMPATIBLE")

Ping ==
  QueryFails(IF status = UNINITED THEN "STATUS_INVALID" ELSE "PING_FAILED")
-----------------------------------------------------------------------------
(* scanNetworks(): initialise if the status is zero, start, wait, and end  *)
(* what was initialised.                                                   *)
ScanStart ==
  /\ pc = "idle"
  /\ \/ InitFails /\ UNCHANGED <<loopVars, scan>>
     \/ /\ InitSucceeds("AP_STA")
        /\ \/ /\ Fails("SCAN_FAILED")
              /\ UNCHANGED <<uninited, timer, scan>>
           \/ /\ uninited' = (status = UNINITED)
              /\ error' = IF status = UNINITED THEN "NONE" ELSE error
              /\ scanning' = TRUE
              /\ pc' = "scan" /\ timer' = 0
              /\ UNCHANGED <<status, joined, serving, scanStatus, count, reports>>
  /\ UNCHANGED settings

\* One round of the loop: goes on while incomplete OR within the timeout.
ScanRound ==
  /\ pc = "scan"
  /\ scanStatus = "INCOMPLETE" \/ timer < Timeout
  /\ timer' = (timer + 1) % Wrap
  /\ UNCHANGED <<status, mode, error, pc, uninited, radio, scan, settings>>

\* Mutant of ScanReturn: it does not ask whether it has initialised the WCM.
ScanReturnEnds ==
  /\ pc = "scan"
  /\ ~(scanStatus = "INCOMPLETE" \/ timer < Timeout)
  /\ pc' = "idle"
  /\ Deinit
  /\ UNCHANGED <<mode, uninited, timer, scanStatus, count, reports, settings>>

ScanReturn ==
  /\ pc = "scan"
  /\ ~(scanStatus = "INCOMPLETE" \/ timer < Timeout)
  /\ pc' = "idle"
  /\ IF uninited THEN Deinit
                 ELSE UNCHANGED <<wcmUp, joined, serving, scanning, status, error>>
  /\ UNCHANGED <<mode, uninited, timer, scanStatus, count, reports, settings>>

(* wcm_scan_cb: once per network with st = INCOMPLETE, then COMPLETE.      *)
ScanReport(st) ==
  /\ scanning
  /\ st = "INCOMPLETE" => reports < MaxReports
  /\ reports' = IF st = "INCOMPLETE" THEN reports + 1 ELSE reports
  /\ IF count > MaxResults
       THEN scanStatus' = "COMPLETE" /\ scanning' = FALSE /\ UNCHANGED count
       ELSE /\ count' = IF st = "INCOMPLETE" THEN count + 1 ELSE count
            /\ scanStatus' = st
            /\ scanning' = (st = "INCOMPLETE")
  /\ UNCHANGED <<status, mode, error, loopVars, radio, settings>>

Next ==
  \/ SetTimeout \/ Config
  \/ BeginSTA \/ ConnectTry \/ ConnectGiveUp
  \/ \E n \in Names : BeginAP(n)
  \/ DisconnectSTA \/ DisconnectAP \/ End
  \/ MacAddress \/ IPSettings \/ SSID \/ BSSID \/ RSSI \/ EncryptionType \/ Ping
  \/ ScanStart \/ ScanRound \/ ScanReturn
  \/ \E st \in {"INCOMPLETE", "COMPLETE"} : ScanReport(st)

Spec == Init /\ [][Next]_vars

\* The scheduler runs the loops of begin and scanNetworks, and the WCM
\* finishes a scan it has started.
FairSpec ==
  /\ Spec
  /\ WF_vars(ConnectTry) /\ WF_vars(ConnectGiveUp)
  /\ WF_vars(ScanRound) /\ WF_vars(ScanReturn) /\ WF_vars(ScanReport("COMPLETE"))
-----------------------------------------------------------------------------
TypeOK ==
  /\ status \in {UNINITED, STA_CONNECTED, AP_CONNECTED}
  /\ mode \in {"UNKNOWN", "STA", "AP", "AP_STA"}
  /\ error \in Error
  /\ scanStatus \in {"INCOMPLETE", "COMPLETE"} /\ count \in 0 .. MaxResults + 1
  /\ timeoutMs \in Timeouts /\ ipSettings \in Addresses \cup {NONE}
  /\ apConf \in (Names \cup {NONE}) \X (Addresses \cup {NONE})
  /\ served \in (Names \cup {NONE}) \X (Addresses \cup {NONE})
  /\ elapsed \in 0 .. timeoutMs \/ pc # "connect"
  /\ pc \in {"idle", "connect", "scan"} /\ uninited \in BOOLEAN /\ timer \in 0 .. Wrap - 1
  /\ wcmUp \in BOOLEAN /\ joined \in BOOLEAN /\ serving \in BOOLEAN
  /\ scanning \in BOOLEAN /\ reports \in 0 .. MaxReports

(* The status tells what the radio was last made to do, in the mode that   *)
(* disconnect() needs to undo it, whatever calls failed in between and     *)
(* although four statuses share one value.  WiFi.cpp:45-93, 110-131,       *)
(* 297-327, 429-469.                                                       *)
StatusTrue ==
  /\ joined <=> status = STA_CONNECTED
  /\ serving <=> status = AP_CONNECTED
  /\ joined => mode = "STA" /\ wcmUp
  /\ serving => mode = "AP" /\ wcmUp

(* While the access point runs, ap_conf, which SSID() and encryptionType()  *)
(* answer from, says what it was started with, whatever beginAP and config *)
(* calls come later or fail.  WiFi.cpp:110-131, 486-519, 534-536.          *)
ServedIsTold == serving => served = apConf

(* scanNetworks() takes nothing down that begin() or beginAP() brought up, *)
(* neither where it starts, nor while it waits, nor where it ends:         *)
(* "Deinitialize if it was not already assigned as access point or         *)
(* station" (WiFi.cpp:320-321), which it asks of a status that four        *)
(* states share, before its wait.  WiFi.cpp:297-327, 429-447.              *)
ScanKeeps == [][pc = "scan" \/ pc' = "scan" => UNCHANGED <<joined, serving>>]_vars

(* begin() returns, connected or not, whatever timeout was set, and        *)
(* scanNetworks() does if the WCM completes its scans: the loop of one     *)
(* goes on while both its conditions hold, that of the other while one     *)
(* does.  WiFi.cpp:61-67, 310-318.                                         *)
CallsReturn == pc # "idle" ~> pc = "idle"
=============================================================================
