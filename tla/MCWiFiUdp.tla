----------------------------- MODULE MCWiFiUdp -----------------------------
(* WiFiUdp with packets of two bytes; the bounds are set in the cfgs.      *)
EXTENDS WiFiUdp
=============================================================================
