---------------------------- MODULE MCWiFiClass ----------------------------
(* WiFiClass with an array of two results; the bounds are set in the cfg.  *)
EXTENDS WiFiClass
=============================================================================
