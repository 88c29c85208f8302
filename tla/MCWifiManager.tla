---------------------------- MODULE MCWifiManager ----------------------------
(* WifiManager for TLC, with what the documentation says of the same code. *)
EXTENDS WifiManager

(* NeverOfflineForever: "a supervisor that guarantees the device never     *)
(* stays offline indefinitely" (wifi_manager.c:2).  With router and broker *)
(* back for good, and settings complete from the start, it is on line      *)
(* again and again.  (StrandedReboots is about the setup AP.)              *)
NeverOfflineForever ==
  <>[](net = "ok" /\ clients = 0 /\ ~sup.fed /\ ~apMode) /\ [](g_config.ssid /\ g_config.url)
    => []<>Online

(* StrandedReboots: "Stranded in AP mode with credentials stored [...]     *)
(* Reboot to retry STA" (wifi_manager.c:202): it does not stay so for good *)
(* while nobody is attached.                                               *)
StrandedReboots == ~<>[](apMode /\ g_config.ssid /\ clients = 0)
=============================================================================
