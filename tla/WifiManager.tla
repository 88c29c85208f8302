----------------------------- MODULE WifiManager -----------------------------
(***************************************************************************)
(* Joining the network at boot, falling back to the setup AP, and the      *)
(* supervisor that is to bring the device back from every outage.          *)
(*                                                                         *)
(*   components/wifi_manager/wifi_manager.c   all of it that changes state *)
(*   main/app_main.c                    the MQTT start, status_task's feed *)
(*                                                                         *)
(* Four tasks: the main task inside wifi_manager_start, the event task     *)
(* that runs wifi_event_handler, the supervisor and status_task.  The      *)
(* driver posts events to a queue; a handler runs later than the change it *)
(* reports.  Driver, router, broker and the people at the setup page are   *)
(* external.                                                               *)
(*                                                                         *)
(* Time passes in supervisor periods (10 s).  A period ends only when the  *)
(* supervisor and status_task have had their turn in it, every event has   *)
(* been handled, and an MQTT client that can connect (it tries every 5 s)  *)
(* has.  One tick of the RTOS is far shorter than a period: SupSubtract    *)
(* says where it matters.  The 0.8 s that reboot_task leaves a response    *)
(* are not modelled.  Counters and windows are constants, so that they can *)
(* be small.                                                               *)
(***************************************************************************)
EXTENDS Naturals, Sequences

CONSTANTS
  Ssids, Urls,   \* initially: may g_config.wifi_ssid, mqtt_url be set, be empty
  MaxRetries,    \* STA_MAX_RETRIES, 10 in the code
  StaTimeout,    \* STA_TIMEOUT_S in periods, 3 in the code
  KickEvery,     \* RECONNECT_EVERY_S in periods, 3 in the code
  RebootAfter,   \* REBOOT_AFTER_S in periods, 60 in the code
  StrandedAfter, \* AP_STRANDED_REBOOT_S in periods, 60 in the code
  Windows,       \* values of healthy_window_s in periods: pub_interval + 15 s
  MaxTrouble,    \* bound of the model: troubles of network and clients
  StaleCap       \* bound of the model: staleness is not counted beyond

ASSUME WifiAssumption ==
  /\ Ssids \subseteq BOOLEAN /\ Urls \subseteq BOOLEAN
  /\ MaxRetries \in Nat /\ Windows \subseteq Nat \ {0} /\ MaxTrouble \in Nat
  /\ StaTimeout \in Nat \ {0} /\ KickEvery \in Nat \ {0}
  /\ RebootAfter \in Nat \ {0} /\ StrandedAfter \in Nat \ {0}
  /\ StaleCap \in Nat /\ StaleCap > RebootAfter /\ StaleCap >= StrandedAfter
  /\ \A w \in Windows : StaleCap > w + KickEvery

VARIABLES
  main,        \* the main task: where it is, periods waited, whether it fell back
  bits,        \* the event group
  connected, apMode, provisioned, retry, apClients,  \* s_... of the same names
  stale,       \* periods since s_last_alive
  sup,         \* the supervisor: where it is, its turn, since_kick, stranded
  statusDue,   \* status_task has not had its turn in this period
  mqtt,        \* MQTT client: "none" until mqtt_manager_init, "off", "on"
  sta,         \* driver: "off", "idle", "trying", "up", "zombie"
  apUp,        \* driver: the setup AP is on the air
  clients,     \* stations on the setup AP
  events,      \* posted by the driver, not handled yet
  g_config,    \* the settings that matter here: are SSID and broker URL set,
               \* and the window that follows from pub_interval
  net,         \* "ok", "nobroker", "norouter"
  trouble,     \* troubles left
  (* History. *)
  late,        \* since boot an address arrived after the main task fell back
  good,        \* periods in a row in which status_task found MQTT connected
  stayed,      \* somebody has been on the setup AP since the period began
  quiet,       \* periods of the AP in a row through which nobody stayed
  cause        \* why the supervisor last rebooted, what was so then

flags   == <<connected, apMode, provisioned, retry, apClients>>
driver  == <<sta, apUp, clients, events>>
outside == <<g_config, net, trouble>>
history == <<late, good, stayed, quiet, cause>>
vars    == <<main, bits, flags, stale, sup, statusDue, mqtt, driver, outside, history>>

NoCause == [why |-> "none", good |-> 0, quiet |-> 0, attended |-> FALSE,
            fed |-> FALSE]
Starting == [pc |-> "start", waited |-> 0, fell |-> FALSE]
Cap(n)  == IF n > StaleCap THEN StaleCap ELSE n

Boot ==
  /\ main' = Starting /\ bits' = {}
  /\ connected' = FALSE /\ apMode' = FALSE /\ provisioned' = FALSE
  /\ retry' = 0 /\ apClients' = 0
  /\ stale' = 0 /\ mqtt' = "none"
  /\ sup' = [pc |-> "sleep", due |-> FALSE, fed |-> FALSE, kick |-> 0, stranded |-> 0]
  /\ statusDue' = FALSE
  /\ sta' = "off" /\ apUp' = FALSE /\ clients' = 0 /\ events' = <<>>
  /\ late' = FALSE /\ good' = 0 /\ stayed' = FALSE /\ quiet' = 0

Init ==
  /\ main = Starting /\ bits = {}
  /\ connected = FALSE /\ apMode = FALSE /\ provisioned = FALSE
  /\ retry = 0 /\ apClients = 0
  /\ stale = 0 /\ mqtt = "none"
  /\ sup = [pc |-> "sleep", due |-> FALSE, fed |-> FALSE, kick |-> 0, stranded |-> 0]
  /\ statusDue = FALSE
  /\ sta = "off" /\ apUp = FALSE /\ clients = 0 /\ events = <<>>
  /\ late = FALSE /\ good = 0 /\ stayed = FALSE /\ quiet = 0
  /\ g_config \in [ssid : Ssids, url : Urls, window : Windows]
  /\ net = "ok" /\ trouble = MaxTrouble /\ cause = NoCause

-----------------------------------------------------------------------------
(* The driver's calls *)

Post(e) == events' = Append(events, e)

(* esp_wifi_connect does nothing while connecting or connected. *)
StaConnect == sta' = IF sta = "idle" THEN "trying" ELSE sta

(* A bug in wifi_manager_notify_alive: only the first contact counts.      *)
NotifyAliveOnce ==
  /\ stale' = IF good > 0 THEN stale ELSE 0
  /\ sup' = [sup EXCEPT !.fed = (sup.pc = "read")]

(* wifi_manager_notify_alive.  The supervisor may be between its two reads. *)
NotifyAlive ==
  /\ stale' = 0
  /\ sup' = [sup EXCEPT !.fed = (sup.pc = "read")]

-----------------------------------------------------------------------------
(* wifi_manager_start and the rest of app_main, in the main task *)

StartAp ==
  /\ apUp' = TRUE
  /\ Post("ap_start")

(* No SSID: straight to the AP.  Otherwise start_sta. *)
MainStart ==
  /\ main.pc = "start"
  /\ IF g_config.ssid
     THEN /\ main' = [main EXCEPT !.pc = "wait"]
          /\ sta' = "idle" /\ Post("sta_start") /\ UNCHANGED apUp
     ELSE /\ main' = [main EXCEPT !.pc = "app"]
          /\ StartAp /\ UNCHANGED sta
  /\ retry' = 0 /\ bits' = {}
  /\ UNCHANGED <<connected, apMode, provisioned, apClients, stale, sup, statusDue,
                 mqtt, clients, outside, history>>

(* xEventGroupWaitBits returns: a bit is set, or the time is up. *)
MainWait ==
  /\ main.pc = "wait"
  /\ bits # {} \/ main.waited >= StaTimeout
  /\ main' = IF "connected" \in bits
             THEN [pc |-> "app", waited |-> 0, fell |-> FALSE]
             ELSE [pc |-> "stop", waited |-> 0, fell |-> TRUE]
  /\ UNCHANGED <<bits, flags, stale, sup, statusDue, mqtt, driver, outside, history>>

(* esp_wifi_stop ends an association; then half a second's delay. *)
MainStop ==
  /\ main.pc = "stop"
  /\ main' = [main EXCEPT !.pc = "ap"]
  /\ IF sta \in {"up", "zombie"} THEN Post("disconnected") ELSE UNCHANGED events
  /\ sta' = "off"
  /\ UNCHANGED <<bits, flags, stale, sup, statusDue, mqtt, apUp, clients, outside,
                 history>>

MainAp ==
  /\ main.pc = "ap"
  /\ main' = [main EXCEPT !.pc = "app"]
  /\ StartAp
  /\ UNCHANGED <<bits, flags, stale, sup, statusDue, mqtt, sta, clients, outside,
                 history>>

(* app_main: status_task starts; MQTT only if the link is up right now. *)
MainApp ==
  /\ main.pc = "app"
  /\ main' = [main EXCEPT !.pc = "run"]
  /\ statusDue' = TRUE
  /\ mqtt' = IF connected /\ g_config.url THEN "off" ELSE "none"
  /\ UNCHANGED <<bits, flags, stale, sup, driver, outside, history>>

-----------------------------------------------------------------------------
(* wifi_event_handler, in the event task *)

Handle(e) ==
  /\ events # <<>> /\ Head(events) = e
  /\ events' = Tail(events)

HandleStaStart ==
  /\ Handle("sta_start")
  /\ StaConnect
  /\ UNCHANGED <<main, bits, flags, stale, sup, statusDue, mqtt, apUp, clients,
                 outside, history>>

(* A bug in the handler: the flag falls only when the retries are used up. *)
HandleDisconnectedLate ==
  /\ Handle("disconnected")
  /\ IF retry < MaxRetries
     THEN retry' = retry + 1 /\ StaConnect /\ UNCHANGED <<bits, connected>>
     ELSE /\ bits' = IF provisioned THEN bits ELSE bits \cup {"fail"}
          /\ connected' = FALSE
          /\ UNCHANGED <<retry, sta>>
  /\ UNCHANGED <<main, apMode, provisioned, apClients, stale, sup, statusDue, mqtt,
                 apUp, clients, outside, history>>

(* A bug in the handler: the fast retries never end. *)
HandleDisconnectedEndless ==
  /\ Handle("disconnected")
  /\ connected' = FALSE
  /\ retry' = retry + 1 /\ StaConnect
  /\ UNCHANGED <<main, bits, apMode, provisioned, apClients, stale, sup, statusDue,
                 mqtt, apUp, clients, outside, history>>

(* Fast retries first; then the AP if never connected, else the supervisor. *)
HandleDisconnected ==
  /\ Handle("disconnected")
  /\ connected' = FALSE
  /\ IF retry < MaxRetries
     THEN retry' = retry + 1 /\ StaConnect /\ UNCHANGED bits
     ELSE /\ bits' = IF provisioned THEN bits ELSE bits \cup {"fail"}
          /\ UNCHANGED <<retry, sta>>
  /\ UNCHANGED <<main, apMode, provisioned, apClients, stale, sup, statusDue, mqtt,
                 apUp, clients, outside, history>>

HandleGotIp ==
  /\ Handle("got_ip")
  /\ retry' = 0 /\ connected' = TRUE /\ apMode' = FALSE /\ provisioned' = TRUE
  /\ NotifyAlive
  /\ bits' = bits \cup {"connected"}
  /\ late' = (late \/ main.fell)
  /\ UNCHANGED <<main, apClients, statusDue, mqtt, sta, apUp, clients, outside, good,
                 stayed, quiet, cause>>

HandleApStart ==
  /\ Handle("ap_start")
  /\ apMode' = TRUE
  /\ UNCHANGED <<main, bits, connected, provisioned, retry, apClients, stale, sup,
                 statusDue, mqtt, sta, apUp, clients, outside, history>>

HandleJoined ==
  /\ Handle("joined")
  /\ apClients' = apClients + 1
  /\ UNCHANGED <<main, bits, connected, apMode, provisioned, retry, stale, sup,
                 statusDue, mqtt, sta, apUp, clients, outside, history>>

HandleLeft ==
  /\ Handle("left")
  /\ apClients' = IF apClients > 0 THEN apClients - 1 ELSE 0
  /\ UNCHANGED <<main, bits, connected, apMode, provisioned, retry, stale, sup,
                 statusDue, mqtt, sta, apUp, clients, outside, history>>

-----------------------------------------------------------------------------
(* supervisor_task *)

Reboot(why) ==
  /\ Boot
  /\ cause' = [why |-> why, good |-> good, quiet |-> quiet,
              attended |-> clients = 1 /\ events = <<>>, fed |-> sup.fed]
  /\ UNCHANGED outside

Sleep(kick, stranded) ==
  sup' = [pc |-> "sleep", due |-> FALSE, fed |-> FALSE, kick |-> kick,
          stranded |-> stranded]

Stranded == apMode /\ ~provisioned /\ g_config.ssid

(* A bug in the supervisor: it does not look for people at the setup page. *)
SupStrandedRude ==
  /\ sup.pc = "sleep" /\ sup.due /\ Stranded
  /\ IF sup.stranded + 1 >= StrandedAfter
     THEN Reboot("stranded")
     ELSE /\ Sleep(sup.kick, sup.stranded + 1)
          /\ UNCHANGED <<main, bits, flags, stale, statusDue, mqtt, driver, outside,
                         history>>

(* In AP mode with credentials: count, unless somebody is attached. *)
SupStranded ==
  /\ sup.pc = "sleep" /\ sup.due /\ Stranded
  /\ IF apClients = 0 /\ sup.stranded + 1 >= StrandedAfter
     THEN Reboot("stranded")
     ELSE /\ Sleep(sup.kick, IF apClients > 0 THEN 0 ELSE sup.stranded + 1)
          /\ UNCHANGED <<main, bits, flags, stale, statusDue, mqtt, driver, outside,
                         history>>

SupIdle ==
  /\ sup.pc = "sleep" /\ sup.due /\ ~Stranded /\ (apMode \/ ~provisioned)
  /\ Sleep(0, 0)
  /\ UNCHANGED <<main, bits, flags, stale, statusDue, mqtt, driver, outside, history>>

(* Without a broker the link counts as alive.  Then the tick count is read. *)
SupRead ==
  /\ sup.pc = "sleep" /\ sup.due /\ ~apMode /\ provisioned
  /\ sup' = [sup EXCEPT !.pc = "read", !.stranded = 0]
  /\ stale' = IF connected /\ ~g_config.url THEN 0 ELSE stale
  /\ UNCHANGED <<main, bits, flags, statusDue, mqtt, driver, outside, history>>

(* The age s_last_alive has when it is subtracted.  If another task wrote  *)
(* it after the tick count was read, and a tick has passed in between, the *)
(* unsigned difference wraps: C leaves the order of the two reads open.    *)
Ages == IF sup.fed THEN {0, StaleCap} ELSE {stale}

(* Bounce the association every KickEvery periods, reboot after RebootAfter. *)
SupSubtract(age) ==
  /\ sup.pc = "read" /\ age \in Ages
  /\ \/ /\ age <= g_config.window
        /\ Sleep(0, 0)
        /\ UNCHANGED <<main, bits, flags, stale, statusDue, mqtt, driver, outside,
                       history>>
     \/ /\ age > g_config.window /\ age >= RebootAfter
        /\ Reboot("outage")
     \/ /\ age > g_config.window /\ age < RebootAfter
        /\ IF sup.kick + 1 >= KickEvery
           THEN /\ Sleep(0, 0)
                /\ IF sta \in {"up", "zombie", "trying"}
                   THEN Post("disconnected") ELSE UNCHANGED events
                /\ sta' = IF sta = "off" THEN "off" ELSE "trying"
           ELSE Sleep(sup.kick + 1, 0) /\ UNCHANGED <<events, sta>>
        /\ UNCHANGED <<main, bits, flags, stale, statusDue, mqtt, apUp, clients,
                       outside, history>>

-----------------------------------------------------------------------------
(* status_task: every pass with MQTT connected feeds the supervisor *)

(* A bug in status_task: it feeds the supervisor whenever the link is up.  *)
StatusPassLink ==
  /\ statusDue /\ statusDue' = FALSE
  /\ good' = IF mqtt = "on" THEN Cap(good + 1) ELSE 0
  /\ IF connected THEN NotifyAlive ELSE UNCHANGED <<stale, sup>>
  /\ UNCHANGED <<main, bits, flags, mqtt, driver, outside, late, stayed, quiet,
                 cause>>

StatusPass ==
  /\ statusDue /\ statusDue' = FALSE
  /\ good' = IF mqtt = "on" THEN Cap(good + 1) ELSE 0
  /\ IF mqtt = "on" THEN NotifyAlive ELSE UNCHANGED <<stale, sup>>
  /\ UNCHANGED <<main, bits, flags, mqtt, driver, outside, late, stayed, quiet,
                 cause>>

-----------------------------------------------------------------------------
(* External: time, the driver, the network, the people *)

PathOk == sta = "up" /\ net = "ok"

Tick ==
  /\ events = <<>> /\ ~sup.due /\ ~statusDue /\ main.pc \in {"wait", "run"}
  /\ ~(mqtt = "off" /\ PathOk)
  /\ main.pc = "wait" => main.waited < StaTimeout /\ bits = {}
  /\ main' = IF main.pc = "wait" THEN [main EXCEPT !.waited = @ + 1] ELSE main
  /\ stale' = Cap(stale + 1)
  /\ quiet' = IF apUp /\ ~stayed THEN Cap(quiet + 1) ELSE 0
  /\ stayed' = (clients = 1)
  /\ sup' = [sup EXCEPT !.due = TRUE]
  /\ statusDue' = (main.pc = "run")
  /\ UNCHANGED <<bits, flags, mqtt, driver, outside, late, good, cause>>

StaJoins ==
  /\ sta = "trying" /\ net # "norouter"
  /\ sta' = "up"
  /\ Post("got_ip")
  /\ UNCHANGED <<main, bits, flags, stale, sup, statusDue, mqtt, apUp, clients,
                 outside, history>>

StaFails ==
  /\ sta = "trying" /\ net = "norouter"
  /\ sta' = "idle"
  /\ Post("disconnected")
  /\ UNCHANGED <<main, bits, flags, stale, sup, statusDue, mqtt, apUp, clients,
                 outside, history>>

(* The router is gone: the driver notices. *)
LinkLost ==
  /\ sta \in {"up", "zombie"} /\ net = "norouter"
  /\ sta' = "idle"
  /\ Post("disconnected")
  /\ UNCHANGED <<main, bits, flags, stale, sup, statusDue, mqtt, apUp, clients,
                 outside, history>>

MqttConnects ==
  /\ mqtt = "off" /\ PathOk
  /\ mqtt' = "on"
  /\ UNCHANGED <<main, bits, flags, stale, sup, statusDue, driver, outside, history>>

(* Keepalive: the client notices that the broker is out of reach. *)
MqttLost ==
  /\ mqtt = "on" /\ ~PathOk
  /\ mqtt' = "off"
  /\ UNCHANGED <<main, bits, flags, stale, sup, statusDue, driver, outside, history>>

NetChanges(n) ==
  /\ trouble > 0 /\ n # net
  /\ trouble' = IF n = "ok" THEN trouble ELSE trouble - 1
  /\ net' = n
  /\ UNCHANGED <<main, bits, flags, stale, sup, statusDue, mqtt, driver, g_config,
                 history>>

(* The association stands but carries no data. *)
Zombie ==
  /\ trouble > 0 /\ trouble' = trouble - 1
  /\ sta = "up" /\ sta' = "zombie"
  /\ UNCHANGED <<main, bits, flags, stale, sup, statusDue, mqtt, apUp, clients, events,
                 g_config, net, history>>

Joins ==
  /\ trouble > 0 /\ trouble' = trouble - 1
  /\ apUp /\ clients = 0
  /\ clients' = 1
  /\ Post("joined")
  /\ UNCHANGED <<main, bits, flags, stale, sup, statusDue, mqtt, sta, apUp, g_config,
                 net, history>>

Leaves ==
  /\ clients = 1
  /\ clients' = 0 /\ stayed' = FALSE
  /\ Post("left")
  /\ UNCHANGED <<main, bits, flags, stale, sup, statusDue, mqtt, sta, apUp, outside,
                 late, good, quiet, cause>>

-----------------------------------------------------------------------------
(* The setup page, in the HTTP server's task *)

Reachable ==
  /\ main.pc = "run" /\ trouble > 0
  /\ clients = 1 \/ (sta = "up" /\ net # "norouter")

(* config_wifi_post saves and reboots; an empty name is saved as such. *)
ConfigWifiPost(named) ==
  /\ Reachable
  /\ g_config' = [g_config EXCEPT !.ssid = named]
  /\ trouble' = trouble - 1
  /\ Boot
  /\ UNCHANGED <<net, cause>>

(* config_mqtt_post changes the setting in use, but neither starts nor     *)
(* stops the client.                                                       *)
ConfigMqttPost(given) ==
  /\ Reachable
  /\ g_config' = [g_config EXCEPT !.url = given]
  /\ trouble' = trouble - 1
  /\ UNCHANGED <<main, bits, flags, stale, sup, statusDue, mqtt, driver, net, history>>

(* config_somfy_post changes pub_interval, and the window with it. *)
ConfigSomfyPost(w) ==
  /\ Reachable
  /\ g_config' = [g_config EXCEPT !.window = w]
  /\ trouble' = trouble - 1
  /\ UNCHANGED <<main, bits, flags, stale, sup, statusDue, mqtt, driver, net, history>>

(* reboot_post; config_hostname_post saves the name and ends the same way. *)
RebootPost ==
  /\ Reachable
  /\ trouble' = trouble - 1
  /\ Boot
  /\ UNCHANGED <<g_config, net, cause>>

-----------------------------------------------------------------------------
Main == MainStart \/ MainWait \/ MainStop \/ MainAp \/ MainApp
Handler == \/ HandleStaStart \/ HandleDisconnected \/ HandleGotIp
           \/ HandleApStart \/ HandleJoined \/ HandleLeft
Supervisor ==
  \/ SupStranded \/ SupIdle \/ SupRead
  \/ \E age \in 0..StaleCap : SupSubtract(age)
Radio == StaJoins \/ StaFails \/ LinkLost

Next ==
  \/ Main \/ Handler \/ Supervisor \/ StatusPass \/ Tick
  \/ Radio \/ MqttConnects \/ MqttLost
  \/ \E n \in {"ok", "nobroker", "norouter"} : NetChanges(n)
  \/ Zombie \/ Joins \/ Leaves
  \/ \E b \in BOOLEAN : ConfigWifiPost(b) \/ ConfigMqttPost(b)
  \/ \E w \in Windows : ConfigSomfyPost(w)
  \/ RebootPost

Spec == Init /\ [][Next]_vars

(***************************************************************************)
(* Every task runs, time passes, the driver answers every connect, and the *)
(* MQTT client tries to connect and notices a dead connection.  Of all the *)
(* times the station joins a router that is there, some take it less than  *)
(* a period (SF).  The network and the people owe nothing.                 *)
(***************************************************************************)
FairSpec ==
  /\ Spec
  /\ WF_vars(Main) /\ WF_vars(Handler) /\ WF_vars(Supervisor) /\ WF_vars(StatusPass)
  /\ SF_vars(stale = 0 /\ StaJoins)
  /\ WF_vars(Tick) /\ WF_vars(Radio) /\ WF_vars(MqttConnects) /\ WF_vars(MqttLost)

-----------------------------------------------------------------------------
(* TypeOK: every variable has its type; in particular the fast retries     *)
(* stay within their number, and the supervisor's counters within their    *)
(* windows (wifi_event_handler, supervisor_task).                          *)
TypeOK ==
  /\ main \in [pc : {"start", "wait", "stop", "ap", "app", "run"}, waited : 0..StaTimeout,
               fell : BOOLEAN]
  /\ bits \subseteq {"connected", "fail"}
  /\ connected \in BOOLEAN /\ apMode \in BOOLEAN /\ provisioned \in BOOLEAN
  /\ retry \in 0..MaxRetries /\ apClients \in Nat /\ stale \in 0..StaleCap
  /\ sup \in [pc : {"sleep", "read"}, due : BOOLEAN, fed : BOOLEAN,
              kick : 0..KickEvery, stranded : 0..StrandedAfter]
  /\ statusDue \in BOOLEAN /\ mqtt \in {"none", "off", "on"}
  /\ sta \in {"off", "idle", "trying", "up", "zombie"}
  /\ apUp \in BOOLEAN /\ clients \in 0..1
  /\ events \in Seq({"sta_start", "disconnected", "got_ip", "ap_start", "joined", "left"})
  /\ g_config \in [ssid : BOOLEAN, url : BOOLEAN, window : Windows]
  /\ net \in {"ok", "nobroker", "norouter"} /\ trouble \in 0..MaxTrouble
  /\ late \in BOOLEAN /\ stayed \in BOOLEAN /\ good \in 0..StaleCap /\ quiet \in 0..StaleCap
  /\ cause \in [why : {"none", "stranded", "outage"}, good : 0..StaleCap,
                quiet : 0..StaleCap, attended : BOOLEAN, fed : BOOLEAN]

(* FlagsFollowDriver: once the posted events are handled, the flags that   *)
(* pages, app_main and the supervisor decide by say what the driver does,  *)
(* whichever task bounced, stopped or lost the link in the meantime        *)
(* (wifi_event_handler).                                                   *)
FlagsFollowDriver ==
  events = <<>> =>
    /\ connected <=> sta \in {"up", "zombie"}
    /\ apMode <=> apUp
    /\ apClients = clients

(* StrandedIsPatient: the supervisor never takes the setup AP away from    *)
(* somebody attached to it whose join has been handled, and one who stayed *)
(* through a period of it has the whole window to come back, less the      *)
(* period begun (supervisor_task).  While the event of a join is queued    *)
(* the supervisor cannot know of it, and reboots.                          *)
StrandedIsPatient ==
  cause.why = "stranded" => ~cause.attended /\ cause.quiet + 1 >= StrandedAfter

(* OutageIsReal: a device that reached its broker in the last period is    *)
(* not rebooted for an outage, whatever came before (joins, bounces, a     *)
(* zombie link, a new interval), unless it was fed between the             *)
(* supervisor's two reads (supervisor_task, status_task).                  *)
OutageIsReal == cause.why = "outage" /\ ~cause.fed => cause.good = 0

(* Online: MQTT is connected or, without a broker, the link is. *)
Online == IF g_config.url THEN mqtt = "on" ELSE connected /\ sta = "up"

(* MQTT was not started: the link was down when app_main looked, or the    *)
(* URL came later.                                                         *)
Missed == g_config.url /\ main.pc = "run" /\ ~main.fell /\ mqtt = "none"

(* Recovers: whatever happened before (a router down at boot, a lost link, *)
(* a zombie association, a broker out of reach, reboots on the way), once  *)
(* router and broker are back for good the device is on line for good,     *)
(* unless an address came in too late (late) or MQTT was never started     *)
(* (Missed).  Nor may the supervisor be fed between its two reads time     *)
(* after time (supervisor_task, wifi_event_handler, status_task).          *)
Recovers ==
  <>[](net = "ok" /\ clients = 0 /\ ~sup.fed /\ g_config.ssid /\ g_config.url)
    => <>[](Online \/ late \/ Missed)
=============================================================================
