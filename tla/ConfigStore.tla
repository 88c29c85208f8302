------------------------------ MODULE ConfigStore ------------------------------
(***************************************************************************)
(* The settings that are saved in groups: host name, WiFi and MQTT         *)
(* credentials, transmitter, cover.                                        *)
(*                                                                         *)
(*   components/config_manager/config_manager.c  init and the saves        *)
(*   components/config_server/config_server.c    their forms, reboot_task  *)
(*                                                                         *)
(* A save sets the keys of its group one by one, commits, and only then    *)
(* copies the group to g_config.  nvs_set writes flash at once; its        *)
(* result is not looked at.  The HTTP server runs one handler at a time,   *)
(* but a restart may come between any two steps, also from the reboot      *)
(* that an earlier form has asked for.  The rolling code and the pairing   *)
(* are SomfyRts'.                                                          *)
(*                                                                         *)
(* A text is a number, 0 the empty one.  A key that is not in flash, and a *)
(* field left empty where a number is asked for, are None.                 *)
(***************************************************************************)
EXTENDS Integers, Sequences

CONSTANTS
  Sessions,          \* sets of groups; a behaviour uses the forms of one set
  Texts, Passwords,  \* what people type into text and password fields
  Numbers,           \* and into number fields, by key
  MayFail            \* TRUE: NVS calls may fail

None == -1

(* The keys of each save, in the order of its nvs_set calls. *)
Order ==
  [hostname |-> <<"hostname">>,
   wifi     |-> <<"wifi_ssid", "wifi_pass">>,
   mqtt     |-> <<"mqtt_url", "mqtt_user", "mqtt_pass">>,
   somfy    |-> <<"remote_addr", "tx_gpio", "pub_ivl">>,
   cover    |-> <<"cover_dn">>]
Groups == DOMAIN Order
KeysOf(g) == {Order[g][i] : i \in DOMAIN Order[g]}
Keys == UNION {KeysOf(g) : g \in Groups}

(* config_manager_init; the compiled-in host name is some text. *)
DEF_HOSTNAME == 1
Default ==
  [k \in Keys |-> CASE k = "hostname"    -> DEF_HOSTNAME
                    [] k = "remote_addr" -> 1184521
                    [] k = "tx_gpio"     -> 15
                    [] k = "pub_ivl"     -> 30
                    [] OTHER             -> 0]
ZeroIsUnset == {"hostname", "remote_addr", "pub_ivl"}

ASSUME StoreAssumption ==
  /\ Sessions # {} /\ \A s \in Sessions : s # {} /\ s \subseteq Groups
  /\ Texts \subseteq Nat /\ Passwords \subseteq Nat /\ MayFail \in BOOLEAN
  /\ \A k \in {"remote_addr", "tx_gpio", "pub_ivl", "cover_dn"} :
       Numbers[k] \subseteq Nat \cup {None}

VARIABLES
  nvs,        \* flash
  g_config,   \* RAM
  save,       \* the save under way
  rebooting,  \* reboot_task exists
  session,    \* the groups whose forms are used
  (* History. *)
  last,       \* by group, what the last save that reached flash was to store
  broken,     \* groups of which that save was cut off, or a call of it failed
  apart       \* groups of which a call failed since the last boot

history == <<session, last, broken, apart>>
vars == <<nvs, g_config, save, rebooting, history>>

NoSave == [group |-> "none", new |-> <<>>, next |-> 1, keeps |-> FALSE, failed |-> FALSE]
Part(f, g) == [k \in KeysOf(g) |-> f[k]]
Merge(f, part) == [k \in DOMAIN f |-> IF k \in DOMAIN part THEN part[k] ELSE f[k]]

(* A bug in config_manager_init: every 0 reads as not set.                 *)
LoadZero(f) ==
  [k \in Keys |-> IF f[k] = None \/ f[k] = 0 THEN Default[k] ELSE f[k]]

Load(f) ==
  [k \in Keys |-> IF f[k] = None \/ (f[k] = 0 /\ k \in ZeroIsUnset)
                  THEN Default[k] ELSE f[k]]

Init ==
  /\ nvs = [k \in Keys |-> None]
  /\ g_config = Load(nvs)
  /\ save = NoSave /\ rebooting = FALSE
  /\ session \in Sessions
  /\ last = [g \in Groups |-> Part(g_config, g)]
  /\ broken = {} /\ apart = {}

-----------------------------------------------------------------------------
(* The forms.  "keeps": the password field was left empty. *)

Begin(g, new, keeps) ==
  /\ save = NoSave /\ g \in session
  /\ save' = [group |-> g, new |-> new, next |-> 1, keeps |-> keeps, failed |-> FALSE]
  /\ UNCHANGED <<nvs, g_config, rebooting, history>>

(* An empty name is not saved; the reboot comes all the same. *)
HostnamePost(name) ==
  IF name # 0 THEN Begin("hostname", [hostname |-> name], FALSE)
  ELSE /\ save = NoSave /\ "hostname" \in session
       /\ rebooting' = TRUE
       /\ UNCHANGED <<nvs, g_config, save, history>>

(* A bug in config_wifi_post: the empty password is saved.                 *)
WifiPostEmpty(ssid, pass) ==
  Begin("wifi", [wifi_ssid |-> ssid, wifi_pass |-> pass], pass = 0)

(* An empty password field keeps the stored one. *)
WifiPost(ssid, pass) ==
  Begin("wifi", [wifi_ssid |-> ssid,
                 wifi_pass |-> IF pass = 0 THEN g_config["wifi_pass"] ELSE pass],
        pass = 0)

MqttPost(url, user, pass) ==
  Begin("mqtt", [mqtt_url |-> url, mqtt_user |-> user,
                 mqtt_pass |-> IF pass = 0 THEN g_config["mqtt_pass"] ELSE pass],
        pass = 0)

Given(n, k) == IF n = None THEN g_config[k] ELSE n
Clamp(n, lo, hi) == IF n < lo THEN lo ELSE IF n > hi THEN hi ELSE n

(* 24 bits of the address, and 0 is no address. *)
Remote(n) == IF Given(n, "remote_addr") % 2 ^ 24 = 0 THEN g_config["remote_addr"]
             ELSE Given(n, "remote_addr") % 2 ^ 24

(* A bug in config_somfy_post: the interval has no lower limit.            *)
SomfyPostAnyPub(remote, gpio, pub) ==
  Begin("somfy", [remote_addr |-> Remote(remote),
                  tx_gpio |-> Clamp(Given(gpio, "tx_gpio") % 256, 0, 33),
                  pub_ivl |-> Clamp(Given(pub, "pub_ivl"), 0, 3600)], FALSE)

(* The pin is narrowed to 8 bits before it is clamped. *)
SomfyPost(remote, gpio, pub) ==
  Begin("somfy", [remote_addr |-> Remote(remote),
                  tx_gpio |-> Clamp(Given(gpio, "tx_gpio") % 256, 0, 33),
                  pub_ivl |-> Clamp(Given(pub, "pub_ivl"), 5, 3600)], FALSE)

(* Without a value nothing is saved. *)
CoverPost(down) ==
  /\ down # None
  /\ Begin("cover", [cover_dn |-> IF down = 0 THEN 0 ELSE 1], FALSE)

(* reboot_post; every reboot of the device that has nothing to do with it. *)
RebootPost ==
  /\ save = NoSave
  /\ rebooting' = TRUE
  /\ UNCHANGED <<nvs, g_config, save, history>>

-----------------------------------------------------------------------------
(* config_manager_save_... *)

Saving == save # NoSave

(* A bug in the saves: the last key is forgotten.                          *)
AllButOneSet == save.next > 1 /\ save.next >= Len(Order[save.group])

AllSet == save.next > Len(Order[save.group])

SetKey ==
  /\ Saving /\ ~AllSet
  /\ LET k == Order[save.group][save.next]
     IN  \/ /\ nvs' = [nvs EXCEPT ![k] = save.new[k]]
            /\ save' = [save EXCEPT !.next = @ + 1]
         \/ /\ MayFail
            /\ save' = [save EXCEPT !.next = @ + 1, !.failed = TRUE]
            /\ UNCHANGED nvs
  /\ last' = [last EXCEPT ![save.group] = save.new]
  /\ UNCHANGED <<g_config, rebooting, session, broken, apart>>

(* The handler answers; two of the forms ask for a reboot, saved or not. *)
Finish ==
  /\ save' = NoSave
  /\ rebooting' = (rebooting \/ save.group \in {"hostname", "wifi"})

(* A save without a failed call also repairs what earlier ones left. *)
Commit ==
  /\ Saving /\ AllSet
  /\ g_config' = Merge(g_config, save.new)
  /\ broken' = IF save.failed THEN broken \cup {save.group} ELSE broken \ {save.group}
  /\ apart'  = IF save.failed THEN apart \cup {save.group} ELSE apart \ {save.group}
  /\ Finish
  /\ UNCHANGED <<nvs, session, last>>

(* nvs_open fails, or nvs_commit: RAM keeps what it had. *)
SaveFails ==
  /\ Saving /\ MayFail /\ (save.next = 1 \/ AllSet)
  /\ broken' = IF save.failed THEN broken \cup {save.group} ELSE broken
  /\ apart' = IF AllSet THEN apart \cup {save.group} ELSE apart
  /\ Finish
  /\ UNCHANGED <<nvs, g_config, session, last>>

-----------------------------------------------------------------------------
Restart ==
  /\ g_config' = Load(nvs)
  /\ save' = NoSave /\ rebooting' = FALSE
  /\ broken' = IF Saving /\ save.next > 1 /\ (~AllSet \/ save.failed)
               THEN broken \cup {save.group} ELSE broken
  /\ apart' = {}
  /\ UNCHANGED <<nvs, session, last>>

(* reboot_task, 0.8 s after its form was answered. *)
RebootTask == rebooting /\ Restart

(* Power, watchdog, supervisor, the reboot topic, an update. *)
OtherRestart == Restart

Form ==
  \/ \E a \in Texts : HostnamePost(a)
  \/ \E a \in Texts, p \in Passwords : WifiPost(a, p)
  \/ \E a, b \in Texts, p \in Passwords : MqttPost(a, b, p)
  \/ \E r \in Numbers.remote_addr, p \in Numbers.tx_gpio, i \in Numbers.pub_ivl :
       SomfyPost(r, p, i)
  \/ \E d \in Numbers.cover_dn : CoverPost(d)
  \/ RebootPost

Next == Form \/ SetKey \/ Commit \/ SaveFails \/ RebootTask \/ OtherRestart

Spec == Init /\ [][Next]_vars

-----------------------------------------------------------------------------
InLimits ==
  /\ g_config["hostname"] # 0
  /\ g_config["remote_addr"] \in 1..2 ^ 24 - 1
  /\ g_config["tx_gpio"] \in 0..33 /\ g_config["pub_ivl"] \in 5..3600
  /\ g_config["cover_dn"] \in 0..1

(* TypeOK: every variable has its type; the transmitter's settings stay    *)
(* within the limits that config_somfy_post sets, through loads and saves. *)
TypeOK ==
  /\ nvs \in [Keys -> Nat \cup {None}]
  /\ g_config \in [Keys -> Nat] /\ InLimits
  /\ save = NoSave \/ /\ save.group \in session
                      /\ save.new \in [KeysOf(save.group) -> Nat]
                      /\ save.next \in 1..Len(Order[save.group]) + 1
                      /\ save.keeps \in BOOLEAN /\ save.failed \in BOOLEAN
  /\ rebooting \in BOOLEAN
  /\ session \in Sessions /\ broken \subseteq session /\ apart \subseteq session
  /\ \A g \in Groups : last[g] \in [KeysOf(g) -> Nat]

Started(g) == save.group = g /\ save.next > 1

(* RestartKeeps: whatever was typed, clamped, cut off by a restart or      *)
(* repaired by a later save, the settings in use are the ones a restart    *)
(* would load, for every group but the one being saved and those of which  *)
(* an NVS call failed (config_manager_init and its defaults, the saves).   *)
RestartKeeps ==
  \A g \in Groups : g \in apart \/ Started(g) \/ Part(Load(nvs), g) = Part(g_config, g)

(* OneSave: flash never mixes the values of two saves of a group, say a    *)
(* new network with an old password, unless a restart came between its     *)
(* nvs_set calls or one of them failed; the next whole save mends it (the  *)
(* saves of config_manager.c).                                             *)
OneSave ==
  \A g \in Groups : g \in broken \/ Started(g) \/ Part(Load(nvs), g) = last[g]

PasswordKey(g) == IF g = "wifi" THEN "wifi_pass" ELSE "mqtt_pass"

PasswordStays(g) ==
  LET k == PasswordKey(g)
  IN  Load(nvs')[k] = Load(nvs)[k] /\ g_config'[k] = g_config[k]

(* What may happen to a password that nobody types: a form with an empty   *)
(* field writes to flash the one in use, a restart takes up flash's.       *)
PasswordRestored(g) ==
  LET k == PasswordKey(g)
  IN  /\ \/ Load(nvs')[k] = Load(nvs)[k]
         \/ save.group = g /\ Load(nvs')[k] = g_config[k]
      /\ g_config'[k] = g_config[k] \/ g_config' = Load(nvs)

TypedSave(g) == save.group = g /\ ~save.keeps

(* PasswordTyped: but for saves in which one was typed, no step changes a  *)
(* password, in RAM or in flash.  Only where a failed call has left flash  *)
(* with another one than RAM do the two meet again: the next form with an  *)
(* empty field puts the one in use back over the one that was typed, or a  *)
(* restart puts flash's in use.  An empty field never brings a third one   *)
(* ("Empty password field means keep the stored one", config_wifi_post,    *)
(* config_mqtt_post).                                                      *)
PasswordTyped ==
  [][\A g \in {"wifi", "mqtt"} :
       \/ TypedSave(g)
       \/ PasswordStays(g)
       \/ g \in apart /\ PasswordRestored(g)]_vars
=============================================================================
