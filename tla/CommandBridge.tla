---------------------------- MODULE CommandBridge ----------------------------
(***************************************************************************)
(* From a button press to the retained topics: the command queue, the two  *)
(* tasks of app_main that publish, and the MQTT session.                   *)
(*                                                                         *)
(*   main/app_main.c           s_cmd_queue, somfy_task, status_task        *)
(*   components/mqtt_manager   the event handler, mqtt_publish             *)
(*   components/config_server  the control page and the cover form         *)
(*                                                                         *)
(* Four tasks interleave: the MQTT event task, the HTTP server task,       *)
(* somfy_task (priority 6) and status_task (priority 4).  The MQTT client  *)
(* and the broker are external, modelled from what the code asks of them:  *)
(* every publish the model keeps is QoS 1 and retained, the last will is   *)
(* "offline" on the Status topic, a publish while the client is not        *)
(* connected is skipped (CONFIG_MQTT_SKIP_PUBLISH_IF_DISCONNECTED), and    *)
(* messages not acknowledged are sent again, in order, after a reconnect.  *)
(*                                                                         *)
(* Abstracted: somfy_rts_send takes one code and returns (SendContract;    *)
(* SomfyRts says how); the fifteen discovery payloads are one message;     *)
(* Feedback is neither retained nor QoS 1 and leaves no state; the byte    *)
(* limit of the outbox; NVS failures; the settings that only the next boot *)
(* reads, and the rolling code form.                                       *)
(***************************************************************************)
EXTENDS Naturals, Sequences

CONSTANTS
  QueueLen,     \* length of s_cmd_queue, 8 in the code
  Pressed,      \* the buttons that are pressed
  TxErrors,     \* may somfy_rts_send report an error?
  MaxCommands,  \* bound of the model: commands offered to the queue
  MaxFlips,     \* bound of the model: changes of the cover setting
  MaxDrops,     \* bound of the model: connections lost, broker restarts
  MaxRestarts,  \* bound of the model: restarts of the device
  OutboxMax     \* bound of the model: status_task waits at this backlog,
                \* at 0 it publishes nothing

Buttons  == {"up", "down", "stop", "prog"}
Moves    == {"up", "down"}
CoverSet == {"OPEN", "CLOSE", "STOP"}
None     == "none"

ASSUME BridgeAssumption ==
  /\ Pressed \subseteq Buttons
  /\ QueueLen \in Nat \ {0} /\ TxErrors \in BOOLEAN
  /\ MaxCommands \in Nat /\ MaxFlips \in Nat /\ MaxDrops \in Nat
  /\ MaxRestarts \in Nat /\ OutboxMax \in Nat

VARIABLES
  queue,     \* s_cmd_queue
  task,      \* somfy_task: pc, the command and the code it read
  status,    \* status_task: pc and the code it read
  http,      \* the HTTP server task in the cover form: pc and the choice
  event,     \* the MQTT event task: which part of a handler is next
  connected, \* s_connected
  opens,     \* g_config.cover_open_sends_down, as the button that opens
  flash,     \* its copy in NVS
  code,      \* g_config.rolling_code; NVS agrees with it between commands
  link,      \* the client's connection, "up" or "down"
  outbox,    \* QoS 1 messages the broker has not acknowledged
  inflight,  \* how many of them the broker has, unacknowledged
  retained,  \* the broker's retained messages
  will,      \* the broker holds this device's last will
  budget,    \* what is left of MaxCommands, MaxFlips, MaxDrops, MaxRestarts
  (* History. *)
  moved,     \* the last Up or Down that was transmitted
  missed,    \* its cover state was skipped, or lost on either side
  flipped    \* the cover setting has changed since

tasks  == <<queue, task, status, http, event, connected, opens, flash, code>>
net    == <<link, outbox, inflight, retained, will>>
report == <<moved, missed, flipped>>
vars   == <<tasks, net, budget, report>>

IdleTask   == [pc |-> "idle", button |-> None, code |-> 0]
IdleStatus == [pc |-> "idle", code |-> 0]
IdleHttp   == [pc |-> "idle", opens |-> None]
Topics     == {"status", "cover", "rolling", "discovery"}
Nothing    == [t \in Topics |-> IF t = "rolling" THEN 0 ELSE None]

Msg(topic, value) == [topic |-> topic, value |-> value]

Init ==
  /\ queue = <<>> /\ task = IdleTask /\ status = IdleStatus /\ http = IdleHttp
  /\ event = "idle" /\ connected = FALSE
  /\ opens = "up" /\ flash = "up" /\ code = 1
  /\ link = "down" /\ outbox = <<>> /\ inflight = 0
  /\ retained = Nothing /\ will = FALSE
  /\ budget = [commands |-> MaxCommands, flips |-> MaxFlips, drops |-> MaxDrops,
               restarts |-> MaxRestarts]
  /\ moved = None /\ missed = FALSE /\ flipped = FALSE

-----------------------------------------------------------------------------
(* What the tasks share *)

(* One event less of a kind the model bounds.                              *)
Spend(what) == /\ budget[what] > 0
               /\ budget' = [budget EXCEPT ![what] = @ - 1]

(* A bug in somfy_enqueue_command: nothing bounds the queue. *)
EnqueueAlways(button) == queue' = Append(queue, button)

(* somfy_enqueue_command: xQueueSend with no wait, the result is logged.   *)
Enqueue(button) ==
  queue' = IF Len(queue) < QueueLen THEN Append(queue, button) ELSE queue

(* mqtt_publish with QoS 1: skipped unless the client is connected.        *)
MqttPublish(topic, value) ==
  outbox' = IF link = "up" THEN Append(outbox, Msg(topic, value)) ELSE outbox

OtherMove(button) == IF button = "up" THEN "down" ELSE "up"

(* somfy_task and handle_cover_payload read the setting the same way.      *)
CoverState(button) == IF button = opens THEN "open" ELSE "closed"

CoverButton(payload) ==
  CASE payload = "OPEN"  -> opens
    [] payload = "CLOSE" -> OtherMove(opens)
    [] payload = "STOP"  -> "stop"

-----------------------------------------------------------------------------
(* Where commands come from *)

(* control_cmd_post answers "queued" whether or not there was room.        *)
ControlCmdPost(button) ==
  /\ http.pc = "idle" /\ Spend("commands")
  /\ Enqueue(button)
  /\ UNCHANGED <<task, status, http, event, connected, opens, flash, code, net,
                 report>>

(* MQTT_EVENT_DATA on the command topic and on the cover topic.            *)
EventData(button) ==
  /\ event = "idle" /\ connected /\ link = "up" /\ Spend("commands")
  /\ Enqueue(button)
  /\ UNCHANGED <<task, status, http, event, connected, opens, flash, code, net,
                 report>>

EventCommand(button) == EventData(button)
EventCover(payload)  == EventData(CoverButton(payload))

(* config_cover_post: the save stores first and then sets g_config.        *)
CoverPostPersist(button) ==
  /\ http.pc = "idle" /\ Spend("flips")
  /\ flash' = button
  /\ http' = [pc |-> "cache", opens |-> button]
  /\ UNCHANGED <<queue, task, status, event, connected, opens, code, net, report>>

CoverPostCache ==
  /\ http.pc = "cache"
  /\ opens' = http.opens
  /\ flipped' = (flipped \/ opens' # opens)
  /\ http' = IdleHttp
  /\ UNCHANGED <<queue, task, status, event, connected, flash, code, net, budget,
                 moved, missed>>

-----------------------------------------------------------------------------
(* somfy_task *)

Receive ==
  /\ task.pc = "idle" /\ queue # <<>>
  /\ task' = [IdleTask EXCEPT !.pc = "send", !.button = Head(queue)]
  /\ queue' = Tail(queue)
  /\ UNCHANGED <<status, http, event, connected, opens, flash, code, net, budget,
                 report>>

(* somfy_rts_send takes its code and goes on air. *)
SendTakesCode ==
  /\ task.pc = "send"
  /\ code' = code + 1
  /\ task' = [task EXCEPT !.pc = "air"]
  /\ UNCHANGED <<queue, status, http, event, connected, opens, flash, net, budget,
                 report>>

(* somfy_rts_send returns ESP_OK. *)
SendOk ==
  /\ task.pc = "air"
  /\ task' = IF task.button \in Moves THEN [task EXCEPT !.pc = "cover"]
                                      ELSE [IdleTask EXCEPT !.pc = "read"]
  /\ IF task.button \in Moves
     THEN moved' = task.button /\ missed' = FALSE /\ flipped' = FALSE
     ELSE UNCHANGED <<moved, missed, flipped>>
  /\ UNCHANGED <<queue, status, http, event, connected, opens, flash, code, net,
                 budget>>

(* A bug in the error path: a failed transmission is reported as a move.   *)
SendErrorReported ==
  /\ task.pc \in {"send", "air"} /\ TxErrors
  /\ task' = [task EXCEPT !.pc = IF task.button \in Moves THEN "cover" ELSE "read"]
  /\ UNCHANGED <<queue, status, http, event, connected, opens, flash, code, net,
                 budget, report>>

(* A bug in the error path: the task gives up instead of going on.         *)
SendErrorStops ==
  /\ task.pc \in {"send", "air"} /\ TxErrors
  /\ task' = [IdleTask EXCEPT !.pc = "stopped"]
  /\ UNCHANGED <<queue, status, http, event, connected, opens, flash, code, net,
                 budget, report>>

(* ... or an error: before the code is taken, as on a device whose radio   *)
(* was not initialised, or after.  Nothing is published.                   *)
SendError ==
  /\ task.pc \in {"send", "air"} /\ TxErrors
  /\ task' = IdleTask
  /\ UNCHANGED <<queue, status, http, event, connected, opens, flash, code, net,
                 budget, report>>

(* T_COVER_STATE, from the setting as it is now. *)
PublishCover ==
  /\ task.pc = "cover"
  /\ MqttPublish("cover", CoverState(task.button))
  /\ task' = [IdleTask EXCEPT !.pc = "read"]
  /\ missed' = (link = "down")
  /\ UNCHANGED <<queue, status, http, event, connected, opens, flash, code, link,
                 inflight, retained, will, budget, moved, flipped>>

ReadCode ==
  /\ task.pc = "read"
  /\ task' = [IdleTask EXCEPT !.pc = "publish", !.code = code]
  /\ UNCHANGED <<queue, status, http, event, connected, opens, flash, code, net,
                 budget, report>>

PublishCode ==
  /\ task.pc = "publish"
  /\ MqttPublish("rolling", task.code)
  /\ task' = IdleTask
  /\ UNCHANGED <<queue, status, http, event, connected, opens, flash, code, link,
                 inflight, retained, will, budget, report>>

-----------------------------------------------------------------------------
(* status_task, when its interval has passed; here, at any time *)

StatusRead ==
  /\ status.pc = "idle" /\ connected /\ Len(outbox) < OutboxMax
  /\ status' = [pc |-> "publish", code |-> code]
  /\ UNCHANGED <<queue, task, http, event, connected, opens, flash, code, net,
                 budget, report>>

(* A bug in publish_diagnostics: the rolling code is left to somfy_task.   *)
StatusPublishNoCode ==
  /\ status.pc = "publish"
  /\ status' = IdleStatus
  /\ UNCHANGED <<queue, task, http, event, connected, opens, flash, code, net,
                 budget, report>>

StatusPublish ==
  /\ status.pc = "publish"
  /\ MqttPublish("rolling", status.code)
  /\ status' = IdleStatus
  /\ UNCHANGED <<queue, task, http, event, connected, opens, flash, code, link,
                 inflight, retained, will, budget, report>>

-----------------------------------------------------------------------------
(* The MQTT event task *)

(* MQTT_EVENT_CONNECTED: s_connected, then "online", then discovery.       *)
EventConnected ==
  /\ event = "connected"
  /\ connected' = TRUE
  /\ event' = "online"
  /\ UNCHANGED <<queue, task, status, http, opens, flash, code, net, budget, report>>

(* A bug in the handler: it says "online" only while no connection was lost. *)
EventOnlineOnce ==
  /\ event = "online"
  /\ IF budget.drops = MaxDrops THEN MqttPublish("status", "online")
                                ELSE UNCHANGED outbox
  /\ event' = "discover"
  /\ UNCHANGED <<queue, task, status, http, connected, opens, flash, code, link,
                 inflight, retained, will, budget, report>>

EventOnline ==
  /\ event = "online"
  /\ MqttPublish("status", "online")
  /\ event' = "discover"
  /\ UNCHANGED <<queue, task, status, http, connected, opens, flash, code, link,
                 inflight, retained, will, budget, report>>

(* ha_discovery_publish *)
EventDiscover ==
  /\ event = "discover"
  /\ MqttPublish("discovery", "there")
  /\ event' = "idle"
  /\ UNCHANGED <<queue, task, status, http, connected, opens, flash, code, link,
                 inflight, retained, will, budget, report>>

(* MQTT_EVENT_DISCONNECTED *)
EventDisconnected ==
  /\ event = "idle" /\ connected /\ link = "down"
  /\ connected' = FALSE
  /\ UNCHANGED <<queue, task, status, http, event, opens, flash, code, net, budget,
                 report>>

-----------------------------------------------------------------------------
(* External: the MQTT client library, the network and the broker *)

(* A bug in mqtt_manager_init: the will says what the device would say.    *)
LastWillOnline == Msg("status", "online")

(* What mqtt_manager_init leaves with the broker, to be retained.          *)
LastWill == Msg("status", "offline")

Retain(m) == [retained EXCEPT ![m.topic] = m.value]

(* The client connects every 5 s until it succeeds.  A broker that still   *)
(* holds a session of this client id ends it first, which fires its will.  *)
Connect ==
  /\ link = "down" /\ event = "idle" /\ ~connected
  /\ link' = "up" /\ event' = "connected" /\ inflight' = 0
  /\ will' = TRUE
  /\ retained' = IF will THEN Retain(LastWill) ELSE retained
  /\ UNCHANGED <<queue, task, status, http, connected, opens, flash, code, outbox,
                 budget, report>>

(* The broker stores the next message; its acknowledgement is a step more. *)
Deliver ==
  /\ link = "up" /\ inflight < Len(outbox)
  /\ retained' = Retain(outbox[inflight + 1])
  /\ inflight' = inflight + 1
  /\ UNCHANGED <<tasks, link, outbox, will, budget, report>>

Acknowledge ==
  /\ link = "up" /\ inflight > 0
  /\ outbox' = Tail(outbox)
  /\ inflight' = inflight - 1
  /\ UNCHANGED <<tasks, link, retained, will, budget, report>>

LinkDrops ==
  /\ link = "up" /\ Spend("drops")
  /\ link' = "down"
  /\ UNCHANGED <<tasks, outbox, inflight, retained, will, report>>

(* One and a half keepalives without a packet. *)
WillFires ==
  /\ link = "down" /\ will
  /\ will' = FALSE
  /\ retained' = Retain(LastWill)
  /\ UNCHANGED <<tasks, link, outbox, inflight, budget, report>>

(* A broker without persistence restarts. *)
BrokerForgets ==
  /\ link = "down" /\ Spend("drops")
  /\ retained' = Nothing
  /\ will' = FALSE
  /\ missed' = TRUE
  /\ UNCHANGED <<tasks, link, outbox, inflight, moved, flipped>>

InOutbox(topic) == \E i \in 1..Len(outbox) : outbox[i].topic = topic

(* esp_restart, a panic or a power failure.  NVS may have the next code    *)
(* before g_config has it.                                                 *)
Restart ==
  /\ Spend("restarts")
  /\ queue' = <<>> /\ task' = IdleTask /\ status' = IdleStatus /\ http' = IdleHttp
  /\ event' = "idle" /\ connected' = FALSE /\ opens' = flash
  /\ link' = "down" /\ outbox' = <<>> /\ inflight' = 0
  /\ missed' = (missed \/ task.pc = "cover" \/ InOutbox("cover"))
  /\ flipped' = (flipped \/ flash # opens)
  /\ code' \in IF task.pc = "send" THEN {code, code + 1} ELSE {code}
  /\ UNCHANGED <<flash, retained, will, moved>>

-----------------------------------------------------------------------------
SomfyTask ==
  \/ Receive \/ SendTakesCode \/ SendOk \/ SendError
  \/ PublishCover \/ ReadCode \/ PublishCode
StatusTask == StatusRead \/ StatusPublish
EventTask == EventConnected \/ EventOnline \/ EventDiscover \/ EventDisconnected

Next ==
  \/ SomfyTask \/ StatusTask \/ EventTask
  \/ \E b \in Pressed : ControlCmdPost(b) \/ EventCommand(b)
  \/ \E p \in CoverSet : EventCover(p)
  \/ \E b \in Moves : CoverPostPersist(b)
  \/ CoverPostCache
  \/ Connect \/ Deliver \/ Acknowledge \/ LinkDrops \/ WillFires \/ BrokerForgets
  \/ Restart

Spec == Init /\ [][Next]_vars

(***************************************************************************)
(* The scheduler runs every ready task (the busiest one, somfy_task, waits *)
(* half a second per command), status_task comes round at the latest every *)
(* pub_interval, over a connection that stays up TCP delivers, and the     *)
(* broker counts keepalives.  Users, drops and restarts are not fair, and  *)
(* neither is Connect: the client tries every 5 s, but the network may     *)
(* never let it through.                                                   *)
(***************************************************************************)
FairSpec ==
  /\ Spec
  /\ WF_vars(SomfyTask) /\ WF_vars(StatusTask) /\ WF_vars(EventTask)
  /\ WF_vars(Deliver) /\ WF_vars(Acknowledge) /\ WF_vars(WillFires)

-----------------------------------------------------------------------------
Carries(topic, value) ==
  CASE topic = "rolling"   -> value \in Nat
    [] topic = "status"    -> value \in {None, "online", "offline"}
    [] topic = "cover"     -> value \in {None, "open", "closed"}
    [] topic = "discovery" -> value \in {None, "there"}

(* TypeOK: every variable has its type, and s_cmd_queue its length,        *)
(* whatever two tasks put into it (somfy_enqueue_command).                 *)
TypeOK ==
  /\ queue \in Seq(Buttons) /\ Len(queue) <= QueueLen
  /\ task \in [pc : {"idle", "send", "air", "cover", "read", "publish"},
               button : Buttons \cup {None}, code : Nat]
  /\ status \in [pc : {"idle", "publish"}, code : Nat]
  /\ http \in [pc : {"idle", "cache"}, opens : Moves \cup {None}]
  /\ event \in {"idle", "connected", "online", "discover"}
  /\ connected \in BOOLEAN /\ opens \in Moves /\ flash \in Moves /\ code \in Nat
  /\ link \in {"up", "down"}
  /\ \A i \in 1..Len(outbox) : Carries(outbox[i].topic, outbox[i].value)
  /\ inflight \in 0..Len(outbox)
  /\ DOMAIN retained = Topics /\ \A t \in Topics : Carries(t, retained[t])
  /\ will \in BOOLEAN
  /\ moved \in Moves \cup {None}
  /\ missed \in BOOLEAN /\ flipped \in BOOLEAN

(* CoverHonest: once the reports of a move are through, the retained cover *)
(* state is the one that move means, unless its report was lost or the     *)
(* setting changed since: no failed transmission, STOP, PROG or message    *)
(* sent twice ever overwrites it (somfy_task).                             *)
CoverHonest ==
  moved # None /\ ~missed /\ ~flipped /\ task.pc # "cover" /\ ~InOutbox("cover") =>
    retained["cover"] = CoverState(moved)

(* Announced: when the handlers are done and nothing is in flight, the     *)
(* broker shows the device as online and holds its discovery payloads,     *)
(* although an earlier session's will may fire late and the broker may     *)
(* have lost everything (mqtt_event_handler).                              *)
Announced ==
  link = "up" /\ connected /\ event = "idle" /\ outbox = <<>> =>
    retained["status"] = "online" /\ retained["discovery"] = "there"

(* QueueDrains: accepted commands are worked off, whatever transmissions   *)
(* fail and whether or not the broker is there (somfy_task).               *)
QueueDrains == queue # <<>> ~> queue = <<>> /\ task.pc = "idle"

(* RollingHeals: with the connection up for good, the retained rolling     *)
(* code ends up as the counter, whatever was skipped, lost, sent twice or  *)
(* published out of order before (status_task).                            *)
RollingHeals == <>[](link = "up") => <>[](retained["rolling"] = code)

(* OfflineShows: a device that stays away is shown offline (or not at all) *)
(* in the end (the last will of mqtt_manager_init).                        *)
OfflineShows == <>[](link = "down") => <>[](retained["status"] # "online")

(* The command in hand, as the transmitter's contract speaks of it.        *)
CommandPhase ==
  CASE task.pc = "send" -> "asked"
    [] task.pc = "air"  -> "taken"
    [] OTHER            -> "idle"

Radio == INSTANCE SendContract
           WITH code <- code, phase <- CommandPhase, excused <- FALSE

(* KeepsToContract: the steps that somfy_task makes of somfy_rts_send are  *)
(* those SomfyRts shows it to have, and the tasks around it never touch    *)
(* the counter (somfy_task, Restart).                                      *)
KeepsToContract == Radio!ContractSpec
=============================================================================
