------------------------------- MODULE StatusTask -------------------------------
(***************************************************************************)
(* status_task: diagnostics every pub_interval seconds, the supervisor and *)
(* the task watchdog fed on every pass.                                    *)
(*                                                                         *)
(*   main/app_main.c                          status_task,                 *)
(*                                            publish_diagnostics          *)
(*   components/mqtt_manager/mqtt_manager.c   s_connected, mqtt_publish    *)
(*                                                                         *)
(* The task shares s_connected with the MQTT event task and pub_interval   *)
(* with the portal.  The event comes later than the change of the session  *)
(* it reports, and a publish without a session is dropped.  Time passes    *)
(* while the task sleeps; a pass takes none.                               *)
(***************************************************************************)
EXTENDS Naturals

CONSTANTS
  Intervals,    \* values of pub_interval
  Tick,         \* STATUS_TICK_S
  Modulus,      \* one more than UINT32_MAX in the code
  Last,         \* the number of topics of publish_diagnostics
  Watchdog,     \* the task watchdog's timeout
  MaxChanges,   \* bound of the model: changes of pub_interval
  AgeCap        \* bound of the model: ages are not counted beyond

ASSUME StatusAssumption ==
  /\ Tick \in Nat \ {0} /\ Modulus \in Nat \ {0} /\ Watchdog \in Nat
  /\ Intervals # {} /\ \A i \in Intervals : i \in Nat /\ Tick <= i /\ i + Tick <= Modulus
  /\ Last \in Nat \ {0}
  /\ Tick <= Watchdog /\ MaxChanges \in Nat
  /\ AgeCap \in Nat /\ \A i \in Intervals : AgeCap > i + 2 * Tick

VARIABLES
  task,         \* where status_task is, and its next topic
  since,        \* since_pub_s
  pub_interval, \* g_config.pub_interval
  session,      \* the client's session with the broker
  connected,    \* s_connected
  changes,      \* changes of pub_interval left
  (* History; ages in seconds. *)
  age,          \* of the value of each topic
  reported,     \* a report has ended since boot
  elapsed,      \* since the last report, at first since boot
  contact,      \* since wifi_manager_notify_alive
  woken,        \* since esp_task_wdt_reset
  calm          \* how long session, connected and pub_interval have been so

ages == <<age, elapsed, contact, woken, calm>>
vars == <<task, since, pub_interval, session, connected, changes, reported, ages>>

Older(n) == IF n + Tick > AgeCap THEN AgeCap ELSE n + Tick
Topics == 1..Last

(* mqtt_manager_init comes after status_task has started. *)
Init ==
  /\ task = [pc |-> "pass", topic |-> 1]
  /\ since = Modulus - 1
  /\ pub_interval \in Intervals
  /\ session = FALSE /\ connected = FALSE /\ changes = MaxChanges
  /\ age = [t \in Topics |-> AgeCap]
  /\ reported = FALSE
  /\ elapsed = 0 /\ contact = 0 /\ woken = 0 /\ calm = 0

-----------------------------------------------------------------------------
(* A bug in status_task: a report is due when the interval is over.        *)
DueAfter == since > pub_interval

Due == since >= pub_interval

(* A bug in status_task: only a report feeds the supervisor.               *)
PassFeedsReporting ==
  /\ task.pc = "pass"
  /\ task' = [pc |-> IF connected /\ Due THEN "report" ELSE "sleep", topic |-> 1]
  /\ contact' = IF connected /\ Due THEN 0 ELSE contact
  /\ woken' = 0
  /\ UNCHANGED <<since, pub_interval, session, connected, changes, reported, age,
                 elapsed, calm>>

(* The head of the loop: feed the task watchdog and, connected, the        *)
(* supervisor; decide on a report.                                         *)
Pass ==
  /\ task.pc = "pass"
  /\ task' = [pc |-> IF connected /\ Due THEN "report" ELSE "sleep", topic |-> 1]
  /\ contact' = IF connected THEN 0 ELSE contact
  /\ woken' = 0
  /\ UNCHANGED <<since, pub_interval, session, connected, changes, reported, age,
                 elapsed, calm>>

Sent(t) == age' = IF session THEN [age EXCEPT ![t] = 0] ELSE age

(* publish_diagnostics, topic by topic. *)
Publish ==
  /\ task.pc = "report" /\ task.topic # Last
  /\ Sent(task.topic)
  /\ task' = [task EXCEPT !.topic = @ + 1]
  /\ UNCHANGED <<since, pub_interval, session, connected, changes, reported, elapsed,
                 contact, woken, calm>>

(* A bug in status_task: since_pub_s is not set back.                      *)
PublishLastNoReset ==
  /\ task.pc = "report" /\ task.topic = Last
  /\ Sent(task.topic)
  /\ task' = [task EXCEPT !.pc = "sleep"]
  /\ reported' = TRUE /\ elapsed' = 0
  /\ UNCHANGED <<since, pub_interval, session, connected, changes, contact, woken, calm>>

(* The last topic ends the report, whether or not it was sent. *)
PublishLast ==
  /\ task.pc = "report" /\ task.topic = Last
  /\ Sent(task.topic)
  /\ task' = [task EXCEPT !.pc = "sleep"]
  /\ since' = 0
  /\ reported' = TRUE /\ elapsed' = 0
  /\ UNCHANGED <<pub_interval, session, connected, changes, contact, woken, calm>>

(* A bug in status_task: the count does not wrap. *)
CountWide(n) == n + Tick

Count(n) == (n + Tick) % Modulus

(* vTaskDelay and the count. *)
Sleep ==
  /\ task.pc = "sleep"
  /\ task' = [task EXCEPT !.pc = "pass"]
  /\ since' = Count(since)
  /\ age' = [t \in Topics |-> Older(age[t])]
  /\ elapsed' = Older(elapsed) /\ contact' = Older(contact)
  /\ woken' = Older(woken) /\ calm' = Older(calm)
  /\ UNCHANGED <<pub_interval, session, connected, changes, reported>>

-----------------------------------------------------------------------------
(* mqtt_event_handler, and the client's session that it reports. *)
EventConnected ==
  /\ session /\ ~connected
  /\ connected' = TRUE /\ calm' = 0
  /\ UNCHANGED <<task, since, pub_interval, session, changes, reported, age, elapsed,
                 contact, woken>>

EventDisconnected ==
  /\ ~session /\ connected
  /\ connected' = FALSE /\ calm' = 0
  /\ UNCHANGED <<task, since, pub_interval, session, changes, reported, age, elapsed,
                 contact, woken>>

(* The client starts after the first pass and has left a session before    *)
(* it enters the next.                                                     *)
SessionBegins ==
  /\ ~session /\ ~connected /\ (task.pc = "pass" => elapsed > 0)
  /\ session' = TRUE /\ calm' = 0
  /\ UNCHANGED <<task, since, pub_interval, connected, changes, reported, age, elapsed,
                 contact, woken>>

SessionEnds ==
  /\ session
  /\ session' = FALSE /\ calm' = 0
  /\ UNCHANGED <<task, since, pub_interval, connected, changes, reported, age, elapsed,
                 contact, woken>>

(* config_somfy_post. *)
SomfyPost(i) ==
  /\ changes > 0 /\ changes' = changes - 1
  /\ pub_interval' = i /\ calm' = 0
  /\ UNCHANGED <<task, since, session, connected, reported, age, elapsed, contact,
                 woken>>

-----------------------------------------------------------------------------
Next ==
  \/ Pass \/ Publish \/ PublishLast \/ Sleep
  \/ EventConnected \/ EventDisconnected \/ SessionBegins \/ SessionEnds
  \/ \E i \in Intervals : SomfyPost(i)

Spec == Init /\ [][Next]_vars

-----------------------------------------------------------------------------
(* TypeOK: every variable has its type; since_pub_s keeps its width.       *)
TypeOK ==
  /\ task \in [pc : {"pass", "report", "sleep"}, topic : Topics]
  /\ since \in 0..Modulus - 1
  /\ pub_interval \in Intervals
  /\ session \in BOOLEAN /\ connected \in BOOLEAN /\ changes \in 0..MaxChanges
  /\ reported \in BOOLEAN
  /\ age \in [Topics -> 0..AgeCap]
  /\ elapsed \in 0..AgeCap /\ contact \in 0..AgeCap
  /\ woken \in 0..AgeCap /\ calm \in 0..AgeCap

(* Fresh: once the device has been connected and pub_interval left alone   *)
(* for the interval and a pass, every pass leaves all diagnostic values    *)
(* younger than the interval: at boot with since_pub_s at its maximum,     *)
(* after outages of any length, after a report that was lost in part       *)
(* because the session ended under it, and with an interval that is no     *)
(* multiple of the pass (status_task).                                     *)
Fresh ==
  task.pc = "sleep" /\ session /\ connected /\ calm >= pub_interval + Tick =>
    \A t \in Topics : age[t] < pub_interval

(* Spaced: once there has been a report, the next never starts sooner      *)
(* after it than the interval in force says, lost reports, outages of any  *)
(* length and the wrap of since_pub_s in them included (status_task).  Of  *)
(* the first report after boot it says nothing.                            *)
Spaced ==
  [][task.pc = "pass" /\ task'.pc = "report" /\ reported =>
       elapsed >= pub_interval]_vars

(* Fed: whatever the interval, up to an hour, the task watchdog does not   *)
(* time out, and a connected device is fed to the supervisor on every      *)
(* pass ("sleeping that long in one vTaskDelay would blow the 30 s task    *)
(* watchdog", status_task).                                                *)
Fed ==
  /\ woken <= Watchdog
  /\ session /\ connected /\ calm > Tick => contact <= Tick
=============================================================================
