-------------------------- MODULE WifiManager_proofs --------------------------
(* Theorems about WifiManager, for every value of its constants. *)
EXTENDS WifiManager, SequenceTheorems, TLAPS

-----------------------------------------------------------------------------
(* The variables in groups, each with its type *)

EventKinds == {"sta_start", "disconnected", "got_ip", "ap_start", "joined", "left"}
MainType   == [pc : {"start", "wait", "stop", "ap", "app", "run"}, waited : 0..StaTimeout,
               fell : BOOLEAN]
SupType    == [pc : {"sleep", "read"}, due : BOOLEAN, fed : BOOLEAN,
               kick : 0..KickEvery, stranded : 0..StrandedAfter]
CauseType  == [why : {"none", "stranded", "outage"}, good : 0..StaleCap,
               quiet : 0..StaleCap, attended : BOOLEAN, fed : BOOLEAN]
ConfigType == [ssid : BOOLEAN, url : BOOLEAN, window : Windows]

MainTyped == main \in MainType /\ bits \subseteq {"connected", "fail"}

FlagsTyped ==
  /\ connected \in BOOLEAN /\ apMode \in BOOLEAN /\ provisioned \in BOOLEAN
  /\ retry \in 0..MaxRetries /\ apClients \in Nat

TasksTyped ==
  /\ stale \in 0..StaleCap /\ sup \in SupType
  /\ statusDue \in BOOLEAN /\ mqtt \in {"none", "off", "on"}

DriverTyped ==
  /\ sta \in {"off", "idle", "trying", "up", "zombie"}
  /\ apUp \in BOOLEAN /\ clients \in 0..1 /\ events \in Seq(EventKinds)

OutsideTyped ==
  /\ g_config \in ConfigType
  /\ net \in {"ok", "nobroker", "norouter"} /\ trouble \in 0..MaxTrouble

HistoryTyped ==
  /\ late \in BOOLEAN /\ stayed \in BOOLEAN
  /\ good \in 0..StaleCap /\ quiet \in 0..StaleCap /\ cause \in CauseType

TypeInv ==
  /\ MainTyped /\ FlagsTyped /\ TasksTyped /\ DriverTyped /\ OutsideTyped /\ HistoryTyped

LEMMA TypeInvImplies == TypeInv => TypeOK
  BY DEF TypeInv, TypeOK, MainTyped, FlagsTyped, TasksTyped, DriverTyped, OutsideTyped, HistoryTyped,
     EventKinds, MainType, SupType, CauseType, ConfigType

-----------------------------------------------------------------------------
(* What the pieces of several actions do *)

LEMMA Zeros ==
  /\ 0 \in 0..StaTimeout /\ 0 \in 0..MaxRetries /\ 0 \in 0..StaleCap
  /\ 0 \in 0..KickEvery /\ 0 \in 0..StrandedAfter /\ 0 \in Nat
  BY WifiAssumption

LEMMA BootTyped ==
  ASSUME Boot
  PROVE  /\ MainTyped' /\ FlagsTyped' /\ TasksTyped' /\ DriverTyped'
         /\ late' \in BOOLEAN /\ stayed' \in BOOLEAN
         /\ good' \in 0..StaleCap /\ quiet' \in 0..StaleCap
<1>1. MainTyped'
  <2>1. Starting \in MainType
    BY Zeros DEF Starting, MainType
  <2> QED
    BY <2>1 DEF Boot, MainTyped
<1>2. FlagsTyped'
  BY Zeros DEF Boot, FlagsTyped
<1>3. TasksTyped'
  <2>1. [pc |-> "sleep", due |-> FALSE, fed |-> FALSE, kick |-> 0, stranded |-> 0] \in SupType
    BY Zeros DEF SupType
  <2> QED
    BY <2>1, Zeros DEF Boot, TasksTyped
<1>4. DriverTyped'
  <2>1. <<>> \in Seq(EventKinds) /\ 0 \in 0..1
    BY EmptySeq
  <2> QED
    BY <2>1 DEF Boot, DriverTyped
<1> QED
  BY <1>1, <1>2, <1>3, <1>4, Zeros DEF Boot

LEMMA SleepTyped ==
  ASSUME NEW kick \in 0..KickEvery, NEW stranded \in 0..StrandedAfter, Sleep(kick, stranded)
  PROVE  sup' \in SupType
  BY DEF Sleep, SupType

(* Only the note that the supervisor was fed changes in its record.        *)
LEMMA NotifyTyped ==
  ASSUME sup \in SupType, NotifyAlive
  PROVE  /\ stale' = 0 /\ stale' \in 0..StaleCap /\ sup' \in SupType
         /\ sup'.pc = sup.pc /\ sup'.due = sup.due
         /\ sup'.kick = sup.kick /\ sup'.stranded = sup.stranded
<1>1. (sup.pc = "read") \in BOOLEAN
  OBVIOUS
<1>2. \A b \in BOOLEAN : [sup EXCEPT !.fed = b] \in SupType
  BY DEF SupType
<1>3. \A b \in BOOLEAN : LET s == [sup EXCEPT !.fed = b]
                         IN  /\ s.pc = sup.pc /\ s.due = sup.due
                             /\ s.kick = sup.kick /\ s.stranded = sup.stranded
  BY DEF SupType
<1>4. stale' = 0 /\ 0 \in 0..StaleCap
  BY WifiAssumption DEF NotifyAlive
<1> QED
  BY <1>1, <1>2, <1>3, <1>4 DEF NotifyAlive

LEMMA PostTyped ==
  ASSUME events \in Seq(EventKinds), NEW e \in EventKinds, Post(e)
  PROVE  events' \in Seq(EventKinds)
  BY AppendProperties DEF Post

LEMMA HandleTyped ==
  ASSUME events \in Seq(EventKinds), NEW e, Handle(e)
  PROVE  events' \in Seq(EventKinds) /\ e \in EventKinds /\ events # <<>>
  BY HeadTailProperties DEF Handle

LEMMA CapTyped ==
  ASSUME NEW n \in 0..StaleCap
  PROVE  Cap(n + 1) \in 0..StaleCap /\ (n < StaleCap => Cap(n + 1) = n + 1)
  BY WifiAssumption DEF Cap

LEMMA RebootTyped ==
  ASSUME TypeInv, NEW why \in {"stranded", "outage"}, Reboot(why)
  PROVE  TypeInv'
<1>1. cause' \in CauseType
  <2>1. (clients = 1 /\ events = <<>>) \in BOOLEAN
    OBVIOUS
  <2>2. good \in 0..StaleCap /\ quiet \in 0..StaleCap /\ sup.fed \in BOOLEAN
    BY DEF TypeInv, HistoryTyped, TasksTyped, SupType
  <2> QED
    BY <2>1, <2>2, Zenon DEF Reboot, CauseType
<1>2. Boot /\ UNCHANGED outside
  BY DEF Reboot
<1> QED
  BY <1>1, <1>2, BootTyped DEF TypeInv, HistoryTyped, OutsideTyped, outside

-----------------------------------------------------------------------------
(* TypeOK, group by group *)
LEMMA MainStep ==
  ASSUME TypeInv, Main
  PROVE  TypeInv'
<1>1. CASE MainStart
  <2>1. main' \in MainType
    BY <1>1 DEF MainStart, TypeInv, MainTyped, MainType
  <2>2. sta' \in {"idle", sta} /\ apUp' \in BOOLEAN /\ events' \in Seq(EventKinds)
    BY <1>1, PostTyped DEF MainStart, StartAp, TypeInv, DriverTyped, EventKinds
  <2>3. UNCHANGED <<connected, apMode, provisioned, apClients, stale, sup, statusDue,
                    mqtt, clients, outside, history>> /\ retry' = 0 /\ bits' = {}
    BY <1>1 DEF MainStart
  <2> QED
    BY <2>1, <2>2, <2>3, Zeros DEF TypeInv, MainTyped, FlagsTyped, TasksTyped, DriverTyped,
       OutsideTyped, HistoryTyped, outside, history
<1>2. CASE MainWait
  <2>1. main' \in MainType
    BY <1>2, Zeros DEF MainWait, MainType
  <2>2. UNCHANGED <<bits, flags, stale, sup, statusDue, mqtt, driver, outside, history>>
    BY <1>2 DEF MainWait
  <2> QED
    BY <2>1, <2>2 DEF TypeInv, MainTyped, FlagsTyped, TasksTyped, DriverTyped,
       OutsideTyped, HistoryTyped, flags, driver, outside, history
<1>3. CASE MainStop
  <2>1. main' \in MainType
    BY <1>3 DEF MainStop, TypeInv, MainTyped, MainType
  <2>2. events' \in Seq(EventKinds)
    BY <1>3, PostTyped DEF MainStop, TypeInv, DriverTyped, EventKinds
  <2>3. UNCHANGED <<bits, flags, stale, sup, statusDue, mqtt, apUp, clients, outside,
                    history>> /\ sta' = "off"
    BY <1>3 DEF MainStop
  <2> QED
    BY <2>1, <2>2, <2>3 DEF TypeInv, MainTyped, FlagsTyped, TasksTyped, DriverTyped,
       OutsideTyped, HistoryTyped, flags, outside, history
<1>4. CASE MainAp
  <2>1. main' \in MainType
    BY <1>4 DEF MainAp, TypeInv, MainTyped, MainType
  <2>2. events' \in Seq(EventKinds) /\ apUp' \in BOOLEAN
    BY <1>4, PostTyped DEF MainAp, StartAp, TypeInv, DriverTyped, EventKinds
  <2>3. UNCHANGED <<bits, flags, stale, sup, statusDue, mqtt, sta, clients, outside, history>>
    BY <1>4 DEF MainAp
  <2> QED
    BY <2>1, <2>2, <2>3 DEF TypeInv, MainTyped, FlagsTyped, TasksTyped, DriverTyped,
       OutsideTyped, HistoryTyped, flags, outside, history
<1>5. CASE MainApp
  <2>1. main' \in MainType
    BY <1>5 DEF MainApp, TypeInv, MainTyped, MainType
  <2>2. statusDue' \in BOOLEAN /\ mqtt' \in {"none", "off", "on"}
    BY <1>5 DEF MainApp
  <2>3. UNCHANGED <<bits, flags, stale, sup, driver, outside, history>>
    BY <1>5 DEF MainApp
  <2> QED
    BY <2>1, <2>2, <2>3 DEF TypeInv, MainTyped, FlagsTyped, TasksTyped, DriverTyped,
       OutsideTyped, HistoryTyped, flags, driver, outside, history
<1> QED
  BY <1>1, <1>2, <1>3, <1>4, <1>5 DEF Main

LEMMA HandlerStep ==
  ASSUME TypeInv, Handler
  PROVE  TypeInv'
<1>0. ASSUME NEW e, Handle(e) PROVE events' \in Seq(EventKinds)
  BY <1>0, HandleTyped DEF TypeInv, DriverTyped
<1>1. CASE HandleStaStart
  <2>1. events' \in Seq(EventKinds) /\ sta' \in {"trying", sta}
    BY <1>0, <1>1 DEF HandleStaStart, StaConnect
  <2>2. UNCHANGED <<main, bits, flags, stale, sup, statusDue, mqtt, apUp, clients,
                    outside, history>>
    BY <1>1 DEF HandleStaStart
  <2> QED
    BY <2>1, <2>2 DEF TypeInv, MainTyped, FlagsTyped, TasksTyped, DriverTyped,
       OutsideTyped, HistoryTyped, flags, outside, history
<1>2. CASE HandleDisconnected
  <2>1. events' \in Seq(EventKinds) /\ sta' \in {"trying", sta}
    BY <1>0, <1>2 DEF HandleDisconnected, StaConnect
  <2>2. connected' \in BOOLEAN /\ retry' \in 0..MaxRetries
    <3>1. connected' = FALSE /\ retry' = IF retry < MaxRetries THEN retry + 1 ELSE retry
      BY <1>2 DEF HandleDisconnected
    <3>2. retry \in 0..MaxRetries /\ MaxRetries \in Nat
      BY WifiAssumption DEF TypeInv, FlagsTyped
    <3>3. retry' \in 0..MaxRetries
      BY <3>1, <3>2
    <3> QED
      BY <3>1, <3>3
  <2>3. bits' \subseteq {"connected", "fail"}
    BY <1>2 DEF HandleDisconnected, TypeInv, MainTyped
  <2>4. UNCHANGED <<main, apMode, provisioned, apClients, stale, sup, statusDue, mqtt,
                    apUp, clients, outside, history>>
    BY <1>2 DEF HandleDisconnected
  <2> QED
    BY <2>1, <2>2, <2>3, <2>4 DEF TypeInv, MainTyped, FlagsTyped, TasksTyped, DriverTyped,
       OutsideTyped, HistoryTyped, outside, history
<1>3. CASE HandleGotIp
  <2>1. events' \in Seq(EventKinds)
    BY <1>0, <1>3 DEF HandleGotIp
  <2>2. connected' \in BOOLEAN /\ apMode' \in BOOLEAN /\ provisioned' \in BOOLEAN /\ retry' = 0
    BY <1>3 DEF HandleGotIp
  <2>3. stale' \in 0..StaleCap /\ sup' \in SupType
    BY <1>3, NotifyTyped DEF HandleGotIp, TypeInv, TasksTyped
  <2>4. bits' \subseteq {"connected", "fail"}
    BY <1>3 DEF HandleGotIp, TypeInv, MainTyped
  <2>5. late' \in BOOLEAN
    <3>1. late' = (late \/ main.fell)
      BY <1>3 DEF HandleGotIp
    <3> QED
      BY <3>1
  <2>6. UNCHANGED <<main, apClients, statusDue, mqtt, sta, apUp, clients, outside, good,
                    stayed, quiet, cause>>
    BY <1>3 DEF HandleGotIp
  <2> QED
    BY <2>1, <2>2, <2>3, <2>4, <2>5, <2>6, Zeros DEF TypeInv, MainTyped, FlagsTyped,
       TasksTyped, DriverTyped, OutsideTyped, HistoryTyped, outside
<1>4. CASE HandleApStart
  <2>1. events' \in Seq(EventKinds) /\ apMode' \in BOOLEAN
    BY <1>0, <1>4 DEF HandleApStart
  <2>2. UNCHANGED <<main, bits, connected, provisioned, retry, apClients, stale, sup,
                    statusDue, mqtt, sta, apUp, clients, outside, history>>
    BY <1>4 DEF HandleApStart
  <2> QED
    BY <2>1, <2>2 DEF TypeInv, MainTyped, FlagsTyped, TasksTyped, DriverTyped,
       OutsideTyped, HistoryTyped, outside, history
<1>5. CASE HandleJoined \/ HandleLeft
  <2>1. events' \in Seq(EventKinds)
    BY <1>0, <1>5 DEF HandleJoined, HandleLeft
  <2>2. apClients' \in Nat
    BY <1>5 DEF HandleJoined, HandleLeft, TypeInv, FlagsTyped
  <2>3. UNCHANGED <<main, bits, connected, apMode, provisioned, retry, stale, sup,
                    statusDue, mqtt, sta, apUp, clients, outside, history>>
    BY <1>5 DEF HandleJoined, HandleLeft
  <2> QED
    BY <2>1, <2>2, <2>3 DEF TypeInv, MainTyped, FlagsTyped, TasksTyped, DriverTyped,
       OutsideTyped, HistoryTyped, outside, history
<1> QED
  BY <1>1, <1>2, <1>3, <1>4, <1>5 DEF Handler
LEMMA SupervisorStep ==
  ASSUME TypeInv, Supervisor
  PROVE  TypeInv'
<1>0. /\ sup \in SupType /\ sup.kick \in 0..KickEvery /\ sup.stranded \in 0..StrandedAfter
      /\ KickEvery \in Nat /\ StrandedAfter \in Nat
  BY WifiAssumption DEF TypeInv, TasksTyped, SupType
<1>1. ASSUME sup' \in SupType,
             UNCHANGED <<main, bits, flags, stale, statusDue, mqtt, driver, outside, history>>
      PROVE  TypeInv'
  BY <1>1 DEF TypeInv, MainTyped, FlagsTyped, TasksTyped, DriverTyped, OutsideTyped,
     HistoryTyped, flags, driver, outside, history
<1>2. CASE SupStranded
  <2>1. CASE apClients = 0 /\ sup.stranded + 1 >= StrandedAfter
    BY <1>2, <2>1, RebootTyped DEF SupStranded
  <2>2. CASE ~(apClients = 0 /\ sup.stranded + 1 >= StrandedAfter)
    <3> DEFINE n == IF apClients > 0 THEN 0 ELSE sup.stranded + 1
    <3>1. n \in 0..StrandedAfter
      BY <1>0, <2>2 DEF TypeInv, FlagsTyped
    <3>2. Sleep(sup.kick, n) /\ UNCHANGED <<main, bits, flags, stale, statusDue, mqtt,
                                           driver, outside, history>>
      BY <1>2, <2>2 DEF SupStranded
    <3> QED
      BY <1>0, <1>1, <3>1, <3>2, SleepTyped
  <2> QED
    BY <2>1, <2>2
<1>3. CASE SupIdle
  BY <1>1, <1>3, SleepTyped, Zeros DEF SupIdle
<1>4. CASE SupRead
  <2>1. sup' \in SupType
    BY <1>4, Zeros DEF SupRead, TypeInv, TasksTyped, SupType
  <2>2. stale' \in 0..StaleCap
    BY <1>4, Zeros DEF SupRead, TypeInv, TasksTyped
  <2>3. UNCHANGED <<main, bits, flags, statusDue, mqtt, driver, outside, history>>
    BY <1>4 DEF SupRead
  <2> QED
    BY <2>1, <2>2, <2>3 DEF TypeInv, MainTyped, FlagsTyped, TasksTyped, DriverTyped,
       OutsideTyped, HistoryTyped, flags, driver, outside, history
<1>5. ASSUME NEW age \in 0..StaleCap, SupSubtract(age) PROVE TypeInv'
  <2>1. CASE Sleep(0, 0) /\ UNCHANGED <<main, bits, flags, stale, statusDue, mqtt, driver,
                                       outside, history>>
    BY <1>1, <2>1, SleepTyped, Zeros
  <2>2. CASE Reboot("outage")
    BY <2>2, RebootTyped
  <2>3. CASE /\ IF sup.kick + 1 >= KickEvery
                THEN /\ Sleep(0, 0)
                     /\ IF sta \in {"up", "zombie", "trying"}
                        THEN Post("disconnected") ELSE UNCHANGED events
                     /\ sta' = IF sta = "off" THEN "off" ELSE "trying"
                ELSE Sleep(sup.kick + 1, 0) /\ UNCHANGED <<events, sta>>
             /\ UNCHANGED <<main, bits, flags, stale, statusDue, mqtt, apUp, clients,
                            outside, history>>
    <3>1. sup' \in SupType
      <4>1. CASE sup.kick + 1 >= KickEvery
        BY <2>3, <4>1, SleepTyped, Zeros
      <4>2. CASE ~(sup.kick + 1 >= KickEvery)
        <5>1. sup.kick + 1 \in 0..KickEvery
          BY <1>0, <4>2
        <5> QED
          BY <2>3, <4>2, <5>1, SleepTyped, Zeros
      <4> QED
        BY <4>1, <4>2
    <3>2. events' \in Seq(EventKinds) /\ sta' \in {"off", "trying", sta}
      BY <2>3, PostTyped DEF TypeInv, DriverTyped, EventKinds
    <3> QED
      BY <2>3, <3>1, <3>2 DEF TypeInv, MainTyped, FlagsTyped, TasksTyped, DriverTyped,
         OutsideTyped, HistoryTyped, flags, outside, history
  <2> QED
    BY <1>5, <2>1, <2>2, <2>3 DEF SupSubtract
<1> QED
  BY <1>2, <1>3, <1>4, <1>5 DEF Supervisor

LEMMA StatusStep ==
  ASSUME TypeInv, StatusPass
  PROVE  TypeInv'
<1>1. good' \in 0..StaleCap
  BY CapTyped, Zeros DEF StatusPass, TypeInv, HistoryTyped
<1>2. stale' \in 0..StaleCap /\ sup' \in SupType
  BY NotifyTyped DEF StatusPass, TypeInv, TasksTyped
<1>3. statusDue' = FALSE
      /\ UNCHANGED <<main, bits, flags, mqtt, driver, outside, late, stayed, quiet, cause>>
  BY DEF StatusPass
<1>4. MainTyped' /\ FlagsTyped' /\ DriverTyped' /\ OutsideTyped'
  BY <1>3 DEF TypeInv, MainTyped, FlagsTyped, DriverTyped, OutsideTyped, flags, driver, outside
<1>5. TasksTyped'
  BY <1>2, <1>3 DEF TypeInv, TasksTyped
<1>6. HistoryTyped'
  BY <1>1, <1>3 DEF TypeInv, HistoryTyped
<1> QED
  BY <1>4, <1>5, <1>6 DEF TypeInv

LEMMA TickStep ==
  ASSUME TypeInv, Tick
  PROVE  TypeInv'
<1>1. main' \in MainType
  <2>1. CASE main.pc = "wait"
    <3>1. main.waited + 1 \in 0..StaTimeout
      BY <2>1, WifiAssumption DEF Tick, TypeInv, MainTyped, MainType
    <3> QED
      BY <2>1, <3>1 DEF Tick, TypeInv, MainTyped, MainType
  <2>2. CASE main.pc # "wait"
    BY <2>2 DEF Tick, TypeInv, MainTyped
  <2> QED
    BY <2>1, <2>2
<1>2. stale' \in 0..StaleCap /\ quiet' \in 0..StaleCap
  BY CapTyped, Zeros DEF Tick, TypeInv, TasksTyped, HistoryTyped
<1>3. sup' \in SupType
  BY DEF Tick, TypeInv, TasksTyped, SupType
<1>4. stayed' \in BOOLEAN /\ statusDue' \in BOOLEAN
  BY Zenon DEF Tick
<1>5. UNCHANGED <<bits, flags, mqtt, driver, outside, late, good, cause>>
  BY DEF Tick
<1> QED
  BY <1>1, <1>2, <1>3, <1>4, <1>5 DEF TypeInv, MainTyped, FlagsTyped, TasksTyped,
     DriverTyped, OutsideTyped, HistoryTyped, flags, driver, outside

(* The driver, the network and the people.                                 *)
Outside ==
  \/ Radio \/ MqttConnects \/ MqttLost
  \/ \E n \in {"ok", "nobroker", "norouter"} : NetChanges(n)
  \/ Zombie \/ Joins \/ Leaves

LEMMA OutsideStep ==
  ASSUME TypeInv, Outside
  PROVE  TypeInv'
<1>0. trouble \in 0..MaxTrouble /\ MaxTrouble \in Nat
  BY WifiAssumption DEF TypeInv, OutsideTyped
<1>1. CASE Radio
  <2>1. events' \in Seq(EventKinds)
    BY <1>1, PostTyped DEF Radio, StaJoins, StaFails, LinkLost, TypeInv, DriverTyped, EventKinds
  <2>2. sta' \in {"up", "idle"}
        /\ UNCHANGED <<main, bits, flags, stale, sup, statusDue, mqtt, apUp, clients,
                       outside, history>>
    BY <1>1 DEF Radio, StaJoins, StaFails, LinkLost
  <2> QED
    BY <2>1, <2>2 DEF TypeInv, MainTyped, FlagsTyped, TasksTyped, DriverTyped,
       OutsideTyped, HistoryTyped, flags, outside, history
<1>2. CASE MqttConnects \/ MqttLost
  <2>1. mqtt' \in {"off", "on"}
        /\ UNCHANGED <<main, bits, flags, stale, sup, statusDue, driver, outside, history>>
    BY <1>2 DEF MqttConnects, MqttLost
  <2> QED
    BY <2>1 DEF TypeInv, MainTyped, FlagsTyped, TasksTyped, DriverTyped,
       OutsideTyped, HistoryTyped, flags, driver, outside, history
<1>3. ASSUME NEW n \in {"ok", "nobroker", "norouter"}, NetChanges(n) PROVE TypeInv'
  <2>1. trouble' \in 0..MaxTrouble /\ net' = n
    BY <1>0, <1>3 DEF NetChanges
  <2>2. UNCHANGED <<main, bits, flags, stale, sup, statusDue, mqtt, driver, g_config,
                    history>>
    BY <1>3 DEF NetChanges
  <2> QED
    BY <2>1, <2>2 DEF TypeInv, MainTyped, FlagsTyped, TasksTyped, DriverTyped,
       OutsideTyped, HistoryTyped, flags, driver, history
<1>4. CASE Zombie
  <2>1. trouble' \in 0..MaxTrouble /\ sta' = "zombie"
    BY <1>0, <1>4 DEF Zombie
  <2>2. UNCHANGED <<main, bits, flags, stale, sup, statusDue, mqtt, apUp, clients, events,
                    g_config, net, history>>
    BY <1>4 DEF Zombie
  <2> QED
    BY <2>1, <2>2 DEF TypeInv, MainTyped, FlagsTyped, TasksTyped, DriverTyped,
       OutsideTyped, HistoryTyped, flags, history
<1>5. CASE Joins
  <2>1. trouble' \in 0..MaxTrouble /\ clients' = 1
    BY <1>0, <1>5 DEF Joins
  <2>2. events' \in Seq(EventKinds)
    BY <1>5, PostTyped DEF Joins, TypeInv, DriverTyped, EventKinds
  <2>3. UNCHANGED <<main, bits, flags, stale, sup, statusDue, mqtt, sta, apUp, g_config,
                    net, history>>
    BY <1>5 DEF Joins
  <2> QED
    BY <2>1, <2>2, <2>3 DEF TypeInv, MainTyped, FlagsTyped, TasksTyped, DriverTyped,
       OutsideTyped, HistoryTyped, flags, history
<1>6. CASE Leaves
  <2>1. events' \in Seq(EventKinds)
    BY <1>6, PostTyped DEF Leaves, TypeInv, DriverTyped, EventKinds
  <2>2. clients' = 0 /\ stayed' \in BOOLEAN
        /\ UNCHANGED <<main, bits, flags, stale, sup, statusDue, mqtt, sta, apUp, outside,
                       late, good, quiet, cause>>
    BY <1>6 DEF Leaves
  <2> QED
    BY <2>1, <2>2 DEF TypeInv, MainTyped, FlagsTyped, TasksTyped, DriverTyped,
       OutsideTyped, HistoryTyped, flags, outside
<1> QED
  BY <1>1, <1>2, <1>3, <1>4, <1>5, <1>6 DEF Outside

(* The setup page.                                                         *)
Page ==
  \/ \E b \in BOOLEAN : ConfigWifiPost(b) \/ ConfigMqttPost(b)
  \/ \E w \in Windows : ConfigSomfyPost(w)
  \/ RebootPost

LEMMA PageStep ==
  ASSUME TypeInv, Page
  PROVE  TypeInv'
<1>0. ASSUME Reachable, trouble' = trouble - 1 PROVE trouble' \in 0..MaxTrouble
  BY <1>0, WifiAssumption DEF Reachable, TypeInv, OutsideTyped
<1>1. ASSUME Boot, g_config' \in ConfigType, trouble' \in 0..MaxTrouble,
             UNCHANGED <<net, cause>>
      PROVE  TypeInv'
  BY <1>1, BootTyped DEF TypeInv, OutsideTyped, HistoryTyped
<1>2. ASSUME g_config' \in ConfigType, trouble' \in 0..MaxTrouble,
             UNCHANGED <<main, bits, flags, stale, sup, statusDue, mqtt, driver, net, history>>
      PROVE  TypeInv'
  BY <1>2 DEF TypeInv, MainTyped, FlagsTyped, TasksTyped, DriverTyped, OutsideTyped,
     HistoryTyped, flags, driver, history
<1>3. ASSUME NEW b \in BOOLEAN, ConfigWifiPost(b) PROVE TypeInv'
  <2>1. g_config' \in ConfigType
    BY <1>3 DEF ConfigWifiPost, TypeInv, OutsideTyped, ConfigType
  <2> QED
    BY <1>0, <1>1, <1>3, <2>1 DEF ConfigWifiPost
<1>4. ASSUME NEW b \in BOOLEAN, ConfigMqttPost(b) PROVE TypeInv'
  <2>1. g_config' \in ConfigType
    BY <1>4 DEF ConfigMqttPost, TypeInv, OutsideTyped, ConfigType
  <2> QED
    BY <1>0, <1>2, <1>4, <2>1 DEF ConfigMqttPost
<1>5. ASSUME NEW w \in Windows, ConfigSomfyPost(w) PROVE TypeInv'
  <2>1. g_config' \in ConfigType
    BY <1>5 DEF ConfigSomfyPost, TypeInv, OutsideTyped, ConfigType
  <2> QED
    BY <1>0, <1>2, <1>5, <2>1 DEF ConfigSomfyPost
<1>6. CASE RebootPost
  <2>1. g_config' \in ConfigType
    BY <1>6 DEF RebootPost, TypeInv, OutsideTyped
  <2> QED
    BY <1>0, <1>1, <1>6, <2>1 DEF RebootPost
<1> QED
  BY <1>3, <1>4, <1>5, <1>6 DEF Page

LEMMA NextInGroups ==
  Next => Main \/ Handler \/ Supervisor \/ StatusPass \/ Tick \/ Outside \/ Page
  BY DEF Next, Outside, Page

LEMMA TypeStep ==
  ASSUME TypeInv, [Next]_vars
  PROVE  TypeInv'
<1>1. CASE UNCHANGED vars
  BY <1>1 DEF vars, TypeInv, MainTyped, FlagsTyped, TasksTyped, DriverTyped, OutsideTyped,
     HistoryTyped, flags, driver, outside, history
<1> QED
  BY <1>1, NextInGroups, MainStep, HandlerStep, SupervisorStep, StatusStep, TickStep,
     OutsideStep, PageStep

LEMMA TypeInit == Init => TypeInv
<1> SUFFICES ASSUME Init PROVE TypeInv
  OBVIOUS
<1>1. MainTyped
  <2>1. Starting \in MainType
    BY Zeros DEF Starting, MainType
  <2> QED
    BY <2>1 DEF Init, MainTyped
<1>2. FlagsTyped
  BY Zeros DEF Init, FlagsTyped
<1>3. TasksTyped
  <2>1. [pc |-> "sleep", due |-> FALSE, fed |-> FALSE, kick |-> 0, stranded |-> 0] \in SupType
    BY Zeros DEF SupType
  <2> QED
    BY <2>1, Zeros DEF Init, TasksTyped
<1>4. DriverTyped
  <2>1. <<>> \in Seq(EventKinds) /\ 0 \in 0..1
    BY EmptySeq
  <2> QED
    BY <2>1 DEF Init, DriverTyped
<1>5. OutsideTyped
  <2>1. g_config \in ConfigType
    BY WifiAssumption DEF Init, ConfigType
  <2> QED
    BY <2>1, WifiAssumption DEF Init, OutsideTyped
<1>6. HistoryTyped
  <2>1. NoCause \in CauseType
    BY Zeros DEF NoCause, CauseType
  <2> QED
    BY <2>1, Zeros DEF Init, HistoryTyped
<1> QED
  BY <1>1, <1>2, <1>3, <1>4, <1>5, <1>6 DEF TypeInv

(* TypeInvariant: TypeOK, in groups.                                       *)
THEOREM TypeInvariant == Spec => []TypeInv
<1>1. TypeInv /\ [Next]_vars => TypeInv'
  BY TypeStep
<1> QED
  BY <1>1, TypeInit, PTL DEF Spec

(* TypeCorrect: every variable has its type in every reachable state: the   *)
(* fast retries end, and the counters of the supervisor stay within their   *)
(* windows, for every size of them.                                         *)
THEOREM TypeCorrect == Spec => []TypeOK
  BY TypeInvariant, TypeInvImplies, PTL
-----------------------------------------------------------------------------
(* What the flags will say *)

(***************************************************************************)
(* FlagsFollowDriver speaks of an empty queue.  Its inductive form speaks  *)
(* of every state: the posted events, handled one after the other, lead    *)
(* from what the flags say to what the driver does.  A handler takes the   *)
(* first step of that path; a change of the driver posts the event that    *)
(* adds its last one.                                                      *)
(***************************************************************************)
Flags  == [connected |-> connected, apMode |-> apMode, clients |-> apClients]
Driver == [connected |-> sta \in {"up", "zombie"}, apMode |-> apUp, clients |-> clients]
Seen   == [connected : BOOLEAN, apMode : BOOLEAN, clients : Nat]

(* What the handler of event e makes of the flags s. *)
Turned(e, s) ==
  CASE e = "disconnected" -> [s EXCEPT !.connected = FALSE]
    [] e = "got_ip"       -> [s EXCEPT !.connected = TRUE, !.apMode = FALSE]
    [] e = "ap_start"     -> [s EXCEPT !.apMode = TRUE]
    [] e = "joined"       -> [s EXCEPT !.clients = @ + 1]
    [] e = "left"         -> [s EXCEPT !.clients = IF @ > 0 THEN @ - 1 ELSE 0]
    [] e = "sta_start"    -> s

Leads(a, q, b) ==
  \E p \in [0..Len(q) -> Seen] :
    /\ p[0] = a /\ p[Len(q)] = b
    /\ \A i \in 1..Len(q) : p[i] = Turned(q[i], p[i - 1])

LEMMA LeadsNowhere ==
  ASSUME NEW a \in Seen, NEW b
  PROVE  Leads(a, <<>>, b) <=> b = a
<1>1. Len(<<>>) = 0
  BY EmptySeq
<1>2. ASSUME b = a PROVE Leads(a, <<>>, b)
  <2> DEFINE p == [i \in 0..0 |-> a]
  <2>1. p \in [0..0 -> Seen] /\ p[0] = a
    OBVIOUS
  <2> HIDE DEF p
  <2>2. /\ p \in [0..Len(<<>>) -> Seen] /\ p[0] = a /\ p[Len(<<>>)] = b
        /\ \A i \in 1..Len(<<>>) : p[i] = Turned(<<>>[i], p[i - 1])
    BY <1>1, <1>2, <2>1
  <2> QED
    BY <2>2 DEF Leads
<1>3. ASSUME Leads(a, <<>>, b) PROVE b = a
  BY <1>1, <1>3 DEF Leads
<1> QED
  BY <1>2, <1>3

LEMMA LeadsAppend ==
  ASSUME NEW a, NEW q \in Seq(EventKinds), NEW b, Leads(a, q, b),
         NEW e \in EventKinds, Turned(e, b) \in Seen
  PROVE  Leads(a, Append(q, e), Turned(e, b))
<1> DEFINE n == Len(q)
<1>1. n \in Nat
  BY LenProperties
<1>2. Len(Append(q, e)) = n + 1 /\ Append(q, e)[n + 1] = e
      /\ \A i \in 1..n : Append(q, e)[i] = q[i]
  BY AppendProperties
<1>3. PICK p \in [0..n -> Seen] : /\ p[0] = a /\ p[n] = b
                                  /\ \A i \in 1..n : p[i] = Turned(q[i], p[i - 1])
  BY DEF Leads
<1> HIDE DEF n
<1> DEFINE r == [i \in 0..n + 1 |-> IF i = n + 1 THEN Turned(e, b) ELSE p[i]]
<1>4. r \in [0..n + 1 -> Seen]
  BY <1>1, <1>3
<1>5. r[n + 1] = Turned(e, b) /\ \A i \in 0..n : r[i] = p[i]
  BY <1>1
<1> HIDE DEF r
<1>6. ASSUME NEW i \in 1..n + 1 PROVE r[i] = Turned(Append(q, e)[i], r[i - 1])
  <2>1. CASE i = n + 1
    BY <1>1, <1>2, <1>3, <1>5, <2>1
  <2>2. CASE i \in 1..n
    BY <1>1, <1>2, <1>3, <1>5, <2>2
  <2>3. i = n + 1 \/ i \in 1..n
    BY <1>1
  <2> QED
    BY <2>1, <2>2, <2>3
<1>7. r[0] = a
  BY <1>1, <1>3, <1>5
<1> QED
  BY <1>2, <1>4, <1>5, <1>6, <1>7 DEF Leads

LEMMA LeadsTail ==
  ASSUME NEW a, NEW q \in Seq(EventKinds), q # <<>>, NEW b, Leads(a, q, b)
  PROVE  Leads(Turned(Head(q), a), Tail(q), b)
<1> DEFINE n == Len(q)
<1>1. n \in Nat \ {0}
  BY LenProperties, EmptySeq
<1>2. /\ Len(Tail(q)) = n - 1 /\ Head(q) = q[1]
      /\ \A i \in 1..n - 1 : Tail(q)[i] = q[i + 1]
  BY HeadTailProperties
<1>3. PICK p \in [0..n -> Seen] : /\ p[0] = a /\ p[n] = b
                                  /\ \A i \in 1..n : p[i] = Turned(q[i], p[i - 1])
  BY DEF Leads
<1> HIDE DEF n
<1> DEFINE r == [i \in 0..n - 1 |-> p[i + 1]]
<1>4. r \in [0..n - 1 -> Seen] /\ \A i \in 0..n - 1 : r[i] = p[i + 1]
  BY <1>1, <1>3
<1>5. r[0] = Turned(Head(q), a) /\ r[n - 1] = b
  BY <1>1, <1>2, <1>3, <1>4
<1>6. ASSUME NEW i \in 1..n - 1 PROVE r[i] = Turned(Tail(q)[i], r[i - 1])
  <2>1. i + 1 \in 1..n /\ i \in 0..n - 1 /\ i - 1 \in 0..n - 1
        /\ (i + 1) - 1 = i /\ (i - 1) + 1 = i
    BY <1>1
  <2>2. r[i] = p[i + 1] /\ r[i - 1] = p[i] /\ p[i + 1] = Turned(q[i + 1], p[i])
    BY <1>3, <1>4, <2>1
  <2> QED
    BY <1>2, <2>2
<1> QED
  BY <1>2, <1>4, <1>5, <1>6 DEF Leads

Path == Leads(Flags, events, Driver)

(* The AP and the station exclude each other, and nothing says there is an *)
(* AP before there is one.                                                 *)
ApInv ==
  /\ apUp => sta = "off"
  /\ main.pc \in {"start", "ap"} => sta = "off"
  /\ main.pc = "start" => ~apUp
  /\ apMode => apUp
  /\ \A i \in 1..Len(events) : events[i] = "ap_start" => apUp

LEMMA DriverStays ==
  ASSUME UNCHANGED <<apUp, clients>>, sta' \in {"up", "zombie"} <=> sta \in {"up", "zombie"}
  PROVE  Driver' = Driver
<1>1. (sta' \in {"up", "zombie"}) = (sta \in {"up", "zombie"})
  OBVIOUS
<1> QED
  BY <1>1, Zenon DEF Driver

LEMMA PathStays ==
  ASSUME Path, Flags' = Flags, Driver' = Driver, events' = events
  PROVE  Path'
  BY DEF Path

LEMMA PathHandled ==
  ASSUME TypeInv, Path, NEW e, Handle(e), Flags' = Turned(e, Flags), Driver' = Driver
  PROVE  Path'
  BY LeadsTail DEF Path, Handle, TypeInv, DriverTyped

LEMMA PathPosted ==
  ASSUME TypeInv, TypeInv', Path, NEW e \in EventKinds, Post(e),
         Flags' = Flags, Driver' = Turned(e, Driver)
  PROVE  Path'
<1>1. Turned(e, Driver) \in Seen
  <2>1. (sta' \in {"up", "zombie"}) \in BOOLEAN /\ apUp' \in BOOLEAN /\ clients' \in Nat
    BY DEF TypeInv, DriverTyped
  <2>2. Driver' \in Seen
    BY <2>1, Zenon DEF Driver, Seen
  <2> QED
    BY <2>2
<1> QED
  BY <1>1, LeadsAppend DEF Path, Post, TypeInv, DriverTyped

LEMMA PathBooted ==
  ASSUME Boot
  PROVE  Path'
<1> DEFINE s == [connected |-> FALSE, apMode |-> FALSE, clients |-> 0]
<1>1. s \in Seen
  BY DEF Seen
<1>2. events' = <<>> /\ Flags' = s
  BY DEF Boot, Flags
<1>3. Driver' = s
  <2>1. (sta' \in {"up", "zombie"}) = FALSE
    BY DEF Boot
  <2> QED
    BY <2>1, Zenon DEF Boot, Driver
<1> QED
  BY <1>1, <1>2, <1>3, LeadsNowhere DEF Path
LEMMA ApStep ==
  ASSUME TypeInv, ApInv, [Next]_vars
  PROVE  ApInv'
<1> USE DEF ApInv
<1>0. Len(events) \in Nat /\ events \in Seq(EventKinds)
  BY LenProperties DEF TypeInv, DriverTyped
<1>1. ASSUME NEW e \in EventKinds, Post(e)
      PROVE  \A i \in 1..Len(events') : events'[i] = "ap_start" =>
               e = "ap_start" \/ \E j \in 1..Len(events) : events[j] = "ap_start"
  <2>1. Len(events') = Len(events) + 1 /\ events'[Len(events) + 1] = e
        /\ \A i \in 1..Len(events) : events'[i] = events[i]
    BY <1>0, <1>1, AppendProperties DEF Post
  <2>2. ASSUME NEW i \in 1..Len(events') PROVE i \in 1..Len(events) \/ i = Len(events) + 1
    BY <1>0, <2>1
  <2> QED
    BY <2>1, <2>2
<1>2. ASSUME NEW e, Handle(e)
      PROVE  /\ \A i \in 1..Len(events') : events'[i] = "ap_start" => apUp
             /\ e = "ap_start" => apUp
  <2>1. events # <<>> /\ events' = Tail(events) /\ Head(events) = e
    BY <1>2 DEF Handle
  <2>2. Len(events) \in Nat \ {0}
    BY <1>0, <2>1, EmptySeq
  <2>3. /\ Len(events') = Len(events) - 1 /\ e = events[1]
        /\ \A i \in 1..Len(events') : events'[i] = events[i + 1]
    BY <1>0, <2>1, HeadTailProperties
  <2>4. e = "ap_start" => apUp
    <3>1. 1 \in 1..Len(events)
      BY <2>2
    <3> QED
      BY <2>3, <3>1
  <2>5. ASSUME NEW i \in 1..Len(events') PROVE i + 1 \in 1..Len(events)
    BY <2>2, <2>3
  <2> QED
    BY <2>3, <2>4, <2>5
<1>3. ASSUME Boot PROVE ApInv'
  <2>1. Len(events') = 0
    BY <1>3, EmptySeq DEF Boot
  <2> QED
    BY <1>3, <2>1 DEF Boot, Starting
<1>4. CASE MainStart
  <2>1. main'.pc \notin {"start", "ap"} /\ apMode' = apMode
    BY <1>4 DEF MainStart, TypeInv, MainTyped, MainType
  <2>2. CASE g_config.ssid
    <3>1. Post("sta_start") /\ apUp' = apUp
      BY <1>4, <2>2 DEF MainStart
    <3> QED
      BY <1>1, <1>4, <2>1, <3>1 DEF MainStart, EventKinds
  <2>3. CASE ~g_config.ssid
    BY <1>4, <2>1, <2>3 DEF MainStart, StartAp
  <2> QED
    BY <2>2, <2>3
<1>5. CASE MainWait
  BY <1>5 DEF MainWait, flags, driver
<1>6. CASE MainStop
  <2>1. sta' = "off" /\ main'.pc = "ap" /\ UNCHANGED <<apUp, apMode>>
    BY <1>6 DEF MainStop, TypeInv, MainTyped, MainType, flags
  <2>2. Post("disconnected") \/ UNCHANGED events
    BY <1>6 DEF MainStop
  <2> QED
    BY <1>1, <2>1, <2>2 DEF EventKinds
<1>7. CASE MainAp
  <2>1. sta' = "off" /\ main'.pc = "app" /\ apUp'
    BY <1>7 DEF MainAp, StartAp, TypeInv, MainTyped, MainType
  <2> QED
    BY <2>1
<1>8. CASE MainApp
  <2>1. main'.pc = "run" /\ UNCHANGED <<sta, apUp, apMode, events>>
    BY <1>8 DEF MainApp, TypeInv, MainTyped, MainType, flags, driver
  <2> QED
    BY <2>1
<1>9. CASE Handler
  <2>1. UNCHANGED <<main, apUp>> /\ (sta = "off" => sta' = "off")
    BY <1>9 DEF Handler, HandleStaStart, HandleDisconnected, HandleGotIp, HandleApStart,
       HandleJoined, HandleLeft, StaConnect
  <2>2. CASE HandleApStart
    BY <1>2, <2>1, <2>2 DEF HandleApStart
  <2>3. CASE ~HandleApStart
    <3>1. \E e : Handle(e)
      BY <1>9 DEF Handler, HandleStaStart, HandleDisconnected, HandleGotIp, HandleApStart,
         HandleJoined, HandleLeft
    <3>2. apMode' = FALSE \/ apMode' = apMode
      BY <1>9, <2>3 DEF Handler, HandleStaStart, HandleDisconnected, HandleGotIp,
         HandleJoined, HandleLeft, flags
    <3> QED
      BY <1>2, <2>1, <3>1, <3>2
  <2> QED
    BY <2>2, <2>3
<1>10. ASSUME UNCHANGED <<apUp, apMode, events>>, main'.pc = main.pc, sta' = sta
       PROVE  ApInv'
  BY <1>10
<1>11. CASE SupStranded
  BY <1>3, <1>10, <1>11 DEF SupStranded, Reboot, flags, driver
<1>12. CASE SupIdle \/ SupRead
  BY <1>10, <1>12 DEF SupIdle, SupRead, flags, driver
<1>13. ASSUME NEW age, SupSubtract(age) PROVE ApInv'
  <2>1. CASE Boot
    BY <1>3, <2>1
  <2>2. CASE ~Boot
    <3>1. /\ UNCHANGED <<main, apMode, apUp>> /\ (sta = "off" => sta' = "off")
          /\ Post("disconnected") \/ UNCHANGED events
      BY <1>13, <2>2 DEF SupSubtract, Reboot, flags, driver
    <3> QED
      BY <1>1, <3>1 DEF EventKinds
  <2> QED
    BY <2>1, <2>2
<1>14. CASE StatusPass
  BY <1>10, <1>14 DEF StatusPass, flags, driver
<1>15. CASE Tick
  <2>1. main'.pc = main.pc
    BY <1>15 DEF Tick, TypeInv, MainTyped, MainType
  <2> QED
    BY <1>10, <1>15, <2>1 DEF Tick, flags, driver
<1>16. CASE Radio
  <2>1. UNCHANGED <<main, apMode, apUp>> /\ sta # "off"
    BY <1>16 DEF Radio, StaJoins, StaFails, LinkLost, flags
  <2>2. \E e \in EventKinds \ {"ap_start"} : Post(e)
    BY <1>16 DEF Radio, StaJoins, StaFails, LinkLost, EventKinds
  <2> QED
    BY <1>1, <2>1, <2>2
<1>17. CASE MqttConnects \/ MqttLost
  BY <1>10, <1>17 DEF MqttConnects, MqttLost, flags, driver
<1>18. ASSUME NEW n, NetChanges(n) PROVE ApInv'
  BY <1>10, <1>18 DEF NetChanges, flags, driver
<1>19. CASE Zombie
  BY <1>19 DEF Zombie, flags
<1>20. CASE Joins
  <2>1. UNCHANGED <<main, apMode, apUp, sta>> /\ Post("joined")
    BY <1>20 DEF Joins, flags
  <2> QED
    BY <1>1, <2>1 DEF EventKinds
<1>21. CASE Leaves
  <2>1. UNCHANGED <<main, apMode, apUp, sta>> /\ Post("left")
    BY <1>21 DEF Leaves, flags
  <2> QED
    BY <1>1, <2>1 DEF EventKinds
<1>22. CASE Page
  <2>1. Boot \/ UNCHANGED <<main, flags, driver>>
    BY <1>22 DEF Page, ConfigWifiPost, ConfigMqttPost, ConfigSomfyPost, RebootPost
  <2> QED
    BY <1>3, <1>10, <2>1 DEF flags, driver
<1>23. CASE UNCHANGED vars
  BY <1>10, <1>23 DEF vars, flags, driver
<1> QED
  BY <1>4, <1>5, <1>6, <1>7, <1>8, <1>9, <1>11, <1>12, <1>13, <1>14, <1>15, <1>16, <1>17,
     <1>18, <1>19, <1>20, <1>21, <1>22, <1>23, NextInGroups DEF Main, Supervisor, Outside
(* The bits an event changes, given as one record.                         *)
LEMMA FlagsTurn ==
  ASSUME FlagsTyped
  PROVE  /\ Turned("sta_start", Flags) = Flags
         /\ Turned("disconnected", Flags) =
              [connected |-> FALSE, apMode |-> apMode, clients |-> apClients]
         /\ Turned("got_ip", Flags) =
              [connected |-> TRUE, apMode |-> FALSE, clients |-> apClients]
         /\ Turned("ap_start", Flags) =
              [connected |-> connected, apMode |-> TRUE, clients |-> apClients]
         /\ Turned("joined", Flags) =
              [connected |-> connected, apMode |-> apMode, clients |-> apClients + 1]
         /\ Turned("left", Flags) =
              [connected |-> connected, apMode |-> apMode,
               clients |-> IF apClients > 0 THEN apClients - 1 ELSE 0]
<1>1. Flags = [connected |-> connected, apMode |-> apMode, clients |-> apClients]
  BY DEF Flags
<1>2. connected \in BOOLEAN /\ apMode \in BOOLEAN /\ apClients \in Nat
  BY DEF FlagsTyped
<1>3. Turned("sta_start", Flags) = Flags
  BY DEF Turned
<1>4. Turned("disconnected", Flags) =
        [connected |-> FALSE, apMode |-> apMode, clients |-> apClients]
  BY <1>1, <1>2 DEF Turned
<1>5. Turned("got_ip", Flags) =
        [connected |-> TRUE, apMode |-> FALSE, clients |-> apClients]
  BY <1>1, <1>2 DEF Turned
<1>6. Turned("ap_start", Flags) =
        [connected |-> connected, apMode |-> TRUE, clients |-> apClients]
  BY <1>1, <1>2 DEF Turned
<1>7. Turned("joined", Flags) =
        [connected |-> connected, apMode |-> apMode, clients |-> apClients + 1]
  BY <1>1, <1>2 DEF Turned
<1>8. Turned("left", Flags) =
        [connected |-> connected, apMode |-> apMode,
         clients |-> IF apClients > 0 THEN apClients - 1 ELSE 0]
  BY <1>1, <1>2 DEF Turned
<1> QED
  BY <1>3, <1>4, <1>5, <1>6, <1>7, <1>8

LEMMA DriverTurn ==
  ASSUME DriverTyped, NEW up \in BOOLEAN, up <=> sta \in {"up", "zombie"}
  PROVE  /\ Turned("sta_start", Driver) = Driver
         /\ Turned("disconnected", Driver) =
              [connected |-> FALSE, apMode |-> apUp, clients |-> clients]
         /\ Turned("got_ip", Driver) =
              [connected |-> TRUE, apMode |-> FALSE, clients |-> clients]
         /\ Turned("ap_start", Driver) =
              [connected |-> up, apMode |-> TRUE, clients |-> clients]
         /\ clients = 0 => Turned("joined", Driver) =
              [connected |-> up, apMode |-> apUp, clients |-> 1]
         /\ clients = 1 => Turned("left", Driver) =
              [connected |-> up, apMode |-> apUp, clients |-> 0]
<1>1. (sta \in {"up", "zombie"}) = up
  OBVIOUS
<1>2. Driver = [connected |-> up, apMode |-> apUp, clients |-> clients]
  BY <1>1, Zenon DEF Driver
<1>3. clients \in Nat /\ apUp \in BOOLEAN
  BY DEF DriverTyped
<1>4. Turned("joined", Driver) = [connected |-> up, apMode |-> apUp, clients |-> clients + 1]
  BY <1>2, <1>3 DEF Turned
<1>5. Turned("left", Driver) = [connected |-> up, apMode |-> apUp,
                                clients |-> IF clients > 0 THEN clients - 1 ELSE 0]
  BY <1>2, <1>3 DEF Turned
<1>6. /\ clients = 0 => clients + 1 = 1
      /\ clients = 1 => (IF clients > 0 THEN clients - 1 ELSE 0) = 0
  OBVIOUS
<1>7. Turned("sta_start", Driver) = Driver
  BY DEF Turned
<1>8. Turned("disconnected", Driver) =
        [connected |-> FALSE, apMode |-> apUp, clients |-> clients]
  BY <1>2, <1>3 DEF Turned
<1>9. Turned("got_ip", Driver) =
        [connected |-> TRUE, apMode |-> FALSE, clients |-> clients]
  BY <1>2, <1>3 DEF Turned
<1>10. Turned("ap_start", Driver) =
         [connected |-> up, apMode |-> TRUE, clients |-> clients]
  BY <1>2, <1>3 DEF Turned
<1> QED
  BY <1>4, <1>5, <1>6, <1>7, <1>8, <1>9, <1>10

(* The driver after a change, as a record. *)
LEMMA DriverIs ==
  ASSUME NEW up \in BOOLEAN, up <=> sta' \in {"up", "zombie"}
  PROVE  Driver' = [connected |-> up, apMode |-> apUp', clients |-> clients']
<1>1. (sta' \in {"up", "zombie"}) = up
  OBVIOUS
<1> QED
  BY <1>1, Zenon DEF Driver

LEMMA PathStep ==
  ASSUME TypeInv, TypeInv', ApInv, Path, [Next]_vars
  PROVE  Path'
<1>0. FlagsTyped /\ DriverTyped /\ TRUE \in BOOLEAN /\ FALSE \in BOOLEAN
  BY DEF TypeInv
<1>1. ASSUME UNCHANGED <<flags, apUp, clients, events>>,
             sta' \in {"up", "zombie"} <=> sta \in {"up", "zombie"}
      PROVE  Path'
  <2>1. Flags' = Flags
    BY <1>1 DEF Flags, flags
  <2> QED
    BY <1>1, <2>1, DriverStays, PathStays
<1>2. ASSUME Post("disconnected"), UNCHANGED <<connected, apMode, apClients, apUp, clients>>,
             sta' \notin {"up", "zombie"}
      PROVE  Path'
  <2>1. Driver' = [connected |-> FALSE, apMode |-> apUp, clients |-> clients]
    BY <1>0, <1>2, DriverIs
  <2>2. Driver' = Turned("disconnected", Driver) /\ Flags' = Flags
    BY <1>0, <1>2, <2>1, DriverTurn DEF Flags
  <2> QED
    BY <1>2, <2>2, PathPosted DEF EventKinds
<1>3. CASE MainStart
  <2>1. sta = "off" /\ ~apUp /\ Flags' = Flags /\ clients' = clients
    BY <1>3 DEF MainStart, ApInv, Flags
  <2>2. CASE g_config.ssid
    <3>1. Driver' = Driver /\ Post("sta_start")
      BY <1>3, <2>1, <2>2, DriverStays DEF MainStart
    <3> QED
      BY <1>0, <2>1, <3>1, DriverTurn, PathPosted DEF EventKinds
  <2>3. CASE ~g_config.ssid
    <3>1. sta' = "off" /\ apUp' = TRUE /\ Post("ap_start")
      BY <1>3, <2>1, <2>3 DEF MainStart, StartAp
    <3>2. Driver' = [connected |-> FALSE, apMode |-> TRUE, clients |-> clients]
      BY <1>0, <2>1, <3>1, DriverIs
    <3>3. Driver' = Turned("ap_start", Driver)
      BY <1>0, <2>1, <3>2, DriverTurn
    <3> QED
      BY <2>1, <3>1, <3>3, PathPosted DEF EventKinds
  <2> QED
    BY <2>2, <2>3
<1>4. CASE MainWait \/ MainApp
  BY <1>1, <1>4 DEF MainWait, MainApp, driver
<1>5. CASE MainStop
  <2>1. sta' = "off" /\ UNCHANGED <<flags, apUp, clients>>
    BY <1>5 DEF MainStop
  <2>2. CASE sta \in {"up", "zombie"}
    BY <1>2, <1>5, <2>1, <2>2 DEF MainStop, flags
  <2>3. CASE sta \notin {"up", "zombie"}
    BY <1>1, <1>5, <2>1, <2>3 DEF MainStop
  <2> QED
    BY <2>2, <2>3
<1>6. CASE MainAp
  <2>1. sta = "off" /\ sta' = "off" /\ apUp' = TRUE /\ clients' = clients
        /\ Post("ap_start") /\ Flags' = Flags
    BY <1>6 DEF MainAp, StartAp, ApInv, flags, Flags
  <2>2. Driver' = [connected |-> FALSE, apMode |-> TRUE, clients |-> clients]
    BY <1>0, <2>1, DriverIs
  <2>3. Driver' = Turned("ap_start", Driver)
    BY <1>0, <2>1, <2>2, DriverTurn
  <2> QED
    BY <2>1, <2>3, PathPosted DEF EventKinds
<1>7. CASE HandleStaStart
  <2>1. Driver' = Driver /\ Flags' = Flags
    BY <1>7, DriverStays DEF HandleStaStart, StaConnect, Flags, flags
  <2> QED
    BY <1>0, <1>7, <2>1, FlagsTurn, PathHandled DEF HandleStaStart
<1>8. CASE HandleDisconnected
  <2>1. Driver' = Driver
    <3>1. sta' \in {"up", "zombie"} <=> sta \in {"up", "zombie"}
      BY <1>8 DEF HandleDisconnected, StaConnect
    <3> QED
      BY <1>8, <3>1, DriverStays DEF HandleDisconnected
  <2>2. Flags' = [connected |-> FALSE, apMode |-> apMode, clients |-> apClients]
    BY <1>8 DEF HandleDisconnected, Flags
  <2> QED
    BY <1>0, <1>8, <2>1, <2>2, FlagsTurn, PathHandled DEF HandleDisconnected
<1>9. CASE HandleGotIp
  <2>1. Driver' = Driver
    BY <1>9, DriverStays DEF HandleGotIp
  <2>2. Flags' = [connected |-> TRUE, apMode |-> FALSE, clients |-> apClients]
    BY <1>9 DEF HandleGotIp, Flags
  <2> QED
    BY <1>0, <1>9, <2>1, <2>2, FlagsTurn, PathHandled DEF HandleGotIp
<1>10. CASE HandleApStart
  <2>1. Driver' = Driver
    BY <1>10, DriverStays DEF HandleApStart
  <2>2. Flags' = [connected |-> connected, apMode |-> TRUE, clients |-> apClients]
    BY <1>10 DEF HandleApStart, Flags
  <2> QED
    BY <1>0, <1>10, <2>1, <2>2, FlagsTurn, PathHandled DEF HandleApStart
<1>11. CASE HandleJoined
  <2>1. Driver' = Driver
    BY <1>11, DriverStays DEF HandleJoined
  <2>2. Flags' = [connected |-> connected, apMode |-> apMode, clients |-> apClients + 1]
    BY <1>11 DEF HandleJoined, Flags
  <2> QED
    BY <1>0, <1>11, <2>1, <2>2, FlagsTurn, PathHandled DEF HandleJoined
<1>12. CASE HandleLeft
  <2>1. Driver' = Driver
    BY <1>12, DriverStays DEF HandleLeft
  <2>2. Flags' = [connected |-> connected, apMode |-> apMode,
                  clients |-> IF apClients > 0 THEN apClients - 1 ELSE 0]
    BY <1>12 DEF HandleLeft, Flags
  <2> QED
    BY <1>0, <1>12, <2>1, <2>2, FlagsTurn, PathHandled DEF HandleLeft
<1>13. CASE SupStranded
  BY <1>1, <1>13, PathBooted DEF SupStranded, Reboot, driver
<1>14. CASE SupIdle \/ SupRead \/ StatusPass \/ Tick \/ MqttConnects \/ MqttLost
  BY <1>1, <1>14 DEF SupIdle, SupRead, StatusPass, Tick, MqttConnects, MqttLost, driver
<1>15. ASSUME NEW age, SupSubtract(age) PROVE Path'
  <2>1. CASE Boot
    BY <2>1, PathBooted
  <2>2. CASE ~Boot
    <3>1. UNCHANGED <<flags, apUp, clients>>
      BY <1>15, <2>2 DEF SupSubtract, Reboot, driver
    <3>2. \/ UNCHANGED <<sta, events>>
          \/ /\ IF sta \in {"up", "zombie", "trying"}
                THEN Post("disconnected") ELSE UNCHANGED events
             /\ sta' = IF sta = "off" THEN "off" ELSE "trying"
      BY <1>15, <2>2 DEF SupSubtract, Reboot, driver
    <3>3. CASE UNCHANGED <<sta, events>>
      BY <1>1, <3>1, <3>3
    <3>4. CASE sta \in {"up", "zombie", "trying"} /\ Post("disconnected") /\ sta' = "trying"
      BY <1>2, <3>1, <3>4 DEF flags
    <3>5. CASE sta \notin {"up", "zombie", "trying"} /\ UNCHANGED events
               /\ sta' \in {"off", "trying"}
      BY <1>1, <3>1, <3>5
    <3> QED
      BY <3>2, <3>3, <3>4, <3>5
  <2> QED
    BY <2>1, <2>2
<1>16. CASE StaJoins
  <2>1. sta = "trying" /\ sta' = "up" /\ ~apUp /\ apUp' = apUp /\ clients' = clients
        /\ Post("got_ip") /\ Flags' = Flags
    BY <1>16 DEF StaJoins, ApInv, flags, Flags
  <2>2. apUp' = FALSE
    BY <1>0, <2>1 DEF DriverTyped
  <2>3. Driver' = [connected |-> TRUE, apMode |-> FALSE, clients |-> clients]
    BY <1>0, <2>1, <2>2, DriverIs
  <2>4. Driver' = Turned("got_ip", Driver)
    BY <1>0, <2>1, <2>3, DriverTurn
  <2> QED
    BY <2>1, <2>4, PathPosted DEF EventKinds
<1>17. CASE StaFails \/ LinkLost
  BY <1>2, <1>17 DEF StaFails, LinkLost, flags
<1>18. ASSUME NEW n, NetChanges(n) PROVE Path'
  BY <1>1, <1>18 DEF NetChanges, driver
<1>19. CASE Zombie
  BY <1>1, <1>19 DEF Zombie
<1>20. CASE Joins \/ Leaves
  <2>1. /\ UNCHANGED <<sta, apUp>> /\ Flags' = Flags
        /\ \/ clients = 0 /\ clients' = 1 /\ Post("joined")
           \/ clients = 1 /\ clients' = 0 /\ Post("left")
    BY <1>20 DEF Joins, Leaves, flags, Flags
  <2>2. PICK up \in BOOLEAN : up <=> sta \in {"up", "zombie"}
    BY Zenon
  <2>3. Driver' = [connected |-> up, apMode |-> apUp, clients |-> clients']
    BY <2>1, <2>2, DriverIs
  <2>4. CASE clients = 0 /\ clients' = 1 /\ Post("joined")
    <3>1. Driver' = Turned("joined", Driver)
      BY <1>0, <2>2, <2>3, <2>4, DriverTurn
    <3> QED
      BY <2>1, <2>4, <3>1, PathPosted DEF EventKinds
  <2>5. CASE clients = 1 /\ clients' = 0 /\ Post("left")
    <3>1. Driver' = Turned("left", Driver)
      BY <1>0, <2>2, <2>3, <2>5, DriverTurn
    <3> QED
      BY <2>1, <2>5, <3>1, PathPosted DEF EventKinds
  <2> QED
    BY <2>1, <2>4, <2>5
<1>21. CASE Page
  <2>1. Boot \/ UNCHANGED <<flags, driver>>
    BY <1>21 DEF Page, ConfigWifiPost, ConfigMqttPost, ConfigSomfyPost, RebootPost
  <2> QED
    BY <1>1, <2>1, PathBooted DEF driver
<1>22. CASE UNCHANGED vars
  BY <1>1, <1>22 DEF vars, driver
<1> QED
  BY <1>3, <1>4, <1>5, <1>6, <1>7, <1>8, <1>9, <1>10, <1>11, <1>12, <1>13, <1>14, <1>15,
     <1>16, <1>17, <1>18, <1>19, <1>20, <1>21, <1>22, NextInGroups
  DEF Main, Handler, Supervisor, Outside, Radio
FlagsInv == TypeInv /\ ApInv /\ Path

LEMMA FlagsInit == Init => FlagsInv
<1> SUFFICES ASSUME Init PROVE FlagsInv
  OBVIOUS
<1>1. TypeInv
  BY TypeInit
<1>2. ApInv
  <2>1. Len(events) = 0
    BY EmptySeq DEF Init
  <2> QED
    BY <2>1 DEF Init, ApInv
<1>3. Path
  <2> DEFINE s == [connected |-> FALSE, apMode |-> FALSE, clients |-> 0]
  <2>1. s \in Seen
    BY DEF Seen
  <2>2. events = <<>> /\ Flags = s
    BY DEF Init, Flags
  <2>3. Driver = s
    <3>1. (sta \in {"up", "zombie"}) = FALSE
      BY DEF Init
    <3> QED
      BY <3>1, Zenon DEF Init, Driver
  <2> QED
    BY <2>1, <2>2, <2>3, LeadsNowhere DEF Path
<1> QED
  BY <1>1, <1>2, <1>3 DEF FlagsInv

LEMMA FlagsStep ==
  ASSUME FlagsInv, [Next]_vars
  PROVE  FlagsInv'
  BY TypeStep, ApStep, PathStep DEF FlagsInv

LEMMA FlagsInvariant == Spec => []FlagsInv
<1>1. FlagsInv /\ [Next]_vars => FlagsInv'
  BY FlagsStep
<1> QED
  BY <1>1, FlagsInit, PTL DEF Spec

LEMMA FlagsSettled == FlagsInv => FlagsFollowDriver
<1> SUFFICES ASSUME FlagsInv, events = <<>> PROVE /\ connected <=> sta \in {"up", "zombie"}
                                                  /\ apMode <=> apUp
                                                  /\ apClients = clients
  BY DEF FlagsFollowDriver
<1>1. Flags \in Seen
  BY DEF FlagsInv, TypeInv, FlagsTyped, Flags, Seen
<1>2. Driver = Flags
  BY <1>1, LeadsNowhere DEF FlagsInv, Path
<1>3. Flags.connected = connected /\ Flags.apMode = apMode /\ Flags.clients = apClients
  BY DEF Flags
<1>4. Driver.connected = (sta \in {"up", "zombie"}) /\ Driver.apMode = apUp
      /\ Driver.clients = clients
  BY DEF Driver
<1>5. connected = (sta \in {"up", "zombie"}) /\ apMode = apUp /\ apClients = clients
  BY <1>2, <1>3, <1>4
<1> QED
  BY <1>5, Zenon

(* FlagsAreRight: whenever the events are handled, s_connected, s_ap_mode   *)
(* and the number of clients are those of the driver, for every number of   *)
(* retries and bounces and however long the queue was                       *)
(* (wifi_event_handler).                                                    *)
THEOREM FlagsAreRight == Spec => []FlagsFollowDriver
  BY FlagsInvariant, FlagsSettled, PTL

-----------------------------------------------------------------------------
(* No reboot without an outage *)

(***************************************************************************)
(* A pass of status_task that finds MQTT connected feeds the supervisor in *)
(* the same step, so as long as every pass does, s_last_alive is at most   *)
(* one period old, and that only until this period's pass.  A window is    *)
(* never shorter than a period.                                            *)
(***************************************************************************)
FedWhileGood ==
  /\ good > 0 \/ statusDue => main.pc = "run"
  /\ good > 0 => stale = 0 \/ (stale = 1 /\ statusDue)

OutageInv == FedWhileGood /\ OutageIsReal

LEMMA OutageStep ==
  ASSUME TypeInv, OutageInv, [Next]_vars
  PROVE  OutageInv'
<1>0. /\ good \in Nat /\ stale \in 0..StaleCap /\ StaleCap \in Nat /\ StaleCap > 1
      /\ \A w \in Windows : w \in Nat /\ w >= 1
      /\ g_config.window \in Windows
  BY WifiAssumption DEF TypeInv, HistoryTyped, TasksTyped, OutsideTyped, ConfigType
<1>1. ASSUME Boot, cause' = cause PROVE OutageInv'
  BY <1>1 DEF Boot, OutageInv, FedWhileGood, OutageIsReal
<1>2. ASSUME UNCHANGED <<good, statusDue, cause>>, stale' \in {stale, 0},
             main'.pc = main.pc \/ main.pc # "run"
      PROVE  OutageInv'
  BY <1>2 DEF OutageInv, FedWhileGood, OutageIsReal
<1>3. CASE MainStart \/ MainWait \/ MainStop \/ MainAp
  <2>1. UNCHANGED <<good, statusDue, cause, stale>> /\ main.pc # "run"
    BY <1>3 DEF MainStart, MainWait, MainStop, MainAp, history
  <2> QED
    BY <1>2, <2>1
<1>4. CASE MainApp
  BY <1>4 DEF MainApp, history, OutageInv, FedWhileGood, OutageIsReal
<1>5. CASE Handler
  <2>1. UNCHANGED <<good, statusDue, cause, main>> /\ stale' \in {stale, 0}
    BY <1>5 DEF Handler, HandleStaStart, HandleDisconnected, HandleGotIp, HandleApStart,
       HandleJoined, HandleLeft, NotifyAlive, history
  <2> QED
    BY <1>2, <2>1
<1>6. CASE SupStranded \/ SupIdle \/ SupRead
  <2>1. CASE Reboot("stranded")
    <3>1. cause'.why = "stranded"
      BY <2>1 DEF Reboot
    <3>2. good' = 0 /\ ~statusDue'
      BY <2>1 DEF Reboot, Boot
    <3> QED
      BY <3>1, <3>2 DEF OutageInv, FedWhileGood, OutageIsReal
  <2>2. CASE ~Reboot("stranded")
    <3>1. UNCHANGED <<good, statusDue, cause, main>> /\ stale' \in {stale, 0}
      BY <1>6, <2>2 DEF SupStranded, SupIdle, SupRead, history
    <3> QED
      BY <1>2, <3>1
  <2> QED
    BY <2>1, <2>2
<1>7. ASSUME NEW age \in 0..StaleCap, SupSubtract(age) PROVE OutageInv'
  <2>1. CASE age > g_config.window /\ age >= RebootAfter /\ Reboot("outage")
    <3>1. cause'.good = good /\ cause'.fed = sup.fed /\ good' = 0 /\ ~statusDue'
      BY <2>1 DEF Reboot, Boot
    <3>2. ASSUME ~sup.fed PROVE good = 0
      <4>1. age = stale
        BY <1>7, <3>2 DEF SupSubtract, Ages
      <4>2. stale > 1
        BY <1>0, <2>1, <4>1
      <4> QED
        BY <1>0, <4>2 DEF OutageInv, FedWhileGood
    <3> QED
      BY <3>1, <3>2 DEF OutageInv, FedWhileGood, OutageIsReal
  <2>2. CASE UNCHANGED <<main, stale, statusDue, history>>
    BY <1>2, <2>2 DEF history
  <2> QED
    BY <1>7, <2>1, <2>2 DEF SupSubtract
<1>8. CASE StatusPass
  <2>1. cause' = cause /\ main' = main
    BY <1>8 DEF StatusPass
  <2>2. CASE mqtt = "on"
    <3>1. stale' = 0
      BY <1>8, <2>2 DEF StatusPass, NotifyAlive
    <3> QED
      BY <1>8, <2>1, <3>1 DEF StatusPass, OutageInv, FedWhileGood, OutageIsReal
  <2>3. CASE mqtt # "on"
    BY <1>8, <2>1, <2>3 DEF StatusPass, OutageInv, FedWhileGood, OutageIsReal
  <2> QED
    BY <2>2, <2>3
<1>9. CASE Tick
  <2>1. cause' = cause /\ good' = good /\ ~statusDue
    BY <1>9 DEF Tick
  <2>2. ASSUME good > 0 PROVE main'.pc = "run" /\ stale' = 1 /\ statusDue'
    <3>1. main.pc = "run" /\ stale = 0
      BY <2>1, <2>2 DEF OutageInv, FedWhileGood
    <3>2. main' = main /\ stale' = Cap(0 + 1) /\ statusDue'
      BY <1>9, <3>1 DEF Tick
    <3> QED
      BY <1>0, <3>1, <3>2 DEF Cap
  <2>3. statusDue' => main'.pc = "run"
    BY <1>9 DEF Tick
  <2> QED
    BY <2>1, <2>2, <2>3 DEF OutageInv, FedWhileGood, OutageIsReal
<1>10. CASE Outside
  <2>1. UNCHANGED <<good, statusDue, cause, stale, main>>
    BY <1>10 DEF Outside, Radio, StaJoins, StaFails, LinkLost, MqttConnects, MqttLost,
       NetChanges, Zombie, Joins, Leaves, history
  <2> QED
    BY <1>2, <2>1
<1>11. CASE Page
  <2>1. \/ Boot /\ cause' = cause
        \/ UNCHANGED <<good, statusDue, cause, stale, main>>
    BY <1>11 DEF Page, ConfigWifiPost, ConfigMqttPost, ConfigSomfyPost, RebootPost, history
  <2> QED
    BY <1>1, <1>2, <2>1
<1>12. CASE UNCHANGED vars
  BY <1>2, <1>12 DEF vars, history
<1> QED
  BY <1>3, <1>4, <1>5, <1>6, <1>7, <1>8, <1>9, <1>10, <1>11, <1>12, NextInGroups
  DEF Main, Supervisor

(* RebootsAreOutages: whatever intervals, windows and reboot times are      *)
(* chosen, and in whatever order status_task and the supervisor take their  *)
(* turns, a device that reached its broker in the last period is not        *)
(* rebooted for an outage, unless fed between the supervisor's two reads    *)
(* (supervisor_task).                                                       *)
THEOREM RebootsAreOutages == Spec => []OutageIsReal
<1>1. Init => OutageInv
  BY DEF Init, OutageInv, FedWhileGood, OutageIsReal, NoCause
<1>2. TypeInv /\ OutageInv /\ [Next]_vars => OutageInv'
  BY OutageStep
<1>3. OutageInv => OutageIsReal
  BY DEF OutageInv
<1> QED
  BY <1>1, <1>2, <1>3, TypeInvariant, PTL DEF Spec
-----------------------------------------------------------------------------
(* The setup AP is left to those who use it *)

(***************************************************************************)
(* Two histories against one counter.  Somebody who stays on the AP is one *)
(* the flags know, with no event about to change that; so the turn of the  *)
(* supervisor in such a period resets its counter.  Otherwise the counter  *)
(* is no more than the periods the AP was quiet, plus the one that has     *)
(* begun once the supervisor had its turn in it.                           *)
(***************************************************************************)
Attended ==
  stayed => /\ clients = 1 /\ apClients = 1
            /\ \A i \in 1..Len(events) : events[i] \notin {"joined", "left"}

Counted ==
  /\ sup.stranded > 0 => apUp
  /\ stayed /\ ~sup.due => sup.stranded = 0
  /\ sup.stranded <= quiet + 1 /\ (sup.due => sup.stranded <= quiet)

PatientInv == Attended /\ Counted /\ StrandedIsPatient

LEMMA AttendedStep ==
  ASSUME FlagsInv, Attended, [Next]_vars
  PROVE  Attended'
<1>0. events \in Seq(EventKinds) /\ Len(events) \in Nat
  BY LenProperties DEF FlagsInv, TypeInv, DriverTyped
<1>1. ASSUME stayed' = FALSE PROVE Attended'
  BY <1>1 DEF Attended
<1>2. ASSUME UNCHANGED <<stayed, clients, apClients, events>> PROVE Attended'
  BY <1>2 DEF Attended
<1>3. ASSUME UNCHANGED <<stayed, clients, apClients>>,
             NEW e \in EventKinds \ {"joined", "left"}, Post(e)
      PROVE  Attended'
  <2>1. Len(events') = Len(events) + 1 /\ events'[Len(events) + 1] = e
        /\ \A i \in 1..Len(events) : events'[i] = events[i]
    BY <1>0, <1>3, AppendProperties DEF Post
  <2>2. ASSUME NEW i \in 1..Len(events') PROVE i \in 1..Len(events) \/ i = Len(events) + 1
    BY <1>0, <2>1
  <2> QED
    BY <1>3, <2>1, <2>2 DEF Attended
<1>4. ASSUME NEW e, Handle(e), UNCHANGED <<stayed, clients>>,
             apClients' = apClients \/ e \in {"joined", "left"}
      PROVE  Attended'
  <2> SUFFICES ASSUME stayed PROVE Attended'
    BY <1>4 DEF Attended
  <2>1. events # <<>> /\ events' = Tail(events) /\ Head(events) = e
    BY <1>4 DEF Handle
  <2>2. Len(events) \in Nat \ {0}
    BY <1>0, <2>1, EmptySeq
  <2>3. /\ Len(events') = Len(events) - 1 /\ e = events[1]
        /\ \A i \in 1..Len(events') : events'[i] = events[i + 1]
    BY <1>0, <2>1, HeadTailProperties
  <2>4. 1 \in 1..Len(events) /\ \A i \in 1..Len(events') : i + 1 \in 1..Len(events)
    BY <2>2, <2>3
  <2> QED
    BY <1>4, <2>3, <2>4 DEF Attended
<1>5. ASSUME Boot PROVE Attended'
  BY <1>1, <1>5 DEF Boot
<1>6. CASE MainStart \/ MainStop \/ MainAp
  <2>1. UNCHANGED <<stayed, clients, apClients>>
    BY <1>6 DEF MainStart, MainStop, MainAp, flags, history
  <2>2. UNCHANGED events \/ \E e \in EventKinds \ {"joined", "left"} : Post(e)
    BY <1>6 DEF MainStart, MainStop, MainAp, StartAp, EventKinds
  <2> QED
    BY <1>2, <1>3, <2>1, <2>2
<1>7. CASE \/ MainWait \/ MainApp \/ SupIdle \/ SupRead \/ StatusPass
           \/ MqttConnects \/ MqttLost \/ Zombie
  BY <1>2, <1>7 DEF MainWait, MainApp, SupIdle, SupRead, StatusPass, MqttConnects, MqttLost,
     Zombie, flags, driver, history
<1>8. CASE Handler
  <2>1. UNCHANGED <<stayed, clients>>
    BY <1>8 DEF Handler, HandleStaStart, HandleDisconnected, HandleGotIp, HandleApStart,
       HandleJoined, HandleLeft, history
  <2>2. CASE HandleJoined \/ HandleLeft
    <3>1. Handle("joined") \/ Handle("left")
      BY <2>2 DEF HandleJoined, HandleLeft
    <3> QED
      BY <1>4, <2>1, <3>1
  <2>3. CASE ~(HandleJoined \/ HandleLeft)
    <3>1. (\E e : Handle(e)) /\ apClients' = apClients
      BY <1>8, <2>3 DEF Handler, HandleStaStart, HandleDisconnected, HandleGotIp,
         HandleApStart, flags
    <3> QED
      BY <1>4, <2>1, <3>1
  <2> QED
    BY <2>2, <2>3
<1>9. CASE SupStranded
  BY <1>2, <1>5, <1>9 DEF SupStranded, Reboot, flags, driver, history
<1>10. ASSUME NEW age, SupSubtract(age) PROVE Attended'
  <2>1. CASE Boot
    BY <1>5, <2>1
  <2>2. CASE ~Boot
    <3>1. UNCHANGED <<stayed, clients, apClients>>
          /\ (UNCHANGED events \/ Post("disconnected"))
      BY <1>10, <2>2 DEF SupSubtract, Reboot, flags, driver, history
    <3> QED
      BY <1>2, <1>3, <3>1 DEF EventKinds
  <2> QED
    BY <2>1, <2>2
<1>11. CASE Tick
  <2>1. events = <<>> /\ events' = <<>> /\ (stayed' => clients = 1)
        /\ UNCHANGED <<clients, apClients>>
    BY <1>11 DEF Tick, flags, driver
  <2>2. apClients = clients /\ Len(events') = 0
    BY <2>1, FlagsSettled, EmptySeq DEF FlagsFollowDriver
  <2> QED
    BY <2>1, <2>2 DEF Attended
<1>12. CASE Radio
  <2>1. UNCHANGED <<stayed, clients, apClients>>
        /\ \E e \in EventKinds \ {"joined", "left"} : Post(e)
    BY <1>12 DEF Radio, StaJoins, StaFails, LinkLost, flags, history, EventKinds
  <2> QED
    BY <1>3, <2>1
<1>13. ASSUME NEW n, NetChanges(n) PROVE Attended'
  BY <1>2, <1>13 DEF NetChanges, flags, driver, history
<1>14. CASE Joins
  BY <1>14 DEF Joins, Attended, history
<1>15. CASE Leaves
  BY <1>1, <1>15 DEF Leaves
<1>16. CASE Page
  <2>1. Boot \/ UNCHANGED <<flags, driver, history>>
    BY <1>16 DEF Page, ConfigWifiPost, ConfigMqttPost, ConfigSomfyPost, RebootPost
  <2> QED
    BY <1>2, <1>5, <2>1 DEF flags, driver, history
<1>17. CASE UNCHANGED vars
  BY <1>2, <1>17 DEF vars, flags, driver, history
<1> QED
  BY <1>6, <1>7, <1>8, <1>9, <1>10, <1>11, <1>12, <1>13, <1>14, <1>15, <1>16, <1>17,
     NextInGroups DEF Main, Supervisor, Outside

LEMMA CountedStep ==
  ASSUME FlagsInv, Attended, Counted, [Next]_vars
  PROVE  Counted'
<1>0. /\ sup \in SupType /\ sup.stranded \in 0..StrandedAfter /\ quiet \in 0..StaleCap
      /\ StrandedAfter \in Nat /\ StaleCap \in Nat /\ StrandedAfter <= StaleCap
  BY WifiAssumption DEF FlagsInv, TypeInv, TasksTyped, HistoryTyped, SupType
<1>1. ASSUME UNCHANGED quiet, apUp => apUp', stayed' => stayed,
             sup'.stranded = sup.stranded, sup'.due = sup.due
      PROVE  Counted'
  BY <1>1 DEF Counted
<1>2. ASSUME sup'.stranded = 0, quiet' \in Nat PROVE Counted'
  <2>1. \A n \in Nat : ~(0 > 0) /\ 0 <= n /\ 0 <= n + 1
    OBVIOUS
  <2>2. ~(sup'.stranded > 0) /\ sup'.stranded <= quiet' /\ sup'.stranded <= quiet' + 1
    BY <1>2, <2>1, Zenon
  <2> QED
    BY <1>2, <2>2, Zenon DEF Counted
<1>3. ASSUME Boot PROVE Counted'
  BY <1>2, <1>3 DEF Boot
<1>4. CASE Main
  <2>1. UNCHANGED <<quiet, stayed, sup>> /\ (apUp => apUp')
    BY <1>4 DEF Main, MainStart, MainWait, MainStop, MainAp, MainApp, StartAp, driver, history
  <2> QED
    BY <1>1, <2>1
<1>5. CASE Handler \/ StatusPass
  <2>1. UNCHANGED <<quiet, stayed, apUp>>
    BY <1>5 DEF Handler, HandleStaStart, HandleDisconnected, HandleGotIp, HandleApStart,
       HandleJoined, HandleLeft, StatusPass, driver, history
  <2>2. NotifyAlive \/ UNCHANGED sup
    BY <1>5 DEF Handler, HandleStaStart, HandleDisconnected, HandleGotIp, HandleApStart,
       HandleJoined, HandleLeft, StatusPass
  <2>3. sup'.stranded = sup.stranded /\ sup'.due = sup.due
    BY <1>0, <2>2, NotifyTyped
  <2> QED
    BY <1>1, <2>1, <2>3
<1>6. CASE SupStranded
  <2>1. sup.stranded <= quiet /\ apUp
    BY <1>6 DEF Counted, SupStranded, Stranded, FlagsInv, ApInv
  <2>2. CASE Boot
    BY <1>3, <2>2
  <2>3. CASE ~Boot
    <3>1. /\ sup'.stranded = IF apClients > 0 THEN 0 ELSE sup.stranded + 1
          /\ sup'.due = FALSE /\ UNCHANGED <<quiet, stayed, apUp>>
      BY <1>6, <2>3 DEF SupStranded, Sleep, Reboot, driver, history
    <3>2. stayed => apClients > 0
      BY DEF Attended
    <3> QED
      BY <1>0, <2>1, <3>1, <3>2 DEF Counted
  <2> QED
    BY <2>2, <2>3
<1>7. CASE SupIdle
  BY <1>0, <1>2, <1>7 DEF SupIdle, Sleep, history
<1>8. CASE SupRead
  <2>1. sup'.stranded = 0
    BY <1>0, <1>8 DEF SupRead, SupType
  <2> QED
    BY <1>0, <1>2, <1>8, <2>1 DEF SupRead, history
<1>9. ASSUME NEW age, SupSubtract(age) PROVE Counted'
  <2>1. CASE Boot
    BY <1>3, <2>1
  <2>2. CASE ~Boot
    <3>1. quiet' = quiet /\ \E k : Sleep(k, 0)
      BY <1>9, <2>2 DEF SupSubtract, Reboot, history
    <3> QED
      BY <1>0, <1>2, <3>1 DEF Sleep
  <2> QED
    BY <2>1, <2>2
<1>10. CASE Tick
  <2>1. /\ sup'.stranded = sup.stranded /\ sup'.due = TRUE
        /\ quiet' = IF apUp /\ ~stayed THEN Cap(quiet + 1) ELSE 0
        /\ apUp' = apUp /\ ~sup.due
    BY <1>0, <1>10 DEF Tick, SupType, driver
  <2>2. CASE apUp /\ ~stayed
    <3>1. sup.stranded <= quiet + 1
      BY <2>1 DEF Counted
    <3>2. sup.stranded <= Cap(quiet + 1) /\ Cap(quiet + 1) \in Nat
      BY <1>0, <3>1 DEF Cap
    <3>3. quiet' \in Nat /\ sup'.stranded \in Nat /\ sup'.stranded <= quiet'
      BY <1>0, <2>1, <2>2, <3>2
    <3>4. sup'.stranded <= quiet' + 1
      BY <3>3
    <3> QED
      BY <2>1, <2>2, <3>3, <3>4 DEF Counted
  <2>3. CASE ~(apUp /\ ~stayed)
    <3>1. sup.stranded = 0
      BY <1>0, <2>1, <2>3 DEF Counted
    <3> QED
      BY <1>2, <2>1, <2>3, <3>1
  <2> QED
    BY <2>2, <2>3
<1>11. CASE Outside
  <2>1. UNCHANGED <<quiet, sup, apUp>> /\ (stayed' => stayed)
    BY <1>11 DEF Outside, Radio, StaJoins, StaFails, LinkLost, MqttConnects, MqttLost,
       NetChanges, Zombie, Joins, Leaves, driver, history
  <2> QED
    BY <1>1, <2>1
<1>12. CASE Page
  <2>1. Boot \/ UNCHANGED <<quiet, stayed, sup, apUp>>
    BY <1>12 DEF Page, ConfigWifiPost, ConfigMqttPost, ConfigSomfyPost, RebootPost, driver,
       history
  <2> QED
    BY <1>1, <1>3, <2>1
<1>13. CASE UNCHANGED vars
  BY <1>1, <1>13 DEF vars, driver, history
<1> QED
  BY <1>4, <1>5, <1>6, <1>7, <1>8, <1>9, <1>10, <1>11, <1>12, <1>13, NextInGroups
  DEF Supervisor

(* What the supervisor knows when it takes the AP down. *)
LEMMA PatientStep ==
  ASSUME FlagsInv, PatientInv, [Next]_vars
  PROVE  StrandedIsPatient'
<1>1. CASE cause' = cause
  BY <1>1 DEF PatientInv, StrandedIsPatient
<1>2. CASE Reboot("outage")
  BY <1>2 DEF Reboot, StrandedIsPatient
<1>3. CASE SupStranded /\ Reboot("stranded")
  <2>1. CASE apClients = 0 /\ sup.stranded + 1 >= StrandedAfter
    <3>1. cause'.quiet = quiet /\ cause'.attended = (clients = 1 /\ events = <<>>)
      BY <1>3 DEF Reboot
    <3>2. sup.stranded <= quiet
      BY <1>3 DEF SupStranded, PatientInv, Counted
    <3>3. sup.stranded \in Nat /\ quiet \in Nat /\ StrandedAfter \in Nat
      BY WifiAssumption DEF FlagsInv, TypeInv, TasksTyped, HistoryTyped, SupType
    <3>4. quiet + 1 >= StrandedAfter
      BY <2>1, <3>2, <3>3
    <3>5. ~(clients = 1 /\ events = <<>>)
      BY <2>1, FlagsSettled DEF FlagsFollowDriver
    <3> QED
      BY <3>1, <3>4, <3>5 DEF StrandedIsPatient
  <2>2. CASE ~(apClients = 0 /\ sup.stranded + 1 >= StrandedAfter)
    BY <1>1, <1>3, <2>2 DEF SupStranded, history
  <2> QED
    BY <2>1, <2>2
<1>4. cause' = cause \/ Reboot("outage") \/ (SupStranded /\ Reboot("stranded"))
  <2>1. CASE Main \/ Handler \/ StatusPass \/ Tick \/ Outside
    BY <2>1 DEF Main, MainStart, MainWait, MainStop, MainAp, MainApp, Handler, HandleStaStart,
       HandleDisconnected, HandleGotIp, HandleApStart, HandleJoined, HandleLeft, StatusPass,
       Tick, Outside, Radio, StaJoins, StaFails, LinkLost, MqttConnects, MqttLost, NetChanges,
       Zombie, Joins, Leaves, history
  <2>2. CASE Supervisor
    BY <2>2 DEF Supervisor, SupStranded, SupIdle, SupRead, SupSubtract, history
  <2>3. CASE Page
    BY <2>3 DEF Page, ConfigWifiPost, ConfigMqttPost, ConfigSomfyPost, RebootPost, history
  <2>4. CASE UNCHANGED vars
    BY <2>4 DEF vars, history
  <2> QED
    BY <2>1, <2>2, <2>3, <2>4, NextInGroups
<1> QED
  BY <1>1, <1>2, <1>3, <1>4

(* SetupIsNotTakenAway: for every window, the supervisor reboots out of AP  *)
(* mode only when nobody is attached whose join has been handled, and one   *)
(* who stayed through a period keeps the whole window, less the period      *)
(* begun (supervisor_task).                                                 *)
THEOREM SetupIsNotTakenAway == Spec => []StrandedIsPatient
<1>1. Init => PatientInv
  BY WifiAssumption DEF Init, PatientInv, Attended, Counted, StrandedIsPatient, NoCause
<1>2. FlagsInv /\ PatientInv /\ [Next]_vars => PatientInv'
  BY AttendedStep, CountedStep, PatientStep DEF PatientInv
<1>3. PatientInv => StrandedIsPatient
  BY DEF PatientInv
<1> QED
  BY <1>1, <1>2, <1>3, FlagsInvariant, PTL DEF Spec
=============================================================================
