--------------------------- MODULE StatusTask_proofs ---------------------------
(***************************************************************************)
(* The schedule of the diagnostics, proved for every set of intervals,     *)
(* every width of since_pub_s and every number of topics.                  *)
(***************************************************************************)
EXTENDS StatusTask, TLAPS

LEMMA OlderType ==
  ASSUME NEW n \in 0..AgeCap
  PROVE  /\ Older(n) \in 0..AgeCap
         /\ Older(n) = n + Tick \/ (Older(n) = AgeCap /\ n + Tick > AgeCap)
  BY StatusAssumption DEF Older

LEMMA CountType ==
  ASSUME NEW n \in 0..Modulus - 1
  PROVE  /\ Count(n) \in 0..Modulus - 1
         /\ Count(n) <= n + Tick
         /\ n + Tick < Modulus => Count(n) = n + Tick
         /\ Tick < Modulus => Count(Modulus - 1) = Tick - 1
  BY StatusAssumption, Z3 DEF Count

LEMMA TickFits == Tick < Modulus /\ Tick < AgeCap
  BY StatusAssumption

(* TypeCorrect: every reachable state of status_task is well typed.        *)
THEOREM TypeCorrect == Spec => []TypeOK
<1>1. Init => TypeOK
  <2> SUFFICES ASSUME Init PROVE TypeOK
    OBVIOUS
  <2>1. task \in [pc : {"pass", "report", "sleep"}, topic : Topics]
    BY StatusAssumption DEF Init, Topics
  <2>2. since \in 0..Modulus - 1 /\ changes \in 0..MaxChanges
    BY StatusAssumption DEF Init
  <2>3. age \in [Topics -> 0..AgeCap]
    BY StatusAssumption DEF Init
  <2>4. /\ elapsed \in 0..AgeCap /\ contact \in 0..AgeCap
        /\ woken \in 0..AgeCap /\ calm \in 0..AgeCap
    BY StatusAssumption DEF Init
  <2> QED BY <2>1, <2>2, <2>3, <2>4 DEF Init, TypeOK
<1>2. TypeOK /\ [Next]_vars => TypeOK'
  <2> SUFFICES ASSUME TypeOK, [Next]_vars PROVE TypeOK'
    OBVIOUS
  <2>1. CASE Pass
    <3>1. task' \in [pc : {"pass", "report", "sleep"}, topic : Topics]
      BY <2>1, StatusAssumption DEF Pass, Topics
    <3>2. contact' \in 0..AgeCap /\ woken' \in 0..AgeCap
      BY <2>1, StatusAssumption DEF TypeOK, Pass
    <3> QED BY <2>1, <3>1, <3>2 DEF TypeOK, Pass
  <2>2. CASE Publish
    <3>1. task' \in [pc : {"pass", "report", "sleep"}, topic : Topics]
      <4>1. task.topic + 1 \in Topics
        <5>1. task.topic \in 1..Last /\ task.topic # Last
          BY <2>2 DEF TypeOK, Publish, Topics
        <5> QED BY <5>1, StatusAssumption DEF Topics
      <4> QED BY <2>2, <4>1 DEF TypeOK, Publish
    <3>2. age' \in [Topics -> 0..AgeCap]
      BY <2>2, StatusAssumption DEF TypeOK, Publish, Sent
    <3> QED BY <2>2, <3>1, <3>2 DEF TypeOK, Publish
  <2>3. CASE PublishLast
    <3>1. task' \in [pc : {"pass", "report", "sleep"}, topic : Topics]
      BY <2>3 DEF TypeOK, PublishLast
    <3>2. age' \in [Topics -> 0..AgeCap]
      BY <2>3, StatusAssumption DEF TypeOK, PublishLast, Sent
    <3>3. since' \in 0..Modulus - 1 /\ elapsed' \in 0..AgeCap
      BY <2>3, StatusAssumption DEF PublishLast
    <3> QED BY <2>3, <3>1, <3>2, <3>3 DEF TypeOK, PublishLast
  <2>4. CASE Sleep
    <3>1. since' \in 0..Modulus - 1
      BY <2>4, CountType DEF TypeOK, Sleep
    <3>2. age' \in [Topics -> 0..AgeCap]
      BY <2>4, OlderType DEF TypeOK, Sleep
    <3>3. /\ elapsed' \in 0..AgeCap /\ contact' \in 0..AgeCap
          /\ woken' \in 0..AgeCap /\ calm' \in 0..AgeCap
      BY <2>4, OlderType DEF TypeOK, Sleep
    <3>4. task' \in [pc : {"pass", "report", "sleep"}, topic : Topics]
      BY <2>4 DEF TypeOK, Sleep
    <3> QED BY <2>4, <3>1, <3>2, <3>3, <3>4 DEF TypeOK, Sleep
  <2>5. CASE EventConnected \/ EventDisconnected \/ SessionBegins \/ SessionEnds
    <3>1. calm' \in 0..AgeCap
      BY <2>5, StatusAssumption
         DEF EventConnected, EventDisconnected, SessionBegins, SessionEnds
    <3> QED BY <2>5, <3>1
            DEF TypeOK, EventConnected, EventDisconnected, SessionBegins, SessionEnds
  <2>6. ASSUME NEW i \in Intervals, SomfyPost(i) PROVE TypeOK'
    BY <2>6, StatusAssumption DEF TypeOK, SomfyPost
  <2>7. CASE UNCHANGED vars
    BY <2>7 DEF TypeOK, vars, ages
  <2> QED BY <2>1, <2>2, <2>3, <2>4, <2>5, <2>6, <2>7 DEF Next
<1> QED BY <1>1, <1>2, PTL DEF Spec

-----------------------------------------------------------------------------
(* After a report since_pub_s never runs ahead of the time that has passed. *)
NotAhead == reported => since <= elapsed \/ elapsed = AgeCap

LEMMA NotAheadKept == TypeOK /\ NotAhead /\ [Next]_vars => NotAhead'
<1> SUFFICES ASSUME TypeOK, NotAhead, [Next]_vars PROVE NotAhead'
  OBVIOUS
<1> USE DEF NotAhead, TypeOK
<1>1. CASE Pass
  BY <1>1 DEF Pass
<1>2. CASE Publish
  BY <1>2 DEF Publish
<1>3. CASE PublishLast
  BY <1>3 DEF PublishLast
<1>4. CASE Sleep
  <2>1. since' = Count(since) /\ elapsed' = Older(elapsed)
    BY <1>4 DEF Sleep
  <2>2. reported' = reported
    BY <1>4 DEF Sleep
  <2> QED
    BY <2>1, <2>2, CountType, OlderType, StatusAssumption
<1>5. CASE EventConnected \/ EventDisconnected
  BY <1>5 DEF EventConnected, EventDisconnected
<1>6. CASE SessionBegins \/ SessionEnds
  BY <1>6 DEF SessionBegins, SessionEnds
<1>7. ASSUME NEW i \in Intervals, SomfyPost(i) PROVE NotAhead'
  BY <1>7 DEF SomfyPost
<1>8. CASE UNCHANGED vars
  BY <1>8 DEF vars, ages
<1> QED BY <1>1, <1>2, <1>3, <1>4, <1>5, <1>6, <1>7, <1>8 DEF Next

(* ReportsAreSpaced: whatever the width of since_pub_s and however often   *)
(* it wraps, no report starts sooner after the one before it than          *)
(* pub_interval says (status_task).                                        *)
THEOREM ReportsAreSpaced == Spec => Spaced
<1>1. Init => NotAhead
  BY DEF Init, NotAhead
<1>2. TypeOK /\ NotAhead /\ [Next]_vars
        => [task.pc = "pass" /\ task'.pc = "report" /\ reported =>
              elapsed >= pub_interval]_vars
  <2> SUFFICES ASSUME TypeOK, NotAhead, Next, task.pc = "pass", task'.pc = "report",
                      reported
               PROVE  elapsed >= pub_interval
    OBVIOUS
  <2>1. CASE Pass
    <3>1. connected /\ since >= pub_interval
      BY <2>1 DEF Pass, Due
    <3> QED BY <3>1, StatusAssumption DEF NotAhead, TypeOK
  <2>2. CASE Publish \/ PublishLast \/ Sleep
    BY <2>2 DEF Publish, PublishLast, Sleep
  <2>3. CASE EventConnected \/ EventDisconnected \/ SessionBegins \/ SessionEnds
    BY <2>3 DEF EventConnected, EventDisconnected, SessionBegins, SessionEnds
  <2>4. ASSUME NEW i \in Intervals, SomfyPost(i) PROVE FALSE
    BY <2>4 DEF SomfyPost
  <2> QED BY <2>1, <2>2, <2>3, <2>4 DEF Next
<1> QED BY <1>1, <1>2, NotAheadKept, TypeCorrect, PTL DEF Spec, Spaced

-----------------------------------------------------------------------------
(* While session and interval are left alone, either no report has come    *)
(* and since_pub_s has counted all the time but for the first step, or all *)
(* values are as young as since_pub_s says.  In a report, the topics that  *)
(* have had their turn were sent; a sleep is only begun with no report due.*)
Quiet == session /\ connected /\ calm > 0

Counting ==
  Quiet =>
    /\ task.pc = "sleep" => since < pub_interval
    /\ task.pc = "report" => \A t \in Topics : t < task.topic => age[t] = 0
    /\ task.pc # "report" => \/ calm <= since + Tick
                             \/ \A t \in Topics : age[t] <= since

LEMMA CountingKept == TypeOK /\ Counting /\ [Next]_vars => Counting'
<1> SUFFICES ASSUME TypeOK, Counting, [Next]_vars, Quiet' PROVE Counting'
  BY DEF Counting
<1> USE DEF Quiet
<1>1. CASE Pass
  <2>1. Quiet
    BY <1>1 DEF Pass
  <2>2. task'.pc = "report" => task'.topic = 1
    BY <1>1 DEF Pass, TypeOK
  <2>3. task'.pc = "sleep" => since < pub_interval
    BY <1>1, <2>1, StatusAssumption DEF Pass, Due, TypeOK
  <2> QED BY <1>1, <2>1, <2>2, <2>3 DEF Pass, Counting, TypeOK, Topics
<1>2. CASE Publish
  <2>1. /\ Quiet /\ task.pc = "report" /\ task'.pc = "report"
        /\ task'.topic = task.topic + 1 /\ task.topic \in Nat
        /\ age' = [age EXCEPT ![task.topic] = 0]
    BY <1>2, StatusAssumption DEF Publish, Sent, TypeOK, Topics
  <2>2. ASSUME NEW t \in Topics, t < task'.topic PROVE age'[t] = 0
    BY <2>1, <2>2, StatusAssumption DEF Counting, TypeOK, Topics
  <2> QED BY <2>1, <2>2 DEF Counting
<1>3. CASE PublishLast
  <2>1. \A t \in Topics : age'[t] = 0
    BY <1>3, StatusAssumption DEF PublishLast, Sent, Counting, TypeOK, Topics
  <2> QED BY <1>3, <2>1, StatusAssumption DEF PublishLast, Counting, TypeOK
<1>4. CASE Sleep
  <2>1. /\ since' = Count(since) /\ calm' = Older(calm)
        /\ task.pc = "sleep" /\ task'.pc = "pass"
        /\ age' = [t \in Topics |-> Older(age[t])]
        /\ UNCHANGED <<session, connected>>
    BY <1>4 DEF Sleep, TypeOK
  <2>2. CASE calm = 0
    <3>1. calm' = Tick
      BY <2>1, <2>2, OlderType, TickFits, StatusAssumption DEF TypeOK
    <3>2. since' \in Nat
      BY <2>1, CountType DEF TypeOK
    <3> QED BY <2>1, <3>1, <3>2, StatusAssumption DEF Counting
  <2>3. CASE calm > 0
    <3>1. since < pub_interval
      BY <2>1, <2>3 DEF Counting
    <3>2. since' = since + Tick
      BY <2>1, <3>1, CountType, StatusAssumption DEF TypeOK
    <3>3. calm <= since + Tick => calm' <= since' + Tick
      BY <2>1, <3>2, OlderType, StatusAssumption DEF TypeOK
    <3>4. ASSUME NEW t \in Topics, age[t] <= since PROVE age'[t] <= since'
      <4>1. age[t] \in 0..AgeCap /\ age'[t] = Older(age[t])
        BY <2>1 DEF TypeOK
      <4>2. Older(age[t]) <= age[t] + Tick
        BY <4>1, OlderType, StatusAssumption
      <4> QED BY <4>1, <4>2, <3>2, <3>4, OlderType, StatusAssumption DEF TypeOK
    <3> QED BY <2>1, <2>3, <3>3, <3>4 DEF Counting
  <2> QED BY <2>2, <2>3 DEF TypeOK
<1>5. CASE EventConnected \/ EventDisconnected \/ SessionBegins \/ SessionEnds
  <2>1. calm' = 0
    BY <1>5 DEF EventConnected, EventDisconnected, SessionBegins, SessionEnds
  <2> QED BY <2>1
<1>6. ASSUME NEW i \in Intervals, SomfyPost(i) PROVE Counting'
  <2>1. calm' = 0
    BY <1>6 DEF SomfyPost
  <2> QED BY <2>1
<1>7. CASE UNCHANGED vars
  BY <1>7 DEF vars, ages, Counting
<1> QED BY <1>1, <1>2, <1>3, <1>4, <1>5, <1>6, <1>7 DEF Next

(* ReportsAreFresh: a device left connected for an interval and a pass     *)
(* keeps every diagnostic value younger than the interval (status_task).   *)
THEOREM ReportsAreFresh == Spec => []Fresh
<1>1. Init => Counting
  BY DEF Init, Counting, Quiet
<1>2. TypeOK /\ Counting => Fresh
  <2> SUFFICES ASSUME TypeOK, Counting, task.pc = "sleep", session, connected,
                      calm >= pub_interval + Tick, NEW t \in Topics
               PROVE  age[t] < pub_interval
    BY DEF Fresh
  <2>1. Quiet /\ since < pub_interval
    BY StatusAssumption DEF Counting, Quiet, TypeOK
  <2>2. ~(calm <= since + Tick)
    BY <2>1, StatusAssumption DEF TypeOK
  <2>3. age[t] <= since
    BY <2>1, <2>2 DEF Counting
  <2> QED BY <2>1, <2>3, StatusAssumption DEF TypeOK
<1> QED BY <1>1, <1>2, CountingKept, TypeCorrect, PTL DEF Spec

-----------------------------------------------------------------------------
(* Both are fed at the head of the loop, and the sleep is one step long.   *)
FedInv ==
  /\ woken <= Tick
  /\ task.pc # "pass" => woken = 0
  /\ task.pc # "pass" /\ Quiet => contact = 0
  /\ session /\ connected /\ calm > Tick => contact <= Tick

LEMMA FedInvKept == TypeOK /\ FedInv /\ [Next]_vars => FedInv'
<1> SUFFICES ASSUME TypeOK, FedInv, [Next]_vars PROVE FedInv'
  OBVIOUS
<1> USE StatusAssumption DEF Quiet
<1>1. CASE Pass
  BY <1>1 DEF Pass, FedInv, TypeOK
<1>2. CASE Publish \/ PublishLast
  BY <1>2 DEF Publish, PublishLast, FedInv, TypeOK
<1>3. CASE Sleep
  <2>1. /\ task.pc = "sleep" /\ task'.pc = "pass"
        /\ UNCHANGED <<session, connected>>
        /\ woken' = Older(woken) /\ contact' = Older(contact) /\ calm' = Older(calm)
    BY <1>3 DEF Sleep, TypeOK
  <2>2. woken' <= Tick
    BY <2>1, OlderType, TickFits DEF FedInv, TypeOK
  <2>3. ASSUME session, connected, calm' > Tick PROVE contact' <= Tick
    <3>1. calm > 0
      BY <2>1, <2>3, OlderType, TickFits DEF TypeOK
    <3>2. contact = 0
      BY <2>1, <2>3, <3>1 DEF FedInv
    <3> QED BY <2>1, <3>2, OlderType, TickFits
  <2> QED BY <2>1, <2>2, <2>3 DEF FedInv
<1>4. CASE EventConnected \/ EventDisconnected \/ SessionBegins \/ SessionEnds
  <2>1. /\ calm' = 0 /\ ~(calm' > 0) /\ ~(calm' > Tick)
        /\ UNCHANGED <<task, woken>>
    BY <1>4 DEF EventConnected, EventDisconnected, SessionBegins, SessionEnds
  <2> QED BY <2>1 DEF FedInv
<1>5. ASSUME NEW i \in Intervals, SomfyPost(i) PROVE FedInv'
  <2>1. /\ calm' = 0 /\ ~(calm' > 0) /\ ~(calm' > Tick)
        /\ UNCHANGED <<task, woken>>
    BY <1>5 DEF SomfyPost
  <2> QED BY <2>1 DEF FedInv
<1>6. CASE UNCHANGED vars
  BY <1>6 DEF vars, ages, FedInv
<1> QED BY <1>1, <1>2, <1>3, <1>4, <1>5, <1>6 DEF Next

(* AlwaysFed: the task watchdog and, connected, the supervisor are fed on  *)
(* every pass, however long pub_interval is (status_task).                 *)
THEOREM AlwaysFed == Spec => []Fed
<1>1. Init => FedInv
  BY StatusAssumption DEF Init, FedInv, Quiet
<1>2. TypeOK /\ FedInv => Fed
  BY StatusAssumption DEF FedInv, Fed, TypeOK
<1> QED BY <1>1, <1>2, FedInvKept, TypeCorrect, PTL DEF Spec
=============================================================================
