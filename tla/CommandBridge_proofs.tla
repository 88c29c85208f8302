------------------------- MODULE CommandBridge_proofs -------------------------
(* Theorems about CommandBridge, for every value of its constants. *)
EXTENDS CommandBridge, SequenceTheorems, TLAPS

USE DEF Buttons, Moves, Topics, None

-----------------------------------------------------------------------------
(* What the device publishes *)

(* Every message that one of the tasks hands to the client.                *)
Published ==
  {Msg("status", "online"), Msg("discovery", "there"),
   Msg("cover", "open"), Msg("cover", "closed")} \cup {Msg("rolling", n) : n \in Nat}

LEMMA PublishedCarries ==
  ASSUME NEW m \in Published
  PROVE  /\ m.topic \in Topics /\ Carries(m.topic, m.value)
         /\ m.topic = "status" => m.value = "online"
         /\ m.topic = "discovery" => m.value = "there"
<1>1. CASE m = Msg("status", "online")
  BY <1>1 DEF Msg, Carries
<1>2. CASE m = Msg("discovery", "there")
  BY <1>2 DEF Msg, Carries
<1>3. ASSUME NEW v \in {"open", "closed"}, m = Msg("cover", v)
      PROVE  m.topic = "cover" /\ m.value \in {"open", "closed"}
  BY <1>3 DEF Msg
<1>4. ASSUME NEW n \in Nat, m = Msg("rolling", n)
      PROVE  m.topic = "rolling" /\ m.value \in Nat
  BY <1>4 DEF Msg
<1> QED
  BY <1>1, <1>2, <1>3, <1>4 DEF Published, Carries

(* The state of the cover is one of two texts.                             *)
LEMMA CoverPublished ==
  ASSUME NEW button
  PROVE  Msg("cover", CoverState(button)) \in Published
  BY DEF Published, CoverState

LEMMA NothingTyped ==
  DOMAIN Nothing = Topics /\ \A t \in Topics : Carries(t, Nothing[t])
<1>1. Carries("rolling", Nothing["rolling"])
  BY DEF Nothing, Carries
<1>2. Carries("status", Nothing["status"])
  BY DEF Nothing, Carries
<1>3. Carries("cover", Nothing["cover"])
  BY DEF Nothing, Carries
<1>4. Carries("discovery", Nothing["discovery"])
  BY DEF Nothing, Carries
<1> QED
  BY <1>1, <1>2, <1>3, <1>4 DEF Nothing

(* TypeOK is inductive with what a task has in hand: a button to be sent,  *)
(* a move to be reported, a choice of the cover form to be cached.         *)
InHand ==
  /\ task.pc \in {"send", "air"} => task.button \in Buttons
  /\ task.pc = "cover" => task.button \in Moves
  /\ http.pc = "cache" => http.opens \in Moves

TaskType   == [pc : {"idle", "send", "air", "cover", "read", "publish"},
               button : Buttons \cup {None}, code : Nat]
StatusType == [pc : {"idle", "publish"}, code : Nat]
HttpType   == [pc : {"idle", "cache"}, opens : Moves \cup {None}]

(* The variables of the tasks, and those of the connection.                *)
TasksTyped ==
  /\ queue \in Seq(Buttons) /\ Len(queue) <= QueueLen
  /\ task \in TaskType /\ status \in StatusType /\ http \in HttpType
  /\ event \in {"idle", "connected", "online", "discover"}
  /\ connected \in BOOLEAN /\ opens \in Moves /\ flash \in Moves /\ code \in Nat
  /\ InHand

NetTyped ==
  /\ link \in {"up", "down"}
  /\ outbox \in Seq(Published)
  /\ inflight \in 0..Len(outbox)
  /\ DOMAIN retained = Topics /\ \A t \in Topics : Carries(t, retained[t])
  /\ will \in BOOLEAN

ReportTyped ==
  /\ moved \in Moves \cup {None}
  /\ missed \in BOOLEAN /\ flipped \in BOOLEAN

TypeInv == TasksTyped /\ NetTyped /\ ReportTyped

LEMMA TypeInvImplies == TypeInv => TypeOK
<1> SUFFICES ASSUME TypeInv PROVE TypeOK
  OBVIOUS
<1>1. ASSUME NEW i \in 1..Len(outbox) PROVE Carries(outbox[i].topic, outbox[i].value)
  <2>1. outbox[i] \in Published
    BY ElementOfSeq DEF TypeInv, NetTyped
  <2> QED
    BY <2>1, PublishedCarries
<1> QED
  BY <1>1 DEF TypeInv, TasksTyped, NetTyped, ReportTyped, TypeOK, TaskType, StatusType, HttpType

LEMMA IdleTypes ==
  IdleTask \in TaskType /\ IdleStatus \in StatusType /\ IdleHttp \in HttpType
  BY DEF IdleTask, IdleStatus, IdleHttp, TaskType, StatusType, HttpType

-----------------------------------------------------------------------------
(* The tasks *)

LEMMA EnqueueTyped ==
  ASSUME TasksTyped, NEW button \in Buttons, Enqueue(button)
  PROVE  queue' \in Seq(Buttons) /\ Len(queue') <= QueueLen
<1>1. queue \in Seq(Buttons) /\ Len(queue) \in Nat /\ Len(queue) <= QueueLen /\ QueueLen \in Nat
  BY BridgeAssumption, LenProperties DEF TasksTyped
<1>2. CASE Len(queue) < QueueLen
  BY <1>1, <1>2, AppendProperties DEF Enqueue
<1>3. CASE ~(Len(queue) < QueueLen)
  BY <1>1, <1>3 DEF Enqueue
<1> QED
  BY <1>2, <1>3

LEMMA TasksStep ==
  ASSUME TasksTyped, [Next]_vars
  PROVE  TasksTyped'
<1> USE IdleTypes DEF TasksTyped, InHand
<1>1. ASSUME NEW b \in Pressed, ControlCmdPost(b) PROVE TasksTyped'
  BY <1>1, EnqueueTyped, BridgeAssumption DEF ControlCmdPost
<1>2. ASSUME NEW b \in Buttons, EventData(b) PROVE TasksTyped'
  BY <1>2, EnqueueTyped DEF EventData
<1>3. ASSUME NEW b \in Moves, CoverPostPersist(b) PROVE TasksTyped'
  BY <1>3 DEF CoverPostPersist, HttpType
<1>4. CASE CoverPostCache
  BY <1>4 DEF CoverPostCache, IdleHttp, HttpType
<1>5. CASE Receive
  <2>1. Head(queue) \in Buttons /\ queue' \in Seq(Buttons) /\ Len(queue') <= QueueLen
    BY <1>5, HeadTailProperties, LenProperties, BridgeAssumption DEF Receive
  <2>2. task' \in TaskType /\ task'.pc = "send" /\ task'.button = Head(queue)
    BY <1>5, <2>1 DEF Receive, TaskType, IdleTask
  <2> QED
    BY <1>5, <2>1, <2>2 DEF Receive
<1>21. CASE SendTakesCode
  <2>1. task' \in TaskType /\ task'.pc = "air" /\ task'.button = task.button
    BY <1>21 DEF SendTakesCode, TaskType
  <2> QED
    BY <1>21, <2>1 DEF SendTakesCode
<1>6. CASE SendOk
  <2>1. task' \in TaskType /\ (task'.pc = "cover" => task'.button \in Moves) /\ task'.pc # "send"
    BY <1>6 DEF SendOk, TaskType, IdleTask
  <2> QED
    BY <1>6, <2>1 DEF SendOk
<1>7. CASE SendError
  BY <1>7 DEF SendError, IdleTask
<1>8. CASE PublishCover
  BY <1>8 DEF PublishCover, IdleTask, TaskType
<1>9. CASE ReadCode
  BY <1>9 DEF ReadCode, IdleTask, TaskType
<1>10. CASE PublishCode
  BY <1>10 DEF PublishCode, IdleTask
<1>11. CASE StatusRead
  BY <1>11 DEF StatusRead, StatusType
<1>12. CASE StatusPublish
  BY <1>12 DEF StatusPublish
<1>13. CASE EventTask
  BY <1>13 DEF EventTask, EventConnected, EventOnline, EventDiscover, EventDisconnected
<1>14. CASE Connect
  BY <1>14 DEF Connect
<1>15. CASE Deliver \/ Acknowledge \/ LinkDrops \/ WillFires \/ BrokerForgets
  BY <1>15 DEF Deliver, Acknowledge, LinkDrops, WillFires, BrokerForgets, tasks
<1>16. CASE Restart
  <2>1. queue' \in Seq(Buttons) /\ Len(queue') <= QueueLen
    BY <1>16, EmptySeq, BridgeAssumption DEF Restart
  <2>2. code' \in Nat
    BY <1>16 DEF Restart
  <2> QED
    BY <1>16, <2>1, <2>2 DEF Restart, IdleTask, IdleHttp
<1>17. CASE UNCHANGED vars
  BY <1>17 DEF vars, tasks
<1>18. ASSUME NEW p \in CoverSet, EventCover(p) PROVE TasksTyped'
  <2>1. CoverButton(p) \in Buttons
    BY DEF CoverSet, CoverButton, OtherMove
  <2> QED
    BY <1>2, <1>18, <2>1 DEF EventCover
<1>19. ASSUME NEW b \in Pressed, EventCommand(b) PROVE TasksTyped'
  BY <1>2, <1>19, BridgeAssumption DEF EventCommand
<1> QED
  BY <1>1, <1>3, <1>4, <1>5, <1>6, <1>7, <1>8, <1>9, <1>10, <1>11, <1>12, <1>13, <1>14,
     <1>15, <1>16, <1>17, <1>18, <1>19, <1>21 DEF Next, SomfyTask, StatusTask
-----------------------------------------------------------------------------
(* The connection *)

(* MqttPublish: skipped, or one message more at the end of the outbox.      *)
LEMMA Publishing ==
  ASSUME NetTyped, NEW topic, NEW value, Msg(topic, value) \in Published,
         MqttPublish(topic, value)
  PROVE  /\ outbox' \in Seq(Published) /\ inflight \in 0..Len(outbox')
         /\ \A i \in 1..Len(outbox) : outbox'[i] = outbox[i]
         /\ link = "up"   => /\ Len(outbox') = Len(outbox) + 1
                             /\ outbox'[Len(outbox) + 1] = Msg(topic, value)
         /\ link = "down" => outbox' = outbox
<1>1. outbox \in Seq(Published) /\ Len(outbox) \in Nat /\ inflight \in 0..Len(outbox)
      /\ link \in {"up", "down"}
  BY LenProperties DEF NetTyped
<1>2. CASE link = "up"
  BY <1>1, <1>2, AppendProperties DEF MqttPublish
<1>3. CASE link = "down"
  BY <1>1, <1>3 DEF MqttPublish
<1> QED
  BY <1>1, <1>2, <1>3

(* The steps that publish, and what they do to the connection.             *)
PublishSteps == PublishCover \/ PublishCode \/ StatusPublish \/ EventOnline \/ EventDiscover

LEMMA PublishStepsPublish ==
  ASSUME TasksTyped, PublishSteps
  PROVE  /\ UNCHANGED <<link, inflight, retained, will>>
         /\ \E topic, value : Msg(topic, value) \in Published /\ MqttPublish(topic, value)
<1>1. CASE PublishCover
  BY <1>1, CoverPublished DEF PublishCover
<1>2. CASE PublishCode
  <2>1. Msg("rolling", task.code) \in Published
    BY DEF TasksTyped, TaskType, Published
  <2> QED
    BY <1>2, <2>1 DEF PublishCode
<1>3. CASE StatusPublish
  <2>1. Msg("rolling", status.code) \in Published
    BY DEF TasksTyped, StatusType, Published
  <2> QED
    BY <1>3, <2>1 DEF StatusPublish
<1>4. CASE EventOnline
  <2>1. Msg("status", "online") \in Published
    BY DEF Published
  <2> QED
    BY <1>4, <2>1 DEF EventOnline
<1>5. CASE EventDiscover
  <2>1. Msg("discovery", "there") \in Published
    BY DEF Published
  <2> QED
    BY <1>5, <2>1 DEF EventDiscover
<1> QED
  BY <1>1, <1>2, <1>3, <1>4, <1>5 DEF PublishSteps

(* Every other step of a task leaves the connection alone.                 *)
NetSteps ==
  Connect \/ Deliver \/ Acknowledge \/ LinkDrops \/ WillFires \/ BrokerForgets \/ Restart

LEMMA OtherSteps ==
  ASSUME [Next]_vars, ~PublishSteps, ~NetSteps
  PROVE  UNCHANGED net
<1> QED
  BY DEF Next, vars, PublishSteps, NetSteps, SomfyTask, StatusTask, EventTask, Receive,
     SendTakesCode, SendOk, SendError, ReadCode, StatusRead, EventConnected, EventDisconnected, ControlCmdPost,
     EventCommand, EventCover, EventData, CoverPostPersist, CoverPostCache

LEMMA RetainTyped ==
  ASSUME NetTyped, NEW m, m.topic \in Topics, Carries(m.topic, m.value)
  PROVE  /\ DOMAIN Retain(m) = Topics
         /\ \A t \in Topics : Carries(t, Retain(m)[t])
         /\ \A t \in Topics \ {m.topic} : Retain(m)[t] = retained[t]
         /\ Retain(m)[m.topic] = m.value
  BY DEF NetTyped, Retain

LEMMA LastWillTyped ==
  LastWill.topic = "status" /\ LastWill.value = "offline" /\ Carries("status", "offline")
  BY DEF LastWill, Msg, Carries

(* The message that Deliver hands to the broker.                           *)
LEMMA NextMessage ==
  ASSUME NetTyped, Deliver
  PROVE  /\ inflight + 1 \in 1..Len(outbox)
         /\ outbox[inflight + 1] \in Published
         /\ retained' = Retain(outbox[inflight + 1]) /\ inflight' = inflight + 1
         /\ UNCHANGED <<tasks, link, outbox, will, budget, report>>
<1>1. inflight + 1 \in 1..Len(outbox)
  BY LenProperties DEF NetTyped, Deliver
<1> QED
  BY <1>1, ElementOfSeq DEF NetTyped, Deliver

LEMMA Acknowledged ==
  ASSUME NetTyped, Acknowledge
  PROVE  /\ outbox' \in Seq(Published) /\ Len(outbox') = Len(outbox) - 1
         /\ \A i \in 1..Len(outbox') : outbox'[i] = outbox[i + 1]
         /\ inflight > 0 /\ inflight' = inflight - 1 /\ inflight' \in 0..Len(outbox')
         /\ UNCHANGED <<tasks, link, retained, will, budget, report>>
<1>1. Len(outbox) \in Nat /\ outbox # <<>>
  BY LenProperties, EmptySeq DEF NetTyped, Acknowledge
<1> QED
  BY <1>1, HeadTailProperties DEF NetTyped, Acknowledge

LEMMA NetStep ==
  ASSUME TasksTyped, NetTyped, [Next]_vars
  PROVE  NetTyped'
<1>0. Len(outbox) \in Nat
  BY LenProperties DEF NetTyped
<1>1. CASE PublishSteps
  BY <1>1, PublishStepsPublish, Publishing DEF NetTyped
<1>2. CASE Connect
  BY <1>0, <1>2, RetainTyped, LastWillTyped DEF Connect, NetTyped
<1>3. CASE Deliver
  BY <1>3, NextMessage, RetainTyped, PublishedCarries DEF NetTyped
<1>4. CASE Acknowledge
  BY <1>4, Acknowledged DEF NetTyped
<1>5. CASE LinkDrops
  BY <1>5 DEF LinkDrops, NetTyped
<1>6. CASE WillFires
  <2>1. LastWill.topic \in Topics /\ Carries(LastWill.topic, LastWill.value)
    BY LastWillTyped
  <2>2. DOMAIN retained' = Topics /\ \A t \in Topics : Carries(t, retained'[t])
    BY <1>6, <2>1, RetainTyped DEF WillFires
  <2> QED
    BY <1>6, <2>2 DEF WillFires, NetTyped
<1>7. CASE BrokerForgets
  BY <1>7, NothingTyped DEF BrokerForgets, NetTyped
<1>8. CASE Restart
  BY <1>8, EmptySeq DEF Restart, NetTyped
<1>9. CASE UNCHANGED net
  BY <1>9 DEF net, NetTyped
<1> QED
  BY <1>1, <1>2, <1>3, <1>4, <1>5, <1>6, <1>7, <1>8, <1>9, OtherSteps DEF NetSteps

LEMMA ReportStep ==
  ASSUME TasksTyped, NetTyped, ReportTyped, [Next]_vars
  PROVE  ReportTyped'
<1>1. CASE SendOk
  BY <1>1 DEF SendOk, ReportTyped
<1>2. CASE PublishCover
  BY <1>2 DEF PublishCover, ReportTyped
<1>3. CASE CoverPostCache
  BY <1>3 DEF CoverPostCache, ReportTyped
<1>4. CASE BrokerForgets
  BY <1>4 DEF BrokerForgets, ReportTyped
<1>5. CASE Restart
  BY <1>5 DEF Restart, ReportTyped
<1>6. CASE UNCHANGED report
  BY <1>6 DEF report, ReportTyped
<1> QED
  BY <1>1, <1>2, <1>3, <1>4, <1>5, <1>6
  DEF Next, vars, report, SomfyTask, StatusTask, EventTask, Receive, SendTakesCode, SendError, ReadCode,
     PublishCode, StatusRead, StatusPublish, EventConnected, EventOnline, EventDiscover,
     EventDisconnected, ControlCmdPost, EventCommand, EventCover, EventData,
     CoverPostPersist, Connect, Deliver, Acknowledge, LinkDrops, WillFires

(* TypeInvariant: TypeOK with what makes it inductive.                     *)
THEOREM TypeInvariant == Spec => []TypeInv
<1>1. Init => TypeInv
  <2> SUFFICES ASSUME Init PROVE TypeInv
    OBVIOUS
  <2>1. TasksTyped
    <3>1. queue \in Seq(Buttons) /\ Len(queue) = 0 /\ QueueLen \in Nat
      BY EmptySeq, BridgeAssumption DEF Init
    <3>2. InHand
      BY DEF Init, InHand, IdleTask, IdleHttp
    <3>3. task \in TaskType /\ status \in StatusType /\ http \in HttpType
      BY IdleTypes DEF Init
    <3>4. /\ event = "idle" /\ connected \in BOOLEAN
          /\ opens = "up" /\ flash = "up" /\ code \in Nat
      BY DEF Init
    <3> QED
      BY <3>1, <3>2, <3>3, <3>4 DEF TasksTyped
  <2>2. NetTyped
    <3>1. outbox \in Seq(Published) /\ Len(outbox) = 0
      BY EmptySeq DEF Init
    <3>2. link = "down" /\ inflight = 0 /\ retained = Nothing /\ will \in BOOLEAN
      BY DEF Init
    <3> QED
      BY <3>1, <3>2, NothingTyped DEF NetTyped
  <2>3. ReportTyped
    BY DEF Init, ReportTyped
  <2> QED
    BY <2>1, <2>2, <2>3 DEF TypeInv
<1>2. TypeInv /\ [Next]_vars => TypeInv'
  BY TasksStep, NetStep, ReportStep DEF TypeInv
<1> QED
  BY <1>1, <1>2, PTL DEF Spec

(* TypeCorrect: every variable has its type in every reachable state; no    *)
(* mix of senders fills the queue beyond its length.                       *)
THEOREM TypeCorrect == Spec => []TypeOK
  BY TypeInvariant, TypeInvImplies, PTL
-----------------------------------------------------------------------------
(* The cover state *)

(***************************************************************************)
(* CoverHonest speaks of the moment when the reports are through.  The     *)
(* inductive invariant follows the report before that: a move somfy_task   *)
(* still has to report is the one transmitted last; then the last message  *)
(* of the outbox on the cover topic carries its state, whatever older ones *)
(* are in front of it; and once the broker has that one, its retained      *)
(* state is that of the move.                                              *)
(***************************************************************************)
LastCover(i) ==
  /\ outbox[i].topic = "cover"
  /\ \A j \in 1..Len(outbox) : j > i => outbox[j].topic # "cover"

CoverCounts == moved # None /\ ~missed /\ ~flipped
CoverShown  == retained["cover"] = CoverState(moved)

CoverFollows ==
  /\ ~InOutbox("cover") => CoverShown
  /\ \A i \in 1..Len(outbox) :
       LastCover(i) => /\ outbox[i].value = CoverState(moved)
                       /\ i <= inflight => CoverShown

CoverInv ==
  /\ task.pc = "cover" => task.button = moved
  /\ CoverCounts /\ task.pc # "cover" => CoverFollows

(* The steps that leave the cover setting and the last move alone.         *)
LEMMA ShownStays ==
  ASSUME UNCHANGED <<opens, moved>>
  PROVE  CoverState(moved)' = CoverState(moved)
  BY DEF CoverState

LEMMA FollowsStays ==
  ASSUME CoverFollows, UNCHANGED <<opens, moved, outbox>>,
         inflight \in Nat, inflight' \in Nat, inflight' <= inflight,
         retained'["cover"] = retained["cover"]
  PROVE  CoverFollows'
<1>1. Len(outbox') = Len(outbox) /\ \A i : outbox'[i] = outbox[i]
  OBVIOUS
<1>2. CoverShown' <=> CoverShown
  BY ShownStays DEF CoverShown
<1>3. InOutbox("cover")' <=> InOutbox("cover")
  BY DEF InOutbox
<1>4. \A i : LastCover(i)' <=> LastCover(i)
  BY DEF LastCover
<1>5. ASSUME NEW i \in 1..Len(outbox), LastCover(i)
      PROVE  /\ outbox'[i].value = CoverState(moved)'
             /\ i <= inflight' => CoverShown'
  <2>1. outbox[i].value = CoverState(moved) /\ (i <= inflight => CoverShown)
    BY <1>5 DEF CoverFollows
  <2>2. i \in Int
    OBVIOUS
  <2> QED
    BY <2>1, <2>2, <1>2, ShownStays
<1> QED
  BY <1>1, <1>2, <1>3, <1>4, <1>5 DEF CoverFollows
(* Messages on the other topics change nothing, however many there are.    *)
LEMMA FollowsPublishOther ==
  ASSUME NetTyped, CoverFollows, UNCHANGED <<opens, moved, inflight, retained>>,
         NEW topic, topic # "cover", NEW value, Msg(topic, value) \in Published,
         MqttPublish(topic, value)
  PROVE  CoverFollows'
<1> DEFINE n == Len(outbox)
<1>1. n \in Nat /\ inflight \in 0..n /\ link \in {"up", "down"}
  BY LenProperties DEF NetTyped
<1>2. CASE link = "down"
  <2>1. outbox' = outbox
    BY <1>2, Publishing
  <2> QED
    BY <1>1, <2>1, FollowsStays
<1>3. CASE link = "up"
  <2>1. /\ Len(outbox') = n + 1 /\ outbox'[n + 1].topic # "cover"
        /\ \A i \in 1..n : outbox'[i] = outbox[i]
    BY <1>3, Publishing DEF Msg
  <2>2. CoverShown' <=> CoverShown
    BY ShownStays DEF CoverShown
  <2> HIDE DEF n
  <2>3. InOutbox("cover")' <=> InOutbox("cover")
    <3>1. ASSUME NEW i \in 1..n, outbox[i].topic = "cover"
          PROVE  i \in 1..Len(outbox') /\ outbox'[i].topic = "cover"
      BY <1>1, <2>1, <3>1
    <3>2. ASSUME NEW i \in 1..Len(outbox'), outbox'[i].topic = "cover"
          PROVE  i \in 1..n /\ outbox[i].topic = "cover"
      BY <1>1, <2>1, <3>2
    <3> QED
      BY <3>1, <3>2 DEF InOutbox, n
  <2>4. ASSUME NEW i \in 1..Len(outbox'), LastCover(i)'
        PROVE  /\ outbox'[i].value = CoverState(moved)'
               /\ i <= inflight' => CoverShown'
    <3>1. i \in 1..n /\ outbox'[i] = outbox[i]
      BY <1>1, <2>1, <2>4 DEF LastCover
    <3>2. ASSUME NEW j \in 1..n, j > i PROVE outbox[j].topic # "cover"
      <4>1. j \in 1..Len(outbox') /\ outbox'[j] = outbox[j]
        BY <1>1, <2>1
      <4> QED
        BY <2>4, <3>2, <4>1 DEF LastCover
    <3>3. LastCover(i)
      BY <2>4, <3>1, <3>2 DEF LastCover, n
    <3> QED
      BY <2>2, <3>1, <3>3, ShownStays DEF CoverFollows, n
  <2> QED
    BY <2>2, <2>3, <2>4 DEF CoverFollows
<1> QED
  BY <1>1, <1>2, <1>3

(* The report itself becomes the last message on the cover topic.          *)
LEMMA FollowsPublishCover ==
  ASSUME TasksTyped, NetTyped, PublishCover, link = "up", task.button = moved
  PROVE  CoverFollows'
<1> DEFINE n == Len(outbox)
<1>1. /\ Len(outbox') = n + 1 /\ outbox'[n + 1] = Msg("cover", CoverState(moved))
      /\ inflight' = inflight /\ opens' = opens /\ moved' = moved
  BY CoverPublished, Publishing DEF PublishCover
<1>2. n \in Nat /\ inflight \in 0..n
  BY LenProperties DEF NetTyped
<1>3. outbox'[n + 1].topic = "cover" /\ outbox'[n + 1].value = CoverState(moved)
  BY <1>1 DEF Msg
<1> HIDE DEF n
<1>4. InOutbox("cover")'
  BY <1>1, <1>2, <1>3 DEF InOutbox
<1>5. ASSUME NEW i \in 1..Len(outbox'), LastCover(i)' PROVE i = n + 1 /\ ~(i <= inflight')
  BY <1>1, <1>2, <1>3, <1>5 DEF LastCover
<1> QED
  BY <1>1, <1>3, <1>4, <1>5, ShownStays DEF CoverFollows

LEMMA FollowsDeliver ==
  ASSUME TasksTyped, NetTyped, CoverFollows, Deliver
  PROVE  CoverFollows'
<1> DEFINE m == outbox[inflight + 1]
<1>1. /\ inflight + 1 \in 1..Len(outbox) /\ inflight \in Nat
      /\ m.topic \in Topics /\ retained' = Retain(m) /\ inflight' = inflight + 1
      /\ outbox' = outbox /\ opens' = opens /\ moved' = moved
      /\ retained'["cover"] = IF m.topic = "cover" THEN m.value ELSE retained["cover"]
  <2>1. Carries(m.topic, m.value) /\ m.topic \in Topics
    BY NextMessage, PublishedCarries
  <2>2. retained' = Retain(m)
    BY NextMessage
  <2>3. inflight \in Nat
    BY LenProperties DEF NetTyped
  <2>4. retained'["cover"] = IF m.topic = "cover" THEN m.value ELSE retained["cover"]
    BY <2>1, <2>2, RetainTyped
  <2> QED
    BY <2>1, <2>2, <2>3, <2>4, NextMessage DEF tasks, report
<1>2. (\A i : LastCover(i)' <=> LastCover(i)) /\ (InOutbox("cover")' <=> InOutbox("cover"))
  BY <1>1 DEF LastCover, InOutbox
<1>3. CASE m.topic # "cover"
  <2>1. CoverShown' <=> CoverShown
    BY <1>1, <1>3, ShownStays DEF CoverShown
  <2>2. ASSUME NEW i \in 1..Len(outbox), LastCover(i), i <= inflight' PROVE i <= inflight
    BY <1>1, <1>3, <2>2 DEF LastCover
  <2> QED
    BY <1>1, <1>2, <2>1, <2>2, ShownStays DEF CoverFollows
<1>4. CASE m.topic = "cover"
  <2>1. InOutbox("cover")
    BY <1>1, <1>4 DEF InOutbox
  <2>2. ASSUME NEW i \in 1..Len(outbox), LastCover(i), i <= inflight'
        PROVE  CoverShown'
    <3>1. i = inflight + 1
      BY <1>1, <1>4, <2>2 DEF LastCover
    <3>2. m.value = CoverState(moved)
      BY <2>2, <3>1 DEF CoverFollows
    <3> QED
      BY <1>1, <1>4, <3>2, ShownStays DEF CoverShown
  <2> QED
    BY <1>1, <1>2, <2>1, <2>2, ShownStays DEF CoverFollows
<1> QED
  BY <1>3, <1>4

LEMMA FollowsAcknowledge ==
  ASSUME TasksTyped, NetTyped, CoverFollows, Acknowledge
  PROVE  CoverFollows'
<1> DEFINE n == Len(outbox)
<1>1. n \in Nat /\ inflight \in 1..n
  BY LenProperties, Acknowledged DEF NetTyped
<1>2. /\ Len(outbox') = n - 1 /\ \A i \in 1..n - 1 : outbox'[i] = outbox[i + 1]
      /\ inflight' = inflight - 1 /\ retained' = retained
      /\ opens' = opens /\ moved' = moved
  BY Acknowledged DEF tasks, report
<1>3. CoverShown' <=> CoverShown
  BY <1>2, ShownStays DEF CoverShown
<1> HIDE DEF n
<1>4. ASSUME NEW i \in 1..n - 1, LastCover(i)'
      PROVE  /\ outbox'[i].value = CoverState(moved)'
             /\ i <= inflight' => CoverShown'
  <2>1. i + 1 \in 1..n /\ outbox'[i] = outbox[i + 1] /\ (i <= inflight' => i + 1 <= inflight)
    BY <1>1, <1>2
  <2>2. ASSUME NEW j \in 1..n, j > i + 1 PROVE outbox[j].topic # "cover"
    <3>1. j - 1 \in 1..n - 1 /\ j - 1 > i /\ outbox'[j - 1] = outbox[j]
      BY <1>1, <1>2, <2>2
    <3> QED
      BY <1>2, <1>4, <3>1 DEF LastCover
  <2>3. LastCover(i + 1)
    BY <1>4, <2>1, <2>2 DEF LastCover, n
  <2>4. /\ outbox[i + 1].value = CoverState(moved)
        /\ i + 1 <= inflight => CoverShown
    BY <2>1, <2>3 DEF CoverFollows, n
  <2> QED
    BY <1>2, <1>3, <2>1, <2>4, ShownStays
<1>5. ASSUME ~InOutbox("cover")' PROVE CoverShown
  <2>1. CASE InOutbox("cover")
    <3>1. PICK i \in 1..n : outbox[i].topic = "cover"
      BY <2>1 DEF InOutbox, n
    <3>2. ASSUME NEW j \in 1..n, j > 1 PROVE outbox[j].topic # "cover"
      <4>1. j - 1 \in 1..n - 1 /\ outbox'[j - 1] = outbox[j]
        BY <1>1, <1>2, <3>2
      <4> QED
        BY <1>2, <1>5, <4>1 DEF InOutbox
    <3>3. i = 1 /\ 1 \in 1..n
      BY <1>1, <3>1, <3>2
    <3>4. LastCover(1)
      BY <3>1, <3>2, <3>3 DEF LastCover, n
    <3> QED
      BY <1>1, <3>3, <3>4 DEF CoverFollows, n
  <2> QED
    BY <2>1 DEF CoverFollows
<1> QED
  BY <1>2, <1>3, <1>4, <1>5 DEF CoverFollows
LEMMA CoverStep ==
  ASSUME TypeInv, CoverInv, [Next]_vars
  PROVE  CoverInv'
<1> USE DEF TypeInv
<1>0. inflight \in Nat
  BY LenProperties DEF NetTyped
<1>1. ASSUME UNCHANGED <<opens, moved, missed, flipped, outbox, inflight>>,
             task'.pc # "cover" \/ UNCHANGED task, task.pc # "cover" \/ UNCHANGED task,
             retained'["cover"] = retained["cover"]
      PROVE  CoverInv'
  BY <1>0, <1>1, FollowsStays DEF CoverInv, CoverCounts
<1>2. CASE SendOk
  <2>1. CASE task.button \in Moves
    <3>1. task'.pc = "cover" /\ task'.button = moved'
      BY <1>2, <2>1 DEF SendOk, TasksTyped, TaskType
    <3> QED
      BY <3>1 DEF CoverInv
  <2>2. CASE task.button \notin Moves
    <3>1. task.pc = "air" /\ task'.pc = "read" /\ UNCHANGED <<report, net, opens>>
      BY <1>2, <2>2 DEF SendOk, IdleTask, report
    <3> QED
      BY <1>1, <3>1 DEF report, net
  <2> QED
    BY <2>1, <2>2
<1>3. CASE PublishCover
  <2>1. /\ task.pc = "cover" /\ task'.pc = "read"
        /\ missed' = (link = "down") /\ UNCHANGED <<moved, flipped>>
    BY <1>3 DEF PublishCover, IdleTask
  <2>2. CASE link = "down"
    BY <2>1, <2>2 DEF CoverInv, CoverCounts
  <2>3. CASE link = "up"
    BY <1>3, <2>1, <2>3, FollowsPublishCover DEF CoverInv
  <2> QED
    BY <2>2, <2>3 DEF NetTyped
<1>4. CASE PublishCode \/ StatusPublish \/ EventOnline \/ EventDiscover
  <2>1. /\ UNCHANGED <<opens, moved, missed, flipped, inflight, retained>>
        /\ task'.pc # "cover" \/ UNCHANGED task
        /\ task.pc # "cover" \/ UNCHANGED task
    BY <1>4 DEF PublishCode, StatusPublish, EventOnline, EventDiscover, IdleTask, report
  <2>2. \E topic, value : /\ topic # "cover" /\ Msg(topic, value) \in Published
                          /\ MqttPublish(topic, value)
    <3>1. /\ Msg("rolling", task.code) \in Published /\ Msg("rolling", status.code) \in Published
          /\ Msg("status", "online") \in Published /\ Msg("discovery", "there") \in Published
      BY DEF Published, TasksTyped, TaskType, StatusType
    <3> QED
      BY <1>4, <3>1 DEF PublishCode, StatusPublish, EventOnline, EventDiscover
  <2> QED
    BY <2>1, <2>2, FollowsPublishOther DEF CoverInv, CoverCounts
<1>5. CASE CoverPostCache
  <2>1. /\ UNCHANGED <<task, moved, missed, outbox, inflight, retained>>
        /\ flipped' = (flipped \/ opens' # opens)
    BY <1>5 DEF CoverPostCache, net
  <2>2. CASE opens' = opens
    <3>1. CoverCounts' => CoverCounts
      BY <2>1, <2>2 DEF CoverCounts
    <3> QED
      BY <1>0, <2>1, <2>2, <3>1, FollowsStays DEF CoverInv
  <2>3. CASE opens' # opens
    BY <2>1, <2>3 DEF CoverInv, CoverCounts
  <2> QED
    BY <2>2, <2>3
<1>6. CASE Connect
  <2>1. retained'["cover"] = retained["cover"]
    BY <1>6, RetainTyped, LastWillTyped DEF Connect
  <2>2. UNCHANGED <<task, opens, moved, missed, flipped, outbox>> /\ inflight' = 0
    BY <1>6 DEF Connect, report
  <2> QED
    BY <1>0, <2>1, <2>2, FollowsStays DEF CoverInv, CoverCounts
<1>7. CASE Deliver
  BY <1>7, FollowsDeliver, NextMessage DEF CoverInv, CoverCounts, tasks, report
<1>8. CASE Acknowledge
  BY <1>8, FollowsAcknowledge, Acknowledged DEF CoverInv, CoverCounts, tasks, report
<1>9. CASE WillFires
  <2>1. retained'["cover"] = retained["cover"]
    BY <1>9, RetainTyped, LastWillTyped DEF WillFires
  <2> QED
    BY <1>1, <1>9, <2>1 DEF WillFires, tasks, report
<1>10. CASE BrokerForgets
  BY <1>10 DEF BrokerForgets, CoverInv, CoverCounts, tasks
<1>11. CASE Restart
  <2>1. /\ task'.pc # "cover" /\ outbox' = <<>> /\ UNCHANGED <<moved, retained>>
        /\ missed' = (missed \/ task.pc = "cover" \/ InOutbox("cover"))
        /\ flipped' = (flipped \/ opens' # opens)
    BY <1>11 DEF Restart, IdleTask
  <2>2. ASSUME CoverCounts' PROVE CoverFollows'
    <3>1. CoverCounts /\ task.pc # "cover" /\ ~InOutbox("cover") /\ opens' = opens
      BY <2>1, <2>2 DEF CoverCounts
    <3>2. CoverShown'
      BY <2>1, <3>1, ShownStays DEF CoverInv, CoverFollows, CoverShown
    <3>3. Len(outbox') = 0
      BY <2>1, EmptySeq
    <3> QED
      BY <3>2, <3>3 DEF CoverFollows
  <2> QED
    BY <2>1, <2>2 DEF CoverInv
<1>12. CASE UNCHANGED <<net, report, opens>> /\ task'.pc # "cover" /\ task.pc # "cover"
  BY <1>1, <1>12 DEF net, report
<1>13. CASE UNCHANGED <<net, report, opens, task>>
  BY <1>1, <1>13 DEF net, report
<1>14. CASE Receive \/ SendTakesCode \/ SendError \/ ReadCode
  <2>1. task'.pc # "cover" /\ task.pc # "cover"
    <3>1. CASE Receive
      BY <3>1 DEF Receive, IdleTask
    <3>2. CASE SendError
      BY <3>2 DEF SendError, IdleTask
    <3>3. CASE ReadCode
      BY <3>3 DEF ReadCode, IdleTask
    <3>4. CASE SendTakesCode
      BY <3>4 DEF SendTakesCode, TasksTyped, TaskType
    <3> QED
      BY <1>14, <3>1, <3>2, <3>3, <3>4
  <2>2. UNCHANGED <<net, report, opens>>
    BY <1>14 DEF Receive, SendTakesCode, SendError, ReadCode
  <2> QED
    BY <1>12, <2>1, <2>2
<1>15. CASE LinkDrops
  BY <1>1, <1>15 DEF LinkDrops, tasks, report
<1>16. CASE StatusRead \/ EventConnected \/ EventDisconnected
  BY <1>13, <1>16 DEF StatusRead, EventConnected, EventDisconnected
<1>17. ASSUME NEW b, ControlCmdPost(b) \/ EventData(b) \/ CoverPostPersist(b)
       PROVE  CoverInv'
  BY <1>13, <1>17 DEF ControlCmdPost, EventData, CoverPostPersist
<1>18. CASE UNCHANGED vars
  BY <1>13, <1>18 DEF vars, tasks
<1> QED
  BY <1>2, <1>3, <1>4, <1>5, <1>6, <1>7, <1>8, <1>9, <1>10, <1>11, <1>14, <1>15, <1>16,
     <1>17, <1>18 DEF Next, SomfyTask, StatusTask, EventTask, EventCommand, EventCover

(* CoverIsHonest: the retained cover state is the one that the last move    *)
(* transmitted means, whatever the order of tasks, deliveries, repeated     *)
(* deliveries after a reconnect, wills and restarts, and however long the   *)
(* outbox is (somfy_task, mqtt_publish).                                    *)
THEOREM CoverIsHonest == Spec => []CoverHonest
<1>1. Init => CoverInv
  BY DEF Init, CoverInv, CoverCounts, IdleTask
<1>2. TypeInv /\ CoverInv /\ [Next]_vars => CoverInv'
  BY CoverStep
<1>3. CoverInv => CoverHonest
  BY DEF CoverInv, CoverCounts, CoverFollows, CoverShown, CoverHonest
<1> QED
  BY <1>1, <1>2, <1>3, TypeInvariant, PTL DEF Spec
-----------------------------------------------------------------------------
(* Online, and discovered *)

(***************************************************************************)
(* Announced, from the moment each half is announced: the broker has it,   *)
(* or it is still to come among the messages of the outbox that the broker *)
(* does not have.  "online" overtakes no will, since a connection leaves   *)
(* none behind that could fire before it is lost.                          *)
(***************************************************************************)
Undelivered(topic) ==
  \E i \in 1..Len(outbox) : i > inflight /\ outbox[i].topic = topic

Said(topic, value) == retained[topic] = value \/ Undelivered(topic)

AnnouncedInv ==
  link = "up" /\ connected =>
    /\ event \in {"discover", "idle"} => Said("status", "online")
    /\ event = "idle" => Said("discovery", "there")
    /\ event # "connected"

LEMMA UndeliveredPublish ==
  ASSUME NetTyped, UNCHANGED <<inflight, link>>,
         NEW topic, NEW value, Msg(topic, value) \in Published,
         MqttPublish(topic, value),
         NEW other, Undelivered(other) \/ (link = "up" /\ other = topic)
  PROVE  Undelivered(other)'
<1> DEFINE n == Len(outbox)
<1>1. n \in Nat /\ inflight \in 0..n /\ link \in {"up", "down"}
  BY LenProperties DEF NetTyped
<1>2. CASE link = "down"
  BY <1>2, Publishing DEF Undelivered
<1>3. CASE link = "up"
  <2>1. /\ Len(outbox') = n + 1 /\ outbox'[n + 1].topic = topic
        /\ \A i \in 1..n : outbox'[i] = outbox[i]
    BY <1>3, Publishing DEF Msg
  <2> HIDE DEF n
  <2>2. CASE other = topic
    BY <1>1, <2>1, <2>2 DEF Undelivered
  <2>3. CASE Undelivered(other)
    <3>1. PICK i \in 1..n : i > inflight /\ outbox[i].topic = other
      BY <2>3 DEF Undelivered, n
    <3>2. i \in 1..Len(outbox') /\ outbox'[i].topic = other
      BY <1>1, <2>1, <3>1
    <3> QED
      BY <3>1, <3>2 DEF Undelivered
  <2> QED
    BY <2>2, <2>3
<1> QED
  BY <1>1, <1>2, <1>3

LEMMA SaidDeliver ==
  ASSUME NetTyped, Deliver,
         NEW topic \in {"status", "discovery"}, NEW value,
         value = IF topic = "status" THEN "online" ELSE "there",
         Said(topic, value)
  PROVE  Said(topic, value)'
<1> DEFINE m == outbox[inflight + 1]
<1>1. /\ inflight + 1 \in 1..Len(outbox) /\ m \in Published
      /\ retained' = Retain(m) /\ inflight' = inflight + 1 /\ outbox' = outbox
  BY NextMessage
<1>2. /\ m.topic \in Topics /\ Carries(m.topic, m.value)
      /\ m.topic = topic => m.value = value
  BY <1>1, PublishedCarries
<1>3. inflight \in Nat
  BY LenProperties DEF NetTyped
<1> HIDE DEF m
<1>4. retained'[topic] = IF m.topic = topic THEN value ELSE retained[topic]
  BY <1>1, <1>2, RetainTyped
<1>5. CASE m.topic = topic
  BY <1>4, <1>5 DEF Said
<1>6. CASE m.topic # topic
  <2>1. ASSUME Undelivered(topic) PROVE Undelivered(topic)'
    <3>1. PICK i \in 1..Len(outbox) : i > inflight /\ outbox[i].topic = topic
      BY <2>1 DEF Undelivered
    <3>2. i > inflight + 1
      BY <1>3, <1>6, <3>1 DEF m
    <3> QED
      BY <1>1, <3>1, <3>2 DEF Undelivered
  <2> QED
    BY <1>4, <1>6, <2>1 DEF Said
<1> QED
  BY <1>5, <1>6

LEMMA SaidAcknowledge ==
  ASSUME NetTyped, Acknowledge, NEW topic, NEW value, Said(topic, value)
  PROVE  Said(topic, value)'
<1>1. Len(outbox) \in Nat /\ inflight \in 1..Len(outbox)
  BY LenProperties, Acknowledged DEF NetTyped
<1>2. /\ Len(outbox') = Len(outbox) - 1 /\ inflight' = inflight - 1 /\ retained' = retained
      /\ \A i \in 1..Len(outbox') : outbox'[i] = outbox[i + 1]
  BY Acknowledged
<1>3. ASSUME Undelivered(topic) PROVE Undelivered(topic)'
  <2>1. PICK i \in 1..Len(outbox) : i > inflight /\ outbox[i].topic = topic
    BY <1>3 DEF Undelivered
  <2>2. i - 1 \in 1..Len(outbox') /\ i - 1 > inflight' /\ (i - 1) + 1 = i
    BY <1>1, <1>2, <2>1
  <2>3. outbox'[i - 1].topic = topic
    BY <1>2, <2>1, <2>2
  <2> QED
    BY <2>2, <2>3 DEF Undelivered
<1> QED
  BY <1>2, <1>3 DEF Said

LEMMA AnnouncedStep ==
  ASSUME TypeInv, AnnouncedInv, [Next]_vars
  PROVE  AnnouncedInv'
<1> USE DEF TypeInv
<1>1. CASE PublishSteps
  <2> SUFFICES ASSUME link' = "up", connected' PROVE AnnouncedInv'
    BY DEF AnnouncedInv
  <2>1. /\ UNCHANGED <<link, inflight, retained, connected>>
        /\ event = "connected" => event' = "connected"
    BY <1>1 DEF PublishSteps, PublishCover, PublishCode, StatusPublish, EventOnline, EventDiscover
  <2>2. ASSUME NEW topic, NEW value, Said(topic, value) PROVE Said(topic, value)'
    <3>1. PICK t, v : Msg(t, v) \in Published /\ MqttPublish(t, v)
      BY <1>1, PublishStepsPublish
    <3> QED
      BY <2>1, <2>2, <3>1, UndeliveredPublish DEF Said
  <2>3. CASE EventOnline
    <3>1. Undelivered("status")'
      <4>1. Msg("status", "online") \in Published
        BY DEF Published
      <4> QED
        BY <2>1, <2>3, <4>1, UndeliveredPublish DEF EventOnline
    <3> QED
      BY <2>3, <3>1 DEF EventOnline, AnnouncedInv, Said
  <2>4. CASE EventDiscover
    <3>1. Undelivered("discovery")'
      <4>1. Msg("discovery", "there") \in Published
        BY DEF Published
      <4> QED
        BY <2>1, <2>4, <4>1, UndeliveredPublish DEF EventDiscover
    <3>2. Said("status", "online")'
      BY <2>1, <2>2, <2>4 DEF EventDiscover, AnnouncedInv
    <3> QED
      BY <2>4, <3>1, <3>2 DEF EventDiscover, AnnouncedInv, Said
  <2>5. CASE event' = event
    BY <2>1, <2>2, <2>5 DEF AnnouncedInv
  <2> QED
    BY <1>1, <2>3, <2>4, <2>5 DEF PublishSteps, PublishCover, PublishCode, StatusPublish
<1>2. CASE Deliver
  <2>1. UNCHANGED <<link, connected, event>>
    BY <1>2 DEF Deliver, tasks
  <2>2. /\ Said("status", "online") => Said("status", "online")'
        /\ Said("discovery", "there") => Said("discovery", "there")'
    BY <1>2, SaidDeliver
  <2> QED
    BY <2>1, <2>2 DEF AnnouncedInv
<1>3. CASE Acknowledge
  <2>1. UNCHANGED <<link, connected, event>>
    BY <1>3 DEF Acknowledge, tasks
  <2> QED
    BY <1>3, <2>1, SaidAcknowledge DEF AnnouncedInv
<1>4. CASE EventConnected
  BY <1>4 DEF EventConnected, AnnouncedInv
<1>5. CASE EventDisconnected \/ Connect
  BY <1>5 DEF EventDisconnected, Connect, AnnouncedInv
<1>6. CASE LinkDrops \/ WillFires \/ BrokerForgets \/ Restart
  <2>1. link' = "down"
    BY <1>6 DEF LinkDrops, WillFires, BrokerForgets, Restart
  <2> QED
    BY <2>1 DEF AnnouncedInv
<1>7. CASE UNCHANGED <<net, connected, event>>
  BY <1>7 DEF net, AnnouncedInv, Said, Undelivered
<1>8. CASE \/ Receive \/ SendTakesCode \/ SendOk \/ SendError \/ ReadCode
           \/ StatusRead \/ CoverPostCache
  BY <1>7, <1>8 DEF Receive, SendTakesCode, SendOk, SendError, ReadCode, StatusRead, CoverPostCache
<1>9. ASSUME NEW b, ControlCmdPost(b) \/ EventData(b) \/ CoverPostPersist(b)
      PROVE  AnnouncedInv'
  BY <1>7, <1>9 DEF ControlCmdPost, EventData, CoverPostPersist
<1>10. CASE UNCHANGED vars
  BY <1>7, <1>10 DEF vars, tasks
<1> QED
  BY <1>1, <1>2, <1>3, <1>4, <1>5, <1>6, <1>8, <1>9, <1>10
  DEF Next, SomfyTask, StatusTask, EventTask, EventCommand, EventCover, PublishSteps

(* AnnouncedAlways: on a connection whose handlers are done and whose       *)
(* messages are through, the device is online and discovered, in whatever   *)
(* state the broker was found (mqtt_event_handler).                         *)
THEOREM AnnouncedAlways == Spec => []Announced
<1>1. Init => AnnouncedInv
  BY DEF Init, AnnouncedInv
<1>2. TypeInv /\ AnnouncedInv /\ [Next]_vars => AnnouncedInv'
  BY AnnouncedStep
<1>3. AnnouncedInv => Announced
  <2> SUFFICES ASSUME outbox = <<>>, Undelivered("status") \/ Undelivered("discovery")
               PROVE  FALSE
    BY DEF AnnouncedInv, Announced, Said
  <2> QED
    BY EmptySeq DEF Undelivered
<1> QED
  BY <1>1, <1>2, <1>3, TypeInvariant, PTL DEF Spec

-----------------------------------------------------------------------------
(* The transmitter *)

(* A step that leaves the command and the counter alone, or one of the     *)
(* four that the contract allows.                                          *)
Apart == code' = code /\ CommandPhase' = CommandPhase

Contracted ==
  \/ Apart
  \/ code' = code /\ CommandPhase = "idle" /\ CommandPhase' = "asked"
  \/ code' = code + 1 /\ CommandPhase = "asked" /\ CommandPhase' = "taken"
  \/ code' = code /\ CommandPhase # "idle" /\ CommandPhase' = "idle"
  \/ /\ CommandPhase' = "idle"
     /\ code' \in IF CommandPhase = "asked" THEN {code, code + 1} ELSE {code}

LEMMA RadioStep ==
  ASSUME TasksTyped, [Next]_vars
  PROVE  Contracted
<1> USE DEF Contracted
<1> USE DEF CommandPhase
<1>1. CASE Receive
  BY <1>1 DEF Receive, IdleTask
<1>2. CASE SendTakesCode
  BY <1>2 DEF SendTakesCode, TasksTyped, TaskType
<1>3. CASE SendOk
  BY <1>3 DEF SendOk, IdleTask, TasksTyped, TaskType
<1>4. CASE SendError
  BY <1>4 DEF SendError, IdleTask
<1>5. CASE PublishCover \/ ReadCode \/ PublishCode
  <2>1. /\ code' = code
        /\ task.pc \in {"cover", "read", "publish"} /\ task'.pc \in {"read", "publish", "idle"}
    <3>1. CASE PublishCover
      BY <3>1 DEF PublishCover, IdleTask
    <3>2. CASE ReadCode
      BY <3>2 DEF ReadCode, IdleTask
    <3>3. CASE PublishCode
      BY <3>3 DEF PublishCode, IdleTask
    <3> QED
      BY <1>5, <3>1, <3>2, <3>3
  <2> QED
    BY <2>1 DEF Apart
<1>6. CASE Restart
  BY <1>6 DEF Restart, IdleTask
<1>7. CASE UNCHANGED <<task, code>>
  BY <1>7 DEF Apart
<1>8. CASE UNCHANGED tasks
  BY <1>7, <1>8 DEF tasks
<1>9. CASE StatusRead \/ StatusPublish \/ EventTask \/ CoverPostCache \/ Connect
  BY <1>7, <1>9 DEF StatusRead, StatusPublish, EventTask, EventConnected, EventOnline,
     EventDiscover, EventDisconnected, CoverPostCache, Connect
<1>10. ASSUME NEW b, ControlCmdPost(b) \/ EventData(b) \/ CoverPostPersist(b)
       PROVE  Contracted
  BY <1>7, <1>10 DEF ControlCmdPost, EventData, CoverPostPersist
<1>11. CASE Deliver \/ Acknowledge \/ LinkDrops \/ WillFires \/ BrokerForgets
  BY <1>8, <1>11 DEF Deliver, Acknowledge, LinkDrops, WillFires, BrokerForgets
<1>12. CASE UNCHANGED vars
  BY <1>8, <1>12 DEF vars
<1> QED
  BY <1>1, <1>2, <1>3, <1>4, <1>5, <1>6, <1>9, <1>10, <1>11, <1>12
  DEF Next, SomfyTask, StatusTask, EventCommand, EventCover

(* KeepsToItsContract: for every queue, outbox and number of commands and  *)
(* restarts, what this module makes of somfy_rts_send is the send that     *)
(* SomfyRts has been shown to be.                                          *)
THEOREM KeepsToItsContract == Spec => KeepsToContract
<1>1. Init => Radio!ContractInit
  BY DEF Init, Radio!ContractInit, CommandPhase, IdleTask
<1>2. TypeInv /\ [Next]_vars => [Radio!ContractNext]_(Radio!contractVars)
  <2> SUFFICES ASSUME TypeInv, [Next]_vars
               PROVE  [Radio!ContractNext]_(Radio!contractVars)
    OBVIOUS
  <2>1. CASE Apart
    BY <2>1, Zenon DEF Apart, Radio!contractVars
  <2>2. CASE code' = code /\ CommandPhase = "idle" /\ CommandPhase' = "asked"
    BY <2>2, Zenon DEF Radio!ContractNext, Radio!Begin
  <2>3. CASE code' = code + 1 /\ CommandPhase = "asked" /\ CommandPhase' = "taken"
    BY <2>3, Zenon DEF Radio!ContractNext, Radio!Take
  <2>4. CASE code' = code /\ CommandPhase # "idle" /\ CommandPhase' = "idle"
    BY <2>4, Zenon DEF Radio!ContractNext, Radio!Return
  <2>5. CASE /\ CommandPhase' = "idle"
             /\ code' \in IF CommandPhase = "asked" THEN {code, code + 1} ELSE {code}
    BY <2>5, Zenon DEF Radio!ContractNext, Radio!PowerLoss
  <2> QED
    BY <2>1, <2>2, <2>3, <2>4, <2>5, RadioStep DEF TypeInv, Contracted
<1> QED
  BY <1>1, <1>2, TypeInvariant, PTL DEF Spec, KeepsToContract, Radio!ContractSpec
=============================================================================
