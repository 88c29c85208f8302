--------------------------- MODULE SomfyRts_proofs ---------------------------
(* Theorems about SomfyRts, for every value of its constants. *)
EXTENDS SomfyRts, TLAPS

USE DEF FaultKinds, Buttons, Overlap

-----------------------------------------------------------------------------
(* What Load, Clamp and SaveOutcomes return. *)

(* A loaded code is a positive number and a loaded address is a real one.  *)
LEMMA LoadType ==
  ASSUME NEW flash \in NvsType
  PROVE  /\ Load(flash) \in CfgType
         /\ Load(flash).rolling > 0
         /\ flash.rolling > 0 => Load(flash).rolling = flash.rolling
         /\ Load(flash).paired = flash.paired
  BY ConstantsAssumption DEF Load, NvsType, CfgType, MaybeAddr

LEMMA ClampType == ASSUME NEW n \in Nat PROVE Clamp(n) \in Nat
  BY ConstantsAssumption DEF Clamp

LEMMA OutcomeType == SaveOutcomes \subseteq Outcomes
  BY ConstantsAssumption DEF SaveOutcomes, Outcomes

LEMMA IdleRfType == IdleRf \in RfType
  BY ConstantsAssumption DEF IdleRf, RfType, RfPcs, MaybeAddr, Outcomes

(* What a frame has room for of a counter.                                 *)
LEMMA CodeType == ASSUME NEW n \in Nat PROVE (n % CodeMod) \in 0..CodeMod - 1
  BY ConstantsAssumption, Z3

LEMMA CodeFits ==
  ASSUME NEW n \in Nat, n < CodeMod
  PROVE  (n % CodeMod) = n
  BY ConstantsAssumption, Z3

LEMMA IdleHttpType == IdleHttp \in HttpType
  BY DEF IdleHttp, HttpType, HttpPcs, MaybeAddr, Outcomes

(* The address a handler has in hand is a real one, as SomfyPost replaces a *)
(* blank field by the stored address: TypeOK is inductive only with this.  *)
AddrChosen == http.pc \in {"addrNvs", "addrRam", "addrSet"} => http.addr \in Addrs

TypeInv == TypeOK /\ AddrChosen

(* TypeInvariant: TypeOK with what makes it inductive.                     *)
THEOREM TypeInvariant == Spec => []TypeInv
<1>1. Init => TypeInv
  <2> SUFFICES ASSUME Init PROVE TypeInv
    OBVIOUS
  <2>1. nvs \in NvsType
    BY ConstantsAssumption DEF Init, NvsType, MaybeAddr
  <2>2. cfg \in CfgType
    BY <2>1, LoadType DEF Init
  <2>3. remote \in Addrs
    BY <2>2 DEF Init, CfgType
  <2>4. /\ restarts \in 0..MaxRestarts /\ last \in Nat /\ burnt \in Nat
        /\ aired \in 0..CodeMod - 1
    BY ConstantsAssumption DEF Init
  <2>5. asked \in AskedType
    BY DEF Init, NoAnswer, AskedType
  <2>6. AddrChosen
    BY DEF Init, AddrChosen, IdleHttp
  <2> QED
    BY <2>1, <2>2, <2>3, <2>4, <2>5, <2>6, IdleRfType, IdleHttpType
    DEF Init, TypeInv, TypeOK, MaybeAddr
<1>2. TypeInv /\ [Next]_vars => TypeInv'
  <2> SUFFICES ASSUME TypeInv, [Next]_vars PROVE TypeInv'
    OBVIOUS
  <2> USE DEF TypeInv, TypeOK, AddrChosen
  <2>1. ASSUME NEW button \in Buttons, SendLock(button) PROVE TypeInv'
    <3>1. rf' \in RfType
      BY <2>1, IdleRfType DEF SendLock, RfType, RfPcs
    <3>2. http' \in HttpType
      BY <2>1 DEF SendLock, HttpType
    <3> QED
      BY <2>1, <3>1, <3>2 DEF SendLock, history
  <2>2. CASE SendReadCode
    <3>1. cfg.rolling \in Nat /\ (cfg.rolling % CodeMod) \in 0..CodeMod - 1
      BY CodeType DEF CfgType
    <3>2. rf' \in RfType
      BY <2>2, <3>1 DEF SendReadCode, RfType, RfPcs
    <3> QED
      BY <2>2, <3>2 DEF SendReadCode, history
  <2>3. CASE SendNextCode
    <3>1. cfg.rolling + 1 \in Nat
      BY DEF CfgType
    <3>2. rf' \in RfType
      BY <2>3, <3>1 DEF SendNextCode, RfType, RfPcs
    <3> QED
      BY <2>3, <3>2 DEF SendNextCode, history
  <2>4. ASSUME NEW o \in SaveOutcomes, SendPersist(o) PROVE TypeInv'
    <3>1. nvs' \in NvsType
      BY <2>4 DEF SendPersist, NvsType, RfType
    <3>2. rf' \in RfType
      BY <2>4, OutcomeType DEF SendPersist, RfType, RfPcs
    <3>3. faulted' \subseteq FaultKinds
      BY <2>4, OutcomeType DEF SendPersist, Outcomes
    <3> QED
      BY <2>4, <3>1, <3>2, <3>3 DEF SendPersist, history
  <2>5. CASE SendCache
    <3>1. cfg' \in CfgType
      BY <2>5 DEF SendCache, CfgType, RfType
    <3>2. rf' \in RfType
      BY <2>5 DEF SendCache, RfType, RfPcs, Outcomes
    <3> QED
      BY <2>5, <3>1, <3>2 DEF SendCache, history
  <2>6. CASE SendBuildFrame
    <3>1. rf' \in RfType
      BY <2>6 DEF SendBuildFrame, RfType, RfPcs, MaybeAddr
    <3> QED
      BY <2>6, <3>1 DEF SendBuildFrame, history
  <2>7. CASE SendKeyOn
    <3>1. rf' \in RfType
      BY <2>7, IdleRfType DEF SendKeyOn, IdleRf, RfType, RfPcs, MaybeAddr
    <3>2. last' \in Nat /\ aired' \in 0..CodeMod - 1
      BY <2>7 DEF SendKeyOn, RfType
    <3>3. taught' \in MaybeAddr
      BY <2>7 DEF SendKeyOn, RfType, MaybeAddr
    <3> QED
      BY <2>7, <3>1, <3>2, <3>3 DEF SendKeyOn, history
  <2>8. CASE SendFails
    <3>1. rf' \in RfType
      BY <2>8, IdleRfType DEF SendFails, RfType, RfPcs
    <3> QED
      BY <2>8, <3>1 DEF SendFails, history
  <2>9. CASE SendDone
    <3>1. rf' \in RfType
      BY <2>9, IdleRfType DEF SendDone, RfType, RfPcs
    <3> QED
      BY <2>9, <3>1 DEF SendDone, history
  <2>10. ASSUME NEW o \in SaveOutcomes, SendPairPersist(o) PROVE TypeInv'
    <3>1. nvs' \in NvsType
      BY <2>10 DEF SendPairPersist, NvsType, MaybeAddr
    <3>2. rf' \in RfType
      BY <2>10, OutcomeType DEF SendPairPersist, RfType, RfPcs, MaybeAddr
    <3>3. faulted' \subseteq FaultKinds
      BY <2>10, OutcomeType DEF SendPairPersist, Outcomes
    <3> QED
      BY <2>10, <3>1, <3>2, <3>3 DEF SendPairPersist, history
  <2>11. CASE SendPairCache
    <3>1. cfg' \in CfgType
      BY <2>11 DEF SendPairCache, CfgType, RfType
    <3>2. rf' \in RfType
      BY <2>11, IdleRfType DEF SendPairCache, RfType, RfPcs
    <3> QED
      BY <2>11, <3>1, <3>2 DEF SendPairCache, history
  <2>12. CASE SendUnlock
    <3>1. rf' \in RfType
      BY <2>12, IdleRfType DEF SendUnlock
    <3> QED
      BY <2>12, <3>1 DEF SendUnlock, history
  <2>13. ASSUME NEW n \in Entries, RollingPost(n) PROVE TypeInv'
    <3>1. http' \in HttpType
      BY <2>13, IdleHttpType, ClampType, ConstantsAssumption DEF RollingPost, HttpType, HttpPcs
    <3>2. asked' \in AskedType
      BY <2>13 DEF RollingPost, NoAnswer, AskedType
    <3> QED
      BY <2>13, <3>1, <3>2 DEF RollingPost, history, Judge
  <2>14. ASSUME NEW o \in SaveOutcomes, RollingPersist(o) PROVE TypeInv'
    <3>1. nvs' \in NvsType
      BY <2>14 DEF RollingPersist, NvsType, HttpType
    <3>2. http' \in HttpType
      BY <2>14, OutcomeType DEF RollingPersist, HttpType, HttpPcs
    <3>3. faulted' \subseteq FaultKinds
      BY <2>14, OutcomeType DEF RollingPersist, Outcomes
    <3>4. AddrChosen'
      BY <2>14 DEF RollingPersist, HttpType
    <3> QED
      BY <2>14, <3>1, <3>2, <3>3, <3>4 DEF RollingPersist, history, Judge
  <2>15. CASE RollingCache
    <3>1. cfg' \in CfgType
      BY <2>15 DEF RollingCache, CfgType, HttpType
    <3>2. asked' \in AskedType
      BY <2>15 DEF RollingCache, AskedType, HttpType
    <3>3. http' \in HttpType
      BY <2>15, IdleHttpType DEF RollingCache
    <3>4. AddrChosen'
      BY <2>15 DEF RollingCache, IdleHttp
    <3> QED
      BY <2>15, <3>1, <3>2, <3>3, <3>4 DEF RollingCache, history, Judge
  <2>16. ASSUME NEW a \in Addrs \cup {NoAddr}, SomfyPost(a) PROVE TypeInv'
    <3>1. http' \in HttpType
      BY <2>16, IdleHttpType DEF SomfyPost, HttpType, HttpPcs, CfgType, MaybeAddr
    <3>2. AddrChosen'
      BY <2>16, IdleHttpType DEF SomfyPost, IdleHttp, HttpType, CfgType
    <3> QED
      BY <2>16, <3>1, <3>2 DEF SomfyPost, history
  <2>17. ASSUME NEW o \in SaveOutcomes, SomfyPersist(o) PROVE TypeInv'
    <3>1. nvs' \in NvsType
      BY <2>17 DEF SomfyPersist, NvsType, HttpType
    <3>2. http' \in HttpType
      BY <2>17, OutcomeType DEF SomfyPersist, HttpType, HttpPcs
    <3>3. faulted' \subseteq FaultKinds
      BY <2>17, OutcomeType DEF SomfyPersist, Outcomes
    <3>4. AddrChosen'
      BY <2>17 DEF SomfyPersist, HttpType
    <3> QED
      BY <2>17, <3>1, <3>2, <3>3, <3>4 DEF SomfyPersist, history
  <2>18. CASE SomfyCache
    <3>1. cfg' \in CfgType
      BY <2>18 DEF SomfyCache, CfgType, HttpType
    <3>2. http' \in HttpType
      BY <2>18, IdleHttpType DEF SomfyCache, HttpType, HttpPcs, Outcomes
    <3>3. AddrChosen'
      <4>1. CASE http' = IdleHttp
        BY <4>1 DEF IdleHttp
      <4>2. CASE http' = [http EXCEPT !.pc = "addrSet", !.saved = "ok"]
        BY <2>18, <4>2 DEF SomfyCache, HttpType
      <4> QED
        BY <2>18, <4>1, <4>2 DEF SomfyCache
    <3> QED
      BY <2>18, <3>1, <3>2, <3>3 DEF SomfyCache, history
  <2>19. CASE SomfySetRemote
    <3>1. remote' \in Addrs
      BY <2>19 DEF SomfySetRemote, HttpType
    <3>2. http' \in HttpType
      BY <2>19, IdleHttpType DEF SomfySetRemote
    <3>3. AddrChosen'
      BY <2>19 DEF SomfySetRemote, IdleHttp
    <3> QED
      BY <2>19, <3>1, <3>2, <3>3 DEF SomfySetRemote, history
  <2>20. CASE Restart
    <3>1. EmptyNvs \in NvsType
      BY DEF EmptyNvs, NvsType, MaybeAddr
    <3>2. PICK flash \in NvsType : Boot(flash)
      BY <2>20, <3>1 DEF Restart
    <3>3. nvs' \in NvsType /\ cfg' \in CfgType /\ remote' \in Addrs
      <4>1. Load(flash) \in CfgType
        BY LoadType
      <4>2. Load(flash).remote \in Addrs
        BY <4>1 DEF CfgType
      <4> QED
        BY <3>2, <4>1, <4>2 DEF Boot
    <3>4. rf' \in RfType /\ http' \in HttpType /\ lock' \in {"none", "rf"}
      BY <3>2, IdleRfType, IdleHttpType DEF Boot
    <3>5. AddrChosen'
      BY <3>2 DEF Boot, IdleHttp
    <3>6. restarts' \in 0..MaxRestarts
      <4>1. restarts < MaxRestarts /\ restarts' = restarts + 1
        BY <2>20 DEF Restart
      <4> QED
        BY <4>1, ConstantsAssumption
    <3>7. faulted' \subseteq FaultKinds
      BY <2>20 DEF Restart
    <3> QED
      BY <2>20, <3>3, <3>4, <3>5, <3>6, <3>7 DEF Restart
  <2>21. CASE UNCHANGED vars
    BY <2>21 DEF vars, device, history
  <2> QED
    BY <2>1, <2>2, <2>3, <2>4, <2>5, <2>6, <2>7, <2>8, <2>9, <2>10, <2>11,
       <2>12, <2>13, <2>14, <2>15, <2>16, <2>17, <2>18, <2>19, <2>20, <2>21
    DEF Next, Send, Handler
<1>3. QED
  BY <1>1, <1>2, PTL DEF Spec

(* TypeCorrect: every variable has its type in every reachable state. *)
THEOREM TypeCorrect == Spec => []TypeOK
  BY TypeInvariant, PTL DEF TypeInv

-----------------------------------------------------------------------------
(* The counter and RestartSafe *)

(* While flash works, no task holds a failed save in its hand.             *)
SavesOk == faulted = {} => rf.saved = "ok" /\ http.saved = "ok"

(* Where the counter stands at each step of a send: the code in hand is    *)
(* ahead of what was on air, and from SendPersist on flash is ahead of the *)
(* code in hand, so that the frame may go out at any later moment.         *)
CounterAhead ==
  /\ nvs.rolling > last /\ cfg.rolling > last
  /\ rf.pc \in CodeInHand => rf.counter > last
  /\ rf.pc = "next" => cfg.rolling >= rf.counter
  /\ rf.pc \in {"nvs", "ram"} => rf.next > rf.counter
  /\ rf.pc \in {"ram", "frame", "tx"} => nvs.rolling > rf.counter
  /\ rf.pc \in {"frame", "tx"} => cfg.rolling > rf.counter

CounterInv == SavesOk /\ (~Excused => CounterAhead)

LEMMA CounterInit == Init => CounterInv
  BY ConstantsAssumption
  DEF Init, CounterInv, SavesOk, CounterAhead, CodeInHand, IdleRf, IdleHttp, Load

(* An excuse is for ever.                                                  *)
LEMMA ExcuseStays == [Next]_vars => (Excused => Excused')
<1> SUFFICES ASSUME [Next]_vars, Excused PROVE Excused'
  OBVIOUS
<1> USE DEF Excused
<1> QED
  BY DEF Next, Send, Handler, vars, device, history, SendLock, SendReadCode,
     SendNextCode, SendPersist, SendCache, SendBuildFrame, SendKeyOn, SendFails,
     SendDone, SendPairPersist, SendPairCache, SendUnlock, RollingPost,
     RollingPersist, RollingCache, SomfyPost, SomfyPersist, SomfyCache,
     SomfySetRemote, Restart, Boot, Judge

(* CounterInv is inductive: a step of either task, or a restart, keeps it. *)
LEMMA CounterStep ==
  ASSUME TypeInv, CounterInv, [Next]_vars
  PROVE  CounterInv'
<1> USE DEF CounterInv, CounterAhead, SavesOk, Excused, CodeInHand
<1>0. /\ nvs \in NvsType /\ cfg \in CfgType /\ rf \in RfType /\ http \in HttpType
      /\ nvs.rolling \in Nat /\ cfg.rolling \in Nat /\ last \in Nat
      /\ rf.counter \in Nat /\ rf.next \in Nat /\ http.code \in Nat
  BY DEF TypeInv, TypeOK, NvsType, CfgType, RfType, HttpType
<1>1. ASSUME NEW button \in Buttons, SendLock(button) PROVE CounterInv'
  BY <1>0, <1>1, IdleRfType DEF SendLock, IdleRf, HttpType, RfType, history
<1>2. CASE SendReadCode
  BY <1>0, <1>2 DEF SendReadCode, RfType, history
<1>3. CASE SendNextCode
  BY <1>0, <1>3 DEF SendNextCode, RfType, history
<1>4. ASSUME NEW o \in SaveOutcomes, SendPersist(o) PROVE CounterInv'
  BY <1>0, <1>4 DEF SendPersist, RfType, NvsType, Stores, history
<1>5. CASE SendCache
  BY <1>0, <1>5 DEF SendCache, RfType, CfgType, ReturnsOk, history
<1>6. CASE SendBuildFrame
  BY <1>0, <1>6 DEF SendBuildFrame, RfType, history
<1>7. CASE SendKeyOn
  BY <1>0, <1>7 DEF SendKeyOn, RfType, history
<1>8. CASE SendFails
  BY <1>0, <1>8, IdleRfType DEF SendFails, IdleRf, RfType, history
<1>9. CASE SendDone
  BY <1>0, <1>9, IdleRfType DEF SendDone, IdleRf, RfType, history
<1>10. ASSUME NEW o \in SaveOutcomes, SendPairPersist(o) PROVE CounterInv'
  BY <1>0, <1>10 DEF SendPairPersist, RfType, NvsType, history
<1>11. CASE SendPairCache
  BY <1>0, <1>11, IdleRfType DEF SendPairCache, IdleRf, RfType, CfgType, history
<1>12. CASE SendUnlock
  BY <1>0, <1>12 DEF SendUnlock, IdleRf, history
<1>13. ASSUME NEW n \in Entries, RollingPost(n) PROVE CounterInv'
  BY <1>0, <1>13, IdleHttpType DEF RollingPost, IdleHttp, HttpType, history
<1>14. ASSUME NEW o \in SaveOutcomes, RollingPersist(o) PROVE CounterInv'
  BY <1>0, <1>14 DEF RollingPersist, HttpType, NvsType, Stores, Judge, AheadOfUsed, history
<1>15. CASE RollingCache
  BY <1>0, <1>15 DEF RollingCache, IdleHttp, CfgType, ReturnsOk, Judge, AheadOfUsed, history
<1>16. ASSUME NEW a \in Addrs \cup {NoAddr}, SomfyPost(a) PROVE CounterInv'
  BY <1>0, <1>16, IdleHttpType DEF SomfyPost, IdleHttp, HttpType, history
<1>17. ASSUME NEW o \in SaveOutcomes, SomfyPersist(o) PROVE CounterInv'
  BY <1>0, <1>17 DEF SomfyPersist, HttpType, NvsType, history
<1>18. CASE SomfyCache
  <2>1. /\ UNCHANGED <<nvs, rf, last, manual, faulted>>
        /\ cfg'.rolling = cfg.rolling
    BY <1>0, <1>18 DEF SomfyCache, CfgType, history
  <2>2. http'.saved = "ok"
    <3>1. CASE http' = IdleHttp
      BY <3>1 DEF IdleHttp
    <3>2. CASE http' = [http EXCEPT !.pc = "addrSet", !.saved = "ok"]
      BY <1>0, <3>2 DEF HttpType
    <3> QED
      BY <1>18, <3>1, <3>2 DEF SomfyCache
  <2> QED
    BY <1>0, <2>1, <2>2
<1>19. CASE SomfySetRemote
  BY <1>0, <1>19 DEF SomfySetRemote, IdleHttp, history
<1>20. CASE Restart
  BY <1>0, <1>20, LoadType DEF Restart, Boot, IdleRf, IdleHttp
<1>21. CASE UNCHANGED vars
  BY <1>21 DEF vars, device, history
<1> QED
  BY <1>1, <1>2, <1>3, <1>4, <1>5, <1>6, <1>7, <1>8, <1>9, <1>10, <1>11, <1>12, <1>13, <1>14, <1>15, <1>16, <1>17, <1>18, <1>19, <1>20, <1>21
  DEF Next, Send, Handler

(* CounterAlwaysAhead: in every reachable state the code in flash and the   *)
(* code in hand are ahead of what was on air (somfy_rts_send's order).      *)
THEOREM CounterAlwaysAhead == Spec => []CounterInv
<1>1. TypeInv /\ CounterInv /\ [Next]_vars => CounterInv'
  BY CounterStep
<1> QED
  BY <1>1, CounterInit, TypeInvariant, PTL DEF Spec

(* RestartsAreSafe: at every moment flash holds a code ahead of the last   *)
(* frame on air, so that a power failure there costs codes, not sync.      *)
THEOREM RestartsAreSafe == Spec => []RestartSafe
<1>1. TypeInv /\ CounterInv => RestartSafe
  <2> SUFFICES ASSUME TypeInv, CounterInv, ~Excused PROVE Load(nvs).rolling > last
    BY DEF RestartSafe
  <2>1. nvs \in NvsType /\ nvs.rolling \in Nat /\ last \in Nat
    BY DEF TypeInv, TypeOK, NvsType
  <2>2. nvs.rolling > last
    BY DEF CounterInv, CounterAhead
  <2> QED
    BY <2>1, <2>2, LoadType
<1> QED
  BY <1>1, TypeInvariant, CounterAlwaysAhead, PTL

-----------------------------------------------------------------------------
(* The record of the pairing *)

(* s_lock is held exactly inside a send, so the address a PROG frame       *)
(* carries is still s_remote when it is recorded.                          *)
PairingInv ==
  /\ SavesOk
  /\ lock = "none" <=> rf.pc = "idle"
  /\ faulted = {} =>
       /\ rf.pc = "tx" => rf.addr = remote
       /\ rf.pc = "pairNvs" \/ (rf.pc = "wait" /\ rf.button = "prog") =>
            taught = remote /\ pairing = "pending"
       /\ rf.pc = "pairRam" =>
            rf.addr = taught /\ nvs.paired = taught /\ pairing = "pending"
       /\ pairing = "recorded" => nvs.paired = taught /\ cfg.paired = taught

LEMMA PairingStep ==
  ASSUME TypeInv, PairingInv, CounterInv', [Next]_vars
  PROVE  PairingInv'
<1> USE DEF PairingInv, SavesOk, CounterInv
<1>0. nvs \in NvsType /\ cfg \in CfgType /\ rf \in RfType
  BY DEF TypeInv, TypeOK
<1>1. ASSUME NEW button \in Buttons, SendLock(button) PROVE PairingInv'
  BY <1>0, <1>1, IdleRfType DEF SendLock, IdleRf, RfType, history
<1>2. CASE SendReadCode
  BY <1>0, <1>2 DEF SendReadCode, RfType, history
<1>3. CASE SendNextCode
  BY <1>0, <1>3 DEF SendNextCode, RfType, history
<1>4. ASSUME NEW o \in SaveOutcomes, SendPersist(o) PROVE PairingInv'
  BY <1>0, <1>4 DEF SendPersist, RfType, NvsType, history
<1>5. CASE SendCache
  BY <1>0, <1>5 DEF SendCache, RfType, CfgType, history
<1>6. CASE SendBuildFrame
  BY <1>0, <1>6 DEF SendBuildFrame, RfType, history
<1>7. CASE SendKeyOn
  BY <1>0, <1>7 DEF SendKeyOn, RfType, history
<1>8. CASE SendFails
  BY <1>0, <1>8, IdleRfType DEF SendFails, IdleRf, RfType, history
<1>9. CASE SendDone
  BY <1>0, <1>9, IdleRfType DEF SendDone, IdleRf, RfType, history
<1>10. ASSUME NEW o \in SaveOutcomes, SendPairPersist(o) PROVE PairingInv'
  BY <1>0, <1>10 DEF SendPairPersist, RfType, NvsType, Stores, history
<1>11. CASE SendPairCache
  BY <1>0, <1>11, IdleRfType DEF SendPairCache, IdleRf, RfType, CfgType, ReturnsOk, history
<1>12. CASE SendUnlock
  BY <1>0, <1>12 DEF SendUnlock, IdleRf, history
<1>13. ASSUME NEW n \in Entries, RollingPost(n) PROVE PairingInv'
  BY <1>0, <1>13 DEF RollingPost, history
<1>14. ASSUME NEW o \in SaveOutcomes, RollingPersist(o) PROVE PairingInv'
  BY <1>0, <1>14 DEF RollingPersist, NvsType, history
<1>15. CASE RollingCache
  BY <1>0, <1>15 DEF RollingCache, CfgType, history
<1>16. ASSUME NEW a \in Addrs \cup {NoAddr}, SomfyPost(a) PROVE PairingInv'
  BY <1>0, <1>16 DEF SomfyPost, history
<1>17. ASSUME NEW o \in SaveOutcomes, SomfyPersist(o) PROVE PairingInv'
  BY <1>0, <1>17 DEF SomfyPersist, NvsType, history
<1>18. CASE SomfyCache
  BY <1>0, <1>18 DEF SomfyCache, CfgType, history
<1>19. CASE SomfySetRemote
  BY <1>0, <1>19 DEF SomfySetRemote, history
<1>20. CASE Restart
  BY <1>0, <1>20 DEF Restart, Boot, IdleRf, IdleHttp, Load
<1>21. CASE UNCHANGED vars
  BY <1>21 DEF vars, device, history
<1> QED
  BY <1>1, <1>2, <1>3, <1>4, <1>5, <1>6, <1>7, <1>8, <1>9, <1>10, <1>11, <1>12, <1>13, <1>14, <1>15, <1>16, <1>17, <1>18, <1>19, <1>20, <1>21
  DEF Next, Send, Handler

(* PairingIsRecorded: for any set of addresses, changed at any moment, the *)
(* address on record is the one the last PROG frame carried.               *)
THEOREM PairingIsRecorded == Spec => []PairingRecorded
<1>1. Init => PairingInv
  BY DEF Init, PairingInv, SavesOk, IdleRf, IdleHttp, Load
<1>2. TypeInv /\ PairingInv /\ CounterInv' /\ [Next]_vars => PairingInv'
  BY PairingStep
<1>3. PairingInv => PairingRecorded
  BY DEF PairingInv, PairingRecorded
<1> QED
  BY <1>1, <1>2, <1>3, TypeInvariant, CounterAlwaysAhead, PTL DEF Spec

-----------------------------------------------------------------------------
(* The address in flash, in g_config and in the transmitter *)

(* How far the handler has carried a new address.                          *)
AddressInv ==
  faulted \subseteq {"open", "erase"} =>
    /\ http.saved \in {"ok", "open"}
    /\ IF http.pc = "addrRam" /\ http.saved = "ok"
       THEN remote = cfg.remote /\ Load(nvs).remote = http.addr
       ELSE IF http.pc = "addrSet"
       THEN cfg.remote = http.addr /\ Load(nvs).remote = http.addr
       ELSE remote = cfg.remote /\ Load(nvs).remote = cfg.remote

LEMMA AddressStep ==
  ASSUME TypeInv, AddressInv, [Next]_vars
  PROVE  AddressInv'
<1> USE DEF AddressInv
<1>0. /\ nvs \in NvsType /\ cfg \in CfgType /\ http \in HttpType
      /\ AddrChosen
  BY DEF TypeInv, TypeOK
<1>1. ASSUME NEW button \in Buttons, SendLock(button) PROVE AddressInv'
  BY <1>0, <1>1 DEF SendLock, HttpType, history
<1>2. CASE SendReadCode
  BY <1>0, <1>2 DEF SendReadCode, history
<1>3. CASE SendNextCode
  BY <1>0, <1>3 DEF SendNextCode, history
<1>4. ASSUME NEW o \in SaveOutcomes, SendPersist(o) PROVE AddressInv'
  BY <1>0, <1>4 DEF SendPersist, NvsType, Load, history
<1>5. CASE SendCache
  BY <1>0, <1>5 DEF SendCache, CfgType, history
<1>6. CASE SendBuildFrame
  BY <1>0, <1>6 DEF SendBuildFrame, history
<1>7. CASE SendKeyOn
  BY <1>0, <1>7 DEF SendKeyOn, history
<1>8. CASE SendFails
  BY <1>0, <1>8 DEF SendFails, history
<1>9. CASE SendDone
  BY <1>0, <1>9 DEF SendDone, history
<1>10. ASSUME NEW o \in SaveOutcomes, SendPairPersist(o) PROVE AddressInv'
  BY <1>0, <1>10 DEF SendPairPersist, NvsType, Load, history
<1>11. CASE SendPairCache
  BY <1>0, <1>11 DEF SendPairCache, CfgType, history
<1>12. CASE SendUnlock
  BY <1>0, <1>12 DEF SendUnlock, history
<1>13. ASSUME NEW n \in Entries, RollingPost(n) PROVE AddressInv'
  BY <1>0, <1>13, IdleHttpType DEF RollingPost, IdleHttp, HttpType, history
<1>14. ASSUME NEW o \in SaveOutcomes, RollingPersist(o) PROVE AddressInv'
  <2>1. faulted' \subseteq {"open", "erase"} =>
          faulted \subseteq {"open", "erase"} /\ o \in {"ok", "open"}
    BY <1>14 DEF RollingPersist, SaveOutcomes
  <2>2. http'.saved = o /\ http'.pc = "rollRam"
    BY <1>0, <1>14 DEF RollingPersist, HttpType
  <2>3. nvs'.remote = nvs.remote
    BY <1>0, <1>14 DEF RollingPersist, NvsType
  <2> QED
    BY <1>14, <2>1, <2>2, <2>3 DEF RollingPersist, Load
<1>15. CASE RollingCache
  BY <1>0, <1>15 DEF RollingCache, IdleHttp, CfgType, history
<1>16. ASSUME NEW a \in Addrs \cup {NoAddr}, SomfyPost(a) PROVE AddressInv'
  BY <1>0, <1>16, IdleHttpType DEF SomfyPost, IdleHttp, HttpType, Load, history
<1>17. ASSUME NEW o \in SaveOutcomes, SomfyPersist(o) PROVE AddressInv'
  <2>1. faulted' \subseteq {"open", "erase"} =>
          faulted \subseteq {"open", "erase"} /\ o \in {"ok", "open"}
    BY <1>17 DEF SomfyPersist, SaveOutcomes
  <2>2. http'.saved = o /\ http'.pc = "addrRam" /\ http'.addr = http.addr
    BY <1>0, <1>17 DEF SomfyPersist, HttpType
  <2>3. CASE o = "ok"
    <3>1. nvs'.remote = http.addr /\ http.addr \in Addrs
      BY <1>0, <1>17, <2>3 DEF SomfyPersist, NvsType, Stores, AddrChosen
    <3>2. Load(nvs').remote = http.addr
      BY <3>1, ConstantsAssumption DEF Load
    <3> QED
      BY <1>17, <2>1, <2>2, <2>3, <3>2 DEF SomfyPersist
  <2>4. CASE o = "open"
    BY <1>17, <2>1, <2>2, <2>4 DEF SomfyPersist, Stores
  <2> QED
    BY <2>1, <2>3, <2>4
<1>18. CASE SomfyCache
  <2>1. CASE ReturnsOk(http.saved)
    <3>1. http'.pc = "addrSet" /\ http'.saved = "ok" /\ http'.addr = http.addr
      BY <1>0, <1>18, <2>1 DEF SomfyCache, HttpType
    <3>2. cfg'.remote = http.addr
      BY <1>0, <1>18, <2>1 DEF SomfyCache, CfgType
    <3> QED
      BY <1>18, <2>1, <3>1, <3>2 DEF SomfyCache, ReturnsOk, history
  <2>2. CASE ~ReturnsOk(http.saved)
    BY <1>18, <2>2 DEF SomfyCache, ReturnsOk, IdleHttp, history
  <2> QED
    BY <2>1, <2>2
<1>19. CASE SomfySetRemote
  BY <1>0, <1>19 DEF SomfySetRemote, IdleHttp, history
<1>20. CASE Restart
  BY <1>0, <1>20 DEF Restart, Boot, IdleHttp
<1>21. CASE UNCHANGED vars
  BY <1>21 DEF vars, device, history
<1> QED
  BY <1>1, <1>2, <1>3, <1>4, <1>5, <1>6, <1>7, <1>8, <1>9, <1>10, <1>11, <1>12, <1>13, <1>14, <1>15, <1>16, <1>17, <1>18, <1>19, <1>20, <1>21
  DEF Next, Send, Handler

(* AddressIsApplied: outside a handler the three copies of the address are *)
(* one, however the two tasks interleave and wherever the power fails.     *)
THEOREM AddressIsApplied == Spec => []AddressApplied
<1>1. Init => AddressInv
  BY DEF Init, AddressInv, IdleHttp
<1>2. TypeInv /\ AddressInv /\ [Next]_vars => AddressInv'
  BY AddressStep
<1>3. AddressInv => AddressApplied
  BY DEF AddressInv, AddressApplied
<1> QED
  BY <1>1, <1>2, <1>3, TypeInvariant, PTL DEF Spec
-----------------------------------------------------------------------------
(* The steps that have no part in a code *)

(* A step that carries no code: of the send outside the stretch from       *)
(* SendReadCode to SendKeyOn, or of the address form.                      *)
Aside ==
  /\ nvs'.rolling = nvs.rolling /\ cfg'.rolling = cfg.rolling
  /\ UNCHANGED <<last, aired, burnt, manual, asked>>
  /\ faulted \subseteq faulted'
  /\ \/ UNCHANGED rf /\ http'.pc \notin {"rollNvs", "rollRam"}
        /\ (http'.during = "quiet" => http.during = "quiet")
     \/ /\ rf.pc # "ram" /\ rf'.pc \notin CodeInHand
        /\ rf'.saved = "ok" \/ rf'.saved \in faulted'
        /\ \/ UNCHANGED http /\ rf.pc # "idle"
           \/ http' = [http EXCEPT !.during = "busy"]

(* AsideSteps: what the other steps of the two tasks do to the counter.     *)
LEMMA AsideSteps ==
  ASSUME TypeInv,
         \/ \E button \in Buttons : SendLock(button)
         \/ SendFails \/ SendDone \/ SendPairCache \/ SendUnlock
         \/ \E o \in SaveOutcomes : SendPairPersist(o) \/ SomfyPersist(o)
         \/ \E a \in Addrs \cup {NoAddr} : SomfyPost(a)
         \/ SomfyCache \/ SomfySetRemote
  PROVE  Aside
<1> USE DEF Aside, CodeInHand, history
<1>0. /\ nvs \in NvsType /\ cfg \in CfgType /\ rf \in RfType /\ http \in HttpType
  BY DEF TypeInv, TypeOK
<1>1. ASSUME NEW button \in Buttons, SendLock(button) PROVE Aside
  BY <1>0, <1>1, IdleRfType DEF SendLock, IdleRf, RfType
<1>2. CASE SendFails \/ SendDone \/ SendUnlock
  BY <1>0, <1>2, IdleRfType DEF SendFails, SendDone, SendUnlock, IdleRf, RfType
<1>3. CASE SendPairCache
  BY <1>0, <1>3, IdleRfType DEF SendPairCache, IdleRf, RfType, CfgType
<1>4. ASSUME NEW o \in SaveOutcomes, SendPairPersist(o) PROVE Aside
  BY <1>0, <1>4 DEF SendPairPersist, RfType, NvsType
<1>5. ASSUME NEW o \in SaveOutcomes, SomfyPersist(o) PROVE Aside
  BY <1>0, <1>5 DEF SomfyPersist, HttpType, NvsType
<1>6. ASSUME NEW a \in Addrs \cup {NoAddr}, SomfyPost(a) PROVE Aside
  BY <1>0, <1>6, IdleHttpType DEF SomfyPost, IdleHttp, HttpType
<1>7. CASE SomfyCache
  <2>1. http' = IdleHttp \/ http' = [http EXCEPT !.pc = "addrSet", !.saved = "ok"]
    BY <1>7 DEF SomfyCache
  <2>2. http'.pc \notin {"rollNvs", "rollRam"} /\ (http'.during = "quiet" => http.during = "quiet")
    <3>1. CASE http' = IdleHttp
      BY <3>1 DEF IdleHttp
    <3>2. CASE http' = [http EXCEPT !.pc = "addrSet", !.saved = "ok"]
      BY <1>0, <3>2 DEF HttpType
    <3> QED
      BY <2>1, <3>1, <3>2
  <2> QED
    BY <1>0, <1>7, <2>2 DEF SomfyCache, CfgType
<1>8. CASE SomfySetRemote
  BY <1>0, <1>8 DEF SomfySetRemote, IdleHttp
<1> QED
  BY <1>1, <1>2, <1>3, <1>4, <1>5, <1>6, <1>7, <1>8

-----------------------------------------------------------------------------
(* The code on air: NoReplay and the promise of RtsRemote *)

(* The code in hand, and the one last heard, are what the frame had room   *)
(* for of their counters.                                                  *)
AirInv ==
  /\ aired = last % CodeMod
  /\ rf.pc \in CodeInHand => rf.serial = rf.counter % CodeMod

LEMMA AirStep ==
  ASSUME TypeInv, AirInv, [Next]_vars
  PROVE  AirInv'
<1> USE DEF AirInv, CodeInHand
<1>0. rf \in RfType
  BY DEF TypeInv, TypeOK
<1>1. CASE Aside
  BY <1>0, <1>1 DEF Aside
<1>2. CASE SendReadCode
  BY <1>0, <1>2 DEF SendReadCode, RfType, history
<1>3. CASE SendNextCode
  BY <1>0, <1>3 DEF SendNextCode, RfType, history
<1>4. ASSUME NEW o \in SaveOutcomes, SendPersist(o) PROVE AirInv'
  BY <1>0, <1>4 DEF SendPersist, RfType
<1>5. CASE SendCache
  BY <1>0, <1>5 DEF SendCache, RfType, history
<1>6. CASE SendBuildFrame
  BY <1>0, <1>6 DEF SendBuildFrame, RfType, history
<1>7. CASE SendKeyOn
  BY <1>0, <1>7 DEF SendKeyOn, RfType
<1>8. ASSUME NEW n \in Entries, RollingPost(n) PROVE AirInv'
  BY <1>8 DEF RollingPost
<1>9. ASSUME NEW o \in SaveOutcomes, RollingPersist(o) PROVE AirInv'
  BY <1>9 DEF RollingPersist
<1>10. CASE RollingCache
  BY <1>10 DEF RollingCache
<1>11. CASE Restart
  BY <1>11 DEF Restart, Boot, IdleRf
<1>12. CASE UNCHANGED vars
  BY <1>12 DEF vars, device, history
<1> QED
  BY <1>1, <1>2, <1>3, <1>4, <1>5, <1>6, <1>7, <1>8, <1>9, <1>10, <1>11, <1>12, AsideSteps
  DEF Next, Send, Handler

(* AirInvariant: the frame carries its counter modulo what it has room for *)
(* (the cast to uint16_t in somfy_rts_send).                               *)
THEOREM AirInvariant == Spec => []AirInv
<1>1. Init => AirInv
  <2> SUFFICES ASSUME Init PROVE AirInv
    OBVIOUS
  <2>1. last \in Nat /\ last < CodeMod /\ aired = last
    BY ConstantsAssumption DEF Init
  <2>2. aired = last % CodeMod
    BY <2>1, CodeFits
  <2> QED
    BY <2>2 DEF AirInv, Init, IdleRf, CodeInHand
<1>2. TypeInv /\ AirInv /\ [Next]_vars => AirInv'
  BY AirStep
<1> QED
  BY <1>1, <1>2, TypeInvariant, PTL DEF Spec

(* A counter that fits the frame is carried whole, and so was every one    *)
(* before it: the codes on air then rise as the counters do.               *)
LEMMA CarriedWhole ==
  ASSUME TypeInv, CounterInv, AirInv, ~Excused,
         rf.pc \in CodeInHand, rf.counter < CodeMod
  PROVE  rf.serial = rf.counter /\ aired = last /\ last < rf.counter
<1>1. rf.counter \in Nat /\ last \in Nat
  BY DEF TypeInv, TypeOK, RfType
<1>2. last < rf.counter
  BY <1>1 DEF CounterInv, CounterAhead
<1>3. last < CodeMod
  BY <1>1, <1>2, ConstantsAssumption
<1> QED
  BY <1>1, <1>2, <1>3, CodeFits DEF AirInv

(* NeverReplays: whatever the addresses, the numbers typed, the failures   *)
(* and the restarts, every frame whose counter fits it carries a code      *)
(* ahead of the last one on air, unless flash failed or the user went back *)
(* (somfy_rts_send).  The frames after the wrap are the exception.         *)
THEOREM NeverReplays == Spec => []NoReplay
<1>1. TypeInv /\ CounterInv /\ AirInv => NoReplay
  <2> SUFFICES ASSUME TypeInv, CounterInv, AirInv,
                      rf.pc = "tx", ~Excused, rf.counter < CodeMod
               PROVE  rf.serial > aired
    BY DEF NoReplay
  <2>1. rf.serial = rf.counter /\ aired = last /\ last < rf.counter
    BY CarriedWhole DEF CodeInHand
  <2>2. rf.counter \in Nat /\ last \in Nat
    BY DEF TypeInv, TypeOK, RfType
  <2> QED
    BY <2>1, <2>2
<1> QED
  BY <1>1, TypeInvariant, CounterAlwaysAhead, AirInvariant, PTL

(* Only SendKeyOn puts a frame on air.                                     *)
LEMMA OnlyKeyOnAirs ==
  ASSUME [Next]_vars, last' # last
  PROVE  SendKeyOn
BY DEF Next, Send, Handler, vars, device, history, SendLock,
   SendReadCode, SendNextCode, SendPersist, SendCache, SendBuildFrame,
   SendFails, SendDone, SendPairPersist, SendPairCache, SendUnlock,
   RollingPost, RollingPersist, RollingCache, SomfyPost, SomfyPersist,
   SomfyCache, SomfySetRemote, Restart

(* Implements: the transmitter with its two tasks, its two copies of the   *)
(* counter and its restarts is the remote control of RtsRemote, whose      *)
(* codes are the ones in the frames, until they are used up.               *)
THEOREM Implements == Spec => KeepsPromise
<1> DEFINE Inv == TypeInv /\ CounterInv /\ AirInv
           Durable == Load(nvs).rolling
           Free == Excused \/ Wrapped
<1>1. Init => Promise!RemoteInit
  <2> SUFFICES ASSUME Init PROVE Promise!RemoteInit
    OBVIOUS
  <2>1. /\ Durable = FirstCode /\ aired = FirstCode - 1
        /\ ~Excused /\ ~Wrapped
    BY ConstantsAssumption DEF Init, Load, Excused, Wrapped
  <2> QED
    BY <2>1, ConstantsAssumption DEF Promise!RemoteInit
<1>2. Inv /\ Inv' /\ [Next]_vars => [Promise!RemoteNext]_(Promise!remoteVars)
  <2> SUFFICES ASSUME Inv, Inv', [Next]_vars
               PROVE  [Promise!RemoteNext]_(Promise!remoteVars)
    OBVIOUS
  <2>1. /\ Durable \in Nat /\ Durable' \in Nat /\ last \in Nat /\ last' \in Nat
        /\ aired \in Nat /\ aired' \in Nat
    BY ConstantsAssumption, LoadType DEF TypeInv, TypeOK, CfgType
  <2>2. CASE Free'
    BY <2>1, <2>2, Zenon
    DEF Promise!RemoteNext, Promise!Excuse
  <2>3. CASE ~Free'
    <3>1. ~Excused /\ ~Excused' /\ last' < CodeMod
      BY <2>1, <2>3, ExcuseStays, ConstantsAssumption DEF Wrapped
    <3>2. last < CodeMod
      <4>1. CASE last' = last
        BY <3>1, <4>1
      <4>2. CASE last' # last
        <5>1. SendKeyOn
          BY <4>2, OnlyKeyOnAirs
        <5>2. rf.counter \in Nat /\ last' = rf.counter /\ last < rf.counter
          BY <3>1, <5>1 DEF SendKeyOn, CounterInv, CounterAhead, CodeInHand,
             TypeInv, TypeOK, RfType
        <5> QED
          BY <2>1, <3>1, <5>2, ConstantsAssumption
      <4> QED
        BY <4>1, <4>2
    <3>3. ~Free
      BY <2>1, <3>1, <3>2, ConstantsAssumption DEF Wrapped
    <3>4. aired = last /\ aired' = last'
      <4>1. aired = last % CodeMod /\ aired' = last' % CodeMod
        BY DEF AirInv
      <4> QED
        BY <2>1, <3>1, <3>2, <4>1, CodeFits
    <3>5. Durable > aired /\ Durable' > aired'
      BY <2>1, <3>1, <3>4, LoadType DEF CounterInv, CounterAhead, TypeInv, TypeOK, NvsType
    <3>6. Free' = Free
      BY <2>3, <3>3, Zenon DEF Excused, Wrapped
    <3>7. CASE last' = last
      <4>1. aired' = aired
        BY <3>4, <3>7
      <4> QED
        BY <2>1, <3>3, <3>5, <3>6, <4>1, Zenon
        DEF Promise!RemoteNext, Promise!Reserve
    <3>8. CASE last' # last
      <4>1. SendKeyOn
        BY <3>8, OnlyKeyOnAirs
      <4>2. last' = rf.counter /\ nvs' = nvs /\ rf.pc = "tx"
        BY <4>1 DEF SendKeyOn
      <4>3. last < last' /\ last' < Durable /\ Durable' = Durable
        BY <2>1, <3>1, <4>2, LoadType
        DEF CounterInv, CounterAhead, CodeInHand, TypeInv, TypeOK, NvsType, RfType, Load
      <4>4. aired < aired' /\ aired' < Durable
        BY <3>4, <4>3
      <4> QED
        BY <2>1, <3>3, <3>6, <4>3, <4>4, Zenon
        DEF Promise!RemoteNext, Promise!Transmit
    <3> QED
      BY <3>7, <3>8
  <2> QED
    BY <2>2, <2>3
<1> QED
  BY <1>1, <1>2, TypeInvariant, CounterAlwaysAhead, AirInvariant, PTL
  DEF Spec, KeepsPromise, Promise!RemoteSpec

-----------------------------------------------------------------------------
(* The counter while nobody sets it by hand, and after a quiet update *)

(* While the code is nobody's but the transmitter's, both copies follow    *)
(* the code in hand exactly, and each save takes one code.                 *)
BurnInv ==
  manual = "never" /\ faulted = {} =>
    /\ http.pc # "rollRam"
    /\ cfg.rolling <= last + burnt + 1 /\ nvs.rolling <= last + burnt + 1
    /\ rf.pc \in {"next", "nvs", "ram"} => cfg.rolling = rf.counter
    /\ rf.pc \in {"nvs", "ram"} => rf.next = rf.counter + 1
    /\ rf.pc # "ram" => nvs.rolling = cfg.rolling
    /\ rf.pc = "ram" => rf.next <= last + burnt + 1
    /\ rf.pc \in {"ram", "frame", "tx"} => nvs.rolling = rf.counter + 1
    /\ rf.pc \in {"frame", "tx"} => cfg.rolling = rf.counter + 1

LEMMA BurnStep ==
  ASSUME TypeInv, CounterInv, BurnInv, [Next]_vars
  PROVE  BurnInv'
<1> USE DEF BurnInv, CodeInHand
<1>0. /\ nvs \in NvsType /\ cfg \in CfgType /\ rf \in RfType /\ http \in HttpType
      /\ nvs.rolling \in Nat /\ cfg.rolling \in Nat /\ last \in Nat /\ burnt \in Nat
      /\ rf.counter \in Nat /\ rf.next \in Nat
  BY DEF TypeInv, TypeOK, NvsType, CfgType, RfType
<1>1. CASE Aside
  BY <1>0, <1>1 DEF Aside, HttpType
<1>2. CASE SendReadCode
  BY <1>0, <1>2 DEF SendReadCode, RfType, history
<1>3. CASE SendNextCode
  BY <1>0, <1>3 DEF SendNextCode, RfType, history
<1>4. ASSUME NEW o \in SaveOutcomes, SendPersist(o) PROVE BurnInv'
  <2>1. faulted' = {} => faulted = {} /\ o = "ok"
    BY <1>4 DEF SendPersist
  <2> QED
    BY <1>0, <1>4, <2>1 DEF SendPersist, RfType, NvsType, Stores
<1>5. CASE SendCache
  BY <1>0, <1>5 DEF SendCache, RfType, CfgType, ReturnsOk, CounterInv, SavesOk, history
<1>6. CASE SendBuildFrame
  BY <1>0, <1>6 DEF SendBuildFrame, RfType, history
<1>7. CASE SendKeyOn
  BY <1>0, <1>7 DEF SendKeyOn, RfType
<1>8. ASSUME NEW n \in Entries, RollingPost(n) PROVE BurnInv'
  BY <1>0, <1>8, IdleHttpType DEF RollingPost, HttpType
<1>9. ASSUME NEW o \in SaveOutcomes, RollingPersist(o) PROVE BurnInv'
  BY <1>9 DEF RollingPersist, Judge
<1>10. CASE RollingCache
  BY <1>10 DEF RollingCache, Judge
<1>11. CASE Restart
  <2> SUFFICES ASSUME manual = "never", faulted' = {} PROVE BurnInv'
    BY <1>11 DEF Restart
  <2>1. Boot(nvs) /\ faulted = {} /\ UNCHANGED <<last, burnt>>
    BY <1>11 DEF Restart
  <2>2. nvs.rolling > last
    BY <2>1 DEF CounterInv, CounterAhead, Excused
  <2>3. Load(nvs).rolling = nvs.rolling
    BY <1>0, <2>2, LoadType
  <2> QED
    BY <1>0, <2>1, <2>3 DEF Boot, IdleRf, IdleHttp
<1>12. CASE UNCHANGED vars
  BY <1>12 DEF vars, device, history
<1> QED
  BY <1>1, <1>2, <1>3, <1>4, <1>5, <1>6, <1>7, <1>8, <1>9, <1>10, <1>11, <1>12, AsideSteps
  DEF Next, Send, Handler

(* BurnInvariant: the copies run ahead of the air as BurnInv says.         *)
THEOREM BurnInvariant == Spec => []BurnInv
<1>1. Init => BurnInv
  BY ConstantsAssumption DEF Init, BurnInv, IdleRf, IdleHttp, Load
<1>2. TypeInv /\ CounterInv /\ BurnInv /\ [Next]_vars => BurnInv'
  BY BurnStep
<1> QED
  BY <1>1, <1>2, TypeInvariant, CounterAlwaysAhead, PTL DEF Spec

(* BurnsOneCode: however often the power fails and transmissions do, the    *)
(* counter runs ahead of the blind by one code per command and no more.    *)
THEOREM BurnsOneCode == Spec => []OneCodePerCommand
<1>1. BurnInv => OneCodePerCommand
  BY DEF BurnInv, OneCodePerCommand
<1> QED
  BY <1>1, BurnInvariant, PTL

(* The user's number, and a failure of flash, are for ever.                *)
LEMMA SetStays == [Next]_vars => (SetOrFailed => SetOrFailed')
<1> SUFFICES ASSUME [Next]_vars, SetOrFailed PROVE SetOrFailed'
  OBVIOUS
<1> USE DEF SetOrFailed
<1> QED
  BY DEF Next, Send, Handler, vars, device, history, SendLock, SendReadCode,
     SendNextCode, SendPersist, SendCache, SendBuildFrame, SendKeyOn, SendFails,
     SendDone, SendPairPersist, SendPairCache, SendUnlock, RollingPost,
     RollingPersist, RollingCache, SomfyPost, SomfyPersist, SomfyCache,
     SomfySetRemote, Restart, Boot, Judge

(* What one step of the two tasks is for the tasks around them.            *)
Stays     == cfg'.rolling = cfg.rolling /\ CommandPhase' = CommandPhase
Begins    == cfg'.rolling = cfg.rolling /\ CommandPhase = "idle" /\ CommandPhase' = "asked"
Takes     == cfg'.rolling = cfg.rolling + 1 /\ CommandPhase = "asked" /\ CommandPhase' = "taken"
Returns   == cfg'.rolling = cfg.rolling /\ CommandPhase # "idle" /\ CommandPhase' = "idle"
LosesPower == /\ CommandPhase' = "idle"
              /\ cfg'.rolling \in IF CommandPhase = "asked"
                                  THEN {cfg.rolling, cfg.rolling + 1} ELSE {cfg.rolling}

LEMMA ContractStep ==
  ASSUME TypeInv, CounterInv, BurnInv, [Next]_vars, ~SetOrFailed, ~SetOrFailed'
  PROVE  Stays \/ Begins \/ Takes \/ Returns \/ LosesPower
<1> DEFINE Outside == Stays \/ Begins \/ Takes \/ Returns \/ LosesPower
<1> USE DEF CommandPhase
<1>0. /\ cfg \in CfgType /\ rf \in RfType /\ cfg.rolling \in Nat
      /\ manual = "never" /\ manual' = "never" /\ faulted = {} /\ faulted' = {}
  BY DEF TypeInv, TypeOK, CfgType, SetOrFailed
<1>1. ASSUME NEW button \in Buttons, SendLock(button) PROVE Outside
  BY <1>0, <1>1, IdleRfType DEF SendLock, RfType, Begins
<1>2. CASE SendReadCode
  BY <1>0, <1>2 DEF SendReadCode, RfType, Stays
<1>3. CASE SendNextCode
  BY <1>0, <1>3 DEF SendNextCode, RfType, Stays
<1>4. ASSUME NEW o \in SaveOutcomes, SendPersist(o) PROVE Outside
  BY <1>0, <1>4 DEF SendPersist, RfType, Stays
<1>5. CASE SendCache
  BY <1>0, <1>5 DEF SendCache, RfType, CfgType, ReturnsOk, CounterInv, SavesOk, BurnInv, Takes
<1>6. CASE SendBuildFrame
  BY <1>0, <1>6 DEF SendBuildFrame, RfType, Stays
<1>7. CASE SendKeyOn
  BY <1>0, <1>7 DEF SendKeyOn, RfType, Stays
<1>8. CASE SendFails
  BY <1>0, <1>8, IdleRfType DEF SendFails, RfType, Stays
<1>9. CASE SendDone
  BY <1>0, <1>9, IdleRfType DEF SendDone, RfType, Stays
<1>10. ASSUME NEW o \in SaveOutcomes, SendPairPersist(o) PROVE Outside
  BY <1>0, <1>10 DEF SendPairPersist, RfType, Stays
<1>11. CASE SendPairCache
  BY <1>0, <1>11, IdleRfType DEF SendPairCache, RfType, CfgType, Stays
<1>12. CASE SendUnlock
  BY <1>0, <1>12 DEF SendUnlock, IdleRf, Returns
<1>13. ASSUME NEW n \in Entries, RollingPost(n) PROVE Outside
  BY <1>13 DEF RollingPost, Stays
<1>14. ASSUME NEW o \in SaveOutcomes, RollingPersist(o) PROVE Outside
  BY <1>0, <1>14 DEF RollingPersist, Judge
<1>15. CASE RollingCache
  BY <1>0, <1>15 DEF RollingCache, Judge
<1>16. ASSUME NEW a \in Addrs \cup {NoAddr}, SomfyPost(a) PROVE Outside
  BY <1>16 DEF SomfyPost, Stays
<1>17. ASSUME NEW o \in SaveOutcomes, SomfyPersist(o) PROVE Outside
  BY <1>17 DEF SomfyPersist, Stays
<1>18. CASE SomfyCache
  BY <1>0, <1>18 DEF SomfyCache, CfgType, Stays
<1>19. CASE SomfySetRemote
  BY <1>19 DEF SomfySetRemote, Stays
<1>20. CASE Restart
  <2>1. Boot(nvs)
    BY <1>0, <1>20 DEF Restart
  <2>2. nvs \in NvsType /\ nvs.rolling > 0
    BY <1>0 DEF TypeInv, TypeOK, NvsType, CounterInv, CounterAhead, Excused
  <2>3. Load(nvs).rolling = nvs.rolling
    BY <2>2, LoadType
  <2>4. nvs.rolling = cfg.rolling \/ (rf.pc = "ram" /\ nvs.rolling = cfg.rolling + 1)
    BY <1>0 DEF BurnInv
  <2> QED
    BY <2>1, <2>3, <2>4 DEF Boot, IdleRf, LosesPower
<1>21. CASE UNCHANGED vars
  BY <1>21 DEF vars, device, Stays
<1> QED
  BY <1>1, <1>2, <1>3, <1>4, <1>5, <1>6, <1>7, <1>8, <1>9, <1>10, <1>11, <1>12, <1>13, <1>14, <1>15, <1>16, <1>17, <1>18, <1>19, <1>20, <1>21
  DEF Next, Send, Handler

(* SendIsOneStep: for all addresses and whatever the failures and restarts,*)
(* the transmitter is to its callers the one-step send of SendContract.    *)
THEOREM SendIsOneStep == Spec => OneStepSend
<1> DEFINE Inv == TypeInv /\ CounterInv /\ BurnInv
<1>1. Init => Contract!ContractInit
  <2> SUFFICES ASSUME Init PROVE Contract!ContractInit
    OBVIOUS
  <2>1. cfg.rolling = FirstCode /\ CommandPhase = "idle"
    BY ConstantsAssumption DEF Init, Load, CommandPhase, IdleRf
  <2>2. SetOrFailed = FALSE
    BY DEF Init, SetOrFailed
  <2> QED
    BY <2>1, <2>2, ConstantsAssumption DEF Contract!ContractInit
<1>2. Inv /\ Inv' /\ [Next]_vars => [Contract!ContractNext]_(Contract!contractVars)
  <2> SUFFICES ASSUME Inv, Inv', [Next]_vars
               PROVE  [Contract!ContractNext]_(Contract!contractVars)
    OBVIOUS
  <2>1. /\ cfg.rolling \in Nat /\ cfg'.rolling \in Nat
        /\ CommandPhase' \in {"idle", "asked", "taken"}
    BY DEF TypeInv, TypeOK, CfgType, CommandPhase
  <2>2. SetOrFailed \in BOOLEAN /\ SetOrFailed' \in BOOLEAN
    BY DEF SetOrFailed
  <2>3. CASE SetOrFailed'
    BY <2>1, <2>3, Zenon DEF Contract!ContractNext, Contract!Excuse
  <2>4. CASE ~SetOrFailed'
    <3>1. ~SetOrFailed
      BY <2>4, SetStays
    <3>2. SetOrFailed' = SetOrFailed
      BY <2>4, <3>1, Zenon DEF SetOrFailed
    <3>3. Stays \/ Begins \/ Takes \/ Returns \/ LosesPower
      BY <2>4, <3>1, ContractStep
    <3>4. CASE Stays
      BY <3>2, <3>4, Zenon DEF Stays, Contract!contractVars
    <3>5. CASE Begins
      BY <3>1, <3>2, <3>5, Zenon DEF Begins, Contract!ContractNext, Contract!Begin
    <3>6. CASE Takes
      BY <3>1, <3>2, <3>6, Zenon DEF Takes, Contract!ContractNext, Contract!Take
    <3>7. CASE Returns
      BY <3>1, <3>2, <3>7, Zenon DEF Returns, Contract!ContractNext, Contract!Return
    <3>8. CASE LosesPower
      BY <3>1, <3>2, <3>8, Zenon DEF LosesPower, Contract!ContractNext, Contract!PowerLoss
    <3> QED
      BY <3>3, <3>4, <3>5, <3>6, <3>7, <3>8
  <2> QED
    BY <2>3, <2>4
<1> QED
  BY <1>1, <1>2, TypeInvariant, CounterAlwaysAhead, BurnInvariant, PTL
  DEF Spec, OneStepSend, Contract!ContractSpec

(* Saves that fail with an error may leave RAM behind flash, and RAM at    *)
(* the code last on air, but neither behind it.                            *)
LoyalFaults == faulted \subseteq {"open", "commit"}

RepeatInv ==
  LoyalFaults =>
    /\ rf.saved # "set"
    /\ manual = "never" =>
         /\ http.pc # "rollRam"
         /\ nvs.rolling >= cfg.rolling /\ cfg.rolling >= last /\ cfg.rolling > 0
         /\ rf.pc \in CodeInHand => cfg.rolling >= rf.counter /\ rf.counter >= last
         /\ rf.pc \in {"nvs", "ram"} => rf.next > cfg.rolling
         /\ rf.pc = "ram" /\ rf.saved = "ok" => nvs.rolling >= rf.next

LEMMA RepeatStep ==
  ASSUME TypeInv, RepeatInv, [Next]_vars
  PROVE  RepeatInv'
<1> USE DEF RepeatInv, LoyalFaults, CodeInHand
<1>0. /\ nvs \in NvsType /\ cfg \in CfgType /\ rf \in RfType /\ http \in HttpType
      /\ nvs.rolling \in Nat /\ cfg.rolling \in Nat /\ last \in Nat
      /\ rf.counter \in Nat /\ rf.next \in Nat
  BY DEF TypeInv, TypeOK, NvsType, CfgType, RfType
<1>1. CASE Aside
  BY <1>0, <1>1 DEF Aside, HttpType
<1>2. CASE SendReadCode
  BY <1>0, <1>2 DEF SendReadCode, RfType, history
<1>3. CASE SendNextCode
  BY <1>0, <1>3 DEF SendNextCode, RfType, history
<1>4. ASSUME NEW o \in SaveOutcomes, SendPersist(o) PROVE RepeatInv'
  <2>1. LoyalFaults' => LoyalFaults /\ o \in {"ok", "open", "commit"}
    BY <1>4 DEF SendPersist, SaveOutcomes
  <2> QED
    BY <1>0, <1>4, <2>1 DEF SendPersist, RfType, NvsType, Stores
<1>5. CASE SendCache
  BY <1>0, <1>5 DEF SendCache, RfType, CfgType, ReturnsOk, history
<1>6. CASE SendBuildFrame
  BY <1>0, <1>6 DEF SendBuildFrame, RfType, history
<1>7. CASE SendKeyOn
  BY <1>0, <1>7 DEF SendKeyOn, RfType
<1>8. ASSUME NEW n \in Entries, RollingPost(n) PROVE RepeatInv'
  BY <1>0, <1>8, IdleHttpType DEF RollingPost, HttpType
<1>9. ASSUME NEW o \in SaveOutcomes, RollingPersist(o) PROVE RepeatInv'
  BY <1>9 DEF RollingPersist, Judge
<1>10. CASE RollingCache
  BY <1>10 DEF RollingCache, Judge
<1>11. CASE Restart
  <2> SUFFICES ASSUME LoyalFaults' PROVE RepeatInv'
    OBVIOUS
  <2>1. "erase" \notin faulted'
    OBVIOUS
  <2>2. Boot(nvs) /\ LoyalFaults /\ UNCHANGED <<last, manual>>
    BY <1>11, <2>1 DEF Restart
  <2>3. nvs.rolling > 0 => Load(nvs).rolling = nvs.rolling
    BY <1>0, LoadType
  <2> QED
    BY <1>0, <2>2, <2>3 DEF Boot, IdleRf, IdleHttp
<1>12. CASE UNCHANGED vars
  BY <1>12 DEF vars, device, history
<1> QED
  BY <1>1, <1>2, <1>3, <1>4, <1>5, <1>6, <1>7, <1>8, <1>9, <1>10, <1>11, <1>12, AsideSteps
  DEF Next, Send, Handler

(* RepeatsAtMost: while only saves fail that say so, a frame repeats the    *)
(* counter last on air at worst, whatever restarts come between.           *)
THEOREM RepeatsAtMost == Spec => []NoStepBack
<1>1. Init => RepeatInv
  BY ConstantsAssumption DEF Init, RepeatInv, CodeInHand, IdleRf, IdleHttp, Load
<1>2. TypeInv /\ RepeatInv /\ [Next]_vars => RepeatInv'
  BY RepeatStep
<1>3. RepeatInv => NoStepBack
  BY DEF RepeatInv, LoyalFaults, CodeInHand, NoStepBack
<1> QED
  BY <1>1, <1>2, <1>3, TypeInvariant, PTL DEF Spec

(* A handler that was quiet so far has the transmitter idle; its answer     *)
(* stands until the next rolling code is posted.                           *)
AskedInv ==
  faulted = {} =>
    /\ http.during = "quiet" => rf.pc = "idle"
    /\ http.pc = "rollRam" /\ http.during = "quiet" => nvs.rolling = http.code
    /\ asked.during = "quiet" =>
         /\ http.pc \notin {"rollNvs", "rollRam"}
         /\ cfg.rolling >= asked.code /\ nvs.rolling >= asked.code
         /\ rf.pc \in {"nvs", "ram"} => rf.next >= asked.code

LEMMA AskedStep ==
  ASSUME TypeInv, CounterInv, AskedInv, [Next]_vars
  PROVE  AskedInv'
<1> USE DEF AskedInv, CodeInHand
<1>0. /\ nvs \in NvsType /\ cfg \in CfgType /\ rf \in RfType /\ http \in HttpType
      /\ nvs.rolling \in Nat /\ cfg.rolling \in Nat /\ http.code \in Nat
      /\ rf.next \in Nat /\ asked \in AskedType /\ asked.code \in Nat
  BY DEF TypeInv, TypeOK, NvsType, CfgType, RfType, HttpType, AskedType
<1>1. CASE Aside
  BY <1>0, <1>1 DEF Aside, HttpType
<1>2. CASE SendReadCode
  BY <1>0, <1>2 DEF SendReadCode, RfType, history
<1>3. CASE SendNextCode
  BY <1>0, <1>3 DEF SendNextCode, RfType, history
<1>4. ASSUME NEW o \in SaveOutcomes, SendPersist(o) PROVE AskedInv'
  BY <1>0, <1>4 DEF SendPersist, RfType, NvsType
<1>5. CASE SendCache
  BY <1>0, <1>5 DEF SendCache, RfType, CfgType, history
<1>6. CASE SendBuildFrame
  BY <1>0, <1>6 DEF SendBuildFrame, RfType, history
<1>7. CASE SendKeyOn
  BY <1>0, <1>7 DEF SendKeyOn, RfType
<1>8. ASSUME NEW n \in Entries, RollingPost(n) PROVE AskedInv'
  BY <1>0, <1>8, IdleHttpType DEF RollingPost, HttpType, NoAnswer
<1>9. ASSUME NEW o \in SaveOutcomes, RollingPersist(o) PROVE AskedInv'
  <2>1. faulted' = {} => faulted = {} /\ o = "ok"
    BY <1>9 DEF RollingPersist
  <2> QED
    BY <1>0, <1>9, <2>1 DEF RollingPersist, HttpType, NvsType, Stores
<1>10. CASE RollingCache
  BY <1>0, <1>10 DEF RollingCache, IdleHttp, CfgType, ReturnsOk, CounterInv, SavesOk
<1>11. CASE Restart
  <2> SUFFICES ASSUME faulted' = {} PROVE AskedInv'
    OBVIOUS
  <2>1. Boot(nvs) /\ faulted = {} /\ UNCHANGED asked
    BY <1>11 DEF Restart
  <2>2. Load(nvs).rolling \in Nat /\ Load(nvs).rolling >= nvs.rolling
    BY <1>0, LoadType DEF CfgType
  <2> QED
    BY <1>0, <2>1, <2>2 DEF Boot, IdleRf, IdleHttp
<1>12. CASE UNCHANGED vars
  BY <1>12 DEF vars, device, history
<1> QED
  BY <1>1, <1>2, <1>3, <1>4, <1>5, <1>6, <1>7, <1>8, <1>9, <1>10, <1>11, <1>12, AsideSteps
  DEF Next, Send, Handler

(* QuietUpdatesStay: a rolling code set while the transmitter is idle is    *)
(* never undone by the commands and restarts that follow.                  *)
THEOREM QuietUpdatesStay == Spec => []QuietUpdateKept
<1>1. Init => AskedInv
  BY DEF Init, AskedInv, IdleRf, IdleHttp, NoAnswer
<1>2. TypeInv /\ CounterInv /\ AskedInv /\ [Next]_vars => AskedInv'
  BY AskedStep
<1>3. AskedInv => QuietUpdateKept
  BY DEF AskedInv, QuietUpdateKept
<1> QED
  BY <1>1, <1>2, <1>3, TypeInvariant, CounterAlwaysAhead, PTL DEF Spec
=============================================================================
