------------------------------ MODULE SomfyRts ------------------------------
(***************************************************************************)
(* The Somfy transmitter and the settings it depends on.                   *)
(*                                                                         *)
(*   components/somfy_rts/somfy_rts.c         somfy_rts_send and the lock  *)
(*   components/config_manager/config_manager.c   NVS keys, g_config       *)
(*   components/config_server/config_server.c     the two forms that write *)
(*                                            what the transmitter reads   *)
(*                                                                         *)
(* Two tasks run here: somfy_task, which is inside somfy_rts_send for half *)
(* a second per command, and the HTTP server task, which runs one handler  *)
(* at a time.  s_lock orders them on s_remote only: g_config.rolling_code  *)
(* is read and written by both with no lock, so every access to it is a    *)
(* step of its own.  A restart (power loss, panic, any of the callers of   *)
(* esp_restart) can fall between any two steps.                            *)
(*                                                                         *)
(* Abstracted: the waveform, the GPIO number, the publish interval, the    *)
(* text of the pages.  Of the four buttons PROG is the only one that       *)
(* somfy_rts_send distinguishes.  The lock always exists: an out-of-memory *)
(* boot that leaves it NULL is not modelled.                               *)
(***************************************************************************)
EXTENDS Naturals

CONSTANTS
  Addrs,        \* remote addresses, 24 bit and not zero
  DefAddr,      \* DEF_REMOTE_ADDR, the address of a device with empty NVS
  NoAddr,       \* the value 0 of an address: key absent, never paired
  CodeMod,      \* 2^16: the frame carries the low 16 bits of the counter
  FirstCode,    \* the rolling code the history starts with, one that fits
  Entries,      \* numbers a user may type into the rolling code form
  Faults,       \* the NVS failures that may happen, see SaveOutcomes
  MaxCode,      \* bound of the model: no command is sent at this counter
  MaxRestarts   \* bound of the model: restarts in one behaviour

FaultKinds == {"open", "set", "commit", "erase"}
Buttons    == {"move", "prog"}
Overlap    == {"quiet", "busy"}

ASSUME ConstantsAssumption ==
  /\ DefAddr \in Addrs /\ NoAddr \notin Addrs
  /\ CodeMod \in Nat /\ CodeMod > 1
  /\ FirstCode \in 1..CodeMod - 1
  /\ Entries \subseteq Nat
  /\ Faults \subseteq FaultKinds
  /\ MaxCode \in Nat /\ MaxRestarts \in Nat

VARIABLES
  nvs,       \* flash: keys "rolling", "remote_addr" and "paired"
  cfg,       \* g_config, the copy in RAM
  remote,    \* s_remote, the address the transmitter uses
  lock,      \* holder of s_lock
  rf,        \* somfy_task inside somfy_rts_send
  http,      \* the HTTP server task inside a handler
  restarts,  \* restarts so far
  (* History of what the outside world saw; the code keeps none of it.     *)
  last,      \* the counter behind the last frame on air, in full
  aired,     \* the rolling code which that frame carried
  burnt,     \* counters taken by a command since then, none of them aired;
             \* counted while manual = "never" and flash works
  taught,    \* address in the last PROG frame on air
  pairing,   \* "pending" until that PROG frame's send returns ESP_OK
  manual,    \* what the user's rolling codes were: never set, ahead, behind
  asked,     \* last answer "Rolling code updated": the number, and whether
             \* a transmission overlapped the handler
  faulted    \* the kinds of NVS failure so far

device  == <<nvs, cfg, remote, lock, rf, http, restarts>>
history == <<last, aired, burnt, taught, pairing, manual, asked, faulted>>
vars    == <<device, history>>

(***************************************************************************)
(* A save opens NVS, sets the key, commits, and only if the last error is  *)
(* ESP_OK copies the value into g_config.  The result of nvs_set_* is      *)
(* ignored.  So a save can fail in three ways: nothing happens and an      *)
(* error is returned ("open"), nothing is stored but ESP_OK is returned    *)
(* ("set"), or the value is stored but an error is returned ("commit").    *)
(* At boot the whole partition may be erased ("erase").                    *)
(***************************************************************************)
SaveOutcomes == {"ok"} \cup (Faults \ {"erase"})
Stores(o)    == o \in {"ok", "commit"}
ReturnsOk(o) == o \in {"ok", "set"}

(* A bug in config_manager_init: the stored code is not read back. *)
LoadIgnoresCode(flash) ==
  [rolling |-> 1,
   remote  |-> IF flash.remote = NoAddr THEN DefAddr ELSE flash.remote,
   paired  |-> flash.paired]

(* What config_manager_init puts into g_config; 0 and NoAddr are absent. *)
Load(flash) ==
  [rolling |-> IF flash.rolling = 0 THEN 1 ELSE flash.rolling,
   remote  |-> IF flash.remote = NoAddr THEN DefAddr ELSE flash.remote,
   paired  |-> flash.paired]

(* config_rolling_post clamps the number to what 16 bits hold. *)
Clamp(n) == IF n < 1 THEN 1 ELSE IF n > CodeMod - 1 THEN CodeMod - 1 ELSE n

(* "counter" is history: the counter that "serial" was cut from.           *)
IdleRf   == [pc |-> "idle", button |-> "move", counter |-> 0, serial |-> 0,
             next |-> 0, addr |-> NoAddr, saved |-> "ok"]
IdleHttp == [pc |-> "idle", code |-> 0, addr |-> NoAddr, saved |-> "ok",
             during |-> "busy"]
NoAnswer == [code |-> 0, during |-> "busy"]

Init ==
  /\ nvs = [rolling |-> FirstCode, remote |-> NoAddr, paired |-> NoAddr]
  /\ cfg = Load(nvs)
  /\ remote = cfg.remote
  /\ lock = "none"
  /\ rf = IdleRf
  /\ http = IdleHttp
  /\ restarts = 0
  /\ last = FirstCode - 1 /\ aired = FirstCode - 1
  /\ burnt = 0
  /\ taught = NoAddr
  /\ pairing = "recorded"
  /\ manual = "never"
  /\ asked = NoAnswer
  /\ faulted = {}

-----------------------------------------------------------------------------
(* somfy_rts_send, run by somfy_task for one command *)

(* The lock is held from here to SendUnlock.  A local variable that is no  *)
(* longer read goes back to its value in IdleRf.  (Without a transmitter,  *)
(* after a failed somfy_rts_init, the command is refused: a stutter.)      *)
SendLock(button) ==
  /\ rf.pc = "idle" /\ cfg.rolling < MaxCode
  /\ lock = "none" /\ lock' = "rf"
  /\ rf' = [IdleRf EXCEPT !.pc = "read", !.button = button]
  /\ http' = [http EXCEPT !.during = "busy"]
  /\ UNCHANGED <<nvs, cfg, remote, restarts, history>>

(* code = (uint16_t)g_config.rolling_code: the frame has 16 bits for it.   *)
SendReadCode ==
  /\ rf.pc = "read"
  /\ rf' = [rf EXCEPT !.pc = "next", !.counter = cfg.rolling,
                      !.serial = cfg.rolling % CodeMod]
  /\ UNCHANGED <<nvs, cfg, remote, lock, http, restarts, history>>

(* A bug in the successor: it skips a counter. *)
SendNextCodeSkips ==
  /\ rf.pc = "next"
  /\ rf' = [rf EXCEPT !.pc = "nvs", !.next = cfg.rolling + 2]
  /\ UNCHANGED <<nvs, cfg, remote, lock, http, restarts, history>>

(* The argument g_config.rolling_code + 1: a second read of the counter. *)
SendNextCode ==
  /\ rf.pc = "next"
  /\ rf' = [rf EXCEPT !.pc = "nvs", !.next = cfg.rolling + 1]
  /\ UNCHANGED <<nvs, cfg, remote, lock, http, restarts, history>>

(* A bug in the save: the code in use is stored, not its successor. *)
SendPersistSame(o) ==
  /\ rf.pc = "nvs"
  /\ nvs' = IF Stores(o) THEN [nvs EXCEPT !.rolling = rf.serial] ELSE nvs
  /\ rf' = [rf EXCEPT !.pc = "ram", !.saved = o]
  /\ burnt' = IF manual = "never" /\ faulted = {} THEN burnt + 1 ELSE 0
  /\ faulted' = faulted \cup ({o} \ {"ok"})
  /\ UNCHANGED <<cfg, remote, lock, http, restarts, last, aired, taught, pairing,
                 manual, asked>>

(* config_manager_save_rolling_code up to nvs_close *)
SendPersist(o) ==
  /\ rf.pc = "nvs"
  /\ nvs' = IF Stores(o) THEN [nvs EXCEPT !.rolling = rf.next] ELSE nvs
  /\ rf' = [rf EXCEPT !.pc = "ram", !.saved = o]
  /\ burnt' = IF manual = "never" /\ faulted = {} THEN burnt + 1 ELSE 0
  /\ faulted' = faulted \cup ({o} \ {"ok"})
  /\ UNCHANGED <<cfg, remote, lock, http, restarts, last, aired, taught, pairing,
                 manual, asked>>

(* A bug in the save: g_config keeps the code just used. *)
SendCacheForgets ==
  /\ rf.pc = "ram"
  /\ rf' = [rf EXCEPT !.pc = "frame", !.next = 0, !.saved = "ok"]
  /\ UNCHANGED <<nvs, cfg, remote, lock, http, restarts, history>>

(* A bug in the save: g_config takes a value that was not committed. *)
SendCacheFirst ==
  /\ rf.pc = "ram"
  /\ cfg' = [cfg EXCEPT !.rolling = rf.next]
  /\ rf' = [rf EXCEPT !.pc = "frame", !.next = 0, !.saved = "ok"]
  /\ UNCHANGED <<nvs, remote, lock, http, restarts, history>>

(* ... and its assignment to g_config.  The result of the save is ignored. *)
SendCache ==
  /\ rf.pc = "ram"
  /\ cfg' = IF ReturnsOk(rf.saved) THEN [cfg EXCEPT !.rolling = rf.next] ELSE cfg
  /\ rf' = [rf EXCEPT !.pc = "frame", !.next = 0, !.saved = "ok"]
  /\ UNCHANGED <<nvs, remote, lock, http, restarts, history>>

(* build_frame copies s_remote once; emit_frame renders all three frames. *)
SendBuildFrame ==
  /\ rf.pc = "frame"
  /\ rf' = [rf EXCEPT !.pc = "tx", !.addr = remote]
  /\ UNCHANGED <<nvs, cfg, remote, lock, http, restarts, history>>

(* rmt_transmit accepts the buffer: from now on the blind may hear it. *)
SendKeyOn ==
  /\ rf.pc = "tx"
  /\ rf' = [rf EXCEPT !.pc = "wait", !.counter = 0, !.serial = 0, !.addr = NoAddr]
  /\ last' = rf.counter /\ aired' = rf.serial
  /\ burnt' = 0
  /\ taught' = IF rf.button = "prog" THEN rf.addr ELSE taught
  /\ pairing' = IF rf.button = "prog" THEN "pending" ELSE pairing
  /\ UNCHANGED <<nvs, cfg, remote, lock, http, restarts, manual, asked, faulted>>

(* A bug in the error path: it returns without giving the lock back. *)
SendFailsEarly ==
  /\ rf.pc \in {"tx", "wait"}
  /\ rf' = IdleRf
  /\ UNCHANGED <<nvs, cfg, remote, lock, http, restarts, history>>

(* rmt_transmit, or the wait for the end of the frame, reports an error. *)
SendFails ==
  /\ rf.pc \in {"tx", "wait"}
  /\ rf' = [IdleRf EXCEPT !.pc = "unlock"]
  /\ UNCHANGED <<nvs, cfg, remote, lock, http, restarts, history>>

(* rmt_tx_wait_all_done returns ESP_OK; only PROG has more to do. *)
SendDone ==
  /\ rf.pc = "wait"
  /\ rf' = [IdleRf EXCEPT !.pc = IF rf.button = "prog" THEN "pairNvs" ELSE "unlock"]
  /\ UNCHANGED <<nvs, cfg, remote, lock, http, restarts, history>>

(* config_manager_save_paired_addr(s_remote): s_remote is read again here. *)
SendPairPersist(o) ==
  /\ rf.pc = "pairNvs"
  /\ nvs' = IF Stores(o) THEN [nvs EXCEPT !.paired = remote] ELSE nvs
  /\ rf' = [rf EXCEPT !.pc = "pairRam", !.addr = remote, !.saved = o]
  /\ faulted' = faulted \cup ({o} \ {"ok"})
  /\ UNCHANGED <<cfg, remote, lock, http, restarts, last, aired, burnt,
                 taught, pairing, manual, asked>>

SendPairCache ==
  /\ rf.pc = "pairRam"
  /\ cfg' = IF ReturnsOk(rf.saved) THEN [cfg EXCEPT !.paired = rf.addr] ELSE cfg
  /\ rf' = [IdleRf EXCEPT !.pc = "unlock"]
  /\ pairing' = "recorded"
  /\ UNCHANGED <<nvs, remote, lock, http, restarts, last, aired, burnt,
                 taught, manual, asked, faulted>>

SendUnlock ==
  /\ rf.pc = "unlock"
  /\ lock' = "none"
  /\ rf' = IdleRf
  /\ UNCHANGED <<nvs, cfg, remote, http, restarts, history>>

-----------------------------------------------------------------------------
(* The HTTP server task: the forms "Set Rolling Code" and "Somfy RTS" *)

(* The counters a command has in hand from reading the code to keying it. *)
CodeInHand == {"next", "nvs", "ram", "frame", "tx"}

(* Is n ahead of every counter that was, or is about to be, transmitted? *)
AheadOfUsed(n) == n > last /\ (rf.pc \in CodeInHand => n > rf.counter)

Judge(n) == IF manual = "behind" \/ ~AheadOfUsed(n) THEN "behind" ELSE "ahead"

RollingPost(n) ==
  /\ http.pc = "idle"
  /\ http' = [IdleHttp EXCEPT !.pc = "rollNvs", !.code = Clamp(n),
                              !.during = IF rf.pc = "idle" THEN "quiet" ELSE "busy"]
  /\ asked' = NoAnswer
  /\ UNCHANGED <<nvs, cfg, remote, lock, rf, restarts, last, aired, burnt,
                 taught, pairing, manual, faulted>>

RollingPersist(o) ==
  /\ http.pc = "rollNvs"
  /\ nvs' = IF Stores(o) THEN [nvs EXCEPT !.rolling = http.code] ELSE nvs
  /\ http' = [http EXCEPT !.pc = "rollRam", !.saved = o]
  /\ manual' = Judge(http.code)
  /\ burnt' = 0
  /\ faulted' = faulted \cup ({o} \ {"ok"})
  /\ UNCHANGED <<cfg, remote, lock, rf, restarts, last, aired, taught, pairing,
                 asked>>

(* A bug in the save: g_config keeps the old code. *)
RollingCacheForgets ==
  /\ http.pc = "rollRam"
  /\ http' = IdleHttp
  /\ manual' = Judge(http.code)
  /\ asked' = [code |-> http.code, during |-> http.during]
  /\ UNCHANGED <<nvs, cfg, remote, lock, rf, restarts, last, aired, burnt,
                 taught, pairing, faulted>>

(* The page says "Rolling code updated" whatever the save returned. *)
RollingCache ==
  /\ http.pc = "rollRam"
  /\ cfg' = IF ReturnsOk(http.saved) THEN [cfg EXCEPT !.rolling = http.code] ELSE cfg
  /\ http' = IdleHttp
  /\ manual' = Judge(http.code)
  /\ asked' = [code |-> http.code, during |-> http.during]
  /\ UNCHANGED <<nvs, remote, lock, rf, restarts, last, aired, burnt,
                 taught, pairing, faulted>>

(* A bug in the form: an empty or zero address is taken at its word. *)
SomfyPostBlank(a) ==
  /\ http.pc = "idle"
  /\ http' = [IdleHttp EXCEPT !.pc = "addrNvs", !.addr = a]
  /\ UNCHANGED <<nvs, cfg, remote, lock, rf, restarts, history>>

(* An empty or zero address keeps the stored one. *)
SomfyPost(a) ==
  /\ http.pc = "idle"
  /\ http' = [IdleHttp EXCEPT !.pc = "addrNvs",
                              !.addr = IF a = NoAddr THEN cfg.remote ELSE a]
  /\ UNCHANGED <<nvs, cfg, remote, lock, rf, restarts, history>>

SomfyPersist(o) ==
  /\ http.pc = "addrNvs"
  /\ nvs' = IF Stores(o) THEN [nvs EXCEPT !.remote = http.addr] ELSE nvs
  /\ http' = [http EXCEPT !.pc = "addrRam", !.saved = o]
  /\ faulted' = faulted \cup ({o} \ {"ok"})
  /\ UNCHANGED <<cfg, remote, lock, rf, restarts, last, aired, burnt,
                 taught, pairing, manual, asked>>

(* A save that returned an error leaves every copy of the address alone. *)
SomfyCache ==
  /\ http.pc = "addrRam"
  /\ \/ /\ ReturnsOk(http.saved)
        /\ cfg' = [cfg EXCEPT !.remote = http.addr]
        /\ http' = [http EXCEPT !.pc = "addrSet", !.saved = "ok"]
     \/ /\ ~ReturnsOk(http.saved)
        /\ http' = IdleHttp
        /\ UNCHANGED cfg
  /\ UNCHANGED <<nvs, remote, lock, rf, restarts, history>>

(* A bug in somfy_rts_set_remote_addr: it does not wait for the lock. *)
SomfySetRemoteUnlocked ==
  /\ http.pc = "addrSet"
  /\ remote' = http.addr
  /\ http' = IdleHttp
  /\ UNCHANGED <<nvs, cfg, lock, rf, restarts, history>>

(* A bug in the handler: the transmitter learns the address at next boot. *)
SomfySetRemoteDeferred ==
  /\ http.pc = "addrSet" /\ lock = "none"
  /\ http' = IdleHttp
  /\ UNCHANGED <<nvs, cfg, remote, lock, rf, restarts, history>>

(* somfy_rts_set_remote_addr; its critical section is one assignment. *)
SomfySetRemote ==
  /\ http.pc = "addrSet" /\ lock = "none"
  /\ remote' = http.addr
  /\ http' = IdleHttp
  /\ UNCHANGED <<nvs, cfg, lock, rf, restarts, history>>

-----------------------------------------------------------------------------
(* The next power-up finds what flash holds, or an erased partition. *)
EmptyNvs == [rolling |-> 0, remote |-> NoAddr, paired |-> NoAddr]

Boot(flash) ==
  /\ nvs' = flash
  /\ cfg' = Load(flash)
  /\ remote' = cfg'.remote
  /\ lock' = "none"
  /\ rf' = IdleRf
  /\ http' = IdleHttp

Restart ==
  /\ restarts < MaxRestarts
  /\ restarts' = restarts + 1
  /\ \/ Boot(nvs) /\ UNCHANGED faulted
     \/ "erase" \in Faults /\ Boot(EmptyNvs) /\ faulted' = faulted \cup {"erase"}
  /\ UNCHANGED <<last, aired, burnt, taught, pairing, manual, asked>>

Send ==
  \/ SendReadCode \/ SendNextCode
  \/ \E o \in SaveOutcomes : SendPersist(o)
  \/ SendCache \/ SendBuildFrame \/ SendKeyOn \/ SendFails \/ SendDone
  \/ \E o \in SaveOutcomes : SendPairPersist(o)
  \/ SendPairCache \/ SendUnlock

Handler ==
  \/ \E o \in SaveOutcomes : RollingPersist(o) \/ SomfyPersist(o)
  \/ RollingCache \/ SomfyCache \/ SomfySetRemote

Next ==
  \/ \E button \in Buttons : SendLock(button)
  \/ Send
  \/ \E n \in Entries : RollingPost(n)
  \/ \E a \in Addrs \cup {NoAddr} : SomfyPost(a)
  \/ Handler
  \/ Restart

Spec == Init /\ [][Next]_vars

(***************************************************************************)
(* Both tasks are scheduled whenever they are ready and every call they    *)
(* make returns (rmt_tx_wait_all_done after 2 s at the latest), so their   *)
(* steps inside a command or a handler are weakly fair.  Users and power   *)
(* are not.                                                                *)
(***************************************************************************)
FairSpec == Spec /\ WF_vars(Send) /\ WF_vars(Handler)

-----------------------------------------------------------------------------
Outcomes == {"ok"} \cup FaultKinds
RfPcs    == {"idle", "read", "next", "nvs", "ram", "frame", "tx", "wait",
             "pairNvs", "pairRam", "unlock"}
HttpPcs  == {"idle", "rollNvs", "rollRam", "addrNvs", "addrRam", "addrSet"}
MaybeAddr == Addrs \cup {NoAddr}
NvsType   == [rolling : Nat, remote : MaybeAddr, paired : MaybeAddr]
CfgType   == [rolling : Nat, remote : Addrs, paired : MaybeAddr]
RfType    == [pc : RfPcs, button : Buttons, counter : Nat, serial : 0..CodeMod - 1,
              next : Nat, addr : MaybeAddr, saved : Outcomes]
HttpType  == [pc : HttpPcs, code : Nat, addr : MaybeAddr, saved : Outcomes,
              during : Overlap]
AskedType == [code : Nat, during : Overlap]

(* TypeOK: every variable has its type; in particular no form and no       *)
(* missing key ever makes the transmitter use the address 0 (Load,         *)
(* config_somfy_post).                                                     *)
TypeOK ==
  /\ nvs \in NvsType
  /\ cfg \in CfgType
  /\ remote \in Addrs
  /\ lock \in {"none", "rf"}
  /\ rf \in RfType
  /\ http \in HttpType
  /\ restarts \in 0..MaxRestarts
  /\ last \in Nat /\ aired \in 0..CodeMod - 1 /\ burnt \in Nat
  /\ taught \in MaybeAddr
  /\ pairing \in {"recorded", "pending"}
  /\ manual \in {"never", "ahead", "behind"}
  /\ asked \in AskedType
  /\ faulted \subseteq FaultKinds

(* The user typed a number that was not ahead, or flash failed: the two    *)
(* situations in which no firmware could keep the blind's trust.           *)
Excused == manual = "behind" \/ faulted # {}

(* NoReplay: the frame about to be keyed carries a rolling code ahead of   *)
(* the last one the blind may have heard, over any mix of restarts, failed *)
(* transmissions and rolling codes set by hand in mid-command              *)
(* (somfy_rts.c: the successor is stored before the frame goes out), as    *)
(* long as the counter fits the frame.  That is an exception: the counter  *)
(* is 32 bits wide and nothing stops it, so the frame after CodeMod - 1,   *)
(* which a user may set it to, carries 0 and is behind the one before it.  *)
NoReplay ==
  rf.pc = "tx" /\ ~Excused /\ rf.counter < CodeMod => rf.serial > aired

(* NoStepBack: while nobody sets the code by hand, a save that returns an  *)
(* error costs at most a repeat of the counter last on air, never one      *)
(* below it, restarts included (config_manager_save_rolling_code leaves    *)
(* g_config alone on an error).  With the form it is not true: its race    *)
(* with a command can leave NVS behind g_config until the next save.       *)
NoStepBack ==
  rf.pc = "tx" /\ manual = "never" /\ faulted \subseteq {"open", "commit"} =>
    rf.counter >= last

(* RestartSafe: wherever the power fails, the counter that                 *)
(* config_manager_init loads is ahead of that of every frame on air.       *)
RestartSafe == ~Excused => Load(nvs).rolling > last

(* OneCodePerCommand: a device whose code nobody set by hand is never more *)
(* than one counter past the last frame on air, plus one for each command  *)
(* that failed or was cut off since: the blind's window is not used up by  *)
(* restarts (somfy_rts.c: "burning one code").                             *)
OneCodePerCommand ==
  manual = "never" /\ faulted = {} =>
    cfg.rolling <= last + burnt + 1 /\ nvs.rolling <= last + burnt + 1

(* PairingRecorded: once the send of a PROG frame has returned, both copies *)
(* of paired_addr are the address that frame carried, although the HTTP    *)
(* task changes s_remote at will (somfy_rts_set_remote_addr and s_lock).   *)
PairingRecorded ==
  pairing = "recorded" /\ faulted = {} => nvs.paired = taught /\ cfg.paired = taught

(* AddressApplied: whenever no handler is running, the transmitter, the    *)
(* settings and flash agree on the remote address, so the pages show the   *)
(* address that is sent (config_somfy_post).  A save that cannot open NVS   *)
(* and a partition erased at boot leave the three in agreement too.        *)
AddressApplied ==
  http.pc = "idle" /\ faulted \subseteq {"open", "erase"} =>
    remote = cfg.remote /\ Load(nvs).remote = cfg.remote

(* QuietUpdateKept: a rolling code set while no command was being sent is  *)
(* what later commands count from, in RAM and after any restart            *)
(* (config_rolling_post).                                                  *)
QuietUpdateKept ==
  asked.during = "quiet" /\ faulted = {} => cfg.rolling >= asked.code /\ nvs.rolling >= asked.code

(* AddressChangeCompletes: a handler that waits for the lock gets it once  *)
(* commands stop coming, so changing the address never hangs the portal    *)
(* (commands are bounded by MaxCode, as long as saves raise the counter).  *)
AddressChangeCompletes ==
  http.pc = "addrSet" ~> http.pc = "idle" \/ faulted # {}

-----------------------------------------------------------------------------
(* A counter that does not fit the frame has been on air: from here on the *)
(* frames carry codes that were used before.                               *)
Wrapped == last >= CodeMod

(* The remote control this device promises to be: its durable counter is   *)
(* what a restart would load, its last code the one in the last frame on   *)
(* air, and it promises nothing once its codes are used up.                *)
Promise == INSTANCE RtsRemote
             WITH durable <- Load(nvs).rolling, last <- aired,
                  excused <- Excused \/ Wrapped

(* KeepsPromise: every step of the two tasks, and every restart, is a step *)
(* of that remote control or leaves it alone (somfy_rts_send).             *)
KeepsPromise == Promise!RemoteSpec

(* What the tasks around the transmitter see of a command: its code is     *)
(* taken when SendCache has moved g_config on.                             *)
CommandPhase ==
  IF rf.pc = "idle" THEN "idle"
  ELSE IF rf.pc \in {"read", "next", "nvs", "ram"} THEN "asked" ELSE "taken"

SetOrFailed == manual # "never" \/ faulted # {}

Contract == INSTANCE SendContract
              WITH code <- cfg.rolling, phase <- CommandPhase, excused <- SetOrFailed

(* OneStepSend: seen from outside, the eleven steps of a command are one   *)
(* that moves the counter by one and then returns; a restart in the middle *)
(* loses nothing else, and no other step moves the counter unless the user *)
(* set it or flash failed (somfy_rts_send, config_manager_save_rolling_code). *)
OneStepSend == Contract!ContractSpec
=============================================================================
