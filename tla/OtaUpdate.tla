------------------------------- MODULE OtaUpdate -------------------------------
(***************************************************************************)
(* Firmware updates: a task per trigger message and the portal's upload.   *)
(*                                                                         *)
(*   components/ota_manager/ota_manager.c       handle_trigger, ota_task   *)
(*   components/config_server/config_server.c   ota_upload_post,           *)
(*                                              reboot_post, reboot_task   *)
(*                                                                         *)
(* Two slots.  Every writer writes the one that is not running, and        *)
(* nothing keeps two writers apart.  An image is written in chunks; one    *)
(* chunk is erased and written at a time.  External, with the library's    *)
(* promises: esp_ota_end and esp_ota_set_boot_partition validate what is   *)
(* in flash, and the bootloader starts the other slot if the chosen one is *)
(* not a valid image.                                                      *)
(***************************************************************************)
EXTENDS Naturals

CONSTANTS
  Pulls,    \* ota_task instances that fit in the heap at a time
  Images,   \* firmware
  Factory,  \* the firmware that runs first
  Junk,     \* something else, uploaded or downloaded by mistake
  Erased,   \* no image's chunk
  Chunks,   \* chunks of an image
  NoImage

ASSUME OtaAssumption ==
  /\ Factory \in Images /\ Junk \notin Images /\ Erased \notin Images
  /\ NoImage \notin Images /\ Chunks \in Nat \ {0}
  /\ "portal" \notin Pulls

VARIABLES
  flash,      \* the two slots
  otadata,    \* the slot to boot
  running,    \* the slot that was booted
  writer,     \* ota_tasks and the upload: where they are, what they write
  browser,    \* the uploader: "sending", "stalled", "gone"
  rebooting,  \* reboot_task exists
  (* History. *)
  promised,   \* the image that esp_ota_set_boot_partition accepted last
  spoiled     \* since then its slot was written, or reboot_task did not start

outcome == <<promised, spoiled>>
vars == <<flash, otadata, running, writer, browser, rebooting, outcome>>

Slots    == {0, 1}
Writers  == Pulls \cup {"portal"}
Contents == Images \cup {Junk}
Whole(i) == [c \in 1..Chunks |-> i]
Valid(s) == \E i \in Images : flash[s] = Whole(i)
Image(s) == CHOOSE i \in Images : flash[s] = Whole(i)

Idle == [pc |-> "idle", image |-> NoImage, size |-> 0, next |-> 1]

(* A bug in ota_upload_post: the slot after the one chosen for booting. *)
TargetOfOtadata == 1 - otadata

(* esp_ota_get_next_update_partition(NULL). *)
Target == 1 - running

Init ==
  /\ flash = [s \in Slots |-> [c \in 1..Chunks |-> IF s = 0 THEN Factory ELSE Erased]]
  /\ otadata = 0 /\ running = 0
  /\ writer = [u \in Writers |-> Idle]
  /\ browser = "gone" /\ rebooting = FALSE
  /\ promised = NoImage /\ spoiled = FALSE

-----------------------------------------------------------------------------
At(u, pc) == writer[u].pc = pc
Goto(u, pc) == writer' = [writer EXCEPT ![u].pc = pc]
Stop(u) == writer' = [writer EXCEPT ![u] = Idle]

(* ota_manager_handle_trigger: no URL, no memory, no task: nothing happens. *)
HandleTrigger(t, i) ==
  /\ t \in Pulls /\ At(t, "idle")
  /\ writer' = [writer EXCEPT ![t] = [pc |-> "write", image |-> i, size |-> Chunks,
                                      next |-> 1]]
  /\ UNCHANGED <<flash, otadata, running, browser, rebooting, outcome>>

(* A bug in ota_upload_post: the new slot is chosen before it is written.  *)
UploadPostChooses(i, n) ==
  /\ At("portal", "idle")
  /\ writer' = [writer EXCEPT !["portal"] = [pc |-> "write", image |-> i, size |-> n,
                                             next |-> 1]]
  /\ browser' = "sending" /\ otadata' = Target
  /\ UNCHANGED <<flash, running, rebooting, outcome>>

(* ota_upload_post up to its loop; the size is what the browser declares. *)
UploadPost(i, n) ==
  /\ At("portal", "idle")
  /\ writer' = [writer EXCEPT !["portal"] = [pc |-> "write", image |-> i, size |-> n,
                                             next |-> 1]]
  /\ browser' = "sending"
  /\ UNCHANGED <<flash, otadata, running, rebooting, outcome>>

Written(u) == At(u, "write") /\ writer[u].next > writer[u].size
Complete(u) == writer[u].size > 0 /\ Valid(Target)

(* A bug in ota_upload_post: the loop goes on when nothing remains.      *)
WritePastEnd(u) ==
  LET w == writer[u]
  IN  /\ w.pc = "write" /\ w.next <= Chunks
      /\ flash' = [flash EXCEPT ![Target][w.next] = w.image]
      /\ writer' = [writer EXCEPT ![u].next = @ + 1]
      /\ spoiled' = (spoiled \/ promised # NoImage)
      /\ UNCHANGED <<otadata, running, browser, rebooting, promised>>

(* One pass of a writer's loop.  A receive that times out in the upload    *)
(* is tried again.                                                         *)
Write(u) ==
  LET w == writer[u]
  IN  /\ w.pc = "write" /\ w.next <= w.size
      /\ u = "portal" => browser = "sending"
      /\ flash' = [flash EXCEPT ![Target][w.next] = w.image]
      /\ writer' = [writer EXCEPT ![u].next = @ + 1]
      /\ spoiled' = (spoiled \/ promised # NoImage)
      /\ UNCHANGED <<otadata, running, browser, rebooting, promised>>

(* A bug in ota_upload_post: every failed receive is tried again.          *)
FailsNot(u) ==
  /\ ~At(u, "idle") /\ ~At(u, "restart")
  /\ u = "portal" /\ At(u, "write") => Written(u)
  /\ Stop(u)
  /\ UNCHANGED <<flash, otadata, running, browser, rebooting, outcome>>

(* Any call may fail: connection, memory, flash.  The update is aborted.   *)
Fails(u) ==
  /\ ~At(u, "idle") /\ ~At(u, "restart")
  /\ Stop(u)
  /\ UNCHANGED <<flash, otadata, running, browser, rebooting, outcome>>

(* A bug in ota_upload_post: the result of esp_ota_end is not looked at.   *)
EndUnchecked(u) ==
  /\ Written(u)
  /\ otadata' = Target /\ promised' = writer[u].image /\ spoiled' = FALSE
  /\ Stop(u) /\ rebooting' = TRUE
  /\ UNCHANGED <<flash, running, browser>>

(* esp_ota_end: at least one chunk, and a valid image in flash. *)
End(u) ==
  /\ Written(u) /\ Complete(u)
  /\ Goto(u, "boot")
  /\ UNCHANGED <<flash, otadata, running, browser, rebooting, outcome>>

(* Not so at esp_ota_end, or no more at esp_ota_set_boot_partition. *)
Rejected(u) ==
  /\ Written(u) \/ At(u, "boot")
  /\ ~Complete(u)
  /\ Stop(u)
  /\ UNCHANGED <<flash, otadata, running, browser, rebooting, outcome>>

(* A bug in ota_upload_post: it leaves the reboot to the user.             *)
SetBootOnly(u) ==
  /\ At(u, "boot") /\ Complete(u)
  /\ otadata' = Target /\ promised' = Image(Target) /\ spoiled' = FALSE
  /\ IF u = "portal" THEN Stop(u) ELSE Goto(u, "restart")
  /\ UNCHANGED <<flash, running, browser, rebooting>>

(* esp_ota_set_boot_partition validates again.  The portal answers "OK"    *)
(* and starts reboot_task, whether or not there is memory for it.          *)
SetBoot(u) ==
  /\ At(u, "boot") /\ Complete(u)
  /\ otadata' = Target /\ promised' = Image(Target)
  /\ IF u = "portal"
     THEN Stop(u) /\ rebooting' \in {rebooting, TRUE} /\ spoiled' = ~rebooting'
     ELSE Goto(u, "restart") /\ spoiled' = FALSE /\ UNCHANGED rebooting
  /\ UNCHANGED <<flash, running, browser>>

RebootPost ==
  /\ At("portal", "idle")
  /\ rebooting' = TRUE
  /\ UNCHANGED <<flash, otadata, running, writer, browser, outcome>>

-----------------------------------------------------------------------------
(* The bootloader. *)
Restart ==
  /\ running' = IF Valid(otadata) THEN otadata ELSE 1 - otadata
  /\ writer' = [u \in Writers |-> Idle]
  /\ browser' = "gone" /\ rebooting' = FALSE
  /\ promised' = NoImage /\ spoiled' = FALSE
  /\ UNCHANGED <<flash, otadata>>

(* esp_restart at the end of an ota_task. *)
PullRestart(t) == t \in Pulls /\ At(t, "restart") /\ Restart

(* reboot_task, 0.8 s later: other requests and triggers come in between. *)
RebootTask == rebooting /\ Restart

(* Power, watchdog, supervisor, the reboot topic. *)
OtherRestart == Restart

BrowserStalls ==
  /\ browser # "gone" /\ ~At("portal", "idle")
  /\ browser' = IF browser = "sending" THEN "stalled" ELSE "sending"
  /\ UNCHANGED <<flash, otadata, running, writer, rebooting, outcome>>

BrowserLeaves ==
  /\ browser # "gone"
  /\ browser' = "gone"
  /\ UNCHANGED <<flash, otadata, running, writer, rebooting, outcome>>

Step(u) == Write(u) \/ End(u) \/ Rejected(u) \/ SetBoot(u) \/ PullRestart(u)

Next ==
  \/ \E u \in Writers : Step(u) \/ Fails(u)
  \/ \E t \in Pulls, i \in Contents : HandleTrigger(t, i)
  \/ \E i \in Contents, n \in 0..Chunks : UploadPost(i, n)
  \/ RebootPost \/ RebootTask \/ OtherRestart
  \/ BrowserStalls \/ BrowserLeaves

Spec == Init /\ [][Next]_vars

(***************************************************************************)
(* Writers and reboot_task get on with it.  A stalled browser disables the *)
(* portal's steps but for Fails, which is not fair: the loop waits.        *)
(***************************************************************************)
FairSpec ==
  /\ Spec
  /\ WF_vars(RebootTask)
  /\ \A u \in Writers : WF_vars(Step(u))
  /\ WF_vars(browser = "gone" /\ Fails("portal"))

-----------------------------------------------------------------------------
(* TypeOK: every variable has its type, and no writer runs past its image. *)
TypeOK ==
  /\ flash \in [Slots -> [1..Chunks -> Contents \cup {Erased}]]
  /\ otadata \in Slots /\ running \in Slots
  /\ writer \in [Writers -> [pc : {"idle", "write", "boot", "restart"},
                            image : Contents \cup {NoImage},
                            size : 0..Chunks, next : 1..Chunks + 1]]
  /\ \A u \in Writers : writer[u].next <= writer[u].size + 1
  /\ browser \in {"sending", "stalled", "gone"} /\ rebooting \in BOOLEAN
  /\ promised \in Images \cup {NoImage} /\ spoiled \in BOOLEAN

(* RunsWhole: the slot the device runs from stays a whole image, whatever  *)
(* uploads, triggers and restarts cut each other off, so that the device   *)
(* can always boot (ota_upload_post, ota_task).                            *)
RunsWhole == Valid(running)

(* OkBoots: once a writer's image was accepted and the reboot is under way *)
(* ("OK" in the portal), a restart of any cause boots that image, unless   *)
(* another writer touched its slot in the meantime (ota_upload_post,       *)
(* ota_task).                                                              *)
OkBoots ==
  promised # NoImage /\ ~spoiled =>
    /\ otadata # running
    /\ Valid(otadata) /\ Image(otadata) = promised

(* The image that a restart would start. *)
Boots == IF Valid(otadata) THEN Image(otadata) ELSE Image(1 - otadata)

(* OnlyAcceptedBoots: as long as the device runs the slot that otadata     *)
(* names, an update that fails or is cut off changes nothing about what    *)
(* the next restart starts; only a writer whose image was validated does   *)
(* (ota_upload_post, ota_task).                                            *)
OnlyAcceptedBoots ==
  [][Boots' # Boots /\ otadata = running =>
       \E u \in Writers : At(u, "boot") /\ ~At(u, "boot")']_vars

(* UploadEnds: the HTTP server's only task comes back from every upload,   *)
(* also when the browser goes away in the middle, but for a browser that   *)
(* stalls for ever (the retry at the receive timeout in ota_upload_post).  *)
UploadEnds ==
  <>[](browser # "stalled") => (~At("portal", "idle") ~> At("portal", "idle"))

(* NewFirmwareRuns: an accepted image is running sooner or later, unless   *)
(* another writer touched its slot or reboot_task did not start.           *)
NewFirmwareRuns ==
  \A i \in Images : promised = i ~> (Image(running) = i \/ spoiled)
=============================================================================
