# A TLA+ model of somfy2mqtt

somfy2mqtt is ESP32 firmware that drives a Somfy RTS awning from Home Assistant:
commands arrive over MQTT or from a web page, a queue hands them to a task that
renders and transmits a rolling-code frame, and retained topics report what the
device assumes the awning did.  Nothing comes back over the radio, the flash may
lose power at any moment, and nobody walks up to the device to press reset: what
has to be right is what survives restarts, lost connections and tasks that
interleave.  That is what the modules here are about.

Paths are relative to the repository's root.

## Inventory

| Component | State it keeps | Operations | Talks to |
|---|---|---|---|
| Somfy transmitter, `components/somfy_rts` | `s_lock`, `s_remote`, the symbol buffer | `somfy_rts_init`, `somfy_rts_send`, `somfy_rts_set_remote_addr`, two getters | settings store (reads and saves the rolling code, saves the pairing), RMT peripheral |
| Settings store, `components/config_manager` | `g_config` in RAM, the NVS keys | `config_manager_init`, seven saves | everybody reads `g_config` without a lock |
| Web portal, `components/config_server` | none of its own | commands, seven settings forms, reboot, firmware upload, pages | settings store, transmitter, queue |
| MQTT manager, `components/mqtt_manager` | `s_client`, `s_connected` | event handler, `mqtt_publish`, init with the last will | queue, discovery, OTA manager, `esp_restart` |
| Discovery, `components/ha_discovery` | none | `ha_discovery_publish`: fifteen retained payloads | MQTT manager |
| WiFi manager, `components/wifi_manager` | `s_connected`, `s_ap_mode`, `s_provisioned`, `s_retry`, `s_ap_clients`, `s_last_alive`, the event group | `wifi_manager_start`, event handler, supervisor, `wifi_manager_notify_alive` | driver events, `esp_restart` |
| Application, `main/app_main.c` | `s_cmd_queue` (8 entries) | `somfy_enqueue_command`, `somfy_task`, `status_task`, `app_main` | all of the above |
| OTA manager, `components/ota_manager` (with the portal's upload) | the partition that is not running, the boot selection | one task per trigger | MQTT manager, `esp_restart` |
| System core, `components/system_core` | NVS partition, watchdog | `system_core_init` | erases NVS when it cannot be read |
| Host tests, `test/host` | | the frame's bytes and its waveform | |

Tasks: `somfy_task` (priority 6), `status_task` (4), the supervisor (4), the HTTP
server's task (one handler at a time), the MQTT event task, the WiFi event task,
and during boot the main task.  Shared without a lock: `g_config`, the WiFi
flags, `s_connected`.  The only lock is `s_lock`, and it protects `s_remote`.

### What is hard here

* **Power failure anywhere.**  A frame on air cannot be taken back; the counter
  in flash must be past it before it goes out.
* **Two tasks on `g_config.rolling_code`.**  `somfy_rts_send` reads it twice and
  saves it; `config_rolling_post` saves it.
* **Settings in three places** (flash, `g_config`, `s_remote`), changed one after
  the other, while a command is on air.
* **NVS calls that fail**, before or after the value was stored, some of them
  with the result ignored.
* **Messages lost, late and sent twice**, a last will that fires around a
  reconnect, a broker that forgets.
* **Driver events handled later than the change they report**, while the main
  task switches between station and AP mode.
* **Recovery**: fast retries, paced bounces, two kinds of self-reboot, and an
  end-to-end liveness signal fed by another task.
* **Arithmetic at the edges**: 16-bit frames and a 32-bit counter, unsigned time
  differences, a publish interval longer than the reboot limit, a count that
  starts at its maximum, numbers narrowed before they are checked.
* **Two writers of one partition**: nothing keeps an upload and an update over
  MQTT, or two of those, apart; and a reboot is pending while the next begins.
* **Forms cut short**: by a receive that times out, or by a buffer, after which
  what has arrived counts as the whole.

`PROJECT.json` lists each hazard at its line, with the properties that cover it.

### What makes each component correct

* Transmitter and settings: each code on air is ahead of the one before, as long
  as the counter fits the frame, restarts never step back and do not use up the blind's window; all copies of the address agree
  whenever no handler runs; the record of a pairing is the address that was on
  air; a number set by hand is used; no handler hangs on the lock.
* Application, MQTT, discovery: the retained cover state tells of the last move;
  the device announces itself after every reconnect and is shown offline when
  it stays away; the retained code ends up right; accepted commands are worked
  off.
* WiFi manager: flags follow the driver; a person at the setup page is not
  thrown out; when the network is back the device is, too.
* Settings: a restart gives back what the device was using; no group of keys
  mixes two saves unless a save was cut off or failed.
* OTA: the running partition stays whole; the boot partition changes only after
  a whole valid image; what was accepted boots.
* Diagnostics: on time and not too often, and the feeding of the supervisor does
  not depend on the interval.
* Frames and forms: a receiver gets what was meant, and the parser what was typed.

## Modules

| Module | Models | State |
|---|---|---|
| `SomfyRts` | `somfy_rts_send` step by step; `config_rolling_post` and `config_somfy_post`; the keys `rolling`, `remote_addr`, `paired`; boot and restart | `nvs`, `cfg` (`g_config`), `remote` (`s_remote`), `lock`, program counters `rf` and `http` with the locals of the two tasks |
| `RtsRemote` | what a rolling-code remote promises: a durable counter always ahead of what was on air | `durable`, `last`, `excused` |
| `SendContract` | what `somfy_rts_send` is for the tasks around it: a command that takes one code at one moment, or none | `code`, `phase`, `excused` |
| `SomfyRts_proofs`, `CommandBridge_proofs`, `WifiManager_proofs`, `StatusTask_proofs`, `ConfigStore_proofs`, `OtaUpdate_proofs`, `SomfyWave_proofs`, `Wire_proofs` | theorems about these modules and their proofs | |
| `SomfyWave` | the emitter, `emit_frame` and the rendering in `somfy_rts_send`, as operators: a frame in, pulses out | none |
| `SomfyFrame` | `build_frame`, and with it the whole of a transmission | none |
| `CommandBridge` | the queue, `somfy_task`, `status_task`'s report, the MQTT event handler, command and cover forms; client, broker and network as environment | `queue`, `task`, `status`, `http`, `event`, `connected`, `opens`/`flash`/`code`, and outside `link`, `outbox`, `inflight`, `retained`, `will` |
| `WifiManager` | `wifi_manager_start`, `wifi_event_handler`, the supervisor, `app_main`'s decision to start MQTT, `status_task`'s feeding, the WiFi, MQTT and reboot forms; driver, router, broker and people as environment | the `s_...` flags under their names, `stale` (age of `s_last_alive`), `sup`, `main`, `mqtt`, `sta`, `events` |
| `StatusTask` | `status_task`: the publish interval, `publish_diagnostics` topic by topic, the feeding; the client's session and `config_somfy_post` beside it | `task`, `since` (`since_pub_s`), `pub_interval`, `connected` (`s_connected`), `session` |
| `ConfigStore` | `config_manager_init` and the saves of several keys, the forms that call them, `reboot_task` | `nvs`, `g_config`, `save` (the save under way), `rebooting` |
| `OtaUpdate` | `handle_trigger`, `ota_task`, `ota_upload_post`, `reboot_task`; slots, bootloader and browser as environment | `flash`, `otadata`, `running`, `writer` (each task's place), `browser`, `rebooting` |
| `FormFields` | `url_decode`, `get_field`, `read_body`, as operators | none |
| `MCSomfyRts`, `MCWifiManager`, `MCStatusTask` | what TLC runs: the same specification, for `SomfyRts` with bounds of its own, and beside it the statements of the repository's documents and comments that the code does not keep | |
| `MCConfigStore` | the inputs of `ConfigStore` | |
| `Wire` | what goes through the two codecs: pulses of a command, fields of a form; a browser says what should come out of a form | `input`, `output` |
| `MCWire` | `Wire` and `SomfyFrame` over bounded inputs, and a receiver, written independently, that says what should come out of a command | |

A component's actions carry the names of the code's functions.  Where a
function is interrupted by another task, or can be cut off by a restart, it is
several actions; a `pc` field holds where the task is.  Notable choices:

* `SomfyRts`.  Every access to `g_config.rolling_code` is a step of its own:
  `SendReadCode` (line 199), `SendNextCode` (the second read, line 204),
  `SendPersist` (flash) and `SendCache` (RAM).  `SendKeyOn` is the moment the
  RMT driver accepts the buffer; from there on the blind may have heard the
  frame.  A command has the counter in hand (`rf.counter`, for the properties only)
  and what line 199 cuts it to (`rf.serial`, modulo `CodeMod`), which is what the
  frame carries; `last` and `aired` are the two for the last frame on air.
  A save has one of the outcomes of `SaveOutcomes`, and `Faults` says
  which of them may happen.  `Restart` may fall between any two steps, and with
  `"erase"` it finds an empty partition.
* `CommandBridge`.  `somfy_rts_send` is what `SendContract` leaves of it: the code is
  taken (`SendTakesCode`), and later the call returns (`SendOk`), or it returns an error
  before or after that (`SendError`); a restart before it may find the code taken or
  not.  The outbox survives a lost connection and is sent
  again in order from its first unacknowledged message; a publish while the
  client is not connected is skipped (`sdkconfig.defaults`).  Cover setting and
  state are two reads in different tasks, as in the code.
* `WifiManager`.  Time passes in supervisor periods.  A period ends only when the
  supervisor and `status_task` had their turn, posted events are handled, and an
  MQTT client that can connect has.  `late` and `Missed` name the two situations in
  which the device stays off line: see `wifi_stranded` and `wifi_offline`.

* `StatusTask`.  The client's session ends before the event that says so is
  handled, so that `connected` is stale for a while and a report, or the rest of
  one, is dropped.  `since` is counted modulo `Modulus`, small enough in the run
  that long outages wrap it, too.
* `ConfigStore`.  `SetKey` is one `nvs_set` call: NVS writes at once and
  `nvs_commit` adds nothing, so a restart between two calls leaves the first.
  The HTTP server has one task, therefore one `save` at a time; `reboot_task` runs
  beside it.
* `OtaUpdate`.  `Write` is one pass of a writer's loop; the two ways of updating
  take the same steps and differ in how they end: `ota_task` restarts at once
  (`PullRestart`), the portal starts `reboot_task`, which may fail.
* `MCWire`.  The receiver sees level changes only, recovers symbols, bits and bytes
  from them and checks the checksum.  The browser (`Wire`) leaves letters, digits and
  `* - . _` as they are and escapes the rest, as forms are encoded.

The modules meet in what they share: the rolling code, the pairing and the
address are in `SomfyRts`, and `ConfigStore` has the address again as one of the
three keys of its form; `CommandBridge` takes `somfy_rts_send` as `SendContract` describes it, and both
modules are shown to keep to that;
`WifiManager` takes what `StatusTask` shows (`Fed`) as one feed per period, and
`pub_interval` as the window that follows from it.

History variables (marked in the modules) remember what the outside world saw:
the last code on air, the last move, why the supervisor rebooted.  No action
of the code reads them.

## Runs

Passing runs:

| Run | Checks | Bounds, and what they make happen |
|---|---|---|
| `rts` | `TypeOK`, `NoReplay`, `RestartSafe`, `OneCodePerCommand`, `PairingRecorded`, `QuietUpdateKept`, `NoStepBack`, `AddressApplied`, `AddressChangeCompletes`, and that the code implements `RtsRemote` (`KeepsPromise`) and `SendContract` (`OneStepSend`) | two addresses, one restart, commands at the counters 1 to 3 in frames that count to 2, so that the third carries 0; a number above the form's limit, which becomes 2: ahead of every command, equal to the one in hand, or behind; both forms in the middle of a command; or, instead of numbers typed (`MCNext`), saves that fail with and without storing and a boot that erases the partition, with one command less after that, and no PROG |
| `bridge` | `TypeOK`, `CoverHonest`, `Announced` | a queue of 1, two commands (up, down, stop from the cover topic, prog from the others), one change of the cover setting, one drop (or broker restart), one restart |
| `bridge_live` | `QueueDrains`, `RollingHeals`, `OfflineShows` | one command, one drop, reports, fair tasks |
| `wifi` | `TypeOK`, `FlagsFollowDriver`, `StrandedIsPatient`, `OutageIsReal`, `Recovers` | every combination of SSID and broker URL set or empty; one fast retry, a timeout of 1, a bounce every period, reboots after 2 and 3 periods; a window below the reboot limit and one at it, changed by the form; three troubles (network changes, zombie links, people who join, forms) |
| `status` | `TypeOK`, `Fresh`, `Fed`, `Spaced` | intervals of one pass (5), between two passes (12) and longer than the watchdog (40), one change of it; three topics; a modulus of 64, so that the count wraps at boot and in every outage of a minute; outages of any number and length |
| `store` | `TypeOK`, `RestartKeeps`, `OneSave`, `PasswordTyped` | the forms of one of the sets of `MCSessions`, any number of times: an empty text and another, three passwords, numbers on both sides of every limit; any NVS call fails, restarts anywhere |
| `ota` | `TypeOK`, `RunsWhole`, `OkBoots`, `OnlyAcceptedBoots`, `UploadEnds`, `NewFirmwareRuns` | one download and one upload at a time, each any number of times, with the old firmware, a new one and something else; images of two chunks; declared sizes from 0 to 2; stalls and restarts anywhere |
| `wire` | `FramesReceived`, `FitsPeripheral`, `FieldsSurvive`, `FieldsOnlyCut` | four buttons, eight counters around the byte and 16-bit limits, four addresses; texts of up to two characters of which three have to be escaped; buffers and arrivals that cut between characters and in an escape |

The limits are small multiples of what they stand for: what matters to the
properties is their order (bounce before reboot, window below the reboot limit,
at least one retry), which the small values keep.  With `MaxCode` at 4 the counters
1 to 3 are sent, again and again where a number set by hand or a failed save
turns the counter back, and a restart can cut any command.  That users and failing
flash do not meet in one behaviour is a bound of the run; the theorems have them
together.  `AddressChangeCompletes` leaves out a flash that fails: commands are then
without bound in the model, as their counter does not rise.  Two addresses are
enough to tell old from new.  `CHECK_DEADLOCK FALSE` is set for `SomfyRts`, `CommandBridge`, `WifiManager` and
`OtaUpdate`, because users, drops and restarts are bounded and a device nobody uses may come to
rest; `status`, `store` and `wire` check for deadlock.

Runs that end in a violation, each of one statement of the repository; the
findings in `PROJECT.json` quote it:

| Run | Statement | What the code does |
|---|---|---|
| `rts_lost_update` | "Rolling code updated" | a command in progress overwrites the number |
| `wifi_offline` | the device never stays offline indefinitely | MQTT is started only if the link is up at one moment of the boot |
| `wifi_stranded` | stranded in AP mode, it reboots to retry | an address that arrives during the fallback makes the supervisor idle |
| `status_boot` | the diagnostics are published on the first pass (main/app_main.c:145) | the client starts after that pass, `since_pub_s` wraps to 4 on the way to the next, and the first report comes an interval after boot, up to an hour |

What the models also show, with no run of their own:

* The save's result is ignored in `somfy_rts_send`: after a failed save the frame
  goes out all the same (README.md:19 says the code is persisted before every
  transmission) and the next command repeats its code.  `NoStepBack` is what
  remains true.
* A move while the broker is away is not published, nor later (README.md:129: after
  each move); `CoverHonest` excepts it as `missed`.
* Without a broker, each bounce renews the address, which counts as contact: the
  supervisor bounces for ever and never comes to the self-reboot of
  main/app_main.c:150.  The device keeps its link and portal and connects when
  the broker returns.
* A feed between the supervisor's two reads of time can wrap the unsigned
  difference (components/wifi_manager/wifi_manager.c:235) and reboot a healthy
  device; `OutageIsReal` excepts exactly that, and holds otherwise.
* The counter is 32 bits wide and the frame has 16 (somfy_rts.c:199).  Nothing stops
  it at 65535, where the form lets a user set it: the second command after that
  carries 0, which is not ahead of what the blind heard ("receiver only accepts
  codes ahead of the last one it saw", config_manager.h:18).  `NoReplay` excepts the
  frames whose counter does not fit, `KeepsPromise` what follows the first of them;
  the bounds of `rts` reach it.
* After a WiFi or MQTT save that stored a new password but returned an error, the form
  with an empty password field writes the older one, from RAM, over it ("Empty password
  field means keep the stored one", config_server.c:501); `PasswordTyped` says that
  this, and a restart in the other direction, is all that can happen to it.
* A person who joins the setup AP while the supervisor decides is known to it only when
  the event is handled, and may be thrown out; `StrandedIsPatient` leaves them out.
* `nvs_set` is called without looking at its result.  If it fails alone, RAM moves on
  and a restart goes back; the model has that outcome (`"set"`), every property of the
  counter excepts it, and no run takes it.
* A receive that times out in the middle of a form is the end of the form, and the
  rest is taken as empty or cut (`FieldsOnlyCut`).
* A save of which a call failed, or that a restart cut off, may leave a new network
  with an old password until the next whole save (`OneSave` excepts the group as
  `broken`), also behind the answer "settings unchanged".
* An update accepted by the portal may be overwritten before the reboot; the
  bootloader then starts the old firmware (`spoiled` in `OkBoots`).

And some smaller ones: a restart between a PROG frame
and `config_manager_save_paired_addr` leaves the older address on file; above
65535 the reported rolling code is not the one in the frame; `control_cmd_post`
answers "queued" for a command the full queue drops; `status_task` can publish a
code that `somfy_task` has overtaken (`RollingHeals` is about the end of that);
and a publish interval above 585 s makes the healthy window longer than
`REBOOT_AFTER_S`, so that the reboot comes late and without a bounce before it.

### Fairness

* `SomfyRts!FairSpec`: both tasks are weakly fair while they are inside a command
  or a handler.  FreeRTOS schedules every ready task, and
  `rmt_tx_wait_all_done` returns after 2 s at the latest.
* `CommandBridge!FairSpec`: every task, TCP on a connection that stays up, and the
  broker's keepalive.  Users, drops and restarts are not fair, nor is the
  client's reconnect: it tries every 5 s, but the network may never let it
  through.  `RollingHeals` and `OfflineShows` say which case they are about.
* `WifiManager!FairSpec`: tasks, time, the driver's answers, and the client's
  connect and keepalive.  One strong fairness: of all the times the station
  joins a router that is there, some take it less than a period.  Without it,
  joins that always outlast the window end in bounces only.  It is assumed that
  the address is renewed after every reassociation, as DHCP does.

* `OtaUpdate!FairSpec`: writers inside an update and `reboot_task` are weakly fair;
  a receive on a connection that is closed fails.  A browser that is connected but
  silent owes nothing, hence the premise of `UploadEnds`.

`Recovers` also assumes that the supervisor is not fed between its two reads
time after time (each may wrap the difference) and that settings and setup
page are left alone.

## Proofs

Every invariant, action property and refinement of the passing runs is a theorem,
except `FramesReceived`.  The theorems hold for every value of the constants that the module's
`ASSUME` admits, therefore also for the firmware's own limits, which the runs make
small.  The counts that bound a run (`MaxCode`, `MaxRestarts`, `MaxCommands`,
`MaxDrops`, `MaxTrouble`, `OutboxMax` and so on) are arbitrary in the proofs.

### `SomfyRts_proofs`

For every set of addresses, every modulus and every combination of NVS
failures, from `ConstantsAssumption`:

| Theorem | States |
|---|---|
| `TypeCorrect` | `Spec => []TypeOK` |
| `CounterAlwaysAhead`, `AirInvariant` | the inductive invariants `CounterInv` and `AirInv` |
| `NeverReplays` | `Spec => []NoReplay` |
| `RestartsAreSafe` | `Spec => []RestartSafe` |
| `Implements` | `Spec => KeepsPromise`, the refinement of `RtsRemote` |
| `PairingIsRecorded` | `Spec => []PairingRecorded` |
| `AddressIsApplied` | `Spec => []AddressApplied` |
| `BurnInvariant`, `BurnsOneCode` | the inductive invariant `BurnInv`, and `Spec => []OneCodePerCommand` |
| `SendIsOneStep` | `Spec => OneStepSend`, the refinement of `SendContract` |
| `RepeatsAtMost` | `Spec => []NoStepBack` |
| `QuietUpdatesStay` | `Spec => []QuietUpdateKept` |

*Types.*  `TypeOK` is not inductive: the handler's address may be 0 in it.
`TypeInv` adds that a handler on its way has chosen a real address.

*Counters.*  `RestartSafe` says nothing of a command that has not reached the
transmitter yet.  `CounterInv` follows the counter from where it is read to where
it is keyed: while nothing excuses the device, both copies are ahead of the last
counter on air, whatever a command or the form has in hand is ahead of it too,
and once a command has saved, flash is past the code it carries.  Two facts make it
go through the race with the form: a number that was not ahead of the codes in
hand makes the device excused, both when it reaches flash and when it reaches
RAM; and an excuse stays (`ExcuseStays`), so that the invariant only has to be
kept while there is none.  `RestartsAreSafe` is read off it.

*Codes.*  `AirInv` says that the code in hand and the one last on air are their
counters modulo `CodeMod`.  As long as the counter in hand fits the frame, so did
every one before it (`CarriedWhole`), and the codes rise as the counters do:
`NeverReplays` and the step simulation of `Implements` follow.  At the first counter
that does not fit, `Wrapped` lets the abstract remote go.

*Pairing.*  `PairingInv` says at each step from the frame to the record that
`s_remote` still is the address that was keyed, because the lock is held; that
is where the proof uses `s_lock`.

*Address.*  `AddressInv` relates the three copies at each step of
`config_somfy_post`.

*Codes used up.*  `CounterInv` bounds the copies from below, `BurnInv` from above: as
long as the code is the transmitter's own affair, a command that is past
`SendReadCode` has in hand what `g_config` holds, each save adds one, and the frame
on air, or `burnt`, makes up for it.  It also says that flash and RAM hold the same
code but between `SendPersist` and `SendCache`.

*One step.*  `OneStepSend` maps the places of a command to three phases; the code is
taken where `SendCache` moves `g_config` on.  `BurnInv` makes that step add exactly
one: RAM still holds what the command read.  It also gives the restart its two
outcomes: only between `SendPersist` and `SendCache` does flash hold another code than
RAM, and then it is the next one (`ContractStep`).  Once flash has failed or the user
has set the code the contract allows anything, and this is for ever (`SetStays`).

*Failing saves.*  With saves that return an error, RAM may be behind flash, and flash
at the counter last on air.  `RepeatInv` says how far each copy may be behind at
each step of a send, and that none of them is ever below that counter.

*Numbers set by hand.*  `AskedInv` says that a form that was quiet so far has an idle
transmitter beside it, so that nothing in hand is older than the number; from
then on every save counts upwards.

### `StatusTask_proofs`

Proves `TypeCorrect`, `ReportsAreSpaced` (`Spaced`),
`ReportsAreFresh` (`Fresh`) and `AlwaysFed` (`Fed`), for every set of intervals, every width
and every number of topics, from `StatusAssumption` (no interval shorter than a pass,
and room for a pass above the longest one).  `NotAhead` says that after a report
`since_pub_s` never exceeds the time since then: a wrap only takes from it.  `Counting` goes the other way: while nothing changes,
`since_pub_s` has counted all of the calm but one step, or everything was sent since
and is as young as it says; it cannot wrap, because a pass leaves it below the
interval.

### `OtaUpdate_proofs`

Proves `TypeCorrect`, `AlwaysBootable` (`RunsWhole`), `AcceptedBoots`
(`OkBoots`) and `OnlyAccepted` (`OnlyAcceptedBoots`), for any number of triggers at a time,
any images and any size, from `OtaAssumption`.  `TypeInv` adds to `TypeOK` that a writer
that writes has an image.  The argument is that a writer's slot is never the running
one and that a restart falls back to the running one if the chosen one is not
valid (`RunningUntouched`); `OkBoots` is inductive as it stands.

### `ConfigStore_proofs`

Proves `TypeCorrect`, `KeptByRestarts` (`RestartKeeps`), `NeverMixed` (`OneSave`) and
`OnlyTypedPasswords` (`PasswordTyped`), for any texts and numbers, any sets of forms and
any pattern of failing calls, from `StoreAssumption`.  `TypeInv` adds that every value is
one the device accepts (`Fits`): without it a restart could clamp what RAM holds
as it is, and the two would part.  `WrittenSoFar` carries `OneSave` and
`RestartKeeps`: in a save of which no call failed, flash has the new values of the
keys written so far.  `PasswordKept` carries the passwords: a save that keeps one
has in hand the password RAM holds, and unless a call has failed flash holds it all
the time.  Therefore such a save can change flash only after a failure, and only to
that password (`PasswordRestoredStep`, `PasswordStaysStep`).

### `CommandBridge_proofs`

Proves `TypeCorrect`, `CoverIsHonest` (`CoverHonest`) and `AnnouncedAlways` (`Announced`), for
every length of queue and outbox and any number of commands, drops, restarts and
changes of the setting, from `BridgeAssumption`.  `TypeOK` is not inductive:
`TypeInv` adds what each task has in hand (`InHand`) and that the outbox holds
messages the device publishes.

`CoverHonest` is about a state in which everything has arrived.  `CoverInv` says what
leads there: a move still to be reported is the last one transmitted; once it
is reported, the last cover message of the outbox (`LastCover`) carries its state;
and if the broker has that message, or the outbox no longer holds one, the retained
state is it.  Sending again starts at the first unacknowledged message and keeps
the order, hence the last cover message wins a second time.

`AnnouncedInv` holds from the moment each half is announced: the broker has the value,
or it is still to come among the messages the broker does not have (`Undelivered`).
"online" survives because the last will of a connection can fire only before
the next one announces.

`KeepsToItsContract` (`Spec => KeepsToContract`) closes the gap between the two modules:
each step that `CommandBridge` gives `somfy_rts_send` is a step of `SendContract`,
which `SendIsOneStep` proves of the steps of the transmitter, and no other action of
it moves the counter.

### `WifiManager_proofs`

Proves `TypeCorrect`, `FlagsAreRight` (`FlagsFollowDriver`), `RebootsAreOutages`
(`OutageIsReal`) and `SetupIsNotTakenAway` (`StrandedIsPatient`), for all timeouts, limits,
windows, numbers of retries and amounts of trouble, from `WifiAssumption`.

*Flags.*  The property speaks of an empty event queue.  The invariant (`Path`) says for
any queue that its events, handled one after the other, lead from the flags as
they are to what the driver does; `Leads` states that as a path of records.  An
event the driver posts lengthens the path at its far end (`LeadsAppend`), a
handler takes its first step (`LeadsTail`).  `ApInv` adds that the AP and the station
exclude each other.

*Reboots.*  `FedWhileGood`: as long as every pass of `status_task` finds MQTT connected,
`s_last_alive` is at most one period old, and only until the pass of this period.  The
theorem needs that a window is at least one period, which `WifiAssumption` states: the
code's window is the publish interval and 15 s (wifi_manager.c:239), longer
than the supervisor's 10 s.

*Setup.*  Two histories against one counter.  `Attended`: somebody who stays on the AP
is one the flags know, so the supervisor's turn resets `stranded`.  `Counted`: otherwise
`stranded` is no more than the periods the AP was quiet, plus the one that has begun.
The last conjunct of `WifiAssumption`, on `StaleCap`, is about the cap of the model's
counters only.

### `SomfyWave_proofs`

Proves `EmitAllFits` and `WaveFits`, for frames of any bits, without assumptions.  The
theorems are about the whole of a wave, some 400 pulses that no prover unfolds, so
that lengths and durations have to be followed through `FlattenSeq` by induction.  The
library's induction rules take a predicate as a parameter, which the provers
cannot instantiate.  `Descent` replaces it: the numbers for which a fact fails are a
set, `WFMin` gives the least of them, and each induction shows that there is a
smaller one.  Where a recursion runs over sequences its values are named as a
function (`Flattens`, `Totals`) whose equations the induction uses.

`EmitAllFits` holds of any durations, whatever is asked of `emit`: the rounded-up
division leaves a last chunk that is neither empty nor longer than 15 bits
(`Chunks`), and the chunks last together as long as was asked (`FlattenAirtime`).

`WaveFits` counts: a wake-up frame is 2 + 4 + 2 + 112 + 1 pulses and the repeats ten
more sync pulses each, without the two of the wake-up; emit splits the silence after
the wake-up, and only that, in three (`WokenPassed`); the sum is odd, hence
`emit_finish` adds the end marker, and below `2 * SYM_CAP`.  Therefore `Render` never
gives up: the error that `somfy_rts_send` returns when the buffer overflows is
never taken (somfy_rts.c:216).

### `Wire_proofs`

Proves `TransmissionFits` (`FitsPeripheral`), `FormSurvives` (`FieldsSurvive`) and `FormOnlyCut`
(`FieldsOnlyCut`).  `Wire` has no transitions: the theorems assume an output that
the code makes of the input, which is what `MCWire` states as `Init`, and are
about texts of any length over all bytes but NUL, which would end a C string, field
buffers up to the 256 bytes that `get_field` has room for, and bodies cut after any
number of characters (`AnyForm`).

The argument for forms: an escaped text is spelled character by character, with
running lengths (`Spelled`); wherever it is cut, it is cut in some character
(`Locate`), and reads as the characters before and at most two codes of that one.
`url_decode` is defined from a place to the end of the text, so the induction
(`ReadsAll`) runs from the cut back to the beginning; two codes left of an escape
stay as they are, because `url_decode` wants two more after the percent sign (`Leftover`).
Fields do not mix because no escape contains an ampersand or an equals sign
(`NoDelimiters`): the first place that reads "p=" is the second field's key whatever the
first field's text is (`PassNotBefore`).

### Only model-checked

* `FramesReceived`: `SomfyFrame` uses bit operations and the receiver `RECURSIVE`
  operators, and the provers can be given neither.
* The liveness properties `AddressChangeCompletes`, `QueueDrains`, `RollingHeals`, `OfflineShows`,
  `Recovers`, `UploadEnds` and `NewFirmwareRuns`: liveness under fairness and `ENABLED` are not
  supported.

`KeepsToContract` is the other way round: it is proved, and no run lists it.

## Not modelled

* The bytes of a download on their way and the header checks of the OTA library: an
  image is whole or not.
* Pages, logs, mDNS, signal strength: no state that a property is about.
* A boot without memory for lock, queue or tasks; a transmitter that could not be
  initialised answers every command with an error (`SendError` in
  `CommandBridge`).
* The outbox's limit in bytes, which is the client library's.
* In `WifiManager`, the 0.8 s between a form's answer and the reboot; `ConfigStore` and
  `OtaUpdate` have them.
* Negative numbers in the Somfy form: they become the largest interval, or a pin by
  their low eight bits, and pass the same limits.
* `mqtt_manager_init` reading the broker's settings while `config_mqtt_post` copies
  them: it takes them once, during boot.
* The names of the forms' fields: `Wire` has two short ones, and no name of the portal's
  forms is the end of another of the same form.
* Raw button codes: `somfy_rts_send` treats all but PROG alike, and
  `somfy_task` all but UP and DOWN.

## Plan

1. Done: `SomfyRts`, `RtsRemote`, `CommandBridge`, `WifiManager`, `StatusTask`, `ConfigStore`,
   `OtaUpdate`, `SomfyWave`, `SomfyFrame`, `FormFields`, `Wire`; proofs of every invariant,
   action property and refinement but `FramesReceived`.
2. Done: `SendContract` between `CommandBridge` and `SomfyRts`, with a theorem for each side.
3. Left: `build_frame` over nibbles instead of bit operations, and a theorem that a
   receiver gets back what went in.
4. Left: `StatusTask`'s `Fed` stated as what `WifiManager` takes from it.
