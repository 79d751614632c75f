# A verification project for the gPlug-mini firmware

The gPlug-mini sits on the customer interface of an electricity meter, decodes
the DLMS telegrams the meter pushes and publishes them to Home Assistant over
MQTT. This directory holds TLA+ modules translated from the firmware's sources
under `main/`, TLC configurations that check them on small instances, and
theorems checked by TLAPS for every value of the constants. Requirements
(FR-…, NFR-…) are those of `docs/Functionality/gPlug-mini-FSD.md`.

## 1. Inventory

| Component | State it keeps | Operations | Talks to |
|---|---|---|---|
| main loop (`app_main.cpp`) | the cycle buffer, `last_byte`, `undecoded` | read, assemble, end a cycle, decode, publish, feed the watchdog | meter source (calls), parser (callback `on_value`), publication (call) |
| publication (`publish_cycle` in `app_main.cpp`) | `meter_serial`, `discovery_session`, `cycle_set` | discovery once per session, one state message per cycle | network layer: reads `connected` and `session_id`, calls publish |
| network layer (`net.cpp`) | `connected`, `session_id`, the client handle | `on_wifi`, `on_mqtt`, start and publish calls | event task, MQTT client task, OTA |
| firmware update (`ota.cpp`) | `pending_url`, `downloading`, `validated` | command, download task, mark valid | MQTT handler (calls), indicator, OTA partitions, bootloader |
| meter sources (`meter_uart.cpp`, `sim_source.cpp`) | line candidate; capture position and pending gap | read, try the next line settings | UART driver |
| provisioning (`provisioning.cpp`) | `submitted`, the server and DNS handles | portal window, form submission | HTTP server task, configuration store |
| the portal's form (`provisioning.cpp`, `config.h`) | none | read the body, cut out and decode fields, judge | configuration store |
| configuration store (`config_nvs.cpp`, `config.h`) | four NVS keys | load, save, judge | NVS |
| measurement set (`aggregator.h`: `CycleSet`) | labels, text, `closed_` | add, json, clear | `on_value`, publication |
| indicator (`indicator.cpp`, `indicator.h`) | `current`, `pulse_until_us`, the task's `elapsed` | indicate, publish pulse, render | written by main loop and OTA task; read by its own task |
| pure cores (`aggregator.h`, `framing.h`, `config.h`, `obis_map.cpp`, `ha_discovery.cpp`) | none | `cycle_ended`, `leading_flags`, `config_fault`, lookup, formatting | — |
| boot sequence (`app_main`) | none | start everything in an order, or raise the portal | all |

What is hard, and where (the full list, each at its line, is in
`PROJECT.json`, "hazards"):

* *Several tasks, volatile flags, no locks.* The main loop (priority 1), the LED
  task (2), the update task (4), the MQTT client's task (5), the event task
  (above both) and the HTTP server's task share `connected`, `session_id`,
  `downloading`, `pending_url`, `submitted`, the indication and a 64-bit time
  that a 32-bit core stores in two halves. Values are read, something blocks, and
  they are used or read again.
* *Failure and recovery.* WiFi, broker and TCP session fail independently; the
  device and the broker lose power independently; what was announced to a
  broker that forgot everything has to be announced again.
* *Persistence.* NVS is written key by key; an update touches a slot, the OTA
  data and the running image's state at different times.
* *Time.* A 2 s gap measured between reads, a 5 s watchdog fed by a loop that
  also publishes, a 300 s portal window polled every 200 ms, a pulse of 100 ms
  sampled every 25 ms, clocks that wrap.
* *Sizes.* A body of 512 bytes, escapes of three octets for one, a message of 512
  bytes, a cycle buffer, fields with limits of their own.

What makes each component correct: *publication* announces every entity on
every session and never publishes stale or anonymous values; the *network
layer* recovers and its availability is truthful; *update* always leaves a
working image and tries a bad one once; the *main loop* hands whole telegrams to
the decoder in time; *provisioning* keeps what it promised to keep and always
ends in operation; the *form* is stored as it was typed or refused; the
*indicator* shows what it was told within a pass.

## 2. Modules

| Module | Models | Instances |
|---|---|---|
| `MeasurementFeed` | abstract: what the device promises of its measurements | refined by `Publisher` |
| `Publisher` | publication and network layer, with the client, the connection and the broker as environment | `MCPublisher` |
| `PublisherProofs` | theorems about `Publisher`, the refinement among them | — |
| `ABUpdate` | abstract: what an update over two slots promises | refined by `OtaUpdate` |
| `OtaUpdate` | firmware update and the part of the boot it can meet, with OTA data and bootloader as environment | `MCOtaUpdate` |
| `OtaUpdateProofs` | theorems about `OtaUpdate`, the refinement among them | — |
| `MeterLoop` | main loop and both meter sources, in time | `MCMeterLoop` |
| `MeterLoopProofs` | theorems about `MeterLoop` | — |
| `CycleDecode` | framing, parse loop, `on_value` and the measurement set, with the parser as environment | `MCCycleDecode` |
| `CycleDecodeProofs` | theorems about `CycleDecode` | — |
| `PortalForm` | pure: what becomes of a submitted body | extended by `Provisioning` |
| `Provisioning` | boot decision, portal and configuration store | `MCProvisioning` |
| `ProvisioningProofs` | theorems about `PortalForm` and `Provisioning` | — |
| `Indicator` | the LED task and everybody who calls it, in time | `MCIndicator` |
| `IndicatorProofs` | theorems about `Indicator` | — |
| `SetInduction` | no code: induction and recursion over the natural numbers in terms of sets, for the proofs | — |

Definitions whose name starts with `Mut_` are deliberate faults of the
definition that follows them; nothing uses them. They record, for each checked
property, a plausible bug it would find.

### Publisher and MeasurementFeed

One pass of `publish_cycle` is five actions, because it can be interrupted
between them: `CheckConnected` (lines 199–206), `CheckSession` (208),
`PublishDiscovery` once per entity (211–221), `MarkDiscovered` (222, where the
session is read *again*) and `PublishState` (228–234). `CycleEnds` stands for a
decoded burst: it may carry values or none and an identity or none, and the
first identity since boot is kept (`on_value`, 164–168). The handlers are
`OnConnected` and `PublishOnline` (`on_mqtt`: flag and counter first, then a
write that may block), `OnDisconnected`, and `OnWifiDisconnected` (`on_wifi`).

The client is external and modelled by what `net.cpp` relies on: it handles
events and publishes under one lock (`LockFree`), a QoS 1 message goes to the
outbox and stays there until acknowledged or expired, a QoS 0 message without a
connection is dropped. The broker keeps retained configurations and
availability, publishes the will of a connection it gives up, and may restart
without its state. The subscription that `on_mqtt` sends after "online" is not
modelled; the update it leads to is in `OtaUpdate`.

Two constants name assumptions about the environment. `ReconnectDuringPass` is
FALSE wherever discovery is checked: a pass that saw `connected` ends before the
client, which waits ten seconds after a lost session, has made a new one. With
TRUE, TLC refutes `DiscoveryInv`: the second read of the session is safe only
for that reason. `SessionSurvivesLinkLoss` says whether a TCP connection may
outlive a WiFi loss; safety is checked with TRUE, recovery with both.

`MeasurementFeed` says of all this only what a subscriber can rely on: a set is
offered at most once and only while it is the newest, sets arrive in the order
of their cycles, any may be lost. The mapping (`Feed`) takes the cycle number as
the newest set, a set that a pass may still send (`Pending`) as the one offered,
and the states among the messages in flight (`InFlight`) as those under way.

### OtaUpdate and ABUpdate

`Command` is `ota_handle_command` (70–102); `TaskStarts`, `BeginWrite`,
`FinishWrite`, `TaskFails`, `TaskEnds` and `TaskRestarts` are `download_task`
(25–66), any number of which may exist, since `downloading` is set by the task and
not by the handler that creates it; a task that failed clears `downloading` first
and shows Operational later, and a command may come in between. `SessionUp` is
CONNECTED in `on_mqtt`, and `MarkValidOnSession` is its last act,
`ota_mark_valid_on_session` (104–126): between them (`marking`) the handler
announces the device and subscribes, both of which may block, so a reset or a lost
session may come first; and the mark may fail or not be attempted, because the
state cannot be read, which the code only logs. `Reset` is the bootloader's choice of a
slot and the start of the firmware; `Joined` and `BootEnds` are the rest of the
boot, because `app_main` starts the MQTT client before it shows Operational: a
command may be handled in between. The images in `Good` reach the broker once
booted, those in `Bad` never do. `proven`, `starts`, `overlapped` and `early` are
bookkeeping: which slots hold an image that has had a session, how often an
unproven image was started, whether a command was ever accepted before the task
of another had ended, and whether the boot's last step found a task at work.

`ABUpdate` knows no slots: there is an image to fall back on, perhaps a
candidate, and a candidate takes its place only after it was offered, tried and
accepted; a candidate may be rejected until then. The mapping says that the
running image is on trial (`OnTrial`) until it has reached the broker and, where
the bootloader keeps a state, until it is marked valid: an image that had its
session but not its mark is still the candidate, and the next reset rejects it.
Then the other slot's image is the installed one, else the running one is, and the
image selected for the next start is the candidate when it is not the running one.
Writing the OTA data is one step: `esp_ota_set_boot_partition` and the bootloader
alternate between two sectors with a sequence number and a checksum, so a power
cut leaves the old record or the new one.

### MeterLoop

Time moves in ticks of 200 ms and only while the loop is blocked. A chunk is
what 2400 baud delivers in a tick; it may take up to `MaxTrickle` ticks longer
(`Trickles`), its bytes apart but never by the 200 ms that end a read. `ReadBytes`, `ReadNothing` (`StillQuiet` or
`Decode`) and `Published` are the loop (307–448); `CycleEnded` is `cycle_ended`
with the clock's modular subtraction; `ProbeLine` covers lines 422–443 and
`meter_source_try_next_line`. A read of the UART driver returns when it has what
it was asked for or when nothing has arrived for its timeout, so a pass may last
longer than 200 ms while bytes keep coming. `SimRead`, `SimGapBegins` and
`SimGapEnds` are the simulated source, whose silence is inside one read. A
publish is a blocking time of up to `MaxStall` ticks. What the decoder makes of a
burst is a choice (`Outcomes`): on wrong settings it is garbage, in which by chance
a flag (7E) may be followed by a format byte (Ax), and then the code takes it for a
frame and forgets the doubt of the burst before (411–432). `bursts` and `chances`
count, for the properties only, what has been handed to the decoder and how much of
it was such garbage.

### CycleDecode

`Decode` is the end of a cycle in `app_main` (333–341): the set is cleared and
`LeadingFlags` (`leading_flags`) says how many bytes to drop. `PassEnds` is one
turn of the parse loop (354–361), `OnNumber` and `OnIdentity` are `on_value`
(140–195), `Add`, `Close` and `Clear` are the operations of `CycleSet`, and
`PublishCycle` is the part of `publish_cycle` that reads the set. A byte is one
of three classes, and a value is the number of characters it prints as: that is
what framing and the 512 bytes of the message depend on.

### PortalForm and Provisioning

`PortalForm` follows a body from the browser to the record: what fits the 512
bytes of `save_post`, where each field begins in it (`Start`), what of a value is
there (`Got`), the length check *before* decoding (`TooLong`), and the rules of
`config_fault` (`Accepted`). A text is how many of its octets are sent as they
are, how many as escapes, and whether it passes the rule of its field; a text
that lost its end is taken to pass, which is the worst case.

`Boot` decides between stored record, build defaults and portal (254–288);
`RaisePortal` and `RaiseFails` are `provisioning_run` up to its loop; `Submit`,
`Refuse`, `WriteKey`, `SaveFails` and `SaveDone` are `save_post` with
`config_save` in the server's task; `PortalEnds` and `StopAndRestart` are the
polling loop and what follows it. NVS is modelled as ESP-IDF implements it: each
`nvs_set_str` is durable and atomic by itself.

### Indicator

The unit of time is the FreeRTOS tick. `BootColour` and `Render` are the LED
task: three colours of 500 ms, then a pass every `pdMS_TO_TICKS(25)`, which
rounds down, with `elapsed` counting 25 ms for it. `Rendered` is the body of the
loop over `pattern_for`, the table of FSD 11.3; one pass is one step. The task has
priority 2: the download task (4), the MQTT client, the network and flash
operations come before it, and `Sleep` adds to each of its delays up to `MaxLate`
ticks in which it could run and does not get to. The code bounds that nowhere; the
constant does, and every statement about the light carries it (`Pass` is the
longest time from one pass to the next). The callers are `app_main`
(`ShowConnecting`, `EnterPortal`, `Joined`), the download task (`UpdateBegins`,
`UpdateFails`, `Restart`) and `publish_cycle`: `PublishBegins` stores one word of
the pulse's end, either one, and `PublishEnds` the other, with any number of
passes of the higher-priority LED task between. `since`, `published`, `seen` and
`steady` are bookkeeping: ages of the indication and of the last publication,
whether that has been green, and for how many passes an update's light has had one
colour.

## 3. Runs

| Run | Result | Question |
|---|---|---|
| `publisher_safety` | holds | discovery claim, fresh states, nothing before identity, truthful availability, under any three faults; is it a `MeasurementFeed`? |
| `publisher_live` | holds | does everything recover once the faults end? |
| `publisher_linkloss` | violated | does it, if a TCP session may outlive a WiFi loss? |
| `publisher_identity` | violated | does one meter keep one identity? |
| `ota_update` | holds | is there always a working image, is a bad one tried once, what do slots and LEDs say, when marks fail and resets fall anywhere? Is it an `ABUpdate`? |
| `ota_norollback` | violated | is a bad image tried once with the committed build configuration? |
| `meter_loop` | holds | whole telegrams, in time, passes of bounded length, line settings found through chance frames, at the real time scale, both builds |
| `meter_merge` | violated | whole telegrams when a publish blocks for four seconds |
| `meter_watchdog` | violated | is the watchdog fed when a publish blocks for the client's network timeout? |
| `cycle_decode` | holds | are messages complete with the committed table, do they hold first values of their cycle only, are frame starts kept, does decoding end? |
| `provisioning_faults` | holds | coherent records, answers kept unless the partition is erased or a second form accepted, values stored as typed, operation in the end |
| `indicator` | holds | is the light what was indicated within a pass, are pulses seen and do they end, through torn times, wraps and passes up to 20 ms late? |

### What the violated runs show

* `publisher_linkloss`. `on_wifi` clears `connected`; only a new MQTT session
  sets it. If the station is back with the same address before the client
  notices anything, the session lives on, the flag stays false, and every cycle
  is dropped until something else breaks the session.
* `publisher_identity`. Three OBIS codes have kind IDENTITY; the first one
  decoded after a boot is kept. A telegram received from the middle can yield a
  different one than a telegram received whole, and the broker ends up with
  entities of two serials.
* `ota_norollback`. `sdkconfig.defaults` does not enable rollback in the
  bootloader, so an image that never reaches the broker is started on every
  reset. With rollback, `UnprovenStartsOnce` holds.
* `meter_merge`. The gap is measured from the return of a read. After a publish
  that blocked long enough for a telegram and the silence behind it to pass, the
  next telegram is appended to it. `TelegramsWhole` says when that cannot happen:
  the publish and a gap together take less than the silence and the telegram
  behind it. At this instance's shortest silence (2.4 s) and telegram (1.4 s)
  that leaves 1.6 s (8 + 10 < 12 + 7 ticks), the value of `meter_loop`. The bound
  is exact here: with 1.8 s TLC finds two telegrams merged, as with the 4 s shown.
* `meter_watchdog`. FR-WDT-05 forbids a reset as a response to a network fault, and
  the comment at `app_main.cpp:91` gives it as the reason to watch only the main
  loop. But that loop publishes: a write to a broker that stopped reading blocks
  for the client's network timeout, ten seconds unless configured, and the
  watchdog's five are over. A broker that vanished without closing its connection can be
  enough: the states of a minute or two fill the socket's send buffer before the
  keep-alive gives up. `PassBounded` says what does hold: a pass is one full
  read at the meter's pace, or an empty read and one publish. There is another way to
  the same reset: bytes that come a little less than 200 ms apart keep one
  `uart_read_bytes` of 256 going for up to 51 s (`meter_uart.cpp:95`).

### Noted while modelling, not kept as runs

* `CutSafe` needs its condition `~resubmitted`: a second form accepted before the
  polling loop saw the first, followed by a power cut between two keys, leaves a
  usable record with credentials of two submissions, and a usable record never
  raises the portal again (`provisioning.cpp:392`). `AnsweredIsStored` needs it too,
  and ends where `config_storage_init` erases a partition it cannot use
  (`config_nvs.cpp:45`): the answer "Saved" does not outlive that, and the model
  takes it back with the keys.
* An image that has reached the broker can still be given up: when a reset falls
  between the session and the mark, or the mark fails (`net.cpp:79`,
  `ota.cpp:119`). The image before it is whole then, which `UpdateKeepsPromise` and
  `GoodImageKept` say.
* A chance frame in garbage costs the search for the line settings two more bursts
  (`app_main.cpp:432`). One random burst of 400 bytes in ten has one.
* `UpdatingShownAlone` needs `~early`: a command handled between `mqtt_start` and
  the boot's last `indicate` has its pattern overwritten by Operational
  (`app_main.cpp:288`); and `~overlapped`: of two tasks created by two commands in
  the receive buffer, the one that fails first takes the pattern away from the
  other (`ota.cpp:71`). With overlapping commands a selected slot can also be
  erased again before the restart (`ota.cpp:54`), which `GoodImageKept` shows to
  be harmless for the device.
* The length of a field is compared before its escapes are decoded
  (`provisioning.cpp:117`), so values that `config.h:24` allows are refused when
  many of their octets need an escape. Nothing wrong is stored (`FormKept`).
* The green pulse is a moment, `pulse_until_us`, that the LED task has to be awake
  in. Held up for longer than that, by a download's TLS, the client or a flash
  erase, it comes too late and the publication is never shown
  (`indicator.cpp:90`, FR-LED-02). With `MaxLate` at 12 ticks instead of 2, TLC
  finds `PublicationSeen` violated.
* FR-LED-03 asks for red blinking while a WiFi connection is retried. Connecting is
  shown once, before the first connection (`app_main.cpp:251`); a connection lost
  later is retried under Operational, which is dark (`net.cpp:51`, `WifiLost`).
* At FreeRTOS's default 100 Hz the LED task's 25 ms are 20, while `elapsed` counts
  25: patterns run at 80 % of their periods, and slower when passes are late. While
  the task is held up the light stays as it is, so in time nothing bounds how long
  an update looks steady; `Alternates` counts passes. The LED task has priority 2 and the
  main task 1, so the comment that it gives way to everything
  (`indicator.cpp:88`) does not hold for the main loop.
* The green pulse follows every call of `mqtt_publish_state`, also when the client
  dropped the message (`app_main.cpp:231`).
* A burst longer than the buffer keeps its end rather than its beginning
  (`app_main.cpp:322`). The simulated meter sleeps 10 s inside a loop watched at
  5 s (`sim_source.cpp:74`).
* A field whose escapes decode to a NUL is cut there by the code's string functions
  (`provisioning.cpp:77`); `PortalForm` counts octets and does not distinguish it.
* The portal may log that the stored configuration is unchanged while a submission
  is being written (`provisioning.cpp:405`). A power cut after the third key
  loses the hostname (`config_nvs.cpp:92`). When the DNS socket fails, the
  responder's task is deleted once by itself and once by the portal, just before a
  restart (`provisioning.cpp:413`).

### Bounds

* *Publisher*: two entities and one serial for safety (an entity announced and
  one not; discovery only compares the serial with "none"), two serials in
  `publisher_identity`; three faults, so that a second failure can hit the
  recovery from a first and a third the one from both; a socket of two messages,
  so that writes block; cycle numbers up to three. Liveness uses one entity, a
  socket of one message and three faults.
* *OtaUpdate*: two slots are the device's; two tasks overlap; two good images and
  one bad; resets, sessions and commands are unbounded.
* *MeterLoop*: `Gap`, `Watchdog`, `ReadMax`, `RxBuffer`, `MaxCycle` are the code's
  values in ticks and chunks; telegrams of
  7–11 chunks (338–480 bytes, the captures) with pauses up to 0.4 s inside and at
  least 2.4 s between, each chunk but the first at full or at half pace
  (`MaxTrickle`); the clock wraps every 56 ticks, so at every possible point of a
  cycle; four candidates with the right one last, and one burst of garbage that
  looks like a frame (`ChanceFrames`), on any wrong candidate. `MaxStall` is 1.6 s
  where telegrams must stay whole, 4 s in `meter_merge`, 10 s in `meter_watchdog`;
  the theorems hold for every pace, every number of chance frames and, but for
  `TelegramsWhole`, every stall.
* *CycleDecode*: the eleven numeric labels of the committed table with their
  lengths, the sizes of `CycleSet`, all cycles of up to three bytes (flag, flag,
  frame start is the longest interesting beginning). Values print as at most 15
  characters for a power (32 bits, a sign, three decimals) and 20 for an energy
  (64 bits); a scaler that made a power longer than that would reach the end of
  the buffer.
* *Provisioning*: every combination of four texts per field, at the limits of the
  record (one octet to either side), of escapes (three for one) and beyond the
  body; two of the combinations are accepted, so that a mixture can be told;
  three faults.
* *Indicator*: 10 ms ticks; no cycle ends in the first 1.6 s, which is when the
  boot colours are over at the latest; the low word of the time wraps after 1.68 s,
  while publications happen; `elapsed` wraps at 296, the smallest value above one
  update period with the residue of 2^32 modulo the 200 ms of the update pattern;
  the main task is held up for at most 30 ms between two stores, the LED task for at
  most 20 ms when it is due; 1.85 s are long enough
  for the boot colours, an update with a wrap and two publications. `GreenSeen` says
  for which `MaxLate` and `MaxPreempt` publications are seen, `DarkBetween` asks
  that the boot colours end before the first cycle, and `NeverDark` and
  `UpdateBlinks` hold for every one.

### Fairness

Tasks that can run do (one preemptive core, every wait ends). For `Publisher`:
the client reconnects and resends as long as it takes, both ends eventually
notice a dead connection (keep-alive), the station rejoins an access point that
is back, and the meter keeps sending telegrams. Strong fairness is used where a
fault or the lock can disable an action again and again. Faults are finitely
many, so the properties speak of what follows the last. For `Provisioning`: both
tasks run, `httpd_stop` returns between two requests, and somebody keeps
submitting the form. For `CycleDecode`: the main task runs and each call of the
parser returns. `MeterLoop` and `Indicator` are checked for safety only: their
deadlines are stated in ticks (`PromptDecode`, `PassBounded`, `PublicationSeen`),
which says more than "eventually". Liveness is out of reach of the prover and is
only model-checked.

## 4. Proofs

Each proof module rests on an inductive invariant, proved by one step per action;
the theorems follow from it. The assumptions are the named `ASSUME`s of the
modules and what a theorem states under ASSUME.

* `PublisherProofs`. `TypeCorrect` uses `TypeInv`: `TypeOK` and the fact that a
  pass beyond its checks knows the meter's identity, which is why a
  configuration is always a well-formed message, and why `AnonymousSilence`
  holds: nothing but "online" is on the wire or in the outbox before.
  `DiscoveryClaimed` is proved from `DiscoveryInv` for builds and networks where
  no reconnect falls inside a pass (`~ReconnectDuringPass`, explained above and
  not provable from the code): the claim alone is not inductive, since the pass
  marks a session as served long after it looked at the connection, so the
  invariant follows the configurations through the pass. `Availability` and
  `Freshness` need no such assumption. For `Freshness`, `FreshInv` adds that no
  state is ever in the outbox, so none is sent again, and that while a set may
  still be sent its number is newer than everything on the wire. From it follows
  `FeedKept`, the refinement of `MeasurementFeed`: the cycles on the wire are a
  recursive function of the messages (`CyclesIn`), and its lemmas (what appending
  a message does, and taking the first away) are proved by `SetInduction`.
* `OtaUpdateProofs`. `SlotInv` ties what a slot holds to whether it has proven
  itself: an image that has not reached the broker has no session, so no command
  and no download, so nothing can touch the proven one beside it; and a slot that
  is being written is not the running one. `GoodImageAlways` follows with or
  without rollback and for any number of overlapping tasks. `TrialInv` adds what
  the OTA data records, and gives `TrialStartsOnce` where rollback is built in: as
  long as the running image is pending, which it may be long after it has reached
  the broker, no task writes and the image beside it is proven.
  `AloneInv` follows the one task there is while commands do not overlap, for
  `SelectedWhole` and `PatternShown`. `PromiseKept` is the refinement: the start
  maps to a start, and every step to a step of `ABUpdate` or to none; a session
  without a mark maps to none where there is rollback, the mark accepts, and a reset
  before it, or after one that failed, rejects.
* `MeterLoopProofs`. `LoopInv` is `TypeOK` and the simulated source's position.
  `WatchdogInv` bounds the length of a pass by what it found in the driver: a
  read that waits does so for bytes that arrive, at most `MaxTrickle` + 1 ticks for
  each chunk, and returns when it has what it asked for. `PassesBounded` follows
  for ring buffers that hold a read; nothing is assumed of the pace or of how long
  a publish blocks. That a pass stays within the watchdog's timeout is not a
  theorem, because it is not true (`meter_watchdog`). `LockInv` counts two bursts
  for every candidate left behind and for every chance frame; `LineFound` assumes
  that bursts on the right settings decode (without that, two noisy bursts in a row
  start the round again).
  `TrailInv` says how far the loop can trail behind the meter: a read that waits
  has not got what it asked for, and the silence the meter has kept is at least the
  time `cycle_ended` computes, and longer by no more than a publish and a tick.
  `DecodedPromptly`
  follows, with nothing assumed but a gap and a buffer of at least one.
  `TelegramInv` adds where the bytes of each telegram are, between the meter, the
  driver and the cycle; `TelegramsWhole` follows under `Timing`: no pause inside a
  telegram reaches the gap, every silence exceeds it, both buffers hold a telegram,
  and a publish is short enough (see `meter_merge`). The first three are the
  meter's and the code's numbers; the last is an assumption about the broker.
* `CycleDecodeProofs`. `SetInv` says that the labels are those of the text and
  those of the values decoded first; `FirstKept` needs a table no larger than the
  set (`Room`), as the committed one is. `FrameStart` is about a recursive
  function: `SkipSolves` shows that the recursion of `LeadingFlags` has a solution,
  `SkipStops` by induction from the end of the bytes where it stops, so the theorem
  holds for cycles of any length. `FitInv` bounds the open text by its labels;
  `CompleteMessage` needs a table whose entries at their longest leave two of the
  set's characters free, which 11 entries of at most 44 in 512 do.
* `ProvisioningProofs`. `ProvisioningInv` says which prefix of the keys a save
  has written and that the broker, third in order, makes a record usable only
  when the SSID and the passphrase are already those of the same submission.
  `RecordsCoherent` and `AnswersKept` follow for any number of forms and faults.
  `AcceptedWhole` is arithmetic over the body: the limits of the fields leave room
  for every accepted value, so `FormsKept` holds for texts of any length.
* `IndicatorProofs`. What has not been rendered is younger than what the task
  still sleeps: `LitInv` for an update (`NeverDark`), `UnseenInv` for a
  publication (`GreenSeen`), `PulseInv` for its end (`DarkBetween`). `WholeRead`
  says that two words make the time they came from, for every word size;
  `StoringInv` bounds how long they may not. `GreenSeen` and `DarkBetween` assume
  that the boot colours with what holds the task up (1.5 s and more) end before the
  first cycle can (2 s), and `GreenSeen` that a pulse is longer than a pass, late by
  `MaxLate`, and the time the main task is held up between two stores: the part of
  FR-LED-02 that the code leaves to the scheduler. `ShownInv` bounds how many passes
  can have shown an update in one colour by where `elapsed` is (`Run`): four, and
  eight where it wraps inside the blue half, which with the 2^32 of the code it
  does. `UpdateBlinks` needs only that `elapsed` counts further than that; it holds
  however late the passes are, because it counts passes and not time.

`SetInduction` replaces the library's induction theorems, which take an operator
that the provers cannot instantiate: a set that contains 0 and with every number
the next contains them all, proved from the least element of a set of naturals
(`NatLessThanWellFounded`), and with it that a recursion over 0..N has a solution.

Every invariant and every action property of the passing runs is stated by a
theorem. Only model-checked are the liveness properties, which like `ENABLED` are
out of the prover's reach.

## 5. Plan

What is left, in this order:

1. A composition of `Publisher`'s session events with `OtaUpdate`'s, so that
   `MarkValidOnSession` is driven by the same connection that carries the command.
2. The URL rule of `ota_handle_command` and the topic match of `on_mqtt` over
   classes of payloads, with fragmented messages.
3. A composition of `MeterLoop` and `CycleDecode`, so that the bytes of a whole
   telegram are those whose frame start is kept.

## 6. Not modelled, and why

The DLMS parser is third-party; `MeterLoop` and `CycleDecode` take its outcome as
a choice. Topic and payload formatting of discovery and numeric conversion keep
no state. The DNS responder, the network scan and the access-point set-up are
straight-line code around library calls whose outcome the device does not depend
on. The Linked indication is defined and never shown. Logging is left out. Timing
below 200 ms is left out of `MeterLoop`, below a tick of `Indicator`. The tests,
the bench harness and the build files are not part of the running system.
