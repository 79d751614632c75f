------------------------------ MODULE OtaUpdate ------------------------------
(***************************************************************************)
(* Firmware update (ota.cpp): a command received on the MQTT session       *)
(* starts a task that downloads an image into the slot that is not         *)
(* running, selects it and restarts; the handler of a new broker session   *)
(* marks the image valid, if nothing fails or resets it before; a reset    *)
(* before that lets the bootloader go back.                                *)
(*                                                                         *)
(* External, and modelled by what ota.cpp relies on: esp_https_ota (it     *)
(* erases and writes the slot esp_ota_get_next_update_partition names,     *)
(* verifies the result and only then selects it), the OTA data partition   *)
(* with one state per slot, and the bootloader, which moves a new image to *)
(* pending, gives up a pending one, and never starts an image that does    *)
(* not verify while the other slot holds one that does.                    *)
(*                                                                         *)
(* The command is handled in the MQTT client's task at priority 5; the     *)
(* download task runs at 4.  Created is therefore not the same as started: *)
(* a second command that is already in the receive buffer is handled       *)
(* before the first download task has executed a single instruction.       *)
(***************************************************************************)
EXTENDS Integers

CONSTANTS
    Good, Bad,       \* images that reach the broker once booted, and that do not
    Factory,         \* the image the device was first flashed with
    Partial,         \* what a slot holds while it is not a complete image
    Tasks,           \* bound: download tasks that fit in memory at once
    Rollback         \* the bootloader is built with rollback support

Images == Good \cup Bad
Slots  == {0, 1}
Other(s) == 1 - s

ASSUME OtaAssumption ==
    /\ Factory \in Good /\ Partial \notin Images /\ Good \cap Bad = {}
    /\ Rollback \in BOOLEAN

VARIABLES
    \* ---- flash: survives a reset
    content,      \* what each slot holds
    selected,     \* the slot the OTA data selects
    state,        \* the image state the OTA data records for each slot
    \* ---- the running firmware
    running,      \* the slot it was started from
    boot,         \* where app_main is: joining WiFi, client started, in its loop
    session,      \* a broker session is established
    marking,      \* its handler has not come to ota_mark_valid_on_session yet
    downloading, validated, pending_url,   \* the variables of ota.cpp
    indication,   \* what the LEDs show
    task,         \* where each download task is
    url,          \* the image each task fetches
    clash,        \* tasks that wrote the slot while this one did
    \* ---- bookkeeping of the model
    proven,       \* the image in the slot has reached the broker
    starts,       \* times the image in the slot was started unproven, up to 2
    overlapped,   \* a command was accepted before the task of another had ended
    early         \* a task began before app_main showed Operational

flash    == <<content, selected, state>>
firmware == <<running, boot, session, marking, downloading, validated, pending_url,
              indication>>
tasks    == <<task, url, clash>>
history  == <<proven, starts, overlapped, early>>
vars     == <<flash, firmware, tasks, history>>

TaskStates == {"none", "created", "fetching", "writing", "failed", "restarting"}

\* What esp_ota_set_boot_partition records of a freshly selected image.
Selected == IF Rollback THEN "new" ELSE "undefined"

Idle == [t \in Tasks |-> "none"]

Writers == {t \in Tasks : task[t] = "writing"}

-----------------------------------------------------------------------------
Init ==
    /\ content = [s \in Slots |-> IF s = 0 THEN Factory ELSE Partial]
    /\ selected = 0 /\ state = [s \in Slots |-> "undefined"]
    /\ running = 0 /\ boot = "joining" /\ session = FALSE /\ marking = FALSE
    /\ downloading = FALSE /\ validated = FALSE /\ pending_url = Factory
    /\ indication = "Connecting"
    /\ task = Idle /\ url = [t \in Tasks |-> Factory] /\ clash = [t \in Tasks |-> {}]
    /\ proven = [s \in Slots |-> s = 0] /\ starts = [s \in Slots |-> 0]
    /\ overlapped = FALSE /\ early = FALSE

-----------------------------------------------------------------------------
(* The bootloader and the start of the firmware.                            *)

\* The slot the next reset starts from, and what it leaves in the OTA data.
GivenUp  == Rollback /\ state[selected] = "pending"
Chosen   == IF GivenUp THEN Other(selected) ELSE selected
BootSlot == IF content[Chosen] # Partial THEN Chosen ELSE Other(Chosen)

BootState ==
    [s \in Slots |->
        IF GivenUp /\ s = selected THEN "aborted"
        ELSE IF s = Chosen /\ state[s] = "new" THEN "pending"
        ELSE state[s]]

CountStart ==
    starts' = [s \in Slots |->
        IF s = BootSlot /\ ~proven[s] /\ starts[s] < 2 THEN starts[s] + 1 ELSE starts[s]]

Mut_Reset_ValidAtBoot ==
    /\ running' = BootSlot /\ selected' = Chosen
    /\ state' = [BootState EXCEPT ![BootSlot] = "valid"]
    /\ boot' = "joining" /\ session' = FALSE /\ marking' = FALSE /\ downloading' = FALSE
    /\ validated' = TRUE /\ pending_url' = Factory /\ indication' = "Connecting"
    /\ task' = Idle /\ clash' = [t \in Tasks |-> {}] /\ early' = FALSE
    /\ CountStart /\ UNCHANGED <<content, url, proven, overlapped>>

\* Everything in memory starts over; app_main shows Connecting and joins WiFi.
Reset ==
    /\ running' = BootSlot /\ selected' = Chosen /\ state' = BootState
    /\ boot' = "joining" /\ session' = FALSE /\ marking' = FALSE /\ downloading' = FALSE
    /\ validated' = FALSE /\ pending_url' = Factory /\ indication' = "Connecting"
    /\ task' = Idle /\ clash' = [t \in Tasks |-> {}] /\ early' = FALSE
    /\ CountStart /\ UNCHANGED <<content, url, proven, overlapped>>

PowerCut == Reset

\* wifi_start_and_wait has returned and mqtt_start has started the client.
Joined ==
    /\ boot = "joining" /\ boot' = "started"
    /\ UNCHANGED <<flash, running, session, marking, downloading, validated, pending_url,
                   indication, tasks, history>>

\* app_main shows Operational, whatever the client's task has done meanwhile;
\* ota_start only reports the state of the image.
BootEnds ==
    /\ boot = "started" /\ boot' = "up"
    /\ indication' = "Operational"
    /\ early' = (early \/ task # Idle)
    /\ UNCHANGED <<flash, running, session, marking, downloading, validated, pending_url,
                   tasks, proven, starts, overlapped>>

-----------------------------------------------------------------------------
(* The broker session.                                                      *)

\* CONNECTED: the handler announces the device and subscribes, both of which may
\* block, before it comes to the mark.
SessionUp ==
    /\ boot # "joining" /\ ~session /\ ~marking /\ content[running] \in Good
    /\ session' = TRUE /\ marking' = TRUE
    /\ proven' = [proven EXCEPT ![running] = TRUE]
    /\ UNCHANGED <<flash, running, boot, downloading, validated, pending_url, indication,
                   tasks, starts, overlapped, early>>

\* ota_mark_valid_on_session, the handler's last act.  It leaves everything as it
\* is if the image was validated before, if its state cannot be read, or if the
\* mark fails, which is only logged; the next session's handler tries again.
MarkValidOnSession ==
    /\ marking /\ marking' = FALSE
    /\ \/ UNCHANGED <<state, validated>>
       \/ /\ ~validated /\ validated' = TRUE
          /\ state' = IF state[running] = "pending"
                        THEN [state EXCEPT ![running] = "valid"] ELSE state
    /\ UNCHANGED <<content, selected, running, boot, session, downloading, pending_url,
                   indication, tasks, history>>

\* The session may be lost while its handler is still at work.
SessionDown ==
    /\ session /\ session' = FALSE
    /\ UNCHANGED <<flash, running, boot, marking, downloading, validated, pending_url,
                   indication, tasks, history>>

-----------------------------------------------------------------------------
(* ota_handle_command, with a payload that names an acceptable URL (any     *)
(* other is refused without a change of state).  The client's task handles  *)
(* it once it is done with CONNECTED.  The task it creates may not fit in   *)
(* memory, in which case only the URL has changed.                          *)

Command(i) ==
    /\ session /\ ~marking /\ ~downloading
    /\ pending_url' = i
    /\ overlapped' = (overlapped \/ task # Idle)
    /\ \/ \E t \in Tasks : task[t] = "none" /\ task' = [task EXCEPT ![t] = "created"]
       \/ UNCHANGED task
    /\ UNCHANGED <<flash, running, boot, session, marking, downloading, validated, indication,
                   url, clash, proven, starts, early>>

-----------------------------------------------------------------------------
(* download_task.                                                           *)

Mut_TaskStarts_Silent(t) ==
    /\ task[t] = "created"
    /\ task' = [task EXCEPT ![t] = "fetching"]
    /\ downloading' = TRUE /\ UNCHANGED indication
    /\ url' = [url EXCEPT ![t] = pending_url]
    /\ UNCHANGED <<flash, running, boot, session, marking, validated, pending_url, clash, history>>

TaskStarts(t) ==
    /\ task[t] = "created"
    /\ task' = [task EXCEPT ![t] = "fetching"]
    /\ downloading' = TRUE /\ indication' = "Updating"
    /\ url' = [url EXCEPT ![t] = pending_url]
    /\ UNCHANGED <<flash, running, boot, session, marking, validated, pending_url, clash, history>>

Mut_BeginWrite_NextAfterSelected(t) ==
    /\ task[t] = "fetching"
    /\ ~(Rollback /\ state[running] = "pending")
    /\ task' = [task EXCEPT ![t] = "writing"]
    /\ content' = [content EXCEPT ![Other(selected)] = Partial]
    /\ proven' = [proven EXCEPT ![Other(selected)] = FALSE]
    /\ starts' = [starts EXCEPT ![Other(selected)] = 0]
    /\ clash' = [u \in Tasks |-> IF u = t THEN Writers
                                 ELSE IF u \in Writers THEN clash[u] \cup {t} ELSE clash[u]]
    /\ UNCHANGED <<selected, state, firmware, url, overlapped, early>>

Mut_BeginWrite_SelectsFirst(t) ==
    /\ task[t] = "fetching"
    /\ task' = [task EXCEPT ![t] = "writing"]
    /\ content' = [content EXCEPT ![Other(running)] = Partial]
    /\ proven' = [proven EXCEPT ![Other(running)] = FALSE]
    /\ starts' = [starts EXCEPT ![Other(running)] = 0]
    /\ selected' = Other(running)
    /\ UNCHANGED <<clash, state, firmware, url, overlapped, early>>

Mut_BeginWrite_SelfClash(t) ==
    /\ task[t] = "fetching"
    /\ task' = [task EXCEPT ![t] = "writing"]
    /\ content' = [content EXCEPT ![Other(running)] = Partial]
    /\ proven' = [proven EXCEPT ![Other(running)] = FALSE]
    /\ starts' = [starts EXCEPT ![Other(running)] = 0]
    /\ clash' = [clash EXCEPT ![t] = Writers \cup {t}]
    /\ UNCHANGED <<selected, state, firmware, url, overlapped, early>>

\* The server answered and its certificate verified: esp_https_ota erases the
\* slot it will write.  It refuses to while the running image is pending.
BeginWrite(t) ==
    /\ task[t] = "fetching"
    /\ ~(Rollback /\ state[running] = "pending")
    /\ task' = [task EXCEPT ![t] = "writing"]
    /\ content' = [content EXCEPT ![Other(running)] = Partial]
    /\ proven' = [proven EXCEPT ![Other(running)] = FALSE]
    /\ starts' = [starts EXCEPT ![Other(running)] = 0]
    /\ clash' = [u \in Tasks |-> IF u = t THEN Writers
                                 ELSE IF u \in Writers THEN clash[u] \cup {t} ELSE clash[u]]
    /\ UNCHANGED <<selected, state, firmware, url, overlapped, early>>

\* The image verifies and is selected.  Two tasks that wrote the slot at once
\* leave an image that verifies only if they wrote the same one.
FinishWrite(t) ==
    /\ task[t] = "writing"
    /\ \A u \in clash[t] : url[u] = url[t]
    /\ task' = [task EXCEPT ![t] = "restarting"]
    /\ content' = [content EXCEPT ![Other(running)] = url[t]]
    /\ selected' = Other(running)
    /\ state' = [state EXCEPT ![Other(running)] = Selected]
    /\ downloading' = FALSE
    /\ UNCHANGED <<running, boot, session, marking, validated, pending_url, indication, url, clash,
                   history>>

\* A refused certificate, a lost network, a timeout or an image that does not
\* verify: nothing is selected.
TaskFails(t) ==
    /\ task[t] \in {"fetching", "writing"}
    /\ task' = [task EXCEPT ![t] = "failed"]
    /\ downloading' = FALSE
    /\ UNCHANGED <<flash, running, boot, session, marking, validated, pending_url, indication,
                   url, clash, history>>

\* The task that failed shows Operational, whatever a command has started since.
TaskEnds(t) ==
    /\ task[t] = "failed"
    /\ task' = [task EXCEPT ![t] = "none"]
    /\ indication' = "Operational"
    /\ UNCHANGED <<flash, running, boot, session, marking, downloading, validated, pending_url,
                   url, clash, history>>

\* esp_restart, half a second after the image was selected.
TaskRestarts(t) == task[t] = "restarting" /\ Reset

DownloadTask(t) ==
    TaskStarts(t) \/ BeginWrite(t) \/ FinishWrite(t) \/ TaskFails(t) \/ TaskEnds(t)
    \/ TaskRestarts(t)

-----------------------------------------------------------------------------
Next ==
    \/ PowerCut \/ Joined \/ BootEnds \/ SessionUp \/ MarkValidOnSession \/ SessionDown
    \/ \E i \in Images : Command(i)
    \/ \E t \in Tasks : DownloadTask(t)

Spec == Init /\ [][Next]_vars

-----------------------------------------------------------------------------
(* Properties.                                                              *)

\* The values the flash, the variables of ota.cpp and the tasks can take.
TypeOK ==
    /\ content \in [Slots -> Images \cup {Partial}]
    /\ selected \in Slots /\ running \in Slots
    /\ state \in [Slots -> {"undefined", "new", "pending", "valid", "aborted"}]
    /\ session \in BOOLEAN /\ marking \in BOOLEAN /\ downloading \in BOOLEAN /\ validated \in BOOLEAN
    /\ pending_url \in Images
    /\ boot \in {"joining", "started", "up"}
    /\ indication \in {"Connecting", "Operational", "Updating"}
    /\ task \in [Tasks -> TaskStates]
    /\ url \in [Tasks -> Images]
    /\ clash \in [Tasks -> SUBSET Tasks] /\ \A t \in Tasks : t \notin clash[t]
    /\ proven \in [Slots -> BOOLEAN] /\ starts \in [Slots -> 0..2]
    /\ overlapped \in BOOLEAN /\ early \in BOOLEAN

\* However commands overlap and wherever power is cut, one of the slots holds
\* a complete image that has reached the broker before, so no update can leave
\* the device without a firmware that works (FR-OTA-04, FR-OTA-07).
GoodImageKept == \E s \in Slots : proven[s] /\ content[s] \in Good

\* A slot selected for the next start holds a complete image: nothing partial
\* is bootable (FR-OTA-09), as long as no command overtakes a download.
SelectedIsWhole == ~overlapped => content[selected] # Partial

\* While a task fetches or writes an image the update pattern is shown
\* (FR-LED-04): it is what keeps a person from cutting the power.
UpdatingShown ==
    (\E t \in Tasks : task[t] \in {"fetching", "writing"}) => indication = "Updating"

\* The same, as long as no command overtakes a download or app_main's last step
\* of the boot: then a task that fails is the only one, and no handler, boot or
\* reset takes the pattern away from it.
UpdatingShownAlone == ~overlapped /\ ~early => UpdatingShown

\* An image that has not reached the broker is started once: the reset that
\* ends its trial, whatever caused it, goes back to the image before it, and
\* it is never started again (FR-OTA-05, FR-OTA-07).
UnprovenStartsOnce == \A s \in Slots : ~proven[s] => starts[s] <= 1

\* Why these hold.  A slot that has proven itself holds a good image; the slot
\* being written is unproven and has not been started; an unproven image that
\* runs does so without a session, so without a download, and over a proven one.
SlotInv ==
    /\ \A s \in Slots : proven[s] => content[s] \in Good
    /\ ~proven[running] =>
         /\ proven[Other(running)] /\ selected = running
         /\ ~session /\ ~marking /\ ~validated /\ task = Idle
    /\ \A t \in Tasks : task[t] = "writing" => ~proven[Other(running)] /\ starts[Other(running)] = 0
    /\ selected # running => ~proven[selected]

\* With rollback, an unproven image is selected only while it is new (it has not
\* been started) or pending (it was started once).  While the image that runs is
\* pending, whether it has reached the broker or not, the one beside it is proven
\* and no task writes.
TrialInv ==
    /\ UnprovenStartsOnce
    /\ \A s \in Slots : state[s] = "new" => s # running /\ ~proven[s] /\ starts[s] = 0
    /\ \A s \in Slots : state[s] = "pending" => s = selected
    /\ ~proven[selected] => state[selected] \in {"new", "pending"}
    /\ state[running] = "pending" =>
         proven[Other(running)] /\ \A t \in Tasks : task[t] # "writing"

\* An image that runs is whole; without overlapping commands there is one task
\* at most, it shows the pattern unless app_main has just overwritten it, and
\* another slot than the running one is selected only in the half second before
\* the restart.
AloneInv ==
    /\ content[running] # Partial
    /\ ~overlapped =>
         /\ \A t, u \in Tasks : task[t] # "none" /\ task[u] # "none" => t = u
         /\ selected # running => /\ content[selected] # Partial
                                  /\ \E t \in Tasks : task[t] = "restarting"
         /\ UpdatingShownAlone

\* The invariant the proofs rest on.
OtaInv == SlotInv /\ (Rollback => TrialInv) /\ AloneInv

-----------------------------------------------------------------------------
(* What an update promises: the slots are an implementation of ABUpdate.    *)
(* An image is on trial while it runs and may still be given up: until it   *)
(* has reached the broker and, where the bootloader keeps a state, until it *)
(* is marked.  An image that runs and is not on trial is the installed one, *)
(* else the one beside it is; a whole image that is selected but not        *)
(* running waits for its trial.                                             *)

OnTrial == ~proven[running] \/ (Rollback /\ state[running] = "pending")

Installed == IF OnTrial THEN content[Other(running)] ELSE content[running]

Candidate ==
    IF OnTrial THEN content[running]
    ELSE IF selected # running THEN content[selected] ELSE Partial

AB == INSTANCE ABUpdate WITH
        None <- Partial, installed <- Installed, candidate <- Candidate, trial <- OnTrial

\* However commands overlap and wherever power is cut, also between a session and
\* its mark, the image to fall back on changes only to one that was offered,
\* tried, reached the broker and, with rollback, was marked; one whose mark fails
\* may be given up, and the image before it is still there (FR-OTA-04, FR-OTA-05,
\* FR-OTA-07).
UpdateKeepsPromise == AB!Spec
=============================================================================
