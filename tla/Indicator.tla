------------------------------ MODULE Indicator ------------------------------
(***************************************************************************)
(* The LED (indicator.cpp, indicator.h): one task owns the pins and        *)
(* renders the pattern of `current` every TICK_MS; app_main and the        *)
(* download task only set `current`, and publish_cycle sets the time until *)
(* which the light is green.                                               *)
(*                                                                         *)
(* The unit of time is the FreeRTOS tick, TickMs milliseconds.  The LED    *)
(* task has priority 2, the main task 1: the first preempts the second     *)
(* between the two 32-bit stores of the 64-bit pulse_until_us, and reads a *)
(* mixture.  Words are Word ticks here; times between two ticks count as   *)
(* the earlier one.                                                        *)
(*                                                                         *)
(* The download task (4), the MQTT client and the network (5 and more) and *)
(* flash operations come before the LED task, so a pass may begin late.    *)
(* Nothing in the code bounds how late; MaxLate does here, and what holds  *)
(* of the light holds within that.                                         *)
(*                                                                         *)
(* WiFi is external: after the first connection on_wifi retries lost ones  *)
(* without touching the indication.  When updates begin and end is the     *)
(* business of OtaUpdate; here one runs at a time.                         *)
(***************************************************************************)
EXTENDS Integers

CONSTANTS
    TickMs,        \* milliseconds of a FreeRTOS tick (1000 / CONFIG_FREERTOS_HZ)
    CycleGap,      \* ticks after the start before a cycle can have ended
    Word,          \* bound: ticks the low word of pulse_until_us counts
    ElapsedMod,    \* bound: elapsed wraps here, where the code's wraps at 2^32
    MaxPreempt,    \* bound: ticks the main task is held up between two stores
    MaxLate,       \* bound: ticks the LED task is held up when its delay is over
    MaxTime        \* bound: ticks since the last start

ASSUME IndicatorAssumption ==
    /\ {TickMs, CycleGap, Word, ElapsedMod, MaxPreempt, MaxTime} \subseteq Nat \ {0}
    /\ MaxLate \in Nat

VARIABLES
    stage,         \* where app_main is, and whether WiFi is being retried
    updating,      \* a download task has shown Updating and not yet ended
    current, pulse_until,     \* indicator.cpp; the latter as its two words
    storing,       \* the value indicate_publish is storing, or None
    \* ---- the LED task
    step,          \* boot colours shown so far; 4 once patterns are rendered
    elapsed, light,
    wake,          \* ticks until it runs: its vTaskDelay, and what holds it up
    now,
    \* ---- bookkeeping of the model: ages in ticks, up to AgeCap
    since,         \* of the indication
    published,     \* of the last publication
    seen,          \* the light has been green since that publication
    steady         \* passes in a row that showed an update in one colour, up to 9

calls == <<stage, updating, current, pulse_until, storing>>
led   == <<step, elapsed, light, wake>>
ages  == <<since, published, seen, steady>>
vars  == <<calls, led, now, ages>>

None    == -1
Colours == {"red", "green", "blue"}

TICK_MS          == 25
BOOT_STEP_MS     == 500
PUBLISH_PULSE_MS == 100

\* pdMS_TO_TICKS rounds down.
Ticks(ms) == ms \div TickMs

Sample == Ticks(TICK_MS)
Pulse  == Ticks(PUBLISH_PULSE_MS)

\* The longest time from one pass to the next.
Pass == Sample + MaxLate

Pattern(a, b, period) == [a |-> a, b |-> b, period |-> period]

Mut_pattern_for_Blink(i) ==
    CASE i = "Boot"         -> Pattern({"red"}, {"blue"}, 1500)
      [] i = "Provisioning" -> Pattern({"blue"}, {"blue"}, 0)
      [] i = "Connecting"   -> Pattern({"red"}, {}, 5000)
      [] i = "Operational"  -> Pattern({}, {}, 0)
      [] i = "Updating"     -> Pattern({"blue"}, {}, 200)

\* The table of FSD 11.3.  Linked, which no code shows, is left out.
pattern_for(i) ==
    CASE i = "Boot"         -> Pattern({"red"}, {"blue"}, 1500)
      [] i = "Provisioning" -> Pattern({"blue"}, {"blue"}, 0)
      [] i = "Connecting"   -> Pattern({"red"}, {}, 5000)
      [] i = "Operational"  -> Pattern({}, {}, 0)
      [] i = "Updating"     -> Pattern({"blue"}, {"green"}, 200)

Indications == {"Boot", "Provisioning", "Connecting", "Operational", "Updating"}

\* No property looks at an age beyond a pulse and a pass.
AgeCap == Pulse + Pass + 1
Older(age) == IF age < AgeCap THEN age + 1 ELSE age

Words(t)   == [hi |-> t \div Word, lo |-> t % Word]
Read(w)    == w.hi * Word + w.lo

-----------------------------------------------------------------------------
PoweredOn(s, u, c, p, st, sp, e, l, w, n) ==
    /\ s = "boot" /\ u = FALSE /\ c = "Boot" /\ p = Words(0) /\ st = None
    /\ sp = 0 /\ e = 0 /\ l = {} /\ w = 0 /\ n = 0

Init ==
    /\ PoweredOn(stage, updating, current, pulse_until, storing, step, elapsed, light, wake, now)
    /\ since = 0 /\ published = AgeCap /\ seen = TRUE /\ steady = 0

\* esp_restart, after the portal or a completed download.
Restart ==
    /\ stage = "portal" \/ updating
    /\ PoweredOn(stage', updating', current', pulse_until', storing',
                 step', elapsed', light', wake', now')
    /\ since' = 0 /\ published' = AgeCap /\ seen' = TRUE /\ steady' = 0

-----------------------------------------------------------------------------
(* The callers.                                                             *)

indicate(i) ==
    /\ current' = i
    /\ since' = IF i = current THEN since ELSE 0

Calls == UNCHANGED <<pulse_until, storing, led, now, published, seen, steady>>

\* app_main, from indicator_start to the main loop.
ShowConnecting ==
    /\ stage = "boot" /\ step > 0
    /\ stage' = "joining" /\ indicate("Connecting")
    /\ Calls /\ UNCHANGED updating

EnterPortal ==
    /\ stage = "joining"
    /\ stage' = "portal" /\ indicate("Provisioning")
    /\ Calls /\ UNCHANGED updating

Joined ==
    /\ stage = "joining"
    /\ stage' = "running" /\ indicate("Operational")
    /\ Calls /\ UNCHANGED updating

\* on_wifi: the retries leave the indication alone.
WifiLost == stage = "running" /\ stage' = "retrying" /\ Calls /\ UNCHANGED <<updating, current, since>>
WifiBack == stage = "retrying" /\ stage' = "running" /\ Calls /\ UNCHANGED <<updating, current, since>>

\* download_task: its first and its last act, unless the device restarts.  Its
\* command came over a session, but WiFi may be gone by the time it runs.
UpdateBegins ==
    /\ stage \in {"running", "retrying"} /\ ~updating
    /\ updating' = TRUE /\ indicate("Updating")
    /\ Calls /\ UNCHANGED stage

UpdateFails ==
    /\ updating
    /\ updating' = FALSE /\ indicate("Operational")
    /\ Calls /\ UNCHANGED stage

Mut_PulseEnd_TenTimes == now + 10 * Pulse
Mut_PulseEnd_Microseconds == now

PulseEnd == now + Pulse

\* indicate_publish, called by publish_cycle, which a lost WiFi does not interrupt:
\* one word is stored, then the other.
\* Cycles end at least CycleGap after the start and after each other; the ages
\* do not count that far, so a publication may follow as early as AgeCap.
PublishBegins ==
    /\ stage \in {"running", "retrying"} /\ storing = None
    /\ now >= CycleGap /\ published = AgeCap
    /\ storing' = PulseEnd
    /\ \/ pulse_until' = [pulse_until EXCEPT !.lo = Words(PulseEnd).lo]
       \/ pulse_until' = [pulse_until EXCEPT !.hi = Words(PulseEnd).hi]
    /\ UNCHANGED <<stage, updating, current, led, now, ages>>

PublishEnds ==
    /\ storing # None
    /\ pulse_until' = Words(storing) /\ storing' = None
    /\ published' = 0 /\ seen' = FALSE
    /\ UNCHANGED <<stage, updating, current, led, now, since, steady>>

-----------------------------------------------------------------------------
(* The LED task.                                                            *)

\* vTaskDelay, and what keeps the task from running when it is over.
Sleep(ticks) == wake' \in ticks..ticks + MaxLate

BootColour ==
    /\ wake = 0 /\ step < 3
    /\ light' = {<<"red", "green", "blue">>[step + 1]}
    /\ step' = step + 1 /\ Sleep(Ticks(BOOT_STEP_MS))
    /\ UNCHANGED <<calls, elapsed, now, ages>>

Mut_Rendered_PhaseStuck ==
    LET p == pattern_for(current) IN
        IF now < Read(pulse_until) THEN {"green"} ELSE p.a

Rendered ==
    LET p == pattern_for(current) IN
        IF now < Read(pulse_until) THEN {"green"}
        ELSE IF p.period = 0 \/ elapsed % p.period < p.period \div 2 THEN p.a
        ELSE p.b

\* How long an update's light has been of one colour; a pulse starts it over.
CountSteady ==
    steady' = IF current # "Updating" \/ now < Read(pulse_until) THEN 0
              ELSE IF steady = 0 \/ Rendered # light THEN 1
              ELSE IF steady < 9 THEN steady + 1 ELSE steady

Mut_Render_NoWrap ==
    /\ wake = 0 /\ step >= 3
    /\ light' = Rendered /\ CountSteady
    /\ seen' = (seen \/ Rendered = {"green"})
    /\ step' = 4 /\ Sleep(Sample)
    /\ elapsed' = elapsed + TICK_MS
    /\ UNCHANGED <<calls, now, since, published>>

\* One pass of the loop; its elapsed counts TICK_MS whatever the delay took.
Render ==
    /\ wake = 0 /\ step >= 3
    /\ light' = Rendered /\ CountSteady
    /\ seen' = (seen \/ Rendered = {"green"})
    /\ step' = 4 /\ Sleep(Sample)
    /\ elapsed' = (elapsed + TICK_MS) % ElapsedMod
    /\ UNCHANGED <<calls, now, since, published>>

\* Time passes while the LED task sleeps or is held up.
Tick ==
    /\ wake > 0 /\ now < MaxTime
    /\ storing # None => now - (storing - Pulse) < MaxPreempt
    /\ wake' = wake - 1 /\ now' = now + 1
    /\ since' = Older(since) /\ published' = Older(published)
    /\ UNCHANGED <<calls, step, elapsed, light, seen, steady>>

-----------------------------------------------------------------------------
Next ==
    \/ Restart \/ ShowConnecting \/ EnterPortal \/ Joined \/ WifiLost \/ WifiBack
    \/ UpdateBegins \/ UpdateFails \/ PublishBegins \/ PublishEnds
    \/ BootColour \/ Render \/ Tick

Spec == Init /\ [][Next]_vars

-----------------------------------------------------------------------------
(* Properties.                                                              *)

\* The values the callers, the LED task and its clock can take.
TypeOK ==
    /\ stage \in {"boot", "joining", "portal", "running", "retrying"}
    /\ updating \in BOOLEAN /\ current \in Indications
    /\ pulse_until.hi \in Nat /\ pulse_until.lo \in 0..Word - 1
    /\ storing \in Nat \cup {None}
    /\ step \in 0..4 /\ light \in SUBSET Colours
    /\ elapsed \in 0..ElapsedMod - 1 /\ wake \in 0..Ticks(BOOT_STEP_MS) + MaxLate
    /\ now \in 0..MaxTime
    /\ {since, published} \subseteq 0..AgeCap /\ seen \in BOOLEAN /\ steady \in 0..9

\* An indication that is older than one pass has been rendered, once the boot
\* colours are over.
Settled == step = 4 /\ since > Pass

\* No publication is under way, and the last one is over and rendered.
NoPulse == storing = None /\ published > Pulse + Pass

\* While an update is shown the light is never off, whatever pulses and boot
\* colours come in between (FR-LED-04: "Indicator off at any point during the
\* write").
NeverOffUpdating == Settled /\ current = "Updating" => light # {}

\* Between publications an operating device is dark (FR-LED-05): no pulse,
\* read whole or torn, outlasts its publication.
DarkWhenIdle == Settled /\ NoPulse /\ current = "Operational" => light = {}

\* Every publication turns the light green within one pass (FR-LED-02), also
\* when the LED task has read half of the new time.  With MaxLate this asks that
\* the task is not held up until the pulse is over.
PublicationSeen == storing = None /\ published > Pass => seen

\* An update cannot be mistaken for the portal's steady blue (FR-LED-05): apart
\* from pulses its light changes after eight passes at most, also when elapsed
\* wraps.  It is counted in passes: while the task is held up the light stays.
Alternates == steady <= 8
=============================================================================
